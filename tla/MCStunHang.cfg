CONSTANTS
  MaxRetries = 2
  MaxForeign = 0
  Late = TRUE
SPECIFICATION FairSpec
CHECK_DEADLOCK FALSE
PROPERTY
  ResolveEnds
