CONSTANTS
  MaxRetries = 2
  MaxForeign = 1
  Late = FALSE
SPECIFICATION FairSpec
CHECK_DEADLOCK FALSE
INVARIANTS
  TypeOK
  
  BehaviorSound
  FilteringSound

  
