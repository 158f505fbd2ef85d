CONSTANTS
  Capacity = 2
  Thread = {t1, t2}
  Word = 8
  NULL = NULL
SPECIFICATION Spec
INVARIANT SoleOwner
CHECK_DEADLOCK FALSE
