CONSTANTS
  Capacity = 3
  Ref = {r1, r2, r3, r4}
  NULL = NULL
SPECIFICATION Spec
INVARIANTS
  TypeOK
  CountsExact
  FreeListExact
PROPERTY PoolPromise
