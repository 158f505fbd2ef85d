CONSTANTS
  Object = {a, b, c}
  NULL = NULL
  InitialCapacities = {0, 1, 2}
  DefaultCapacity = 2
  MaxCapacity = 4
SPECIFICATION Spec
SYMMETRY ObjectSymmetry
INVARIANTS
  ChainsExact
PROPERTIES
  ListPromise
