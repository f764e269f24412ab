CONSTANTS
  None = None
  Workers = {w1, w2}
  Capacity = 2
  Policies <- AllPolicies
  MaxBatch = 3
  MaxUpdates = 5
SPECIFICATION Spec
INVARIANT
  EveryWorkerReleased
CHECK_DEADLOCK FALSE
