CONSTANTS
  None = None
  Workers = {w1, w2}
  Capacity = 2
  Policies <- AllPolicies
  MaxBatch = 3
  MaxUpdates = 5
SPECIFICATION FairSpec
INVARIANTS
  TypeOK
  TaskAccounting
  StartedInOrder
  OneFate
  LossFollowsPolicy
  SentinelPerWorker
PROPERTIES
  ShutdownCompletes
  EveryUpdateSettles
  ImplementsFifo
CHECK_DEADLOCK FALSE
