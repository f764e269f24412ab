CONSTANTS
  Files <- SomeFiles
  Ceiling = 2
  Depth = 2
  MaxAttempts = 2
  Rounds = 2
SPECIFICATION FairSpec
INVARIANTS
  TypeOK
  OneOwner
  StopsAfterOne
  ProgressExact
PROPERTIES
  Implements
  CallEnds
CHECK_DEADLOCK FALSE
