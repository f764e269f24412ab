CONSTANTS
  Common = Common
  chan = chan
  Channels <- OneChannel
  MaxMade <- Bounds
  MaxCalls = 1
  MaxSwitches = 1
SPECIFICATION FairSpec
INVARIANTS
  TypeOK
  NoDuplicates
  NothingForgotten
PROPERTIES
  PtsNeverFalls
  EveryUpdateSettles
CHECK_DEADLOCK FALSE
