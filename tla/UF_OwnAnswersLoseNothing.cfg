CONSTANTS
  Common = Common
  chan = chan
  Channels <- OneChannel
  MaxMade <- Bounds
  MaxCalls = 1
  MaxSwitches = 1
SPECIFICATION Spec
INVARIANT
  OwnAnswersLoseNothing
CHECK_DEADLOCK FALSE
