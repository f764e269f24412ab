CONSTANTS
  Transfers = {"t1", "t2", "t3"}
  MaxConns = 3
  Want <- TwoEach
SPECIFICATION FairPoolSpec
PROPERTY
  EveryTransferEnds
CHECK_DEADLOCK FALSE
