CONSTANTS
  Transfers = {"t1", "t2", "t3"}
  MaxConns = 4
  Want <- TwoEach
SPECIFICATION FairPoolSpec
INVARIANT
  PermitsConserved
PROPERTY
  EveryTransferEnds
CHECK_DEADLOCK FALSE
