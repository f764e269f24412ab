CONSTANTS
  Callers = {"c1"}
  Home = 2
  DCs = {1}
  Policy = "drop_oldest"
  MaxCalls = 1
  MaxOrders = 2
  MaxFaults = 1
  MaxPumps = 8
SPECIFICATION FairSpec
INVARIANTS
  PumpFollows
  OnePump
  OneSaver
PROPERTIES
  CallsEnd
  StopEndsRun
CHECK_DEADLOCK FALSE
