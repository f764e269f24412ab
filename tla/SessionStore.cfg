CONSTANTS
  Home = "dc2"
  Foreign = {"dc4"}
  Workers = {"w1", "w2"}
  Backends = {"shared", "memory", "string"}
  MaxPts = 1
  MaxKeys = 2
  MaxFaults = 1
SPECIFICATION FairSpec
INVARIANTS
  HomeKeyKept
  OneImport
  OpensKeepEachOther
PROPERTY
  StateReachesDisk
CHECK_DEADLOCK FALSE
