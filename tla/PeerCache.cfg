CONSTANTS
  Peers <- MCPeers
  Limit = 10
  MaxWrites = 2
SPECIFICATION Spec
INVARIANTS
  AddressedAsItself
  SavedIsKnown
CHECK_DEADLOCK FALSE
