---------------------------- MODULE MCTransferPool ----------------------------
EXTENDS TransferPool
TwoEach == [t \in Transfers |-> 2]
=============================================================================
