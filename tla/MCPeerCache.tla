----------------------------- MODULE MCPeerCache -----------------------------
EXTENDS PeerCache
MCPeers ==
  {Peer("user", 1), Peer("channel", 1), Peer("community", 2), Peer("chat", 10)}
=============================================================================
