\* Receive framing when the network may deliver a length header in pieces.
CONSTANTS
  AppPackets <- MCAppPackets
  PeerPackets <- MCPeerPackets
  SndBuf = 3
  SockErrors = FALSE
  PeerMayClose = FALSE
  NetSplitsHeader = TRUE
SPECIFICATION Spec
INVARIANT RecvFraming
CHECK_DEADLOCK FALSE
