\* Receive progress on a healthy connection: no hard socket errors, the
\* peer never closes, headers arrive in one piece.
CONSTANTS
  AppPackets <- MCAppPackets
  PeerPackets <- MCPeerPackets
  SndBuf = 3
  SockErrors = FALSE
  PeerMayClose = FALSE
  NetSplitsHeader = FALSE
SPECIFICATION Spec
PROPERTY Delivery
CHECK_DEADLOCK FALSE
