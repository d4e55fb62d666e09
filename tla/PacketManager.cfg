\* Safety of both directions and the destructor handshake, with hard socket
\* errors and peer close enabled; headers arrive in one piece.
CONSTANTS
  AppPackets <- MCAppPackets
  PeerPackets <- MCPeerPackets
  SndBuf = 3
  SockErrors = TRUE
  PeerMayClose = TRUE
  NetSplitsHeader = FALSE
SPECIFICATION Spec
INVARIANT TypeOK
INVARIANT SendConservation
INVARIANT RecvFraming
PROPERTY QuitAcknowledged
CHECK_DEADLOCK FALSE
