CONSTANTS
  Handshake <- MCHandshake
  PeerStrings <- MCPeerStrings
  OwnMessages <- MCOwnMessages
  MaxSockets = 2
  MaxStrings = 3
  JunkBytes <- ZeroOrOne
  PrefixInOnePiece = FALSE
CHECK_DEADLOCK FALSE
SPECIFICATION TcpSpec
INVARIANTS
  ReceivedIsSent
