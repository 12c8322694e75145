CONSTANTS
  Handshake <- MCHandshake
  PeerStrings <- MCPeerStrings
  OwnMessages <- MCOwnMessages
  MaxSockets = 2
  MaxStrings = 3
  JunkBytes <- ZeroOrOne
  PrefixInOnePiece = TRUE
CHECK_DEADLOCK FALSE
SPECIFICATION TcpSpec
INVARIANTS
  TcpTypeOK
  OutgoingIsFramed
  EachSocketClosedOnce
PROPERTIES
  ChannelSpec
  ReceiveEnds
