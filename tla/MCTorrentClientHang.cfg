CONSTANTS
  t1 = t1
  t2 = t2
  NoPiece = NoPiece
  Threads <- OneThread
  NumPieces = 2
  NumBlocks <- OneBlock
  MaxDiskFaults = 0
  MaxAttempts = 2
  PiecesPerByte = 2
  SentBitfields <- SomePieces
CHECK_DEADLOCK FALSE
SPECIFICATION ClientSpec
PROPERTIES
  DeadRoundAsksForPeers
