CONSTANTS
  t1 = t1
  t2 = t2
  NoPiece = NoPiece
  Threads <- OneThread
  NumPieces = 2
  NumBlocks <- MCNumBlocks
  MaxDiskFaults = 0
  MaxAttempts = 1
  PiecesPerByte = 2
  SentBitfields <- AllBitfields
SPECIFICATION PeerSpec
PROPERTIES
  FlagEndsLoop
