CONSTANTS
  t1 = t1
  t2 = t2
  NoPiece = NoPiece
  Threads <- TwoThreads
  NumPieces = 2
  NumBlocks <- OneBlock
  MaxDiskFaults = 0
  MaxAttempts = 1
  PiecesPerByte = 2
  SentBitfields <- SomePieces
CHECK_DEADLOCK FALSE
SPECIFICATION ClientSpec
SYMMETRY ThreadSymmetry
INVARIANTS
  ClientTypeOK
  ExclusivePiece
  PendingHasRequest
  ExitMeansComplete
