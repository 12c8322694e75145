CONSTANTS
  t1 = t1
  t2 = t2
  NoPiece = NoPiece
  Threads <- MCThreads
  NumPieces = 3
  NumBlocks <- MCNumBlocks
  MaxDiskFaults = 1
SPECIFICATION StorageSpec
SYMMETRY ThreadSymmetry
INVARIANTS
  NoSharedPiece
