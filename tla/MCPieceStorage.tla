---------------------------- MODULE MCPieceStorage ----------------------------
(* The storage with two callers and pieces of one or two blocks. *)
EXTENDS PieceStorage, TLC

CONSTANTS t1, t2

MCThreads   == {t1, t2}
MCNumBlocks == [p \in Pieces |-> IF p = 0 THEN 2 ELSE 1]

ThreadSymmetry == Permutations(MCThreads)
===============================================================================
