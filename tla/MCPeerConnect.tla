---------------------------- MODULE MCPeerConnect ----------------------------
(* Peer threads over a small torrent, terminated at any moment. *)
EXTENDS PeerConnect, TLC

CONSTANTS t1, t2

OneThread   == {t1}
TwoThreads  == {t1, t2}
MCNumBlocks == [p \in Pieces |-> IF p = 0 THEN 2 ELSE 1]
OneBlock    == [p \in Pieces |-> 1]

\* Every bitfield of at most the bytes that the pieces need.
AllBitfields ==
  UNION {[size : {n}, have : SUBSET {p \in Pieces : p \div PiecesPerByte < n}] :
         n \in 0 .. (NumPieces - 1) \div PiecesPerByte + 1}

ThreadSymmetry == Permutations(TwoThreads)
===============================================================================
