--------------------------- MODULE MCTorrentClient ---------------------------
(* The whole client: main thread, one or two peer threads, two pieces of one block. *)
EXTENDS TorrentClient, TLC

CONSTANTS t1, t2

OneThread    == {t1}
TwoThreads   == {t1, t2}
OneBlock     == [p \in Pieces |-> 1]
SomePieces   == {[size |-> 1, have |-> {1}]}

ThreadSymmetry == Permutations(TwoThreads)
===============================================================================
