-------------------------------- MODULE Piece --------------------------------
(***************************************************************************)
(* piece.h, piece.cpp: one part of the file, as the vector of its blocks.  *)
(*                                                                         *)
(* A block's status and data are folded into one value.  A block that was  *)
(* retrieved is "Good" when its bytes are those of the torrent's content   *)
(* at that place and "Bad" otherwise; SHA-1 is taken to be collision free, *)
(* so the piece's hash matches exactly when every block is "Good".  A      *)
(* block that is not retrieved has empty data and never matches.           *)
(***************************************************************************)
EXTENDS Integers

BlockState == {"Missing", "Pending", "Good", "Bad"}
BlockData  == {"Good", "Bad"}

\* The constructor: n blocks, numbered from 0, none of them asked for.
NewPiece(n) == [i \in 0 .. n - 1 |-> "Missing"]

MissingBlocks(piece) == {i \in DOMAIN piece : piece[i] = "Missing"}

\* Defined when MissingBlocks(piece) is not empty; nullptr otherwise.
FirstMissingBlock(piece) ==
  CHOOSE i \in MissingBlocks(piece) : \A j \in MissingBlocks(piece) : i <= j

\* Data is taken only for a block that was requested and not yet answered.
SaveBlock(piece, i, data) ==
  IF piece[i] = "Pending" THEN [piece EXCEPT ![i] = data] ELSE piece

\* The piece's state after Reset: data dropped, every block Missing.
ResetPiece(piece) == [i \in DOMAIN piece |-> "Missing"]

\* Unused by the program: a piece is finished when no block is Missing.
AllBlocksRetrieved(piece) == \A i \in DOMAIN piece : piece[i] \in BlockData

HashMatches(piece) == \A i \in DOMAIN piece : piece[i] = "Good"

\* What the concatenated blocks leave in the output file.
GetData(piece) == IF \A i \in DOMAIN piece : piece[i] = "Good" THEN "Good" ELSE "Wrong"
==============================================================================
