----------------------------- MODULE PieceLayout -----------------------------
(***************************************************************************)
(* Where pieces lie in the file and blocks in a piece: the arithmetic of   *)
(* Piece's and PieceStorage's constructors and of SavePieceToDisk, the     *)
(* selection of main, and the payloads that carry an offset to a peer and  *)
(* back.  tf is a TorrentFile.  Sizes are below 2^31.                      *)
(***************************************************************************)
EXTENDS Message

BLOCK_SIZE == 16384

\* The vector blocks_ of a piece of the given length.
BlockCount(length) == (length + BLOCK_SIZE - 1) \div BLOCK_SIZE

BlockOffset(k) == k * BLOCK_SIZE

\* Mutant: the last block is as long as the others.
BlockLengthFull(length, k) == BLOCK_SIZE

BlockLength(length, k) ==
  IF k = BlockCount(length) - 1 /\ length % BLOCK_SIZE # 0
  THEN length - k * BLOCK_SIZE ELSE BLOCK_SIZE

\* The block SaveBlock stores the bytes of an offset in; the code does not look
\* whether there is one.
BlockAt(offset) == offset \div BLOCK_SIZE

\* main: the first pieces, as many as the percentage gives, rounded down.
PiecesToDownload(total, percent) == (total * percent) \div 100

\* Where SavePieceToDisk writes a piece.
PieceOffset(tf, p) == p * tf.pieceLength

\* The last piece of the file takes what is left of it.
PieceSize(tf, p) ==
  IF p + 1 = Len(tf.pieceHashes)
  THEN IF tf.length > PieceOffset(tf, p) THEN tf.length - PieceOffset(tf, p) ELSE 0
  ELSE tf.pieceLength

\* A torrent whose hashes are those of its file, cut into pieces.
WellFormed(tf) ==
  /\ tf.pieceHashes \in Seq(Seq(Byte)) \ {<< >>}
  /\ tf.pieceLength \in Nat \ {0}
  /\ tf.length \in Nat
  /\ PieceOffset(tf, Len(tf.pieceHashes) - 1) < tf.length
  /\ tf.length <= PieceOffset(tf, Len(tf.pieceHashes))

\* RequestPiece: what asks for block k of piece p of the given length.
RequestPayload(p, length, k) ==
  IntToBytes(p) \o IntToBytes(BlockOffset(k)) \o IntToBytes(BlockLength(length, k))

\* MainLoop: index and offset in the payload of a Piece message.
IndexIn(payload)  == BytesToInt(SubSeq(payload, 1, 4))
OffsetIn(payload) == BytesToInt(SubSeq(payload, 5, 8))

-------------------------------------------------------------------------------
(* Properties *)

\* The blocks of a piece follow each other without a gap or an overlap, none
\* empty or too long for one request, from its first byte to its last.
BlocksTile(length) ==
  LET last == BlockCount(length) - 1 IN
    /\ \A k \in 0 .. last : BlockLength(length, k) \in 1 .. BLOCK_SIZE
    /\ \A k \in 0 .. last - 1 :
         BlockOffset(k) + BlockLength(length, k) = BlockOffset(k + 1)
    /\ BlockOffset(last) + BlockLength(length, last) = length

\* The first n pieces follow each other from the beginning of the file and do
\* not reach behind its end; all pieces together are the whole file.
PiecesTile(tf, n) ==
  /\ \A p \in 0 .. n - 1 :
       /\ PieceSize(tf, p) > 0
       /\ PieceOffset(tf, p) + PieceSize(tf, p) =
            IF p + 1 = Len(tf.pieceHashes) THEN tf.length ELSE PieceOffset(tf, p + 1)
       /\ PieceOffset(tf, p) + PieceSize(tf, p) <= tf.length
===============================================================================
