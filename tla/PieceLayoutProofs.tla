-------------------------- MODULE PieceLayoutProofs --------------------------
(***************************************************************************)
(* The arithmetic of pieces, blocks and messages holds for every size, not *)
(* only those of the checked torrents.                                     *)
(***************************************************************************)
EXTENDS PieceLayout, TLAPS, SequenceTheorems

\* Rounded up, the quotient by a block is the number of blocks needed.
LEMMA BlocksNeeded ==
  ASSUME NEW length \in Nat \ {0}
  PROVE  /\ BlockCount(length) \in Nat \ {0}
         /\ (BlockCount(length) - 1) * BLOCK_SIZE < length
         /\ length <= BlockCount(length) * BLOCK_SIZE
BY DEF BlockCount, BLOCK_SIZE

\* What is left for the last block is at least one byte and at most a block.
LEMMA LastBlock ==
  ASSUME NEW length \in Nat, NEW last \in Nat,
         last * BLOCK_SIZE < length, length <= (last + 1) * BLOCK_SIZE
  PROVE  length - last * BLOCK_SIZE \in 1 .. BLOCK_SIZE
BY DEF BLOCK_SIZE

\* The constructor of Piece cuts a piece of any length into blocks without a
\* gap or an overlap.
THEOREM BlocksTileEveryPiece == \A length \in Nat \ {0} : BlocksTile(length)
<1> SUFFICES ASSUME NEW length \in Nat \ {0} PROVE BlocksTile(length)
  OBVIOUS
<1> DEFINE last == BlockCount(length) - 1
<1>1. last \in Nat /\ last * BLOCK_SIZE < length /\ length <= (last + 1) * BLOCK_SIZE
  BY BlocksNeeded
<1>2. BlockLength(length, last) = length - last * BLOCK_SIZE
  BY <1>1 DEF BlockLength, BLOCK_SIZE
<1>3. \A k \in 0 .. last - 1 : BlockLength(length, k) = BLOCK_SIZE
  BY <1>1 DEF BlockLength
<1>4. \A k \in 0 .. last : BlockLength(length, k) \in 1 .. BLOCK_SIZE
  <2> SUFFICES ASSUME NEW k \in 0 .. last PROVE BlockLength(length, k) \in 1 .. BLOCK_SIZE
    OBVIOUS
  <2>1. CASE k = last
    <3>1. length - last * BLOCK_SIZE \in 1 .. BLOCK_SIZE
      BY <1>1, LastBlock
    <3> QED
      BY <1>2, <2>1, <3>1
  <2>2. CASE k # last
    <3>1. k \in 0 .. last - 1
      BY <1>1, <2>2
    <3>2. BLOCK_SIZE \in 1 .. BLOCK_SIZE
      BY DEF BLOCK_SIZE
    <3> QED
      BY <1>3, <3>1, <3>2
  <2> QED
    BY <2>1, <2>2
<1>5. \A k \in 0 .. last - 1 : BlockOffset(k) + BlockLength(length, k) = BlockOffset(k + 1)
  BY <1>1, <1>3 DEF BlockOffset, BLOCK_SIZE
<1>6. BlockOffset(last) + BlockLength(length, last) = length
  BY <1>1, <1>2 DEF BlockOffset, BLOCK_SIZE
<1> QED
  BY <1>4, <1>5, <1>6 DEF BlocksTile

-------------------------------------------------------------------------------

\* The offset of a piece grows by the length of a piece.
LEMMA NextOffset ==
  ASSUME NEW tf, tf.pieceLength \in Nat, NEW p \in Nat
  PROVE  /\ PieceOffset(tf, p) \in Nat
         /\ PieceOffset(tf, p + 1) = PieceOffset(tf, p) + tf.pieceLength
BY DEF PieceOffset

\* Later pieces lie behind earlier ones.
LEMMA OffsetGrows ==
  ASSUME NEW tf, tf.pieceLength \in Nat, NEW p \in Nat, NEW q \in Nat, p <= q
  PROVE  PieceOffset(tf, p) <= PieceOffset(tf, q)
<1>1. PICK d \in Nat : q = p + d
  BY q - p \in Nat
<1>2. q * tf.pieceLength = p * tf.pieceLength + d * tf.pieceLength
  BY <1>1
<1>3. d * tf.pieceLength >= 0 /\ d * tf.pieceLength \in Nat /\ p * tf.pieceLength \in Nat
  BY <1>1
<1> QED
  BY <1>2, <1>3 DEF PieceOffset

\* For a torrent whose sizes fit, the constructor of PieceStorage cuts the file
\* into pieces without a gap or an overlap, however many it is asked for.
THEOREM PiecesTileEveryFile ==
  ASSUME NEW tf, WellFormed(tf), NEW n \in 0 .. Len(tf.pieceHashes)
  PROVE  PiecesTile(tf, n)
<1> DEFINE total == Len(tf.pieceHashes)
<1>1. /\ total \in Nat \ {0}
      /\ tf.pieceLength \in Nat \ {0}
      /\ tf.length \in Nat
      /\ PieceOffset(tf, total - 1) < tf.length
      /\ tf.length <= PieceOffset(tf, total)
  BY DEF WellFormed
<1> SUFFICES ASSUME NEW p \in 0 .. n - 1
    PROVE  /\ PieceSize(tf, p) > 0
           /\ PieceOffset(tf, p) + PieceSize(tf, p) =
                IF p + 1 = total THEN tf.length ELSE PieceOffset(tf, p + 1)
           /\ PieceOffset(tf, p) + PieceSize(tf, p) <= tf.length
  BY DEF PiecesTile
<1>2. p \in Nat /\ p + 1 <= total
  BY <1>1
<1>3. PieceOffset(tf, p) \in Nat /\ PieceOffset(tf, p + 1) = PieceOffset(tf, p) + tf.pieceLength
  BY <1>1, <1>2, NextOffset
<1>4. CASE p + 1 = total
  <2>1. p = total - 1 /\ PieceOffset(tf, p) < tf.length
    BY <1>1, <1>2, <1>4
  <2>2. PieceSize(tf, p) = tf.length - PieceOffset(tf, p)
    BY <1>4, <2>1 DEF PieceSize
  <2> QED
    BY <1>1, <1>3, <1>4, <2>1, <2>2
<1>5. CASE p + 1 # total
  <2>1. PieceSize(tf, p) = tf.pieceLength
    BY <1>5 DEF PieceSize
  <2>2. PieceOffset(tf, p + 1) <= PieceOffset(tf, total - 1)
    BY <1>1, <1>2, <1>5, OffsetGrows
  <2>3. PieceOffset(tf, total - 1) \in Nat
    <3>1. total - 1 \in Nat
      BY <1>1
    <3> QED
      BY <1>1, <3>1, NextOffset
  <2> QED
    BY <1>1, <1>3, <1>5, <2>1, <2>2, <2>3
<1> QED
  BY <1>4, <1>5

\* main never asks for more pieces than there are.
LEMMA SelectionFits ==
  ASSUME NEW total \in Nat, NEW percent \in 0 .. 100
  PROVE  PiecesToDownload(total, percent) \in 0 .. total
<1>1. total * percent <= total * 100 /\ total * percent \in Nat
  BY ONLY total \in Nat, percent \in 0 .. 100, SMTT(30)
<1> DEFINE product == total * percent
<1>2. product \in Nat /\ product <= total * 100
  BY <1>1
<1> HIDE DEF product
<1>3. product \div 100 \in 0 .. total
  BY <1>2
<1> QED
  BY <1>3 DEF PiecesToDownload, product

-------------------------------------------------------------------------------

Int32  == {n \in Int : -2147483648 <= n /\ n < 2147483648}
UInt32 == {n \in Nat : n < 4294967296}

High(n) == n \div 16777216
Low(n)  == ByteOf(n, 65536) * 65536 + ByteOf(n, 256) * 256 + ByteOf(n, 1)

\* Splitting bytes off an integer, one after the other.
LEMMA SplitByte ==
  ASSUME NEW n \in Int
  PROVE  n % 256 \in Int /\ n \div 256 \in Int /\ n % 256 = n - 256 * (n \div 256)
<1>1. n % 256 \in Int /\ n \div 256 \in Int
  OBVIOUS
<1>2. n % 256 = n - 256 * (n \div 256)
  OBVIOUS
<1> QED
  BY <1>1, <1>2

LEMMA DivideAgain ==
  ASSUME NEW n \in Int
  PROVE  /\ n \div 65536 = (n \div 256) \div 256
         /\ n \div 16777216 = (n \div 65536) \div 256
         /\ n \div 1 = n
<1>1. n \div 65536 = (n \div 256) \div 256
  OBVIOUS
<1>2. n \div 16777216 = (n \div 65536) \div 256
  OBVIOUS
<1>3. n \div 1 = n
  OBVIOUS
<1> QED
  BY <1>1, <1>2, <1>3

\* An integer is the sum of its last three bytes and of the rest.
LEMMA HighAndLow ==
  ASSUME NEW n \in Int
  PROVE  High(n) * 16777216 + Low(n) = n
<1> DEFINE a == n \div 256
           b == n \div 65536
           c == n \div 16777216
           x == n % 256
           y == a % 256
           z == b % 256
<1>1. a \in Int /\ x \in Int /\ x = n - 256 * a
  BY SplitByte
<1>2. b = a \div 256 /\ c = b \div 256 /\ n \div 1 = n
  BY DivideAgain
<1>3. b \in Int /\ y \in Int /\ y = a - 256 * b
  BY <1>1, <1>2, SplitByte
<1>4. c \in Int /\ z \in Int /\ z = b - 256 * c
  BY <1>2, <1>3, SplitByte
<1>5. High(n) = c /\ Low(n) = z * 65536 + y * 256 + x
  BY <1>2 DEF High, Low, ByteOf
<1> HIDE DEF a, b, c, x, y, z
<1>6. c * 16777216 + (z * 65536 + y * 256 + x) = n
  BY <1>1, <1>3, <1>4
<1> QED
  BY <1>5, <1>6

\* The four bytes of an integer.
LEMMA FourBytes ==
  ASSUME NEW n \in Int
  PROVE  /\ IntToBytes(n) \in Seq(Byte) /\ Len(IntToBytes(n)) = 4
         /\ IntToBytes(n)[1] = ByteOf(n, 16777216)
         /\ LowBytes(IntToBytes(n)) = Low(n)
<1>1. \A power \in {1, 256, 65536, 16777216} : ByteOf(n, power) \in Byte
  BY DEF ByteOf, Byte
<1>2. IntToBytes(n) \in Seq(Byte) /\ Len(IntToBytes(n)) = 4
  BY <1>1 DEF IntToBytes
<1>3. IntToBytes(n)[1] = ByteOf(n, 16777216) /\ LowBytes(IntToBytes(n)) = Low(n)
  BY <1>1 DEF IntToBytes, LowBytes, Low
<1> QED
  BY <1>2, <1>3

\* An integer of 32 bits survives the way to a peer and back, negative or not.
THEOREM IntegersSurvive ==
  \A n \in Int32 : BytesToInt(IntToBytes(n)) = n
<1> SUFFICES ASSUME NEW n \in Int32
    PROVE  BytesToInt(IntToBytes(n)) = n
  OBVIOUS
<1> DEFINE d == ByteOf(n, 16777216)
<1>1. n \in Int /\ High(n) \in -128 .. 127
  BY DEF Int32, High
<1>2. d = High(n) % 256
  BY DEF ByteOf, High
<1> HIDE DEF d
<1>3. (IF d < 128 THEN d ELSE d - 256) = High(n)
  BY <1>1, <1>2
<1>4. BytesToInt(IntToBytes(n)) = High(n) * 16777216 + Low(n)
  BY <1>1, <1>3, FourBytes DEF BytesToInt, d
<1> QED
  BY <1>1, <1>4, HighAndLow

\* So does the length of a message, which is read as unsigned.
THEOREM LengthsSurvive ==
  \A n \in UInt32 : BytesToUnsigned(IntToBytes(n)) = n
<1> SUFFICES ASSUME NEW n \in UInt32
    PROVE  BytesToUnsigned(IntToBytes(n)) = n
  OBVIOUS
<1>1. n \in Int /\ High(n) \in 0 .. 255
  BY DEF UInt32, High
<1>2. ByteOf(n, 16777216) = High(n)
  BY <1>1 DEF ByteOf, High
<1>3. BytesToUnsigned(IntToBytes(n)) = High(n) * 16777216 + Low(n)
  BY <1>1, <1>2, FourBytes DEF BytesToUnsigned
<1> QED
  BY <1>1, <1>3, HighAndLow

\* A string that two others precede is found again behind them.
LEMMA FirstPart ==
  ASSUME NEW a \in Seq(Byte), NEW b \in Seq(Byte)
  PROVE  SubSeq(a \o b, 1, Len(a)) = a
<1> DEFINE s == SubSeq(a \o b, 1, Len(a))
<1>1. s \in Seq(Byte) /\ Len(s) = Len(a)
  BY SubSeqProperties, ConcatProperties
<1>2. \A i \in 1 .. Len(a) : s[i] = a[i]
  BY SubSeqProperties, ConcatProperties
<1> QED
  BY <1>1, <1>2, SeqEqual

LEMMA LastPart ==
  ASSUME NEW a \in Seq(Byte), NEW b \in Seq(Byte)
  PROVE  SubSeq(a \o b, Len(a) + 1, Len(a) + Len(b)) = b
<1> DEFINE s == SubSeq(a \o b, Len(a) + 1, Len(a) + Len(b))
<1>1. s \in Seq(Byte) /\ Len(s) = Len(b)
  BY SubSeqProperties, ConcatProperties
<1>2. \A i \in 1 .. Len(b) : s[i] = b[i]
  BY SubSeqProperties, ConcatProperties
<1> QED
  BY <1>1, <1>2, SeqEqual
LEMMA TwoParts ==
  ASSUME NEW a \in Seq(Byte), NEW b \in Seq(Byte)
  PROVE  /\ a \o b \in Seq(Byte)
         /\ Len(a \o b) = Len(a) + Len(b)
         /\ SubSeq(a \o b, 1, Len(a)) = a
         /\ SubSeq(a \o b, Len(a) + 1, Len(a \o b)) = b
<1>1. a \o b \in Seq(Byte) /\ Len(a \o b) = Len(a) + Len(b)
  BY ConcatProperties
<1> QED
  BY <1>1, FirstPart, LastPart

\* What ToString writes, a receiver that reads the length and then that many
\* bytes parses to the message, of any id the peer protocol has and any payload.
THEOREM MessagesSurvive ==
  ASSUME NEW id \in 0 .. 9, NEW payload \in Seq(Byte), 1 + Len(payload) \in UInt32
  PROVE  LET message == [id |-> id, payload |-> payload]
             wire    == WireString(message)
         IN /\ BytesToUnsigned(SubSeq(wire, 1, 4)) = Len(wire) - 4
            /\ Parse(SubSeq(wire, 5, Len(wire))) = message
<1> DEFINE message == [id |-> id, payload |-> payload]
           wire    == WireString(message)
           length  == 1 + Len(payload)
           prefix  == IntToBytes(length)
           body    == << id >> \o payload
<1>1. length \in Int /\ MessageLength(message) = length
  BY LenProperties DEF MessageLength, MessageId
<1>2. << id >> \in Seq(Byte) /\ Len(<< id >>) = 1
  BY DEF Byte
<1>3. body \in Seq(Byte) /\ Len(body) = length
  BY <1>2, TwoParts
<1>4. prefix \in Seq(Byte) /\ Len(prefix) = 4
  BY <1>1, FourBytes
<1>5. wire = prefix \o body
  BY <1>1, <1>2, <1>4, ConcatAssociative DEF WireString
<1>6. BytesToUnsigned(prefix) = length
  BY LengthsSurvive
<1>7. Parse(body) = message
  <2>1. Head(body) = id /\ body # << >>
    BY <1>2, <1>3, ConcatProperties
  <2>2. Tail(body) = SubSeq(body, 2, Len(body))
    BY <1>3, <2>1, TailIsSubSeq
  <2>3. SubSeq(body, Len(<< id >>) + 1, Len(body)) = payload
    BY <1>2, TwoParts
  <2>4. Tail(body) = payload
    BY <1>2, <2>2, <2>3
  <2> QED
    BY <2>1, <2>4 DEF Parse
<1> HIDE DEF message, wire, length, prefix, body
<1>8. Len(wire) = 4 + length
  BY <1>3, <1>4, <1>5, TwoParts
<1>9. SubSeq(wire, 1, 4) = prefix /\ SubSeq(wire, 5, Len(wire)) = body
  <2>1. SubSeq(wire, 1, Len(prefix)) = prefix
    BY <1>3, <1>4, <1>5, TwoParts
  <2>2. SubSeq(wire, Len(prefix) + 1, Len(wire)) = body
    BY <1>3, <1>4, <1>5, TwoParts
  <2> QED
    BY <1>4, <2>1, <2>2
<1>10. BytesToUnsigned(SubSeq(wire, 1, 4)) = Len(wire) - 4
  <2>1. BytesToUnsigned(SubSeq(wire, 1, 4)) = length
    BY <1>6, <1>9
  <2>2. Len(wire) - 4 = length
    BY <1>1, <1>8
  <2> QED
    BY <2>1, <2>2
<1>11. Parse(SubSeq(wire, 5, Len(wire))) = message
  BY <1>7, <1>9
<1> QED
  BY <1>10, <1>11 DEF message, wire

\* The first two of three words.
Joined(a, b, c) == a \o b \o c

LEMMA TwoWords ==
  ASSUME NEW a \in Seq(Byte), NEW b \in Seq(Byte), NEW c \in Seq(Byte),
         Len(a) = 4, Len(b) = 4, Len(c) = 4
  PROVE  /\ Joined(a, b, c) \in Seq(Byte) /\ Len(Joined(a, b, c)) = 12
         /\ SubSeq(Joined(a, b, c), 1, 4) = a /\ SubSeq(Joined(a, b, c), 5, 8) = b
<1>0. PICK s : s = Joined(a, b, c)
  OBVIOUS
<1>1. PICK t : t = b \o c
  OBVIOUS
<1>2. /\ t \in Seq(Byte) /\ Len(t) = Len(b) + Len(c)
      /\ SubSeq(t, 1, Len(b)) = b
  BY <1>1, TwoParts
<1>3. t \in Seq(Byte) /\ Len(t) = 8 /\ SubSeq(t, 1, 4) = b
  BY <1>2
<1>4. s = a \o t
  BY <1>0, <1>1, ConcatAssociative DEF Joined
<1>5. /\ s \in Seq(Byte) /\ Len(s) = Len(a) + Len(t)
      /\ SubSeq(s, 1, Len(a)) = a /\ SubSeq(s, Len(a) + 1, Len(s)) = t
  <2>1. /\ a \o t \in Seq(Byte) /\ Len(a \o t) = Len(a) + Len(t)
        /\ SubSeq(a \o t, 1, Len(a)) = a
        /\ SubSeq(a \o t, Len(a) + 1, Len(a \o t)) = t
    BY ONLY a \in Seq(Byte), <1>3, TwoParts, Zenon
  <2> QED
    BY <1>4, <2>1, Zenon
<1>6. s \in Seq(Byte) /\ Len(s) = 12 /\ SubSeq(s, 1, 4) = a /\ SubSeq(s, 5, 12) = t
  <2>1. Len(s) = 12 /\ Len(a) + 1 = 5
    BY <1>3, <1>5
  <2>2. SubSeq(s, 1, 4) = a
    BY <1>5
  <2>3. SubSeq(s, 5, 12) = t
    BY ONLY <1>5, <2>1
  <2> QED
    BY <1>5, <2>1, <2>2, <2>3
<1>7. SubSeq(s, 5, 8) = SubSeq(t, 1, 4)
  <2>1. 5 \in 1 .. Len(s) /\ 12 \in 1 .. Len(s) /\ 1 \in 1 .. 12 - 5 + 1 /\ 4 \in 1 .. 12 - 5 + 1
    BY <1>6
  <2>2. SubSeq(SubSeq(s, 5, 12), 1, 4) = SubSeq(s, 5 + 1 - 1, 5 + 4 - 1)
    BY <1>6, <2>1, SubSeqOfSubSeq
  <2> QED
    BY <1>6, <2>2
<1> QED
  BY <1>0, <1>3, <1>6, <1>7

\* The first two words of a string are those of its beginning.
LEMMA WordsOfBeginning ==
  ASSUME NEW s \in Seq(Byte), Len(s) >= 8
  PROVE  /\ SubSeq(SubSeq(s, 1, 8), 1, 4) = SubSeq(s, 1, 4)
         /\ SubSeq(SubSeq(s, 1, 8), 5, 8) = SubSeq(s, 5, 8)
<1>1. Len(s) \in Nat
  BY LenProperties
<1>2. 1 \in 1 .. Len(s) /\ 8 \in 1 .. Len(s) /\ \A m \in {1, 4, 5, 8} : m \in 1 .. 8 - 1 + 1
  BY <1>1
<1>3. \A m, n \in {1, 4, 5, 8} : SubSeq(SubSeq(s, 1, 8), m, n) = SubSeq(s, 1 + m - 1, 1 + n - 1)
  BY <1>2, SubSeqOfSubSeq
<1> QED
  BY <1>3

\* A peer that copies index and offset of a request into its Piece message
\* makes MainLoop find the piece and SaveBlock the block that was asked for.
THEOREM AnswersFindTheirBlock ==
  ASSUME NEW p \in Nat, p \in Int32, NEW length \in Nat \ {0}, length \in Int32,
         NEW k \in 0 .. BlockCount(length) - 1,
         NEW payload \in Seq(Byte), Len(payload) >= 8,
         SubSeq(payload, 1, 8) = SubSeq(RequestPayload(p, length, k), 1, 8)
  PROVE  IndexIn(payload) = p /\ BlockAt(OffsetIn(payload)) = k
<1> DEFINE request == RequestPayload(p, length, k)
           index == IntToBytes(p)
           offset == IntToBytes(BlockOffset(k))
           size == IntToBytes(BlockLength(length, k))
<1>1. /\ k \in Nat /\ BlockOffset(k) \in Int /\ BlockOffset(k) \in Int32
      /\ BlockLength(length, k) \in Int /\ BlockAt(BlockOffset(k)) = k
  <2>1. BlockCount(length) \in Nat /\ (BlockCount(length) - 1) * BLOCK_SIZE < length
    BY BlocksNeeded
  <2>2. k \in Nat /\ k <= BlockCount(length) - 1
    BY <2>1
  <2>3. BlockOffset(k) \in Nat /\ BlockOffset(k) < length
    BY <2>1, <2>2 DEF BlockOffset, BLOCK_SIZE
  <2>4. BlockOffset(k) \in Int32
    BY <2>3 DEF Int32
  <2>5. BlockLength(length, k) \in Int
    BY <2>2 DEF BlockLength, BLOCK_SIZE
  <2>6. BlockAt(BlockOffset(k)) = k
    BY <2>2 DEF BlockAt, BlockOffset, BLOCK_SIZE
  <2> QED
    BY <2>2, <2>3, <2>4, <2>5, <2>6
<1>2. /\ index \in Seq(Byte) /\ Len(index) = 4
      /\ offset \in Seq(Byte) /\ Len(offset) = 4
      /\ size \in Seq(Byte) /\ Len(size) = 4
  BY <1>1, FourBytes
<1>3. BytesToInt(index) = p /\ BytesToInt(offset) = BlockOffset(k)
  BY <1>1, IntegersSurvive
<1>4. request = Joined(index, offset, size)
  BY DEF RequestPayload, Joined
<1> HIDE DEF request, index, offset, size
<1>5. /\ request \in Seq(Byte) /\ Len(request) = 12
      /\ SubSeq(request, 1, 4) = index /\ SubSeq(request, 5, 8) = offset
  BY <1>2, <1>4, TwoWords
<1>6. SubSeq(payload, 1, 4) = index /\ SubSeq(payload, 5, 8) = offset
  <2>1. SubSeq(payload, 1, 8) = SubSeq(request, 1, 8)
    BY DEF request
  <2>2. Len(request) >= 8
    BY <1>5
  <2> QED
    BY <1>5, <2>1, <2>2, WordsOfBeginning
<1> QED
  BY <1>1, <1>3, <1>6 DEF IndexIn, OffsetIn
===============================================================================
