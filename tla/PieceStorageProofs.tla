-------------------------- MODULE PieceStorageProofs --------------------------
(***************************************************************************)
(* Proofs about PieceStorage, for every set of threads, every number of    *)
(* pieces and of blocks, and every bound on the disk's failures.           *)
(***************************************************************************)
EXTENDS PieceStorage, TLAPS, SequenceTheorems, FiniteSetTheorems

-------------------------------------------------------------------------------
(* Facts about the data *)

\* A torrent has finitely many pieces.
LEMMA PiecesFinite == IsFiniteSet(Pieces)
  BY StorageAssumption, FS_Interval DEF Pieces

\* What pushing on the queue, or recording a saved piece, adds to a sequence.
LEMMA AppendFacts ==
  ASSUME NEW S, NEW seq \in Seq(S), NEW e \in S
  PROVE  /\ Append(seq, e) \in Seq(S)
         /\ Range(Append(seq, e)) = Range(seq) \cup {e}
         /\ IsInjective(seq) /\ e \notin Range(seq) => IsInjective(Append(seq, e))
<1> DEFINE app == Append(seq, e)
<1>1. /\ app \in Seq(S)
      /\ DOMAIN app = 1 .. Len(seq) + 1
      /\ DOMAIN seq = 1 .. Len(seq)
      /\ Len(seq) \in Nat
      /\ \A i \in 1 .. Len(seq) : app[i] = seq[i]
      /\ app[Len(seq) + 1] = e
  BY AppendProperties
<1> HIDE DEF app
<1>2. Range(app) = Range(seq) \cup {e}
  BY <1>1 DEF Range
<1>3. ASSUME IsInjective(seq), e \notin Range(seq)
      PROVE  IsInjective(app)
  BY <1>1, <1>3 DEF IsInjective, Range
<1> QED
  BY <1>1, <1>2, <1>3 DEF app

\* What popping the front of the queue leaves.
LEMMA TailFacts ==
  ASSUME NEW S, NEW seq \in Seq(S), seq # << >>
  PROVE  /\ Head(seq) \in Range(seq)
         /\ Head(seq) \in S
         /\ Tail(seq) \in Seq(S)
         /\ Range(seq) = Range(Tail(seq)) \cup {Head(seq)}
         /\ IsInjective(seq) => /\ IsInjective(Tail(seq))
                                /\ Head(seq) \notin Range(Tail(seq))
<1> DEFINE rest == Tail(seq)
<1>1. /\ rest \in Seq(S)
      /\ Head(seq) \in S
      /\ Len(seq) \in Nat \ {0}
      /\ DOMAIN seq = 1 .. Len(seq)
      /\ DOMAIN rest = 1 .. Len(seq) - 1
      /\ \A i \in 1 .. Len(seq) - 1 : rest[i] = seq[i + 1]
      /\ Head(seq) = seq[1]
  BY HeadTailProperties
<1> HIDE DEF rest
<1>2. Head(seq) \in Range(seq)
  BY <1>1 DEF Range
<1>3. Range(seq) = Range(rest) \cup {Head(seq)}
  <2>1. ASSUME NEW x \in Range(seq), x # Head(seq) PROVE x \in Range(rest)
    <3>1. PICK i \in 1 .. Len(seq) : seq[i] = x
      BY <1>1 DEF Range
    <3>2. i - 1 \in 1 .. Len(seq) - 1 /\ rest[i - 1] = x
      BY <1>1, <2>1, <3>1
    <3> QED
      BY <1>1, <3>2 DEF Range
  <2>2. ASSUME NEW x \in Range(rest) PROVE x \in Range(seq)
    <3>1. PICK i \in 1 .. Len(seq) - 1 : rest[i] = x
      BY <1>1 DEF Range
    <3>2. i + 1 \in 1 .. Len(seq) /\ seq[i + 1] = x
      BY <1>1, <3>1
    <3> QED
      BY <1>1, <3>2 DEF Range
  <2> QED
    BY <1>2, <2>1, <2>2
<1>4. ASSUME IsInjective(seq)
      PROVE  IsInjective(rest) /\ Head(seq) \notin Range(rest)
  <2>1. \A i, j \in 1 .. Len(seq) : seq[i] = seq[j] => i = j
    BY <1>1, <1>4 DEF IsInjective
  <2>2. ASSUME NEW i \in 1 .. Len(seq) - 1, NEW j \in 1 .. Len(seq) - 1, rest[i] = rest[j]
        PROVE  i = j
    <3>1. i + 1 \in 1 .. Len(seq) /\ j + 1 \in 1 .. Len(seq) /\ seq[i + 1] = seq[j + 1]
      BY <1>1, <2>2
    <3> QED
      BY <2>1, <3>1
  <2>3. ASSUME NEW i \in 1 .. Len(seq) - 1 PROVE rest[i] # Head(seq)
    <3>1. i + 1 \in 1 .. Len(seq) /\ 1 \in 1 .. Len(seq) /\ i + 1 # 1
      BY <1>1
    <3> QED
      BY <1>1, <2>1, <3>1
  <2> QED
    BY <1>1, <2>2, <2>3 DEF IsInjective, Range
<1> QED
  BY <1>1, <1>2, <1>3, <1>4 DEF rest

\* The operations of a Piece keep its number of blocks, and a new or reset
\* piece has none but missing blocks.
LEMMA PieceFacts ==
  ASSUME NEW p \in Pieces
  PROVE  /\ NewPiece(NumBlocks[p]) \in PieceType(p)
         /\ MissingBlocks(NewPiece(NumBlocks[p])) = DOMAIN NewPiece(NumBlocks[p])
         /\ \A piece \in PieceType(p) :
              /\ ResetPiece(piece) \in PieceType(p)
              /\ MissingBlocks(ResetPiece(piece)) = DOMAIN ResetPiece(piece)
              /\ \A i \in DOMAIN piece, data \in BlockData :
                   SaveBlock(piece, i, data) \in PieceType(p)
BY DEF NewPiece, PieceType, MissingBlocks, ResetPiece, SaveBlock, BlockState, BlockData

-------------------------------------------------------------------------------
(* Type correctness *)

\* The constructor's state has the declared types.
LEMMA TypeInit == StorageInit => StorageTypeOK
<1> SUFFICES ASSUME StorageInit PROVE StorageTypeOK
  OBVIOUS
<1>1. remainPieces \in Seq(Pieces)
  BY StorageAssumption DEF StorageInit, Pieces
<1>2. DOMAIN blocks = Pieces /\ \A p \in Pieces : blocks[p] \in PieceType(p)
  BY PieceFacts DEF StorageInit
<1>3. diskFaults \in 0 .. MaxDiskFaults
  BY StorageAssumption DEF StorageInit
<1>4. piecesSavedToDiscIndices \in Seq(Pieces)
  BY DEF StorageInit
<1>5. /\ disk \in [Pieces -> {"Blank", "Torn", "Good", "Wrong"}]
      /\ pieceInProgress \in [Threads -> Pieces \cup {NoPiece}]
  BY DEF StorageInit
<1>6. piecesInProgress = {} /\ piecesSavedToDisc = {} /\ queueClosed = FALSE
  BY DEF StorageInit
<1> QED
  BY <1>1, <1>2, <1>3, <1>4, <1>5, <1>6 DEF StorageTypeOK

\* The queue that a call of GetNextPieceToDownload takes the front of is the
\* current one or, after a refill, the refillable pieces in index order; either
\* way it is a queue of pieces over well-formed blocks.
LEMMA QueueServed ==
  ASSUME StorageTypeOK, NEW t \in Threads, NEW result, Take(t, result)
  PROVE  \E queue \in Seq(Pieces) :
           /\ TakeFront(queue, result)
           /\ DOMAIN blocks' = Pieces
           /\ \A p \in Pieces : blocks'[p] \in PieceType(p)
           /\ \/ /\ ~RefillNeeded
                 /\ queue = remainPieces
                 /\ UNCHANGED << blocks, queueClosed >>
              \/ /\ RefillNeeded
                 /\ IsInjective(queue)
                 /\ Range(queue) = Refillable
                 /\ queueClosed' = FALSE
                 /\ \A p \in Refillable : MissingBlocks(blocks'[p]) = DOMAIN blocks'[p]
<1>1. CASE ~RefillNeeded
  BY <1>1 DEF Take, GetNextPieceToDownload, StorageTypeOK
<1>2. CASE RefillNeeded
  <2>1. PICK queue \in [1 .. Cardinality(Refillable) -> Refillable] :
          RefillQueue(queue) /\ TakeFront(queue, result)
    BY <1>2 DEF Take, GetNextPieceToDownload
  <2>2. Refillable \subseteq Pieces
    BY DEF Refillable
  <2>3. Cardinality(Refillable) \in Nat
    BY <2>2, PiecesFinite, FS_Subset, FS_CardinalityType
  <2>4. queue \in Seq(Pieces)
    BY <2>2, <2>3
  <2>5. IsInjective(queue)
    <3>1. \A i, j \in 1 .. Cardinality(Refillable) : i < j => queue[i] < queue[j]
      BY <2>1 DEF RefillQueue
    <3>2. \A i \in 1 .. Cardinality(Refillable) : queue[i] \in Int
      <4>1. Pieces \subseteq Int
        BY StorageAssumption DEF Pieces
      <4> QED
        BY <2>2, <4>1
    <3> QED
      BY <2>3, <3>1, <3>2 DEF IsInjective
  <2>6. /\ DOMAIN blocks' = Pieces
        /\ \A p \in Pieces : blocks'[p] \in PieceType(p)
        /\ \A p \in Refillable : MissingBlocks(blocks'[p]) = DOMAIN blocks'[p]
    BY <2>1, <2>2, PieceFacts DEF RefillQueue, StorageTypeOK
  <2> QED
    BY <1>2, <2>1, <2>4, <2>5, <2>6 DEF RefillQueue
<1> QED
  BY <1>1, <1>2

\* A write, whether it succeeds or fails, keeps the types.
LEMMA WriteKeepsTypes ==
  ASSUME StorageTypeOK, NEW p \in Pieces, WriteSucceeds(p) \/ WriteFails(p)
  PROVE  /\ disk' \in [Pieces -> {"Blank", "Torn", "Good", "Wrong"}]
         /\ diskFaults' \in 0 .. MaxDiskFaults
<1>1. CASE WriteSucceeds(p)
  BY <1>1 DEF WriteSucceeds, GetData, StorageTypeOK
<1>2. CASE WriteFails(p)
  <2>1. disk[p] \in {"Blank", "Torn", "Good", "Wrong"}
    BY DEF StorageTypeOK
  <2>2. disk' \in [Pieces -> {"Blank", "Torn", "Good", "Wrong"}]
    BY <1>2, <2>1 DEF WriteFails, StorageTypeOK
  <2>3. diskFaults' \in 0 .. MaxDiskFaults
    BY <1>2, StorageAssumption DEF WriteFails, StorageTypeOK
  <2> QED
    BY <2>2, <2>3
<1> QED
  BY <1>1, <1>2

\* Every step of a caller keeps the types.
LEMMA TypeStep == StorageTypeOK /\ [StorageNext]_storageVars => StorageTypeOK'
<1> SUFFICES ASSUME StorageTypeOK, [StorageNext]_storageVars PROVE StorageTypeOK'
  OBVIOUS
<1>1. CASE UNCHANGED storageVars
  BY <1>1 DEF StorageTypeOK, storageVars
<1>2. ASSUME NEW t \in Threads, NEW result \in Pieces \cup {NoPiece}, Take(t, result)
      PROVE  StorageTypeOK'
  <2>1. PICK queue \in Seq(Pieces) :
          /\ TakeFront(queue, result)
          /\ DOMAIN blocks' = Pieces
          /\ \A p \in Pieces : blocks'[p] \in PieceType(p)
          /\ queueClosed' = queueClosed \/ queueClosed' = FALSE
    BY <1>2, QueueServed
  <2>2. remainPieces' \in Seq(Pieces) /\ piecesInProgress' \in SUBSET Pieces
    <3>1. CASE queue = << >>
      BY <2>1, <3>1 DEF TakeFront, StorageTypeOK
    <3>2. CASE queue # << >>
      <4>1. Head(queue) \in Pieces /\ Tail(queue) \in Seq(Pieces)
        BY <3>2, TailFacts
      <4> QED
        BY <2>1, <3>2, <4>1 DEF TakeFront, StorageTypeOK
    <3> QED
      BY <3>1, <3>2
  <2>3. pieceInProgress' \in [Threads -> Pieces \cup {NoPiece}]
    BY <1>2 DEF Take, StorageTypeOK
  <2> QED
    BY <1>2, <2>1, <2>2, <2>3 DEF Take, GetNextPieceToDownload, StorageTypeOK
<1>3. ASSUME NEW t \in Threads, MarkPending(t) PROVE StorageTypeOK'
  BY <1>3 DEF MarkPending, StorageUnchanged, StorageTypeOK, PieceType, BlockState
<1>4. ASSUME NEW t \in Threads, NEW p \in Pieces, NEW i \in 0 .. NumBlocks[p] - 1,
             NEW data \in BlockData, pieceInProgress[t] = p, StoreBlock(t, i, data)
      PROVE  StorageTypeOK'
  <2>1. SaveBlock(blocks[p], i, data) \in PieceType(p)
    <3>1. blocks[p] \in PieceType(p) /\ i \in DOMAIN blocks[p]
      BY DEF StorageTypeOK, PieceType
    <3> QED
      BY <3>1, PieceFacts
  <2> QED
    BY <1>4, <2>1 DEF StoreBlock, StorageUnchanged, StorageTypeOK
<1>5. ASSUME NEW t \in Threads, Return(t) PROVE StorageTypeOK'
  <2> DEFINE p == pieceInProgress[t]
  <2>1. p \in Pieces
    BY <1>5 DEF Return, Holds, StorageTypeOK
  <2>2. pieceInProgress' \in [Threads -> Pieces \cup {NoPiece}]
        /\ piecesInProgress' \in SUBSET Pieces
    BY <1>5 DEF Return, PieceProcessed, StorageTypeOK
  <2>3. CASE RejectPiece(p)
    <3>1. remainPieces' \in Seq(Pieces)
      BY <2>1, <2>3, AppendFacts DEF RejectPiece, StorageTypeOK
    <3>2. DOMAIN blocks' = Pieces /\ \A q \in Pieces : blocks'[q] \in PieceType(q)
      BY <2>1, <2>3, PieceFacts DEF RejectPiece, StorageTypeOK
    <3> QED
      BY <2>2, <2>3, <3>1, <3>2 DEF RejectPiece, StorageTypeOK
  <2>4. CASE AcceptPiece(p)
    <3>1. /\ disk' \in [Pieces -> {"Blank", "Torn", "Good", "Wrong"}]
          /\ diskFaults' \in 0 .. MaxDiskFaults
          /\ piecesSavedToDisc' \in SUBSET Pieces
          /\ piecesSavedToDiscIndices' \in Seq(Pieces)
      <4>1. CASE SavePieceToDisk(p)
        <5>1. piecesSavedToDisc' \in SUBSET Pieces /\ piecesSavedToDiscIndices' \in Seq(Pieces)
          BY <2>1, <4>1, AppendFacts DEF SavePieceToDisk, StorageTypeOK
        <5>2. /\ disk' \in [Pieces -> {"Blank", "Torn", "Good", "Wrong"}]
              /\ diskFaults' \in 0 .. MaxDiskFaults
          BY <2>1, <4>1, WriteKeepsTypes DEF SavePieceToDisk
        <5> QED
          BY <5>1, <5>2
      <4>2. CASE UNCHANGED << disk, diskFaults, piecesSavedToDisc, piecesSavedToDiscIndices >>
        BY <4>2 DEF StorageTypeOK
      <4> QED
        BY <2>4, <4>1, <4>2 DEF AcceptPiece
    <3>2. remainPieces' \in Seq(Pieces)
      BY <2>4 DEF AcceptPiece
    <3> QED
      BY <2>2, <2>4, <3>1, <3>2 DEF AcceptPiece, StorageTypeOK
  <2> QED
    BY <1>5, <2>3, <2>4 DEF Return, PieceProcessed
<1>6. ASSUME NEW t \in Threads, ReturnThrows(t) PROVE StorageTypeOK'
  <2>1. pieceInProgress[t] \in Pieces
    BY <1>6 DEF ReturnThrows, Holds, StorageTypeOK
  <2>2. /\ disk' \in [Pieces -> {"Blank", "Torn", "Good", "Wrong"}]
        /\ diskFaults' \in 0 .. MaxDiskFaults
    BY <1>6, <2>1, WriteKeepsTypes DEF ReturnThrows, PieceProcessedThrows
  <2> QED
    BY <1>6, <2>2 DEF ReturnThrows, PieceProcessedThrows, StorageTypeOK
<1>7. ASSUME NEW t \in Threads, Drop(t) PROVE StorageTypeOK'
  BY <1>7 DEF Drop, StorageUnchanged, StorageTypeOK
<1> QED
  BY <1>1, <1>2, <1>3, <1>4, <1>5, <1>6, <1>7 DEF StorageNext, StorageStep

\* The storage and its callers keep every variable within its type.
THEOREM TypeCorrect == StorageSpec => []StorageTypeOK
  BY TypeInit, TypeStep, PTL DEF StorageSpec

-------------------------------------------------------------------------------
(* The inductive invariant *)

\* The constructor's queue has every piece once, with all blocks missing.
LEMMA InvInit == StorageInit => StorageInv
<1> SUFFICES ASSUME StorageInit PROVE StorageInv
  OBVIOUS
<1>1. StorageTypeOK
  BY TypeInit
<1>2. \A t \in Threads : ~Holds(t)
  BY DEF StorageInit, Holds
<1>3. ExclusivePiece /\ HeldIsInProgress
  BY <1>2 DEF ExclusivePiece, NoSharedPiece, HeldIsInProgress
<1>4. Range(remainPieces) = Pieces /\ IsInjective(remainPieces)
  <2>1. /\ DOMAIN remainPieces = 1 .. NumPieces
        /\ \A i \in 1 .. NumPieces : remainPieces[i] = i - 1
    BY DEF StorageInit
  <2>2. \A p \in Pieces : p + 1 \in 1 .. NumPieces /\ remainPieces[p + 1] = p
    BY <2>1, StorageAssumption DEF Pieces
  <2>3. \A i \in 1 .. NumPieces : remainPieces[i] \in Pieces
    BY <2>1, StorageAssumption DEF Pieces
  <2> QED
    BY <2>1, <2>2, <2>3, StorageAssumption DEF Range, IsInjective
<1>5. QueueIsClean /\ NoPieceForgotten
  BY <1>4, PieceFacts DEF QueueIsClean, NoPieceForgotten, StorageInit
<1>6. ClosedQueueIsEmpty /\ SavedIsVerified
  BY DEF ClosedQueueIsEmpty, SavedIsVerified, StorageInit
<1>7. SavedCountIsExact
  BY FS_EmptySet DEF SavedCountIsExact, PiecesSavedToDiscCount, StorageInit, Range
<1> QED
  BY <1>1, <1>3, <1>5, <1>6, <1>7 DEF StorageInv

\* Taking a piece.  It comes from the front of a clean queue, so no thread held
\* it, and it is the only piece that changes its standing.
LEMMA TakeKeepsInv ==
  ASSUME StorageInv, NEW t \in Threads, NEW result \in Pieces \cup {NoPiece},
         Take(t, result)
  PROVE  StorageInv'
<1>1. StorageTypeOK /\ StorageTypeOK'
  BY TypeStep DEF StorageInv, StorageNext, StorageStep
<1>2. UNCHANGED << piecesSavedToDisc, piecesSavedToDiscIndices, disk, diskFaults >>
  BY DEF Take, GetNextPieceToDownload
<1>3. PICK queue \in Seq(Pieces) :
        /\ TakeFront(queue, result)
        /\ \/ /\ ~RefillNeeded
              /\ queue = remainPieces
              /\ UNCHANGED << blocks, queueClosed >>
           \/ /\ RefillNeeded
              /\ IsInjective(queue)
              /\ Range(queue) = Refillable
              /\ queueClosed' = FALSE
              /\ \A p \in Refillable : MissingBlocks(blocks'[p]) = DOMAIN blocks'[p]
  BY <1>1, QueueServed
<1>4. ClosedQueueIsEmpty'
  BY <1>3 DEF StorageInv, ClosedQueueIsEmpty, TakeFront
<1>5. SavedIsVerified' /\ SavedCountIsExact'
  BY <1>2 DEF StorageInv, SavedIsVerified, SavedCountIsExact, PiecesSavedToDiscCount
<1>6. ASSUME diskFaults = 0
      PROVE  ExclusivePiece' /\ HeldIsInProgress' /\ QueueIsClean' /\ NoPieceForgotten'
  <2>1. /\ IsInjective(queue)
        /\ Range(queue) \cap (piecesInProgress \cup piecesSavedToDisc) = {}
        /\ piecesInProgress \cap piecesSavedToDisc = {}
        /\ \A p \in Range(queue) : MissingBlocks(blocks'[p]) = DOMAIN blocks'[p]
    BY <1>3, <1>6 DEF StorageInv, QueueIsClean, Refillable
  <2>2. \A p \in Pieces :
          p \in piecesSavedToDisc \cup piecesInProgress \cup Range(queue) \/ queueClosed'
    BY <1>3, <1>6 DEF StorageInv, NoPieceForgotten, Refillable
  <2>3. \A u \in Threads : Holds(u) =>
          /\ pieceInProgress[u] \in piecesInProgress
          /\ pieceInProgress[u] \notin Range(queue) \cup piecesSavedToDisc
    BY <1>6, <2>1 DEF StorageInv, HeldIsInProgress
  <2>4. \A u, w \in Threads : Holds(u) /\ pieceInProgress[u] = pieceInProgress[w] => u = w
    BY <1>6 DEF StorageInv, ExclusivePiece, NoSharedPiece
  <2>5. /\ ~Holds(t)
        /\ pieceInProgress' = [pieceInProgress EXCEPT ![t] = result]
        /\ pieceInProgress \in [Threads -> Pieces \cup {NoPiece}]
    BY <1>1 DEF Take, StorageTypeOK
  <2>6. CASE queue = << >>
    <3>1. result = NoPiece /\ remainPieces' = queue /\ piecesInProgress' = piecesInProgress
      BY <1>3, <2>6 DEF TakeFront
    <3>2. pieceInProgress' = pieceInProgress
      BY <2>5, <3>1 DEF Holds
    <3> QED
      BY <1>2, <2>1, <2>2, <2>3, <2>4, <3>1, <3>2
      DEF ExclusivePiece, NoSharedPiece, HeldIsInProgress, QueueIsClean, NoPieceForgotten, Holds
  <2>7. CASE queue # << >>
    <3>1. /\ result = Head(queue)
          /\ remainPieces' = Tail(queue)
          /\ piecesInProgress' = piecesInProgress \cup {result}
      BY <1>3, <2>7 DEF TakeFront
    <3>2. /\ result \in Range(queue)
          /\ result \in Pieces
          /\ Range(queue) = Range(remainPieces') \cup {result}
          /\ IsInjective(remainPieces')
          /\ result \notin Range(remainPieces')
      BY <2>1, <2>7, <3>1, TailFacts
    <3>3. \A u \in Threads : pieceInProgress'[u] = IF u = t THEN result ELSE pieceInProgress[u]
      BY <2>5
    <3>4. \A u \in Threads : Holds(u) => pieceInProgress[u] # result
      BY <2>3, <3>2
    <3>5. \A u \in Threads : Holds(u)' <=> u = t \/ Holds(u)
      BY <3>2, <3>3, StorageAssumption DEF Holds
    <3>6. ExclusivePiece'
      <4>1. ASSUME NEW u \in Threads, NEW w \in Threads, Holds(u)',
                   pieceInProgress'[u] = pieceInProgress'[w]
            PROVE  u = w
        <5>1. Holds(w)'
          BY <4>1 DEF Holds
        <5>2. CASE u = t \/ w = t
          BY <3>3, <3>4, <3>5, <4>1, <5>1, <5>2
        <5>3. CASE u # t /\ w # t
          BY <2>4, <3>3, <3>5, <4>1, <5>3
        <5> QED
          BY <5>2, <5>3
      <4> QED
        BY <4>1 DEF ExclusivePiece, NoSharedPiece
    <3>7. HeldIsInProgress'
      BY <1>2, <2>1, <2>3, <3>1, <3>2, <3>3, <3>4, <3>5 DEF HeldIsInProgress
    <3>8. QueueIsClean'
      BY <1>2, <2>1, <3>1, <3>2 DEF QueueIsClean
    <3>9. NoPieceForgotten'
      BY <1>2, <2>2, <3>1, <3>2 DEF NoPieceForgotten
    <3> QED
      BY <3>6, <3>7, <3>8, <3>9
  <2> QED
    BY <2>6, <2>7
<1>7. ASSUME diskFaults # 0
      PROVE  ExclusivePiece' /\ HeldIsInProgress' /\ QueueIsClean' /\ NoPieceForgotten'
  BY <1>2, <1>7 DEF ExclusivePiece, HeldIsInProgress, QueueIsClean, NoPieceForgotten
<1> QED
  BY <1>1, <1>4, <1>5, <1>6, <1>7 DEF StorageInv

\* A step on the blocks of a held piece, which the queue does not have.
LEMMA BlocksKeepInv ==
  ASSUME StorageInv, StorageTypeOK', NEW t \in Threads, Holds(t), StorageUnchanged,
         UNCHANGED pieceInProgress,
         \A p \in Pieces : p # pieceInProgress[t] => blocks'[p] = blocks[p]
  PROVE  StorageInv'
<1>1. UNCHANGED << remainPieces, piecesInProgress, piecesSavedToDisc,
                   piecesSavedToDiscIndices, queueClosed, disk, diskFaults >>
  BY DEF StorageUnchanged
<1>2. ExclusivePiece' /\ HeldIsInProgress'
  BY <1>1 DEF StorageInv, ExclusivePiece, NoSharedPiece, HeldIsInProgress, Holds
<1>3. QueueIsClean'
  <2>1. diskFaults = 0 => \A p \in Range(remainPieces) : p \in Pieces /\ blocks'[p] = blocks[p]
    BY DEF StorageInv, StorageTypeOK, HeldIsInProgress, Range
  <2> QED
    BY <1>1, <2>1 DEF StorageInv, QueueIsClean
<1>4. NoPieceForgotten' /\ ClosedQueueIsEmpty' /\ SavedIsVerified' /\ SavedCountIsExact'
  BY <1>1 DEF StorageInv, NoPieceForgotten, ClosedQueueIsEmpty, SavedIsVerified,
              SavedCountIsExact, PiecesSavedToDiscCount
<1> QED
  BY <1>2, <1>3, <1>4 DEF StorageInv

\* Forgetting a piece: it stays in progress, so nothing else changes standing.
LEMMA DropKeepsInv ==
  ASSUME StorageInv, NEW t \in Threads, Drop(t)
  PROVE  StorageInv'
<1>1. StorageTypeOK /\ StorageTypeOK'
  BY TypeStep DEF StorageInv, StorageNext, StorageStep
<1>2. /\ UNCHANGED << remainPieces, piecesInProgress, piecesSavedToDisc, blocks,
                      piecesSavedToDiscIndices, queueClosed, disk, diskFaults >>
      /\ \A u \in Threads : pieceInProgress'[u] = IF u = t THEN NoPiece ELSE pieceInProgress[u]
  BY <1>1 DEF Drop, StorageUnchanged, StorageTypeOK
<1>3. ExclusivePiece' /\ HeldIsInProgress'
  BY <1>2 DEF StorageInv, ExclusivePiece, NoSharedPiece, HeldIsInProgress, Holds
<1>4. QueueIsClean' /\ NoPieceForgotten'
  BY <1>2 DEF StorageInv, QueueIsClean, NoPieceForgotten
<1>5. ClosedQueueIsEmpty' /\ SavedIsVerified' /\ SavedCountIsExact'
  BY <1>2 DEF StorageInv, ClosedQueueIsEmpty, SavedIsVerified,
              SavedCountIsExact, PiecesSavedToDiscCount
<1> QED
  BY <1>1, <1>3, <1>4, <1>5 DEF StorageInv

\* Recording a piece that is not saved yet counts it once.
LEMMA SavingCountsOnce ==
  ASSUME StorageTypeOK, SavedCountIsExact, NEW p \in Pieces, p \notin piecesSavedToDisc,
         SavePieceToDisk(p)
  PROVE  SavedCountIsExact'
<1>1. Range(piecesSavedToDiscIndices') = piecesSavedToDisc'
  BY AppendFacts DEF SavePieceToDisk, SavedCountIsExact, StorageTypeOK
<1>2. Len(piecesSavedToDiscIndices') = Len(piecesSavedToDiscIndices) + 1
  BY AppendProperties DEF SavePieceToDisk, StorageTypeOK
<1>3. Cardinality(piecesSavedToDisc') = Cardinality(piecesSavedToDisc) + 1
  BY PiecesFinite, FS_Subset, FS_AddElement DEF SavePieceToDisk, StorageTypeOK
<1> QED
  BY <1>1, <1>2, <1>3 DEF SavedCountIsExact, PiecesSavedToDiscCount

\* Handing a piece to PieceProcessed.  The piece was held by this thread alone,
\* so it leaves the set in progress for exactly one of the queue, the saved
\* pieces and, when the queue is closed, the next refill.
LEMMA ReturnKeepsInv ==
  ASSUME StorageInv, NEW t \in Threads, Return(t)
  PROVE  StorageInv'
<1> DEFINE p == pieceInProgress[t]
<1>1. StorageTypeOK /\ StorageTypeOK'
  BY TypeStep DEF StorageInv, StorageNext, StorageStep
<1>2. /\ p \in Pieces
      /\ Holds(t)
      /\ piecesInProgress' = piecesInProgress \ {p}
      /\ RejectPiece(p) \/ AcceptPiece(p)
      /\ \A u \in Threads : pieceInProgress'[u] = IF u = t THEN NoPiece ELSE pieceInProgress[u]
  BY <1>1 DEF Return, PieceProcessed, Holds, StorageTypeOK
<1> HIDE DEF p
<1>3. SavedCountIsExact'
  <2>1. CASE p \notin piecesSavedToDisc /\ SavePieceToDisk(p)
    BY <1>1, <1>2, <2>1, SavingCountsOnce DEF StorageInv
  <2>2. CASE UNCHANGED << piecesSavedToDisc, piecesSavedToDiscIndices >>
    BY <2>2 DEF StorageInv, SavedCountIsExact, PiecesSavedToDiscCount
  <2> QED
    BY <1>2, <2>1, <2>2 DEF RejectPiece, AcceptPiece
<1>4. ClosedQueueIsEmpty'
  BY <1>2 DEF StorageInv, ClosedQueueIsEmpty, RejectPiece, AcceptPiece
<1>5. CASE diskFaults' # 0
  BY <1>1, <1>3, <1>4, <1>5
  DEF StorageInv, ExclusivePiece, HeldIsInProgress, QueueIsClean, NoPieceForgotten, SavedIsVerified
<1>6. CASE diskFaults' = 0
  <2>1. diskFaults = 0
    BY <1>1, <1>2, <1>6, StorageAssumption
    DEF RejectPiece, AcceptPiece, SavePieceToDisk, WriteSucceeds, WriteFails, StorageTypeOK
  <2>2. /\ \A u \in Threads : Holds(u) /\ u # t =>
              /\ pieceInProgress[u] # p
              /\ pieceInProgress[u] \in piecesInProgress
              /\ pieceInProgress[u] \notin Range(remainPieces) \cup piecesSavedToDisc
        /\ p \in piecesInProgress
        /\ p \notin Range(remainPieces) \cup piecesSavedToDisc
    BY <1>2, <2>1 DEF StorageInv, ExclusivePiece, NoSharedPiece, HeldIsInProgress, p
  <2>3. \A u \in Threads : Holds(u)' <=> u # t /\ Holds(u)
    BY <1>2 DEF Holds
  <2>4. ExclusivePiece'
    <3>1. ASSUME NEW u \in Threads, NEW w \in Threads, Holds(u)',
                 pieceInProgress'[u] = pieceInProgress'[w]
          PROVE  u = w
      <4>1. u # t /\ w # t /\ Holds(u)
        BY <1>2, <2>3, <3>1 DEF Holds
      <4>2. pieceInProgress[u] = pieceInProgress[w]
        BY <1>2, <3>1, <4>1
      <4> QED
        BY <2>1, <4>1, <4>2 DEF StorageInv, ExclusivePiece, NoSharedPiece
    <3> QED
      BY <3>1 DEF ExclusivePiece, NoSharedPiece
  <2>5. CASE RejectPiece(p)
    <3>1. UNCHANGED << queueClosed, piecesSavedToDisc, disk >>
      BY <2>5 DEF RejectPiece
    <3>2. /\ \A q \in Pieces : q # p => blocks'[q] = blocks[q]
          /\ MissingBlocks(blocks'[p]) = DOMAIN blocks'[p]
      BY <1>1, <1>2, <2>5, PieceFacts DEF RejectPiece, StorageTypeOK
    <3>3. /\ IsInjective(remainPieces')
          /\ Range(remainPieces') \subseteq Range(remainPieces) \cup {p}
          /\ Range(remainPieces) \subseteq Range(remainPieces')
          /\ queueClosed \/ p \in Range(remainPieces')
      <4>1. CASE queueClosed
        BY <2>1, <2>5, <4>1 DEF RejectPiece, StorageInv, QueueIsClean
      <4>2. CASE ~queueClosed
        BY <1>1, <1>2, <2>1, <2>2, <2>5, <4>2, AppendFacts
        DEF RejectPiece, StorageInv, QueueIsClean, StorageTypeOK
      <4> QED
        BY <4>1, <4>2
    <3>4. Range(remainPieces) \subseteq Pieces
      BY <1>1 DEF StorageTypeOK, Range
    <3>5. HeldIsInProgress'
      BY <1>2, <2>2, <2>3, <3>1, <3>3 DEF HeldIsInProgress
    <3>6. QueueIsClean'
      BY <1>2, <2>1, <2>2, <3>1, <3>2, <3>3, <3>4 DEF StorageInv, QueueIsClean
    <3>7. NoPieceForgotten'
      BY <1>2, <2>1, <3>1, <3>3 DEF StorageInv, NoPieceForgotten
    <3>8. SavedIsVerified'
      BY <2>1, <3>1 DEF StorageInv, SavedIsVerified
    <3> QED
      BY <1>1, <1>3, <1>4, <2>4, <3>5, <3>6, <3>7, <3>8 DEF StorageInv
  <2>6. CASE AcceptPiece(p)
    <3>1. /\ remainPieces' = << >>
          /\ queueClosed'
          /\ piecesSavedToDisc' = piecesSavedToDisc \cup {p}
      BY <2>6, <2>2 DEF AcceptPiece, SavePieceToDisk
    <3>2. Range(remainPieces') = {} /\ IsInjective(remainPieces')
      BY <3>1 DEF Range, IsInjective
    <3>3. HeldIsInProgress'
      BY <1>2, <2>2, <2>3, <3>1, <3>2 DEF HeldIsInProgress
    <3>4. QueueIsClean' /\ NoPieceForgotten'
      BY <1>2, <2>1, <3>1, <3>2 DEF StorageInv, QueueIsClean, NoPieceForgotten
    <3>5. SavedIsVerified'
      <4>1. disk' = [disk EXCEPT ![p] = "Good"]
        BY <1>6, <2>1, <2>2, <2>6
        DEF AcceptPiece, SavePieceToDisk, WriteSucceeds, WriteFails, GetData, HashMatches
      <4> QED
        BY <1>1, <1>2, <2>1, <3>1, <4>1 DEF StorageInv, SavedIsVerified, StorageTypeOK
    <3> QED
      BY <1>1, <1>3, <1>4, <2>4, <3>3, <3>4, <3>5 DEF StorageInv
  <2> QED
    BY <1>2, <2>5, <2>6
<1> QED
  BY <1>5, <1>6

\* A failed write ends the promises that hold until one fails; the count and
\* the closed queue are untouched.
LEMMA ThrowKeepsInv ==
  ASSUME StorageInv, NEW t \in Threads, ReturnThrows(t)
  PROVE  StorageInv'
<1>1. StorageTypeOK /\ StorageTypeOK'
  BY TypeStep DEF StorageInv, StorageNext, StorageStep
<1>2. diskFaults' # 0
  BY <1>1, StorageAssumption
  DEF ReturnThrows, PieceProcessedThrows, WriteFails, StorageTypeOK
<1>3. ClosedQueueIsEmpty' /\ SavedCountIsExact'
  BY DEF StorageInv, ReturnThrows, PieceProcessedThrows, ClosedQueueIsEmpty,
         SavedCountIsExact, PiecesSavedToDiscCount
<1> QED
  BY <1>1, <1>2, <1>3
  DEF StorageInv, ExclusivePiece, HeldIsInProgress, QueueIsClean, NoPieceForgotten, SavedIsVerified

\* The invariant is inductive: one case per thing a caller can do.
LEMMA InvStep == StorageInv /\ [StorageNext]_storageVars => StorageInv'
<1> SUFFICES ASSUME StorageInv, [StorageNext]_storageVars PROVE StorageInv'
  OBVIOUS
<1>1. StorageTypeOK /\ StorageTypeOK'
  BY TypeStep DEF StorageInv
<1>2. CASE UNCHANGED storageVars
  BY <1>2 DEF storageVars, StorageInv, StorageTypeOK, ExclusivePiece, NoSharedPiece,
    HeldIsInProgress, QueueIsClean, NoPieceForgotten, ClosedQueueIsEmpty, SavedIsVerified,
    SavedCountIsExact, PiecesSavedToDiscCount, Holds
<1>3. ASSUME NEW t \in Threads, MarkPending(t) PROVE StorageInv'
  BY <1>1, <1>3, BlocksKeepInv DEF MarkPending, StorageTypeOK
<1>4. ASSUME NEW t \in Threads, NEW i, NEW data, StoreBlock(t, i, data) PROVE StorageInv'
  BY <1>1, <1>4, BlocksKeepInv DEF StoreBlock, StorageTypeOK
<1> QED
  BY <1>2, <1>3, <1>4, TakeKeepsInv, ReturnKeepsInv, ThrowKeepsInv, DropKeepsInv
  DEF StorageNext, StorageStep

\* The storage keeps its bookkeeping: with any number of threads and pieces,
\* and until a disk write fails, a piece is queued, in progress or saved and
\* never two of them, a held piece has one holder, and what is saved is right.
THEOREM StorageCorrect == StorageSpec => []StorageInv
  BY InvInit, InvStep, PTL DEF StorageSpec

\* No two threads are given the same Piece until a disk write fails.
THEOREM PieceHasOneHolder == StorageSpec => []ExclusivePiece
<1>1. StorageInv => ExclusivePiece
  BY DEF StorageInv
<1> QED
  BY <1>1, StorageCorrect, PTL

\* Until a disk write fails a held piece is in progress, and nobody else can be
\* given it: it is neither queued nor saved.
THEOREM HeldPiecesAreInProgress == StorageSpec => []HeldIsInProgress
<1>1. StorageInv => HeldIsInProgress
  BY DEF StorageInv
<1> QED
  BY <1>1, StorageCorrect, PTL

\* Until a disk write fails queue, progress set and saved set exclude each
\* other, and a queued piece carries no block of an earlier attempt.
THEOREM QueueStaysClean == StorageSpec => []QueueIsClean
<1>1. StorageInv => QueueIsClean
  BY DEF StorageInv
<1> QED
  BY <1>1, StorageCorrect, PTL

\* No piece enters a closed queue, disk failures or not.
THEOREM ClosedQueueStaysEmpty == StorageSpec => []ClosedQueueIsEmpty
<1>1. StorageInv => ClosedQueueIsEmpty
  BY DEF StorageInv
<1> QED
  BY <1>1, StorageCorrect, PTL

\* Every piece reported saved is in the file with the torrent's bytes until a
\* disk write fails.
THEOREM SavedPiecesAreVerified == StorageSpec => []SavedIsVerified
<1>1. StorageInv => SavedIsVerified
  BY DEF StorageInv
<1> QED
  BY <1>1, StorageCorrect, PTL

\* Until a disk write fails, no piece drops out of the storage's accounts.
THEOREM PiecesAreAccountedFor == StorageSpec => []NoPieceForgotten
<1>1. StorageInv => NoPieceForgotten
  BY DEF StorageInv
<1> QED
  BY <1>1, StorageCorrect, PTL

\* main's loop condition counts the saved pieces, each once, disk failures or not.
THEOREM SavedPiecesAreCountedOnce == StorageSpec => []SavedCountIsExact
<1>1. StorageInv => SavedCountIsExact
  BY DEF StorageInv
<1> QED
  BY <1>1, StorageCorrect, PTL

-------------------------------------------------------------------------------
(* Action properties *)

\* No step takes a piece out of the saved set.
LEMMA SavedOnlyGrows ==
  [StorageNext]_storageVars => piecesSavedToDisc \subseteq piecesSavedToDisc'
BY DEF StorageNext, StorageStep, storageVars, Take, GetNextPieceToDownload, MarkPending,
   StoreBlock, Return, PieceProcessed, RejectPiece, AcceptPiece, SavePieceToDisk,
   ReturnThrows, PieceProcessedThrows, Drop, StorageUnchanged

\* A saved piece stays saved and its place in the file is never written again.
THEOREM SavedPiecesAreFinal == StorageSpec => SavedIsFinal
<1> DEFINE Final == \A p \in piecesSavedToDisc : p \in piecesSavedToDisc' /\ disk'[p] = disk[p]
<1>1. ASSUME StorageTypeOK, [StorageNext]_storageVars
      PROVE  [Final]_storageVars
  <2>1. CASE UNCHANGED << piecesSavedToDisc, disk >>
    BY <2>1
  <2>2. ASSUME NEW t \in Threads, Return(t) \/ ReturnThrows(t) PROVE Final
    <3> DEFINE p == pieceInProgress[t]
    <3>1. CASE UNCHANGED << piecesSavedToDisc, disk >>
      BY <3>1
    <3>2. CASE /\ p \notin piecesSavedToDisc
               /\ WriteSucceeds(p) \/ WriteFails(p)
               /\ piecesSavedToDisc \subseteq piecesSavedToDisc'
      BY <1>1, <3>2 DEF WriteSucceeds, WriteFails, StorageTypeOK
    <3> QED
      BY <2>2, <3>1, <3>2
      DEF Return, ReturnThrows, PieceProcessed, PieceProcessedThrows,
          RejectPiece, AcceptPiece, SavePieceToDisk
  <2> QED
    BY <1>1, <2>1, <2>2
    DEF StorageNext, StorageStep, storageVars, Take, GetNextPieceToDownload, MarkPending,
        StoreBlock, Drop, StorageUnchanged
<1> QED
  BY <1>1, TypeCorrect, PTL DEF StorageSpec, SavedIsFinal

\* A refill neither resets nor queues a piece some thread points to.
THEOREM RefillsSpareHeldPieces == StorageSpec => RefillSparesHeldPieces
<1> DEFINE Spared ==
      diskFaults = 0 /\ queueClosed /\ ~queueClosed' =>
        \A t \in Threads : Holds(t) =>
          LET p == pieceInProgress[t] IN
            blocks'[p] = blocks[p] /\ p \notin Range(remainPieces')
<1>1. ASSUME StorageInv, [StorageNext]_storageVars
      PROVE  [Spared]_storageVars
  <2>1. CASE ~(queueClosed /\ ~queueClosed')
    BY <2>1
  <2>2. ASSUME diskFaults = 0, RefillNeeded PROVE \A t \in Threads : ~Holds(t)
    BY <1>1, <2>2 DEF StorageInv, HeldIsInProgress, RefillNeeded
  <2>3. ASSUME NEW t \in Threads, NEW result \in Pieces \cup {NoPiece}, Take(t, result)
        PROVE  Spared
    BY <2>2, <2>3 DEF Take, GetNextPieceToDownload
  <2> QED
    BY <1>1, <2>1, <2>3
    DEF StorageNext, StorageStep, storageVars, MarkPending, StoreBlock, Drop, StorageUnchanged,
        Return, ReturnThrows, PieceProcessed, PieceProcessedThrows, RejectPiece, AcceptPiece
<1> QED
  BY <1>1, StorageCorrect, PTL DEF StorageSpec, RefillSparesHeldPieces

-------------------------------------------------------------------------------
(* The storage implements the ledger *)

\* The constructor opens every piece.
LEMMA LedgerInitially == StorageInit => Ledger!LedgerInit
  BY DEF StorageInit, Ledger!LedgerInit

\* Taking a piece is claiming it; finding none is a stutter.
LEMMA TakeClaims ==
  ASSUME StorageInv, diskFaults = 0, NEW t \in Threads, NEW result \in Pieces \cup {NoPiece},
         Take(t, result)
  PROVE  [Ledger!LedgerNext]_(Ledger!ledgerVars)
<1>1. StorageTypeOK
  BY DEF StorageInv
<1>2. PICK queue \in Seq(Pieces) :
        /\ TakeFront(queue, result)
        /\ queue = remainPieces \/ Range(queue) = Refillable
  BY <1>1, QueueServed
<1>3. Range(queue) \cap (piecesInProgress \cup piecesSavedToDisc) = {}
  BY <1>2 DEF StorageInv, QueueIsClean, Refillable
<1>4. CASE queue = << >>
  BY <1>1, <1>2, <1>4
  DEF TakeFront, Take, GetNextPieceToDownload, Holds, StorageTypeOK, Ledger!ledgerVars
<1>5. CASE queue # << >>
  <2>1. result = Head(queue) /\ piecesInProgress' = piecesInProgress \cup {result}
    BY <1>2, <1>5 DEF TakeFront
  <2>2. result \in Pieces /\ result \in Range(queue)
    BY <1>5, <2>1, TailFacts
  <2>3. Ledger!Claim(t, result)
    BY <1>3, <2>1, <2>2 DEF Take, GetNextPieceToDownload, Holds, Ledger!Claim
  <2> QED
    BY <2>2, <2>3 DEF Ledger!LedgerNext
<1> QED
  BY <1>4, <1>5

\* PieceProcessed gives a rejected piece back and saves an accepted one.
LEMMA ReturnSettles ==
  ASSUME StorageInv, diskFaults = 0, diskFaults' = 0, NEW t \in Threads, Return(t)
  PROVE  Ledger!GiveBack(t) \/ Ledger!Save(t)
<1> DEFINE p == pieceInProgress[t]
<1>1. p \in Pieces /\ p \in piecesInProgress /\ p \notin piecesSavedToDisc
  BY DEF StorageInv, StorageTypeOK, HeldIsInProgress, Return, Holds
<1>2. /\ p # NoPiece
      /\ piecesInProgress' = piecesInProgress \ {p}
      /\ pieceInProgress' = [pieceInProgress EXCEPT ![t] = NoPiece]
      /\ RejectPiece(p) \/ AcceptPiece(p)
  BY DEF Return, PieceProcessed, Holds
<1>3. CASE RejectPiece(p)
  BY <1>1, <1>2, <1>3 DEF RejectPiece, Ledger!GiveBack
<1>4. CASE AcceptPiece(p)
  BY <1>1, <1>2, <1>4 DEF AcceptPiece, SavePieceToDisk, Ledger!Save
<1> QED
  BY <1>2, <1>3, <1>4

\* A step after which no write has failed starts where none had failed.
LEMMA FaultsStay ==
  ASSUME StorageInv, [StorageNext]_storageVars, diskFaults' = 0
  PROVE  diskFaults = 0
<1>1. diskFaults \in Nat
  BY DEF StorageInv, StorageTypeOK
<1>2. ASSUME NEW p, SavePieceToDisk(p) PROVE diskFaults' \in {diskFaults, diskFaults + 1}
  BY <1>2 DEF SavePieceToDisk, WriteSucceeds, WriteFails
<1>3. ASSUME NEW t \in Threads, StorageStep(t)
      PROVE  diskFaults' \in {diskFaults, diskFaults + 1}
  <2>1. CASE Return(t)
    BY <1>2, <2>1 DEF Return, PieceProcessed, RejectPiece, AcceptPiece
  <2>2. CASE ReturnThrows(t)
    BY <2>2 DEF ReturnThrows, PieceProcessedThrows, WriteFails
  <2> QED
    BY <1>3, <2>1, <2>2
    DEF StorageStep, Take, GetNextPieceToDownload, MarkPending, StoreBlock, Drop,
        StorageUnchanged
<1> QED
  BY <1>1, <1>3 DEF StorageNext, storageVars

\* As long as no write has failed, every other step forgets a claim or is a
\* stutter; a step that fails to write breaks the ledger.
LEMMA LedgerStep ==
  ASSUME StorageInv, [StorageNext]_storageVars
  PROVE  [Ledger!LedgerNext]_(Ledger!ledgerVars)
<1>1. CASE diskFaults' # 0
  BY <1>1 DEF Ledger!Broken, Ledger!LedgerNext
<1>2. CASE diskFaults' = 0
  <2>1. diskFaults = 0 /\ diskFaults \in Nat
    BY <1>2, FaultsStay DEF StorageInv, StorageTypeOK
  <2>2. CASE UNCHANGED << piecesInProgress, piecesSavedToDisc, pieceInProgress >>
    BY <1>2, <2>1, <2>2 DEF Ledger!ledgerVars
  <2>3. ASSUME NEW t \in Threads, Drop(t) PROVE Ledger!Forget(t)
    BY <1>2, <2>1, <2>3 DEF Drop, Holds, StorageUnchanged, Ledger!Forget
  <2>4. ASSUME NEW t \in Threads, ReturnThrows(t) PROVE FALSE
    BY <1>2, <2>1, <2>4 DEF ReturnThrows, PieceProcessedThrows, WriteFails
  <2> QED
    BY <1>2, <2>1, <2>2, <2>3, <2>4, TakeClaims, ReturnSettles
    DEF StorageNext, StorageStep, storageVars, MarkPending, StoreBlock, StorageUnchanged,
        Ledger!LedgerNext
<1> QED
  BY <1>1, <1>2

\* PieceStorage implements the ledger until a disk write fails: a claim has one
\* holder and ends by being given back, saved or forgotten.
THEOREM StorageImplementsLedger == StorageSpec => LedgerSpec
<1>1. StorageInv /\ [StorageNext]_storageVars => [Ledger!LedgerNext]_(Ledger!ledgerVars)
  BY LedgerStep
<1> QED
  BY <1>1, LedgerInitially, StorageCorrect, PTL
  DEF StorageSpec, LedgerSpec, Ledger!LedgerSpec
===============================================================================
