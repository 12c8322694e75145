----------------------------- MODULE PieceStorage -----------------------------
(***************************************************************************)
(* piece_storage.h, piece_storage.cpp: the monitor that hands the pieces   *)
(* of the file to the peer threads and writes the finished ones to disk.   *)
(*                                                                         *)
(* Every public method runs under PieceStorage::mutex_, so each method is  *)
(* one atomic action.  The module also holds the monitor's contract with   *)
(* its callers: pieceInProgress[t] is the piece thread t has a pointer to, *)
(* and StorageNext is everything a caller may do with the storage and with *)
(* the piece it points to.                                                 *)
(***************************************************************************)
EXTENDS Piece, Sequences, FiniteSets, Functions

CONSTANTS
  Threads,       \* the peer threads (one PeerConnect each)
  NumPieces,     \* piecesToDownload_, at least 1 (main.cpp refuses 0)
  NumBlocks,     \* blocks of each piece, none empty in a well-formed torrent
  NoPiece,       \* the null PiecePtr
  MaxDiskFaults  \* bound on the writes of SavePieceToDisk that fail

Pieces == 0 .. NumPieces - 1

ASSUME StorageAssumption ==
  /\ NumPieces \in Nat \ {0}
  /\ NumBlocks \in [Pieces -> Nat \ {0}]
  /\ NoPiece \notin Pieces
  /\ MaxDiskFaults \in Nat

VARIABLES
  remainPieces,              \* the queue of pieces waiting for a thread
  piecesInProgress,          \* indices handed out and not yet processed
  piecesSavedToDisc,         \* indices written to disk
  piecesSavedToDiscIndices,  \* the same in the order of writing
  queueClosed,               \* a piece was saved since the last refill
  blocks,                    \* the Piece objects of allPieces_
  disk,                      \* what the output file holds at each piece's place
  diskFaults,                \* number of failed writes so far
  pieceInProgress            \* the PiecePtr each thread holds

storageVars == << remainPieces, piecesInProgress, piecesSavedToDisc,
                  piecesSavedToDiscIndices, queueClosed, blocks, disk,
                  diskFaults, pieceInProgress >>

-------------------------------------------------------------------------------
(* Constructor *)

\* Mutant: the queue numbers the pieces from 1.
StorageInitFromOne ==
  /\ remainPieces = [i \in 1 .. NumPieces |-> i]
  /\ piecesInProgress = {}
  /\ piecesSavedToDisc = {}
  /\ piecesSavedToDiscIndices = << >>
  /\ queueClosed = FALSE
  /\ blocks = [p \in Pieces |-> NewPiece(NumBlocks[p])]
  /\ disk = [p \in Pieces |-> "Blank"]
  /\ diskFaults = 0
  /\ pieceInProgress = [t \in Threads |-> NoPiece]

StorageInit ==
  /\ remainPieces = [i \in 1 .. NumPieces |-> i - 1]
  /\ piecesInProgress = {}
  /\ piecesSavedToDisc = {}
  /\ piecesSavedToDiscIndices = << >>
  /\ queueClosed = FALSE
  /\ blocks = [p \in Pieces |-> NewPiece(NumBlocks[p])]
  /\ disk = [p \in Pieces |-> "Blank"]
  /\ diskFaults = 0
  /\ pieceInProgress = [t \in Threads |-> NoPiece]

-------------------------------------------------------------------------------
(* GetNextPieceToDownload *)

\* Mutant: a closed queue is never filled again.
RefillNever == FALSE

RefillNeeded == remainPieces = << >> /\ queueClosed /\ piecesInProgress = {}

\* Mutant: the refill brings saved pieces back.
RefillableSavedToo == Pieces \ piecesInProgress

Refillable == Pieces \ (piecesSavedToDisc \cup piecesInProgress)

\* The walk over allPieces_ pushes the refillable pieces in index order.
RefillQueue(queue) ==
  /\ \A i, j \in DOMAIN queue : i < j => queue[i] < queue[j]
  /\ Range(queue) = Refillable
  /\ queueClosed' = FALSE
  /\ blocks' = [p \in Pieces |-> IF p \in Refillable THEN ResetPiece(blocks[p])
                                                     ELSE blocks[p]]

\* Mutants: the front piece is not popped; it is not counted in progress.
TakeFrontNoPop(queue, result) ==
  /\ queue # << >>
  /\ result = Head(queue)
  /\ remainPieces' = queue
  /\ piecesInProgress' = piecesInProgress \cup {result}

TakeFrontNoInsert(queue, result) ==
  /\ queue # << >>
  /\ result = Head(queue)
  /\ remainPieces' = Tail(queue)
  /\ UNCHANGED piecesInProgress

TakeFront(queue, result) ==
  \/ /\ queue = << >>
     /\ result = NoPiece
     /\ remainPieces' = queue
     /\ UNCHANGED piecesInProgress
  \/ /\ queue # << >>
     /\ result = Head(queue)
     /\ remainPieces' = Tail(queue)
     /\ piecesInProgress' = piecesInProgress \cup {result}

GetNextPieceToDownload(result) ==
  /\ \/ /\ RefillNeeded
        /\ \E queue \in [1 .. Cardinality(Refillable) -> Refillable] :
             RefillQueue(queue) /\ TakeFront(queue, result)
     \/ /\ ~RefillNeeded
        /\ TakeFront(remainPieces, result)
        /\ UNCHANGED << queueClosed, blocks >>
  /\ UNCHANGED << piecesSavedToDisc, piecesSavedToDiscIndices, disk, diskFaults >>

-------------------------------------------------------------------------------
(* The counters the main thread reads. *)

PiecesSavedToDiscCount == Len(piecesSavedToDiscIndices)
PiecesInProgressCount  == Cardinality(piecesInProgress)

-------------------------------------------------------------------------------
(* PieceProcessed *)

\* Mutants: a rejected piece keeps its blocks; is not queued again; is queued
\* although the queue is closed.
RejectPieceNoReset(p) ==
  /\ ~HashMatches(blocks[p])
  /\ remainPieces' = IF queueClosed THEN remainPieces ELSE Append(remainPieces, p)
  /\ UNCHANGED << blocks, queueClosed, piecesSavedToDisc,
                  piecesSavedToDiscIndices, disk, diskFaults >>

RejectPieceNoPush(p) ==
  /\ ~HashMatches(blocks[p])
  /\ blocks' = [blocks EXCEPT ![p] = ResetPiece(@)]
  /\ UNCHANGED << remainPieces, queueClosed, piecesSavedToDisc,
                  piecesSavedToDiscIndices, disk, diskFaults >>

RejectPieceAlwaysPush(p) ==
  /\ ~HashMatches(blocks[p])
  /\ blocks' = [blocks EXCEPT ![p] = ResetPiece(@)]
  /\ remainPieces' = Append(remainPieces, p)
  /\ UNCHANGED << queueClosed, piecesSavedToDisc, piecesSavedToDiscIndices,
                  disk, diskFaults >>

RejectPiece(p) ==
  /\ ~HashMatches(blocks[p])
  /\ blocks' = [blocks EXCEPT ![p] = ResetPiece(@)]
  /\ remainPieces' = IF queueClosed THEN remainPieces ELSE Append(remainPieces, p)
  /\ UNCHANGED << queueClosed, piecesSavedToDisc, piecesSavedToDiscIndices,
                  disk, diskFaults >>

\* The piece is written at its place, wholly; or the stream fails, and the
\* place holds what it held before or a torn piece.
WriteSucceeds(p) ==
  /\ disk' = [disk EXCEPT ![p] = GetData(blocks[p])]
  /\ UNCHANGED diskFaults

WriteFails(p) ==
  /\ diskFaults < MaxDiskFaults
  /\ \E content \in {"Torn", disk[p]} : disk' = [disk EXCEPT ![p] = content]
  /\ diskFaults' = diskFaults + 1

\* Mutant: the piece goes to the end of what was saved so far.
SavePieceInOrder(p) ==
  LET place == PiecesSavedToDiscCount IN
    /\ disk' = [disk EXCEPT ![place] = IF place = p THEN GetData(blocks[p]) ELSE "Wrong"]
    /\ piecesSavedToDisc' = piecesSavedToDisc \cup {p}
    /\ piecesSavedToDiscIndices' = Append(piecesSavedToDiscIndices, p)
    /\ UNCHANGED diskFaults

\* SavePieceToDisk and the bookkeeping after it.  The stream is tested after
\* the write and not after the flush, so a failed flush goes unnoticed.
SavePieceToDisk(p) ==
  /\ WriteSucceeds(p) \/ WriteFails(p)
  /\ piecesSavedToDisc' = piecesSavedToDisc \cup {p}
  /\ piecesSavedToDiscIndices' = Append(piecesSavedToDiscIndices, p)

\* Mutant: a piece that was saved before is saved again.
AcceptPieceAgain(p) ==
  /\ HashMatches(blocks[p])
  /\ SavePieceToDisk(p)
  /\ remainPieces' = << >>
  /\ queueClosed' = TRUE
  /\ UNCHANGED blocks

AcceptPiece(p) ==
  /\ HashMatches(blocks[p])
  /\ \/ p \notin piecesSavedToDisc /\ SavePieceToDisk(p)
     \/ /\ p \in piecesSavedToDisc
        /\ UNCHANGED << disk, diskFaults, piecesSavedToDisc, piecesSavedToDiscIndices >>
  /\ remainPieces' = << >>
  /\ queueClosed' = TRUE
  /\ UNCHANGED blocks

PieceProcessed(p) ==
  /\ piecesInProgress' = piecesInProgress \ {p}
  /\ RejectPiece(p) \/ AcceptPiece(p)

\* SavePieceToDisk throws: the seek or the write fails.  The index is already
\* erased and nothing else was done.
PieceProcessedThrows(p) ==
  /\ HashMatches(blocks[p])
  /\ p \notin piecesSavedToDisc
  /\ WriteFails(p)
  /\ piecesInProgress' = piecesInProgress \ {p}
  /\ UNCHANGED << remainPieces, queueClosed, blocks, piecesSavedToDisc,
                  piecesSavedToDiscIndices >>

-------------------------------------------------------------------------------
(* What a caller does with the storage and with the piece it holds. *)

StorageUnchanged ==
  UNCHANGED << remainPieces, piecesInProgress, piecesSavedToDisc,
               piecesSavedToDiscIndices, queueClosed, disk, diskFaults >>

Holds(t) == pieceInProgress[t] # NoPiece

Take(t, result) ==
  /\ ~Holds(t)
  /\ GetNextPieceToDownload(result)
  /\ pieceInProgress' = [pieceInProgress EXCEPT ![t] = result]

\* A request for the first missing block went out (RequestPiece).
MarkPending(t) ==
  LET p == pieceInProgress[t] IN
    /\ Holds(t)
    /\ MissingBlocks(blocks[p]) # {}
    /\ blocks' = [blocks EXCEPT ![p][FirstMissingBlock(blocks[p])] = "Pending"]
    /\ StorageUnchanged
    /\ UNCHANGED pieceInProgress

\* A block of the held piece arrived (the Piece case of MainLoop).
StoreBlock(t, i, data) ==
  LET p == pieceInProgress[t] IN
    /\ Holds(t)
    /\ i \in DOMAIN blocks[p]
    /\ blocks' = [blocks EXCEPT ![p] = SaveBlock(@, i, data)]
    /\ StorageUnchanged
    /\ UNCHANGED pieceInProgress

\* PieceProcessed(pieceInProgress_); pieceInProgress_ = nullptr.
Return(t) ==
  /\ Holds(t)
  /\ PieceProcessed(pieceInProgress[t])
  /\ pieceInProgress' = [pieceInProgress EXCEPT ![t] = NoPiece]

\* PieceProcessed threw, so the assignment of nullptr was not reached.
ReturnThrows(t) ==
  /\ Holds(t)
  /\ PieceProcessedThrows(pieceInProgress[t])
  /\ UNCHANGED pieceInProgress

\* The pointer goes away without PieceProcessed (Run, ~PeerConnect, Have).
Drop(t) ==
  /\ Holds(t)
  /\ pieceInProgress' = [pieceInProgress EXCEPT ![t] = NoPiece]
  /\ StorageUnchanged
  /\ UNCHANGED blocks

StorageStep(t) ==
  \/ \E result \in Pieces \cup {NoPiece} : Take(t, result)
  \/ MarkPending(t)
  \/ \E p \in Pieces : \E i \in 0 .. NumBlocks[p] - 1, data \in BlockData :
       pieceInProgress[t] = p /\ StoreBlock(t, i, data)
  \/ Return(t)
  \/ ReturnThrows(t)
  \/ Drop(t)

StorageNext == \E t \in Threads : StorageStep(t)

StorageSpec == StorageInit /\ [][StorageNext]_storageVars

-------------------------------------------------------------------------------
(* Properties *)

PieceType(p) == [0 .. NumBlocks[p] - 1 -> BlockState]

\* Every variable has the type of the member it stands for.
StorageTypeOK ==
  /\ remainPieces \in Seq(Pieces)
  /\ piecesInProgress \in SUBSET Pieces
  /\ piecesSavedToDisc \in SUBSET Pieces
  /\ piecesSavedToDiscIndices \in Seq(Pieces)
  /\ queueClosed \in BOOLEAN
  /\ DOMAIN blocks = Pieces
  /\ \A p \in Pieces : blocks[p] \in PieceType(p)
  /\ disk \in [Pieces -> {"Blank", "Torn", "Good", "Wrong"}]
  /\ diskFaults \in 0 .. MaxDiskFaults
  /\ pieceInProgress \in [Threads -> Pieces \cup {NoPiece}]

\* readme.md:4 asks that PieceStorage "can be used from several threads": no
\* two of them are ever given the same Piece, which has no lock, at one time.
NoSharedPiece ==
  \A t, u \in Threads : Holds(t) /\ pieceInProgress[t] = pieceInProgress[u] => t = u

\* Two threads never hold the same piece, so a Piece, which has no lock of its
\* own, is never written by two threads.  Holds until a disk write fails.
ExclusivePiece == diskFaults = 0 => NoSharedPiece

\* A piece that a thread holds is counted in progress and is neither queued nor
\* saved, so no other thread can be given it and no refill can reset it.
HeldIsInProgress ==
  diskFaults = 0 =>
    \A t \in Threads : Holds(t) =>
      /\ pieceInProgress[t] \in piecesInProgress
      /\ pieceInProgress[t] \notin Range(remainPieces) \cup piecesSavedToDisc

\* A piece is queued at most once, and queued, in progress and saved exclude
\* each other; a queued piece carries nothing over from the attempt that failed.
QueueIsClean ==
  diskFaults = 0 =>
    /\ IsInjective(remainPieces)
    /\ Range(remainPieces) \cap (piecesInProgress \cup piecesSavedToDisc) = {}
    /\ piecesInProgress \cap piecesSavedToDisc = {}
    /\ \A p \in Range(remainPieces) : MissingBlocks(blocks[p]) = DOMAIN blocks[p]

\* No piece is forgotten: one that is not saved, in progress or queued can only
\* be one that a closed queue turned away, which the next refill brings back.
NoPieceForgotten ==
  diskFaults = 0 =>
    \A p \in Pieces :
      p \in piecesSavedToDisc \cup piecesInProgress \cup Range(remainPieces) \/ queueClosed

\* The queue stays empty from a successful piece until the refill.
ClosedQueueIsEmpty == queueClosed => remainPieces = << >>

\* The file holds the torrent's bytes at the place of every piece reported
\* saved: a piece with a wrong block is never written, nor one at a wrong place.
SavedIsVerified == diskFaults = 0 => \A p \in piecesSavedToDisc : disk[p] = "Good"

\* The number main compares with piecesToDownload counts every saved piece once.
SavedCountIsExact ==
  /\ Range(piecesSavedToDiscIndices) = piecesSavedToDisc
  /\ PiecesSavedToDiscCount = Cardinality(piecesSavedToDisc)

\* The inductive invariant: the parts above need each other.
StorageInv ==
  /\ StorageTypeOK
  /\ ExclusivePiece
  /\ HeldIsInProgress
  /\ QueueIsClean
  /\ NoPieceForgotten
  /\ ClosedQueueIsEmpty
  /\ SavedIsVerified
  /\ SavedCountIsExact

\* A refill resets and requeues only pieces nobody points to: it leaves the
\* blocks a thread is filling without the lock as they are.
RefillSparesHeldPieces ==
  [][diskFaults = 0 /\ queueClosed /\ ~queueClosed' =>
       \A t \in Threads : Holds(t) =>
         LET p == pieceInProgress[t] IN
           blocks'[p] = blocks[p] /\ p \notin Range(remainPieces')]_storageVars

\* A saved piece stays saved and its place in the file is never written again.
SavedIsFinal ==
  [][\A p \in piecesSavedToDisc : p \in piecesSavedToDisc' /\ disk'[p] = disk[p]]_storageVars

\* piece_storage.h:38 "how many parts of the file were saved to disk": a piece
\* that is counted as saved is in the file, whatever the disk does.
SavedIsOnDisk == \A p \in piecesSavedToDisc : disk[p] = "Good"

\* The storage keeps the ledger's promise until a disk write fails.
Ledger == INSTANCE PieceLedger WITH
  open   <- Pieces \ (piecesInProgress \cup piecesSavedToDisc),
  claim  <- pieceInProgress,
  saved  <- piecesSavedToDisc,
  intact <- (diskFaults = 0)

LedgerSpec == Ledger!LedgerSpec
===============================================================================
