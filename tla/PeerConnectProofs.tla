-------------------------- MODULE PeerConnectProofs --------------------------
(***************************************************************************)
(* The peer threads use the storage only as its contract allows, so what   *)
(* PieceStorageProofs shows of any caller holds of them, whatever their    *)
(* peers send and whenever they are terminated.                            *)
(***************************************************************************)
EXTENDS PeerConnect, PieceStorageProofs, InductionFacts

\* A step of a thread is one step of the storage's contract, or leaves the
\* storage and the pieces alone.
LEMMA ThreadUsesContract ==
  ASSUME NEW t \in Threads, ThreadStep(t)
  PROVE  StorageStep(t) \/ UNCHANGED storageVars
<1>1. CASE RunPick(t) \/ Pick(t)
  BY <1>1 DEF RunPick, Pick, StorageStep, NoStorageStep
<1>2. CASE Attempt(t) \/ Undo(t) \/ PutBack(t) \/ HandIn(t) \/ Caught(t) \/ OnChoke(t)
  BY <1>2 DEF Attempt, Undo, PutBack, HandIn, Caught, OnChoke, StorageStep, NoStorageStep
<1>3. CASE SendRequest(t)
  BY <1>3 DEF SendRequest, StorageStep
<1>4. ASSUME NEW p \in Pieces, OnHave(t, p)
      PROVE  StorageStep(t) \/ UNCHANGED storageVars
  BY <1>4 DEF OnHave, StorageStep, NoStorageStep
<1>5. ASSUME NEW p \in Pieces, NEW i \in 0 .. NumBlocks[p] - 1, NEW data \in BlockData,
             pieceInProgress[t] = p, OnPiece(t, i, data)
      PROVE  StorageStep(t)
  BY <1>5 DEF OnPiece, StorageStep
<1>6. CASE \/ CallSocket(t) \/ Connect(t) \/ EstablishFails(t) \/ SendHandshake(t)
           \/ ReceiveHandshake(t) \/ ReceiveBitfield(t) \/ SendInterested(t)
           \/ CloseConnection(t) \/ TryAgain(t) \/ Loop(t) \/ SendFails(t)
           \/ KeepWhileChoked(t) \/ ReceiveFails(t) \/ OnUnchoke(t) \/ OnShortPiece(t)
           \/ OnIgnored(t)
  BY <1>6 DEF CallSocket, Connect, EstablishFails, SendHandshake, ReceiveHandshake,
    ReceiveBitfield, SendInterested, Returns, CloseConnection, TryAgain, Loop, SendFails,
    KeepWhileChoked, ReceiveFails, OnUnchoke, OnShortPiece, OnIgnored, NoStorageStep
<1> QED
  BY <1>1, <1>2, <1>3, <1>4, <1>5, <1>6 DEF ThreadStep, OwnStep, MessageStep

\* The calls of the main thread touch the storage only by dropping a piece.
LEMMA OwnerUsesContract ==
  ASSUME NEW t \in Threads, OwnerStep(t)
  PROVE  StorageStep(t) \/ UNCHANGED storageVars
  BY DEF OwnerStep, Start, Terminate, TerminateClose, Destroy, StorageStep, NoStorageStep

\* PeerConnect keeps the storage's contract with its callers.
THEOREM PeersKeepContract == PeerSpec => StorageSpec
<1>1. PeerInit => StorageInit
  BY DEF PeerInit
<1>2. [PeerNext]_vars => [StorageNext]_storageVars
  BY ThreadUsesContract, OwnerUsesContract DEF PeerNext, StorageNext, vars
<1> QED
  BY <1>1, <1>2, PTL DEF PeerSpec, StorageSpec

\* Whatever the peers send, no two threads work on one piece until a disk
\* write fails.
THEOREM PeersShareNoPiece == PeerSpec => []ExclusivePiece
  BY PeersKeepContract, PieceHasOneHolder, PTL

-------------------------------------------------------------------------------
(* The invariant of the threads *)

\* Where Run has reset its members and MainLoop has not begun.
SetUp == {"runPick", "connect", "handshake", "answer", "bitfield", "interested", "undo"}

\* What the thread's position says of its own members and of the piece it has,
\* disk failures or not.
Position(t) ==
  /\ At(t, "absent") => ~Holds(t)
  /\ At(t, "attempt") => peer[t].attempts < MaxAttempts
  /\ peer[t].pc \in SetUp \cup {"pick", "putBack", "send"} => ~peer[t].pendingBlock
  /\ peer[t].pc \in InMainLoop \cup {"handshake", "answer", "bitfield", "interested"} =>
       ~peer[t].failed
  /\ peer[t].inCall => peer[t].pc \in {"connect"} \cup Sending \cup Receiving
  /\ At(t, "send") => Holds(t) /\ (peer[t].inCall => ~peer[t].choked)
  /\ At(t, "send") \/ At(t, "receive") \/ (At(t, "loop") /\ peer[t].pendingBlock) =>
       (Holds(t) => Available(t))

\* As long as no write fails, a thread that tries again has given back its
\* piece and closed its socket.
Clean(t) ==
  /\ At(t, "attempt") => ~Holds(t)
  /\ peer[t].pc \in {"attempt", "runPick", "connect"} => ~peer[t].sockOpen
  /\ peer[t].pc \in {"close", "again"} /\ peer[t].failed => ~Holds(t)
  /\ At(t, "again") /\ peer[t].failed => ~peer[t].sockOpen

\* As long as no write fails, pending means that a block is.
Waits(t) ==
  peer[t].pendingBlock =>
    /\ Holds(t)
    /\ \E i \in DOMAIN blocks[pieceInProgress[t]] :
         blocks[pieceInProgress[t]][i] = "Pending"
    /\ ~peer[t].choked

\* Every piece that the bitfield has is one the peer announced.
BitfieldIsAnnounced ==
  \A t \in Threads, p \in Pieces :
    IsPieceAvailable(peer[t].bitfield, p) => p \in peer[t].announced

\* Inductive, given StorageInv.
PeerInv ==
  /\ peer \in [Threads -> PeerType]
  /\ \A t \in Threads : Position(t)
  /\ diskFaults = 0 => \A t \in Threads : Clean(t) /\ Waits(t)

-------------------------------------------------------------------------------
(* Facts about bitfields and about the storage's operations *)

\* A piece has a bit of its own, counted from the highest bit of its byte.
LEMMA BitFacts ==
  ASSUME NEW p \in Pieces
  PROVE  /\ ByteOf(p) \in Nat \ {0}
         /\ BitOf(p) \in 0 .. PiecesPerByte - 1
         /\ ByteOf(p) * PiecesPerByte - 1 - BitOf(p) = p
<1>1. p \in Nat
  BY StorageAssumption DEF Pieces
<1>2. p = PiecesPerByte * (p \div PiecesPerByte) + (p % PiecesPerByte)
  BY <1>1, PeerAssumption
<1>3. p % PiecesPerByte \in 0 .. PiecesPerByte - 1 /\ p \div PiecesPerByte \in Nat
  BY <1>1, PeerAssumption
<1>4. (p \div PiecesPerByte + 1) * PiecesPerByte - 1
        - (PiecesPerByte - 1 - (p % PiecesPerByte)) = p
  BY <1>1, PeerAssumption
<1> QED
  BY <1>1, <1>3, <1>4, PeerAssumption DEF ByteOf, BitOf

LEMMA BitfieldFacts ==
  /\ NoBitfield \in Bitfields
  /\ \A bf \in Bitfields, p \in Pieces : SetPieceAvailability(bf, p) \in Bitfields
  /\ \A sent \in SentBitfields : Announcement(sent.size, sent.have) \in Bitfields
<1>1. NoBitfield \in Bitfields
  BY DEF NoBitfield, Bitfields
<1>2. ASSUME NEW bf \in Bitfields, NEW p \in Pieces
      PROVE  SetPieceAvailability(bf, p) \in Bitfields
  BY <1>2, BitFacts DEF SetPieceAvailability, Bitfields
<1>3. ASSUME NEW sent \in SentBitfields
      PROVE  Announcement(sent.size, sent.have) \in Bitfields
  BY <1>3, PeerAssumption DEF Announcement, Bitfields
<1> QED
  BY <1>1, <1>2, <1>3

\* A bit set for one piece makes no other piece available.
LEMMA OnlyThatPiece ==
  ASSUME NEW bf \in Bitfields, NEW p \in Pieces, NEW q \in Pieces,
         IsPieceAvailable(SetPieceAvailability(bf, p), q)
  PROVE  IsPieceAvailable(bf, q) \/ q = p
<1>1. CASE ByteOf(p) \notin DOMAIN bf
  BY <1>1 DEF SetPieceAvailability
<1>2. CASE ByteOf(p) \in DOMAIN bf
  <2> DEFINE new == SetPieceAvailability(bf, p)
  <2>1. /\ new = [bf EXCEPT ![ByteOf(p)] = bf[ByteOf(p)] \cup {BitOf(p)}]
        /\ DOMAIN new = DOMAIN bf
        /\ bf # NoBitfield /\ new # NoBitfield
    BY <1>2 DEF SetPieceAvailability, NoBitfield, Bitfields
  <2>2. ByteOf(q) \in DOMAIN bf /\ BitOf(q) \in new[ByteOf(q)]
    BY <2>1 DEF IsPieceAvailable
  <2>3. CASE ByteOf(q) # ByteOf(p)
    BY <2>1, <2>2, <2>3 DEF IsPieceAvailable
  <2>4. CASE ByteOf(q) = ByteOf(p) /\ BitOf(q) # BitOf(p)
    BY <1>2, <2>1, <2>2, <2>4 DEF IsPieceAvailable
  <2>5. CASE ByteOf(q) = ByteOf(p) /\ BitOf(q) = BitOf(p)
    BY <2>5, BitFacts
  <2> QED
    BY <2>3, <2>4, <2>5
<1> QED
  BY <1>1, <1>2

\* The client reads from a peer's bytes the pieces the peer put into them; a
\* piece behind the last byte is not available.
LEMMA AnnouncementIsRead ==
  ASSUME NEW size \in Nat \ {0}, NEW have \in SUBSET Pieces, NEW q \in Pieces,
         IsPieceAvailable(Announcement(size, have), q)
  PROVE  q \in have
<1>1. DOMAIN Announcement(size, have) = 1 .. size
  BY DEF Announcement
<1>2. Announcement(size, have) # NoBitfield
  BY <1>1 DEF NoBitfield
<1>3. ByteOf(q) \in 1 .. size /\ BitOf(q) \in Announcement(size, have)[ByteOf(q)]
  BY <1>1, <1>2 DEF IsPieceAvailable
<1>4. ByteOf(q) * PiecesPerByte - 1 - BitOf(q) \in have
  BY <1>3 DEF Announcement
<1> QED
  BY <1>4, BitFacts

\* The block RequestPiece asks for is one of the piece.
LEMMA FirstMissingIsMissing ==
  ASSUME NEW p \in Pieces, NEW piece \in PieceType(p), MissingBlocks(piece) # {}
  PROVE  FirstMissingBlock(piece) \in MissingBlocks(piece)
<1>1. MissingBlocks(piece) \subseteq Nat
  BY StorageAssumption DEF MissingBlocks, PieceType
<1>2. \E i \in MissingBlocks(piece) : \A j \in MissingBlocks(piece) : i <= j
  <2> HIDE DEF MissingBlocks
  <2> QED
    BY <1>1, LeastNatural
<1> QED
  BY <1>2 DEF FirstMissingBlock

\* A new or a reset connection.
LEMMA FreshPeerFacts ==
  ASSUME NEW label \in {"absent", "attempt"}
  PROVE  FreshPeer(label) \in PeerType
BY BitfieldFacts, PeerAssumption, StorageAssumption DEF FreshPeer, PeerType, Labels

\* What each operation leaves in the caller's hand.
LEMMA HandFacts ==
  ASSUME StorageTypeOK, NEW t \in Threads
  PROVE  /\ \A piece : Take(t, piece) => ~Holds(t) /\ pieceInProgress'[t] = piece
         /\ Return(t) \/ Drop(t) => Holds(t) /\ pieceInProgress'[t] = NoPiece
         /\ ReturnThrows(t) => Holds(t) /\ pieceInProgress' = pieceInProgress /\ diskFaults' # 0
BY DEF StorageTypeOK, Take, Return, Drop, ReturnThrows, PieceProcessedThrows, WriteFails

LEMMA FaultsOnlyGrow ==
  ASSUME StorageTypeOK, NEW t \in Threads, StorageStep(t), diskFaults' = 0
  PROVE  diskFaults = 0
BY DEF StorageTypeOK, StorageStep, Take, GetNextPieceToDownload, MarkPending, StoreBlock, Return,
   PieceProcessed, RejectPiece, AcceptPiece, SavePieceToDisk, WriteSucceeds, WriteFails,
   ReturnThrows, PieceProcessedThrows, Drop, StorageUnchanged

\* Until a disk write fails, what a thread does with the storage changes
\* neither another thread's piece nor the blocks of that piece.
LEMMA OthersKeepTheirPiece ==
  ASSUME StorageInv, NEW t \in Threads, NEW u \in Threads, u # t, StorageStep(t)
  PROVE  /\ pieceInProgress'[u] = pieceInProgress[u]
         /\ diskFaults = 0 /\ Holds(u) =>
              blocks'[pieceInProgress[u]] = blocks[pieceInProgress[u]]
<1> DEFINE p == pieceInProgress[u]
<1>1. StorageTypeOK
  BY DEF StorageInv
<1>2. pieceInProgress'[u] = pieceInProgress[u]
  BY <1>1 DEF StorageTypeOK, StorageStep, Take, MarkPending, StoreBlock, Return, ReturnThrows, Drop
<1>3. ASSUME diskFaults = 0, Holds(u)
      PROVE  blocks'[p] = blocks[p]
  <2>1. /\ p \in piecesInProgress /\ p \in Pieces
        /\ pieceInProgress[t] # p
    BY <1>1, <1>3 DEF StorageInv, ExclusivePiece, NoSharedPiece, HeldIsInProgress, Holds,
      StorageTypeOK
  <2>2. ASSUME NEW result, Take(t, result) PROVE blocks'[p] = blocks[p]
    BY <2>1, <2>2 DEF Take, GetNextPieceToDownload, RefillQueue, Refillable
  <2>3. CASE MarkPending(t)
    BY <2>1, <2>3 DEF MarkPending
  <2>4. ASSUME NEW i, NEW data, StoreBlock(t, i, data) PROVE blocks'[p] = blocks[p]
    BY <2>1, <2>4 DEF StoreBlock
  <2>5. CASE Return(t)
    <3>1. \/ blocks' = [blocks EXCEPT ![pieceInProgress[t]] = ResetPiece(@)]
          \/ blocks' = blocks
      BY <2>5 DEF Return, PieceProcessed, RejectPiece, AcceptPiece
    <3> QED
      BY <1>1, <2>1, <3>1 DEF StorageTypeOK
  <2>6. CASE ReturnThrows(t) \/ Drop(t)
    BY <2>6 DEF ReturnThrows, PieceProcessedThrows, Drop
  <2> QED
    BY <2>2, <2>3, <2>4, <2>5, <2>6 DEF StorageStep
<1> QED
  BY <1>2, <1>3

\* So a step keeps the invariant when it keeps the part of its own thread.
LEMMA OwnPartSuffices ==
  ASSUME StorageInv, PeerInv, NEW t \in Threads,
         StorageStep(t) \/ UNCHANGED storageVars,
         peer' \in [Threads -> PeerType],
         \A u \in Threads \ {t} : peer'[u] = peer[u],
         Position(t)',
         diskFaults' = 0 => Clean(t)' /\ Waits(t)'
  PROVE  PeerInv'
<1>1. StorageTypeOK
  BY DEF StorageInv
<1>2. diskFaults' = 0 => diskFaults = 0
  BY <1>1, FaultsOnlyGrow DEF storageVars
<1>3. ASSUME NEW u \in Threads, u # t
      PROVE  /\ peer'[u] = peer[u]
             /\ pieceInProgress'[u] = pieceInProgress[u]
             /\ diskFaults = 0 /\ Holds(u) =>
                  blocks'[pieceInProgress[u]] = blocks[pieceInProgress[u]]
  BY <1>3, OthersKeepTheirPiece DEF storageVars
<1>4. ASSUME NEW u \in Threads, u # t
      PROVE  Position(u)'
  <2>1. Position(u)
    BY DEF PeerInv
  <2> QED
    BY <1>3, <1>4, <2>1 DEF Position, At, Holds, Available
<1>5. ASSUME NEW u \in Threads, u # t, diskFaults' = 0
      PROVE  Clean(u)' /\ Waits(u)'
  <2>1. Clean(u) /\ Waits(u)
    BY <1>2, <1>5 DEF PeerInv
  <2>2. Clean(u)'
    BY <1>3, <1>5, <2>1 DEF Clean, At, Holds
  <2>3. Waits(u)'
    BY <1>2, <1>3, <1>5, <2>1 DEF Waits, Holds
  <2> QED
    BY <2>2, <2>3
<1> QED
  BY <1>4, <1>5 DEF PeerInv

-------------------------------------------------------------------------------
(* Every action keeps it *)

LEMMA PeerInvInit == PeerInit => PeerInv
BY FreshPeerFacts DEF PeerInit, PeerInv, StorageInit, Holds, FreshPeer, Position, Clean, Waits, At, SetUp, InMainLoop

\* The calls of the main thread.
LEMMA OwnerKeepsInv ==
  ASSUME StorageInv, PeerInv, NEW t \in Threads, OwnerStep(t)
  PROVE  PeerInv'
<1>1. /\ StorageTypeOK /\ peer \in [Threads -> PeerType]
      /\ Position(t)
      /\ diskFaults = 0 => Clean(t) /\ Waits(t)
  BY DEF StorageInv, PeerInv
<1>2. StorageStep(t) \/ UNCHANGED storageVars
  BY OwnerUsesContract
<1>3. CASE Start(t) \/ Destroy(t)
  <2>1. PICK label \in {"absent", "attempt"} : peer' = [peer EXCEPT ![t] = FreshPeer(label)]
    BY <1>3 DEF Start, Destroy
  <2>2. /\ peer' \in [Threads -> PeerType] /\ peer'[t] = FreshPeer(label)
        /\ \A u \in Threads \ {t} : peer'[u] = peer[u]
    BY <1>1, <2>1, FreshPeerFacts
  <2>3. ~Holds(t)'
    BY <1>1, <1>3, HandFacts DEF Start, Destroy, NoStorageStep, storageVars, Position, Holds
  <2>4. Position(t)'
    BY <2>2, <2>3, PeerAssumption DEF Position, At, FreshPeer, SetUp, InMainLoop
  <2>5. Clean(t)' /\ Waits(t)'
    BY <2>2, <2>3 DEF Clean, Waits, At, FreshPeer
  <2> QED
    BY <1>2, <2>2, <2>4, <2>5, OwnPartSuffices
<1>4. CASE Terminate(t) \/ TerminateClose(t)
  <2>1. UNCHANGED storageVars
    BY <1>4 DEF Terminate, TerminateClose, NoStorageStep
  <2>2. /\ peer' \in [Threads -> PeerType]
        /\ \A u \in Threads \ {t} : peer'[u] = peer[u]
        /\ peer'[t].pc = peer[t].pc /\ peer'[t].attempts = peer[t].attempts
        /\ peer'[t].failed = peer[t].failed /\ peer'[t].choked = peer[t].choked
        /\ peer'[t].pendingBlock = peer[t].pendingBlock
        /\ peer'[t].bitfield = peer[t].bitfield
        /\ peer'[t].inCall = peer[t].inCall
        /\ peer'[t].sockOpen => peer[t].sockOpen
    <3>1. CASE Terminate(t)
      <4>1. [peer[t] EXCEPT !.terminated = TRUE, !.closing = TRUE] \in PeerType
        BY <1>1 DEF PeerType
      <4> QED
        BY <1>1, <3>1, <4>1 DEF Terminate
    <3>2. CASE TerminateClose(t)
      <4>1. [peer[t] EXCEPT !.closing = FALSE, !.sockOpen = FALSE] \in PeerType
        BY <1>1 DEF PeerType
      <4> QED
        BY <1>1, <3>2, <4>1 DEF TerminateClose
    <3> QED
      BY <1>4, <3>1, <3>2
  <2> QED
    BY <1>1, <1>2, <2>1, <2>2, OwnPartSuffices
      DEF Position, Clean, Waits, At, Holds, Available, storageVars
<1> QED
  BY <1>3, <1>4 DEF OwnerStep

\* The thread's loop around Run, and Run up to MainLoop and after it.
LEMMA RunKeepsInv ==
  ASSUME StorageInv, PeerInv, NEW t \in Threads, ThreadStep(t),
         \/ Attempt(t) \/ RunPick(t) \/ CallSocket(t) \/ Connect(t) \/ EstablishFails(t)
         \/ SendHandshake(t) \/ ReceiveHandshake(t) \/ ReceiveBitfield(t) \/ SendInterested(t)
         \/ Undo(t) \/ CloseConnection(t) \/ TryAgain(t)
  PROVE  PeerInv'
<1>1. /\ StorageTypeOK /\ peer \in [Threads -> PeerType]
      /\ Position(t)
      /\ diskFaults = 0 => Clean(t) /\ Waits(t)
  BY DEF StorageInv, PeerInv
<1>2. StorageStep(t) \/ UNCHANGED storageVars
  BY ThreadUsesContract
<1>3. diskFaults' = 0 => diskFaults = 0 /\ Clean(t) /\ Waits(t)
  BY <1>1, <1>2, FaultsOnlyGrow DEF storageVars
<1> SUFFICES /\ peer' \in [Threads -> PeerType]
             /\ \A u \in Threads \ {t} : peer'[u] = peer[u]
             /\ Position(t)'
             /\ diskFaults' = 0 => Clean(t)' /\ Waits(t)'
  BY <1>2, OwnPartSuffices
<1> USE <1>1 DEF PeerType, InCall, Sending, Receiving
<1>4. CASE Attempt(t)
  <2>1. /\ peer' \in [Threads -> PeerType]
        /\ \A u \in Threads \ {t} : peer'[u] = peer[u]
    BY <1>4, BitfieldFacts DEF Attempt, Position, At, Labels
  <2>2. CASE peer[t].terminated
    BY <1>3, <1>4, <2>1, <2>2 DEF Attempt, NoStorageStep, storageVars, Position, Clean, Waits, At,
      Holds, SetUp, InMainLoop
  <2>3. CASE ~peer[t].terminated
    <3>1. pieceInProgress'[t] = NoPiece
      BY <1>4, <2>3, HandFacts DEF Attempt, NoStorageStep, storageVars, Holds
    <3> QED
      BY <1>3, <1>4, <2>1, <2>3, <3>1 DEF Attempt, Position, Clean, Waits, At, Holds, SetUp,
        InMainLoop
  <2> QED
    BY <2>1, <2>2, <2>3
<1>5. CASE RunPick(t)
  <2>1. PICK piece \in Pieces \cup {NoPiece} :
          /\ Take(t, piece)
          /\ Goto(t, IF piece = NoPiece THEN "again" ELSE "connect")
    BY <1>5 DEF RunPick
  <2>2. /\ peer' \in [Threads -> PeerType]
        /\ \A u \in Threads \ {t} : peer'[u] = peer[u]
    BY <2>1 DEF Goto, Labels
  <2> QED
    BY <1>3, <1>5, <2>1, <2>2, HandFacts DEF RunPick, Goto, Position, Clean, Waits, At, Holds,
      SetUp, InMainLoop
<1>6. CASE Connect(t) \/ EstablishFails(t)
  <2>1. /\ peer' \in [Threads -> PeerType]
        /\ \A u \in Threads \ {t} : peer'[u] = peer[u]
    BY <1>6 DEF Connect, EstablishFails, Stage, Labels
  <2> QED
    BY <1>3, <1>6, <2>1 DEF Connect, EstablishFails, Stage, InCall, NoStorageStep, storageVars, Position, Clean,
      Waits, At, Holds, SetUp, InMainLoop
<1>7. CASE SendHandshake(t) \/ ReceiveHandshake(t) \/ SendInterested(t) \/ CallSocket(t)
  <2>1. /\ peer' \in [Threads -> PeerType]
        /\ \A u \in Threads \ {t} : peer'[u] = peer[u]
    <3>1. CASE CallSocket(t)
      <4>1. [peer[t] EXCEPT !.inCall = TRUE] \in PeerType
        OBVIOUS
      <4> QED
        BY <3>1, <4>1 DEF CallSocket
    <3>2. CASE SendHandshake(t) \/ ReceiveHandshake(t) \/ SendInterested(t)
      <4>1. \A label \in {"answer", "bitfield", "loop"} :
              [peer[t] EXCEPT !.pc = label, !.inCall = FALSE] \in PeerType
        <5>1. {"answer", "bitfield", "loop"} \subseteq Labels
          BY DEF Labels
        <5> QED
          BY <5>1
      <4> QED
        BY <3>2, <4>1 DEF SendHandshake, ReceiveHandshake, SendInterested, Returns, Stage
    <3> QED
      BY <1>7, <3>1, <3>2
  <2>2. CASE CallSocket(t)
    BY <1>3, <2>1, <2>2 DEF CallSocket, NoStorageStep, storageVars, Position, Clean, Waits, At,
      Holds, Available, SetUp, InMainLoop
  <2>3. CASE SendHandshake(t) \/ ReceiveHandshake(t) \/ SendInterested(t)
    BY <1>3, <2>1, <2>3 DEF SendHandshake, ReceiveHandshake, SendInterested, Returns, Stage,
      InCall, NoStorageStep, storageVars, Position, Clean, Waits, At, Holds, SetUp, InMainLoop
  <2> QED
    BY <1>7, <2>2, <2>3
<1>8. CASE ReceiveBitfield(t)
  <2>1. PICK own \in PeerType :
          /\ peer' = [peer EXCEPT ![t] = own]
          /\ own.pc \in {"bitfield", "interested", "loop"}
          /\ own.failed = peer[t].failed /\ own.pendingBlock = peer[t].pendingBlock
          /\ ~own.inCall
    <3>1. {"bitfield", "interested", "loop"} \subseteq Labels
      BY DEF Labels
    <3>2. CASE Returns(t, "bitfield", Stage(t, "bitfield"))
      <4> DEFINE own == [peer[t] EXCEPT !.pc = Stage(t, "bitfield"), !.inCall = FALSE]
      <4>1. own \in PeerType
        BY <3>1 DEF Stage
      <4> QED
        BY <3>2, <4>1 DEF Returns, Stage
    <3>3. CASE peer' = [peer EXCEPT ![t].pc = Stage(t, "interested"), ![t].inCall = FALSE,
                                    ![t].choked = FALSE]
      <4> DEFINE own == [peer[t] EXCEPT !.pc = Stage(t, "interested"), !.inCall = FALSE,
                                        !.choked = FALSE]
      <4>1. own \in PeerType
        BY <3>1 DEF Stage
      <4> QED
        BY <3>3, <4>1 DEF Stage
    <3>4. ASSUME NEW sent \in SentBitfields,
                 peer' = [peer EXCEPT ![t].pc = Stage(t, "interested"), ![t].inCall = FALSE,
                            ![t].bitfield = Announcement(sent.size, sent.have),
                            ![t].announced = IF sent.size = 0 THEN Pieces ELSE sent.have]
          PROVE  \E own \in PeerType :
                   /\ peer' = [peer EXCEPT ![t] = own]
                   /\ own.pc \in {"bitfield", "interested", "loop"}
                   /\ own.failed = peer[t].failed /\ own.pendingBlock = peer[t].pendingBlock
                   /\ ~own.inCall
      <4> DEFINE bf == Announcement(sent.size, sent.have)
                 listed == IF sent.size = 0 THEN Pieces ELSE sent.have
                 own == [peer[t] EXCEPT !.pc = Stage(t, "interested"), !.inCall = FALSE,
                                        !.bitfield = bf, !.announced = listed]
      <4>1. bf \in Bitfields /\ listed \in SUBSET Pieces
        BY BitfieldFacts, PeerAssumption
      <4>2. peer' = [peer EXCEPT ![t] = own]
        BY <3>4
      <4> HIDE DEF bf, listed
      <4>3. own \in PeerType
        BY <3>1, <4>1 DEF Stage
      <4> QED
        BY <4>2, <4>3 DEF Stage
    <3> QED
      BY <1>8, <3>2, <3>3, <3>4 DEF ReceiveBitfield
  <2>2. /\ peer' \in [Threads -> PeerType]
        /\ \A u \in Threads \ {t} : peer'[u] = peer[u]
        /\ peer'[t] = own
    BY <2>1
  <2>3. At(t, "bitfield") /\ UNCHANGED storageVars
    BY <1>8 DEF ReceiveBitfield, Returns, InCall, NoStorageStep
  <2> QED
    BY <1>3, <2>1, <2>2, <2>3 DEF storageVars, Position, Clean, Waits, At, Holds, SetUp,
      InMainLoop
<1>9. CASE Undo(t)
  <2>1. /\ peer' \in [Threads -> PeerType]
        /\ \A u \in Threads \ {t} : peer'[u] = peer[u]
    BY <1>9 DEF Undo, Goto, Labels
  <2>2. \/ pieceInProgress'[t] = NoPiece /\ Goto(t, "close")
        \/ diskFaults' # 0 /\ Goto(t, "again")
    BY <1>9, HandFacts DEF Undo
  <2> QED
    BY <1>3, <1>9, <2>1, <2>2 DEF Undo, Goto, Position, Clean, Waits, At, Holds, SetUp, InMainLoop
<1>10. CASE CloseConnection(t) \/ TryAgain(t)
  <2>1. /\ peer' \in [Threads -> PeerType]
        /\ \A u \in Threads \ {t} : peer'[u] = peer[u]
    BY <1>10 DEF CloseConnection, TryAgain, Goto, Labels
  <2> QED
    BY <1>3, <1>10, <2>1 DEF CloseConnection, TryAgain, Goto, NoStorageStep, storageVars,
      Position, Clean, Waits, At, Holds, SetUp, InMainLoop
<1> QED
  BY <1>4, <1>5, <1>6, <1>7, <1>8, <1>9, <1>10

\* RequestPiece, and MainLoop outside its message handlers.
LEMMA RequestKeepsInv ==
  ASSUME StorageInv, PeerInv, NEW t \in Threads, ThreadStep(t),
         \/ Loop(t) \/ Pick(t) \/ PutBack(t) \/ SendRequest(t) \/ SendFails(t) \/ HandIn(t)
         \/ KeepWhileChoked(t) \/ ReceiveFails(t) \/ Caught(t)
  PROVE  PeerInv'
<1>1. /\ StorageTypeOK /\ peer \in [Threads -> PeerType]
      /\ Position(t)
      /\ diskFaults = 0 => Clean(t) /\ Waits(t)
  BY DEF StorageInv, PeerInv
<1>2. StorageStep(t) \/ UNCHANGED storageVars
  BY ThreadUsesContract
<1>3. diskFaults' = 0 => diskFaults = 0 /\ Clean(t) /\ Waits(t)
  BY <1>1, <1>2, FaultsOnlyGrow DEF storageVars
<1> SUFFICES /\ peer' \in [Threads -> PeerType]
             /\ \A u \in Threads \ {t} : peer'[u] = peer[u]
             /\ Position(t)'
             /\ diskFaults' = 0 => Clean(t)' /\ Waits(t)'
  BY <1>2, OwnPartSuffices
<1> USE <1>1 DEF PeerType, InCall, Sending, Receiving
<1>4. CASE Loop(t) \/ SendFails(t) \/ KeepWhileChoked(t) \/ ReceiveFails(t)
  <2>1. /\ peer' \in [Threads -> PeerType]
        /\ \A u \in Threads \ {t} : peer'[u] = peer[u]
    BY <1>4 DEF Loop, LoopBody, SendFails, KeepWhileChoked, ReceiveFails, Goto, Labels
  <2>2. UNCHANGED storageVars
    BY <1>4 DEF Loop, SendFails, KeepWhileChoked, ReceiveFails, NoStorageStep
  <2>3. CASE Loop(t)
    BY <1>3, <2>1, <2>2, <2>3 DEF Loop, LoopBody, Goto, storageVars, Position, Clean, Waits, At,
      Holds, Available, SetUp, InMainLoop
  <2>4. CASE SendFails(t) \/ KeepWhileChoked(t) \/ ReceiveFails(t)
    BY <1>3, <2>1, <2>2, <2>4 DEF SendFails, KeepWhileChoked, ReceiveFails, Goto, storageVars,
      Position, Clean, Waits, At, Holds, Available, SetUp, InMainLoop
  <2> QED
    BY <1>4, <2>3, <2>4
<1>5. CASE Pick(t)
  <2>1. CASE peer[t].piecesChecked = NumPieces
    <3>1. /\ peer' = [peer EXCEPT ![t].piecesChecked = 0, ![t].pc = "receive"]
          /\ UNCHANGED storageVars
          /\ At(t, "pick")
      BY <1>5, <2>1, StorageAssumption DEF Pick, NoStorageStep
    <3>2. /\ peer' \in [Threads -> PeerType]
          /\ \A u \in Threads \ {t} : peer'[u] = peer[u]
      <4>1. 0 \in 0 .. NumPieces
        BY StorageAssumption
      <4>2. [peer[t] EXCEPT !.piecesChecked = 0, !.pc = "receive"] \in PeerType
        BY <4>1 DEF Labels
      <4> QED
        BY <3>1, <4>2
    <3> QED
      BY <1>3, <3>1, <3>2 DEF storageVars, Position, Clean, Waits, At, Holds, Available, SetUp,
        InMainLoop
  <2>2. ASSUME peer[t].piecesChecked < NumPieces, NEW piece \in Pieces \cup {NoPiece},
               Take(t, piece),
               peer' = [peer EXCEPT
                 ![t].piecesChecked = IF Skips(t, piece) THEN @ + 1 ELSE 0,
                 ![t].pc = IF piece = NoPiece THEN "receive"
                           ELSE IF Skips(t, piece) THEN "putBack" ELSE "send"]
        PROVE  /\ peer' \in [Threads -> PeerType]
               /\ \A u \in Threads \ {t} : peer'[u] = peer[u]
               /\ Position(t)'
               /\ diskFaults' = 0 => Clean(t)' /\ Waits(t)'
    <3>1. /\ peer' \in [Threads -> PeerType]
          /\ \A u \in Threads \ {t} : peer'[u] = peer[u]
      <4> DEFINE checked == IF Skips(t, piece) THEN peer[t].piecesChecked + 1 ELSE 0
                 label == IF piece = NoPiece THEN "receive"
                          ELSE IF Skips(t, piece) THEN "putBack" ELSE "send"
      <4>1. checked \in 0 .. NumPieces /\ label \in Labels
        BY <2>2, StorageAssumption DEF Labels
      <4>2. peer' = [peer EXCEPT ![t] = [peer[t] EXCEPT !.piecesChecked = checked, !.pc = label]]
        BY <2>2
      <4> HIDE DEF checked, label
      <4>3. [peer[t] EXCEPT !.piecesChecked = checked, !.pc = label] \in PeerType
        BY <4>1
      <4> QED
        BY <4>2, <4>3
    <3>2. /\ At(t, "pick")
          /\ pieceInProgress'[t] = piece
      BY <1>5, <2>2, HandFacts DEF Pick
    <3>3. /\ peer'[t].pc = IF piece = NoPiece THEN "receive"
                           ELSE IF Skips(t, piece) THEN "putBack" ELSE "send"
          /\ peer'[t].attempts = peer[t].attempts /\ peer'[t].failed = peer[t].failed
          /\ peer'[t].pendingBlock = peer[t].pendingBlock
          /\ peer'[t].bitfield = peer[t].bitfield /\ peer'[t].inCall = peer[t].inCall
      BY <2>2
    <3> QED
      BY <1>3, <3>1, <3>2, <3>3 DEF Skips, Position, Clean, Waits, At, Holds, Available, SetUp,
        InMainLoop
  <2> QED
    BY <1>5, <2>1, <2>2 DEF Pick
<1>6. CASE PutBack(t)
  <2>1. /\ peer' \in [Threads -> PeerType]
        /\ \A u \in Threads \ {t} : peer'[u] = peer[u]
    BY <1>6, StorageAssumption DEF PutBack, Labels
  <2>2. /\ peer'[t].pc \in {"pick", "caught"} /\ At(t, "putBack")
        /\ peer'[t].failed = peer[t].failed /\ peer'[t].inCall = peer[t].inCall
        /\ peer'[t].pendingBlock => peer[t].pendingBlock
    BY <1>6 DEF PutBack, At
  <2> QED
    BY <1>3, <2>1, <2>2 DEF Position, Clean, Waits, At, SetUp, InMainLoop
<1>7. CASE SendRequest(t)
  <2>1. /\ peer' \in [Threads -> PeerType]
        /\ \A u \in Threads \ {t} : peer'[u] = peer[u]
    <3>1. [peer[t] EXCEPT !.pc = "receive", !.inCall = FALSE, !.pendingBlock = TRUE] \in PeerType
      <4>1. "receive" \in Labels
        BY DEF Labels
      <4> QED
        BY <4>1
    <3> QED
      BY <1>7, <3>1 DEF SendRequest
  <2>2. /\ pieceInProgress' = pieceInProgress
        /\ Holds(t)
        /\ \E i \in DOMAIN blocks'[pieceInProgress[t]] :
             blocks'[pieceInProgress[t]][i] = "Pending"
    <3> DEFINE p == pieceInProgress[t]
               first == FirstMissingBlock(blocks[p])
    <3>1. /\ Holds(t) /\ MissingBlocks(blocks[p]) # {}
          /\ blocks' = [blocks EXCEPT ![p][first] = "Pending"]
          /\ UNCHANGED pieceInProgress
      BY <1>7 DEF SendRequest, MarkPending
    <3>2. p \in Pieces
      BY <3>1 DEF StorageTypeOK, Holds
    <3>3. first \in DOMAIN blocks[p]
      BY <3>1, <3>2, FirstMissingIsMissing DEF StorageTypeOK, MissingBlocks
    <3> HIDE DEF first
    <3>4. /\ DOMAIN blocks'[p] = DOMAIN blocks[p]
          /\ blocks'[p][first] = "Pending"
      BY <3>1, <3>2, <3>3 DEF StorageTypeOK, PieceType
    <3> QED
      BY <3>1, <3>3, <3>4
  <2>3. /\ peer'[t].pc = "receive" /\ At(t, "send") /\ ~peer'[t].choked
        /\ peer'[t].failed = peer[t].failed /\ ~peer'[t].inCall
        /\ peer'[t].bitfield = peer[t].bitfield
    BY <1>7 DEF SendRequest, At, Position
  <2> QED
    BY <1>3, <2>1, <2>2, <2>3 DEF Position, Clean, Waits, At, Holds, Available, SetUp, InMainLoop
<1>8. CASE HandIn(t)
  <2>1. /\ peer' \in [Threads -> PeerType]
        /\ \A u \in Threads \ {t} : peer'[u] = peer[u]
    BY <1>8 DEF HandIn, Goto, Labels
  <2>2. \/ /\ pieceInProgress'[t] = NoPiece
           /\ peer' = [peer EXCEPT ![t].pc = "receive", ![t].pendingBlock = FALSE]
        \/ diskFaults' # 0 /\ Goto(t, "caught")
    BY <1>8, HandFacts DEF HandIn
  <2> QED
    BY <1>3, <1>8, <2>1, <2>2 DEF HandIn, Goto, Position, Clean, Waits, At, Holds, SetUp,
      InMainLoop
<1>9. CASE Caught(t)
  <2>1. /\ peer' \in [Threads -> PeerType]
        /\ \A u \in Threads \ {t} : peer'[u] = peer[u]
    <3> DEFINE own(label) == [peer[t] EXCEPT !.pc = label, !.failed = ~peer[t].terminated]
    <3>1. "close" \in Labels /\ "again" \in Labels
      BY DEF Labels
    <3>2. own("close") \in PeerType /\ own("again") \in PeerType
      BY <3>1
    <3>3. [own("close") EXCEPT !.pendingBlock = FALSE] \in PeerType
      BY <3>1
    <3>4. \/ peer' = [peer EXCEPT ![t] = [own("close") EXCEPT !.pendingBlock = FALSE]]
          \/ peer' = [peer EXCEPT ![t] = own("close")]
          \/ peer' = [peer EXCEPT ![t] = own("again")]
      BY <1>9 DEF Caught
    <3>5. ASSUME NEW r \in PeerType, peer' = [peer EXCEPT ![t] = r]
          PROVE  /\ peer' \in [Threads -> PeerType]
                 /\ \A u \in Threads \ {t} : peer'[u] = peer[u]
      BY <3>5
    <3> HIDE DEF own
    <3> QED
      BY <3>2, <3>3, <3>4, <3>5
  <2>2. /\ peer'[t].pc \in {"close", "again"} /\ peer'[t].inCall = peer[t].inCall
        /\ At(t, "caught")
        /\ peer'[t].pc = "again" => diskFaults' # 0
        /\ diskFaults' = 0 => pieceInProgress'[t] = NoPiece
        /\ diskFaults' = 0 => ~peer'[t].pendingBlock
    <3>1. CASE Holds(t) /\ Return(t)
      BY <1>9, <3>1, HandFacts DEF Caught, Holds
    <3>2. CASE ReturnThrows(t)
      BY <1>9, <3>2, HandFacts DEF Caught
    <3>3. CASE ~Holds(t) /\ NoStorageStep
      BY <1>3, <1>9, <3>3, HandFacts DEF Caught, Holds, NoStorageStep, storageVars, Waits
    <3> QED
      BY <1>9, <3>1, <3>2, <3>3 DEF Caught
  <2> QED
    BY <1>3, <2>1, <2>2 DEF Position, Clean, Waits, At, Holds, SetUp, InMainLoop
<1> QED
  BY <1>4, <1>5, <1>6, <1>7, <1>8, <1>9

\* The message handlers of MainLoop.
LEMMA HandlersKeepInv ==
  ASSUME StorageInv, PeerInv, NEW t \in Threads, ThreadStep(t),
         \/ OnChoke(t) \/ OnUnchoke(t) \/ OnShortPiece(t) \/ OnIgnored(t)
         \/ \E p \in Pieces : OnHave(t, p)
         \/ \E p \in Pieces : \E i \in 0 .. NumBlocks[p] - 1, data \in BlockData :
              pieceInProgress[t] = p /\ OnPiece(t, i, data)
  PROVE  PeerInv'
<1>1. /\ StorageTypeOK /\ peer \in [Threads -> PeerType]
      /\ Position(t)
      /\ diskFaults = 0 => Clean(t) /\ Waits(t)
  BY DEF StorageInv, PeerInv
<1>2. StorageStep(t) \/ UNCHANGED storageVars
  BY ThreadUsesContract
<1>3. diskFaults' = 0 => diskFaults = 0 /\ Clean(t) /\ Waits(t)
  BY <1>1, <1>2, FaultsOnlyGrow DEF storageVars
<1> SUFFICES /\ peer' \in [Threads -> PeerType]
             /\ \A u \in Threads \ {t} : peer'[u] = peer[u]
             /\ Position(t)'
             /\ diskFaults' = 0 => Clean(t)' /\ Waits(t)'
  BY <1>2, OwnPartSuffices
<1> USE <1>1 DEF PeerType, InCall, Sending, Receiving
<1>4. CASE OnChoke(t)
  <2>1. /\ peer' \in [Threads -> PeerType]
        /\ \A u \in Threads \ {t} : peer'[u] = peer[u]
    BY <1>4 DEF OnChoke, Labels
  <2>2. /\ peer'[t].pc \in {"loop", "again"} /\ At(t, "receive")
        /\ peer'[t].failed = peer[t].failed /\ ~peer'[t].inCall
        /\ peer'[t].pendingBlock => peer[t].pendingBlock
    BY <1>4 DEF OnChoke, Receives
  <2>3. diskFaults' = 0 => ~peer'[t].pendingBlock
    <3>1. CASE Return(t)
      BY <1>4, <3>1, HandFacts DEF OnChoke, Holds
    <3>2. CASE ReturnThrows(t)
      BY <3>2, HandFacts
    <3>3. CASE ~Holds(t)
      BY <1>3, <2>2, <3>3 DEF Waits
    <3> QED
      BY <1>4, <3>1, <3>2, <3>3 DEF OnChoke
  <2>4. peer'[t].pendingBlock => pieceInProgress'[t] = pieceInProgress[t]
    <3>1. CASE Return(t)
      BY <1>4, <3>1, HandFacts DEF OnChoke, Holds
    <3>2. CASE ReturnThrows(t)
      BY <3>2, HandFacts
    <3>3. CASE ~Holds(t)
      BY <1>4, <3>3, HandFacts DEF OnChoke, NoStorageStep, storageVars
    <3> QED
      BY <1>4, <3>1, <3>2, <3>3 DEF OnChoke
  <2>5. peer'[t].bitfield = peer[t].bitfield
    BY <1>4 DEF OnChoke
  <2> QED
    BY <1>3, <2>1, <2>2, <2>3, <2>4, <2>5 DEF Position, Clean, Waits, At, Holds, Available, SetUp,
      InMainLoop
<1>5. CASE OnUnchoke(t) \/ OnShortPiece(t) \/ OnIgnored(t)
  <2>1. /\ peer' \in [Threads -> PeerType]
        /\ \A u \in Threads \ {t} : peer'[u] = peer[u]
    BY <1>5 DEF OnUnchoke, OnShortPiece, OnIgnored, Goto, Labels
  <2> QED
    BY <1>3, <1>5, <2>1 DEF OnUnchoke, OnShortPiece, OnIgnored, Receives, Goto, NoStorageStep,
      storageVars, Position, Clean, Waits, At, Holds, Available, SetUp, InMainLoop
<1>6. ASSUME NEW p \in Pieces, OnHave(t, p)
      PROVE  /\ peer' \in [Threads -> PeerType]
             /\ \A u \in Threads \ {t} : peer'[u] = peer[u]
             /\ Position(t)'
             /\ diskFaults' = 0 => Clean(t)' /\ Waits(t)'
  <2> DEFINE bf == SetPieceAvailability(peer[t].bitfield, p)
  <2>1. bf \in Bitfields
    BY BitfieldFacts
  <2> HIDE DEF bf
  <2> DEFINE own == [peer[t] EXCEPT !.pc = "loop", !.inCall = FALSE, !.bitfield = bf,
                                    !.announced = @ \cup {p}]
  <2>2. own \in PeerType /\ [own EXCEPT !.pendingBlock = FALSE] \in PeerType
    <3>1. "loop" \in Labels /\ peer[t].announced \cup {p} \in SUBSET Pieces
      BY DEF Labels
    <3> QED
      BY <2>1, <3>1
  <2>3. CASE /\ Holds(t) /\ Drop(t) /\ At(t, "receive")
             /\ peer' = [peer EXCEPT ![t] = [own EXCEPT !.pendingBlock = FALSE]]
    BY <1>3, <2>2, <2>3, HandFacts DEF Position, Clean, Waits, At, Holds, SetUp, InMainLoop
  <2>4. CASE /\ Holds(t) => IsPieceAvailable(bf, pieceInProgress[t])
             /\ UNCHANGED storageVars /\ At(t, "receive")
             /\ peer' = [peer EXCEPT ![t] = own]
    BY <1>3, <2>2, <2>4 DEF storageVars, Position, Clean, Waits, At, Holds, Available, SetUp,
      InMainLoop
  <2> QED
    BY <1>6, <2>3, <2>4 DEF OnHave, Receives, NoStorageStep, bf
<1>7. ASSUME NEW i, NEW data, OnPiece(t, i, data)
      PROVE  /\ peer' \in [Threads -> PeerType]
             /\ \A u \in Threads \ {t} : peer'[u] = peer[u]
             /\ Position(t)'
             /\ diskFaults' = 0 => Clean(t)' /\ Waits(t)'
  <2>1. [peer[t] EXCEPT !.pc = "loop", !.inCall = FALSE, !.pendingBlock = FALSE] \in PeerType
    <3>1. "loop" \in Labels
      BY DEF Labels
    <3> QED
      BY <3>1
  <2>2. /\ At(t, "receive")
        /\ peer' = [peer EXCEPT ![t].pc = "loop", ![t].inCall = FALSE, ![t].pendingBlock = FALSE]
    BY <1>7 DEF OnPiece, Receives
  <2> QED
    BY <1>3, <2>1, <2>2 DEF Position, Clean, Waits, At, SetUp, InMainLoop
<1> QED
  BY <1>4, <1>5, <1>6, <1>7

LEMMA PeerInvStep == StorageInv /\ PeerInv /\ [PeerNext]_vars => PeerInv'
<1> SUFFICES ASSUME StorageInv, PeerInv, [PeerNext]_vars PROVE PeerInv'
  OBVIOUS
<1>1. CASE UNCHANGED vars
  BY <1>1 DEF vars, storageVars, PeerInv, Position, Clean, Waits, At, Holds, Available
<1>2. ASSUME NEW t \in Threads, ThreadStep(t) PROVE PeerInv'
  BY <1>2, RunKeepsInv, RequestKeepsInv, HandlersKeepInv DEF ThreadStep, OwnStep, MessageStep
<1>3. ASSUME NEW t \in Threads, OwnerStep(t) PROVE PeerInv'
  BY <1>3, OwnerKeepsInv
<1> QED
  BY <1>1, <1>2, <1>3 DEF PeerNext

\* The bitfield and what was announced change only together.
LEMMA BitfieldSteps ==
  ASSUME peer \in [Threads -> PeerType], NEW t \in Threads, ThreadStep(t) \/ OwnerStep(t)
  PROVE  /\ \A u \in Threads \ {t} : peer'[u] = peer[u]
         /\ \/ peer'[t].bitfield = NoBitfield /\ peer'[t].announced = Pieces
            \/ \E sent \in SentBitfields :
                 /\ peer'[t].bitfield = Announcement(sent.size, sent.have)
                 /\ peer'[t].announced = IF sent.size = 0 THEN Pieces ELSE sent.have
            \/ \E p \in Pieces :
                 /\ peer'[t].bitfield = SetPieceAvailability(peer[t].bitfield, p)
                 /\ peer'[t].announced = peer[t].announced \cup {p}
            \/ /\ peer'[t].bitfield = peer[t].bitfield
               /\ peer'[t].announced = peer[t].announced
<1> USE DEF PeerType
<1>1. CASE OwnerStep(t)
  BY <1>1 DEF OwnerStep, Start, Terminate, TerminateClose, Destroy, FreshPeer
<1>2. CASE \/ Attempt(t) \/ RunPick(t) \/ CallSocket(t) \/ Connect(t) \/ EstablishFails(t)
           \/ SendHandshake(t) \/ SendInterested(t) \/ Undo(t) \/ CloseConnection(t)
           \/ TryAgain(t) \/ Loop(t)
  BY <1>2 DEF Attempt, RunPick, CallSocket, Connect, EstablishFails, SendHandshake,
    SendInterested, Returns, Undo, CloseConnection, TryAgain, Loop, Goto
<1>3. CASE \/ SendRequest(t) \/ SendFails(t) \/ HandIn(t) \/ KeepWhileChoked(t)
           \/ ReceiveFails(t)
  BY <1>3 DEF SendRequest, SendFails, HandIn, KeepWhileChoked, ReceiveFails, Goto
<1>4. CASE Pick(t)
  <2>1. CASE peer' = [peer EXCEPT ![t].piecesChecked = 0, ![t].pc = "receive"]
    BY <2>1
  <2>2. ASSUME NEW checked, NEW label,
               peer' = [peer EXCEPT ![t].piecesChecked = checked, ![t].pc = label]
        PROVE  /\ \A u \in Threads \ {t} : peer'[u] = peer[u]
               /\ peer'[t].bitfield = peer[t].bitfield
               /\ peer'[t].announced = peer[t].announced
    BY <2>2
  <2> QED
    BY <1>4, <2>1, <2>2 DEF Pick
<1>5. CASE PutBack(t) \/ Caught(t)
  BY <1>5 DEF PutBack, Caught
<1>6. CASE ReceiveHandshake(t)
  BY <1>6 DEF ReceiveHandshake, Returns
<1>7. CASE ReceiveBitfield(t)
  <2>1. CASE Returns(t, "bitfield", Stage(t, "bitfield"))
    BY <2>1 DEF Returns
  <2>2. CASE peer' = [peer EXCEPT ![t].pc = Stage(t, "interested"), ![t].inCall = FALSE,
                                  ![t].choked = FALSE]
    BY <2>2
  <2>3. CASE \E sent \in SentBitfields :
               peer' = [peer EXCEPT ![t].pc = Stage(t, "interested"), ![t].inCall = FALSE,
                          ![t].bitfield = Announcement(sent.size, sent.have),
                          ![t].announced = IF sent.size = 0 THEN Pieces ELSE sent.have]
    BY <2>3
  <2> QED
    BY <1>7, <2>1, <2>2, <2>3 DEF ReceiveBitfield
<1>8. CASE \/ OnChoke(t) \/ OnUnchoke(t) \/ OnShortPiece(t) \/ OnIgnored(t)
           \/ \E p \in Pieces : \E i \in 0 .. NumBlocks[p] - 1, data \in BlockData :
                pieceInProgress[t] = p /\ OnPiece(t, i, data)
  BY <1>8 DEF OnChoke, OnUnchoke, OnShortPiece, OnIgnored, OnPiece
<1>9. ASSUME NEW p \in Pieces, OnHave(t, p)
      PROVE  /\ \A u \in Threads \ {t} : peer'[u] = peer[u]
             /\ peer'[t].bitfield = SetPieceAvailability(peer[t].bitfield, p)
             /\ peer'[t].announced = peer[t].announced \cup {p}
  BY <1>9 DEF OnHave
<1> QED
  BY <1>1, <1>2, <1>3, <1>4, <1>5, <1>6, <1>7, <1>8, <1>9 DEF ThreadStep, OwnStep, MessageStep

LEMMA AnnouncedStep == PeerInv /\ BitfieldIsAnnounced /\ [PeerNext]_vars => BitfieldIsAnnounced'
<1> SUFFICES ASSUME PeerInv, BitfieldIsAnnounced, [PeerNext]_vars,
                    NEW t \in Threads, NEW q \in Pieces,
                    IsPieceAvailable(peer'[t].bitfield, q)
             PROVE  q \in peer'[t].announced
  BY DEF BitfieldIsAnnounced
<1>1. CASE peer'[t] = peer[t]
  BY <1>1 DEF BitfieldIsAnnounced
<1>2. CASE peer'[t] # peer[t]
  <2>1. peer \in [Threads -> PeerType]
    BY DEF PeerInv
  <2>2. ThreadStep(t) \/ OwnerStep(t)
    BY <1>2, <2>1, BitfieldSteps DEF PeerNext, vars
  <2>3. CASE peer'[t].bitfield = NoBitfield /\ peer'[t].announced = Pieces
    BY <2>3
  <2>4. ASSUME NEW sent \in SentBitfields,
               peer'[t].bitfield = Announcement(sent.size, sent.have),
               peer'[t].announced = IF sent.size = 0 THEN Pieces ELSE sent.have
        PROVE  q \in peer'[t].announced
    BY <2>4, AnnouncementIsRead, PeerAssumption
  <2>5. ASSUME NEW p \in Pieces,
               peer'[t].bitfield = SetPieceAvailability(peer[t].bitfield, p),
               peer'[t].announced = peer[t].announced \cup {p}
        PROVE  q \in peer'[t].announced
    <3>1. peer[t].bitfield \in Bitfields
      BY <2>1 DEF PeerType
    <3>2. IsPieceAvailable(peer[t].bitfield, q) \/ q = p
      BY <2>5, <3>1, OnlyThatPiece
    <3> QED
      BY <2>5, <3>2 DEF BitfieldIsAnnounced
  <2>6. CASE peer'[t].bitfield = peer[t].bitfield /\ peer'[t].announced = peer[t].announced
    BY <2>6 DEF BitfieldIsAnnounced
  <2> QED
    BY <2>1, <2>2, <2>3, <2>4, <2>5, <2>6, BitfieldSteps
<1> QED
  BY <1>1, <1>2

\* What the invariants together say.
LEMMA PeerInvMeans ==
  ASSUME StorageInv, PeerInv, BitfieldIsAnnounced
  PROVE  /\ PeerTypeOK
         /\ HeldPieceIsAvailable
         /\ RequestedPieceIsAnnounced
         /\ PendingHasRequest
         /\ RetryIsEmptyHanded
         /\ NoSocketLost
<1>1. PeerTypeOK
  BY DEF StorageInv, PeerInv, PeerTypeOK
<1>2. HeldPieceIsAvailable
  BY DEF PeerInv, Position, HeldPieceIsAvailable
<1>3. PendingHasRequest
  BY DEF PeerInv, Waits, PendingHasRequest
<1>4. RetryIsEmptyHanded /\ NoSocketLost
  BY DEF PeerInv, Clean, At, RetryIsEmptyHanded, NoSocketLost
<1>5. RequestedPieceIsAnnounced
  <2> SUFFICES ASSUME NEW t \in Threads, InCall(t, "send")
               PROVE  pieceInProgress[t] \in peer[t].announced
    BY DEF RequestedPieceIsAnnounced
  <2>1. Holds(t) /\ Available(t)
    BY DEF PeerInv, Position, InCall
  <2>2. pieceInProgress[t] \in Pieces
    BY <2>1 DEF StorageInv, StorageTypeOK, Holds
  <2> QED
    BY <2>1, <2>2 DEF BitfieldIsAnnounced, Available
<1> QED
  BY <1>1, <1>2, <1>3, <1>4, <1>5

LEMMA AnnouncedInit == PeerInit => BitfieldIsAnnounced
BY DEF PeerInit, FreshPeer, BitfieldIsAnnounced

LEMMA PeerCorrect == PeerSpec => [](StorageInv /\ PeerInv /\ BitfieldIsAnnounced)
<1>1. PeerSpec => []StorageInv
  BY PeersKeepContract, StorageCorrect, PTL
<1> QED
  BY <1>1, PeerInvInit, PeerInvStep, AnnouncedInit, AnnouncedStep, PTL DEF PeerSpec

\* Every member of a PeerConnect has its type in every state: the attempts do
\* not pass their bound, nor the rounds of RequestPiece theirs.
THEOREM PeerTypeCorrect == PeerSpec => []PeerTypeOK
BY PeerCorrect, PeerInvMeans, PTL

\* While MainLoop waits for a message, the piece in progress is one the peer
\* has, so the branch that would forget it on a Have is never entered.
THEOREM HeldPiecesAreAvailable == PeerSpec => []HeldPieceIsAvailable
BY PeerCorrect, PeerInvMeans, PTL

\* Whatever the size of the torrent and of the bytes of a bitfield, a thread asks
\* a peer only for a piece the peer announced.
THEOREM RequestsAreAnnounced == PeerSpec => []RequestedPieceIsAnnounced
BY PeerCorrect, PeerInvMeans, PTL

\* Until a disk write fails, a thread that believes it waits for a block has one
\* to wait for.
THEOREM PendingIsRequested == PeerSpec => []PendingHasRequest
BY PeerCorrect, PeerInvMeans, PTL

\* Until a disk write fails, a retry starts with no piece in hand, so that Run's
\* unconditional nullptr loses none.
THEOREM RetriesLoseNoPiece == PeerSpec => []RetryIsEmptyHanded
BY PeerCorrect, PeerInvMeans, PTL

\* Until a disk write fails, no new socket is made over one that is still open.
THEOREM RetriesLoseNoSocket == PeerSpec => []NoSocketLost
BY PeerCorrect, PeerInvMeans, PTL
===============================================================================
