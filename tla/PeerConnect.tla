----------------------------- MODULE PeerConnect -----------------------------
(***************************************************************************)
(* peer_connect.h, peer_connect.cpp and the thread body of main.cpp: one   *)
(* thread per peer, which calls Run up to MaxAttempts times, and the calls *)
(* other threads make on its PeerConnect (constructor, Terminate,          *)
(* destructor).                                                            *)
(*                                                                         *)
(* A step runs from one access to shared state (PieceStorage, terminated_, *)
(* the socket) to the next; work on the thread's own members is done in    *)
(* the step it follows.  A socket call is two steps: it takes              *)
(* socketMutex_, which Terminate needs to close the socket, and it         *)
(* completes.  Its outcome, the peer's messages included, is chosen        *)
(* freely.  A peer may send any message at any time; the block offset of a *)
(* Piece message is assumed to lie within the piece, as SaveBlock does.    *)
(***************************************************************************)
EXTENDS PieceStorage

CONSTANTS
  MaxAttempts,   \* attempts of a thread to run its connection: 3 in main.cpp
  PiecesPerByte, \* pieces that one byte of a bitfield covers: 8
  SentBitfields  \* the sizes of bitfields that peers send, and the pieces they have

VARIABLE
  peer           \* the PeerConnect of each thread and the thread's position

vars == << storageVars, peer >>

-------------------------------------------------------------------------------
(* PeerPiecesAvailability: a string of bytes.  A byte is the set of its bits *)
(* that are 1; bit j is the one worth 2^j.                                   *)

NoBitfield == << >>

Bitfields == Seq(SUBSET (0 .. PiecesPerByte - 1))

ByteOf(p) == p \div PiecesPerByte + 1

\* Mutant: the lowest bit of a byte comes first.
BitOfLowFirst(p) == p % PiecesPerByte

\* j: the highest bit of a byte comes first.
BitOf(p) == PiecesPerByte - 1 - (p % PiecesPerByte)

\* An empty bitfield makes every piece available; a short one hides the rest.
IsPieceAvailable(bf, p) ==
  IF ByteOf(p) \in DOMAIN bf THEN BitOf(p) \in bf[ByteOf(p)] ELSE bf = NoBitfield

SetPieceAvailability(bf, p) ==
  IF ByteOf(p) \in DOMAIN bf THEN [bf EXCEPT ![ByteOf(p)] = @ \cup {BitOf(p)}] ELSE bf

\* What a peer with the pieces of have sends in size bytes: counted from the
\* highest bit of the first byte, bit p is 1 when it has piece p.
Announcement(size, have) ==
  [k \in 1 .. size |->
     {j \in 0 .. PiecesPerByte - 1 : k * PiecesPerByte - 1 - j \in have}]

ASSUME PeerAssumption ==
  /\ MaxAttempts \in Nat \ {0}
  /\ PiecesPerByte \in Nat \ {0}
  /\ SentBitfields \subseteq [size : Nat, have : SUBSET Pieces]

-------------------------------------------------------------------------------
(* State *)

\* Positions: "absent" no such object; "attempt" before a call of Run;
\* "runPick" .. "undo" Run up to MainLoop; "loop" .. "caught" MainLoop and its
\* calls of RequestPiece; "close" the end of Run; "again" the loop condition of
\* the thread; "ended" the thread returned.
Labels == {"absent", "attempt", "runPick", "connect", "handshake", "answer",
           "bitfield", "interested", "undo", "loop", "pick", "putBack", "send",
           "receive", "caught", "close", "again", "ended"}

\* The constructor's values, and attempts = 0 of the thread.
FreshPeer(label) ==
  [pc            |-> label,
   attempts      |-> 0,
   terminated    |-> FALSE,
   closing       |-> FALSE,       \* Terminate set the flag, has not closed yet
   inCall        |-> FALSE,       \* the thread holds socketMutex_
   failed        |-> FALSE,
   choked        |-> TRUE,
   pendingBlock  |-> FALSE,
   bitfield      |-> NoBitfield,
   announced     |-> Pieces,      \* history: the pieces the peer says it has
   piecesChecked |-> 0,           \* local of RequestPiece
   sockOpen      |-> FALSE]       \* sock_ # -1

PeerInit == StorageInit /\ peer = [t \in Threads |-> FreshPeer("absent")]

At(t, label) == peer[t].pc = label

Goto(t, label) == peer' = [peer EXCEPT ![t].pc = label]

NoStorageStep == UNCHANGED storageVars

Available(t) == IsPieceAvailable(peer[t].bitfield, pieceInProgress[t])

-------------------------------------------------------------------------------
(* Calls of the main thread. *)

\* Construct the PeerConnect and start its thread.
Start(t) ==
  /\ At(t, "absent")
  /\ peer' = [peer EXCEPT ![t] = FreshPeer("attempt")]
  /\ NoStorageStep

\* Terminate up to the exchange of the flag ...
Terminate(t) ==
  /\ ~At(t, "absent")
  /\ ~peer[t].terminated
  /\ peer' = [peer EXCEPT ![t].terminated = TRUE, ![t].closing = TRUE]
  /\ NoStorageStep

\* ... and its CloseConnection, which waits for a socket call to end.
TerminateClose(t) ==
  /\ peer[t].closing
  /\ ~peer[t].inCall
  /\ peer' = [peer EXCEPT ![t].closing = FALSE, ![t].sockOpen = FALSE]
  /\ NoStorageStep

\* The destructor: every connection is terminated and its thread joined first.
Destroy(t) ==
  /\ At(t, "ended")
  /\ peer[t].terminated
  /\ ~peer[t].closing
  /\ peer' = [peer EXCEPT ![t] = FreshPeer("absent")]
  /\ IF Holds(t) THEN Drop(t) ELSE NoStorageStep

-------------------------------------------------------------------------------
(* The thread's loop around Run, and Run up to MainLoop. *)

\* Run returns at once when terminated; otherwise it resets its members.
Attempt(t) ==
  /\ At(t, "attempt")
  /\ \/ /\ peer[t].terminated
        /\ peer' = [peer EXCEPT ![t].attempts = @ + 1, ![t].pc = "again"]
        /\ NoStorageStep
     \/ /\ ~peer[t].terminated
        /\ peer' = [peer EXCEPT ![t].attempts = @ + 1, ![t].pc = "runPick",
                                ![t].choked = TRUE, ![t].pendingBlock = FALSE,
                                ![t].bitfield = NoBitfield, ![t].announced = Pieces]
        /\ IF Holds(t) THEN Drop(t) ELSE NoStorageStep

\* The call of RequestPiece in Run: the bitfield is empty, so the first piece
\* is available, and the peer is choked, so nothing is sent.
RunPick(t) ==
  /\ At(t, "runPick")
  /\ \E piece \in Pieces \cup {NoPiece} :
       /\ Take(t, piece)
       /\ Goto(t, IF piece = NoPiece THEN "again" ELSE "connect")

-------------------------------------------------------------------------------
(* Socket calls, and the stages of EstablishConnection *)

Sending == {"handshake", "interested", "send"}

Receiving == {"answer", "bitfield", "receive"}

\* A call of TcpConnect takes socketMutex_.  RequestPiece sends only to a peer
\* that has not choked, and only when a block is missing; nobody else changes
\* the blocks until a disk write fails, so it is the same one at the end.
CallSocket(t) ==
  /\ ~peer[t].inCall
  /\ peer[t].pc \in {"connect"} \cup Sending \cup Receiving
  /\ At(t, "send") => ~peer[t].choked /\ MissingBlocks(blocks[pieceInProgress[t]]) # {}
  /\ peer' = [peer EXCEPT ![t].inCall = TRUE]
  /\ NoStorageStep

InCall(t, label) == At(t, label) /\ peer[t].inCall

\* send has no timeout: the socket blocks again (tcp_connect.cpp:82).
InSend(t) == peer[t].inCall /\ peer[t].pc \in Sending /\ peer[t].sockOpen

\* Every stage begins with a look at terminated_; once it is set, this and the
\* later ones are passed over in silence, and MainLoop begins.
Stage(t, label) == IF peer[t].terminated THEN "loop" ELSE label

\* TcpConnect::EstablishConnection: a new socket, or an exception.
Connect(t) ==
  /\ InCall(t, "connect")
  /\ \/ peer' = [peer EXCEPT ![t].pc = Stage(t, "handshake"), ![t].inCall = FALSE,
                             ![t].failed = FALSE, ![t].sockOpen = TRUE]
     \/ peer' = [peer EXCEPT ![t].pc = "undo", ![t].inCall = FALSE,
                             ![t].failed = ~peer[t].terminated, ![t].sockOpen = FALSE]
  /\ NoStorageStep

\* The catch block of PeerConnect::EstablishConnection: a send failed, nothing
\* came in time, or what came is not what was expected.
EstablishFails(t) ==
  /\ \E label \in {"handshake", "answer", "bitfield", "interested"} : InCall(t, label)
  /\ \E open \in {FALSE, peer[t].sockOpen} :
       peer' = [peer EXCEPT ![t].pc = "undo", ![t].inCall = FALSE,
                            ![t].failed = ~peer[t].terminated, ![t].sockOpen = open]
  /\ NoStorageStep

\* A call on an open socket returns.
Returns(t, label, next) ==
  /\ InCall(t, label)
  /\ peer[t].sockOpen
  /\ peer' = [peer EXCEPT ![t].pc = next, ![t].inCall = FALSE]
  /\ NoStorageStep

\* PerformHandshake sends ...
SendHandshake(t) == Returns(t, "handshake", "answer")

\* ... and receives, without a look at terminated_ in between.
ReceiveHandshake(t) == Returns(t, "answer", Stage(t, "bitfield"))

\* Unchoke, BitField, or KeepAlive, after which the function calls itself;
\* any other message is an error (EstablishFails).
ReceiveBitfield(t) ==
  \/ Returns(t, "bitfield", Stage(t, "bitfield"))
  \/ /\ InCall(t, "bitfield")
     /\ peer[t].sockOpen
     /\ \/ peer' = [peer EXCEPT ![t].pc = Stage(t, "interested"), ![t].inCall = FALSE,
                                ![t].choked = FALSE]
        \/ \E sent \in SentBitfields :
             peer' = [peer EXCEPT ![t].pc = Stage(t, "interested"), ![t].inCall = FALSE,
                        ![t].bitfield = Announcement(sent.size, sent.have),
                        ![t].announced = IF sent.size = 0 THEN Pieces ELSE sent.have]
     /\ NoStorageStep

SendInterested(t) == Returns(t, "interested", "loop")

\* Mutant: pieceInProgress_ is not set to null.
UndoKeepsPointer(t) ==
  /\ At(t, "undo")
  /\ PieceProcessed(pieceInProgress[t])
  /\ Goto(t, "close")
  /\ UNCHANGED pieceInProgress

\* Run's else branch: give the piece back.
Undo(t) ==
  /\ At(t, "undo")
  /\ \/ Return(t) /\ Goto(t, "close")
     \/ ReturnThrows(t) /\ Goto(t, "again")

\* Mutant: Run does not close.
CloseConnectionForgotten(t) == At(t, "close") /\ Goto(t, "again") /\ NoStorageStep

\* socket_.CloseConnection() at the end of Run.
CloseConnection(t) ==
  /\ At(t, "close")
  /\ peer' = [peer EXCEPT ![t].pc = "again", ![t].sockOpen = FALSE]
  /\ NoStorageStep

\* Mutant: one attempt too many.
TryAgainOnceMore(t) ==
  /\ At(t, "again")
  /\ Goto(t, IF peer[t].failed /\ peer[t].attempts <= MaxAttempts
             THEN "attempt" ELSE "ended")
  /\ NoStorageStep

TryAgain(t) ==
  /\ At(t, "again")
  /\ Goto(t, IF peer[t].failed /\ peer[t].attempts < MaxAttempts
             THEN "attempt" ELSE "ended")
  /\ NoStorageStep

-------------------------------------------------------------------------------
(* MainLoop and RequestPiece *)

\* Where MainLoop starts when it has something to do: RequestPiece first gives
\* back a piece the peer does not have, and looks for one when there is none.
LoopBody(t) ==
  IF peer[t].pendingBlock THEN "receive"
  ELSE IF ~Holds(t) THEN "pick"
  ELSE IF Available(t) THEN "send" ELSE "putBack"

\* Mutant: the loop does not look at terminated_.
LoopForever(t) == At(t, "loop") /\ Goto(t, LoopBody(t)) /\ NoStorageStep

Loop(t) ==
  /\ At(t, "loop")
  /\ Goto(t, IF peer[t].terminated THEN "close" ELSE LoopBody(t))
  /\ NoStorageStep

\* Mutant: RequestPiece keeps whatever piece it is given.
SkipsNothing(t, piece) == FALSE

Skips(t, piece) ==
  piece # NoPiece /\ ~IsPieceAvailable(peer[t].bitfield, piece)

\* One round of RequestPiece's while loop; it ends with an available piece,
\* with none to hand out, or after TotalPiecesCount() pieces.
Pick(t) ==
  /\ At(t, "pick")
  /\ \/ /\ peer[t].piecesChecked = NumPieces
        /\ peer' = [peer EXCEPT ![t].piecesChecked = 0, ![t].pc = "receive"]
        /\ NoStorageStep
     \/ /\ peer[t].piecesChecked < NumPieces
        /\ \E piece \in Pieces \cup {NoPiece} :
             /\ Take(t, piece)
             /\ peer' = [peer EXCEPT
                  ![t].piecesChecked = IF Skips(t, piece) THEN @ + 1 ELSE 0,
                  ![t].pc = IF piece = NoPiece THEN "receive"
                            ELSE IF Skips(t, piece) THEN "putBack" ELSE "send"]

\* PieceProcessed on a piece the peer does not have.
PutBack(t) ==
  /\ At(t, "putBack")
  /\ \/ /\ Return(t)
        /\ peer' = [peer EXCEPT ![t].pc = "pick", ![t].pendingBlock = FALSE]
     \/ /\ ReturnThrows(t)
        /\ peer' = [peer EXCEPT ![t].pc = "caught", ![t].piecesChecked = 0]

\* The rest of RequestPiece: nothing while choked, hand in the piece when no
\* block is missing, else request the first missing block.
SendRequest(t) ==
  /\ InCall(t, "send")
  /\ peer[t].sockOpen
  /\ MarkPending(t)
  /\ peer' = [peer EXCEPT ![t].pc = "receive", ![t].inCall = FALSE,
                          ![t].pendingBlock = TRUE]

SendFails(t) ==
  /\ InCall(t, "send")
  /\ \E open \in {FALSE, peer[t].sockOpen} :
       peer' = [peer EXCEPT ![t].pc = "caught", ![t].inCall = FALSE, ![t].sockOpen = open]
  /\ NoStorageStep

HandIn(t) ==
  /\ At(t, "send")
  /\ ~peer[t].inCall
  /\ ~peer[t].choked
  /\ MissingBlocks(blocks[pieceInProgress[t]]) = {}
  /\ \/ /\ Return(t)
        /\ peer' = [peer EXCEPT ![t].pc = "receive", ![t].pendingBlock = FALSE]
     \/ ReturnThrows(t) /\ Goto(t, "caught")

KeepWhileChoked(t) ==
  /\ At(t, "send")
  /\ ~peer[t].inCall
  /\ peer[t].choked
  /\ Goto(t, "receive")
  /\ NoStorageStep

\* Mutant: a wait for data has no timeout.
ReceiveFailsWhenClosed(t) ==
  /\ InCall(t, "receive")
  /\ ~peer[t].sockOpen
  /\ peer' = [peer EXCEPT ![t].pc = "caught", ![t].inCall = FALSE]
  /\ NoStorageStep

\* ReceiveData fails: a timeout, an error, the peer or Terminate closed.
ReceiveFails(t) ==
  /\ InCall(t, "receive")
  /\ peer' = [peer EXCEPT ![t].pc = "caught", ![t].inCall = FALSE, ![t].sockOpen = FALSE]
  /\ NoStorageStep

\* Mutant: the piece is not given back when the connection breaks.
CaughtKeepsPiece(t) ==
  /\ At(t, "caught")
  /\ peer' = [peer EXCEPT ![t].pc = "close", ![t].failed = ~peer[t].terminated]
  /\ NoStorageStep

\* MainLoop's catch block; an exception from it leaves Run without closing.
Caught(t) ==
  /\ At(t, "caught")
  /\ \/ /\ Holds(t)
        /\ Return(t)
        /\ peer' = [peer EXCEPT ![t].pc = "close", ![t].pendingBlock = FALSE,
                                ![t].failed = ~peer[t].terminated]
     \/ /\ ReturnThrows(t)
        /\ peer' = [peer EXCEPT ![t].pc = "again", ![t].failed = ~peer[t].terminated]
     \/ /\ ~Holds(t)
        /\ peer' = [peer EXCEPT ![t].pc = "close", ![t].failed = ~peer[t].terminated]
        /\ NoStorageStep

-------------------------------------------------------------------------------
(* The message handlers of MainLoop *)

Receives(t) == InCall(t, "receive") /\ peer[t].sockOpen

\* Mutant: a choke does not cancel the request.
OnChokeStillPending(t) ==
  /\ Receives(t)
  /\ IF Holds(t) THEN Return(t) ELSE NoStorageStep
  /\ peer' = [peer EXCEPT ![t].pc = "loop", ![t].inCall = FALSE, ![t].choked = TRUE]

OnChoke(t) ==
  /\ Receives(t)
  /\ \/ /\ Return(t)
        /\ peer' = [peer EXCEPT ![t].pc = "loop", ![t].inCall = FALSE, ![t].choked = TRUE,
                                ![t].pendingBlock = FALSE]
     \/ /\ ReturnThrows(t)
        /\ peer' = [peer EXCEPT ![t].pc = "again", ![t].inCall = FALSE, ![t].choked = TRUE]
     \/ /\ ~Holds(t)
        /\ peer' = [peer EXCEPT ![t].pc = "loop", ![t].inCall = FALSE, ![t].choked = TRUE]
        /\ NoStorageStep

OnUnchoke(t) ==
  /\ Receives(t)
  /\ peer' = [peer EXCEPT ![t].pc = "loop", ![t].inCall = FALSE, ![t].choked = FALSE]
  /\ NoStorageStep

OnHave(t, p) ==
  LET bf  == SetPieceAvailability(peer[t].bitfield, p)
      own == [peer[t] EXCEPT !.pc = "loop", !.inCall = FALSE, !.bitfield = bf,
                             !.announced = @ \cup {p}]
  IN /\ Receives(t)
     /\ \/ /\ Holds(t) /\ ~IsPieceAvailable(bf, pieceInProgress[t])
           /\ Drop(t)
           /\ peer' = [peer EXCEPT ![t] = [own EXCEPT !.pendingBlock = FALSE]]
        \/ /\ Holds(t) => IsPieceAvailable(bf, pieceInProgress[t])
           /\ NoStorageStep
           /\ peer' = [peer EXCEPT ![t] = own]

\* A Piece message for the piece in progress, whatever block it carries.
OnPiece(t, i, data) ==
  /\ Receives(t)
  /\ StoreBlock(t, i, data)
  /\ peer' = [peer EXCEPT ![t].pc = "loop", ![t].inCall = FALSE, ![t].pendingBlock = FALSE]

\* A Piece payload shorter than its 8-byte header: substr throws, and neither
\* MainLoop nor Run catches.
OnShortPiece(t) ==
  /\ Receives(t)
  /\ Holds(t)
  /\ peer' = [peer EXCEPT ![t].pc = "again", ![t].inCall = FALSE]
  /\ NoStorageStep

\* A Piece message for another piece or with none in progress, and every
\* message that has no case of its own.
OnIgnored(t) ==
  /\ Receives(t)
  /\ peer' = [peer EXCEPT ![t].pc = "loop", ![t].inCall = FALSE]
  /\ NoStorageStep

-------------------------------------------------------------------------------
(* Specification *)

\* Steps that the thread takes by itself, a receive that gives up included.
OwnStep(t) ==
  \/ Attempt(t) \/ RunPick(t) \/ CallSocket(t) \/ Connect(t) \/ EstablishFails(t)
  \/ SendHandshake(t) \/ SendInterested(t)
  \/ Undo(t) \/ CloseConnection(t) \/ TryAgain(t)
  \/ Loop(t) \/ Pick(t) \/ PutBack(t)
  \/ SendRequest(t) \/ SendFails(t) \/ HandIn(t) \/ KeepWhileChoked(t)
  \/ ReceiveFails(t) \/ Caught(t)

\* Steps that a message of the peer makes it take.
MessageStep(t) ==
  \/ ReceiveHandshake(t) \/ ReceiveBitfield(t)
  \/ OnChoke(t) \/ OnUnchoke(t) \/ OnShortPiece(t) \/ OnIgnored(t)
  \/ \E p \in Pieces : OnHave(t, p)
  \/ \E p \in Pieces : \E i \in 0 .. NumBlocks[p] - 1, data \in BlockData :
       pieceInProgress[t] = p /\ OnPiece(t, i, data)

ThreadStep(t) == OwnStep(t) \/ MessageStep(t)

OwnerStep(t) == Start(t) \/ Terminate(t) \/ TerminateClose(t) \/ Destroy(t)

PeerNext == \E t \in Threads : ThreadStep(t) \/ OwnerStep(t)

\* The thread goes on, unless it is in a send: connecting and each wait for
\* bytes have a timeout, a send has none.  No message is ever sure to come, and
\* a Terminate waits for the socket until the thread is out of its call.
PeerFairness ==
  \A t \in Threads :
    WF_vars(~InSend(t) /\ OwnStep(t)) /\ WF_vars(TerminateClose(t))

PeerSpec == PeerInit /\ [][PeerNext]_vars /\ PeerFairness

-------------------------------------------------------------------------------
(* Properties *)

PeerType ==
  [pc : Labels, attempts : 0 .. MaxAttempts, terminated : BOOLEAN,
   closing : BOOLEAN, inCall : BOOLEAN, failed : BOOLEAN, choked : BOOLEAN,
   pendingBlock : BOOLEAN, bitfield : Bitfields, announced : SUBSET Pieces,
   piecesChecked : 0 .. NumPieces, sockOpen : BOOLEAN]

\* Every variable has the type of the member it stands for.
PeerTypeOK == StorageTypeOK /\ peer \in [Threads -> PeerType]

\* While MainLoop waits for a message, the piece in progress is one the bitfield
\* has.  So a Have never takes a piece away, and the branch that would forget it
\* without PieceProcessed (peer_connect.cpp:198) is never entered.
HeldPieceIsAvailable ==
  \A t \in Threads : At(t, "receive") /\ Holds(t) => Available(t)

\* peer_connect.h:16 "the i-th bit is whether the peer has the i-th piece": the
\* piece a thread asks a peer for is one the peer said it has, in its bitfield or
\* in a Have, in the order of bits that the protocol gives; any piece, when it
\* sent no bitfield.
RequestedPieceIsAnnounced ==
  \A t \in Threads : InCall(t, "send") => pieceInProgress[t] \in peer[t].announced

\* pendingBlock_ is set only while a requested block of the piece in progress
\* is outstanding and the peer has not choked: a thread that believes it
\* waits for a block has one to wait for.
PendingHasRequest ==
  diskFaults = 0 =>
    \A t \in Threads : peer[t].pendingBlock =>
      /\ Holds(t)
      /\ \E i \in DOMAIN blocks[pieceInProgress[t]] :
           blocks[pieceInProgress[t]][i] = "Pending"
      /\ ~peer[t].choked

\* A retry starts with no piece in hand, so that Run's unconditional
\* pieceInProgress_ = nullptr loses none.
RetryIsEmptyHanded ==
  diskFaults = 0 => \A t \in Threads : At(t, "attempt") => ~Holds(t)

\* No new socket is made over one that is still open: no descriptor is lost.
NoSocketLost ==
  diskFaults = 0 => \A t \in Threads : At(t, "connect") => ~peer[t].sockOpen

\* peer_connect.h:119 "if we are not waiting for the contents of a piece, the
\* request has to be sent": a thread that is not choked starts to wait for a
\* message without a request only when no piece the peer has is left to take.
SendsNextRequest ==
  [][\A t \in Threads :
       ~At(t, "receive") /\ At(t, "receive")' /\ ~peer[t].choked =>
         \/ peer'[t].pendingBlock
         \/ /\ ~RefillNeeded'
            /\ \A p \in Range(remainPieces') : ~IsPieceAvailable(peer[t].bitfield, p)]_vars

\* Places inside MainLoop.
InMainLoop == {"loop", "pick", "putBack", "send", "receive", "caught"}

\* A thread whose connection was terminated ends, so join returns, as long as
\* each of its sends returns.
TerminatedThreadEnds ==
  \A t \in Threads : []<>~InSend(t) => (peer[t].terminated ~> At(t, "ended"))

\* peer_connect.h:71 "the flag needed to end the loop of talking to the peer":
\* a thread that is in MainLoop when it is set leaves MainLoop.
FlagEndsLoop ==
  \A t \in Threads : peer[t].pc \in InMainLoop /\ peer[t].terminated ~> peer[t].pc \notin InMainLoop
==============================================================================
