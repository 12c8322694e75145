------------------------------ MODULE TcpConnect ------------------------------
(***************************************************************************)
(* tcp_connect.h, tcp_connect.cpp: one TcpConnect, the peer at the other   *)
(* end of its socket, the thread that runs the connection (Run of          *)
(* PeerConnect) and the main thread that terminates and destroys it.       *)
(*                                                                         *)
(* A call holds socketMutex_ from its beginning to its end.  ReceiveData   *)
(* is one step per recv, since bytes arrive while it waits; the other      *)
(* calls are one step.  A call that fails ends in a C++ exception, after   *)
(* which the thread only closes the socket (usable = FALSE), unless a disk *)
(* failure throws before it does: then the next attempt makes its socket   *)
(* over an open one.                                                       *)
(*                                                                         *)
(* The first string of a connection is the handshake, read by its known    *)
(* size; every other one comes behind a length of four bytes.              *)
(***************************************************************************)
EXTENDS Message, FiniteSets, SequencesExt

CONSTANTS
  Handshake,         \* the bytes of a handshake, 68 in the program
  PeerStrings,       \* what a peer sends behind a length prefix
  OwnMessages,       \* the messages the client sends
  MaxSockets,        \* bound on the sockets made: attempts of the thread
  MaxStrings,        \* bound on the strings sent each way on a connection
  JunkBytes,         \* values of the bytes of sizeBytes that recv left unset
  PrefixInOnePiece   \* recv finds all four bytes of a prefix, or none

ASSUME TcpAssumption ==
  /\ Handshake \in Seq(Byte) /\ Handshake # << >>
  /\ PeerStrings \subseteq Seq(Byte)
  /\ \A m \in OwnMessages : m.id \in Byte /\ m.payload \in Seq(Byte)
  /\ MaxSockets \in Nat /\ MaxStrings \in Nat
  /\ JunkBytes \subseteq Byte /\ JunkBytes # {}
  /\ PrefixInOnePiece \in BOOLEAN

VARIABLES
  sock,         \* sock_: 0 is -1, n is the descriptor of the n-th socket
  opened,       \* number of sockets made
  closed,       \* how often close was called on each
  linked,       \* the peer is at the other end of the socket
  run,          \* where the thread is in Run
  usable,       \* no call on this connection has thrown
  diskFailed,   \* history: a disk failure threw past the end of Run
  call,         \* the part of ReceiveData under way
  want,         \* bufferSize
  buffer,       \* result, as far as it is filled
  terminator,   \* the main thread's Terminate
  wire,         \* bytes the peer wrote and recv has not returned
  hungUp,       \* the peer writes no more on this connection
  sent,         \* strings the peer sent on this connection
  received,     \* strings ReceiveData returned on this connection
  asked,        \* strings SendData was given and sent whole
  out           \* bytes that went out on this connection

userVars == << run, usable, diskFailed >>
sockVars == << sock, opened, closed >>
callVars == << call, want, buffer, received >>
peerVars == << linked, wire, hungUp, sent >>
sendVars == << asked, out >>
tcpVars  == << userVars, sockVars, callVars, peerVars, sendVars, terminator >>

TcpInit ==
  /\ sock = 0 /\ opened = 0 /\ closed = [n \in 1 .. MaxSockets |-> 0]
  /\ run = "outside" /\ usable = FALSE /\ diskFailed = FALSE
  /\ call = "none" /\ want = 0 /\ buffer = << >> /\ received = << >>
  /\ linked = FALSE /\ wire = << >> /\ hungUp = FALSE /\ sent = << >>
  /\ asked = << >> /\ out = << >>
  /\ terminator = "idle"

MutexFree == call = "none"

-------------------------------------------------------------------------------
(* Closing *)

\* Mutant: the descriptor is closed and sock_ keeps it.
CloseSocketKept ==
  /\ sock' = sock
  /\ closed' = IF sock = 0 THEN closed ELSE [closed EXCEPT ![sock] = @ + 1]
  /\ UNCHANGED opened

\* CloseConnection: the exchange makes a second call do nothing.
CloseSocket ==
  /\ sock' = 0
  /\ closed' = IF sock = 0 THEN closed ELSE [closed EXCEPT ![sock] = @ + 1]
  /\ UNCHANGED opened

-------------------------------------------------------------------------------
(* EstablishConnection *)

\* Run starts: it returns at once when terminated_ is set.
Begin ==
  /\ run = "outside"
  /\ terminator = "idle"
  /\ opened < MaxSockets
  /\ run' = "begun"
  /\ UNCHANGED << usable, diskFailed, sockVars, callVars, peerVars, sendVars, terminator >>

NewConnection(isLinked) ==
  /\ linked' = isLinked
  /\ wire' = << >> /\ hungUp' = FALSE /\ sent' = << >>
  /\ received' = << >> /\ asked' = << >> /\ out' = << >>

\* The socket is writable and SO_ERROR is 0; sock_ is overwritten.  That is also
\* what select and getsockopt say after a connect that failed at once, because
\* the result of connect is not the one that is checked: then nobody is at the
\* other end.
EstablishConnection ==
  /\ run = "begun"
  /\ sock' = opened + 1
  /\ opened' = opened + 1
  /\ \E isLinked \in BOOLEAN : NewConnection(isLinked)
  /\ run' = "using" /\ usable' = TRUE
  /\ UNCHANGED << closed, diskFailed, call, want, buffer, terminator >>

\* No socket can be made, and ErrorCheck closes what sock_ held; or a bad
\* address, an error or a timeout: the new socket is closed again.
EstablishThrows ==
  /\ run = "begun"
  /\ \/ CloseSocket
     \/ /\ opened' = opened + 1
        /\ closed' = [closed EXCEPT ![opened + 1] = 1]
        /\ sock' = 0
  /\ run' = "using" /\ usable' = FALSE
  /\ UNCHANGED << diskFailed, callVars, peerVars, sendVars, terminator >>

-------------------------------------------------------------------------------
(* The peer *)

Frame(string) == IF sent = << >> THEN string ELSE IntToBytes(Len(string)) \o string

NextStrings == IF sent = << >> THEN {Handshake} ELSE PeerStrings

PeerWrites ==
  /\ linked /\ ~hungUp
  /\ Len(sent) < MaxStrings
  /\ \E string \in NextStrings :
       /\ wire' = wire \o Frame(string)
       /\ sent' = Append(sent, string)
  /\ UNCHANGED << linked, hungUp, userVars, sockVars, callVars, sendVars, terminator >>

\* The peer closes, perhaps within a string; or the connection breaks and what
\* was on the way is lost.
PeerHangsUp ==
  /\ linked /\ ~hungUp
  /\ hungUp' = TRUE
  /\ \/ wire' = << >>
     \/ UNCHANGED wire
     \/ \E string \in NextStrings : \E n \in 1 .. Len(Frame(string)) - 1 :
          /\ Len(sent) < MaxStrings
          /\ sent # << >> /\ PrefixInOnePiece => n >= 4
          /\ wire' = wire \o SubSeq(Frame(string), 1, n)
  /\ UNCHANGED << linked, sent, userVars, sockVars, callVars, sendVars, terminator >>

-------------------------------------------------------------------------------
(* SendData *)

\* What goes out first is the handshake.
OwnStrings == IF asked = << >> THEN {Handshake} ELSE {WireString(m) : m \in OwnMessages}

CallStarts == run = "using" /\ usable /\ MutexFree

SendData ==
  /\ CallStarts
  /\ sock # 0 /\ linked
  /\ Len(asked) < MaxStrings
  /\ \E string \in OwnStrings :
       asked' = Append(asked, string) /\ out' = out \o string
  /\ UNCHANGED << userVars, sockVars, callVars, peerVars, terminator >>

\* Mutant: a send that took only a part is not an error.
SendTornIsFine ==
  /\ CallStarts
  /\ sock # 0 /\ linked
  /\ Len(asked) < MaxStrings
  /\ \E string \in OwnStrings : \E n \in 0 .. Len(string) - 1 :
       out' = out \o SubSeq(string, 1, n) /\ asked' = Append(asked, string)
  /\ UNCHANGED << userVars, sockVars, callVars, peerVars, terminator >>

\* send is called once: when it takes a part of the string, or is interrupted,
\* SendData throws and leaves the socket open.
SendIsTorn ==
  /\ CallStarts
  /\ sock # 0 /\ linked
  /\ Len(asked) < MaxStrings
  /\ \E string \in OwnStrings : \E n \in 0 .. Len(string) - 1 :
       out' = out \o SubSeq(string, 1, n)
  /\ usable' = FALSE
  /\ UNCHANGED << run, diskFailed, sockVars, callVars, peerVars, asked, terminator >>

\* sock_ is -1, or send reports an error and the socket is closed.
SendThrows ==
  /\ CallStarts
  /\ CloseSocket
  /\ usable' = FALSE
  /\ UNCHANGED << run, diskFailed, callVars, peerVars, sendVars, terminator >>

-------------------------------------------------------------------------------
(* ReceiveData *)

\* With the size of the handshake first, without a size from then on.
ReceiveData ==
  /\ CallStarts
  /\ sock # 0
  /\ IF received = << >> THEN call' = "data" /\ want' = Len(Handshake)
                         ELSE call' = "size" /\ want' = 0
  /\ buffer' = << >>
  /\ UNCHANGED << received, userVars, sockVars, peerVars, sendVars, terminator >>

ReceiveOnClosed ==
  /\ CallStarts
  /\ sock = 0
  /\ usable' = FALSE
  /\ UNCHANGED << run, diskFailed, sockVars, callVars, peerVars, sendVars, terminator >>

Arrived(k) == SubSeq(wire, 1, k)

\* recv takes k bytes, at least one and no more than are there.
Recv(k) ==
  /\ k \in 1 .. Len(wire)
  /\ wire' = SubSeq(wire, k + 1, Len(wire))
  /\ UNCHANGED << linked, hungUp, sent >>

\* One recv for the four bytes of the size; those it did not fill are whatever
\* the stack held.
RecvSize ==
  /\ call = "size"
  /\ \E k \in 1 .. 4 : \E junk \in [1 .. 4 - k -> JunkBytes] :
       /\ PrefixInOnePiece => k = 4
       /\ Recv(k)
       /\ want' = BytesToUnsigned(Arrived(k) \o junk)
  /\ call' = "data"
  /\ UNCHANGED << buffer, received, userVars, sockVars, sendVars, terminator >>

\* The string of bufferSize bytes cannot be allocated: bad_alloc, and the
\* socket stays open.
AllocationFails ==
  /\ call = "data" /\ buffer = << >> /\ want > 0
  /\ call' = "none"
  /\ usable' = FALSE
  /\ UNCHANGED << run, diskFailed, want, buffer, received, sockVars, peerVars, sendVars, terminator >>

\* Mutant: recv is asked for more than what is missing.
RecvTooMuch ==
  /\ call = "data"
  /\ Len(buffer) < want
  /\ \E k \in 1 .. Len(wire) : Recv(k) /\ buffer' = buffer \o Arrived(k)
  /\ UNCHANGED << call, want, received, userVars, sockVars, sendVars, terminator >>

RecvData ==
  /\ call = "data"
  /\ Len(buffer) < want
  /\ \E k \in 1 .. Len(wire) :
       /\ k <= want - Len(buffer)
       /\ Recv(k)
       /\ buffer' = buffer \o Arrived(k)
  /\ UNCHANGED << call, want, received, userVars, sockVars, sendVars, terminator >>

\* Mutant: the string is returned after one recv.
ReturnAfterOneRecv ==
  /\ call = "data"
  /\ want > 0 => buffer # << >>
  /\ received' = Append(received, buffer)
  /\ call' = "none"
  /\ UNCHANGED << want, buffer, userVars, sockVars, peerVars, sendVars, terminator >>

ReturnData ==
  /\ call = "data"
  /\ Len(buffer) = want
  /\ received' = Append(received, buffer)
  /\ call' = "none"
  /\ UNCHANGED << want, buffer, userVars, sockVars, peerVars, sendVars, terminator >>

AwaitsBytes == call = "size" \/ (call = "data" /\ Len(buffer) < want)

\* Mutant: there is no timeout.
ReceiveThrowsWhenClosed ==
  /\ AwaitsBytes
  /\ wire = << >> /\ hungUp
  /\ CloseSocket
  /\ call' = "none" /\ usable' = FALSE
  /\ UNCHANGED << run, diskFailed, want, buffer, received, peerVars, sendVars, terminator >>

\* No byte came in time, the peer closed, or poll or recv failed, perhaps with
\* bytes there.
ReceiveThrows ==
  /\ AwaitsBytes
  /\ CloseSocket
  /\ call' = "none" /\ usable' = FALSE
  /\ UNCHANGED << run, diskFailed, want, buffer, received, peerVars, sendVars, terminator >>

ReceiveStep == RecvSize \/ AllocationFails \/ RecvData \/ ReturnData \/ ReceiveThrows

-------------------------------------------------------------------------------
(* The end of Run, Terminate and the destructor *)

EndOfRun ==
  /\ run = "using"
  /\ MutexFree
  /\ CloseSocket
  /\ run' = "outside" /\ usable' = FALSE
  /\ UNCHANGED << diskFailed, callVars, peerVars, sendVars, terminator >>

\* An exception leaves Run with failed_ false: a Piece message of fewer than
\* eight bytes, or a disk failure in the handler of a choke.  The socket stays
\* open, and the thread makes no other attempt.
RunThrows ==
  /\ run = "using"
  /\ MutexFree
  /\ run' = "ended"
  /\ UNCHANGED << usable, diskFailed, sockVars, callVars, peerVars, sendVars, terminator >>

\* A disk failure where the piece is given back after an error, with failed_ true:
\* the exception leaves Run, the socket stays open, and main tries again.
RunThrowsOnDisk ==
  /\ run = "using"
  /\ MutexFree
  /\ run' = "outside" /\ usable' = FALSE /\ diskFailed' = TRUE
  /\ UNCHANGED << sockVars, callVars, peerVars, sendVars, terminator >>

Terminate ==
  /\ terminator = "idle"
  /\ run # "gone"
  /\ terminator' = "closing"
  /\ UNCHANGED << userVars, sockVars, callVars, peerVars, sendVars >>

TerminateClose ==
  /\ terminator = "closing"
  /\ MutexFree
  /\ CloseSocket
  /\ terminator' = "done"
  /\ UNCHANGED << userVars, callVars, peerVars, sendVars >>

\* After the join; ~PeerConnect and ~TcpConnect both close.
Destroy ==
  /\ run \in {"outside", "ended"}
  /\ terminator = "done"
  /\ CloseSocket
  /\ run' = "gone"
  /\ UNCHANGED << usable, diskFailed, callVars, peerVars, sendVars, terminator >>

-------------------------------------------------------------------------------
(* Specification *)

TcpNext ==
  \/ Begin \/ EstablishConnection \/ EstablishThrows
  \/ PeerWrites \/ PeerHangsUp
  \/ SendData \/ SendIsTorn \/ SendThrows
  \/ ReceiveData \/ ReceiveOnClosed \/ ReceiveStep
  \/ EndOfRun \/ RunThrows \/ RunThrowsOnDisk \/ Terminate \/ TerminateClose \/ Destroy

\* poll returns after readTimeout_ at the latest, so a ReceiveData that is under
\* way takes its next step.  Nothing is assumed of the peer, of the caller, or of
\* a send, which may block for ever.
TcpSpec == TcpInit /\ [][TcpNext]_tcpVars /\ WF_tcpVars(ReceiveStep)

-------------------------------------------------------------------------------
(* Properties *)

\* Every variable has the type of the member it stands for.
TcpTypeOK ==
  /\ sock \in 0 .. opened /\ opened \in 0 .. MaxSockets
  /\ closed \in [1 .. MaxSockets -> 0 .. 1]
  /\ run \in {"outside", "begun", "using", "ended", "gone"}
  /\ usable \in BOOLEAN /\ diskFailed \in BOOLEAN
  /\ call \in {"none", "size", "data"} /\ want \in Nat
  /\ buffer \in Seq(Byte) /\ (call = "data" => Len(buffer) <= want)
  /\ linked \in BOOLEAN /\ hungUp \in BOOLEAN
  /\ terminator \in {"idle", "closing", "done"}
  /\ \A s \in {wire, out} : s \in Seq(Byte)
  /\ \A s \in {sent, received, asked} : s \in Seq(Seq(Byte))

\* tcp_connect.h:47 "first read 4 bytes, then as many bytes as their value": the
\* strings ReceiveData returns are those the peer sent, whole and in order.
ReceivedIsSent == IsPrefix(received, sent)

\* The other way the peer gets whole strings, with at most one torn string at
\* the very end: nothing is sent behind a send that took only a part.
OutgoingIsFramed ==
  /\ IsPrefix(FlattenSeq(asked), out)
  /\ usable => out = FlattenSeq(asked)

\* No descriptor is closed twice, whoever of ReceiveData, SendData, Run,
\* Terminate and the destructors comes first: by then the number could be another
\* connection's socket.  sock_ is never a closed one, and until a disk failure
\* throws past the end of Run, none is lost open either.
EachSocketClosedOnce ==
  /\ \A n \in 1 .. opened : closed[n] \in (IF n = sock THEN {0} ELSE {0, 1})
  /\ ~diskFailed => \A n \in 1 .. opened : n # sock => closed[n] = 1
  /\ run = "gone" => sock = 0

\* A call of ReceiveData ends however slowly or little the peer sends, so that
\* Terminate, which waits for the mutex, does not wait for ever.
ReceiveEnds == call # "none" ~> call = "none"

Channel == INSTANCE MessageChannel WITH
  Strings <- PeerStrings \cup {Handshake}, connected <- (run = "using" /\ sock # 0)

ChannelSpec == Channel!ChannelSpec
===============================================================================
