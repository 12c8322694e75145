--------------------------- MODULE TcpConnectProofs ---------------------------
(***************************************************************************)
(* Descriptors are closed once, every variable keeps its type, what goes   *)
(* out is framed, and what comes in is put together: for any number of     *)
(* attempts, any messages and any division of the bytes by recv and send.  *)
(***************************************************************************)
EXTENDS TcpConnect, PieceLayoutProofs, InductionFacts

\* Inductive: no descriptor is closed but those of sockets made before, and
\* sock_ is an open one; until a disk failure throws past the end of Run, it is
\* the only open one, and there is none when the thread makes the next.
SocketInv ==
  /\ opened \in 0 .. MaxSockets /\ sock \in 0 .. opened
  /\ closed \in [1 .. MaxSockets -> 0 .. 1]
  /\ \A n \in 1 .. MaxSockets : n > opened \/ n = sock => closed[n] = 0
  /\ ~diskFailed => \A n \in 1 .. opened : n # sock => closed[n] = 1
  /\ ~diskFailed /\ run \in {"outside", "begun"} => sock = 0
  /\ run = "begun" => opened < MaxSockets
  /\ run = "gone" => sock = 0

LEMMA SocketInit == TcpInit => SocketInv
BY TcpAssumption DEF TcpInit, SocketInv

\* Closing, wherever the thread goes from there.
LEMMA CloseKeepsInv ==
  ASSUME SocketInv, CloseSocket, run' # "begun" \/ run' = run, diskFailed' = diskFailed
  PROVE  SocketInv'
<1>1. sock' = 0 /\ opened' = opened
  BY DEF CloseSocket
<1>2. CASE sock = 0
  BY <1>1, <1>2 DEF SocketInv, CloseSocket
<1>3. CASE sock # 0
  <2>1. sock \in 1 .. MaxSockets /\ closed[sock] = 0 /\ closed' = [closed EXCEPT ![sock] = @ + 1]
    BY <1>3, TcpAssumption DEF SocketInv, CloseSocket
  <2>2. \A n \in 1 .. MaxSockets : closed'[n] = IF n = sock THEN 1 ELSE closed[n]
    BY <2>1 DEF SocketInv
  <2>3. closed' \in [1 .. MaxSockets -> 0 .. 1]
    BY <2>1 DEF SocketInv
  <2>4. \A n \in 1 .. MaxSockets : n > opened \/ n = 0 => closed'[n] = 0
    BY <2>1, <2>2 DEF SocketInv
  <2>5. ~diskFailed => \A n \in 1 .. opened : closed'[n] = 1
    BY <2>1, <2>2, TcpAssumption DEF SocketInv
  <2> QED
    BY <1>1, <2>3, <2>4, <2>5 DEF SocketInv
<1> QED
  BY <1>2, <1>3

\* A new socket, open or closed again.
LEMMA EstablishKeepsInv ==
  ASSUME SocketInv, EstablishConnection \/ EstablishThrows
  PROVE  SocketInv'
<1>1. /\ run = "begun" /\ opened + 1 \in 1 .. MaxSockets
      /\ run' = "using" /\ diskFailed' = diskFailed
      /\ ~diskFailed => sock = 0
  BY TcpAssumption DEF SocketInv, EstablishConnection, EstablishThrows
<1>2. CASE EstablishConnection
  <2>1. sock' = opened + 1 /\ opened' = opened + 1 /\ closed' = closed
    BY <1>2 DEF EstablishConnection
  <2>2. \A n \in 1 .. MaxSockets : n > opened + 1 \/ n = opened + 1 => closed[n] = 0
    BY TcpAssumption DEF SocketInv
  <2>3. ~diskFailed => \A n \in 1 .. opened + 1 : n # opened + 1 => closed[n] = 1
    BY <1>1 DEF SocketInv
  <2> QED
    BY <1>1, <2>1, <2>2, <2>3, TcpAssumption DEF SocketInv
<1>3. CASE CloseSocket
  BY <1>1, <1>3, CloseKeepsInv
<1>4. CASE /\ opened' = opened + 1
           /\ closed' = [closed EXCEPT ![opened + 1] = 1]
           /\ sock' = 0
  <2>1. \A n \in 1 .. MaxSockets : closed'[n] = IF n = opened + 1 THEN 1 ELSE closed[n]
    BY <1>4 DEF SocketInv
  <2>2. closed' \in [1 .. MaxSockets -> 0 .. 1]
    <3>1. closed \in [1 .. MaxSockets -> 0 .. 1] /\ 1 \in 0 .. 1
      BY DEF SocketInv
    <3> QED
      BY <1>4, <3>1
  <2>3. \A n \in 1 .. MaxSockets : n > opened + 1 \/ n = 0 => closed'[n] = 0
    BY <2>1, TcpAssumption DEF SocketInv
  <2>4. ~diskFailed => \A n \in 1 .. opened + 1 : closed'[n] = 1
    BY <1>1, <2>1, TcpAssumption DEF SocketInv
  <2> QED
    BY <1>1, <1>4, <2>2, <2>3, <2>4, TcpAssumption DEF SocketInv
<1> QED
  BY <1>2, <1>3, <1>4 DEF EstablishThrows

LEMMA SocketNext == SocketInv /\ [TcpNext]_tcpVars => SocketInv'
<1> SUFFICES ASSUME SocketInv, [TcpNext]_tcpVars PROVE SocketInv'
  OBVIOUS
<1>1. CASE UNCHANGED << sockVars, run, diskFailed >>
  BY <1>1 DEF SocketInv, sockVars
<1>2. CASE Begin
  BY <1>2, TcpAssumption DEF SocketInv, Begin, sockVars
<1>3. CASE EstablishConnection \/ EstablishThrows
  BY <1>3, EstablishKeepsInv
<1>4. CASE SendThrows \/ ReceiveThrows
  <2>1. CloseSocket /\ run' = run /\ diskFailed' = diskFailed
    BY <1>4 DEF SendThrows, ReceiveThrows
  <2> QED
    BY <2>1, CloseKeepsInv
<1>5. CASE EndOfRun \/ Destroy
  BY <1>5, CloseKeepsInv DEF EndOfRun, Destroy
<1>6. CASE TerminateClose
  BY <1>6, CloseKeepsInv DEF TerminateClose, userVars
<1>7. CASE RunThrows
  BY <1>7 DEF RunThrows, SocketInv, sockVars
<1>9. CASE RunThrowsOnDisk
  <2>1. UNCHANGED << sock, opened, closed >> /\ run' = "outside" /\ diskFailed'
    BY <1>9 DEF RunThrowsOnDisk, sockVars
  <2> QED
    BY <2>1 DEF SocketInv
<1>8. CASE \/ PeerWrites \/ PeerHangsUp \/ SendData \/ SendIsTorn \/ ReceiveData
           \/ ReceiveOnClosed \/ RecvSize \/ AllocationFails \/ RecvData \/ ReturnData
           \/ Terminate
  <2>1. UNCHANGED << sockVars, run, diskFailed >>
    BY <1>8 DEF PeerWrites, PeerHangsUp, SendData, SendIsTorn, ReceiveData, ReceiveOnClosed,
      RecvSize, AllocationFails, RecvData, ReturnData, Terminate, userVars
  <2> QED
    BY <1>1, <2>1
<1> QED
  BY <1>1, <1>2, <1>3, <1>4, <1>5, <1>6, <1>7, <1>8, <1>9
    DEF TcpNext, ReceiveStep, tcpVars, userVars

\* No descriptor is closed twice, whoever of SendData, ReceiveData, Run, Terminate
\* and the destructors closes first; and none is lost open, except by an attempt
\* after a disk failure that threw past the end of Run.
THEOREM DescriptorsCloseOnce == TcpSpec => []EachSocketClosedOnce
<1>1. SocketInv => EachSocketClosedOnce
  BY TcpAssumption DEF SocketInv, EachSocketClosedOnce
<1> QED
  BY <1>1, SocketInit, SocketNext, PTL DEF TcpSpec

-------------------------------------------------------------------------------
(* Types *)

\* What SendData is given.
LEMMA OwnStringsAreBytes == OwnStrings \subseteq Seq(Byte)
<1> SUFFICES ASSUME NEW m \in OwnMessages PROVE WireString(m) \in Seq(Byte)
  BY TcpAssumption DEF OwnStrings
<1>1. m.id \in Byte /\ m.payload \in Seq(Byte) /\ Len(m.payload) \in Nat
  BY TcpAssumption
<1>2. IntToBytes(MessageLength(m)) \in Seq(Byte)
  BY <1>1, FourBytes DEF MessageLength
<1>3. << m.id >> \in Seq(Byte)
  BY <1>1
<1>4. IntToBytes(MessageLength(m)) \o << m.id >> \in Seq(Byte)
  BY <1>2, <1>3, ConcatProperties
<1> QED
  BY <1>1, <1>4, ConcatProperties DEF WireString

\* What a peer sends, with the length in front of it.
LEMMA NextStringsAreBytes ==
  ASSUME NEW string \in NextStrings
  PROVE  string \in Seq(Byte) /\ Frame(string) \in Seq(Byte)
<1>1. string \in Seq(Byte) /\ Len(string) \in Int
  BY TcpAssumption DEF NextStrings
<1>2. IntToBytes(Len(string)) \o string \in Seq(Byte)
  BY <1>1, FourBytes, ConcatProperties
<1> QED
  BY <1>1, <1>2 DEF Frame

\* Four bytes of sizeBytes are a size, whatever they are.
LEMMA SizeIsNatural ==
  ASSUME NEW bytes \in Seq(Byte), Len(bytes) = 4
  PROVE  BytesToUnsigned(bytes) \in Nat
<1>1. \A i \in 1 .. 4 : bytes[i] \in Byte
  BY ElementOfSeq
<1>2. bytes[1] \in Nat /\ bytes[2] \in Nat /\ bytes[3] \in Nat /\ bytes[4] \in Nat
  <2>1. \A byte \in Byte : byte \in Nat
    BY DEF Byte
  <2> QED
    BY <1>1, <2>1
<1> QED
  BY <1>2 DEF BytesToUnsigned, LowBytes

LEMMA SizeBytesAreBytes ==
  ASSUME wire \in Seq(Byte), NEW k \in 1 .. 4, k <= Len(wire), NEW junk \in [1 .. 4 - k -> JunkBytes]
  PROVE  Arrived(k) \o junk \in Seq(Byte) /\ Len(Arrived(k) \o junk) = 4
<1>1. Arrived(k) \in Seq(Byte) /\ Len(Arrived(k)) = k
  BY PartIsString DEF Arrived
<1>2. junk \in Seq(Byte) /\ Len(junk) = 4 - k
  BY TcpAssumption
<1> QED
  BY <1>1, <1>2, ConcatProperties

StateTypes ==
  /\ run \in {"outside", "begun", "using", "ended", "gone"}
  /\ usable \in BOOLEAN /\ diskFailed \in BOOLEAN
  /\ linked \in BOOLEAN /\ hungUp \in BOOLEAN
  /\ terminator \in {"idle", "closing", "done"}
  /\ call \in {"none", "size", "data"} /\ want \in Nat

StringTypes ==
  /\ buffer \in Seq(Byte) /\ wire \in Seq(Byte) /\ out \in Seq(Byte)
  /\ sent \in Seq(Seq(Byte)) /\ received \in Seq(Seq(Byte)) /\ asked \in Seq(Seq(Byte))

\* A call that is under way holds the mutex: no one closes the socket meanwhile.
\* It asks recv for no more bytes than are missing.
CallInv ==
  /\ call # "none" => run = "using" /\ usable /\ sock # 0
  /\ call = "size" => buffer = << >>
  /\ call = "data" => Len(buffer) <= want

ConnectionInv == SocketInv /\ StateTypes /\ StringTypes /\ CallInv

LEMMA ConnectionInit == TcpInit => ConnectionInv
<1> SUFFICES ASSUME TcpInit PROVE ConnectionInv
  OBVIOUS
<1>1. StringTypes
  BY EmptySeq DEF TcpInit, StringTypes
<1>2. StateTypes /\ CallInv
  BY DEF TcpInit, StateTypes, CallInv
<1> QED
  BY <1>1, <1>2, SocketInit DEF ConnectionInv

\* What recv takes is one step's part of the wire.
LEMMA RecvTypes ==
  ASSUME ConnectionInv, NEW k, Recv(k)
  PROVE  /\ k \in Nat /\ k >= 1 /\ k <= Len(wire)
         /\ Arrived(k) \in Seq(Byte) /\ Len(Arrived(k)) = k
         /\ wire' \in Seq(Byte) /\ Len(wire') = Len(wire) - k
<1>1. wire \in Seq(Byte) /\ Len(wire) \in Nat
  BY DEF ConnectionInv, StringTypes
<1>2. k \in 1 .. Len(wire) /\ wire' = SubSeq(wire, k + 1, Len(wire))
  BY DEF Recv
<1>3. Arrived(k) \in Seq(Byte) /\ Len(Arrived(k)) = k
  BY <1>1, <1>2, PartIsString DEF Arrived
<1>4. \A i \in k + 1 .. Len(wire) : wire[i] \in Byte
  BY <1>1, <1>2, ElementOfSeq
<1>5. wire' \in Seq(Byte) /\ Len(wire') = Len(wire) - k
  BY <1>1, <1>2, <1>4, SubSeqProperties
<1> QED
  BY <1>1, <1>2, <1>3, <1>5

LEMMA StateTypesNext == ConnectionInv /\ [TcpNext]_tcpVars => StateTypes'
<1> SUFFICES ASSUME ConnectionInv, [TcpNext]_tcpVars PROVE StateTypes'
  OBVIOUS
<1>1. StateTypes
  BY DEF ConnectionInv
<1>2. CASE UNCHANGED tcpVars
  BY <1>1, <1>2 DEF StateTypes, tcpVars, userVars, callVars, peerVars
<1>3. CASE Begin \/ EstablishThrows \/ EndOfRun \/ RunThrows \/ RunThrowsOnDisk
           \/ Terminate \/ TerminateClose \/ Destroy
  BY <1>1, <1>3 DEF StateTypes, Begin, EstablishThrows, EndOfRun, RunThrows, RunThrowsOnDisk, Terminate,
    TerminateClose, Destroy, userVars, callVars, peerVars
<1>4. CASE EstablishConnection
  BY <1>1, <1>4 DEF StateTypes, EstablishConnection, NewConnection
<1>5. CASE PeerWrites \/ PeerHangsUp
  BY <1>1, <1>5 DEF StateTypes, PeerWrites, PeerHangsUp, userVars, callVars
<1>6. CASE SendData \/ SendIsTorn \/ SendThrows
  BY <1>1, <1>6 DEF StateTypes, SendData, SendIsTorn, SendThrows, userVars, callVars, peerVars
<1>7. CASE ReceiveData
  BY <1>1, <1>7, LenProperties, TcpAssumption DEF StateTypes, ReceiveData, userVars, peerVars
<1>8. CASE ReceiveOnClosed \/ AllocationFails \/ ReturnData \/ ReceiveThrows
  BY <1>1, <1>8 DEF StateTypes, ReceiveOnClosed, AllocationFails, ReturnData, ReceiveThrows,
    userVars, callVars, peerVars
<1>9. CASE RecvData
  BY <1>1, <1>9 DEF StateTypes, RecvData, Recv, userVars
<1>10. CASE RecvSize
  <2>1. PICK k \in 1 .. 4 : \E junk \in [1 .. 4 - k -> JunkBytes] :
          Recv(k) /\ want' = BytesToUnsigned(Arrived(k) \o junk)
    BY <1>10 DEF RecvSize
  <2>2. PICK junk \in [1 .. 4 - k -> JunkBytes] : want' = BytesToUnsigned(Arrived(k) \o junk)
    BY <2>1
  <2>3. k <= Len(wire)
    BY <2>1, RecvTypes
  <2>4. want' \in Nat
    BY <2>2, <2>3, SizeBytesAreBytes, SizeIsNatural DEF ConnectionInv, StringTypes
  <2> QED
    BY <1>1, <1>10, <2>1, <2>4 DEF StateTypes, RecvSize, Recv, userVars
<1> QED
  BY <1>2, <1>3, <1>4, <1>5, <1>6, <1>7, <1>8, <1>9, <1>10 DEF TcpNext, ReceiveStep

LEMMA StringTypesNext == ConnectionInv /\ [TcpNext]_tcpVars => StringTypes'
<1> SUFFICES ASSUME ConnectionInv, [TcpNext]_tcpVars PROVE StringTypes'
  OBVIOUS
<1>1. StringTypes
  BY DEF ConnectionInv
<1>2. CASE UNCHANGED << callVars, peerVars, sendVars >>
  BY <1>1, <1>2 DEF StringTypes, callVars, peerVars, sendVars
<1>3. CASE EstablishConnection
  BY <1>1, <1>3, EmptySeq DEF StringTypes, EstablishConnection, NewConnection
<1>4. CASE PeerWrites
  <2>1. PICK string \in NextStrings : wire' = wire \o Frame(string) /\ sent' = Append(sent, string)
    BY <1>4 DEF PeerWrites
  <2>2. wire' \in Seq(Byte) /\ sent' \in Seq(Seq(Byte))
    BY <1>1, <2>1, NextStringsAreBytes, ConcatProperties, AppendProperties DEF StringTypes
  <2> QED
    BY <1>1, <1>4, <2>2 DEF StringTypes, PeerWrites, callVars, sendVars
<1>5. CASE PeerHangsUp
  <2>1. wire' \in Seq(Byte)
    <3>1. CASE wire' = << >> \/ wire' = wire
      BY <1>1, <3>1, EmptySeq DEF StringTypes
    <3>2. ASSUME NEW string \in NextStrings, NEW n \in 1 .. Len(Frame(string)) - 1,
                 wire' = wire \o SubSeq(Frame(string), 1, n)
          PROVE  wire' \in Seq(Byte)
      <4>1. Frame(string) \in Seq(Byte) /\ Len(Frame(string)) \in Nat
        BY NextStringsAreBytes, LenProperties
      <4>2. SubSeq(Frame(string), 1, n) \in Seq(Byte)
        BY <4>1, PartIsString
      <4> QED
        BY <1>1, <3>2, <4>2, ConcatProperties DEF StringTypes
    <3> QED
      BY <1>5, <3>1, <3>2 DEF PeerHangsUp
  <2> QED
    BY <1>1, <1>5, <2>1 DEF StringTypes, PeerHangsUp, callVars, sendVars
<1>6. CASE SendData
  <2>1. PICK string \in OwnStrings : asked' = Append(asked, string) /\ out' = out \o string
    BY <1>6 DEF SendData
  <2>2. asked' \in Seq(Seq(Byte)) /\ out' \in Seq(Byte)
    BY <1>1, <2>1, OwnStringsAreBytes, ConcatProperties, AppendProperties DEF StringTypes
  <2> QED
    BY <1>1, <1>6, <2>2 DEF StringTypes, SendData, callVars, peerVars
<1>7. CASE SendIsTorn
  <2>1. PICK string \in OwnStrings :
          \E n \in 0 .. Len(string) - 1 : out' = out \o SubSeq(string, 1, n)
    BY <1>7 DEF SendIsTorn
  <2>2. string \in Seq(Byte) /\ Len(string) \in Nat
    BY OwnStringsAreBytes, LenProperties
  <2>3. \A n \in 0 .. Len(string) - 1 : SubSeq(string, 1, n) \in Seq(Byte)
    BY <2>2, PartIsString
  <2>4. out' \in Seq(Byte)
    BY <1>1, <2>1, <2>3, ConcatProperties DEF StringTypes
  <2> QED
    BY <1>1, <1>7, <2>4 DEF StringTypes, SendIsTorn, callVars, peerVars
<1>8. CASE ReceiveData
  BY <1>1, <1>8, EmptySeq DEF StringTypes, ReceiveData, peerVars, sendVars
<1>9. CASE RecvSize
  <2>1. wire' \in Seq(Byte)
    BY <1>9, RecvTypes DEF RecvSize
  <2> QED
    BY <1>1, <1>9, <2>1 DEF StringTypes, RecvSize, Recv, sendVars
<1>10. CASE RecvData
  <2>1. PICK k : Recv(k) /\ buffer' = buffer \o Arrived(k)
    BY <1>10 DEF RecvData
  <2>2. wire' \in Seq(Byte) /\ buffer' \in Seq(Byte)
    BY <1>1, <2>1, RecvTypes, ConcatProperties DEF StringTypes
  <2> QED
    BY <1>1, <1>10, <2>1, <2>2 DEF StringTypes, RecvData, Recv, sendVars
<1>11. CASE ReturnData
  <2>1. received' \in Seq(Seq(Byte))
    BY <1>1, <1>11, AppendProperties DEF StringTypes, ReturnData
  <2> QED
    BY <1>1, <1>11, <2>1 DEF StringTypes, ReturnData, peerVars, sendVars
<1>12. CASE AllocationFails \/ ReceiveThrows
  BY <1>1, <1>12 DEF StringTypes, AllocationFails, ReceiveThrows, peerVars, sendVars
<1>13. CASE Begin \/ EstablishThrows \/ SendThrows \/ ReceiveOnClosed \/ EndOfRun \/ RunThrows
            \/ RunThrowsOnDisk \/ Terminate \/ TerminateClose \/ Destroy
  <2>1. UNCHANGED << callVars, peerVars, sendVars >>
    BY <1>13 DEF Begin, EstablishThrows, SendThrows, ReceiveOnClosed, EndOfRun, RunThrows,
      RunThrowsOnDisk, Terminate, TerminateClose, Destroy
  <2> QED
    BY <1>2, <2>1
<1> QED
  BY <1>2, <1>3, <1>4, <1>5, <1>6, <1>7, <1>8, <1>9, <1>10, <1>11, <1>12, <1>13
    DEF TcpNext, ReceiveStep, tcpVars

LEMMA CallNext == ConnectionInv /\ [TcpNext]_tcpVars => CallInv'
<1> SUFFICES ASSUME ConnectionInv, [TcpNext]_tcpVars PROVE CallInv'
  OBVIOUS
<1>1. CallInv /\ want \in Nat /\ buffer \in Seq(Byte)
  BY DEF ConnectionInv, StateTypes, StringTypes
<1>2. CASE UNCHANGED << userVars, sock, callVars >>
  BY <1>1, <1>2 DEF CallInv, userVars, callVars
<1>3. CASE call' = "none"
  BY <1>3 DEF CallInv
<1>4. CASE ReceiveData
  <2>1. run' = "using" /\ usable' /\ sock' # 0 /\ buffer' = << >>
    BY <1>4 DEF ReceiveData, CallStarts, userVars, sockVars
  <2>2. want' \in Nat /\ Len(<< >>) = 0
    BY <1>4, LenProperties, EmptySeq, TcpAssumption DEF ReceiveData
  <2> QED
    BY <2>1, <2>2 DEF CallInv
<1>5. CASE RecvSize
  <2>1. run' = "using" /\ usable' /\ sock' # 0 /\ buffer' = << >> /\ call' = "data"
    BY <1>1, <1>5 DEF RecvSize, CallInv, userVars, sockVars
  <2>2. want' \in Nat /\ Len(<< >>) = 0
    BY StateTypesNext, EmptySeq DEF StateTypes
  <2> QED
    BY <2>1, <2>2 DEF CallInv
<1>6. CASE RecvData
  <2>1. PICK k : Recv(k) /\ buffer' = buffer \o Arrived(k) /\ k <= want - Len(buffer)
    BY <1>6 DEF RecvData
  <2>2. k \in Nat /\ Arrived(k) \in Seq(Byte) /\ Len(Arrived(k)) = k /\ Len(buffer) \in Nat
    BY <1>1, <2>1, RecvTypes, LenProperties
  <2>3. Len(buffer') = Len(buffer) + k
    BY <1>1, <2>1, <2>2, ConcatProperties
  <2>4. run' = "using" /\ usable' /\ sock' # 0 /\ call' = "data" /\ want' = want
    BY <1>1, <1>6 DEF RecvData, CallInv, userVars, sockVars
  <2> QED
    BY <1>1, <2>1, <2>2, <2>3, <2>4 DEF CallInv
<1>7. CASE Begin \/ EstablishConnection \/ EstablishThrows \/ SendIsTorn \/ SendThrows
           \/ ReceiveOnClosed \/ AllocationFails \/ ReturnData \/ ReceiveThrows \/ EndOfRun
           \/ RunThrows \/ RunThrowsOnDisk \/ TerminateClose \/ Destroy
  <2>1. call' = "none"
    BY <1>1, <1>7 DEF Begin, EstablishConnection, EstablishThrows, SendIsTorn, SendThrows,
      ReceiveOnClosed, AllocationFails, ReturnData, ReceiveThrows, EndOfRun, RunThrows,
      RunThrowsOnDisk, TerminateClose, Destroy, CallStarts, MutexFree, callVars, CallInv, ConnectionInv, StateTypes
  <2> QED
    BY <1>3, <2>1
<1>8. CASE PeerWrites \/ PeerHangsUp \/ SendData \/ Terminate
  <2>1. UNCHANGED << userVars, sock, callVars >>
    BY <1>8 DEF PeerWrites, PeerHangsUp, SendData, Terminate, sockVars
  <2> QED
    BY <1>2, <2>1
<1> QED
  BY <1>2, <1>4, <1>5, <1>6, <1>7, <1>8 DEF TcpNext, ReceiveStep, tcpVars, sockVars

LEMMA ConnectionNext == ConnectionInv /\ [TcpNext]_tcpVars => ConnectionInv'
BY SocketNext, StateTypesNext, StringTypesNext, CallNext DEF ConnectionInv

\* Every variable of a connection keeps the type of the member it stands for;
\* recv is never given more room than the string has left.
THEOREM TcpTypeCorrect == TcpSpec => []TcpTypeOK
<1>1. ConnectionInv => TcpTypeOK
  <2> SUFFICES ASSUME ConnectionInv PROVE TcpTypeOK
    OBVIOUS
  <2> QED
    BY DEF ConnectionInv, SocketInv, StateTypes, StringTypes, CallInv, TcpTypeOK
<1> QED
  BY <1>1, ConnectionInit, ConnectionNext, PTL DEF TcpSpec

-------------------------------------------------------------------------------
(* What goes out *)

LEMMA OutgoingNext ==
  ConnectionInv /\ OutgoingIsFramed /\ [TcpNext]_tcpVars => OutgoingIsFramed'
<1> SUFFICES ASSUME ConnectionInv, OutgoingIsFramed, [TcpNext]_tcpVars PROVE OutgoingIsFramed'
  OBVIOUS
<1>1. asked \in Seq(Seq(Byte)) /\ out \in Seq(Byte) /\ FlattenSeq(asked) \in Seq(Byte)
  BY FlattenAppend, EmptySeq DEF ConnectionInv, StringTypes
<1>2. CASE UNCHANGED << asked, out >> /\ (usable' => usable)
  BY <1>2 DEF OutgoingIsFramed
<1>3. CASE EstablishConnection
  <2>1. asked' = << >> /\ out' = << >>
    BY <1>3 DEF EstablishConnection, NewConnection
  <2> QED
    BY <2>1, FlattenEmpty, PrefixOfConcat, EmptySeq DEF OutgoingIsFramed
<1>4. CASE SendData
  <2>1. PICK string \in OwnStrings : asked' = Append(asked, string) /\ out' = out \o string
    BY <1>4 DEF SendData
  <2>2. string \in Seq(Byte) /\ out = FlattenSeq(asked)
    BY <1>4, OwnStringsAreBytes DEF SendData, CallStarts, OutgoingIsFramed
  <2>3. out' = FlattenSeq(asked')
    BY <1>1, <2>1, <2>2, FlattenAppend
  <2>4. out' \in Seq(Byte)
    BY StringTypesNext DEF StringTypes
  <2> QED
    BY <2>3, <2>4, PrefixOfConcat DEF OutgoingIsFramed
<1>5. CASE SendIsTorn
  <2>1. PICK string \in OwnStrings :
          \E n \in 0 .. Len(string) - 1 : out' = out \o SubSeq(string, 1, n)
    BY <1>5 DEF SendIsTorn
  <2>2. string \in Seq(Byte) /\ Len(string) \in Nat
    BY OwnStringsAreBytes, LenProperties
  <2>3. \A n \in 0 .. Len(string) - 1 : SubSeq(string, 1, n) \in Seq(Byte)
    BY <2>2, PartIsString
  <2>4. out = FlattenSeq(asked) /\ asked' = asked /\ ~usable'
    BY <1>5 DEF SendIsTorn, CallStarts, OutgoingIsFramed
  <2> QED
    BY <1>1, <2>1, <2>3, <2>4, PrefixOfConcat DEF OutgoingIsFramed
<1>6. CASE \/ Begin \/ EstablishThrows \/ PeerWrites \/ PeerHangsUp \/ SendThrows \/ ReceiveData
           \/ ReceiveOnClosed \/ EndOfRun \/ RunThrows \/ RunThrowsOnDisk \/ Terminate
           \/ TerminateClose \/ Destroy
  <2>1. UNCHANGED << asked, out >> /\ (usable' => usable)
    BY <1>6 DEF Begin, EstablishThrows, PeerWrites, PeerHangsUp, SendThrows, ReceiveData,
      ReceiveOnClosed, EndOfRun, RunThrows, RunThrowsOnDisk, Terminate, TerminateClose, Destroy,
      userVars, sendVars
  <2> QED
    BY <1>2, <2>1
<1>7. CASE ReceiveStep
  <2>1. UNCHANGED << asked, out >> /\ (usable' => usable)
    BY <1>7 DEF ReceiveStep, RecvSize, AllocationFails, RecvData, ReturnData, ReceiveThrows,
      userVars, sendVars
  <2> QED
    BY <1>2, <2>1
<1> QED
  BY <1>2, <1>3, <1>4, <1>5, <1>6, <1>7 DEF TcpNext, tcpVars, userVars, sendVars

\* The bytes that go out on a connection are those of the strings SendData was
\* given, whole and in order; behind a torn one nothing is sent.
THEOREM OutgoingStaysFramed == TcpSpec => []OutgoingIsFramed
<1>1. TcpInit => OutgoingIsFramed
  BY FlattenEmpty, PrefixOfConcat, EmptySeq DEF TcpInit, OutgoingIsFramed
<1> QED
  BY <1>1, ConnectionInit, ConnectionNext, OutgoingNext, PTL DEF TcpSpec

-------------------------------------------------------------------------------
(* What comes in: ReceiveData puts together the strings the peer sent, for *)
(* any strings and any division of the bytes by recv, as long as one recv  *)
(* finds the four bytes of a length; and TcpConnect implements             *)
(* MessageChannel.                                                         *)

\* all: the strings the peer sent and, where it hung up within one, that one.
SentOrTorn(all) ==
  /\ all \in Seq(Seq(Byte))
  /\ all # << >> => all[1] = Handshake
  /\ \A k \in 2 .. Len(all) : Len(all[k]) \in UInt32
  /\ Len(all) = Len(sent) \/ (hungUp /\ Len(all) = Len(sent) + 1)
  /\ \A k \in 1 .. Len(sent) : all[k] = sent[k]

Pending(all) == Len(received) + 1 .. Len(all)

\* at[k]: the bytes of the k-th string come behind this place of wire, negative
\* by as much as the call under way has taken of it; its length comes before.
\* What is on wire is the beginning of that, and all of it while the peer is
\* there; never all of a torn string.
Carries(all, at) ==
  /\ at \in [1 .. Len(all) -> Int]
  /\ \A j, k \in Pending(all) : k = j + 1 => at[k] = at[j] + Len(all[j]) + 4
  /\ \A k \in Pending(all) : \A b \in 1 .. Len(all[k]) :
       at[k] + b \in 1 .. Len(wire) => wire[at[k] + b] = all[k][b]
  /\ \A k \in Pending(all) : \A h \in 1 .. 4 :
       k # 1 /\ at[k] - 4 + h \in 1 .. Len(wire)
         => wire[at[k] - 4 + h] = IntToBytes(Len(all[k]))[h]
  /\ wire # << >> => Len(received) < Len(all)
  /\ Len(received) < Len(all) =>
       /\ Len(wire) <= at[Len(all)] + Len(all[Len(all)])
       /\ Len(sent) < Len(all) => Len(wire) < at[Len(all)] + Len(all[Len(all)])
  /\ ~hungUp => \A k \in Pending(all) : at[k] + Len(all[k]) <= Len(wire)

\* How far into the first of them the call under way has come.
Taken == IF call = "data" THEN 0 - Len(buffer) ELSE IF received = << >> THEN 0 ELSE 4

\* The call under way fills its buffer with the first of them.
Receives(all, at) ==
  /\ Len(received) < Len(all) => at[Len(received) + 1] = Taken
  /\ call = "size" => received # << >>
  /\ call = "data" =>
       /\ received # << >> \/ buffer # << >> => Len(received) < Len(all)
       /\ want = IF received = << >> THEN Len(Handshake) ELSE Len(all[Len(received) + 1])
       /\ \A b \in 1 .. Len(buffer) : buffer[b] = all[Len(received) + 1][b]

Delivered ==
  /\ Len(received) <= Len(sent)
  /\ \A k \in 1 .. Len(received) : received[k] = sent[k]

\* Inductive, if recv finds the bytes of a length together.
StreamInv ==
  /\ Delivered
  /\ usable => \E all, at : SentOrTorn(all) /\ Carries(all, at) /\ Receives(all, at)

\* A peer that follows the protocol: the length of a string fits its prefix.
LengthsFit == \A string \in PeerStrings : Len(string) \in UInt32

\* The lengths that are added up below.
LEMMA Lengths ==
  ASSUME ConnectionInv, NEW all, SentOrTorn(all)
  PROVE  /\ Len(all) \in Nat /\ Len(sent) \in Nat /\ Len(received) \in Nat
         /\ Len(wire) \in Nat /\ Len(buffer) \in Nat
         /\ Len(all) = Len(sent) \/ Len(all) = Len(sent) + 1
         /\ \A k \in 1 .. Len(all) : all[k] \in Seq(Byte) /\ Len(all[k]) \in Nat
         /\ wire = << >> <=> Len(wire) = 0
         /\ received = << >> <=> Len(received) = 0
         /\ buffer = << >> <=> Len(buffer) = 0
<1>1. /\ all \in Seq(Seq(Byte)) /\ sent \in Seq(Seq(Byte)) /\ received \in Seq(Seq(Byte))
      /\ wire \in Seq(Byte) /\ buffer \in Seq(Byte)
  BY DEF ConnectionInv, StringTypes, SentOrTorn
<1>2. /\ Len(all) \in Nat /\ Len(sent) \in Nat /\ Len(received) \in Nat
      /\ Len(wire) \in Nat /\ Len(buffer) \in Nat
  BY <1>1, LenProperties
<1>3. \A k \in 1 .. Len(all) : all[k] \in Seq(Byte)
  BY <1>1, ElementOfSeq
<1>4. \A k \in 1 .. Len(all) : Len(all[k]) \in Nat
  BY <1>3, LenProperties
<1>5. /\ wire = << >> <=> Len(wire) = 0
      /\ received = << >> <=> Len(received) = 0
      /\ buffer = << >> <=> Len(buffer) = 0
  BY <1>1, EmptySeq
<1> QED
  BY <1>2, <1>3, <1>4, <1>5 DEF SentOrTorn

\* Two strings one behind the other.
LEMMA TwoStrings ==
  \A s, t \in Seq(Byte) :
    /\ Len(s \o t) = Len(s) + Len(t)
    /\ \A i \in 1 .. Len(s) : (s \o t)[i] = s[i]
    /\ \A i \in 1 .. Len(t) : (s \o t)[Len(s) + i] = t[i]
<1> SUFFICES ASSUME NEW s \in Seq(Byte), NEW t \in Seq(Byte)
             PROVE  /\ Len(s \o t) = Len(s) + Len(t)
                    /\ \A i \in 1 .. Len(s) : (s \o t)[i] = s[i]
                    /\ \A i \in 1 .. Len(t) : (s \o t)[Len(s) + i] = t[i]
  OBVIOUS
<1>1. PICK u : u = s \o t
  OBVIOUS
<1>2. Len(s) \in Nat /\ Len(t) \in Nat
  BY LenProperties
<1>3. /\ Len(u) = Len(s) + Len(t)
      /\ \A i \in 1 .. Len(s) + Len(t) : u[i] = IF i <= Len(s) THEN s[i] ELSE t[i - Len(s)]
  BY <1>1, ConcatProperties
<1>4. \A i \in 1 .. Len(s) : u[i] = s[i]
  BY <1>2, <1>3
<1>5. ASSUME NEW i \in 1 .. Len(t) PROVE u[Len(s) + i] = t[i]
  <2>1. /\ Len(s) + i \in 1 .. Len(s) + Len(t) /\ ~(Len(s) + i <= Len(s))
        /\ (Len(s) + i) - Len(s) = i
    BY <1>2
  <2> QED
    BY <1>3, <2>1
<1> QED
  BY <1>1, <1>3, <1>4, <1>5

\* What the peer writes for a string: its bytes, behind the length unless it is
\* the first.
LEMMA FrameBytes ==
  ASSUME ConnectionInv, NEW string \in NextStrings
  PROVE  LET lead == IF sent = << >> THEN 0 ELSE 4 IN
           /\ Frame(string) \in Seq(Byte) /\ Len(string) \in Nat
           /\ Len(Frame(string)) = lead + Len(string)
           /\ \A b \in 1 .. Len(string) : Frame(string)[lead + b] = string[b]
           /\ sent # << >> => \A h \in 1 .. 4 : Frame(string)[h] = IntToBytes(Len(string))[h]
<1>1. string \in Seq(Byte) /\ Frame(string) \in Seq(Byte) /\ Len(string) \in Nat
  BY NextStringsAreBytes, LenProperties
<1>2. CASE sent = << >>
  BY <1>1, <1>2 DEF Frame
<1>3. CASE sent # << >>
  <2> DEFINE length == IntToBytes(Len(string))
  <2>1. Frame(string) = length \o string
    BY <1>3 DEF Frame
  <2>2. length \in Seq(Byte) /\ Len(length) = 4
    BY <1>1, FourBytes
  <2> HIDE DEF length
  <2>3. /\ Len(length \o string) = Len(length) + Len(string)
        /\ \A h \in 1 .. Len(length) : (length \o string)[h] = length[h]
        /\ \A b \in 1 .. Len(string) : (length \o string)[Len(length) + b] = string[b]
    BY <1>1, <2>2, TwoStrings, Zenon
  <2> QED
    BY <1>1, <1>3, <2>1, <2>2, <2>3 DEF length
<1> QED
  BY <1>2, <1>3

\* Where the strings come on wire moves by what recv takes.
LEMMA RecvCarries ==
  ASSUME ConnectionInv, NEW all, NEW at, SentOrTorn(all), Carries(all, at),
         NEW k, Recv(k), received' = received
  PROVE  /\ Len(received) < Len(all)
         /\ SentOrTorn(all)'
         /\ Carries(all, [i \in 1 .. Len(all) |-> at[i] - k])'
<1> DEFINE bt == [i \in 1 .. Len(all) |-> at[i] - k]
           n == Len(all)
           r == Len(received)
           w == Len(wire)
<1>1. /\ n \in Nat /\ r \in Nat /\ w \in Nat /\ Len(sent) \in Nat
      /\ \A i \in 1 .. n : Len(all[i]) \in Nat
      /\ wire = << >> <=> w = 0
  BY Lengths
<1>2. k \in Nat /\ k >= 1 /\ k <= w /\ wire' \in Seq(Byte) /\ Len(wire') = w - k
  BY RecvTypes
<1>3. sent' = sent /\ hungUp' = hungUp
  BY DEF Recv
<1>a. k \in Int /\ k >= 1 /\ w \in Int /\ Len(wire') = w - k
  BY <1>1, <1>2
<1>4. \A p \in 1 .. w - k : wire'[p] = wire[p + k]
  BY <1>1, <1>2 DEF Recv
<1>5. r < n
  BY <1>1, <1>2 DEF Carries
<1>6. SentOrTorn(all)'
  BY <1>3 DEF SentOrTorn
<1>7. \A i \in 1 .. n : at[i] \in Int /\ bt[i] = at[i] - k
  BY DEF Carries
<1>8. bt \in [1 .. n -> Int]
  BY <1>2, <1>7
<1>9. wire' = << >> <=> w - k = 0
  BY <1>2, EmptySeq
<1> HIDE DEF bt
<1>10. \A i, j \in r + 1 .. n : j = i + 1 => bt[j] = bt[i] + Len(all[i]) + 4
  <2> SUFFICES ASSUME NEW i \in r + 1 .. n, NEW j \in r + 1 .. n, j = i + 1
               PROVE  bt[j] = bt[i] + Len(all[i]) + 4
    OBVIOUS
  <2>1. i \in 1 .. n /\ j \in 1 .. n /\ at[j] = at[i] + Len(all[i]) + 4
    BY <1>1 DEF Carries, Pending
  <2>2. /\ at[i] \in Int /\ bt[i] = at[i] - k /\ at[j] \in Int /\ bt[j] = at[j] - k
        /\ Len(all[i]) \in Int
    BY <1>1, <1>7, <2>1
  <2> QED
    BY <1>a, <2>1, <2>2
<1>11. \A i \in r + 1 .. n : \A b \in 1 .. Len(all[i]) :
         bt[i] + b \in 1 .. Len(wire') => wire'[bt[i] + b] = all[i][b]
  <2> SUFFICES ASSUME NEW i \in r + 1 .. n, NEW b \in 1 .. Len(all[i]),
                      bt[i] + b \in 1 .. Len(wire')
               PROVE  wire'[bt[i] + b] = all[i][b]
    OBVIOUS
  <2>1. i \in 1 .. n /\ at[i] \in Int /\ bt[i] = at[i] - k /\ b \in Int
    BY <1>1, <1>7
  <2>2. at[i] + b \in 1 .. w /\ bt[i] + b \in 1 .. w - k /\ bt[i] + b + k = at[i] + b
    <3>1. \A x, y \in Int : y = x - k /\ y + b \in 1 .. w - k
                            => x + b \in 1 .. w /\ y + b + k = x + b
      BY <1>a, <2>1
    <3>2. bt[i] \in Int /\ bt[i] + b \in 1 .. w - k
      BY <1>a, <2>1
    <3> QED
      BY <2>1, <3>1, <3>2
  <2>3. wire[at[i] + b] = all[i][b]
    BY <2>2 DEF Carries, Pending
  <2> QED
    BY <1>4, <2>2, <2>3
<1>12. \A i \in r + 1 .. n : \A h \in 1 .. 4 :
         i # 1 /\ bt[i] - 4 + h \in 1 .. Len(wire')
           => wire'[bt[i] - 4 + h] = IntToBytes(Len(all[i]))[h]
  <2> SUFFICES ASSUME NEW i \in r + 1 .. n, NEW h \in 1 .. 4,
                      i # 1, bt[i] - 4 + h \in 1 .. Len(wire')
               PROVE  wire'[bt[i] - 4 + h] = IntToBytes(Len(all[i]))[h]
    OBVIOUS
  <2>1. i \in 1 .. n /\ at[i] \in Int /\ bt[i] = at[i] - k
    BY <1>1, <1>7
  <2>2. /\ at[i] - 4 + h \in 1 .. w /\ bt[i] - 4 + h \in 1 .. w - k
        /\ bt[i] - 4 + h + k = at[i] - 4 + h
    <3>1. \A x, y \in Int : y = x - k /\ y - 4 + h \in 1 .. w - k
                            => x - 4 + h \in 1 .. w /\ y - 4 + h + k = x - 4 + h
      BY <1>a
    <3>2. bt[i] \in Int /\ bt[i] - 4 + h \in 1 .. w - k
      BY <1>a, <2>1
    <3> QED
      BY <2>1, <3>1, <3>2
  <2>3. wire[at[i] - 4 + h] = IntToBytes(Len(all[i]))[h]
    BY <2>2 DEF Carries, Pending
  <2> QED
    BY <1>4, <2>2, <2>3
<1>13. /\ Len(wire') <= bt[n] + Len(all[n])
       /\ Len(sent) < n => Len(wire') < bt[n] + Len(all[n])
  <2>1. w <= at[n] + Len(all[n]) /\ (Len(sent) < n => w < at[n] + Len(all[n]))
    BY <1>5 DEF Carries
  <2>2. n \in 1 .. n
    BY <1>1, <1>5
  <2>3. at[n] \in Int /\ bt[n] = at[n] - k /\ Len(all[n]) \in Int
    BY <1>1, <1>7, <2>2
  <2> QED
    BY <1>a, <2>1, <2>3
<1>14. ~hungUp => \A i \in r + 1 .. n : bt[i] + Len(all[i]) <= Len(wire')
  <2> SUFFICES ASSUME ~hungUp, NEW i \in r + 1 .. n PROVE bt[i] + Len(all[i]) <= Len(wire')
    OBVIOUS
  <2>1. i \in 1 .. n /\ at[i] + Len(all[i]) <= w
    BY <1>1 DEF Carries, Pending
  <2> QED
    BY <1>1, <1>2, <1>7, <2>1
<1>15. Carries(all, bt)'
  BY <1>3, <1>5, <1>8, <1>10, <1>11, <1>12, <1>13, <1>14 DEF Carries, Pending
<1> QED
  BY <1>5, <1>6, <1>15 DEF bt

\* One recv finds the length of the next string.
LEMMA SizeIsRead ==
  ASSUME ConnectionInv, PrefixInOnePiece, RecvSize,
         NEW all, NEW at, SentOrTorn(all), Carries(all, at), Receives(all, at)
  PROVE  \E bt : SentOrTorn(all)' /\ Carries(all, bt)' /\ Receives(all, bt)'
<1> DEFINE r == Len(received)
           length == Len(all[r + 1])
           bt == [i \in 1 .. Len(all) |-> at[i] - 4]
<1>1. /\ call = "size" /\ call' = "data" /\ received' = received /\ buffer' = buffer
      /\ Recv(4) /\ \E junk \in [1 .. 4 - 4 -> JunkBytes] :
                      want' = BytesToUnsigned(Arrived(4) \o junk)
  BY DEF RecvSize
<1>2. r < Len(all) /\ SentOrTorn(all)' /\ Carries(all, bt)'
  BY <1>1, RecvCarries
<1>3. r \in Nat /\ Len(all) \in Nat /\ received # << >> /\ r # 0 /\ buffer = << >>
  BY <1>1, Lengths DEF Receives, ConnectionInv, CallInv
<1>4. at[r + 1] = 4
  BY <1>1, <1>2, <1>3 DEF Receives, Taken
<1>5. length \in UInt32 /\ length \in Int
  BY <1>2, <1>3 DEF SentOrTorn, UInt32
<1>6. Arrived(4) \in Seq(Byte) /\ Len(Arrived(4)) = 4 /\ Len(wire) \in Nat /\ 4 <= Len(wire)
  BY <1>1, RecvTypes, Lengths
<1>7. \A h \in 1 .. 4 : Arrived(4)[h] = IntToBytes(length)[h]
  <2> SUFFICES ASSUME NEW h \in 1 .. 4 PROVE Arrived(4)[h] = IntToBytes(length)[h]
    OBVIOUS
  <2>1. at[r + 1] - 4 + h = h /\ h \in 1 .. Len(wire) /\ r + 1 # 1 /\ r + 1 \in r + 1 .. Len(all)
    BY <1>2, <1>3, <1>4, <1>6
  <2>2. wire[h] = IntToBytes(length)[h]
    BY <2>1 DEF Carries, Pending
  <2>3. Arrived(4)[h] = wire[h]
    BY <1>6 DEF Arrived
  <2> QED
    BY <2>2, <2>3
<1>8. Arrived(4) = IntToBytes(length)
  <2>1. IntToBytes(length) \in Seq(Byte) /\ Len(IntToBytes(length)) = 4
    BY <1>5, FourBytes
  <2> QED
    BY <1>6, <1>7, <2>1, SeqEqual
<1>9. want' = length
  <2>1. PICK junk \in [1 .. 4 - 4 -> JunkBytes] : want' = BytesToUnsigned(Arrived(4) \o junk)
    BY <1>1
  <2>2. junk = << >>
    OBVIOUS
  <2>3. Arrived(4) \o << >> = Arrived(4)
    BY <1>6, ConcatEmptySeq
  <2> QED
    BY <1>5, <1>8, <2>1, <2>2, <2>3, LengthsSurvive
<1>10. bt[r + 1] = 0
  BY <1>2, <1>3, <1>4
<1> HIDE DEF bt
<1>11. Taken' = 0
  <2>1. call' = "data" /\ Len(buffer') = 0
    BY <1>1, <1>3, EmptySeq
  <2> QED
    BY <2>1 DEF Taken
<1>12. \A b \in 1 .. Len(buffer') : buffer'[b] = all[Len(received') + 1][b]
  BY <1>1, <1>3, EmptySeq
<1>13. Receives(all, bt)'
  BY <1>1, <1>2, <1>3, <1>9, <1>10, <1>11, <1>12 DEF Receives
<1> QED
  BY <1>2, <1>13

\* Another recv for the bytes of the string.
LEMMA DataIsRead ==
  ASSUME ConnectionInv, RecvData,
         NEW all, NEW at, SentOrTorn(all), Carries(all, at), Receives(all, at)
  PROVE  \E bt : SentOrTorn(all)' /\ Carries(all, bt)' /\ Receives(all, bt)'
<1>1. PICK k : Recv(k) /\ buffer' = buffer \o Arrived(k) /\ k <= want - Len(buffer)
  BY DEF RecvData
<1>2. call = "data" /\ call' = "data" /\ received' = received /\ want' = want
  BY DEF RecvData
<1> DEFINE r == Len(received)
           next == all[r + 1]
           bt == [i \in 1 .. Len(all) |-> at[i] - k]
<1>3. r < Len(all) /\ SentOrTorn(all)' /\ Carries(all, bt)'
  BY <1>1, <1>2, RecvCarries
<1>4. /\ r \in Nat /\ Len(all) \in Nat /\ Len(buffer) \in Nat /\ want \in Nat
      /\ received = << >> <=> r = 0
      /\ buffer \in Seq(Byte) /\ Len(wire) \in Nat
  BY Lengths DEF ConnectionInv, StateTypes, StringTypes
<1>5. at[r + 1] = 0 - Len(buffer)
  BY <1>2, <1>3 DEF Receives, Taken
<1>6. k \in Nat /\ k >= 1 /\ k <= Len(wire) /\ Arrived(k) \in Seq(Byte) /\ Len(Arrived(k)) = k
  BY <1>1, RecvTypes
<1>7. /\ Len(buffer') = Len(buffer) + k
      /\ \A b \in 1 .. Len(buffer) : buffer'[b] = buffer[b]
      /\ \A i \in 1 .. k : buffer'[Len(buffer) + i] = Arrived(k)[i]
  <2>1. /\ Len(buffer') = Len(buffer) + Len(Arrived(k))
        /\ \A b \in 1 .. Len(buffer) : buffer'[b] = buffer[b]
        /\ \A i \in 1 .. Len(Arrived(k)) : buffer'[Len(buffer) + i] = Arrived(k)[i]
    BY <1>1, <1>4, <1>6, TwoStrings, Zenon
  <2> QED
    BY <1>6, <2>1
<1>8. want = Len(next)
  <2>1. want = IF received = << >> THEN Len(Handshake) ELSE Len(next)
    BY <1>2 DEF Receives
  <2>2. all # << >> => all[1] = Handshake
    BY DEF SentOrTorn
  <2>3. CASE received = << >>
    <3>1. r + 1 = 1 /\ all # << >>
      BY <1>3, <1>4, <2>3, EmptySeq
    <3> QED
      BY <2>1, <2>2, <2>3, <3>1
  <2> QED
    BY <2>1, <2>3
<1>9. \A b \in 1 .. Len(buffer') : buffer'[b] = next[b]
  <2> SUFFICES ASSUME NEW b \in 1 .. Len(buffer) + k PROVE buffer'[b] = next[b]
    BY <1>7
  <2>1. CASE b <= Len(buffer)
    <3>1. b \in 1 .. Len(buffer)
      BY <1>4, <1>6, <2>1
    <3> QED
      BY <1>2, <1>7, <2>1, <3>1 DEF Receives
  <2>2. CASE ~(b <= Len(buffer))
    <3>1. /\ b - Len(buffer) \in 1 .. k /\ b - Len(buffer) \in 1 .. Len(wire)
          /\ at[r + 1] + b = b - Len(buffer)
          /\ Len(buffer) + (b - Len(buffer)) = b
          /\ b \in 1 .. Len(next) /\ r + 1 \in r + 1 .. Len(all)
      BY <1>1, <1>3, <1>4, <1>5, <1>6, <1>8, <2>2
    <3>2. wire[b - Len(buffer)] = next[b]
      BY <3>1 DEF Carries, Pending
    <3>3. Arrived(k)[b - Len(buffer)] = wire[b - Len(buffer)]
      BY <1>4, <1>6, <3>1 DEF Arrived
    <3>4. buffer'[Len(buffer) + (b - Len(buffer))] = Arrived(k)[b - Len(buffer)]
      BY <1>7, <3>1
    <3> QED
      BY <3>1, <3>2, <3>3, <3>4
  <2> QED
    BY <2>1, <2>2
<1>10. bt[r + 1] = 0 - Len(buffer')
  <2>1. r + 1 \in 1 .. Len(all)
    BY <1>3, <1>4
  <2>2. bt[r + 1] = at[r + 1] - k
    BY <2>1
  <2> QED
    BY <1>4, <1>5, <1>6, <1>7, <2>2
<1> HIDE DEF bt
<1>11. want' = IF received' = << >> THEN Len(Handshake) ELSE Len(all[Len(received') + 1])
  BY <1>2 DEF Receives
<1>12. Receives(all, bt)'
  BY <1>2, <1>3, <1>9, <1>10, <1>11 DEF Receives, Taken
<1> QED
  BY <1>3, <1>12

\* The peer writes a string, or hangs up within one.
PeerPuts(string, n) ==
  /\ n \in 1 .. Len(Frame(string))
  /\ wire' = wire \o SubSeq(Frame(string), 1, n)
  /\ \/ n = Len(Frame(string)) /\ sent' = Append(sent, string) /\ hungUp' = hungUp
     \/ n < Len(Frame(string)) /\ sent' = sent /\ hungUp'
  /\ UNCHANGED callVars

LEMMA WriteKeepsStream ==
  ASSUME LengthsFit, ConnectionInv, Delivered, ~hungUp,
         NEW all, NEW at, SentOrTorn(all), Carries(all, at), Receives(all, at),
         NEW string \in NextStrings, NEW n, PeerPuts(string, n)
  PROVE  \E more, bt : SentOrTorn(more)' /\ Carries(more, bt)' /\ Receives(more, bt)'
<1> DEFINE r == Len(received)
           m == Len(all)
           w == Len(wire)
           lead == IF sent = << >> THEN 0 ELSE 4
           more == Append(all, string)
           places == [i \in 1 .. m + 1 |-> IF i <= m THEN at[i] ELSE w + lead]
<1>1. /\ m \in Nat /\ r \in Nat /\ w \in Nat /\ m = Len(sent) /\ Len(buffer) \in Nat
      /\ \A k \in 1 .. m : Len(all[k]) \in Nat
      /\ wire = << >> <=> w = 0
      /\ received = << >> <=> r = 0
      /\ buffer = << >> <=> Len(buffer) = 0
      /\ wire \in Seq(Byte) /\ all \in Seq(Seq(Byte)) /\ sent \in Seq(Seq(Byte))
  BY Lengths DEF SentOrTorn, ConnectionInv, StringTypes
<1>a. m \in Nat /\ r \in Nat /\ w \in Nat
  BY <1>1
<1>b. \A k \in 1 .. m : Len(all[k]) \in Nat
  BY <1>1
<1>2. /\ Frame(string) \in Seq(Byte) /\ Len(string) \in Nat /\ string \in Seq(Byte)
      /\ Len(Frame(string)) = lead + Len(string)
      /\ \A b \in 1 .. Len(string) : Frame(string)[lead + b] = string[b]
      /\ sent # << >> => \A h \in 1 .. 4 : Frame(string)[h] = IntToBytes(Len(string))[h]
  BY FrameBytes, NextStringsAreBytes
<1>3. lead \in Nat /\ n \in Nat /\ n >= 1 /\ n <= lead + Len(string) /\ Len(string) \in Nat
  <2>1. n \in 1 .. Len(Frame(string)) /\ Len(Frame(string)) = lead + Len(string)
    BY <1>2 DEF PeerPuts
  <2> QED
    BY <1>2, <2>1
<1>4. sent = << >> <=> m = 0
  BY <1>1, EmptySeq
<1>5. /\ Len(wire') = w + n
      /\ \A p \in 1 .. w : wire'[p] = wire[p]
      /\ \A q \in 1 .. n : wire'[w + q] = Frame(string)[q]
  <2> DEFINE part == SubSeq(Frame(string), 1, n)
  <2>1. part \in Seq(Byte) /\ Len(part) = n
    BY <1>2, <1>3, PartIsString
  <2>2. \A q \in 1 .. n : part[q] = Frame(string)[q]
    BY <1>2, <1>3
  <2>3. wire' = wire \o part
    BY DEF PeerPuts
  <2> HIDE DEF part
  <2>4. /\ Len(wire \o part) = Len(wire) + Len(part)
        /\ \A p \in 1 .. Len(wire) : (wire \o part)[p] = wire[p]
        /\ \A q \in 1 .. Len(part) : (wire \o part)[Len(wire) + q] = part[q]
    BY <1>1, <2>1, TwoStrings, Zenon
  <2> QED
    BY <2>1, <2>2, <2>3, <2>4
<1>6. /\ more \in Seq(Seq(Byte)) /\ Len(more) = m + 1 /\ more # << >>
      /\ more[m + 1] = string /\ \A i \in 1 .. m : more[i] = all[i]
  <2>1. all \in Seq(Seq(Byte)) /\ string \in Seq(Byte)
    BY <1>1, <1>2
  <2> QED
    BY <2>1, AppendProperties
<1>d. PICK bt : bt = places
  OBVIOUS
<1>7. /\ bt \in [1 .. m + 1 -> Int] /\ bt[m + 1] = w + lead
      /\ \A i \in 1 .. m : bt[i] = at[i] /\ at[i] \in Int
  <2>1. at \in [1 .. m -> Int]
    BY DEF Carries
  <2>2. \A i \in 1 .. m : at[i] \in Int
    BY <2>1
  <2>3. w + lead \in Int /\ m + 1 \in 1 .. m + 1 /\ ~(m + 1 <= m)
    BY <1>a, <1>3
  <2>4. \A i \in 1 .. m : i \in 1 .. m + 1 /\ i <= m
    BY <1>a
  <2>5. \A i \in 1 .. m + 1 : i <= m => i \in 1 .. m
    BY <1>a
  <2>6. places \in [1 .. m + 1 -> Int]
    BY <2>2, <2>3, <2>5
  <2> QED
    BY <1>d, <2>2, <2>3, <2>4, <2>6
<1>8. received' = received /\ buffer' = buffer /\ call' = call /\ want' = want
  BY DEF callVars, PeerPuts
<1>c. \/ n = lead + Len(string) /\ sent' = Append(sent, string) /\ hungUp' = hungUp
      \/ n < lead + Len(string) /\ sent' = sent /\ hungUp'
  BY <1>2 DEF PeerPuts
<1> HIDE DEF more, places, lead
<1>9. r < m + 1 /\ r <= m
  BY <1>1 DEF Delivered
<1>10. r < m => w = at[m] + Len(all[m])
  <2> SUFFICES ASSUME r < m PROVE w = at[m] + Len(all[m])
    OBVIOUS
  <2>1. m \in r + 1 .. m /\ m \in 1 .. m
    BY <1>1
  <2>2. w <= at[m] + Len(all[m]) /\ at[m] + Len(all[m]) <= w
    BY <2>1 DEF Carries, Pending
  <2>3. at[m] \in Int /\ Len(all[m]) \in Nat
    BY <1>7, <1>b, <2>1
  <2> QED
    BY <1>a, <2>2, <2>3
<1>11. \A k \in r + 1 .. m : k \in 1 .. m /\ at[k] \in Int /\ at[k] + Len(all[k]) <= w
  BY <1>1, <1>7 DEF Carries, Pending
<1>12. SentOrTorn(more)'
  <2>1. more[1] = Handshake
    <3>1. CASE m = 0
      BY <1>4, <1>6, <3>1 DEF NextStrings
    <3>2. CASE m # 0
      <4>1. 1 \in 1 .. m /\ all # << >>
        BY <1>1, <3>2, EmptySeq
      <4> QED
        BY <1>6, <4>1 DEF SentOrTorn
    <3> QED
      BY <3>1, <3>2
  <2>2. \A k \in 2 .. m + 1 : Len(more[k]) \in UInt32
    <3> SUFFICES ASSUME NEW k \in 2 .. m + 1 PROVE Len(more[k]) \in UInt32
      OBVIOUS
    <3>1. CASE k = m + 1
      <4>1. string \in PeerStrings
        BY <1>1, <1>4, <3>1 DEF NextStrings
      <4> QED
        BY <1>6, <3>1, <4>1 DEF LengthsFit
    <3>2. CASE k # m + 1
      <4>1. k \in 2 .. m /\ k \in 1 .. m
        BY <1>a, <3>2
      <4> QED
        BY <1>6, <4>1 DEF SentOrTorn
    <3> QED
      BY <3>1, <3>2
  <2>3. \A i \in 1 .. m : more[i] = sent[i]
    BY <1>1, <1>6 DEF SentOrTorn
  <2>4. CASE sent' = Append(sent, string)
    <3>1. Len(sent') = m + 1 /\ sent'[m + 1] = string /\ \A i \in 1 .. m : sent'[i] = sent[i]
      BY <1>1, <1>2, <2>4, AppendProperties
    <3>2. \A k \in 1 .. m + 1 : k = m + 1 \/ k \in 1 .. m
      BY <1>a
    <3>3. \A k \in 1 .. Len(sent') : more[k] = sent'[k]
      BY <1>6, <2>3, <3>1, <3>2
    <3> QED
      BY <1>6, <2>1, <2>2, <3>1, <3>3 DEF SentOrTorn
  <2>5. CASE sent' = sent /\ hungUp'
    <3>1. \A k \in 1 .. Len(sent') : more[k] = sent'[k]
      BY <1>1, <2>3, <2>5
    <3> QED
      BY <1>1, <1>6, <2>1, <2>2, <2>5, <3>1 DEF SentOrTorn
  <2> QED
    BY <1>c, <2>4, <2>5
<1>13. \A j, k \in r + 1 .. m + 1 : k = j + 1 => bt[k] = bt[j] + Len(more[j]) + 4
  <2> SUFFICES ASSUME NEW j \in r + 1 .. m + 1, NEW k \in r + 1 .. m + 1, k = j + 1
               PROVE  bt[k] = bt[j] + Len(more[j]) + 4
    OBVIOUS
  <2>1. j \in r + 1 .. m /\ j \in 1 .. m
    BY <1>a
  <2>2. bt[j] = at[j] /\ Len(more[j]) = Len(all[j]) /\ at[j] \in Int /\ Len(all[j]) \in Nat
    BY <1>1, <1>6, <1>7, <2>1
  <2>3. CASE k = m + 1
    <3>1. j = m /\ r < m /\ m # 0
      BY <1>a, <2>1, <2>3
    <3>2. bt[k] = w + 4
      BY <1>4, <1>7, <2>3, <3>1 DEF lead
    <3> QED
      BY <1>a, <1>10, <2>2, <3>1, <3>2
  <2>4. CASE k # m + 1
    <3>1. k \in r + 1 .. m /\ k \in 1 .. m
      BY <1>a, <2>4
    <3>2. at[k] = at[j] + Len(all[j]) + 4
      BY <2>1, <3>1 DEF Carries, Pending
    <3> QED
      BY <1>7, <2>2, <3>1, <3>2
  <2> QED
    BY <2>3, <2>4
<1>14. \A k \in r + 1 .. m + 1 : \A b \in 1 .. Len(more[k]) :
         bt[k] + b \in 1 .. Len(wire') => wire'[bt[k] + b] = more[k][b]
  <2> SUFFICES ASSUME NEW k \in r + 1 .. m + 1, NEW b \in 1 .. Len(more[k]),
                      bt[k] + b \in 1 .. Len(wire')
               PROVE  wire'[bt[k] + b] = more[k][b]
    OBVIOUS
  <2>1. CASE k = m + 1
    <3>1. bt[k] = w + lead /\ more[k] = string /\ b \in 1 .. Len(string)
      BY <1>6, <1>7, <2>1
    <3>2. lead + b \in 1 .. n /\ bt[k] + b = w + (lead + b)
      BY <1>a, <1>3, <1>5, <3>1
    <3>3. wire'[w + (lead + b)] = Frame(string)[lead + b]
      BY <1>5, <3>2
    <3> QED
      BY <1>2, <3>1, <3>2, <3>3
  <2>2. CASE k # m + 1
    <3>1. k \in r + 1 .. m /\ k \in 1 .. m
      BY <1>a, <2>2
    <3>2. bt[k] = at[k] /\ more[k] = all[k] /\ b \in 1 .. Len(all[k]) /\ at[k] \in Int
      BY <1>6, <1>7, <3>1
    <3>3. at[k] + b \in 1 .. w
      <4>1. at[k] + Len(all[k]) <= w /\ Len(all[k]) \in Nat /\ at[k] + b >= 1
        BY <1>11, <1>b, <3>1, <3>2
      <4> QED
        BY <1>a, <3>2, <4>1
    <3>4. wire[at[k] + b] = all[k][b]
      BY <3>1, <3>2, <3>3 DEF Carries, Pending
    <3> QED
      BY <1>5, <3>2, <3>3, <3>4
  <2> QED
    BY <2>1, <2>2
<1>15. \A k \in r + 1 .. m + 1 : \A h \in 1 .. 4 :
         k # 1 /\ bt[k] - 4 + h \in 1 .. Len(wire')
           => wire'[bt[k] - 4 + h] = IntToBytes(Len(more[k]))[h]
  <2> SUFFICES ASSUME NEW k \in r + 1 .. m + 1, NEW h \in 1 .. 4,
                      k # 1, bt[k] - 4 + h \in 1 .. Len(wire')
               PROVE  wire'[bt[k] - 4 + h] = IntToBytes(Len(more[k]))[h]
    OBVIOUS
  <2>1. CASE k = m + 1
    <3>1. sent # << >> /\ lead = 4
      BY <1>1, <1>4, <2>1 DEF lead
    <3>2. bt[k] = w + 4 /\ more[k] = string
      BY <1>6, <1>7, <2>1, <3>1
    <3>3. h \in 1 .. n /\ bt[k] - 4 + h = w + h
      BY <1>a, <1>3, <1>5, <3>2
    <3>4. wire'[w + h] = Frame(string)[h]
      BY <1>5, <3>3
    <3> QED
      BY <1>2, <3>1, <3>2, <3>3, <3>4
  <2>2. CASE k # m + 1
    <3>1. k \in r + 1 .. m /\ k \in 1 .. m
      BY <1>a, <2>2
    <3>2. bt[k] = at[k] /\ more[k] = all[k] /\ at[k] \in Int /\ Len(all[k]) \in Nat
      BY <1>1, <1>6, <1>7, <3>1
    <3> DEFINE q == at[k] - 4 + h
    <3>3. q \in 1 .. w
      <4>1. at[k] + Len(all[k]) <= w
        BY <1>11, <3>1
      <4>2. h \in Int /\ h <= 4 /\ at[k] - 4 + h >= 1
        BY <3>2
      <4>3. \A x, y \in Int : y \in Nat /\ x + y <= w /\ x - 4 + h >= 1
                            => x - 4 + h \in 1 .. w
        BY <1>a, <4>2
      <4> QED
        BY <3>2, <4>1, <4>2, <4>3
    <3>4. wire[q] = IntToBytes(Len(all[k]))[h]
      BY <3>1, <3>3 DEF Carries, Pending
    <3> QED
      BY <1>5, <3>2, <3>3, <3>4
  <2> QED
    BY <2>1, <2>2
<1>16. /\ Len(wire') <= bt[m + 1] + Len(more[m + 1])
       /\ Len(sent') < m + 1 => Len(wire') < bt[m + 1] + Len(more[m + 1])
  <2>1. bt[m + 1] + Len(more[m + 1]) = w + lead + Len(string)
    BY <1>a, <1>3, <1>6, <1>7
  <2>2. Len(sent') < m + 1 => n < lead + Len(string)
    <3>1. CASE sent' = Append(sent, string)
      <4>1. Len(sent') = m + 1
        BY <1>1, <1>2, <3>1, AppendProperties
      <4> QED
        BY <1>a, <4>1
    <3> QED
      BY <1>c, <3>1
  <2> QED
    BY <1>a, <1>3, <1>5, <2>1, <2>2
<1>17. ~hungUp' => \A k \in r + 1 .. m + 1 : bt[k] + Len(more[k]) <= Len(wire')
  <2> SUFFICES ASSUME ~hungUp', NEW k \in r + 1 .. m + 1 PROVE bt[k] + Len(more[k]) <= Len(wire')
    OBVIOUS
  <2>1. n = lead + Len(string)
    BY <1>c
  <2>2. CASE k = m + 1
    <3>1. bt[k] = w + lead /\ more[k] = string
      BY <1>6, <1>7, <2>2
    <3> QED
      BY <1>a, <1>3, <1>5, <2>1, <3>1
  <2>3. CASE k # m + 1
    <3>1. k \in r + 1 .. m /\ k \in 1 .. m
      BY <1>a, <2>3
    <3>2. bt[k] = at[k] /\ more[k] = all[k] /\ at[k] \in Int /\ Len(all[k]) \in Nat
      BY <1>1, <1>6, <1>7, <3>1
    <3>3. at[k] + Len(all[k]) <= w
      BY <1>11, <3>1
    <3> QED
      BY <1>a, <1>3, <1>5, <3>2, <3>3
  <2> QED
    BY <2>2, <2>3
<1>18. Carries(more, bt)'
  <2>1. Pending(more)' = r + 1 .. m + 1
    BY <1>6, <1>8 DEF Pending
  <2>2. bt \in [1 .. Len(more) -> Int]
    BY <1>6, <1>7
  <2>3. \A j, k \in Pending(more)' : k = j + 1 => bt[k] = bt[j] + Len(more[j]) + 4
    BY <1>13, <2>1
  <2>4. \A k \in Pending(more)' : \A b \in 1 .. Len(more[k]) :
          bt[k] + b \in 1 .. Len(wire') => wire'[bt[k] + b] = more[k][b]
    BY <1>14, <2>1
  <2>5. \A k \in Pending(more)' : \A h \in 1 .. 4 :
          k # 1 /\ bt[k] - 4 + h \in 1 .. Len(wire')
            => wire'[bt[k] - 4 + h] = IntToBytes(Len(more[k]))[h]
    BY <1>15, <2>1
  <2>6. Len(received') < Len(more)
    BY <1>6, <1>8, <1>9
  <2>7. /\ Len(wire') <= bt[Len(more)] + Len(more[Len(more)])
        /\ Len(sent') < Len(more) => Len(wire') < bt[Len(more)] + Len(more[Len(more)])
    BY <1>6, <1>16
  <2>8. ~hungUp' => \A k \in Pending(more)' : bt[k] + Len(more[k]) <= Len(wire')
    BY <1>17, <2>1
  <2> QED
    BY <2>2, <2>3, <2>4, <2>5, <2>6, <2>7, <2>8 DEF Carries
<1>19. Receives(more, bt)'
  <2>1. Taken' = Taken
    BY <1>8 DEF Taken
  <2>2. bt[r + 1] = Taken
    <3>1. CASE r < m
      <4>1. r + 1 \in 1 .. m
        BY <1>a, <3>1
      <4> QED
        BY <1>7, <3>1, <4>1 DEF Receives
    <3>2. CASE r = m
      <4>1. w = 0
        BY <1>1, <3>2 DEF Carries
      <4>2. bt[r + 1] = IF m = 0 THEN 0 ELSE 4
        BY <1>1, <1>3, <1>4, <1>7, <3>2, <4>1 DEF lead
      <4>3. CASE call = "data"
        <5>1. received = << >> /\ Len(buffer) = 0
          BY <1>1, <3>2, <4>3 DEF Receives
        <5> QED
          BY <1>1, <3>2, <4>2, <4>3, <5>1 DEF Taken
      <4>4. CASE call # "data"
        BY <1>1, <3>2, <4>2, <4>4 DEF Taken
      <4> QED
        BY <4>3, <4>4
    <3> QED
      BY <1>1, <1>9, <3>1, <3>2
  <2>3. ASSUME call = "data"
        PROVE  /\ want = IF received = << >> THEN Len(Handshake) ELSE Len(more[r + 1])
               /\ \A b \in 1 .. Len(buffer) : buffer[b] = more[r + 1][b]
    <3>1. CASE r < m
      <4>1. r + 1 \in 1 .. m
        BY <1>a, <3>1
      <4>2. more[r + 1] = all[r + 1]
        BY <1>6, <4>1
      <4> QED
        BY <2>3, <4>2 DEF Receives
    <3>2. CASE r = m
      <4>1. received = << >> /\ Len(buffer) = 0
        BY <1>1, <2>3, <3>2 DEF Receives
      <4> QED
        BY <2>3, <4>1 DEF Receives
    <3> QED
      BY <1>1, <1>9, <3>1, <3>2
  <2>4. call = "size" => received # << >>
    BY DEF Receives
  <2>5. /\ Len(received') = r /\ call' = call /\ received' = received /\ Len(more) = m + 1
        /\ want' = want /\ buffer' = buffer
    BY <1>6, <1>8
  <2>6. bt[Len(received') + 1] = Taken' /\ Len(received') < Len(more)
    BY <1>9, <2>1, <2>2, <2>5
  <2>7. call' = "size" => received' # << >>
    BY <2>4, <2>5
  <2>8. ASSUME call' = "data"
        PROVE  /\ want' = IF received' = << >> THEN Len(Handshake) ELSE Len(more[Len(received') + 1])
               /\ \A b \in 1 .. Len(buffer') : buffer'[b] = more[Len(received') + 1][b]
    BY <2>3, <2>5, <2>8
  <2> QED
    BY <2>6, <2>7, <2>8 DEF Receives
<1> QED
  BY <1>12, <1>18, <1>19

\* What was on the way is lost, or stays.
LEMMA HangUpKeepsStream ==
  ASSUME ConnectionInv, NEW all, NEW at, SentOrTorn(all), Carries(all, at), Receives(all, at),
         ~hungUp, hungUp', UNCHANGED << sent, callVars >>, wire' = << >> \/ wire' = wire
  PROVE  SentOrTorn(all)' /\ Carries(all, at)' /\ Receives(all, at)'
<1>1. SentOrTorn(all)'
  BY DEF SentOrTorn
<1>2. received' = received /\ buffer' = buffer /\ call' = call /\ want' = want
  BY DEF callVars
<1>3. Receives(all, at)'
  BY <1>2 DEF Receives, Taken
<1>4. Carries(all, at)'
  <2>1. CASE wire' = wire
    BY <1>2, <2>1 DEF Carries, Pending
  <2>2. CASE wire' = << >>
    <3>1. Len(wire') = 0 /\ Len(wire) \in Nat /\ Len(all) \in Nat /\ Len(sent) = Len(all)
          /\ Len(received) \in Nat
      BY <2>2, Lengths, EmptySeq DEF SentOrTorn
    <3>2. \A p \in Int : p \notin 1 .. Len(wire')
      BY <3>1
    <3>3. \A k \in Pending(all) : at[k] \in Int
      BY <3>1 DEF Carries, Pending
    <3>4. \A k \in Pending(all) : \A b \in 1 .. Len(all[k]) : at[k] + b \notin 1 .. Len(wire')
      BY <3>2, <3>3
    <3>5. \A k \in Pending(all) : \A h \in 1 .. 4 : at[k] - 4 + h \notin 1 .. Len(wire')
      BY <3>2, <3>3
    <3>6. Len(received) < Len(all) => 0 <= at[Len(all)] + Len(all[Len(all)])
      <4> SUFFICES ASSUME Len(received) < Len(all) PROVE 0 <= at[Len(all)] + Len(all[Len(all)])
        OBVIOUS
      <4>1. Len(all) \in 1 .. Len(all)
        BY <3>1
      <4>2. at[Len(all)] \in Int /\ Len(all[Len(all)]) \in Nat
        BY <4>1, Lengths DEF Carries
      <4>3. Len(wire) <= at[Len(all)] + Len(all[Len(all)])
        BY DEF Carries
      <4> QED
        BY <3>1, <4>2, <4>3
    <3>7. Pending(all)' = Pending(all)
      BY <1>2 DEF Pending
    <3>8. ~(Len(sent) < Len(all))
      BY <3>1
    <3> QED
      BY <1>2, <2>2, <3>1, <3>4, <3>5, <3>6, <3>7, <3>8 DEF Carries
  <2> QED
    BY <2>1, <2>2
<1> QED
  BY <1>1, <1>3, <1>4

\* ReceiveData starts with the size of the handshake or with none.
LEMMA CallKeepsStream ==
  ASSUME ConnectionInv, ReceiveData,
         NEW all, NEW at, SentOrTorn(all), Carries(all, at), Receives(all, at)
  PROVE  SentOrTorn(all)' /\ Carries(all, at)' /\ Receives(all, at)'
<1>1. /\ received' = received /\ sent' = sent /\ wire' = wire /\ hungUp' = hungUp
      /\ buffer' = << >> /\ call = "none" /\ Len(buffer') = 0
  BY EmptySeq DEF ReceiveData, peerVars, CallStarts, MutexFree
<1>2. SentOrTorn(all)' /\ Carries(all, at)'
  BY <1>1 DEF SentOrTorn, Carries, Pending
<1>3. CASE received = << >>
  <2>1. call' = "data" /\ want' = Len(Handshake)
    BY <1>3 DEF ReceiveData
  <2>2. Taken = 0
    BY <1>1, <1>3 DEF Taken
  <2>3. Taken' = 0
    <3>1. call' = "data" /\ Len(buffer') = 0
      BY <1>1, <2>1
    <3> QED
      BY <3>1 DEF Taken
  <2>4. \A b \in 1 .. Len(buffer') : buffer'[b] = all[Len(received') + 1][b]
    BY <1>1
  <2> QED
    BY <1>1, <1>2, <1>3, <2>1, <2>2, <2>3, <2>4 DEF Receives
<1>4. CASE received # << >>
  <2>1. call' = "size" /\ Taken' = 4 /\ Taken = 4
    BY <1>1, <1>4 DEF ReceiveData, Taken
  <2> QED
    BY <1>1, <1>2, <1>4, <2>1 DEF Receives
<1> QED
  BY <1>3, <1>4

\* What ReceiveData returns is the next string the peer sent.
LEMMA ReturnKeepsStream ==
  ASSUME ConnectionInv, Delivered, ReturnData,
         NEW all, NEW at, SentOrTorn(all), Carries(all, at), Receives(all, at)
  PROVE  /\ Len(received) < Len(sent) /\ buffer = sent[Len(received) + 1]
         /\ SentOrTorn(all)' /\ Carries(all, at)' /\ Receives(all, at)'
<1> DEFINE r == Len(received)
           m == Len(all)
           next == all[r + 1]
<1>1. /\ m \in Nat /\ r \in Nat /\ Len(wire) \in Nat /\ Len(sent) \in Nat /\ Len(buffer) \in Nat
      /\ m = Len(sent) \/ m = Len(sent) + 1
      /\ \A k \in 1 .. m : all[k] \in Seq(Byte) /\ Len(all[k]) \in Nat
      /\ wire = << >> <=> Len(wire) = 0
      /\ received = << >> <=> r = 0
      /\ buffer = << >> <=> Len(buffer) = 0
      /\ buffer \in Seq(Byte) /\ received \in Seq(Seq(Byte))
  BY Lengths DEF ConnectionInv, StringTypes
<1>2. /\ call = "data" /\ Len(buffer) = want /\ received' = Append(received, buffer)
      /\ call' = "none" /\ UNCHANGED << wire, sent, hungUp >>
  BY DEF ReturnData, peerVars
<1>3. r < m
  <2> SUFFICES ASSUME ~(r < m) PROVE FALSE
    OBVIOUS
  <2>1. received = << >> /\ buffer = << >>
    BY <1>2 DEF Receives
  <2>2. Len(Handshake) = 0
    BY <1>1, <1>2, <2>1 DEF Receives
  <2> QED
    BY <2>2, TcpAssumption, EmptySeq
<1>4. r + 1 \in 1 .. m /\ r + 1 \in r + 1 .. m /\ at[r + 1] \in Int
  BY <1>1, <1>3 DEF Carries
<1>5. Len(buffer) = Len(next)
  <2>1. want = IF received = << >> THEN Len(Handshake) ELSE Len(next)
    BY <1>2 DEF Receives
  <2>2. received = << >> => next = Handshake
    BY <1>1, <1>3, EmptySeq DEF SentOrTorn
  <2> QED
    BY <1>2, <2>1, <2>2
<1>6. buffer = next
  <2>1. \A b \in 1 .. Len(buffer) : buffer[b] = next[b]
    BY <1>2 DEF Receives
  <2>2. next \in Seq(Byte)
    BY <1>1, <1>4
  <2> HIDE DEF next
  <2> QED
    BY <1>1, <1>5, <2>1, <2>2, SeqEqual
<1>7. at[r + 1] + Len(next) = 0
  <2>1. at[r + 1] = 0 - Len(buffer)
    BY <1>2, <1>3 DEF Receives, Taken
  <2> QED
    BY <1>1, <1>5, <2>1
<1>8. r < Len(sent)
  <2> SUFFICES ASSUME ~(r < Len(sent)) PROVE FALSE
    OBVIOUS
  <2>1. m = r + 1 /\ Len(sent) < m
    BY <1>1, <1>3
  <2>2. Len(wire) < at[m] + Len(all[m])
    BY <1>3, <2>1 DEF Carries
  <2> QED
    BY <1>1, <1>7, <2>1, <2>2
<1>9. buffer = sent[r + 1]
  BY <1>1, <1>6, <1>8 DEF SentOrTorn
<1>10. Len(received') = r + 1 /\ received' # << >>
  BY <1>1, <1>2, AppendProperties
<1>11. Pending(all)' \subseteq Pending(all)
  BY <1>1, <1>10 DEF Pending
<1>12. wire # << >> => r + 1 < m
  <2> SUFFICES ASSUME wire # << >>, ~(r + 1 < m) PROVE FALSE
    OBVIOUS
  <2>1. m = r + 1
    BY <1>1, <1>3
  <2>2. Len(wire) <= at[m] + Len(all[m])
    BY <1>3 DEF Carries
  <2> QED
    BY <1>1, <1>7, <2>1, <2>2
<1>13. SentOrTorn(all)'
  BY <1>2 DEF SentOrTorn
<1>14. Carries(all, at)'
  <2>1. r + 1 < m => r < m
    BY <1>1
  <2> QED
    BY <1>2, <1>10, <1>11, <1>12, <2>1 DEF Carries
<1>15. Receives(all, at)'
  <2>1. Taken' = 4
    BY <1>2, <1>10 DEF Taken
  <2>2. r + 1 < m => at[r + 1 + 1] = 4
    <3> SUFFICES ASSUME r + 1 < m PROVE at[r + 1 + 1] = 4
      OBVIOUS
    <3>1. r + 1 + 1 \in r + 1 .. m
      BY <1>1
    <3>2. at[r + 1 + 1] = at[r + 1] + Len(next) + 4
      BY <1>4, <3>1 DEF Carries, Pending
    <3> QED
      BY <1>1, <1>4, <1>7, <3>2
  <2> QED
    BY <1>2, <1>10, <2>1, <2>2 DEF Receives
<1> QED
  BY <1>8, <1>9, <1>13, <1>14, <1>15

LEMMA StreamInit == TcpInit => StreamInv
BY EmptySeq DEF TcpInit, StreamInv, Delivered

\* On a new connection nothing was sent.
LEMMA NewStream ==
  ASSUME ConnectionInv, EstablishConnection
  PROVE  StreamInv'
<1>1. /\ sent' = << >> /\ received' = << >> /\ wire' = << >> /\ Len(<< >>) = 0
      /\ call' = "none" /\ hungUp' = FALSE
  <2>1. call = "none"
    BY DEF EstablishConnection, ConnectionInv, CallInv
  <2> QED
    BY <2>1, EmptySeq DEF EstablishConnection, NewConnection
<1> DEFINE nowhere == [i \in 1 .. 0 |-> 0]
<1>2. SentOrTorn(<< >>)'
  <2>1. << >> \in Seq(Seq(Byte))
    BY EmptySeq
  <2>2. \A k \in 2 .. Len(<< >>) : FALSE
    BY <1>1
  <2>3. \A k \in 1 .. Len(sent') : FALSE
    BY <1>1
  <2>4. Len(<< >>) = Len(sent')
    BY <1>1
  <2> QED
    BY <2>1, <2>2, <2>3, <2>4 DEF SentOrTorn
<1>3. Carries(<< >>, nowhere)'
  <2>1. nowhere \in [1 .. Len(<< >>) -> Int]
    BY <1>1
  <2>2. Pending(<< >>)' = {}
    BY <1>1 DEF Pending
  <2>3. ~(Len(received') < Len(<< >>)) /\ wire' = << >>
    BY <1>1
  <2> HIDE DEF nowhere
  <2> QED
    BY <2>1, <2>2, <2>3 DEF Carries
<1>4. Receives(<< >>, nowhere)'
  BY <1>1 DEF Receives
<1>5. Delivered'
  BY <1>1 DEF Delivered
<1> QED
  BY <1>2, <1>3, <1>4, <1>5 DEF StreamInv

LEMMA PeerWritesKeepsInv ==
  ASSUME LengthsFit, ConnectionInv, StreamInv, PeerWrites
  PROVE  StreamInv'
<1>1. PICK string \in NextStrings : wire' = wire \o Frame(string) /\ sent' = Append(sent, string)
  BY DEF PeerWrites
<1>2. /\ string \in Seq(Byte) /\ Frame(string) \in Seq(Byte)
      /\ sent \in Seq(Seq(Byte)) /\ Len(sent) \in Nat /\ Len(received) \in Nat
  BY NextStringsAreBytes, LenProperties DEF ConnectionInv, StringTypes
<1>3. UNCHANGED << hungUp, callVars >> /\ usable' = usable /\ ~hungUp
  BY DEF PeerWrites, userVars
<1>4. Delivered'
  <2>1. Len(sent') = Len(sent) + 1 /\ \A i \in 1 .. Len(sent) : sent'[i] = sent[i]
    BY <1>1, <1>2, AppendProperties
  <2>2. received' = received /\ Len(received) <= Len(sent)
    BY <1>3 DEF callVars, StreamInv, Delivered
  <2>3. \A k \in 1 .. Len(received) : k \in 1 .. Len(sent)
    BY <1>2, <2>2
  <2>4. \A k \in 1 .. Len(received) : received[k] = sent[k]
    BY DEF StreamInv, Delivered
  <2>5. Len(received) <= Len(sent) + 1
    BY <1>2, <2>2
  <2> QED
    BY <2>1, <2>2, <2>3, <2>4, <2>5 DEF Delivered
<1>5. ASSUME usable PROVE \E all, at : SentOrTorn(all)' /\ Carries(all, at)' /\ Receives(all, at)'
  <2>1. PICK all, at : SentOrTorn(all) /\ Carries(all, at) /\ Receives(all, at)
    BY <1>5 DEF StreamInv
  <2>2. SubSeq(Frame(string), 1, Len(Frame(string))) = Frame(string)
    BY <1>2, SubSeqFull
  <2>3. CASE Len(Frame(string)) \in 1 .. Len(Frame(string))
    <3>1. PeerPuts(string, Len(Frame(string)))
      BY <1>1, <1>3, <2>2, <2>3 DEF PeerPuts
    <3> QED
      BY <1>3, <2>1, <3>1, WriteKeepsStream DEF StreamInv
  <2>4. Len(Frame(string)) \in 1 .. Len(Frame(string))
    <3>1. Len(Frame(string)) \in Nat /\ Len(string) \in Nat
      BY <1>2, LenProperties
    <3>2. CASE sent = << >>
      <4>1. Frame(string) = Handshake
        BY <3>2 DEF Frame, NextStrings
      <4>2. Len(Frame(string)) # 0
        BY <1>2, <4>1, TcpAssumption, EmptySeq
      <4> QED
        BY <3>1, <4>2
    <3>3. CASE sent # << >>
      <4>1. Len(Frame(string)) = 4 + Len(string)
        BY <3>3, FrameBytes
      <4> QED
        BY <3>1, <4>1
    <3> QED
      BY <3>2, <3>3
  <2> QED
    BY <2>3, <2>4
<1> QED
  BY <1>3, <1>4, <1>5 DEF StreamInv

LEMMA PeerHangsUpKeepsInv ==
  ASSUME LengthsFit, ConnectionInv, StreamInv, PeerHangsUp
  PROVE  StreamInv'
<1>1. UNCHANGED << sent, callVars >> /\ usable' = usable /\ ~hungUp /\ hungUp'
  BY DEF PeerHangsUp, userVars
<1>2. Delivered'
  BY <1>1 DEF Delivered, StreamInv, callVars
<1>3. ASSUME usable PROVE \E all, at : SentOrTorn(all)' /\ Carries(all, at)' /\ Receives(all, at)'
  <2>1. PICK all, at : SentOrTorn(all) /\ Carries(all, at) /\ Receives(all, at)
    BY <1>3 DEF StreamInv
  <2>2. CASE wire' = << >> \/ wire' = wire
    BY <1>1, <2>1, <2>2, HangUpKeepsStream
  <2>3. ASSUME NEW string \in NextStrings, NEW n \in 1 .. Len(Frame(string)) - 1,
               wire' = wire \o SubSeq(Frame(string), 1, n)
        PROVE  \E more, bt : SentOrTorn(more)' /\ Carries(more, bt)' /\ Receives(more, bt)'
    <3>1. Len(Frame(string)) \in Nat
      BY NextStringsAreBytes, LenProperties
    <3>2. n \in 1 .. Len(Frame(string)) /\ n < Len(Frame(string))
      BY <3>1
    <3>3. PeerPuts(string, n)
      BY <1>1, <2>3, <3>2 DEF PeerPuts
    <3> QED
      BY <1>1, <2>1, <3>3, WriteKeepsStream DEF StreamInv
  <2> QED
    BY <2>2, <2>3 DEF PeerHangsUp
<1> QED
  BY <1>1, <1>2, <1>3 DEF StreamInv

\* What a ReturnData delivers.
LEMMA ReturnDelivers ==
  ASSUME ConnectionInv, StreamInv, ReturnData
  PROVE  /\ Len(received) < Len(sent)
         /\ received' = Append(received, sent[Len(received) + 1])
         /\ StreamInv'
<1>1. usable /\ received' = Append(received, buffer) /\ UNCHANGED << usable, sent >>
  BY DEF ReturnData, ConnectionInv, CallInv, userVars, peerVars
<1>2. PICK all, at : SentOrTorn(all) /\ Carries(all, at) /\ Receives(all, at)
  BY <1>1 DEF StreamInv
<1>3. /\ Len(received) < Len(sent) /\ buffer = sent[Len(received) + 1]
      /\ SentOrTorn(all)' /\ Carries(all, at)' /\ Receives(all, at)'
  BY <1>2, ReturnKeepsStream DEF StreamInv
<1>4. Delivered'
  <2>1. received \in Seq(Seq(Byte)) /\ buffer \in Seq(Byte) /\ sent \in Seq(Seq(Byte))
    BY DEF ConnectionInv, StringTypes
  <2>2. Len(received) \in Nat /\ Len(sent) \in Nat
    BY <2>1, LenProperties
  <2>3. /\ Len(received') = Len(received) + 1 /\ received'[Len(received) + 1] = buffer
        /\ \A i \in 1 .. Len(received) : received'[i] = received[i]
    BY <1>1, <2>1, AppendProperties
  <2>4. \A k \in 1 .. Len(received) + 1 : k = Len(received) + 1 \/ k \in 1 .. Len(received)
    BY <2>2
  <2>5. \A k \in 1 .. Len(received) : received[k] = sent[k]
    BY DEF StreamInv, Delivered
  <2>6. \A k \in 1 .. Len(received') : received'[k] = sent[k]
    BY <1>3, <2>3, <2>4, <2>5
  <2>7. Len(received') <= Len(sent)
    BY <1>3, <2>2, <2>3
  <2> QED
    BY <1>1, <2>6, <2>7 DEF Delivered
<1> QED
  BY <1>1, <1>3, <1>4 DEF StreamInv

LEMMA StreamNext ==
  ASSUME LengthsFit, PrefixInOnePiece, ConnectionInv, StreamInv, [TcpNext]_tcpVars
  PROVE  StreamInv'
<1>1. CASE UNCHANGED << callVars, peerVars >> /\ (usable' => usable)
  <2>1. UNCHANGED << call, want, buffer, received, wire, hungUp, sent >>
    BY <1>1 DEF callVars, peerVars
  <2>2. Delivered'
    BY <2>1 DEF StreamInv, Delivered
  <2>3. ASSUME usable' PROVE \E all, at : SentOrTorn(all)' /\ Carries(all, at)' /\ Receives(all, at)'
    <3>1. PICK all, at : SentOrTorn(all) /\ Carries(all, at) /\ Receives(all, at)
      BY <1>1, <2>3 DEF StreamInv
    <3>2. SentOrTorn(all)'
      BY <2>1, <3>1 DEF SentOrTorn
    <3>3. Carries(all, at)'
      BY <2>1, <3>1 DEF Carries, Pending
    <3>4. Receives(all, at)'
      BY <2>1, <3>1 DEF Receives, Taken
    <3> QED
      BY <3>2, <3>3, <3>4
  <2> QED
    BY <2>2, <2>3 DEF StreamInv
<1>2. CASE UNCHANGED << received, sent >> /\ ~usable'
  BY <1>2 DEF StreamInv, Delivered
<1>3. CASE EstablishConnection
  BY <1>3, NewStream
<1>4. CASE PeerWrites
  BY <1>4, PeerWritesKeepsInv
<1>5. CASE PeerHangsUp
  BY <1>5, PeerHangsUpKeepsInv
<1>6. CASE ReceiveData \/ RecvSize \/ RecvData
  <2>1. UNCHANGED << received, sent >> /\ usable
    BY <1>6 DEF ReceiveData, RecvSize, RecvData, Recv, CallStarts, ConnectionInv, CallInv, peerVars
  <2>2. Delivered'
    BY <2>1 DEF StreamInv, Delivered
  <2>3. PICK all, at : SentOrTorn(all) /\ Carries(all, at) /\ Receives(all, at)
    BY <2>1 DEF StreamInv
  <2>4. \E bt : SentOrTorn(all)' /\ Carries(all, bt)' /\ Receives(all, bt)'
    <3>1. CASE ReceiveData
      BY <2>3, <3>1, CallKeepsStream
    <3>2. CASE RecvSize
      BY <2>3, <3>2, SizeIsRead
    <3>3. CASE RecvData
      BY <2>3, <3>3, DataIsRead
    <3> QED
      BY <1>6, <3>1, <3>2, <3>3
  <2> QED
    BY <2>2, <2>4 DEF StreamInv
<1>7. CASE ReturnData
  BY <1>7, ReturnDelivers
<1>8. CASE AllocationFails \/ ReceiveThrows
  <2>1. UNCHANGED << received, sent >> /\ ~usable'
    BY <1>8 DEF AllocationFails, ReceiveThrows, peerVars
  <2> QED
    BY <1>2, <2>1
<1>9. CASE \/ Begin \/ EstablishThrows \/ SendData \/ SendIsTorn \/ SendThrows \/ ReceiveOnClosed
           \/ EndOfRun \/ RunThrows \/ RunThrowsOnDisk \/ Terminate \/ TerminateClose \/ Destroy
  <2>1. UNCHANGED << callVars, peerVars >> /\ (usable' => usable)
    BY <1>9 DEF Begin, EstablishThrows, SendData, SendIsTorn, SendThrows, ReceiveOnClosed,
      EndOfRun, RunThrows, RunThrowsOnDisk, Terminate, TerminateClose, Destroy, userVars
  <2> QED
    BY <1>1, <2>1
<1> QED
  BY <1>1, <1>3, <1>4, <1>5, <1>6, <1>7, <1>8, <1>9
    DEF TcpNext, ReceiveStep, tcpVars, userVars

\* Where recv finds the four bytes of a length together, the strings ReceiveData
\* returns are those the peer sent, whole and in order, and behind a torn one
\* comes nothing.
THEOREM WholeStringsComeOut ==
  ASSUME LengthsFit, PrefixInOnePiece
  PROVE  TcpSpec => []ReceivedIsSent
<1>1. ConnectionInv /\ StreamInv => ReceivedIsSent
  <2> SUFFICES ASSUME ConnectionInv, Delivered PROVE ReceivedIsSent
    BY DEF StreamInv
  <2> DEFINE part == SubSeq(sent, 1, Len(received))
  <2>1. /\ received \in Seq(Seq(Byte)) /\ sent \in Seq(Seq(Byte))
        /\ Len(received) \in Nat /\ Len(sent) \in Nat /\ Len(received) <= Len(sent)
    BY LenProperties DEF ConnectionInv, StringTypes, Delivered
  <2>2. SubSeq(received, 1, Len(received)) = received
    BY <2>1, SubSeqFull
  <2>3. part \in Seq(Seq(Byte)) /\ Len(part) = Len(received)
    <3>1. \A i \in 1 .. Len(received) : sent[i] \in Seq(Byte)
      BY <2>1, ElementOfSeq
    <3> QED
      BY <2>1, <3>1, SubSeqProperties
  <2>4. \A i \in 1 .. Len(received) : part[i] = received[i]
    BY <2>1 DEF Delivered
  <2>5. part = received
    <3> HIDE DEF part
    <3> QED
      BY <2>1, <2>3, <2>4, SeqEqual
  <2> QED
    BY <2>1, <2>2, <2>5 DEF ReceivedIsSent, IsPrefix
<1>2. ConnectionInv /\ StreamInv /\ [TcpNext]_tcpVars => StreamInv'
  BY StreamNext
<1> QED
  BY <1>1, <1>2, ConnectionInit, ConnectionNext, StreamInit, PTL DEF TcpSpec

-------------------------------------------------------------------------------
(* The abstract channel *)

\* Where the thread is not in Run, or has no socket, before and after.
LEMMA StaysDropped ==
  ASSUME ~(run = "using" /\ sock # 0), ~(run' = "using" /\ sock' # 0), UNCHANGED << sent, received >>
  PROVE  [Channel!ChannelNext]_(Channel!channelVars)
BY DEF Channel!channelVars

\* Closing, or leaving Run, drops the channel, or finds it dropped.
LEMMA CloseDrops ==
  ASSUME sock' = 0 \/ run' # "using", UNCHANGED << sent, received >>
  PROVE  [Channel!ChannelNext]_(Channel!channelVars)
<1>1. CASE run = "using" /\ sock # 0
  BY <1>1 DEF Channel!ChannelNext, Channel!Drop
<1>2. CASE ~(run = "using" /\ sock # 0)
  BY <1>2, StaysDropped
<1> QED
  BY <1>1, <1>2

LEMMA ConnectionStep ==
  ASSUME ConnectionInv, StreamInv, [TcpNext]_tcpVars
  PROVE  [Channel!ChannelNext]_(Channel!channelVars)
<1>1. CASE UNCHANGED << run, sock, sent, received >>
  BY <1>1 DEF Channel!channelVars
<1>2. CASE EstablishConnection
  <2>1. run = "begun" /\ run' = "using" /\ sock' # 0
    BY <1>2, TcpAssumption DEF EstablishConnection, ConnectionInv, SocketInv
  <2>2. Channel!Open
    BY <1>2, <2>1 DEF EstablishConnection, NewConnection, Channel!Open
  <2> QED
    BY <2>2 DEF Channel!ChannelNext
<1>3. CASE EstablishThrows
  <2>1. sock' = 0 /\ UNCHANGED << sent, received >>
    BY <1>3 DEF EstablishThrows, CloseSocket, callVars, peerVars
  <2> QED
    BY <2>1, CloseDrops
<1>4. CASE PeerWrites
  <2>1. PICK string \in NextStrings : sent' = Append(sent, string)
    BY <1>4 DEF PeerWrites
  <2>2. string \in PeerStrings \cup {Handshake}
    BY DEF NextStrings
  <2>3. UNCHANGED << run, sock, received >>
    BY <1>4 DEF PeerWrites, userVars, sockVars, callVars
  <2>4. Channel!PeerSends
    BY <2>1, <2>2, <2>3 DEF Channel!PeerSends
  <2> QED
    BY <2>4 DEF Channel!ChannelNext
<1>5. CASE ReturnData
  <2>1. Len(received) < Len(sent) /\ received' = Append(received, sent[Len(received) + 1])
    BY <1>5, ReturnDelivers
  <2>2. run = "using" /\ sock # 0 /\ UNCHANGED << run, sock, sent >>
    BY <1>5 DEF ReturnData, ConnectionInv, CallInv, userVars, sockVars, peerVars
  <2>3. Channel!Deliver
    BY <2>1, <2>2 DEF Channel!Deliver
  <2> QED
    BY <2>3 DEF Channel!ChannelNext
<1>6. CASE \/ Begin \/ SendThrows \/ ReceiveThrows \/ EndOfRun \/ RunThrows \/ RunThrowsOnDisk
           \/ TerminateClose \/ Destroy
  <2>1. sock' = 0 \/ run' # "using"
    BY <1>6 DEF Begin, SendThrows, ReceiveThrows, EndOfRun, RunThrows, RunThrowsOnDisk,
      TerminateClose, Destroy, CloseSocket
  <2>2. UNCHANGED << sent, received >>
    BY <1>6 DEF Begin, SendThrows, ReceiveThrows, EndOfRun, RunThrows, RunThrowsOnDisk,
      TerminateClose, Destroy, callVars, peerVars
  <2> QED
    BY <2>1, <2>2, CloseDrops
<1>7. CASE \/ PeerHangsUp \/ SendData \/ SendIsTorn \/ ReceiveData \/ ReceiveOnClosed
           \/ RecvSize \/ AllocationFails \/ RecvData \/ Terminate
  <2>1. UNCHANGED << run, sock, sent, received >>
    BY <1>7 DEF PeerHangsUp, SendData, SendIsTorn, ReceiveData, ReceiveOnClosed, RecvSize,
      AllocationFails, RecvData, Recv, Terminate, userVars, sockVars, callVars, peerVars
  <2> QED
    BY <1>1, <2>1
<1> QED
  BY <1>1, <1>2, <1>3, <1>4, <1>5, <1>6, <1>7
    DEF TcpNext, ReceiveStep, tcpVars, userVars, sockVars, callVars, peerVars

\* A connection keeps what MessageChannel promises: strings come out whole, once
\* and in order, and none of an earlier connection.
THEOREM ConnectionIsChannel ==
  ASSUME LengthsFit, PrefixInOnePiece
  PROVE  TcpSpec => ChannelSpec
<1>1. TcpInit => Channel!ChannelInit
  BY DEF TcpInit, Channel!ChannelInit
<1>2. ConnectionInv /\ StreamInv /\ [TcpNext]_tcpVars => StreamInv'
  BY StreamNext
<1>3. ConnectionInv /\ StreamInv /\ [TcpNext]_tcpVars
        => [Channel!ChannelNext]_(Channel!channelVars)
  BY ConnectionStep
<1> QED
  BY <1>1, <1>2, <1>3, ConnectionInit, ConnectionNext, StreamInit, PTL
    DEF TcpSpec, ChannelSpec, Channel!ChannelSpec
===============================================================================
