-------------------------- MODULE TorrentClientProofs --------------------------
(***************************************************************************)
(* What the program's exit means, for every instance.                      *)
(***************************************************************************)
EXTENDS TorrentClient, PeerConnectProofs

\* A step of the program is a step of the storage's contract, or leaves the
\* storage and the pieces alone.
LEMMA ClientUsesContract == [ClientNext]_clientVars => [StorageNext]_storageVars
<1> SUFFICES ASSUME [ClientNext]_clientVars PROVE [StorageNext]_storageVars
  OBVIOUS
<1>1. CASE UNCHANGED clientVars
  BY <1>1 DEF clientVars, vars
<1>2. ASSUME NEW t \in Threads, PeerThreadStep(t) PROVE [StorageNext]_storageVars
  BY <1>2, ThreadUsesContract DEF PeerThreadStep, StorageNext
<1>3. ASSUME NEW t \in Threads,
             StartThread(t) \/ TerminatePeer(t) \/ CloseTerminated(t) \/ DestroyPeer(t)
      PROVE  [StorageNext]_storageVars
  <2>1. OwnerStep(t)
    BY <1>3 DEF StartThread, TerminatePeer, CloseTerminated, DestroyPeer, OwnerStep
  <2> QED
    BY <2>1, OwnerUsesContract DEF StorageNext
<1>4. CASE \/ UpdatePeers \/ AllStarted \/ Poll \/ PollBusy \/ AllTerminated \/ Join
           \/ ReturnFromRound \/ Exit
  BY <1>4 DEF UpdatePeers, AllStarted, Poll, PollBusy, AllTerminated, Join, ReturnFromRound,
    Exit, NoPeerStep, vars
<1> QED
  BY <1>1, <1>2, <1>3, <1>4 DEF ClientNext, MainStep

\* The whole program keeps the storage's contract.
THEOREM ClientKeepsContract == ClientSpec => StorageSpec
<1>1. ClientInit => StorageInit
  BY DEF ClientInit, PeerInit
<1> QED
  BY <1>1, ClientUsesContract, PTL DEF ClientSpec, StorageSpec

-------------------------------------------------------------------------------
(* The threads of the program *)

\* main starts, terminates and destroys connections as the module PeerConnect
\* has it done, though in a certain order.
LEMMA ClientUsesPeers == [ClientNext]_clientVars => [PeerNext]_vars
<1> SUFFICES ASSUME [ClientNext]_clientVars PROVE [PeerNext]_vars
  OBVIOUS
<1>1. CASE UNCHANGED clientVars
  BY <1>1 DEF clientVars
<1>2. ASSUME NEW t \in Threads, PeerThreadStep(t) PROVE [PeerNext]_vars
  BY <1>2 DEF PeerThreadStep, PeerNext
<1>3. ASSUME NEW t \in Threads,
             StartThread(t) \/ TerminatePeer(t) \/ CloseTerminated(t) \/ DestroyPeer(t)
      PROVE  [PeerNext]_vars
  BY <1>3 DEF StartThread, TerminatePeer, CloseTerminated, DestroyPeer, PeerNext, OwnerStep
<1>4. CASE \/ UpdatePeers \/ AllStarted \/ Poll \/ PollBusy \/ AllTerminated \/ Join
           \/ ReturnFromRound \/ Exit
  BY <1>4 DEF UpdatePeers, AllStarted, Poll, PollBusy, AllTerminated, Join, ReturnFromRound,
    Exit, NoPeerStep
<1> QED
  BY <1>1, <1>2, <1>3, <1>4 DEF ClientNext, MainStep

LEMMA ClientKeepsPeerInv == ClientSpec => [](StorageInv /\ PeerInv /\ BitfieldIsAnnounced)
<1>1. ClientInit => PeerInv /\ BitfieldIsAnnounced
  BY PeerInvInit, AnnouncedInit DEF ClientInit
<1>2. ClientSpec => []StorageInv
  BY ClientKeepsContract, StorageCorrect, PTL
<1> QED
  BY <1>1, <1>2, ClientUsesPeers, PeerInvStep, AnnouncedStep, PTL DEF ClientSpec

\* In the whole program too, over any number of rounds, a thread that believes
\* it waits for a block has one to wait for.
THEOREM ClientPendingIsRequested == ClientSpec => []PendingHasRequest
BY ClientKeepsPeerInv, PeerInvMeans, PTL

\* No two threads of the program work on one piece until a disk write fails.
THEOREM ClientSharesNoPiece == ClientSpec => []ExclusivePiece
<1>1. StorageInv => ExclusivePiece
  BY DEF StorageInv
<1> QED
  BY <1>1, ClientKeepsPeerInv, PTL

MainTypeOK ==
  mainPc \in MainLabels /\ peersFound \in SUBSET Threads /\ requestMorePeers \in BOOLEAN

LEMMA MainTypeStep == MainTypeOK /\ [ClientNext]_clientVars => MainTypeOK'
<1> SUFFICES ASSUME MainTypeOK, [ClientNext]_clientVars PROVE MainTypeOK'
  OBVIOUS
<1> USE DEF MainTypeOK, MainLabels
<1>1. CASE UNCHANGED clientVars
  BY <1>1 DEF clientVars
<1>2. ASSUME NEW t \in Threads, PeerThreadStep(t) PROVE MainTypeOK'
  BY <1>2 DEF PeerThreadStep
<1>3. ASSUME NEW t \in Threads,
             StartThread(t) \/ TerminatePeer(t) \/ CloseTerminated(t) \/ DestroyPeer(t)
      PROVE  MainTypeOK'
  BY <1>3 DEF StartThread, TerminatePeer, CloseTerminated, DestroyPeer, MainGoto
<1>4. CASE UpdatePeers \/ AllStarted \/ Poll \/ PollBusy
  BY <1>4 DEF UpdatePeers, AllStarted, Poll, PollBusy, MainGoto
<1>5. CASE AllTerminated \/ Join \/ ReturnFromRound \/ Exit
  BY <1>5 DEF AllTerminated, Join, ReturnFromRound, Exit, MainGoto
<1> QED
  BY <1>1, <1>2, <1>3, <1>4, <1>5 DEF ClientNext, MainStep

\* Every variable of the program has its type.
THEOREM ClientTypeCorrect == ClientSpec => []ClientTypeOK
<1>1. ClientInit => MainTypeOK
  BY DEF ClientInit, MainTypeOK, MainLabels
<1>2. StorageInv /\ PeerInv /\ BitfieldIsAnnounced /\ MainTypeOK => ClientTypeOK
  BY PeerInvMeans DEF MainTypeOK, ClientTypeOK
<1> QED
  BY <1>1, <1>2, MainTypeStep, ClientKeepsPeerInv, PTL DEF ClientSpec

-------------------------------------------------------------------------------
(* The end of the program *)

\* The counter main reads has reached the number of pieces exactly when every
\* piece is saved.
LEMMA FullCountMeansAllSaved ==
  ASSUME StorageInv
  PROVE  /\ PiecesSavedToDiscCount \in Nat
         /\ PiecesSavedToDiscCount <= NumPieces
         /\ ~(PiecesSavedToDiscCount < NumPieces) <=> piecesSavedToDisc = Pieces
<1>1. /\ PiecesSavedToDiscCount = Cardinality(piecesSavedToDisc)
      /\ piecesSavedToDisc \in SUBSET Pieces
  BY DEF StorageInv, SavedCountIsExact, StorageTypeOK
<1>2. IsFiniteSet(Pieces) /\ Cardinality(Pieces) = NumPieces /\ NumPieces \in Nat
  BY StorageAssumption, FS_Interval DEF Pieces
<1>3. /\ Cardinality(piecesSavedToDisc) \in Nat
      /\ Cardinality(piecesSavedToDisc) <= NumPieces
      /\ Cardinality(piecesSavedToDisc) = NumPieces => piecesSavedToDisc = Pieces
  BY <1>1, <1>2, FS_Subset, FS_CardinalityType
<1> QED
  BY <1>1, <1>2, <1>3

\* main is past the polling of a round that found every piece saved.
Finishing ==
  \/ mainPc \in {"terminate", "join", "destroy"} /\ ~requestMorePeers
  \/ mainPc \in {"exit", "done"}

\* Inductive: once main decided to finish, every piece is and stays saved, so
\* the last test of main cannot fail.
FinishInv ==
  /\ mainPc # "incomplete"
  /\ Finishing => piecesSavedToDisc = Pieces

\* Only Poll leads to finishing, and only with every piece saved.
LEMMA FinishStep ==
  ASSUME StorageInv, FinishInv, [ClientNext]_clientVars,
         piecesSavedToDisc \subseteq piecesSavedToDisc',
         piecesSavedToDisc' \subseteq Pieces
  PROVE  FinishInv'
<1>1. CASE UNCHANGED << mainPc, peersFound, requestMorePeers >>
  BY <1>1 DEF FinishInv, Finishing
<1>2. ASSUME NEW t \in Threads,
             StartThread(t) \/ TerminatePeer(t) \/ CloseTerminated(t) \/ DestroyPeer(t)
      PROVE  FinishInv'
  BY <1>2 DEF StartThread, TerminatePeer, CloseTerminated, DestroyPeer, MainAt, MainGoto,
    FinishInv, Finishing
<1>3. CASE Poll
  BY <1>3, FullCountMeansAllSaved DEF Poll, MainAt, MainGoto, FinishInv, Finishing
<1>4. CASE Exit
  BY <1>4, FullCountMeansAllSaved DEF Exit, MainAt, MainGoto, FinishInv, Finishing
<1>5. CASE UpdatePeers \/ AllStarted \/ PollBusy \/ AllTerminated \/ Join \/ ReturnFromRound
  BY <1>5 DEF UpdatePeers, AllStarted, PollBusy, AllTerminated, Join, ReturnFromRound,
    MainAt, MainGoto, FinishInv, Finishing
<1> QED
  BY <1>1, <1>2, <1>3, <1>4, <1>5 DEF ClientNext, MainStep, PeerThreadStep, clientVars

\* The program ends only with the torrent's bytes of every piece in the file,
\* unless the disk failed; "Download incomplete" is never printed.
THEOREM ExitIsComplete == ClientSpec => []ExitMeansComplete
<1>1. ClientInit => FinishInv
  BY DEF ClientInit, FinishInv, Finishing
<1>2. StorageInv /\ StorageInv' /\ FinishInv /\ [ClientNext]_clientVars => FinishInv'
  <2> SUFFICES ASSUME StorageInv, StorageInv', FinishInv, [ClientNext]_clientVars
               PROVE  FinishInv'
    OBVIOUS
  <2>1. piecesSavedToDisc' \subseteq Pieces
    BY DEF StorageInv, StorageTypeOK
  <2>2. piecesSavedToDisc \subseteq piecesSavedToDisc'
    BY ClientUsesContract, SavedOnlyGrows
  <2> QED
    BY <2>1, <2>2, FinishStep
<1>3. StorageInv /\ FinishInv => ExitMeansComplete
  BY DEF StorageInv, SavedIsVerified, FinishInv, Finishing, ExitMeansComplete
<1> QED
  BY <1>1, <1>2, <1>3, ClientKeepsContract, StorageCorrect, PTL DEF ClientSpec
===============================================================================
