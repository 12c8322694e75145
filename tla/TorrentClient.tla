---------------------------- MODULE TorrentClient ----------------------------
(***************************************************************************)
(* main.cpp: the main thread over the peer threads and the storage.        *)
(* DownloadTorrentFile asks the tracker for peers and runs one round of    *)
(* RunDownloadMultithread on them, until a round reports that every piece  *)
(* was saved.  A round starts a thread per peer, polls the storage, and    *)
(* ends by terminating, joining and destroying every connection.           *)
(***************************************************************************)
EXTENDS PeerConnect

VARIABLES
  mainPc,            \* where the main thread is
  peersFound,        \* tracker.GetPeers(): the threads of this round
  requestMorePeers   \* what RunDownloadMultithread is about to return

clientVars == << vars, mainPc, peersFound, requestMorePeers >>

MainLabels == {"update", "start", "poll", "pollBusy", "terminate", "join",
               "destroy", "exit", "done", "incomplete"}

ClientInit ==
  /\ PeerInit
  /\ mainPc = "update"
  /\ peersFound = {}
  /\ requestMorePeers = FALSE

MainAt(label) == mainPc = label

MainGoto(label) == mainPc' = label /\ UNCHANGED << peersFound, requestMorePeers >>

\* The step of the main thread touches no connection.
NoPeerStep == UNCHANGED vars

-------------------------------------------------------------------------------

\* tracker.UpdatePeers: the list is replaced, by an empty one when the request
\* or the parsing of its answer fails.
UpdatePeers ==
  /\ MainAt("update")
  /\ mainPc' = "start"
  /\ peersFound' \in SUBSET Threads
  /\ UNCHANGED requestMorePeers
  /\ NoPeerStep

StartThread(t) ==
  /\ MainAt("start")
  /\ t \in peersFound
  /\ Start(t)
  /\ MainGoto("start")

AllStarted ==
  /\ MainAt("start")
  /\ \A t \in peersFound : ~At(t, "absent")
  /\ MainGoto("poll")
  /\ NoPeerStep

\* Mutant: one piece too few.
PollOneLess ==
  /\ MainAt("poll")
  /\ IF PiecesSavedToDiscCount < NumPieces - 1
     THEN MainGoto("pollBusy")
     ELSE /\ mainPc' = "terminate"
          /\ requestMorePeers' = FALSE
          /\ UNCHANGED peersFound
  /\ NoPeerStep

\* The while condition: pieces.PiecesSavedToDiscCount() < piecesToDownload.
Poll ==
  /\ MainAt("poll")
  /\ IF PiecesSavedToDiscCount < NumPieces
     THEN MainGoto("pollBusy")
     ELSE /\ mainPc' = "terminate"
          /\ requestMorePeers' = FALSE
          /\ UNCHANGED peersFound
  /\ NoPeerStep

\* Mutant: the wrong counter.
PollBusySaved ==
  /\ MainAt("pollBusy")
  /\ IF PiecesSavedToDiscCount = 0
     THEN /\ mainPc' = "terminate"
          /\ requestMorePeers' = TRUE
          /\ UNCHANGED peersFound
     ELSE MainGoto("poll")
  /\ NoPeerStep

\* Nothing in progress is taken to mean that no connection works.
PollBusy ==
  /\ MainAt("pollBusy")
  /\ IF PiecesInProgressCount = 0
     THEN /\ mainPc' = "terminate"
          /\ requestMorePeers' = TRUE
          /\ UNCHANGED peersFound
     ELSE MainGoto("poll")
  /\ NoPeerStep

\* One connection is terminated after the other: the next flag is set when the
\* last CloseConnection has returned.
TerminatePeer(t) ==
  /\ MainAt("terminate")
  /\ t \in peersFound
  /\ \A u \in peersFound : ~peer[u].closing
  /\ Terminate(t)
  /\ MainGoto("terminate")

CloseTerminated(t) ==
  /\ MainAt("terminate")
  /\ TerminateClose(t)
  /\ MainGoto("terminate")

AllTerminated ==
  /\ MainAt("terminate")
  /\ \A t \in peersFound : peer[t].terminated /\ ~peer[t].closing
  /\ MainGoto("join")
  /\ NoPeerStep

Join ==
  /\ MainAt("join")
  /\ \A t \in peersFound : At(t, "ended")
  /\ MainGoto("destroy")
  /\ NoPeerStep

DestroyPeer(t) ==
  /\ MainAt("destroy")
  /\ Destroy(t)
  /\ MainGoto("destroy")

\* RunDownloadMultithread returns into the loop of DownloadTorrentFile.
ReturnFromRound ==
  /\ MainAt("destroy")
  /\ \A t \in peersFound : At(t, "absent")
  /\ MainGoto(IF requestMorePeers THEN "update" ELSE "exit")
  /\ NoPeerStep

\* The end of main.
Exit ==
  /\ MainAt("exit")
  /\ MainGoto(IF PiecesSavedToDiscCount < NumPieces THEN "incomplete" ELSE "done")
  /\ NoPeerStep

-------------------------------------------------------------------------------
(* Specification *)

MainStep ==
  \/ UpdatePeers \/ AllStarted \/ Poll \/ PollBusy \/ AllTerminated \/ Join
  \/ ReturnFromRound \/ Exit
  \/ \E t \in Threads :
       StartThread(t) \/ TerminatePeer(t) \/ CloseTerminated(t) \/ DestroyPeer(t)

PeerThreadStep(t) ==
  ThreadStep(t) /\ UNCHANGED << mainPc, peersFound, requestMorePeers >>

ClientNext == MainStep \/ \E t \in Threads : PeerThreadStep(t)

\* The main thread goes on, and so does each peer thread unless it is in a send
\* (PeerFairness).  CloseTerminated waits for the socket like everyone else.
ClientFairness ==
  /\ WF_clientVars(MainStep)
  /\ \A t \in Threads :
       WF_clientVars(/\ ~InSend(t) /\ OwnStep(t)
                     /\ UNCHANGED << mainPc, peersFound, requestMorePeers >>)

ClientSpec == ClientInit /\ [][ClientNext]_clientVars /\ ClientFairness

-------------------------------------------------------------------------------
(* Properties *)

\* Every variable of the main thread has its type.
ClientTypeOK ==
  /\ PeerTypeOK
  /\ mainPc \in MainLabels
  /\ peersFound \in SUBSET Threads
  /\ requestMorePeers \in BOOLEAN

\* The program ends only with the torrent's bytes of every piece in the file,
\* unless the disk failed;
\* the "Download incomplete" exit of main is never taken.
ExitMeansComplete ==
  /\ mainPc # "incomplete"
  /\ mainPc = "done" /\ diskFaults = 0 => \A p \in Pieces : disk[p] = "Good"

\* No peer keeps a thread in a send for ever.
SendsReturn == \A t \in Threads : []<>~InSend(t)

\* Once main starts to end a round it gets past the joins, as long as every send
\* returns: each Terminate gets the socket it closes, between two calls of its
\* thread, and no thread outlives its flag.
RoundEnds == SendsReturn => (mainPc = "terminate" ~> mainPc = "destroy")

Polling == mainPc \in {"poll", "pollBusy"}

AllThreadsEnded == \A t \in peersFound : At(t, "ended")

\* When every thread of the round has ended and nothing is in progress, main
\* leaves the polling loop, to finish or to ask for new peers.
IdleRoundEnds ==
  (Polling /\ AllThreadsEnded /\ piecesInProgress = {})
    ~> mainPc \in {"update", "exit"}

\* piece_storage.h:58 "how many pieces are being downloaded at the moment": a
\* piece in progress is one that a running thread holds.
InProgressIsDownloaded ==
  \A p \in piecesInProgress :
    \E t \in Threads : pieceInProgress[t] = p /\ ~At(t, "ended")

\* main.cpp:74 "all peer connections are not working. Let's request new peers":
\* when they have all ended and pieces are missing, new peers are requested.
DeadRoundAsksForPeers ==
  (Polling /\ AllThreadsEnded /\ piecesSavedToDisc # Pieces) ~> mainPc = "update"

\* The message that thread t received brings a block it asked for, intact.
RequestAnswered(t) ==
  LET p == pieceInProgress[t] IN
    \E i \in DOMAIN blocks[p] : blocks[p][i] = "Pending" /\ blocks'[p][i] = "Good"

\* A step of a thread whose peer is a good one: set-up succeeds without a
\* KeepAlive, the peer has every piece, unchokes, and answers every request; it
\* need not say anything else, so a read with nothing requested may time out.
SeederStep(t) ==
  ~peer[t].terminated /\ peer'[t] # peer[t] =>
    /\ peer'[t].pc # "undo"
    /\ \A p \in Pieces : IsPieceAvailable(peer'[t].bitfield, p)
    /\ InCall(t, "bitfield") => peer'[t].pc # "bitfield"
    /\ At(t, "send") => peer'[t].pc # "caught"
    /\ InCall(t, "receive") =>
         /\ ~peer'[t].choked
         /\ peer[t].choked => peer'[t].pc = "loop"
         /\ peer[t].pendingBlock => RequestAnswered(t)
         /\ peer'[t].pc # "again"

\* A step of the main thread with a tracker that knows peers, and with threads
\* that have taken their first piece when main looks whether any is at work,
\* which is ten seconds after it started them.
TrackerStep ==
  /\ MainAt("update") /\ mainPc' # "update" => peersFound' # {}
  /\ MainAt("pollBusy") /\ mainPc' = "terminate" =>
       \A t \in peersFound : peer[t].pc \notin {"attempt", "runPick"}

\* When from some moment on the tracker finds good peers, the download
\* completes, whatever rounds of bad peers came before, as long as every send
\* returns and unless a piece was left in progress by a thread that ended (the
\* refill waits for it, see DeadRoundAsksForPeers).
DownloadCompletes ==
  /\ SendsReturn
  /\ <>[][TrackerStep /\ \A t \in Threads : SeederStep(t)]_clientVars
  /\ []InProgressIsDownloaded
  => <>(mainPc = "done")
==============================================================================
