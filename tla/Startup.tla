------------------------------- MODULE Startup -------------------------------
(***************************************************************************)
(* main.cpp from the command line to the first round of downloads, and the *)
(* requests for peers between the rounds: the arguments, LoadTorrentFile,  *)
(* the choice of pieces, the constructor of PieceStorage, and              *)
(* TorrentTracker::UpdatePeers.  The rounds are the module TorrentClient.  *)
(*                                                                         *)
(* The parser runs on the file and then on every answer of the tracker.    *)
(***************************************************************************)
EXTENDS TorrentFile, PieceLayout

CONSTANTS
  ArgLists,       \* command lines
  Dashed,         \* the arguments that begin with "-"
  Stoi,           \* what std::stoi makes of the arguments it accepts
  TorrentTexts,   \* what .torrent files hold, as tokens
  AnswerTexts     \* what trackers answer

ASSUME StartupAssumption ==
  /\ HashLength \in Nat \ {0}
  /\ \A text \in TorrentTexts \cup AnswerTexts : IsText(text)

VARIABLES
  phase,             \* the statement main is at; "aborted": an exception that
                     \* nobody catches, or undefined behaviour
  argv,              \* arguments not yet looked at
  options,           \* downloadDir, percent and torrentPath
  exitCode,
  tf,                \* torrentFile
  piecesToDownload,
  status,            \* of the tracker's answer: 200, or an error or no answer
  peers              \* peers_ of the tracker

mainVars    == << phase, argv, options, exitCode >>
resultVars  == << tf, piecesToDownload, status, peers >>
startupVars == << mainVars, resultVars, parserVars >>

NoFile == [announce |-> << >>, name |-> << >>, length |-> 0, pieceLength |-> 0,
           pieceHashes |-> << >>, infoHash |-> << >>]

StartupInit ==
  /\ phase = "args" /\ argv \in ArgLists /\ exitCode = 0
  /\ options = [dir |-> "", percent |-> -1, path |-> ""]
  /\ tf = NoFile /\ piecesToDownload = 0 /\ status = 0 /\ peers = << >>
  /\ ParserInit

Exit(code) ==
  /\ phase' = "exit" /\ exitCode' = code
  /\ UNCHANGED << argv, options, resultVars, parserVars >>

Goto(label) == phase' = label /\ UNCHANGED << argv, options, exitCode >>

-------------------------------------------------------------------------------
(* The arguments *)

TakeArgs(n) ==
  /\ argv' = SubSeq(argv, n + 1, Len(argv))
  /\ UNCHANGED << phase, exitCode, resultVars, parserVars >>

AtArg(arg) == phase = "args" /\ argv # << >> /\ Head(argv) = arg

ArgDir ==
  /\ AtArg("-d")
  /\ IF Len(argv) < 2 THEN Exit(1)
     ELSE options' = [options EXCEPT !.dir = argv[2]] /\ TakeArgs(2)

\* Mutant: the percentage is not bounded above.
ArgPercentUnbounded ==
  /\ AtArg("-p")
  /\ IF Len(argv) < 2 \/ argv[2] \notin DOMAIN Stoi \/ Stoi[argv[2]] < 0 THEN Exit(1)
     ELSE options' = [options EXCEPT !.percent = Stoi[argv[2]]] /\ TakeArgs(2)

ArgPercent ==
  /\ AtArg("-p")
  /\ IF Len(argv) < 2 \/ argv[2] \notin DOMAIN Stoi \/ Stoi[argv[2]] \notin 0 .. 100
     THEN Exit(1)
     ELSE options' = [options EXCEPT !.percent = Stoi[argv[2]]] /\ TakeArgs(2)

ArgHelp == (AtArg("-h") \/ AtArg("--help")) /\ Exit(0)

ArgUnknown ==
  /\ \E arg \in Dashed \ {"-d", "-p", "-h", "--help"} : AtArg(arg)
  /\ Exit(1)

ArgPath ==
  /\ phase = "args" /\ argv # << >> /\ Head(argv) \notin Dashed
  /\ options' = [options EXCEPT !.path = Head(argv)]
  /\ TakeArgs(1)

ArgsDone ==
  /\ phase = "args" /\ argv = << >>
  /\ IF options.dir = "" \/ options.percent < 0 \/ options.path = "" THEN Exit(1)
     ELSE Goto("load") /\ UNCHANGED << resultVars, parserVars >>

-------------------------------------------------------------------------------
(* LoadTorrentFile, the choice of pieces, PieceStorage *)

Read(texts) == \E text \in texts : StartParser(text)

Parse1 ==
  /\ phase \in {"parseFile", "parseAnswer"}
  /\ ParserStep
  /\ UNCHANGED << mainVars, resultVars >>

ReadFile ==
  /\ phase = "load"
  /\ Read(TorrentTexts)
  /\ Goto("parseFile")
  /\ UNCHANGED resultVars

\* main catches invalid_argument only, which nothing here throws.
LoadFails ==
  /\ phase = "parseFile"
  /\ parser \in {"stuck", "lost"} \/ (parser = "done" /\ LoadThrows(parsed))
  /\ Goto("aborted")
  /\ UNCHANGED << resultVars, parserVars >>

Load ==
  /\ phase = "parseFile"
  /\ parser = "done" /\ ~LoadThrows(parsed)
  /\ tf' \in LoadedFiles(parsed, HashedSpan)
  /\ Goto("select")
  /\ UNCHANGED << piecesToDownload, status, peers, parserVars >>

Selection == PiecesToDownload(Len(tf.pieceHashes), options.percent)

SelectNothing == phase = "select" /\ Selection = 0 /\ Exit(1)

Select ==
  /\ phase = "select" /\ Selection > 0
  /\ piecesToDownload' = Selection
  /\ Goto("construct")
  /\ UNCHANGED << tf, status, peers, parserVars >>

\* The constructor of PieceStorage: the file is created and resized, or an
\* exception ends the program.  A file without a name cannot be created.
Construct ==
  /\ phase = "construct"
  /\ Goto("aborted") \/ (tf.name # << >> /\ Goto("tracker"))
  /\ UNCHANGED << resultVars, parserVars >>

-------------------------------------------------------------------------------
(* UpdatePeers *)

\* Mutant: the old list stays when the request fails.
NoAnswerKeepsPeers ==
  /\ phase = "tracker"
  /\ status' = 0
  /\ Goto("rounds")
  /\ UNCHANGED << tf, piecesToDownload, peers, parserVars >>

\* No connection, a status other than 200, or an empty text.
NoAnswer ==
  /\ phase = "tracker"
  /\ status' = 0
  /\ peers' = << >>
  /\ Goto("rounds")
  /\ UNCHANGED << tf, piecesToDownload, parserVars >>

Answer ==
  /\ phase = "tracker"
  /\ status' = 200
  /\ peers' = << >>
  /\ Read(AnswerTexts)
  /\ data' # << >>
  /\ Goto("parseAnswer")
  /\ UNCHANGED << tf, piecesToDownload >>

\* Every exception of the parser is caught; reading on from a wrong place is
\* not an exception.
TakePeers ==
  /\ phase = "parseAnswer"
  /\ \/ /\ parser = "done" /\ ~Refused(parsed)
        /\ peers' = PeersIn(parsed)
        /\ Goto("rounds")
     \/ /\ parser = "stuck" \/ (parser = "done" /\ Refused(parsed))
        /\ Goto("rounds")
        /\ UNCHANGED peers
     \/ /\ parser = "lost"
        /\ Goto("aborted")
        /\ UNCHANGED peers
  /\ UNCHANGED << tf, piecesToDownload, status, parserVars >>

\* RunDownloadMultithread returned true.
RequestMorePeers ==
  /\ phase = "rounds"
  /\ Goto("tracker")
  /\ UNCHANGED << resultVars, parserVars >>

-------------------------------------------------------------------------------
(* Specification *)

StartupNext ==
  \/ ArgDir \/ ArgPercent \/ ArgHelp \/ ArgUnknown \/ ArgPath \/ ArgsDone
  \/ ReadFile \/ Parse1 \/ LoadFails \/ Load
  \/ SelectNothing \/ Select \/ Construct
  \/ NoAnswer \/ Answer \/ TakePeers \/ RequestMorePeers

\* One thread, which goes on as long as it can.
StartupSpec == StartupInit /\ [][StartupNext]_startupVars /\ WF_startupVars(StartupNext)

-------------------------------------------------------------------------------
(* Properties *)

Port == 0 .. 256 * 256 - 1   \* of two bytes

\* Every variable has the type of what it stands for.
StartupTypeOK ==
  /\ phase \in {"args", "load", "parseFile", "select", "construct", "tracker",
                "parseAnswer", "rounds", "exit", "aborted"}
  /\ options.percent \in -1 .. 100
  /\ exitCode \in {0, 1}
  /\ i \in 1 .. Len(data) + 2 /\ start \in 1 .. i /\ stop \in 1 .. i
  /\ tf.pieceHashes \in Seq(Seq(Byte))
  /\ \A k \in DOMAIN peers : peers[k].ip \in Seq(Byte) /\ peers[k].port \in Port

\* When a download begins with a torrent whose sizes fit, the pieces asked for
\* are the first of the file and cover it from the start, and so do the blocks
\* each piece: what is written lands beside, never on or behind, what is not.
DownloadTilesFile ==
  phase = "tracker" /\ WellFormed(tf) =>
    /\ piecesToDownload \in 1 .. Len(tf.pieceHashes)
    /\ PiecesTile(tf, piecesToDownload)
    /\ \A p \in 0 .. piecesToDownload - 1 : BlocksTile(PieceSize(tf, p))
===============================================================================
