---------------------------- MODULE StartupProofs ----------------------------
(***************************************************************************)
(* For every command line, every text of a torrent and every answer: what  *)
(* main hands to the download covers the beginning of the file, and what   *)
(* it takes out of a text is what the document has that was written there. *)
(***************************************************************************)
EXTENDS StartupChecks, PieceLayoutProofs, BencodeProofs

\* Once the arguments are accepted the percentage is one; once the pieces are
\* chosen, their number is the one it gives for this torrent, and not zero.
Chosen ==
  /\ "percent" \in DOMAIN options
  /\ options.percent \in -1 .. 100
  /\ phase \notin {"args", "exit"} => options.percent \in 0 .. 100
  /\ phase \in {"construct", "tracker", "parseAnswer", "rounds"} =>
       piecesToDownload = Selection /\ Selection > 0

\* It holds at first.
LEMMA ChosenInit == StartupInit => Chosen
<1> SUFFICES ASSUME StartupInit PROVE Chosen
  OBVIOUS
<1>1. phase = "args" /\ options = [dir |-> "", percent |-> -1, path |-> ""]
  BY DEF StartupInit
<1>2. phase = "args" /\ "percent" \in DOMAIN options
  BY <1>1
<1>3. options.percent \in -1 .. 100
  <2>1. options.percent = -1
    BY <1>1
  <2>2. -1 \in -1 .. 100
    OBVIOUS
  <2> QED
    BY <2>1, <2>2, Zenon
<1> QED
  BY <1>2, <1>3 DEF Chosen

\* Storing another option leaves the percentage alone.
LEMMA OtherOption ==
  ASSUME Chosen, NEW field, field # "percent", NEW value,
         options' = [options EXCEPT ![field] = value],
         phase' = phase, phase = "args"
  PROVE  Chosen'
<1>1. "percent" \in DOMAIN options' /\ options'.percent = options.percent
  BY DEF Chosen
<1> QED
  BY <1>1 DEF Chosen

\* The arguments, one at a time.
LEMMA ChosenArgs ==
  ASSUME Chosen, ArgDir \/ ArgPercent \/ ArgHelp \/ ArgUnknown \/ ArgPath \/ ArgsDone
  PROVE  Chosen'
<1>1. CASE ArgDir
  <2>1. CASE Exit(1)
    BY <2>1 DEF Chosen, Exit
  <2>2. CASE options' = [options EXCEPT !.dir = argv[2]] /\ TakeArgs(2)
    BY <1>1, <2>2, OtherOption DEF ArgDir, AtArg, TakeArgs
  <2> QED
    BY <1>1, <2>1, <2>2 DEF ArgDir
<1>2. CASE ArgPercent
  <2>1. CASE Exit(1)
    BY <2>1 DEF Chosen, Exit
  <2>2. CASE /\ options' = [options EXCEPT !.percent = Stoi[argv[2]]] /\ TakeArgs(2)
             /\ Stoi[argv[2]] \in 0 .. 100
    <3>1. options'.percent \in -1 .. 100 /\ "percent" \in DOMAIN options'
      BY <2>2 DEF Chosen
    <3>2. phase' = "args"
      BY <1>2, <2>2 DEF ArgPercent, AtArg, TakeArgs
    <3> QED
      BY <3>1, <3>2 DEF Chosen
  <2> QED
    BY <1>2, <2>1, <2>2 DEF ArgPercent
<1>3. CASE ArgHelp
  BY <1>3 DEF Chosen, ArgHelp, AtArg, Exit
<1>4. CASE ArgUnknown
  BY <1>4 DEF Chosen, ArgUnknown, AtArg, Exit
<1>5. CASE ArgPath
  BY <1>5, OtherOption DEF ArgPath, TakeArgs
<1>6. CASE ArgsDone
  <2>1. CASE Exit(1)
    BY <2>1 DEF Chosen, Exit
  <2>2. CASE ~(options.percent < 0) /\ Goto("load")
    <3>1. options' = options /\ phase' = "load"
      BY <2>2 DEF Goto
    <3>2. options.percent \in 0 .. 100
      BY <2>2 DEF Chosen
    <3> QED
      BY <3>1, <3>2 DEF Chosen
  <2> QED
    BY <1>6, <2>1, <2>2 DEF ArgsDone
<1> QED
  BY <1>1, <1>2, <1>3, <1>4, <1>5, <1>6

\* What happens before the pieces are chosen, and the choice.
LEMMA ChosenLoad ==
  ASSUME Chosen, ReadFile \/ LoadFails \/ Load \/ SelectNothing \/ Select
  PROVE  Chosen'
<1>1. CASE ReadFile
  BY <1>1 DEF Chosen, ReadFile, Goto
<1>2. CASE LoadFails
  BY <1>2 DEF Chosen, LoadFails, Goto
<1>3. CASE Load
  BY <1>3 DEF Chosen, Load, Goto
<1>4. CASE SelectNothing
  BY <1>4 DEF Chosen, SelectNothing, Exit
<1>5. CASE Select
  BY <1>5 DEF Chosen, Select, Selection, Goto
<1> QED
  BY <1>1, <1>2, <1>3, <1>4, <1>5

\* Whatever the rest changes, it leaves the choice and the torrent alone.
LEMMA ChosenKept ==
  ASSUME Chosen, UNCHANGED << options, tf, piecesToDownload >>,
         \/ phase' = phase
         \/ phase' = "aborted" /\ phase \in {"construct", "parseAnswer"}
         \/ /\ phase \in {"construct", "tracker", "parseAnswer", "rounds"}
            /\ phase' \in {"tracker", "parseAnswer", "rounds"}
  PROVE  Chosen'
BY DEF Chosen, Selection

\* What happens once the pieces are chosen.
LEMMA ChosenRest ==
  ASSUME Chosen, Parse1 \/ Construct \/ NoAnswer \/ Answer \/ TakePeers \/ RequestMorePeers
  PROVE  Chosen'
<1>1. CASE Parse1
  BY <1>1, ChosenKept DEF Parse1, mainVars, resultVars
<1>2. CASE Construct
  BY <1>2, ChosenKept DEF Construct, resultVars, Goto
<1>3. CASE NoAnswer
  BY <1>3, ChosenKept DEF NoAnswer, Goto
<1>4. CASE Answer
  BY <1>4, ChosenKept DEF Answer, Goto
<1>5. CASE TakePeers
  BY <1>5, ChosenKept DEF TakePeers, Goto
<1>6. CASE RequestMorePeers
  BY <1>6, ChosenKept DEF RequestMorePeers, resultVars, Goto
<1> QED
  BY <1>1, <1>2, <1>3, <1>4, <1>5, <1>6

\* It holds after every step.
LEMMA ChosenNext == Chosen /\ [StartupNext]_startupVars => Chosen'
<1> SUFFICES ASSUME Chosen, [StartupNext]_startupVars PROVE Chosen'
  OBVIOUS
<1>1. CASE UNCHANGED startupVars
  BY <1>1, ChosenKept DEF startupVars, mainVars, resultVars
<1>2. CASE StartupNext
  BY <1>2, ChosenArgs, ChosenLoad, ChosenRest DEF StartupNext
<1> QED
  BY <1>1, <1>2

\* A piece that is not empty has a length its blocks can tile.
LEMMA SizeIsLength ==
  ASSUME NEW file, WellFormed(file), NEW p \in Nat, PieceSize(file, p) > 0
  PROVE  PieceSize(file, p) \in Nat \ {0}
<1>1. file.pieceLength \in Nat \ {0} /\ file.length \in Nat /\ PieceOffset(file, p) \in Nat
  BY NextOffset DEF WellFormed
<1> QED
  BY <1>1 DEF PieceSize

\* It implies what the download needs.
LEMMA ChosenTiles == Chosen => DownloadTilesFile
<1> SUFFICES ASSUME Chosen, phase = "tracker", WellFormed(tf)
    PROVE  /\ piecesToDownload \in 1 .. Len(tf.pieceHashes)
           /\ PiecesTile(tf, piecesToDownload)
           /\ \A p \in 0 .. piecesToDownload - 1 : BlocksTile(PieceSize(tf, p))
  BY DEF DownloadTilesFile
<1>1. Len(tf.pieceHashes) \in Nat
  BY DEF WellFormed
<1>2. piecesToDownload \in 0 .. Len(tf.pieceHashes) /\ piecesToDownload > 0
  BY <1>1, SelectionFits DEF Chosen, Selection
<1>3. PiecesTile(tf, piecesToDownload)
  BY <1>2, PiecesTileEveryFile
<1>4. \A p \in 0 .. piecesToDownload - 1 : PieceSize(tf, p) \in Nat \ {0}
  BY <1>2, <1>3, SizeIsLength DEF PiecesTile
<1> QED
  BY <1>1, <1>2, <1>3, <1>4, BlocksTileEveryPiece

\* Whatever the torrent and the percentage, a download of a torrent whose sizes
\* fit begins with pieces that tile the beginning of the file and with blocks
\* that tile each piece.
THEOREM DownloadStartsTiled == StartupSpec => []DownloadTilesFile
BY ChosenInit, ChosenNext, ChosenTiles, PTL DEF StartupSpec

-------------------------------------------------------------------------------
(* The types of all variables: the places of the parser stay within its data, *)
(* and what is taken out of a parsed value is made of bytes.                  *)

\* Values: strings are bytes, and the set has every part of its containers.
Closed(values) ==
  \A v \in values :
    /\ v.t = "str" => v.s \in Seq(Byte)
    /\ v.t = "list" => v.items \in Seq(values)
    /\ v.t = "dict" => \A key \in DOMAIN v.map : v.map[key] \in values

Containers(values) == {v \in values : v.t \in {"list", "dict"}}
Frames(values) == [value : Containers(values), keyed : BOOLEAN, key : Seq(Byte)]

Holding(values) == Closed(values) /\ parsed \in values /\ stack \in Seq(Frames(values))

Placed ==
  /\ IsText(data)
  /\ i \in 1 .. Len(data) + 2 /\ start \in 1 .. i /\ stop \in 1 .. i
  /\ Running => i <= Len(data) + 1

ParserInv == Placed /\ \E values : Holding(values)

\* A token is read from the data, or it is the zero byte behind the end.
LEMMA TokenFacts ==
  ASSUME Placed
  PROVE  /\ Len(data) \in Nat
         /\ IsToken(Token)
         /\ i > Len(data) => Token = Other
<1>1. data \in Seq(Range(data)) /\ Len(data) \in Nat
  BY DEF Placed, IsText
<1>2. ASSUME i <= Len(data) PROVE IsToken(Token)
  <2>1. i \in 1 .. Len(data) /\ i \in DOMAIN data
    BY <1>1, <1>2 DEF Placed
  <2>2. data[i] \in Range(data)
    BY <2>1 DEF Range
  <2> QED
    BY <1>2, <2>2 DEF Placed, IsText, Token
<1>3. IsToken(Other)
  BY DEF IsToken, Other
<1>4. i > Len(data) => Token = Other
  BY <1>1 DEF Token, Placed
<1> QED
  BY <1>1, <1>2, <1>3, <1>4 DEF Placed

\* A new parser is at the beginning of its text.
LEMMA ParserStart ==
  ASSUME NEW text, IsText(text), StartParser(text)
  PROVE  ParserInv'
<1>1. Placed'
  <2>1. Len(text) \in Nat
    BY DEF IsText
  <2> QED
    BY <2>1 DEF StartParser, Placed, Running
<1>2. Holding({Number(0)})'
  BY DEF StartParser, Holding, Closed, Number
<1> QED
  BY <1>1, <1>2 DEF ParserInv

\* A value and its parts can be added.
LEMMA ClosedAdd ==
  ASSUME NEW values, Closed(values), NEW v,
         v.t = "str" => v.s \in Seq(Byte),
         v.t = "list" => v.items \in Seq(values),
         v.t = "dict" => \A key \in DOMAIN v.map : v.map[key] \in values
  PROVE  Closed(values \cup {v})
<1>1. Seq(values) \subseteq Seq(values \cup {v})
  OBVIOUS
<1> QED
  BY <1>1 DEF Closed

\* A container filled with a value is a frame over one value more.
LEMMA FilledFrame ==
  ASSUME NEW values, Closed(values), NEW frame \in Frames(values), NEW value \in values
  PROVE  \E more : /\ Closed(more) /\ values \subseteq more
                   /\ Filled(frame, value) \in Frames(more)
<1> DEFINE new == Filled(frame, value).value
           more == values \cup {new}
<1>1. /\ frame.value \in values
      /\ frame.value.t = "list" \/ frame.value.t = "dict"
  BY DEF Frames, Containers
<1>2. CASE frame.value.t = "list"
  <2>1. new = ListOf(Append(frame.value.items, value))
        /\ Filled(frame, value) = NewFrame(new)
    BY <1>2 DEF Filled, NewFrame
  <2>2. Append(frame.value.items, value) \in Seq(values)
    BY <1>1, <1>2 DEF Closed
  <2>3. new.t = "list" /\ new.items \in Seq(values)
    BY <2>1, <2>2 DEF ListOf
  <2>4. Closed(more)
    <3> HIDE DEF new
    <3> QED
      BY <2>3, ClosedAdd
  <2>5. NewFrame(new) \in Frames(more)
    <3> HIDE DEF new
    <3> QED
      BY <2>3 DEF NewFrame, Frames, Containers
  <2> QED
    BY <2>1, <2>4, <2>5
<1>3. CASE frame.value.t = "dict"
  <2> DEFINE map == Assigned(frame.value.map, frame.key, value)
  <2>1. new = DictOf(map) /\ Filled(frame, value) = NewFrame(new)
    BY <1>3 DEF Filled, NewFrame
  <2>2. \A key \in DOMAIN map : map[key] \in values
    BY <1>1, <1>3 DEF Closed, Assigned
  <2>3. new.t = "dict" /\ \A key \in DOMAIN new.map : new.map[key] \in values
    <3> HIDE DEF map
    <3> QED
      BY <2>1, <2>2 DEF DictOf
  <2>4. Closed(more)
    <3> HIDE DEF new
    <3> QED
      BY <2>3, ClosedAdd
  <2>5. NewFrame(new) \in Frames(more)
    <3> HIDE DEF new
    <3> QED
      BY <2>3 DEF NewFrame, Frames, Containers
  <2> QED
    BY <2>1, <2>4, <2>5
<1> QED
  BY <1>1, <1>2, <1>3

\* Frames over some values are frames over more values.
LEMMA MoreFrames ==
  ASSUME NEW values, NEW more, values \subseteq more
  PROVE  Seq(Frames(values)) \subseteq Seq(Frames(more))
<1>1. Frames(values) \subseteq Frames(more)
  BY DEF Frames, Containers
<1> QED
  BY <1>1

\* ParseAny returns a value: the places and the values stay as they should.
LEMMA YieldKeepsInv ==
  ASSUME Placed, NEW values, Closed(values), parsed \in values,
         NEW value \in values, NEW open \in Seq(Frames(values)), Yield(value, open)
  PROVE  /\ \E more : Holding(more)'
         /\ stop' \in {stop, i'}
<1>1. CASE open = << >>
  BY <1>1 DEF Yield, Holding
<1>2. CASE open # << >>
  <2>1. Last(open) \in Frames(values) /\ Front(open) \in Seq(Frames(values))
    BY <1>2 DEF Last, Front
  <2>2. PICK more : /\ Closed(more) /\ values \subseteq more
                    /\ Filled(Last(open), value) \in Frames(more)
    BY <2>1, FilledFrame
  <2>3. Front(open) \in Seq(Frames(more))
    BY <2>1, <2>2, MoreFrames
  <2>4. stack' = Append(Front(open), Filled(Last(open), value))
        /\ parsed' = parsed /\ stop' \in {stop, i'}
    BY <1>2 DEF Yield
  <2>5. stack' \in Seq(Frames(more))
    BY <2>2, <2>3, <2>4
  <2> QED
    BY <2>2, <2>4, <2>5 DEF Holding
<1> QED
  BY <1>1, <1>2

\* One lemma for what a step of ParseAny may do with places and values.
LEMMA StepKeepsInv ==
  ASSUME Placed, data' = data, i' \in {i, i + 1},
         i' <= Len(data) + 1 \/ (~Running' /\ i' <= Len(data) + 2),
         start' \in {start, i'}, stop' \in {stop, i'},
         \E values : Holding(values)'
  PROVE  ParserInv'
<1>1. Len(data) \in Nat
  BY TokenFacts
<1>2. Placed'
  BY <1>1 DEF Placed
<1> QED
  BY <1>2 DEF ParserInv

\* Every step of ParseAny keeps the places and the values as they should be.
LEMMA ParserKeepsInv == ParserInv /\ ParserStep => ParserInv'
<1> SUFFICES ASSUME ParserInv, ParserStep PROVE ParserInv'
  OBVIOUS
<1>1. Placed /\ Running
  BY DEF ParserInv, ParserStep, ParseInt, ParseString, OpenContainer, ParseOther,
         ParseKey, CloseContainer
<1>2. PICK values : Holding(values)
  BY DEF ParserInv
<1>3. /\ Len(data) \in Nat /\ i \in Nat /\ i <= Len(data) + 1
      /\ IsToken(Token) /\ (i > Len(data) => Token = Other)
  BY <1>1, TokenFacts DEF Placed
<1>4. Closed(values) /\ parsed \in values /\ stack \in Seq(Frames(values))
  BY <1>2 DEF Holding
<1>5. ASSUME Token.t = "int" \/ Token.t = "str" \/ Token = EndToken \/ Token \in {ListToken, DictToken}
      PROVE  i <= Len(data)
  BY <1>3, <1>5 DEF Other, EndToken, ListToken, DictToken
\* a value without parts is returned
<1>6. ASSUME NEW value, value.t = "int" \/ (value.t = "str" /\ value.s \in Seq(Byte)),
             Yield(value, stack)
      PROVE  /\ \E more : Holding(more)'
             /\ stop' \in {stop, i'}
  <2>1. Closed(values \cup {value})
    BY <1>4, <1>6, ClosedAdd
  <2>2. stack \in Seq(Frames(values \cup {value}))
    BY <1>4, MoreFrames
  <2> QED
    BY <1>1, <1>4, <1>6, <2>1, <2>2, YieldKeepsInv
<1>7. CASE ParseInt
  <2>1. /\ i' = i + 1 /\ i <= Len(data) /\ UNCHANGED << data, start >>
        /\ Token.t = "int" /\ Yield(Token, stack)
    BY <1>5, <1>7 DEF ParseInt
  <2>2. stop' \in {stop, i'} /\ \E more : Holding(more)'
    BY <1>6, <2>1
  <2> QED
    BY <1>1, <1>3, <2>1, <2>2, StepKeepsInv
<1>8. CASE ParseString
  <2>1. /\ i' = i + 1 /\ i <= Len(data) /\ data' = data /\ start' \in {start, i'}
        /\ Token.t = "str" /\ Token.s \in Seq(Byte) /\ Yield(Token, stack)
    BY <1>3, <1>5, <1>8 DEF ParseString, MarkStart, IsToken, Byte
  <2>2. stop' \in {stop, i'} /\ \E more : Holding(more)'
    BY <1>6, <2>1
  <2> QED
    BY <1>1, <1>3, <2>1, <2>2, StepKeepsInv
<1>9. CASE OpenContainer
  <2> DEFINE new == IF Token = ListToken THEN ListOf(<< >>) ELSE DictOf(<< >>)
             more == values \cup {new}
  <2>1. /\ i' = i + 1 /\ i <= Len(data)
        /\ UNCHANGED << data, start, stop, parsed, parser >>
        /\ stack' = Append(stack, NewFrame(new))
    BY <1>5, <1>9 DEF OpenContainer
  <2>2. \/ new.t = "list" /\ new.items = << >>
        \/ new.t = "dict" /\ new.map = << >>
    BY DEF ListOf, DictOf
  <2> HIDE DEF new
  <2>3. Closed(more)
    <3>1. << >> \in Seq(values) /\ DOMAIN << >> = {}
      OBVIOUS
    <3>2. /\ new.t = "str" => new.s \in Seq(Byte)
          /\ new.t = "list" => new.items \in Seq(values)
          /\ new.t = "dict" => \A key \in DOMAIN new.map : new.map[key] \in values
      BY <2>2, <3>1
    <3> QED
      BY <1>4, <3>2, ClosedAdd
  <2>4. stack \in Seq(Frames(more))
    BY <1>4, MoreFrames
  <2>5. NewFrame(new) \in Frames(more)
    BY <2>2 DEF NewFrame, Frames, Containers
  <2>6. stack' \in Seq(Frames(more)) /\ parsed' \in more
    BY <1>4, <2>1, <2>4, <2>5
  <2>7. \E v : Holding(v)'
    BY <2>3, <2>6 DEF Holding
  <2> QED
    BY <1>1, <1>3, <2>1, <2>7, StepKeepsInv
<1>10. CASE ParseOther
  <2>1. UNCHANGED << data, i, start >>
    BY <1>10 DEF ParseOther
  <2>2. stop' \in {stop, i'} /\ \E more : Holding(more)'
    <3>1. CASE UNCHANGED << stack, stop, parsed >>
      BY <1>4, <3>1 DEF Holding
    <3>2. CASE Yield(Number(0), stack)
      <4>1. Number(0).t = "int"
        BY DEF Number
      <4> QED
        BY <1>6, <3>2, <4>1
    <3> QED
      BY <1>10, <3>1, <3>2 DEF ParseOther
  <2> QED
    BY <1>1, <1>3, <2>1, <2>2, StepKeepsInv
<1>11. CASE ParseKey
  <2> DEFINE s == IF Token.t = "str" THEN Token.s ELSE << >>
  <2>1. /\ i' = i + 1 /\ UNCHANGED << data, stop, parsed >>
        /\ start' \in {start, i'}
        /\ stack' = [stack EXCEPT ![Len(stack)].keyed = TRUE, ![Len(stack)].key = s]
        /\ parser' = IF Token.t = "int" \/ i > Len(data) THEN "lost" ELSE parser
    BY <1>11 DEF ParseKey, MarkStart
  <2>2. s \in Seq(Byte)
    BY <1>3 DEF IsToken, Byte
  <2> HIDE DEF s
  <2>3. stack # << >> /\ Len(stack) \in DOMAIN stack /\ stack[Len(stack)] \in Frames(values)
    BY <1>4, <1>11 DEF ParseKey, AwaitsKey
  <2> DEFINE top == [[stack[Len(stack)] EXCEPT !.keyed = TRUE] EXCEPT !.key = s]
  <2>4. top \in Frames(values)
    BY <2>2, <2>3 DEF Frames
  <2>5. stack' = [stack EXCEPT ![Len(stack)] = top]
    BY <1>4, <2>1, <2>3
  <2> HIDE DEF top
  <2>6. stack' \in Seq(Frames(values))
    BY <1>4, <2>3, <2>4, <2>5, ExceptSeq
  <2>7. \E v : Holding(v)'
    BY <1>4, <2>1, <2>6 DEF Holding
  <2>8. i' <= Len(data) + 1 \/ (~Running' /\ i' <= Len(data) + 2)
    BY <1>3, <2>1 DEF Running
  <2> QED
    BY <1>1, <2>1, <2>7, <2>8, StepKeepsInv
<1>12. CASE CloseContainer
  <2>1. /\ i' = i + 1 /\ i <= Len(data) /\ UNCHANGED << data, start >>
        /\ Yield(Top.value, Front(stack)) /\ stack # << >>
    BY <1>5, <1>12 DEF CloseContainer, InList, AwaitsKey
  <2>2. Top.value \in values /\ Front(stack) \in Seq(Frames(values))
    <3>1. stack[Len(stack)] \in Frames(values) /\ Front(stack) \in Seq(Frames(values))
      BY <1>4, <2>1 DEF Front
    <3>2. stack[Len(stack)].value \in values
      BY <3>1 DEF Frames, Containers
    <3> QED
      BY <3>1, <3>2 DEF Top, Last
  <2>3. stop' \in {stop, i'} /\ \E more : Holding(more)'
    BY <1>1, <1>4, <2>1, <2>2, YieldKeepsInv
  <2> QED
    BY <1>1, <1>3, <2>1, <2>3, StepKeepsInv
<1> QED
  BY <1>7, <1>8, <1>9, <1>10, <1>11, <1>12 DEF ParserStep

-------------------------------------------------------------------------------
(* What is taken out of a value *)

\* A part lies within the text.
LEMMA WithinText ==
  ASSUME NEW len \in Nat, NEW n \in Nat \ {0}, NEW k \in 1 .. len \div n
  PROVE  (k - 1) * n + 1 >= 1 /\ k * n <= len /\ (k - 1) * n \in Nat /\ k * n \in Nat
<1> DEFINE q == len \div n
<1>1. q \in Nat /\ q * n <= len
  BY SMTT(30)
<1>2. PICK d \in Nat : q = k + d
  BY <1>1, q - k \in Nat
<1> HIDE DEF q
<1>3. q * n = k * n + d * n /\ d * n \in Nat /\ k * n \in Nat
  BY <1>2, SMTT(30)
<1>4. (k - 1) * n \in Nat
  BY <1>2, SMTT(30)
<1> QED
  BY <1>1, <1>3, <1>4

\* Slices of a text are strings of their length.
LEMMA SlicesAreBytes ==
  ASSUME NEW text \in Seq(Byte), NEW n \in Nat \ {0}
  PROVE  /\ Slices(text, n) \in Seq(Seq(Byte))
         /\ \A k \in DOMAIN Slices(text, n) : Len(Slices(text, n)[k]) = n
<1>1. Len(text) \in Nat /\ Len(text) \div n \in Nat
  BY SMTT(30)
<1>2. ASSUME NEW k \in 1 .. Len(text) \div n
      PROVE  /\ SubSeq(text, (k - 1) * n + 1, k * n) \in Seq(Byte)
             /\ Len(SubSeq(text, (k - 1) * n + 1, k * n)) = n
  <2> DEFINE from == (k - 1) * n
             to == k * n
  <2>1. from \in Nat /\ to \in Nat /\ to <= Len(text)
    BY <1>1, WithinText
  <2>2. to = from + n
    BY SMTT(30)
  <2> HIDE DEF from, to
  <2>3. \A j \in from + 1 .. to : text[j] \in Byte
    BY <2>1
  <2>4. SubSeq(text, from + 1, to) \in Seq(Byte) /\ Len(SubSeq(text, from + 1, to)) = n
    BY <2>1, <2>2, <2>3
  <2> QED
    BY <2>4 DEF from, to
<1>3. Slices(text, n) = [k \in 1 .. Len(text) \div n |-> SubSeq(text, (k - 1) * n + 1, k * n)]
  BY DEF Slices
<1>4. /\ Slices(text, n) \in [1 .. Len(text) \div n -> Seq(Byte)]
      /\ \A k \in 1 .. Len(text) \div n : Len(Slices(text, n)[k]) = n
  <2> DEFINE m == Len(text) \div n
             part(k) == SubSeq(text, (k - 1) * n + 1, k * n)
  <2>1. \A k \in 1 .. m : part(k) \in Seq(Byte) /\ Len(part(k)) = n
    BY <1>2
  <2>2. Slices(text, n) = [k \in 1 .. m |-> part(k)]
    BY <1>3
  <2> HIDE DEF m, part
  <2>3. Slices(text, n) \in [1 .. m -> Seq(Byte)]
        /\ \A k \in 1 .. m : Len(Slices(text, n)[k]) = n
    BY <2>1, <2>2
  <2> QED
    BY <2>3 DEF m
<1>5. Slices(text, n) \in Seq(Seq(Byte))
  BY <1>1, <1>4, SeqDef
<1> QED
  BY <1>4, <1>5

\* The text of the hashes in a parsed value that LoadTorrentFile does not throw at.
LEMMA PiecesAreBytes ==
  ASSUME NEW values, Closed(values), NEW value \in values, ~LoadThrows(value), Has(value, Key.info)
  PROVE  TextAt(value.map[Key.info], Key.pieces) \in Seq(Byte)
<1> DEFINE info == value.map[Key.info]
<1>1. info \in values /\ info.t = "dict"
  BY DEF LoadThrows, WrongType, Has, Closed
<1>2. ~WrongType(info, Key.pieces, "str")
  BY <1>1 DEF LoadThrows
<1> HIDE DEF info
<1>3. Has(info, Key.pieces) =>
        info.map[Key.pieces] \in values /\ info.map[Key.pieces].t = "str"
  BY <1>1, <1>2 DEF Has, WrongType, Closed
<1>4. Has(info, Key.pieces) => info.map[Key.pieces].s \in Seq(Byte)
  BY <1>3 DEF Closed
<1>5. << >> \in Seq(Byte)
  OBVIOUS
<1>6. TextAt(info, Key.pieces) \in Seq(Byte)
  BY <1>4, <1>5 DEF TextAt
<1> QED
  BY <1>6 DEF info

\* The hashes LoadTorrentFile stores.
LEMMA HashesAreBytes ==
  ASSUME NEW values, Closed(values), NEW value \in values, ~LoadThrows(value),
         NEW span, NEW file \in LoadedFiles(value, span)
  PROVE  file.pieceHashes \in Seq(Seq(Byte))
<1> DEFINE info == IF Has(value, Key.info) THEN value.map[Key.info] ELSE DictOf(<< >>)
<1>1. TextAt(info, Key.pieces) \in Seq(Byte)
  <2>1. CASE Has(value, Key.info)
    BY <2>1, PiecesAreBytes
  <2>2. CASE ~Has(value, Key.info)
    <3>1. info.map = << >>
      BY <2>2 DEF DictOf
    <3> HIDE DEF info
    <3>2. ~Has(info, Key.pieces)
      BY <3>1 DEF Has
    <3>3. << >> \in Seq(Byte)
      OBVIOUS
    <3> QED
      BY <3>2, <3>3 DEF TextAt
  <2> QED
    BY <2>1, <2>2
<1>2. file.pieceHashes = Slices(TextAt(info, Key.pieces), HashLength)
  BY DEF LoadedFiles, Hashes
<1> HIDE DEF info
<1> QED
  BY <1>1, <1>2, SlicesAreBytes, StartupAssumption

\* Addresses of four bytes, ports of two.
PeersTyped(list) ==
  \A k \in DOMAIN list : list[k].ip \in Seq(Byte) /\ list[k].port \in Port

\* The text of the peers in an answer that is not refused.
LEMMA PeersTextIsBytes ==
  ASSUME NEW values, Closed(values), NEW value \in values, ~Refused(value)
  PROVE  TextAt(value, Key.peers) = value.map[Key.peers].s /\ TextAt(value, Key.peers) \in Seq(Byte)
<1>1. /\ value.t = "dict" /\ Key.peers \in DOMAIN value.map
      /\ value.map[Key.peers].t = "str"
  BY DEF Refused, Has, WrongType
<1>2. value.map[Key.peers] \in values
  BY <1>1 DEF Closed
<1> QED
  BY <1>1, <1>2 DEF Closed, TextAt, Has

\* The peers UpdatePeers stores.
LEMMA PeersAreAddresses ==
  ASSUME NEW values, Closed(values), NEW value \in values, ~Refused(value)
  PROVE  PeersTyped(PeersIn(value))
<1>1. TextAt(value, Key.peers) \in Seq(Byte)
  BY PeersTextIsBytes
<1> DEFINE slices == Slices(TextAt(value, Key.peers), 6)
<1>2. slices \in Seq(Seq(Byte)) /\ \A k \in DOMAIN slices : Len(slices[k]) = 6
  <2>1. 6 \in Nat \ {0}
    OBVIOUS
  <2> QED
    BY <1>1, <2>1, SlicesAreBytes
<1>3. PeersIn(value) = [k \in DOMAIN slices |-> PeerOf(slices[k])]
  BY DEF PeersIn
<1> HIDE DEF slices
<1>4. ASSUME NEW k \in DOMAIN slices
      PROVE  PeerOf(slices[k]).ip \in Seq(Byte) /\ PeerOf(slices[k]).port \in Port
  <2>1. slices[k] \in Seq(Byte) /\ Len(slices[k]) = 6
    BY <1>2
  <2>2. \A j \in 1 .. 6 : slices[k][j] \in Byte
    <3>1. \A j \in 1 .. Len(slices[k]) : slices[k][j] \in Byte
      BY <2>1, ElementOfSeq
    <3> QED
      BY <2>1, <3>1
  <2>3. SubSeq(slices[k], 1, 4) \in Seq(Byte)
    <3>1. \A j \in 1 .. 4 : slices[k][j] \in Byte
      BY <2>2
    <3> QED
      BY <3>1, SubSeqProperties
  <2>4. slices[k][5] * 256 + slices[k][6] \in Port
    <3>1. \A high, low \in Byte : high * 256 + low \in Port
      <4> SUFFICES ASSUME NEW high \in Byte, NEW low \in Byte
                   PROVE  high * 256 + low \in Port
        OBVIOUS
      <4>1. high \in Int /\ low \in Int /\ 0 <= high /\ high <= 255 /\ 0 <= low /\ low <= 255
        BY DEF Byte
      <4>2. high * 256 + low \in Int /\ 0 <= high * 256 + low /\ high * 256 + low <= 256 * 256 - 1
        BY <4>1
      <4>3. \A top, n \in Int : 0 <= n /\ n <= top => n \in 0 .. top
        OBVIOUS
      <4>4. 256 * 256 - 1 \in Int
        OBVIOUS
      <4> QED
        BY <4>2, <4>3, <4>4, Zenon DEF Port
    <3> QED
      BY <2>2, <3>1
  <2> QED
    BY <2>3, <2>4 DEF PeerOf
<1> QED
  <2>1. DOMAIN PeersIn(value) = DOMAIN slices
        /\ \A k \in DOMAIN slices : PeersIn(value)[k] = PeerOf(slices[k])
    BY <1>3
  <2> QED
    BY <1>4, <2>1, Zenon DEF PeersTyped

-------------------------------------------------------------------------------
(* main *)

Phases == {"args", "load", "parseFile", "select", "construct", "tracker",
           "parseAnswer", "rounds", "exit", "aborted"}

MainTyped ==
  /\ phase \in Phases /\ exitCode \in {0, 1}
  /\ tf.pieceHashes \in Seq(Seq(Byte)) /\ PeersTyped(peers)

TypeInv == MainTyped /\ ParserInv

\* An empty list of peers.
LEMMA NoPeers == PeersTyped(<< >>)
<1>1. DOMAIN << >> = {}
  OBVIOUS
<1> QED
  BY <1>1, Zenon DEF PeersTyped

\* The types hold at first.
LEMMA TypeInit == StartupInit => TypeInv
<1> SUFFICES ASSUME StartupInit PROVE TypeInv
  OBVIOUS
<1>1. Placed
  <2>1. IsText(<< >>)
    BY DEF IsText, Range
  <2> QED
    <3>1. data = << >> /\ i = 1 /\ start = 1 /\ stop = 1 /\ ~Running
      BY DEF StartupInit, ParserInit, Running
    <3>2. Len(data) = 0
      BY <3>1
    <3> QED
      BY <2>1, <3>1, <3>2 DEF Placed
<1>2. Holding({Number(0)})
  <2>1. Closed({Number(0)})
    BY DEF Closed, Number
  <2>2. parsed \in {Number(0)} /\ stack = << >>
    BY DEF StartupInit, ParserInit
  <2> QED
    BY <2>1, <2>2 DEF Holding
<1>3. PeersTyped(<< >>) /\ NoFile.pieceHashes \in Seq(Seq(Byte))
  BY NoPeers DEF NoFile
<1> QED
  BY <1>1, <1>2, <1>3 DEF StartupInit, TypeInv, MainTyped, ParserInv, Phases

\* A step that leaves the parser, the torrent and the list of peers alone.
LEMMA TypeKept ==
  ASSUME TypeInv, UNCHANGED << tf, peers, parserVars >>,
         phase' \in Phases, exitCode' \in {0, 1}
  PROVE  TypeInv'
<1>1. UNCHANGED << data, i, start, stop, stack, parsed, parser >>
  BY DEF parserVars
<1>2. Placed'
  BY <1>1 DEF TypeInv, ParserInv, Placed, Running
<1>3. PICK values : Holding(values)
  BY DEF TypeInv, ParserInv
<1>4. Holding(values)'
  BY <1>1, <1>3 DEF Holding
<1>5. ParserInv'
  BY <1>2, <1>4 DEF ParserInv
<1>6. MainTyped'
  BY DEF TypeInv, MainTyped
<1> QED
  BY <1>5, <1>6 DEF TypeInv

\* The types hold after every step.
LEMMA TypeNext == TypeInv /\ [StartupNext]_startupVars => TypeInv'
<1> SUFFICES ASSUME TypeInv, [StartupNext]_startupVars PROVE TypeInv'
  OBVIOUS
<1>1. phase \in Phases /\ exitCode \in {0, 1}
  BY DEF TypeInv, MainTyped
<1>2. CASE UNCHANGED startupVars
  BY <1>1, <1>2, TypeKept DEF startupVars, mainVars, resultVars
<1>3. CASE \E code \in {0, 1} : Exit(code)
  BY <1>3, TypeKept DEF Exit, resultVars, Phases
<1>4. CASE \E n \in Nat : TakeArgs(n)
  BY <1>1, <1>4, TypeKept DEF TakeArgs, resultVars
<1>5. CASE \E label \in Phases : Goto(label) /\ UNCHANGED << tf, peers, parserVars >>
  BY <1>1, <1>5, TypeKept DEF Goto
<1>6. CASE ArgDir \/ ArgPercent \/ ArgHelp \/ ArgUnknown \/ ArgPath \/ ArgsDone
  BY <1>3, <1>4, <1>5, <1>6
    DEF ArgDir, ArgPercent, ArgHelp, ArgUnknown, ArgPath, ArgsDone, resultVars, Phases
<1>7. ASSUME NEW texts \in {TorrentTexts, AnswerTexts}, Read(texts) PROVE ParserInv'
  <2>1. PICK text \in texts : StartParser(text)
    BY <1>7 DEF Read
  <2>2. IsText(text)
    BY <2>1, StartupAssumption
  <2> QED
    BY <2>1, <2>2, ParserStart
<1>8. CASE ReadFile
  <2>1. ParserInv'
    BY <1>7, <1>8 DEF ReadFile
  <2>2. MainTyped'
    BY <1>8 DEF ReadFile, Goto, resultVars, TypeInv, MainTyped, Phases
  <2> QED
    BY <2>1, <2>2 DEF TypeInv
<1>9. CASE Parse1
  <2>1. ParserInv'
    BY <1>9, ParserKeepsInv DEF Parse1, TypeInv
  <2>2. MainTyped'
    BY <1>9 DEF Parse1, mainVars, resultVars, TypeInv, MainTyped
  <2> QED
    BY <2>1, <2>2 DEF TypeInv
<1>10. CASE LoadFails \/ SelectNothing \/ Select \/ Construct \/ RequestMorePeers
  BY <1>3, <1>5, <1>10
    DEF LoadFails, SelectNothing, Select, Construct, RequestMorePeers, resultVars, Phases
<1>11. PICK values : Closed(values) /\ parsed \in values
  BY DEF TypeInv, ParserInv, Holding
\* the parser is left alone, what main took from it changes
<1>12. ASSUME UNCHANGED parserVars PROVE ParserInv'
  <2>1. PICK some : Holding(some)
    BY DEF TypeInv, ParserInv
  <2>2. Placed' /\ Holding(some)'
    BY <1>12, <2>1 DEF parserVars, TypeInv, ParserInv, Placed, Running, Holding
  <2> QED
    BY <2>2 DEF ParserInv
<1>13. CASE Load
  <2>1. tf'.pieceHashes \in Seq(Seq(Byte))
    BY <1>11, <1>13, HashesAreBytes DEF Load
  <2>2. MainTyped'
    BY <1>13, <2>1 DEF Load, Goto, TypeInv, MainTyped, Phases
  <2> QED
    BY <1>12, <1>13, <2>2 DEF Load, TypeInv
<1>14. PeersTyped(<< >>)
  BY NoPeers
<1>15. ASSUME PeersTyped(peers'), tf' = tf, phase' \in Phases, exitCode' = exitCode, ParserInv'
       PROVE  TypeInv'
  BY <1>15 DEF TypeInv, MainTyped
<1>16. CASE NoAnswer
  BY <1>12, <1>14, <1>15, <1>16 DEF NoAnswer, Goto, Phases
<1>17. CASE Answer
  BY <1>7, <1>14, <1>15, <1>17 DEF Answer, Goto, Phases
<1>18. CASE TakePeers
  <2>1. UNCHANGED parserVars /\ tf' = tf /\ phase' \in Phases /\ exitCode' = exitCode
    BY <1>18 DEF TakePeers, Goto, Phases
  <2>2. PeersTyped(peers')
    <3>1. CASE peers' = peers
      BY <3>1 DEF TypeInv, MainTyped
    <3>2. CASE ~Refused(parsed) /\ peers' = PeersIn(parsed)
      BY <1>11, <3>2, PeersAreAddresses
    <3> QED
      BY <1>18, <3>1, <3>2 DEF TakePeers
  <2> QED
    BY <1>12, <1>15, <2>1, <2>2
<1> QED
  BY <1>2, <1>6, <1>8, <1>9, <1>10, <1>13, <1>16, <1>17, <1>18 DEF StartupNext

\* For every command line, every text of a torrent and every answer, the places
\* of the parser are within the data or one behind it, and what main takes out
\* of the values are hashes, addresses and ports.
THEOREM StartupTypeCorrect == StartupSpec => []StartupTypeOK
<1>1. Chosen /\ TypeInv => StartupTypeOK
  <2> SUFFICES ASSUME Chosen, TypeInv PROVE StartupTypeOK
    OBVIOUS
  <2>1. PeersTyped(peers)
    BY DEF TypeInv, MainTyped
  <2>2. \A k \in DOMAIN peers : peers[k].ip \in Seq(Byte) /\ peers[k].port \in Port
    BY <2>1, Zenon DEF PeersTyped
  <2>3. options.percent \in -1 .. 100
    BY DEF Chosen
  <2> QED
    BY <2>2, <2>3 DEF TypeInv, MainTyped, ParserInv, Placed, Phases, StartupTypeOK
<1> QED
  BY <1>1, ChosenInit, ChosenNext, TypeInit, TypeNext, PTL DEF StartupSpec

-------------------------------------------------------------------------------
(* The parser reads the documents it is given *)

\* Inductive: if what is parsed is a document, the parser has followed it so far,
\* and has marked the span of its "info" where it belongs.
ReadsDocuments == \A doc \in Parts : data = Encode(doc) => SpanBegins(doc) /\ Follows(doc)

\* At first nothing is parsed.
LEMMA ReadsInit == StartupInit => ReadsDocuments
<1>1. \A doc \in Parts : Encode(doc) # << >>
  BY TextIsThere
<1> QED
  BY <1>1 DEF StartupInit, ParserInit, ReadsDocuments

\* A new text is begun, or the text that is parsed is read on.
LEMMA ReadsNext == TypeInv /\ ReadsDocuments /\ [StartupNext]_startupVars => ReadsDocuments'
<1> SUFFICES ASSUME TypeInv, ReadsDocuments, [StartupNext]_startupVars,
                    NEW doc \in Parts, data' = Encode(doc)
             PROVE  SpanBegins(doc)' /\ Follows(doc)'
  BY DEF ReadsDocuments
<1>1. CASE UNCHANGED parserVars
  <2>1. data' = data /\ i' = i /\ start' = start /\ stop' = stop /\ stack' = stack
        /\ parsed' = parsed /\ parser' = parser
    BY <1>1 DEF parserVars
  <2>2. SpanBegins(doc) /\ Follows(doc)
    BY <2>1 DEF ReadsDocuments
  <2> QED
    BY <2>1, <2>2 DEF SpanBegins, Follows, Running
<1>2. CASE \E texts : Read(texts)
  <2>1. PICK text : StartParser(text)
    BY <1>2 DEF Read
  <2>2. text = Encode(doc)
    BY <2>1 DEF StartParser
  <2> QED
    BY <2>1, <2>2, StartFollows
<1>3. CASE ParserStep
  <2>1. data' = data
    BY <1>3 DEF ParserStep, ParseInt, ParseString, OpenContainer, ParseOther, ParseKey, CloseContainer
  <2>2. SpanBegins(doc) /\ Follows(doc) /\ data = Encode(doc)
    BY <2>1 DEF ReadsDocuments
  <2>3. PICK values : Holding(values)
    BY DEF TypeInv, ParserInv
  <2>4. stack \in Seq([value : Containers(values), keyed : BOOLEAN, key : Seq(Byte)])
    BY <2>3 DEF Holding, Frames
  <2>5. i \in Nat \ {0}
    <3>1. Placed
      BY DEF TypeInv, ParserInv
    <3> QED
      BY <3>1, TokenFacts DEF Placed
  <2> QED
    BY <1>3, <2>2, <2>4, <2>5, StepFollows
<1>4. UNCHANGED parserVars \/ (\E texts : Read(texts)) \/ ParserStep
  <2>1. CASE UNCHANGED startupVars
    BY <2>1 DEF startupVars
  <2>2. CASE ArgDir \/ ArgPercent \/ ArgHelp \/ ArgUnknown \/ ArgPath \/ ArgsDone
    BY <2>2 DEF ArgDir, ArgPercent, ArgHelp, ArgUnknown, ArgPath, ArgsDone, Exit, TakeArgs
  <2>3. CASE ReadFile \/ Answer \/ Parse1
    BY <2>3 DEF ReadFile, Answer, Parse1
  <2>4. CASE \/ LoadFails \/ Load \/ SelectNothing \/ Select \/ Construct
             \/ NoAnswer \/ TakePeers \/ RequestMorePeers
    BY <2>4 DEF LoadFails, Load, SelectNothing, Select, Construct, NoAnswer, TakePeers,
                RequestMorePeers, Exit
  <2> QED
    BY <2>1, <2>2, <2>3, <2>4 DEF StartupNext
<1> QED
  BY <1>1, <1>2, <1>3, <1>4

\* So it is with the document that the text being parsed is.
LEMMA WrittenIsRead ==
  ASSUME ReadsDocuments, NEW doc \in Written
  PROVE  doc \in Parts /\ data = Encode(doc) /\ SpanBegins(doc) /\ Follows(doc)
BY DocumentsAssumption DEF Written, ReadsDocuments

\* At the end the value is the document's.
LEMMA ReadsAsWritten == ReadsDocuments => ParsedAsWritten
<1> SUFFICES ASSUME ReadsDocuments, parser = "done", NEW doc \in Written
             PROVE  parsed = Meaning(doc) /\ i = Len(data) + 1
  BY DEF ParsedAsWritten
<1> QED
  BY WrittenIsRead, AllIsRead

\* Whatever document was bencoded, of any size and any depth, the parser returns
\* its value and has read all of its text and nothing behind it.
THEOREM ParserReadsDocuments == StartupSpec => []ParsedAsWritten
BY TypeInit, TypeNext, ReadsInit, ReadsNext, ReadsAsWritten, PTL DEF StartupSpec

\* A step reads one token more of a document, and does not lose its place.
LEMMA ReadsOn ==
  TypeInv /\ ReadsDocuments /\ [StartupNext]_startupVars =>
    (Parse1 /\ Written # {} => i' = i + 1 /\ parser' \in {"running", "done"})
<1> SUFFICES ASSUME TypeInv, ReadsDocuments, [StartupNext]_startupVars, Parse1, NEW doc \in Written
             PROVE  i' = i + 1 /\ parser' \in {"running", "done"}
  OBVIOUS
<1>1. doc \in Parts /\ data = Encode(doc) /\ Follows(doc)
  BY WrittenIsRead
<1>2. PICK values : Holding(values)
  BY DEF TypeInv, ParserInv
<1>3. stack \in Seq(Frames(values)) /\ i \in Nat /\ ParserStep
  BY <1>2, TokenFacts DEF Holding, Parse1, TypeInv, ParserInv, Placed
<1>4. ~ParseOther
  BY <1>1, <1>3, NothingOther
<1>5. i' = i + 1 /\ data' = data
  BY <1>3, <1>4 DEF ParserStep, ParseInt, ParseString, OpenContainer, ParseKey, CloseContainer
<1>6. ReadsDocuments'
  BY ReadsNext
<1>7. Follows(doc)'
  BY <1>1, <1>5, <1>6 DEF ReadsDocuments
<1> QED
  BY <1>5, <1>7 DEF Follows, Running

\* The parser neither hangs in a list of a document nor loses its place: every
\* step of it reads one token more, so that it is done after as many as there are.
THEOREM DocumentIsReadOn ==
  StartupSpec =>
    [][Parse1 /\ Written # {} => i' = i + 1 /\ parser' \in {"running", "done"}]_startupVars
BY TypeInit, TypeNext, ReadsInit, ReadsNext, ReadsOn, PTL DEF StartupSpec

-------------------------------------------------------------------------------
(* What main has taken from the value it parsed last *)

\* Inductive: the torrent is what LoadTorrentFile returns for that value, the
\* peers are those of the tracker's last answer or none.
TakenOut ==
  /\ phase = "select" => /\ parser = "done" /\ ~LoadThrows(parsed)
                         /\ tf \in LoadedFiles(parsed, HashedSpan)
  /\ phase = "parseAnswer" => status = 200 /\ peers = << >>
  /\ phase = "rounds" =>
       /\ status # 200 => peers = << >>
       /\ status = 200 =>
            \/ parser = "done" /\ ~Refused(parsed) /\ peers = PeersIn(parsed)
            \/ parser = "done" /\ Refused(parsed) /\ peers = << >>
            \/ parser = "stuck" /\ peers = << >>

\* At first nothing was taken.
LEMMA TakenInit == StartupInit => TakenOut
BY DEF StartupInit, TakenOut

\* Load, TakePeers and NoAnswer establish it, the other steps keep it.
LEMMA TakenNext == TakenOut /\ [StartupNext]_startupVars => TakenOut'
<1> SUFFICES ASSUME TakenOut, [StartupNext]_startupVars PROVE TakenOut'
  OBVIOUS
<1>1. CASE UNCHANGED startupVars
  BY <1>1 DEF startupVars, mainVars, resultVars, parserVars, TakenOut, HashedSpan
<1>2. ASSUME phase' \notin {"select", "parseAnswer", "rounds"} PROVE TakenOut'
  BY <1>2 DEF TakenOut
<1>3. CASE ArgDir \/ ArgPercent \/ ArgHelp \/ ArgUnknown \/ ArgPath \/ ArgsDone
  <2>1. phase' \in {"args", "exit", "load"}
    BY <1>3 DEF ArgDir, ArgPercent, ArgHelp, ArgUnknown, ArgPath, ArgsDone, AtArg, Exit, TakeArgs, Goto
  <2> QED
    BY <1>2, <2>1
<1>4. CASE \/ ReadFile \/ LoadFails \/ SelectNothing \/ Select \/ Construct \/ RequestMorePeers
  <2>1. phase' \in {"parseFile", "aborted", "exit", "construct", "tracker"}
    BY <1>4 DEF ReadFile, LoadFails, SelectNothing, Select, Construct, RequestMorePeers, Exit, Goto
  <2> QED
    BY <1>2, <2>1
<1>5. CASE Parse1
  BY <1>5 DEF Parse1, mainVars, resultVars, TakenOut
<1>6. CASE Load
  <2>1. /\ parser' = "done" /\ parsed' = parsed /\ ~LoadThrows(parsed) /\ phase' = "select"
        /\ data' = data /\ start' = start /\ stop' = stop
        /\ tf' \in LoadedFiles(parsed, HashedSpan)
    BY <1>6 DEF Load, Goto, parserVars
  <2>2. HashedSpan' = HashedSpan
    BY <2>1 DEF HashedSpan
  <2> QED
    BY <2>1, <2>2 DEF TakenOut
<1>7. CASE NoAnswer
  BY <1>7 DEF NoAnswer, Goto, TakenOut
<1>8. CASE Answer
  BY <1>8 DEF Answer, Goto, TakenOut
<1>9. CASE TakePeers
  BY <1>9 DEF TakePeers, Goto, parserVars, TakenOut
<1> QED
  BY <1>1, <1>3, <1>4, <1>5, <1>6, <1>7, <1>8, <1>9 DEF StartupNext

-------------------------------------------------------------------------------
(* The hash *)

\* A key "info" behind which none comes is a place whose value is hashed.
LEMMA InfoIsPlace ==
  ASSUME NEW doc \in Parts, doc.t = "pairs", NEW k \in DOMAIN doc.items, doc.keys[k] = Key.info,
         ~Contains(BehindKey(doc, k), Text(Key.info))
  PROVE  k \in InfoPlaces(doc)
<1> DEFINE text == Encode(doc)
           from == Before(doc, k - 1) + 2
<1>1. IsContainer(doc) /\ k \in 1 .. Count(doc) /\ Count(doc) \in Nat
  BY DocumentFacts DEF IsContainer
<1>2. Before(doc, k - 1) \in Nat
  <2>1. k - 1 \in 0 .. Count(doc)
    BY <1>1
  <2> QED
    BY <1>1, <2>1, TextPlaces
<1>3. text \in Seq(Alphabet) /\ Len(text) \in Nat
  BY TextsAreTokens
<1>4. BehindKey(doc, k) = SubSeq(text, from, Len(text))
  BY DEF BehindKey
<1>5. from \in Nat \ {0}
  BY <1>2
<1> HIDE DEF text, from
<1>6. ASSUME NEW j \in from .. Len(text), text[j] = Text(Key.info) PROVE FALSE
  <2> DEFINE behind == SubSeq(text, from, Len(text))
             at == j - from + 1
  <2>1. \A l \in from .. Len(text) : text[l] \in Alphabet
    BY <1>3, <1>5, ElementOfSeq
  <2>2. from <= Len(text) /\ from \in Int /\ Len(text) \in Int /\ at \in 1 .. Len(text) - from + 1
        /\ from + at - 1 = j
    BY <1>3, <1>5, <1>6
  <2>3. Len(behind) = Len(text) - from + 1
        /\ \A l \in 1 .. Len(text) - from + 1 : behind[l] = text[from + l - 1]
    BY <2>1, <2>2, SubSeqProperties
  <2> HIDE DEF behind, at
  <2>4. behind[at] = Text(Key.info) /\ at \in 1 .. Len(behind)
    BY <1>6, <2>2, <2>3
  <2>5. Contains(behind, Text(Key.info))
    BY <2>4 DEF Contains
  <2> QED
    BY <1>4, <2>5 DEF behind
<1> QED
  BY <1>1, <1>6 DEF InfoPlaces, text, from

\* The span that is hashed is the text of the value of "info".
LEMMA HashesInfo == ReadsDocuments /\ TakenOut => InfoHashIsOfInfo
<1> SUFFICES ASSUME ReadsDocuments, TakenOut, phase = "select",
                    NEW doc \in Written, doc.t = "pairs", NEW k \in DOMAIN doc.items,
                    doc.keys[k] = Key.info, ~Contains(BehindKey(doc, k), Text(Key.info))
             PROVE  tf.infoHash = Encode(doc.items[k])
  BY DEF InfoHashIsOfInfo
<1>1. doc \in Parts /\ data = Encode(doc) /\ SpanBegins(doc) /\ Follows(doc)
  BY WrittenIsRead
<1>2. parser = "done" /\ tf.infoHash = HashedSpan
  BY DEF TakenOut, LoadedFiles
<1>3. k \in InfoPlaces(doc)
  BY <1>1, InfoIsPlace
<1> QED
  BY <1>1, <1>2, <1>3, SpanIsInfo

\* In whatever torrent, what is hashed for the tracker and the peers is the
\* bencoded value of "info", if no string "info" comes behind that key.
THEOREM InfoHashIsHashOfInfo == StartupSpec => []InfoHashIsOfInfo
BY TypeInit, TypeNext, ReadsInit, ReadsNext, TakenInit, TakenNext, HashesInfo, PTL DEF StartupSpec

-------------------------------------------------------------------------------
(* The parts a text is cut into *)

\* One behind the other they are the beginning of the text.
LEMMA SlicesJoin ==
  ASSUME NEW text \in Seq(Byte), NEW n \in Nat \ {0}
  PROVE  LET m == Len(text) \div n
         IN  /\ m \in Nat /\ m * n \in Nat /\ m * n <= Len(text) /\ Len(text) < m * n + n
             /\ FlattenSeq(Slices(text, n)) = SubSeq(text, 1, m * n)
<1> DEFINE m == Len(text) \div n
           part(k) == SubSeq(text, (k - 1) * n + 1, k * n)
           first(k) == [j \in 1 .. k |-> part(j)]
           A == {k \in Nat : k <= m => FlattenSeq(first(k)) = SubSeq(text, 1, k * n)}
<1>1. Len(text) \in Nat /\ m \in Nat /\ m * n \in Nat /\ m * n <= Len(text) /\ Len(text) < m * n + n
  <2>1. \A len \in Nat : LET q == len \div n IN
          q \in Nat /\ q * n \in Nat /\ q * n <= len /\ len < q * n + n
    BY SMTT(30)
  <2>2. Len(text) \in Nat
    OBVIOUS
  <2> QED
    BY <2>1, <2>2
<1>2. \A k \in 1 .. m : part(k) \in Seq(Byte)
  <2>1. Slices(text, n) \in Seq(Seq(Byte))
    BY SlicesAreBytes
  <2>2. \A k \in 1 .. m : Slices(text, n)[k] = part(k)
    BY DEF Slices
  <2>3. DOMAIN Slices(text, n) = 1 .. m
    BY DEF Slices
  <2> HIDE DEF part
  <2>4. \A k \in 1 .. m : Slices(text, n)[k] \in Seq(Byte)
    <3>1. DOMAIN Slices(text, n) = 1 .. Len(Slices(text, n))
      BY <2>1
    <3> QED
      BY <2>1, <2>3, <3>1, ElementOfSeq
  <2> QED
    BY <2>2, <2>4
<1>3. \A k \in Nat : k <= m => /\ first(k) \in Seq(Seq(Byte))
                               /\ k # 0 => first(k) = Append(first(k - 1), part(k))
  <2> SUFFICES ASSUME NEW k \in Nat, k <= m
               PROVE  /\ first(k) \in Seq(Seq(Byte))
                      /\ k # 0 => first(k) = Append(first(k - 1), part(k))
    OBVIOUS
  <2>1. \A j \in 1 .. k : part(j) \in Seq(Byte)
    BY <1>1, <1>2
  <2> HIDE DEF part, m
  <2>2. first(k) \in Seq(Seq(Byte)) /\ Len(first(k)) = k
    BY <2>1
  <2>3. ASSUME k # 0 PROVE first(k) = Append(first(k - 1), part(k))
    <3>1. k - 1 \in Nat /\ first(k - 1) \in Seq(Seq(Byte)) /\ Len(first(k - 1)) = k - 1
      BY <2>1, <2>3
    <3>2. part(k) \in Seq(Byte)
      BY <2>1, <2>3
    <3>3. \A j \in 1 .. k - 1 : first(k)[j] = first(k - 1)[j]
      OBVIOUS
    <3>4. first(k)[k] = part(k)
      BY <2>3
    <3> HIDE DEF first
    <3>5. Append(first(k - 1), part(k)) \in Seq(Seq(Byte)) /\ Len(Append(first(k - 1), part(k))) = k
          /\ Append(first(k - 1), part(k))[k] = part(k)
          /\ \A j \in 1 .. k - 1 : Append(first(k - 1), part(k))[j] = first(k - 1)[j]
      BY <2>3, <3>1, <3>2, AppendProperties
    <3>6. \A j \in 1 .. k : first(k)[j] = Append(first(k - 1), part(k))[j]
      <4>1. \A j \in 1 .. k : j = k \/ j \in 1 .. k - 1
        OBVIOUS
      <4> QED
        BY <3>3, <3>4, <3>5, <4>1
    <3> QED
      BY <2>2, <3>5, <3>6, SeqEqual
  <2> QED
    BY <2>2, <2>3
<1>a. \A k : k \in A <=> k \in Nat /\ (k <= m => FlattenSeq(first(k)) = SubSeq(text, 1, k * n))
  OBVIOUS
<1> HIDE DEF A
<1>4. 0 \in A
  <2>1. first(0) = << >>
    BY <1>1, <1>3, EmptySeq
  <2>2. SubSeq(text, 1, 0 * n) = << >>
    BY SubSeqEmpty
  <2> HIDE DEF first
  <2> QED
    BY <1>a, <2>1, <2>2, FlattenEmpty
<1>5. ASSUME NEW k \in Nat, k \in A PROVE k + 1 \in A
  <2> SUFFICES ASSUME k + 1 <= m PROVE FlattenSeq(first(k + 1)) = SubSeq(text, 1, (k + 1) * n)
    <3>1. k + 1 \in Nat
      OBVIOUS
    <3> HIDE DEF first, m
    <3> QED
      BY <1>a, <3>1, Zenon
  <2>1. k <= m /\ k + 1 \in 1 .. m /\ k + 1 \in Nat /\ k + 1 # 0 /\ (k + 1) - 1 = k
    BY <1>1
  <2>2. FlattenSeq(first(k)) = SubSeq(text, 1, k * n)
    BY <1>5, <1>a, <2>1
  <2>3. /\ (k + 1 - 1) * n = k * n /\ k * n \in Nat /\ (k + 1) * n \in Nat
        /\ k * n <= (k + 1) * n /\ (k + 1) * n <= Len(text)
    <3>1. (k + 1) * n <= Len(text) /\ (k + 1) * n \in Nat
      BY <1>1, <2>1, WithinText
    <3>2. k * n \in Nat /\ (k + 1) * n = k * n + n
      BY SMTT(30)
    <3> QED
      BY <2>1, <3>1, <3>2
  <2>4. part(k + 1) = SubSeq(text, k * n + 1, (k + 1) * n) /\ part(k + 1) \in Seq(Byte)
    BY <1>2, <2>1, <2>3
  <2>5. first(k) \in Seq(Seq(Byte)) /\ first(k + 1) = Append(first(k), part(k + 1))
    BY <1>3, <2>1
  <2> HIDE DEF first, part
  <2>6. FlattenSeq(first(k + 1)) = SubSeq(text, 1, k * n) \o SubSeq(text, k * n + 1, (k + 1) * n)
    BY <2>2, <2>4, <2>5, FlattenAppend
  <2>7. SubSeq(text, 1, k * n) \o SubSeq(text, k * n + 1, (k + 1) * n) = SubSeq(text, 1, (k + 1) * n)
    <3>1. PICK from \in Nat, to \in Nat : from = k * n /\ to = (k + 1) * n
      BY <2>3
    <3>2. 1 \in 1 .. Len(text) + 1 /\ from \in 1 - 1 .. Len(text) /\ to \in from .. Len(text)
      BY <1>1, <2>3, <3>1
    <3> QED
      BY <3>1, <3>2, ConcatAdjacentSubSeq
  <2> QED
    BY <2>6, <2>7
<1>6. m \in A
  BY <1>1, <1>4, <1>5, SetInduction
<1>7. Slices(text, n) = first(m)
  BY DEF Slices
<1> HIDE DEF first
<1>8. FlattenSeq(Slices(text, n)) = SubSeq(text, 1, m * n)
  <2>1. m <= m
    BY <1>1
  <2> HIDE DEF m
  <2> QED
    BY <1>6, <1>7, <1>a, <2>1, Zenon
<1> QED
  BY <1>1, <1>8

\* They leave out less than one part.
LEMMA SlicesCover ==
  ASSUME NEW text \in Seq(Byte), NEW n \in Nat \ {0}
  PROVE  AllPartsOf(Slices(text, n), text, n)
<1> DEFINE used == FlattenSeq(Slices(text, n))
<1>1. PICK to \in Nat : to <= Len(text) /\ Len(text) < to + n /\ used = SubSeq(text, 1, to)
  BY SlicesJoin
<1> HIDE DEF used
<1>2. Len(text) \in Nat /\ Len(used) = to
  <2>1. \A j \in 1 .. to : text[j] \in Byte
    BY <1>1, ElementOfSeq
  <2> QED
    BY <1>1, <2>1, SubSeqProperties
<1>3. SubSeq(used, 1, Len(used)) = used
  <2>1. used \in Seq(Byte)
    BY <1>1, SubSeqProperties, ElementOfSeq
  <2> QED
    BY <2>1, SubSeqFull
<1>4. IsPrefix(used, text)
  BY <1>1, <1>2, <1>3 DEF IsPrefix
<1>5. Len(text) - Len(used) < n
  BY <1>1, <1>2
<1>6. \A k \in DOMAIN Slices(text, n) : Len(Slices(text, n)[k]) = n
  BY SlicesAreBytes
<1> QED
  BY <1>4, <1>5, <1>6 DEF AllPartsOf, used

-------------------------------------------------------------------------------
(* Hashes and peers are complete *)

\* The hashes are the slices of the text in the document.
LEMMA HashesOfText == TypeInv /\ ReadsDocuments /\ TakenOut => HashesCoverPieces
<1> SUFFICES ASSUME TypeInv, ReadsDocuments, TakenOut, phase = "select",
                    NEW doc \in Written, Has(Meaning(doc), Key.info)
             PROVE  AllPartsOf(tf.pieceHashes,
                               TextAt(Meaning(doc).map[Key.info], Key.pieces), HashLength)
  BY DEF HashesCoverPieces
<1>1. parser = "done" /\ ~LoadThrows(parsed) /\ tf.pieceHashes =
        Hashes(IF Has(parsed, Key.info) THEN parsed.map[Key.info] ELSE DictOf(<< >>))
  BY DEF TakenOut, LoadedFiles
<1>2. parsed = Meaning(doc)
  BY <1>1, WrittenIsRead, AllIsRead
<1> DEFINE text == TextAt(parsed.map[Key.info], Key.pieces)
<1>3. tf.pieceHashes = Slices(text, HashLength)
  BY <1>1, <1>2 DEF Hashes
<1>4. text \in Seq(Byte)
  <2>1. PICK values : Closed(values) /\ parsed \in values
    BY DEF TypeInv, ParserInv, Holding
  <2> QED
    BY <1>1, <1>2, <2>1, PiecesAreBytes
<1> HIDE DEF text
<1>5. AllPartsOf(tf.pieceHashes, text, HashLength)
  BY <1>3, <1>4, SlicesCover, StartupAssumption
<1> QED
  BY <1>2, <1>5 DEF text

\* In whatever torrent, the hashes that pieces are compared with are those of
\* the file, each of the length of a hash and cut where it begins and ends, in
\* order; at most an incomplete one at the end is left out.
THEOREM HashesAreComplete == StartupSpec => []HashesCoverPieces
BY TypeInit, TypeNext, ReadsInit, ReadsNext, TakenInit, TakenNext, HashesOfText, PTL DEF StartupSpec

\* A peer's address and port are the six bytes they were taken from.
LEMMA PeerBytesBack ==
  ASSUME NEW s \in Seq(Byte), Len(s) = 6
  PROVE  PeerBytes(PeerOf(s)) = s
<1> DEFINE ip == SubSeq(s, 1, 4)
           n == s[5] * 256 + s[6]
           port == << n \div 256, n % 256 >>
<1>1. \A j \in 1 .. 6 : s[j] \in Byte
  BY ElementOfSeq
<1>2. ip \in Seq(Byte) /\ Len(ip) = 4 /\ \A j \in 1 .. 4 : ip[j] = s[j]
  <2>1. \A j \in 1 .. 4 : s[j] \in Byte
    BY <1>1
  <2>2. Len(ip) = 4 - 1 + 1 /\ \A j \in 1 .. 4 - 1 + 1 : ip[j] = s[1 + j - 1]
    BY <2>1, SubSeqProperties
  <2> QED
    BY <2>1, <2>2, SubSeqProperties
<1>3. n \div 256 = s[5] /\ n % 256 = s[6]
  <2>1. \A high, low \in Byte : (high * 256 + low) \div 256 = high /\ (high * 256 + low) % 256 = low
    BY SMTT(30) DEF Byte
  <2> QED
    BY <1>1, <2>1
<1>4. port = << s[5], s[6] >>
  BY <1>3
<1>5. port \in Seq(Byte) /\ Len(port) = 2 /\ port[1] = s[5] /\ port[2] = s[6]
  BY <1>1, <1>4
<1> HIDE DEF ip, port
<1>6. /\ ip \o port \in Seq(Byte) /\ Len(ip \o port) = 6
      /\ \A j \in 1 .. 6 : (ip \o port)[j] = IF j <= 4 THEN ip[j] ELSE port[j - 4]
  <2>1. /\ ip \o port \in Seq(Byte) /\ Len(ip \o port) = Len(ip) + Len(port)
        /\ \A j \in 1 .. Len(ip) + Len(port) :
             (ip \o port)[j] = IF j <= Len(ip) THEN ip[j] ELSE port[j - Len(ip)]
    BY <1>2, <1>5, ConcatProperties, Zenon
  <2>2. Len(ip) + Len(port) = 6
    BY <1>2, <1>5
  <2> QED
    BY <1>2, <2>1, <2>2
<1>7. \A j \in 1 .. 6 : (ip \o port)[j] = s[j]
  BY <1>2, <1>5, <1>6
<1>8. ip \o port = s
  BY <1>6, <1>7, SeqEqual
<1> QED
  BY <1>8 DEF PeerBytes, PeerOf, ip, port

\* The peers are the slices of the text in the answer.
LEMMA PeersOfText == TypeInv /\ ReadsDocuments /\ TakenOut => PeersAreOfLastAnswer
<1> SUFFICES ASSUME TypeInv, ReadsDocuments, TakenOut, phase = "rounds", status = 200,
                    NEW doc \in Written
             PROVE  IF Refused(Meaning(doc)) THEN peers = << >>
                    ELSE AllPartsOf([k \in DOMAIN peers |-> PeerBytes(peers[k])],
                                    Meaning(doc).map[Key.peers].s, 6)
  BY DEF PeersAreOfLastAnswer, TakenOut
<1>1. parser = "done"
  BY WrittenIsRead DEF TakenOut, Follows, Running
<1>2. parsed = Meaning(doc)
  BY <1>1, WrittenIsRead, AllIsRead
<1>3. CASE Refused(parsed)
  BY <1>1, <1>2, <1>3 DEF TakenOut
<1>4. CASE ~Refused(parsed)
  <2> DEFINE text == TextAt(parsed, Key.peers)
             slices == Slices(text, 6)
             bytes == [k \in DOMAIN peers |-> PeerBytes(peers[k])]
  <2>1. peers = PeersIn(parsed)
    BY <1>1, <1>4 DEF TakenOut
  <2>2. text = parsed.map[Key.peers].s /\ text \in Seq(Byte)
    <3>1. PICK values : Closed(values) /\ parsed \in values
      BY DEF TypeInv, ParserInv, Holding
    <3> QED
      BY <1>4, <3>1, PeersTextIsBytes
  <2>3. slices \in Seq(Seq(Byte)) /\ \A k \in DOMAIN slices : Len(slices[k]) = 6
    <3>1. 6 \in Nat \ {0}
      OBVIOUS
    <3> HIDE DEF text
    <3> QED
      BY <2>2, <3>1, SlicesAreBytes
  <2>4. peers = [k \in DOMAIN slices |-> PeerOf(slices[k])]
    BY <2>1 DEF PeersIn
  <2>5. AllPartsOf(slices, text, 6)
    <3>1. 6 \in Nat \ {0}
      OBVIOUS
    <3> HIDE DEF text
    <3> QED
      BY <2>2, <3>1, SlicesCover
  <2> HIDE DEF slices, text
  <2>6. bytes = slices
    <3>1. \A k \in DOMAIN slices : slices[k] \in Seq(Byte) /\ Len(slices[k]) = 6
      BY <2>3, ElementOfSeq
    <3>2. \A k \in DOMAIN slices : PeerBytes(PeerOf(slices[k])) = slices[k]
      BY <3>1, PeerBytesBack
    <3>3. DOMAIN peers = DOMAIN slices /\ \A k \in DOMAIN slices : peers[k] = PeerOf(slices[k])
      BY <2>4
    <3>4. bytes = [k \in DOMAIN slices |-> slices[k]]
      BY <3>2, <3>3
    <3> QED
      BY <2>3, <3>4
  <2> HIDE DEF bytes
  <2>7. AllPartsOf(bytes, parsed.map[Key.peers].s, 6)
    BY <2>2, <2>5, <2>6
  <2> QED
    BY <1>2, <1>4, <2>7 DEF bytes
<1> QED
  BY <1>3, <1>4

\* Whatever document the tracker answers with, a round starts with all the peers
\* of its last answer, in order and byte for byte, or with none if that request
\* failed.
THEOREM PeersAreComplete == StartupSpec => []PeersAreOfLastAnswer
BY TypeInit, TypeNext, ReadsInit, ReadsNext, TakenInit, TakenNext, PeersOfText, PTL DEF StartupSpec
===============================================================================
