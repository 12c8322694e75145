------------------------------- MODULE Bencode -------------------------------
(***************************************************************************)
(* bencode.h, bencode.cpp: the parser of .torrent files and of trackers'   *)
(* answers.  The recursion of ParseAny is a stack of the lists and         *)
(* dictionaries that are open; a step reads one token.  The variable i is  *)
(* the place in the data, as in the code but counted in tokens from 1.     *)
(*                                                                         *)
(* A token stands for the characters of one "i<digits>e" or one            *)
(* "<size>:<bytes>", or is one of "l", "d" and "e", or any other           *)
(* character.  A string is a sequence of bytes.                            *)
(***************************************************************************)
EXTENDS Integers, SequencesExt

CONSTANT Key   \* the strings the program looks for: Key.info is "info", and so on

Number(n) == [t |-> "int", n |-> n]
Text(s)   == [t |-> "str", s |-> s]
ListToken == [t |-> "l"]
DictToken == [t |-> "d"]
EndToken  == [t |-> "e"]
Other     == [t |-> "?"]

\* What a sequence of tokens is made of.
IsToken(token) ==
  /\ token.t \in {"int", "str", "l", "d", "e", "?"}
  /\ token.t = "str" => token.s \in Seq(0 .. 255)
IsText(tokens) == tokens \in Seq(Range(tokens)) /\ \A token \in Range(tokens) : IsToken(token)

\* Values: Number(n), Text(s), and the two containers.  A dictionary is the
\* function that std::map is.
ListOf(items) == [t |-> "list", items |-> items]
DictOf(map)   == [t |-> "dict", map |-> map]

VARIABLES
  data,      \* what is parsed
  i,         \* the next token
  start,     \* start_for_hashin
  stop,      \* end_for_hashin
  stack,     \* the containers that are open, the innermost last
  parsed,    \* what ParseAny returned
  parser     \* "idle", "running", "done"; "stuck": a list that never ends;
             \* "lost": i is not at a token, or is behind the end

parserVars == << data, i, start, stop, stack, parsed, parser >>

ParserInit ==
  /\ data = << >> /\ i = 1 /\ start = 1 /\ stop = 1
  /\ stack = << >> /\ parsed = Number(0) /\ parser = "idle"

\* A new Bedecoder and the call of ParseAny.
StartParser(input) ==
  /\ data' = input
  /\ i' = 1 /\ start' = 1 /\ stop' = 1
  /\ stack' = << >> /\ parsed' = Number(0) /\ parser' = "running"

Running == parser = "running"

\* One place behind the end there is a zero byte.
Token == IF i <= Len(data) THEN data[i] ELSE Other

Top == Last(stack)

InList     == stack # << >> /\ Top.value.t = "list"
AwaitsKey  == stack # << >> /\ Top.value.t = "dict" /\ ~Top.keyed
\* Where ParseAny is called.
AwaitsValue == ~AwaitsKey /\ (InList => Token # EndToken)

NewFrame(value) == [value |-> value, keyed |-> FALSE, key |-> << >>]

\* Mutant: a key that comes again does not replace the first.
FilledOnce(frame, value) ==
  IF frame.value.t = "list" THEN NewFrame(ListOf(Append(frame.value.items, value)))
  ELSE NewFrame(DictOf(frame.value.map @@ (frame.key :> value)))

\* map[key] = value
Assigned(map, key, value) ==
  [k \in {key} \cup DOMAIN map |-> IF k = key THEN value ELSE map[k]]

\* The innermost container after its next element.
Filled(frame, value) ==
  IF frame.value.t = "list" THEN NewFrame(ListOf(Append(frame.value.items, value)))
  ELSE NewFrame(DictOf(Assigned(frame.value.map, frame.key, value)))

\* Mutant: the end of the span is where the value begins.
YieldFromStart(value, open) ==
  IF open = << >>
  THEN parsed' = value /\ parser' = "done" /\ stack' = open /\ UNCHANGED stop
  ELSE /\ stack' = Append(Front(open), Filled(Last(open), value))
       /\ stop' = IF Last(open).keyed /\ Last(open).key = Key.info THEN i ELSE stop
       /\ UNCHANGED << parsed, parser >>

\* ParseAny returns value to the innermost of the open containers, or to the
\* caller; behind the value of a key "info" ends the span that is hashed.
Yield(value, open) ==
  IF open = << >>
  THEN parsed' = value /\ parser' = "done" /\ stack' = open /\ UNCHANGED stop
  ELSE /\ stack' = Append(Front(open), Filled(Last(open), value))
       /\ stop' = IF Last(open).keyed /\ Last(open).key = Key.info THEN i' ELSE stop
       /\ UNCHANGED << parsed, parser >>

\* Every string "info" moves the beginning of the span, keys and values alike.
MarkStart(s) == start' = IF s = Key.info THEN i' ELSE start

ParseInt ==
  /\ Running /\ AwaitsValue
  /\ Token.t = "int"
  /\ i' = i + 1
  /\ Yield(Token, stack)
  /\ UNCHANGED << data, start >>

ParseString ==
  /\ Running /\ AwaitsValue
  /\ Token.t = "str"
  /\ i' = i + 1
  /\ MarkStart(Token.s)
  /\ Yield(Token, stack)
  /\ UNCHANGED data

OpenContainer ==
  /\ Running /\ AwaitsValue
  /\ Token \in {ListToken, DictToken}
  /\ i' = i + 1
  /\ stack' = Append(stack, NewFrame(IF Token = ListToken THEN ListOf(<< >>)
                                                          ELSE DictOf(<< >>)))
  /\ UNCHANGED << data, start, stop, parsed, parser >>

\* Any other character is taken for a zero and is not consumed.  In a list
\* that repeats until memory is exhausted.
ParseOther ==
  /\ Running /\ AwaitsValue
  /\ Token \in {EndToken, Other}
  /\ UNCHANGED << data, i, start >>
  /\ IF InList THEN parser' = "stuck" /\ UNCHANGED << stack, stop, parsed >>
               ELSE Yield(Number(0), stack)

\* Mutant: the end of a dictionary is taken for a key.
ParseKeyAtEnd ==
  /\ Running /\ AwaitsKey
  /\ i' = i + 1
  /\ LET s == IF Token.t = "str" THEN Token.s ELSE << >> IN
       /\ stack' = [stack EXCEPT ![Len(stack)].keyed = TRUE, ![Len(stack)].key = s]
       /\ MarkStart(s)
  /\ parser' = IF Token.t = "int" \/ i > Len(data) THEN "lost" ELSE parser
  /\ UNCHANGED << data, stop, parsed >>

\* ParseString where a key should be: what is not a digit is taken for the
\* colon behind an empty size.  That eats the first character of an integer,
\* or the zero byte behind the data.
ParseKey ==
  /\ Running /\ AwaitsKey
  /\ Token # EndToken
  /\ i' = i + 1
  /\ LET s == IF Token.t = "str" THEN Token.s ELSE << >> IN
       /\ stack' = [stack EXCEPT ![Len(stack)].keyed = TRUE, ![Len(stack)].key = s]
       /\ MarkStart(s)
  /\ parser' = IF Token.t = "int" \/ i > Len(data) THEN "lost" ELSE parser
  /\ UNCHANGED << data, stop, parsed >>

CloseContainer ==
  /\ Running /\ (InList \/ AwaitsKey)
  /\ Token = EndToken
  /\ i' = i + 1
  /\ Yield(Top.value, Front(stack))
  /\ UNCHANGED << data, start >>

ParserStep ==
  \/ ParseInt \/ ParseString \/ OpenContainer \/ ParseOther
  \/ ParseKey \/ CloseContainer

\* ComputeSHA1: the tokens whose bytes are hashed; substr wants stop behind
\* start and otherwise takes the rest of the data.
HashedSpan == SubSeq(data, start, IF start <= stop THEN stop - 1 ELSE Len(data))
===============================================================================
