------------------------------ MODULE MCStartup ------------------------------
(* Small torrents and answers, whole and damaged; hashes of two bytes. *)
EXTENDS StartupChecks

MCKey == [announce |-> <<97>>, comment |-> <<99>>, info |-> <<105>>, name |-> <<110>>,
          length |-> <<108>>, pieceLength |-> <<112>>, pieces |-> <<115>>,
          peers |-> <<101>>, failure |-> <<102>>]

MCArgLists ==
  { << "-d", "out", "-p", "50", "file" >>, << "file", "-p", "100", "-d", "out" >>,
    << "-p", "5", "-d", "out", "file" >>, << "-p", "101" >>, << "-p", "-5" >>,
    << "-p", "many" >>, << "-p" >>, << "-d" >>, << "-h" >>, << "-x", "file" >>,
    << "-d", "-p", "50", "file" >>, << "file" >>,
    << "-p", "100", "-p", "50", "old", "file", "-d", "out" >> }

MCDashed == {"-d", "-p", "-h", "--help", "-x", "-5"}

MCStoi == ("50" :> 50) @@ ("100" :> 100) @@ ("5" :> 5) @@ ("101" :> 101) @@ ("-5" :> -5)

NamePair == Pair(MCKey.name, Text(<<120>>))
Info(length, pieceLength, pieces, more) ==
  Pair(MCKey.info, Pairs(<< Pair(MCKey.length, Number(length)), NamePair,
         Pair(MCKey.pieceLength, Number(pieceLength)), Pair(MCKey.pieces, Text(pieces)) >>
         \o more))
AnnouncePair == Pair(MCKey.announce, Text(<<117>>))

\* Two pieces, the last one short, of two blocks, or whole; three pieces; sizes
\* that do not fit; a piece too few.
MCTorrents ==
  { Pairs(<< AnnouncePair, Info(40000, 32768, <<1, 2, 3, 4>>, << >>) >>),
    Pairs(<< Info(65536, 32768, <<1, 2, 3, 4, 5>>, << >>), AnnouncePair >>),
    Pairs(<< AnnouncePair, Info(49152, 16385, <<1, 2, 3, 4, 5, 6>>, << >>) >>),
    Pairs(<< Info(1, 16384, <<1, 2, 3, 4>>, << >>) >>),
    Pairs(<< AnnouncePair, Info(7, 16384, <<1>>, << >>) >>),
    \* a string "info" as a value: before, inside and behind the dictionary
    Pairs(<< Pair(MCKey.comment, Text(MCKey.info)), Info(9, 16384, <<1, 2>>, << >>) >>),
    Pairs(<< Info(9, 16384, <<1, 2>>, << Pair(<<122>>, Text(MCKey.info)) >>) >>),
    Pairs(<< Info(9, 16384, <<1, 2>>, << >>), Pair(<<122>>, Text(MCKey.info)) >>),
    \* lists and dictionaries within, an empty one, a key that comes twice
    Pairs(<< Pair(<<122>>, [t |-> "list", items |->
                << Number(1), Pairs(<< >>), [t |-> "list", items |-> << >>] >>]),
             Info(9, 16384, <<1, 2>>, << Pair(<<122>>, Pairs(<< NamePair >>)) >>) >>),
    Pairs(<< NamePair, Pair(MCKey.name, Text(<<121>>)), Info(9, 16384, <<1, 2>>, << NamePair >>) >>),
    \* several files: no length; no name; wrong types; no dictionary at all
    Pairs(<< Pair(MCKey.info, Pairs(<< NamePair, Pair(MCKey.pieceLength, Number(16384)),
                                       Pair(MCKey.pieces, Text(<<1, 2>>)) >>)) >>),
    Pairs(<< Pair(MCKey.info, Pairs(<< Pair(MCKey.pieces, Text(<<1, 2>>)) >>)) >>),
    Pairs(<< Pair(MCKey.info, Text(<<1>>)) >>),
    Pairs(<< AnnouncePair >>),
    Number(5) }

MCIndeterminate == {0, 20000}

PeerList == << 10, 0, 0, 1, 26, 225, 10, 0, 0, 2, 0, 80, 7 >>

MCAnswers ==
  { Pairs(<< Pair(<<122>>, Number(60)), Pair(MCKey.peers, Text(PeerList)) >>),
    Pairs(<< Pair(MCKey.peers, Text(<< >>)) >>),
    Pairs(<< Pair(MCKey.failure, Text(<<1>>)), Pair(MCKey.peers, Text(PeerList)) >>),
    Pairs(<< Pair(MCKey.peers, [t |-> "list", items |-> << Text(<<1>>) >>]) >>),
    [t |-> "list", items |-> << Number(1) >>] }

MCDocuments    == MCTorrents \cup MCAnswers

\* All that documents are made of, and how much each is.
RECURSIVE PartsOf(_), SizeOf(_)
PartsOf(docs) ==
  docs \cup UNION {PartsOf(Range(doc.items)) : doc \in {d \in docs : IsContainer(d)}}
SizeOf(docs) ==
  IF docs = << >> THEN 0
  ELSE 1 + SizeOf(Tail(docs)) + IF IsContainer(Head(docs)) THEN SizeOf(Head(docs).items) ELSE 0
MCSize == [doc \in PartsOf(MCDocuments) |-> SizeOf(<< doc >>)]

MCTorrentTexts == TextsOf(MCTorrents)
MCAnswerTexts  == TextsOf(MCAnswers)
===============================================================================
