---------------------------- MODULE StartupChecks ----------------------------
(***************************************************************************)
(* What main makes of a torrent and of the tracker's answers, against the  *)
(* documents they were written from.  Texts are those of documents, whole, *)
(* cut off, or with a stray character in them.                             *)
(***************************************************************************)
EXTENDS Startup, BencodeReference

Damaged(tokens) ==
       {SubSeq(tokens, 1, n) : n \in 0 .. Len(tokens) - 1}
  \cup {InsertAt(tokens, n, Other) : n \in 1 .. Len(tokens)}

TextsOf(documents) ==
  UNION {{Encode(doc)} \cup Damaged(Encode(doc)) : doc \in documents}

CONSTANT Documents   \* of torrents and of answers

ASSUME DocumentsAssumption == Documents \subseteq Parts

\* The documents that the text being parsed is all of: one, or none.
Written == {doc \in Documents : data = Encode(doc)}

\* What was bencoded is parsed to its value, all of it and nothing behind it.
ParsedAsWritten ==
  parser = "done" => \A doc \in Written : parsed = Meaning(doc) /\ i = Len(data) + 1

\* A document that arrives whole is parsed to the end: the parser neither hangs
\* in a list (bencode.cpp:71) nor loses its place.
WholeDocumentIsParsed ==
  parser = "running" ~> parser = "done" \/ (parser # "running" /\ Written = {})

-------------------------------------------------------------------------------

\* The tokens behind the key of the k-th pair.
BehindKey(doc, k) == SubSeq(Encode(doc), Before(doc, k - 1) + 2, Len(Encode(doc)))

\* The info_hash sent to the tracker and to peers is that of the bencoded value
\* of "info", as long as no string "info" comes after that key.
InfoHashIsOfInfo ==
  phase = "select" =>
    \A doc \in {d \in Written : d.t = "pairs"} : \A k \in DOMAIN doc.items :
      /\ doc.keys[k] = Key.info
      /\ ~Contains(BehindKey(doc, k), Text(Key.info))
      => tf.infoHash = Encode(doc.items[k])

\* Parts of size bytes each are all of a text, in order; only bytes that do not
\* make a part are left over.
AllPartsOf(parts, text, size) ==
  LET used == FlattenSeq(parts) IN
    /\ \A k \in DOMAIN parts : Len(parts[k]) = size
    /\ IsPrefix(used, text) /\ Len(text) - Len(used) < size

\* The hashes pieces are compared with are all that the file has, each cut where
\* it begins and ends, in order.
HashesCoverPieces ==
  phase = "select" =>
    \A value \in {Meaning(doc) : doc \in Written} :
      Has(value, Key.info) =>
        AllPartsOf(tf.pieceHashes, TextAt(value.map[Key.info], Key.pieces), HashLength)

PeerBytes(peer) == peer.ip \o << peer.port \div 256, peer.port % 256 >>

\* A round starts with the peers of the tracker's last answer, each of its six
\* bytes in place, and with none when that request failed.
PeersAreOfLastAnswer ==
  phase = "rounds" =>
    /\ status # 200 => peers = << >>
    /\ status = 200 =>
         \A value \in {Meaning(doc) : doc \in Written} :
           IF Refused(value) THEN peers = << >>
           ELSE AllPartsOf([k \in DOMAIN peers |-> PeerBytes(peers[k])],
                           value.map[Key.peers].s, 6)
===============================================================================
