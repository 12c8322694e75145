----------------------------- MODULE TorrentFile -----------------------------
(***************************************************************************)
(* torrent_file.cpp and the reading of a tracker's answer in               *)
(* torrent_tracker.cpp: what is taken out of a parsed value.               *)
(***************************************************************************)
EXTENDS Bencode

CONSTANTS
  HashLength,      \* SHA_DIGEST_LENGTH, 20
  Indeterminate    \* values of a size_t member that was never assigned

\* Consecutive parts of n bytes; a shorter rest is dropped.
Slices(s, n) == [k \in 1 .. Len(s) \div n |-> SubSeq(s, (k - 1) * n + 1, k * n)]

-------------------------------------------------------------------------------
(* LoadTorrentFile *)

Has(value, key) == key \in DOMAIN value.map

\* std::get throws on the wrong type; a missing key is passed over.
WrongType(value, key, type) == Has(value, key) /\ value.map[key].t # type

\* bad_variant_access, which main does not catch.
LoadThrows(value) ==
  ~ /\ value.t = "dict"
    /\ \A key \in {Key.announce, Key.comment} : ~WrongType(value, key, "str")
    /\ ~WrongType(value, Key.info, "dict")
    /\ Has(value, Key.info) =>
         LET info == value.map[Key.info] IN
           /\ \A key \in {Key.name, Key.pieces} : ~WrongType(info, key, "str")
           /\ \A key \in {Key.length, Key.pieceLength} : ~WrongType(info, key, "int")

TextAt(value, key) == IF Has(value, key) THEN value.map[key].s ELSE << >>

\* pieceLength and length have no initial value.
NumbersAt(value, key) == IF Has(value, key) THEN {value.map[key].n} ELSE Indeterminate

\* Mutant: a hash is taken to be a byte shorter than it is.
HashesTooShort(info) == Slices(TextAt(info, Key.pieces), HashLength - 1)

Hashes(info) == Slices(TextAt(info, Key.pieces), HashLength)

\* The torrent files LoadTorrentFile may return; infoHash stands for the bytes
\* it is the hash of.
LoadedFiles(value, span) ==
  LET info == IF Has(value, Key.info) THEN value.map[Key.info] ELSE DictOf(<< >>) IN
    [ announce    : {TextAt(value, Key.announce)},
      name        : {TextAt(info, Key.name)},
      length      : NumbersAt(info, Key.length),
      pieceLength : NumbersAt(info, Key.pieceLength),
      pieceHashes : {Hashes(info)},
      infoHash    : {span} ]

-------------------------------------------------------------------------------
(* UpdatePeers *)

\* Answers that leave the list of peers empty: no dictionary, a failure
\* reason, no peers, or peers that are not a compact string.
Refused(value) ==
  ~ /\ value.t = "dict"
    /\ ~Has(value, Key.failure)
    /\ Has(value, Key.peers)
    /\ ~WrongType(value, Key.peers, "str")

\* Four bytes of the address and two of the port.
PeerOf(s) == [ip |-> SubSeq(s, 1, 4), port |-> s[5] * 256 + s[6]]

PeersIn(value) ==
  LET slices == Slices(TextAt(value, Key.peers), 6) IN
    [k \in DOMAIN slices |-> PeerOf(slices[k])]
===============================================================================
