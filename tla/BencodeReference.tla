-------------------------- MODULE BencodeReference ---------------------------
(***************************************************************************)
(* What the parser should do: the bencoding of a document, and its value.  *)
(* A document is a number, a text, a list of documents, or a sequence of   *)
(* pairs of a key and a document.                                          *)
(***************************************************************************)
EXTENDS Bencode

CONSTANT Size   \* of every document: of how many it is made, itself included

Parts == DOMAIN Size

Pair(key, value) == [key |-> key, value |-> value]
Pairs(pairs) == [t |-> "pairs", keys  |-> [k \in DOMAIN pairs |-> pairs[k].key],
                                items |-> [k \in DOMAIN pairs |-> pairs[k].value]]

IsContainer(doc) == doc.t \in {"list", "pairs"}
Count(doc)       == IF IsContainer(doc) THEN Len(doc.items) ELSE 0

\* Documents are finite, and so are the documents they are made of.
ASSUME DocumentAssumption ==
  /\ Size \in [Parts -> Nat]
  /\ \A doc \in Parts :
       /\ doc.t \in {"int", "str", "list", "pairs"}
       /\ doc.t = "str" => doc = Text(doc.s)
       /\ IsContainer(doc) => /\ doc.items \in Seq(Parts)
                              /\ \A k \in DOMAIN doc.items :
                                    Size[doc.items[k]] + Count(doc) <= Size[doc]

\* A document up to its n-th element is << doc, n >>.
Places == {place \in Parts \X Nat : place[2] <= Count(place[1])}

Opening(doc)    == << IF doc.t = "list" THEN ListToken ELSE DictToken >>
Ending(doc)     == IF IsContainer(doc) THEN << EndToken >> ELSE << >>
KeyText(doc, n) == IF doc.t = "pairs" THEN << Text(doc.keys[n]) >> ELSE << >>

\* The last of the first n keys that is this one: the one that counts.
LastPlaces(keys, key, n) == {k \in 1 .. n : keys[k] = key /\ \A l \in k + 1 .. n : keys[l] # key}
LastPlace(keys, key, n)  == CHOOSE k \in LastPlaces(keys, key, n) : TRUE

\* The text and the value of all of a document, given those of places.
TextIn(reading, doc)  == reading[<< doc, Count(doc) >>].text \o Ending(doc)
ValueIn(reading, doc) == reading[<< doc, Count(doc) >>].value

TextUpTo(reading, doc, n) ==
  IF ~IsContainer(doc) THEN << doc >>
  ELSE IF n = 0 THEN Opening(doc)
  ELSE reading[<< doc, n - 1 >>].text \o KeyText(doc, n) \o TextIn(reading, doc.items[n])

ValueUpTo(reading, doc, n) ==
  IF ~IsContainer(doc) THEN doc
  ELSE IF doc.t = "list" THEN ListOf([k \in 1 .. n |-> ValueIn(reading, doc.items[k])])
  ELSE DictOf([key \in {doc.keys[k] : k \in 1 .. n} |->
                 ValueIn(reading, doc.items[LastPlace(doc.keys, key, n)])])

Reading[place \in Places] == [text  |-> TextUpTo(Reading, place[1], place[2]),
                              value |-> ValueUpTo(Reading, place[1], place[2])]

Encoding == [doc \in Parts |-> TextIn(Reading, doc)]
Value    == [doc \in Parts |-> ValueIn(Reading, doc)]

Encode(doc)  == Encoding[doc]
Meaning(doc) == Value[doc]

\* How many tokens of a document come before its (n + 1)-th element.
Before(doc, n) == Len(Reading[<< doc, n >>].text)
===============================================================================
