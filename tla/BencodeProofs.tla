---------------------------- MODULE BencodeProofs ----------------------------
(***************************************************************************)
(* The parser reads every document: while it runs, the containers that are *)
(* open are those around the place that is read, and each holds the value  *)
(* of the elements behind.  That is so before each step and after it, so   *)
(* at the end the value is the document's.                                 *)
(***************************************************************************)
EXTENDS BencodeReference, InductionFacts

-------------------------------------------------------------------------------
(* Documents: their texts and values are well defined. *)

Rank(place) == Size[place[1]] - Count(place[1]) + place[2]

Rule(reading, place) == [text  |-> TextUpTo(reading, place[1], place[2]),
                         value |-> ValueUpTo(reading, place[1], place[2])]

\* A document has as many parts as its size says, and they are smaller.
LEMMA DocumentFacts ==
  ASSUME NEW doc \in Parts
  PROVE  /\ Size[doc] \in Nat /\ Count(doc) \in Nat /\ Count(doc) <= Size[doc]
         /\ IsContainer(doc) =>
              /\ DOMAIN doc.items = 1 .. Count(doc) /\ Len(doc.items) = Count(doc)
              /\ \A k \in 1 .. Count(doc) :
                   doc.items[k] \in Parts /\ Size[doc.items[k]] + Count(doc) <= Size[doc]
<1>1. \A d \in Parts : Size[d] \in Nat
  BY DocumentAssumption
<1>2. CASE IsContainer(doc)
  <2>1. /\ doc.items \in Seq(Parts)
        /\ \A k \in DOMAIN doc.items : Size[doc.items[k]] + Count(doc) <= Size[doc]
    BY <1>2, DocumentAssumption
  <2>2. /\ DOMAIN doc.items = 1 .. Len(doc.items) /\ Len(doc.items) \in Nat
        /\ \A k \in 1 .. Len(doc.items) : doc.items[k] \in Parts
    BY <2>1, ElementOfSeq, LenProperties
  <2>3. Count(doc) = Len(doc.items)
    BY <1>2 DEF Count
  <2>4. Count(doc) # 0 => Count(doc) <= Size[doc]
    <3> SUFFICES ASSUME Count(doc) # 0 PROVE Count(doc) <= Size[doc]
      OBVIOUS
    <3>1. 1 \in 1 .. Count(doc) /\ doc.items[1] \in Parts
      BY <2>2, <2>3
    <3>2. Size[doc.items[1]] \in Nat /\ Size[doc] \in Nat /\ Size[doc.items[1]] + Count(doc) <= Size[doc]
      BY <1>1, <2>1, <2>2, <2>3, <3>1
    <3> QED
      BY <2>2, <2>3, <3>2
  <2> QED
    BY <1>1, <2>1, <2>2, <2>3, <2>4
<1>3. CASE ~IsContainer(doc)
  BY <1>1, <1>3 DEF Count
<1> QED
  BY <1>2, <1>3

\* What a place is, and that its rank is a natural number.
LEMMA PlaceFacts ==
  \A place \in Places :
    /\ place[1] \in Parts /\ place[2] \in Nat /\ place[2] <= Count(place[1])
    /\ place = << place[1], place[2] >> /\ Rank(place) \in Nat
<1> SUFFICES ASSUME NEW place \in Places
    PROVE  /\ place[1] \in Parts /\ place[2] \in Nat /\ place[2] <= Count(place[1])
           /\ place = << place[1], place[2] >> /\ Rank(place) \in Nat
  OBVIOUS
<1>1. /\ place[1] \in Parts /\ place[2] \in Nat /\ place[2] <= Count(place[1])
      /\ place = << place[1], place[2] >>
  BY DEF Places
<1>2. Size[place[1]] \in Nat /\ Count(place[1]) \in Nat /\ Count(place[1]) <= Size[place[1]]
  BY <1>1, DocumentFacts
<1> QED
  BY <1>1, <1>2 DEF Rank

\* What a place needs comes before it.
LEMMA EarlierPlaces ==
  ASSUME NEW doc \in Parts, NEW n \in Nat, n <= Count(doc), IsContainer(doc)
  PROVE  /\ n # 0 => << doc, n - 1 >> \in Places /\ Rank(<< doc, n - 1 >>) < Rank(<< doc, n >>)
         /\ \A k \in 1 .. n :
              LET item == doc.items[k] IN
                /\ item \in Parts /\ << item, Count(item) >> \in Places
                /\ Rank(<< item, Count(item) >>) < Rank(<< doc, n >>)
<1>1. Size[doc] \in Nat /\ Count(doc) \in Nat /\ Count(doc) <= Size[doc]
  BY DocumentFacts
<1>2. \A m : Rank(<< doc, m >>) = Size[doc] - Count(doc) + m
  BY DEF Rank
<1>3. ASSUME n # 0
      PROVE  << doc, n - 1 >> \in Places /\ Rank(<< doc, n - 1 >>) < Rank(<< doc, n >>)
  <2>1. n - 1 \in Nat /\ n - 1 <= Count(doc)
    BY <1>1, <1>3
  <2> QED
    BY <1>1, <1>2, <2>1 DEF Places
<1>4. ASSUME NEW k \in 1 .. n, NEW item, item = doc.items[k]
      PROVE  /\ item \in Parts /\ << item, Count(item) >> \in Places
             /\ Rank(<< item, Count(item) >>) < Rank(<< doc, n >>)
  <2>1. item \in Parts /\ Size[item] + Count(doc) <= Size[doc]
    <3>1. k \in 1 .. Count(doc)
      BY <1>1
    <3> QED
      BY <1>4, <3>1, DocumentFacts
  <2>2. Size[item] \in Nat /\ Count(item) \in Nat
    BY <2>1, DocumentFacts
  <2>3. Rank(<< item, Count(item) >>) = Size[item]
    BY <2>2 DEF Rank
  <2> QED
    BY <1>1, <1>2, <2>1, <2>2, <2>3 DEF Places
<1> QED
  BY <1>1, <1>2, <1>3, <1>4

\* A key that is there has a last place.
LEMMA LastPlaceIs ==
  ASSUME NEW keys, NEW n \in Nat, NEW key \in {keys[k] : k \in 1 .. n}
  PROVE  LastPlace(keys, key, n) \in 1 .. n
<1> DEFINE T == {n - k : k \in {l \in 1 .. n : keys[l] = key}}
<1>1. T \subseteq Nat /\ T # {}
  OBVIOUS
<1>2. PICK x \in T : \A y \in T : x <= y
  <2> HIDE DEF T
  <2> QED
    BY <1>1, LeastNatural
<1>3. n - x \in LastPlaces(keys, key, n)
  <2>1. n - x \in 1 .. n /\ keys[n - x] = key
    <3>1. PICK k \in 1 .. n : keys[k] = key /\ x = n - k
      BY <1>2
    <3>2. n - x = k
      BY <3>1
    <3> QED
      BY <3>1, <3>2
  <2>2. ASSUME NEW l \in n - x + 1 .. n, keys[l] = key PROVE FALSE
    <3>1. l \in 1 .. n
      BY <2>1
    <3>2. n - l \in T
      BY <2>2, <3>1
    <3>3. x <= n - l
      BY <1>2, <3>2
    <3> QED
      BY <1>1, <2>1, <3>1, <3>3
  <2> QED
    BY <2>1, <2>2 DEF LastPlaces
<1>4. LastPlace(keys, key, n) \in LastPlaces(keys, key, n)
  BY <1>3 DEF LastPlace
<1> QED
  BY <1>4 DEF LastPlaces

\* The text and the value up to a place are made of those of places before it.
LEMMA RuleAgrees ==
  \A place \in Places : \A f, g :
    (\A p \in Places : Rank(p) < Rank(place) => f[p] = g[p]) => Rule(f, place) = Rule(g, place)
<1> SUFFICES ASSUME NEW place \in Places, NEW f, NEW g,
                    \A p \in Places : Rank(p) < Rank(place) => f[p] = g[p]
             PROVE  Rule(f, place) = Rule(g, place)
  OBVIOUS
<1> DEFINE doc == place[1]
           n == place[2]
<1>1. n \in Nat /\ doc \in Parts /\ n <= Count(doc) /\ place = << doc, n >>
  BY PlaceFacts
<1>2. CASE ~IsContainer(doc)
  BY <1>2 DEF Rule, TextUpTo, ValueUpTo
<1>3. CASE IsContainer(doc)
  <2>1. \A k \in 1 .. n : TextIn(f, doc.items[k]) = TextIn(g, doc.items[k])
                          /\ ValueIn(f, doc.items[k]) = ValueIn(g, doc.items[k])
    BY <1>1, <1>3, EarlierPlaces DEF TextIn, ValueIn
  <2>2. n # 0 => f[<< doc, n - 1 >>] = g[<< doc, n - 1 >>]
    BY <1>1, <1>3, EarlierPlaces
  <2>3. n # 0 => n \in 1 .. n
    BY <1>1
  <2> HIDE DEF doc, n
  <2>4. TextUpTo(f, doc, n) = TextUpTo(g, doc, n)
    BY <1>3, <2>1, <2>2, <2>3 DEF TextUpTo
  <2>5. ValueUpTo(f, doc, n) = ValueUpTo(g, doc, n)
    <3>1. CASE doc.t = "list"
      <4>1. [k \in 1 .. n |-> ValueIn(f, doc.items[k])] = [k \in 1 .. n |-> ValueIn(g, doc.items[k])]
        BY <2>1
      <4> QED
        BY <1>3, <3>1, <4>1 DEF ValueUpTo
    <3>2. CASE doc.t # "list"
      <4> DEFINE keys == {doc.keys[k] : k \in 1 .. n}
                 last(key) == LastPlace(doc.keys, key, n)
      <4>1. \A key \in keys : last(key) \in 1 .. n
        BY <1>1, LastPlaceIs
      <4> HIDE DEF keys, last
      <4>2. [key \in keys |-> ValueIn(f, doc.items[last(key)])]
              = [key \in keys |-> ValueIn(g, doc.items[last(key)])]
        BY <2>1, <4>1
      <4> QED
        BY <1>3, <3>2, <4>2 DEF ValueUpTo, keys, last
    <3> QED
      BY <3>1, <3>2
  <2> QED
    BY <2>4, <2>5 DEF Rule, doc, n
<1> QED
  BY <1>2, <1>3

\* A reading that is right below a rank.
ReadsBelow(f, n) == \A p \in Places : Rank(p) < n => f[p] = Rule(f, p)

\* Below every rank there is a right reading,
LEMMA ReadingExists == \A n \in Nat : \E f : ReadsBelow(f, n)
<1> DEFINE A == {n \in Nat : \E f : ReadsBelow(f, n)}
<1>1. 0 \in A
  <2>1. \A p \in Places : ~(Rank(p) < 0)
    BY PlaceFacts
  <2> QED
    BY <2>1 DEF ReadsBelow
<1>2. ASSUME NEW n \in Nat, n \in A PROVE n + 1 \in A
  <2>1. PICK f : ReadsBelow(f, n)
    BY <1>2
  <2> DEFINE g == [p \in Places |-> IF Rank(p) < n THEN f[p] ELSE Rule(f, p)]
  <2>2. \A p \in Places : Rank(p) < n => g[p] = f[p]
    OBVIOUS
  <2>3. \A p \in Places : Rank(p) < n + 1 => Rule(g, p) = Rule(f, p)
    <3> SUFFICES ASSUME NEW p \in Places, Rank(p) < n + 1 PROVE Rule(g, p) = Rule(f, p)
      OBVIOUS
    <3>1. ASSUME NEW q \in Places, Rank(q) < Rank(p) PROVE g[q] = f[q]
      <4>1. Rank(q) \in Nat /\ Rank(p) \in Nat
        BY PlaceFacts
      <4>2. Rank(q) < n
        BY <3>1, <4>1
      <4> QED
        BY <2>2, <4>2
    <3> HIDE DEF g
    <3> QED
      BY <3>1, RuleAgrees
  <2>4. \A p \in Places : g[p] = Rule(f, p)
    BY <2>1 DEF ReadsBelow
  <2> HIDE DEF g
  <2>5. ReadsBelow(g, n + 1)
    BY <2>3, <2>4 DEF ReadsBelow
  <2> QED
    BY <2>5
<1> HIDE DEF A
<1>3. \A n \in Nat : n \in A
  BY <1>1, <1>2, SetInduction
<1> QED
  BY <1>3 DEF A

\* and no more than one:
LEMMA ReadingsAgree ==
  \A f, g : \A n \in Nat :
    ReadsBelow(f, n) /\ ReadsBelow(g, n) => \A p \in Places : Rank(p) < n => f[p] = g[p]
<1> SUFFICES ASSUME NEW f, NEW g, NEW n \in Nat, ReadsBelow(f, n), ReadsBelow(g, n)
             PROVE  \A p \in Places : Rank(p) < n => f[p] = g[p]
  OBVIOUS
<1> DEFINE A == {m \in Nat : m <= n => \A p \in Places : Rank(p) < m => f[p] = g[p]}
<1>1. 0 \in A
  BY PlaceFacts
<1>2. ASSUME NEW m \in Nat, m \in A PROVE m + 1 \in A
  <2> SUFFICES ASSUME m + 1 <= n, NEW p \in Places, Rank(p) < m + 1 PROVE f[p] = g[p]
    OBVIOUS
  <2>1. \A q \in Places : Rank(q) < m => f[q] = g[q]
    BY <1>2
  <2>2. Rank(p) \in Nat /\ \A q \in Places : Rank(q) \in Nat
    BY PlaceFacts
  <2>3. \A q \in Places : Rank(q) < Rank(p) => f[q] = g[q]
    BY <2>1, <2>2
  <2>4. Rule(f, p) = Rule(g, p)
    BY <2>3, RuleAgrees
  <2>5. Rank(p) < n
    BY <2>2
  <2> QED
    BY <2>4, <2>5 DEF ReadsBelow
<1> HIDE DEF A
<1>3. n \in A
  BY <1>1, <1>2, SetInduction
<1> QED
  BY <1>3 DEF A

\* so Reading, which is defined by recursion, obeys its rule everywhere.
LEMMA ReadingIsRule == \A place \in Places : Reading[place] = Rule(Reading, place)
<1> DEFINE below(n) == CHOOSE f : ReadsBelow(f, n)
           whole == [p \in Places |-> below(Rank(p) + 1)[p]]
<1>1. \A n \in Nat : ReadsBelow(below(n), n)
  BY ReadingExists
<1> HIDE DEF below
<1>2. ASSUME NEW p \in Places PROVE whole[p] = Rule(whole, p)
  <2> DEFINE f == below(Rank(p) + 1)
  <2>1. Rank(p) \in Nat /\ Rank(p) + 1 \in Nat /\ Rank(p) < Rank(p) + 1
    BY PlaceFacts
  <2>2. ReadsBelow(f, Rank(p) + 1)
    BY <1>1, <2>1
  <2>3. whole[p] = f[p] /\ f[p] = Rule(f, p)
    BY <2>1, <2>2 DEF ReadsBelow
  <2>4. ASSUME NEW q \in Places, Rank(q) < Rank(p) PROVE whole[q] = f[q]
    <3>1. Rank(q) \in Nat /\ Rank(q) + 1 \in Nat /\ Rank(q) < Rank(q) + 1
      BY PlaceFacts
    <3>2. ReadsBelow(below(Rank(q) + 1), Rank(q) + 1)
      BY <1>1, <3>1
    <3>3. ReadsBelow(f, Rank(q) + 1)
      <4>1. ASSUME NEW r \in Places, Rank(r) < Rank(q) + 1 PROVE Rank(r) < Rank(p) + 1
        <5>1. Rank(r) \in Nat
          BY PlaceFacts
        <5> QED
          BY <2>1, <2>4, <3>1, <4>1, <5>1
      <4> QED
        BY <2>2, <4>1 DEF ReadsBelow
    <3>4. below(Rank(q) + 1)[q] = f[q]
      <4> HIDE DEF f
      <4> QED
        BY <3>1, <3>2, <3>3, ReadingsAgree
    <3> QED
      BY <3>4
  <2> HIDE DEF f, whole
  <2>5. Rule(whole, p) = Rule(f, p)
    BY <2>4, RuleAgrees
  <2> QED
    BY <2>3, <2>5
<1>3. whole = [p \in Places |-> Rule(whole, p)]
  <2>1. whole = [p \in Places |-> whole[p]]
    OBVIOUS
  <2> HIDE DEF whole
  <2> QED
    BY <1>2, <2>1
<1> HIDE DEF whole
<1>4. Reading = [p \in Places |-> Rule(Reading, p)]
  BY <1>3 DEF Reading, Rule
<1> QED
  BY <1>4

-------------------------------------------------------------------------------
(* Texts, token by token *)

UpTo(doc, n)    == Reading[<< doc, n >>].text
ValueAt(doc, n) == Reading[<< doc, n >>].value
KeyLength(doc)  == IF doc.t = "pairs" THEN 1 ELSE 0

\* The text and the value of a document in terms of its places.
LEMMA ReadingParts ==
  ASSUME NEW doc \in Parts
  PROVE  /\ Encode(doc) = UpTo(doc, Count(doc)) \o Ending(doc)
         /\ Meaning(doc) = ValueAt(doc, Count(doc))
         /\ \A n \in 0 .. Count(doc) : /\ UpTo(doc, n) = TextUpTo(Reading, doc, n)
                                       /\ ValueAt(doc, n) = ValueUpTo(Reading, doc, n)
<1>1. Encode(doc) = UpTo(doc, Count(doc)) \o Ending(doc) /\ Meaning(doc) = ValueAt(doc, Count(doc))
  BY DEF Encode, Encoding, Meaning, Value, TextIn, ValueIn, UpTo, ValueAt
<1>2. ASSUME NEW n \in 0 .. Count(doc)
      PROVE  UpTo(doc, n) = TextUpTo(Reading, doc, n) /\ ValueAt(doc, n) = ValueUpTo(Reading, doc, n)
  <2>1. << doc, n >> \in Places
    BY DocumentFacts DEF Places
  <2>2. Reading[<< doc, n >>] = Rule(Reading, << doc, n >>)
    BY <2>1, ReadingIsRule
  <2> QED
    BY <2>2 DEF Rule, UpTo, ValueAt
<1> QED
  BY <1>1, <1>2

\* The same by cases.
LEMMA FlatText ==
  ASSUME NEW doc \in Parts, ~IsContainer(doc)
  PROVE  Encode(doc) = << doc >> /\ Meaning(doc) = doc /\ UpTo(doc, 0) = << doc >> /\ Count(doc) = 0
<1>1. Count(doc) = 0 /\ Ending(doc) = << >>
  BY DEF Count, Ending
<1>2. UpTo(doc, 0) = << doc >> /\ ValueAt(doc, 0) = doc
  <2>1. 0 \in 0 .. Count(doc)
    BY <1>1
  <2> QED
    BY <2>1, ReadingParts DEF TextUpTo, ValueUpTo
<1> QED
  BY <1>1, <1>2, ReadingParts

\* The text of a container, element by element.
LEMMA ContainerText ==
  ASSUME NEW doc \in Parts, IsContainer(doc)
  PROVE  /\ UpTo(doc, 0) = Opening(doc)
         /\ Encode(doc) = UpTo(doc, Count(doc)) \o << EndToken >>
         /\ \A n \in 1 .. Count(doc) :
              UpTo(doc, n) = UpTo(doc, n - 1) \o KeyText(doc, n) \o Encode(doc.items[n])
<1>1. UpTo(doc, 0) = Opening(doc)
  <2>1. 0 \in 0 .. Count(doc)
    BY DocumentFacts
  <2> QED
    BY <2>1, ReadingParts DEF TextUpTo
<1>2. ASSUME NEW n \in 1 .. Count(doc)
      PROVE  UpTo(doc, n) = UpTo(doc, n - 1) \o KeyText(doc, n) \o Encode(doc.items[n])
  <2>1. n \in 0 .. Count(doc) /\ n # 0 /\ doc.items[n] \in Parts
    BY DocumentFacts
  <2>2. UpTo(doc, n) = UpTo(doc, n - 1) \o KeyText(doc, n) \o TextIn(Reading, doc.items[n])
    BY <2>1, ReadingParts DEF TextUpTo, UpTo
  <2>3. TextIn(Reading, doc.items[n]) = Encode(doc.items[n])
    BY <2>1 DEF Encode, Encoding
  <2> QED
    BY <2>2, <2>3
<1> QED
  BY <1>1, <1>2, ReadingParts DEF Ending

\* The tokens of texts.
Alphabet == {doc \in Parts : ~IsContainer(doc)} \cup {ListToken, DictToken, EndToken}
              \cup {Text(doc.keys[n]) : doc \in Parts, n \in Nat}

\* No text of a document has the token of a stray character.
LEMMA TokenKinds ==
  \A token \in Alphabet :
    /\ token.t \in {"int", "str", "l", "d", "e"}
    /\ token.t = "str" => token = Text(token.s)
<1>1. \A token \in {ListToken, DictToken, EndToken} : token.t \in {"l", "d", "e"}
  BY DEF ListToken, DictToken, EndToken
<1>2. \A doc \in Parts : ~IsContainer(doc) => /\ doc.t \in {"int", "str"}
                                              /\ doc.t = "str" => doc = Text(doc.s)
  BY DocumentAssumption DEF IsContainer
<1>3. \A s : Text(s).t = "str" /\ Text(s).s = s
  BY DEF Text
<1> QED
  BY <1>1, <1>2, <1>3 DEF Alphabet

\* Texts are sequences of these tokens.
LEMMA TextsAreTokens ==
  ASSUME NEW doc \in Parts
  PROVE  /\ Encode(doc) \in Seq(Alphabet)
         /\ \A n \in 0 .. Count(doc) : UpTo(doc, n) \in Seq(Alphabet)
<1> DEFINE A == {m \in Nat : \A place \in Places : Rank(place) < m => Reading[place].text \in Seq(Alphabet)}
<1>1. 0 \in A
  BY PlaceFacts
<1>2. \A d \in Parts : Opening(d) \in Seq(Alphabet) /\ Ending(d) \in Seq(Alphabet)
  <2>1. ListToken \in Alphabet /\ DictToken \in Alphabet /\ EndToken \in Alphabet
    BY DEF Alphabet
  <2> QED
    BY <2>1 DEF Opening, Ending
<1>3. \A d \in Parts, n \in Nat : KeyText(d, n) \in Seq(Alphabet)
  <2>1. \A d \in Parts, n \in Nat : Text(d.keys[n]) \in Alphabet
    BY DEF Alphabet
  <2> QED
    BY <2>1 DEF KeyText
<1>4. ASSUME NEW m \in Nat, m \in A PROVE m + 1 \in A
  <2>1. ASSUME NEW place \in Places, Rank(place) < m + 1 PROVE Reading[place].text \in Seq(Alphabet)
    <3>1. PICK d \in Parts, n \in Nat : place = << d, n >> /\ n <= Count(d)
      BY PlaceFacts
    <3>2. Reading[place].text = TextUpTo(Reading, d, n)
      <4>1. Reading[place] = Rule(Reading, << d, n >>)
        BY <3>1, ReadingIsRule
      <4> QED
        BY <4>1 DEF Rule
    <3>3. CASE ~IsContainer(d)
      BY <3>2, <3>3 DEF TextUpTo, Alphabet
    <3>4. CASE IsContainer(d) /\ n = 0
      BY <1>2, <3>2, <3>4 DEF TextUpTo
    <3>5. CASE IsContainer(d) /\ n # 0
      <4>1. \A p \in Places : Rank(p) < Rank(place) => Reading[p].text \in Seq(Alphabet)
        <5>1. Rank(place) \in Nat /\ \A p \in Places : Rank(p) \in Nat
          BY PlaceFacts
        <5> QED
          BY <1>4, <2>1, <5>1
      <4>2. n \in 1 .. n
        BY <3>5
      <4>3. Reading[<< d, n - 1 >>].text \in Seq(Alphabet)
        BY <3>1, <3>5, <4>1, EarlierPlaces
      <4>4. TextIn(Reading, d.items[n]) \in Seq(Alphabet)
        <5>1. d.items[n] \in Parts /\ Reading[<< d.items[n], Count(d.items[n]) >>].text \in Seq(Alphabet)
          BY <3>1, <3>5, <4>1, <4>2, EarlierPlaces
        <5> QED
          BY <1>2, <5>1, ConcatProperties DEF TextIn
      <4> QED
        BY <1>3, <3>2, <3>5, <4>3, <4>4, ConcatProperties DEF TextUpTo
    <3> QED
      BY <3>3, <3>4, <3>5
  <2> QED
    BY <2>1
<1> HIDE DEF A
<1>5. \A m \in Nat : m \in A
  BY <1>1, <1>4, SetInduction
<1>6. ASSUME NEW n \in 0 .. Count(doc) PROVE UpTo(doc, n) \in Seq(Alphabet)
  <2>1. << doc, n >> \in Places
    BY DocumentFacts DEF Places
  <2>2. Rank(<< doc, n >>) \in Nat /\ Rank(<< doc, n >>) < Rank(<< doc, n >>) + 1
    BY <2>1, PlaceFacts
  <2>3. Rank(<< doc, n >>) + 1 \in A
    BY <1>5, <2>2
  <2> QED
    BY <2>1, <2>2, <2>3 DEF A, UpTo
<1>7. UpTo(doc, Count(doc)) \in Seq(Alphabet)
  BY <1>6, DocumentFacts
<1> QED
  BY <1>2, <1>6, <1>7, ReadingParts, ConcatProperties

\* What an element adds to the text.
LEMMA ElementText ==
  ASSUME NEW doc \in Parts, IsContainer(doc), NEW n \in 1 .. Count(doc)
  PROVE  LET b == Len(UpTo(doc, n - 1))
             item == doc.items[n]
         IN  /\ b \in Nat /\ Len(Encode(item)) \in Nat
             /\ Len(UpTo(doc, n)) = b + KeyLength(doc) + Len(Encode(item))
             /\ \A j \in 1 .. b : UpTo(doc, n)[j] = UpTo(doc, n - 1)[j]
             /\ doc.t = "pairs" => UpTo(doc, n)[b + 1] = Text(doc.keys[n])
             /\ \A j \in 1 .. Len(Encode(item)) : UpTo(doc, n)[b + KeyLength(doc) + j] = Encode(item)[j]
<1> DEFINE u == UpTo(doc, n - 1)
           e == Encode(doc.items[n])
           k == KeyText(doc, n)
<1>1. n - 1 \in 0 .. Count(doc) /\ doc.items[n] \in Parts /\ n \in Nat
  BY DocumentFacts
<1>2. u \in Seq(Alphabet) /\ e \in Seq(Alphabet) /\ Len(u) \in Nat /\ Len(e) \in Nat
  BY <1>1, TextsAreTokens, LenProperties
<1>3. k \in Seq(Alphabet) /\ Len(k) = KeyLength(doc) /\ (doc.t = "pairs" => k[1] = Text(doc.keys[n]))
  <2>1. Text(doc.keys[n]) \in Alphabet
    BY <1>1 DEF Alphabet
  <2> QED
    BY <2>1 DEF KeyText, KeyLength
<1>4. KeyLength(doc) \in Nat /\ (doc.t = "pairs" => KeyLength(doc) = 1)
  BY DEF KeyLength
<1>5. UpTo(doc, n) = u \o k \o e
  BY ContainerText
<1> HIDE DEF u, k, e
<1>6. /\ u \o k \in Seq(Alphabet) /\ Len(u \o k) = Len(u) + Len(k)
      /\ \A j \in 1 .. Len(u) : (u \o k)[j] = u[j]
      /\ \A j \in 1 .. Len(k) : (u \o k)[Len(u) + j] = k[j]
  BY <1>2, <1>3
<1>7. /\ Len(u \o k \o e) = Len(u) + Len(k) + Len(e)
      /\ \A j \in 1 .. Len(u) + Len(k) : (u \o k \o e)[j] = (u \o k)[j]
      /\ \A j \in 1 .. Len(e) : (u \o k \o e)[Len(u) + Len(k) + j] = e[j]
  <2> DEFINE uk == u \o k
  <2>1. uk \in Seq(Alphabet) /\ Len(uk) = Len(u) + Len(k)
    BY <1>6
  <2> HIDE DEF uk
  <2>2. /\ Len(uk \o e) = Len(uk) + Len(e)
        /\ \A j \in 1 .. Len(uk) : (uk \o e)[j] = uk[j]
        /\ \A j \in 1 .. Len(e) : (uk \o e)[Len(uk) + j] = e[j]
    BY <1>2, <2>1
  <2> QED
    BY <2>1, <2>2 DEF uk
<1>8. \A j \in 1 .. Len(u) : UpTo(doc, n)[j] = u[j]
  BY <1>2, <1>3, <1>4, <1>5, <1>6, <1>7
<1>9. doc.t = "pairs" => UpTo(doc, n)[Len(u) + 1] = Text(doc.keys[n])
  BY <1>2, <1>3, <1>4, <1>5, <1>6, <1>7
<1>10. \A j \in 1 .. Len(e) : UpTo(doc, n)[Len(u) + KeyLength(doc) + j] = e[j]
  BY <1>3, <1>5, <1>7
<1>11. Len(UpTo(doc, n)) = Len(u) + KeyLength(doc) + Len(e)
  BY <1>3, <1>5, <1>7
<1> QED
  BY <1>2, <1>8, <1>9, <1>10, <1>11 DEF u, e

\* What was written stays in place.
LEMMA TextGrows ==
  ASSUME NEW doc \in Parts, IsContainer(doc), NEW n \in 0 .. Count(doc)
  PROVE  /\ Len(UpTo(doc, n)) \in Nat /\ Len(UpTo(doc, n)) <= Len(UpTo(doc, Count(doc)))
         /\ \A j \in 1 .. Len(UpTo(doc, n)) : UpTo(doc, Count(doc))[j] = UpTo(doc, n)[j]
<1> DEFINE Stays(m) == /\ Len(UpTo(doc, n)) <= Len(UpTo(doc, m))
                       /\ \A j \in 1 .. Len(UpTo(doc, n)) : UpTo(doc, m)[j] = UpTo(doc, n)[j]
           A == {m \in Nat : n + m <= Count(doc) => Stays(n + m)}
<1>1. Count(doc) \in Nat /\ \A m \in 0 .. Count(doc) : Len(UpTo(doc, m)) \in Nat
  BY DocumentFacts, TextsAreTokens, LenProperties
<1>2. 0 \in A
  BY <1>1
<1>3. ASSUME NEW m \in Nat, m \in A PROVE m + 1 \in A
  <2> SUFFICES ASSUME n + (m + 1) <= Count(doc) PROVE Stays(n + (m + 1))
    OBVIOUS
  <2>1. Stays(n + m) /\ n + (m + 1) \in 1 .. Count(doc) /\ n + (m + 1) - 1 = n + m
    BY <1>1, <1>3
  <2>2. /\ Len(UpTo(doc, n + (m + 1))) >= Len(UpTo(doc, n + m))
        /\ \A j \in 1 .. Len(UpTo(doc, n + m)) : UpTo(doc, n + (m + 1))[j] = UpTo(doc, n + m)[j]
    <3>1. KeyLength(doc) \in Nat
      BY DEF KeyLength
    <3> QED
      BY <2>1, <3>1, ElementText
  <2>3. n + m \in 0 .. Count(doc) /\ n + (m + 1) \in 0 .. Count(doc)
    BY <1>1
  <2> QED
    BY <1>1, <2>1, <2>2, <2>3
<1> HIDE DEF A, Stays
<1>4. Count(doc) - n \in A
  <2>1. Count(doc) - n \in Nat
    BY <1>1
  <2> QED
    BY <1>2, <1>3, <2>1, SetInduction
<1>5. Stays(Count(doc))
  <2>1. n + (Count(doc) - n) = Count(doc) /\ Count(doc) <= Count(doc)
    BY <1>1
  <2> QED
    BY <1>4, <2>1 DEF A
<1> QED
  BY <1>1, <1>5 DEF Stays

\* The places of a text.
LEMMA TextPlaces ==
  ASSUME NEW doc \in Parts, IsContainer(doc)
  PROVE  /\ Before(doc, 0) = 1 /\ Encode(doc)[1] = Opening(doc)[1]
         /\ Len(Encode(doc)) = Before(doc, Count(doc)) + 1
         /\ Encode(doc)[Before(doc, Count(doc)) + 1] = EndToken
         /\ \A n \in 0 .. Count(doc) :
              /\ Before(doc, n) \in Nat /\ Before(doc, n) <= Before(doc, Count(doc))
              /\ \A j \in 1 .. Before(doc, n) : Encode(doc)[j] = UpTo(doc, n)[j]
<1>1. \A n : Before(doc, n) = Len(UpTo(doc, n))
  BY DEF Before, UpTo
<1>2. Count(doc) \in Nat /\ UpTo(doc, Count(doc)) \in Seq(Alphabet) /\ Len(UpTo(doc, Count(doc))) \in Nat
  BY DocumentFacts, TextsAreTokens, LenProperties
<1>3. EndToken \in Alphabet
  BY DEF Alphabet
<1>4. /\ Len(Encode(doc)) = Len(UpTo(doc, Count(doc))) + 1
      /\ \A j \in 1 .. Len(UpTo(doc, Count(doc))) : Encode(doc)[j] = UpTo(doc, Count(doc))[j]
      /\ Encode(doc)[Len(UpTo(doc, Count(doc))) + 1] = EndToken
  <2> DEFINE u == UpTo(doc, Count(doc))
  <2>1. Encode(doc) = u \o << EndToken >>
    BY ContainerText
  <2>2. u \in Seq(Alphabet) /\ Len(u) \in Nat
    BY <1>2
  <2> HIDE DEF u
  <2>3. /\ Len(u \o << EndToken >>) = Len(u) + 1
        /\ \A j \in 1 .. Len(u) : (u \o << EndToken >>)[j] = u[j]
        /\ (u \o << EndToken >>)[Len(u) + 1] = EndToken
    BY <1>3, <2>2
  <2> QED
    BY <2>1, <2>3 DEF u
<1>5. ASSUME NEW n \in 0 .. Count(doc)
      PROVE  /\ Before(doc, n) \in Nat /\ Before(doc, n) <= Before(doc, Count(doc))
             /\ \A j \in 1 .. Before(doc, n) : Encode(doc)[j] = UpTo(doc, n)[j]
  BY <1>1, <1>2, <1>4, TextGrows
<1>6. Before(doc, 0) = 1 /\ UpTo(doc, 0)[1] = Opening(doc)[1]
  <2>1. UpTo(doc, 0) = Opening(doc) /\ Len(Opening(doc)) = 1
    BY ContainerText DEF Opening
  <2> QED
    BY <1>1, <2>1
<1>7. Encode(doc)[1] = Opening(doc)[1]
  <2>1. 0 \in 0 .. Count(doc) /\ 1 \in 1 .. 1
    BY <1>2
  <2> QED
    BY <1>5, <1>6, <2>1
<1> QED
  BY <1>1, <1>4, <1>5, <1>6, <1>7

-------------------------------------------------------------------------------
(* Values, element by element *)

\* The value of an element is its meaning.
LEMMA ItemValue ==
  ASSUME NEW doc \in Parts, IsContainer(doc), NEW n \in 1 .. Count(doc)
  PROVE  ValueIn(Reading, doc.items[n]) = Meaning(doc.items[n])
<1>1. doc.items[n] \in Parts
  BY DocumentFacts
<1> QED
  BY <1>1 DEF Meaning, Value

\* Before its first element a container is empty.
LEMMA ValueOfNone ==
  ASSUME NEW doc \in Parts, IsContainer(doc)
  PROVE  ValueAt(doc, 0) = IF doc.t = "list" THEN ListOf(<< >>) ELSE DictOf(<< >>)
<1>1. ValueAt(doc, 0) = ValueUpTo(Reading, doc, 0)
  <2>1. 0 \in 0 .. Count(doc)
    BY DocumentFacts
  <2> QED
    BY <2>1, ReadingParts
<1>2. CASE doc.t = "list"
  <2>1. [k \in 1 .. 0 |-> ValueIn(Reading, doc.items[k])] = << >>
    OBVIOUS
  <2> QED
    BY <1>1, <1>2, <2>1 DEF ValueUpTo
<1>3. CASE doc.t # "list"
  <2>1. {doc.keys[k] : k \in 1 .. 0} = {}
    OBVIOUS
  <2>2. \A g : DOMAIN g = {} /\ g = [key \in {} |-> g[key]] => g = << >>
    OBVIOUS
  <2>3. ValueUpTo(Reading, doc, 0) = DictOf([key \in {doc.keys[k] : k \in 1 .. 0} |->
                                        ValueIn(Reading, doc.items[LastPlace(doc.keys, key, 0)])])
    BY <1>3 DEF ValueUpTo
  <2> DEFINE map == [key \in {doc.keys[k] : k \in 1 .. 0} |->
                       ValueIn(Reading, doc.items[LastPlace(doc.keys, key, 0)])]
  <2>4. DOMAIN map = {} /\ map = [key \in {} |-> map[key]]
    BY <2>1
  <2>5. map = << >>
    <3> HIDE DEF map
    <3> QED
      BY <2>2, <2>4
  <2> QED
    BY <1>1, <1>3, <2>3, <2>5
<1> QED
  BY <1>2, <1>3

\* The last of the first n keys, with the n-th and without.
LEMMA LastPlaceStep ==
  ASSUME NEW keys, NEW n \in Nat \ {0}, NEW key
  PROVE  LastPlace(keys, key, n) = IF keys[n] = key THEN n ELSE LastPlace(keys, key, n - 1)
<1>1. CASE keys[n] = key
  <2>1. LastPlaces(keys, key, n) = {n}
    BY <1>1 DEF LastPlaces
  <2> QED
    BY <1>1, <2>1 DEF LastPlace
<1>2. CASE keys[n] # key
  <2>1. LastPlaces(keys, key, n) = LastPlaces(keys, key, n - 1)
    <3>1. ASSUME NEW k \in LastPlaces(keys, key, n) PROVE k \in LastPlaces(keys, key, n - 1)
      BY <1>2, <3>1 DEF LastPlaces
    <3>2. ASSUME NEW k \in LastPlaces(keys, key, n - 1) PROVE k \in LastPlaces(keys, key, n)
      <4>1. k \in 1 .. n /\ keys[k] = key
        BY <3>2 DEF LastPlaces
      <4>2. ASSUME NEW l \in k + 1 .. n PROVE keys[l] # key
        <5>1. l = n \/ l \in k + 1 .. n - 1
          BY <4>1
        <5> QED
          BY <1>2, <3>2, <5>1 DEF LastPlaces
      <4> QED
        BY <4>1, <4>2 DEF LastPlaces
    <3> QED
      BY <3>1, <3>2
  <2> QED
    BY <1>2, <2>1 DEF LastPlace
<1> QED
  BY <1>1, <1>2

\* An element more is one appended to the list, or assigned to its key.
LEMMA ValueGrows ==
  ASSUME NEW doc \in Parts, IsContainer(doc), NEW n \in 1 .. Count(doc)
  PROVE  ValueAt(doc, n) =
           IF doc.t = "list"
           THEN ListOf(Append(ValueAt(doc, n - 1).items, Meaning(doc.items[n])))
           ELSE DictOf(Assigned(ValueAt(doc, n - 1).map, doc.keys[n], Meaning(doc.items[n])))
<1> DEFINE item(k) == ValueIn(Reading, doc.items[k])
<1>1. /\ n \in Nat \ {0} /\ n - 1 \in Nat /\ n \in 0 .. Count(doc) /\ n - 1 \in 0 .. Count(doc)
      /\ n - 1 \in Int /\ n \in Int
  BY DocumentFacts
<1>2. /\ ValueAt(doc, n) = ValueUpTo(Reading, doc, n)
      /\ ValueAt(doc, n - 1) = ValueUpTo(Reading, doc, n - 1)
  BY <1>1, ReadingParts
<1>3. item(n) = Meaning(doc.items[n])
  BY ItemValue
<1>4. CASE doc.t = "list"
  <2>1. /\ ValueAt(doc, n) = ListOf([k \in 1 .. n |-> item(k)])
        /\ ValueAt(doc, n - 1) = ListOf([k \in 1 .. n - 1 |-> item(k)])
    BY <1>2, <1>4 DEF ValueUpTo
  <2>2. ValueAt(doc, n - 1).items = [k \in 1 .. n - 1 |-> item(k)]
    BY <2>1 DEF ListOf
  <2> HIDE DEF item
  <2>3. Append([k \in 1 .. n - 1 |-> item(k)], item(n)) = [k \in 1 .. n |-> item(k)]
    BY <1>1
  <2> QED
    BY <1>3, <1>4, <2>1, <2>2, <2>3
<1>5. CASE doc.t # "list"
  <2> DEFINE keys(m) == {doc.keys[k] : k \in 1 .. m}
             map(m)  == [key \in keys(m) |-> item(LastPlace(doc.keys, key, m))]
  <2>1. ValueAt(doc, n) = DictOf(map(n)) /\ ValueAt(doc, n - 1) = DictOf(map(n - 1))
    BY <1>2, <1>5 DEF ValueUpTo
  <2>2. ValueAt(doc, n - 1).map = map(n - 1)
    BY <2>1 DEF DictOf
  <2>3. keys(n) = {doc.keys[n]} \cup keys(n - 1)
    BY <1>1
  <2>4. \A key : LastPlace(doc.keys, key, n)
                   = IF doc.keys[n] = key THEN n ELSE LastPlace(doc.keys, key, n - 1)
    BY <1>1, LastPlaceStep
  <2> HIDE DEF item
  <2>5. map(n) = [k \in {doc.keys[n]} \cup keys(n - 1) |->
                    IF k = doc.keys[n] THEN item(n) ELSE map(n - 1)[k]]
    <3> HIDE DEF keys
    <3> QED
      BY <2>3, <2>4
  <2>6. DOMAIN map(n - 1) = keys(n - 1)
    OBVIOUS
  <2>7. map(n) = Assigned(map(n - 1), doc.keys[n], item(n))
    <3> HIDE DEF map, keys
    <3> QED
      BY <2>5, <2>6 DEF Assigned
  <2> HIDE DEF map
  <2> QED
    BY <1>3, <1>5, <2>1, <2>2, <2>7
<1> QED
  BY <1>4, <1>5

\* The value of a container is a list or a dictionary, as the document is.
LEMMA ValueKind ==
  ASSUME NEW doc \in Parts, IsContainer(doc), NEW n \in 0 .. Count(doc)
  PROVE  ValueAt(doc, n).t = IF doc.t = "list" THEN "list" ELSE "dict"
<1>1. ValueAt(doc, n) = ValueUpTo(Reading, doc, n)
  BY ReadingParts
<1> QED
  BY <1>1 DEF ValueUpTo, ListOf, DictOf

-------------------------------------------------------------------------------
(* Where documents lie in another *)

Lies(root, doc, at) ==
  /\ at \in Nat /\ Len(Encode(doc)) \in Nat /\ at + Len(Encode(doc)) <= Len(Encode(root))
  /\ \A j \in 1 .. Len(Encode(doc)) : Encode(root)[at + j] = Encode(doc)[j]

\* A number or a string is one token where it lies.
LEMMA LiesFlat ==
  ASSUME NEW root, Len(Encode(root)) \in Nat, NEW doc \in Parts, ~IsContainer(doc), NEW at, Lies(root, doc, at)
  PROVE  /\ at + 1 <= Len(Encode(root)) /\ at \in Nat /\ Encode(root)[at + 1] = doc /\ Len(Encode(doc)) = 1
         /\ Meaning(doc) = doc
<1>1. Encode(doc) = << doc >> /\ Meaning(doc) = doc
  BY FlatText
<1>2. Len(Encode(doc)) = 1 /\ Encode(doc)[1] = doc /\ 1 \in 1 .. 1
  BY <1>1
<1> QED
  BY <1>1, <1>2 DEF Lies

\* A container begins and ends with its tokens where it lies.
LEMMA LiesOpen ==
  ASSUME NEW root, Len(Encode(root)) \in Nat, NEW doc \in Parts, IsContainer(doc), NEW at, Lies(root, doc, at)
  PROVE  /\ at \in Nat /\ at + 1 <= Len(Encode(root))
         /\ Encode(root)[at + 1] = IF doc.t = "list" THEN ListToken ELSE DictToken
         /\ Before(doc, 0) = 1
         /\ Len(Encode(doc)) = Before(doc, Count(doc)) + 1
         /\ at + Before(doc, Count(doc)) + 1 <= Len(Encode(root))
         /\ Encode(root)[at + Before(doc, Count(doc)) + 1] = EndToken
<1>1. /\ Before(doc, 0) = 1 /\ Encode(doc)[1] = Opening(doc)[1]
      /\ Len(Encode(doc)) = Before(doc, Count(doc)) + 1
      /\ Encode(doc)[Before(doc, Count(doc)) + 1] = EndToken
      /\ Before(doc, Count(doc)) \in Nat
  BY TextPlaces, DocumentFacts
<1>2. Opening(doc)[1] = IF doc.t = "list" THEN ListToken ELSE DictToken
  BY DEF Opening
<1>3. 1 \in 1 .. Len(Encode(doc)) /\ Before(doc, Count(doc)) + 1 \in 1 .. Len(Encode(doc))
  BY <1>1
<1>4. Encode(root)[at + (Before(doc, Count(doc)) + 1)] = EndToken
  BY <1>1, <1>3 DEF Lies
<1>5. at \in Nat /\ at + (Before(doc, Count(doc)) + 1) = at + Before(doc, Count(doc)) + 1
  BY <1>1 DEF Lies
<1> QED
  BY <1>1, <1>2, <1>3, <1>4, <1>5 DEF Lies

\* Where a container lies, its elements lie behind their keys.
LEMMA LiesElement ==
  ASSUME NEW root, Len(Encode(root)) \in Nat, NEW doc \in Parts, IsContainer(doc), NEW at, Lies(root, doc, at),
         NEW n \in 1 .. Count(doc)
  PROVE  /\ Before(doc, n - 1) \in Nat /\ at + Before(doc, n - 1) + 1 <= Len(Encode(root))
         /\ doc.t = "pairs" => Encode(root)[at + Before(doc, n - 1) + 1] = Text(doc.keys[n])
         /\ doc.items[n] \in Parts /\ Len(Encode(doc.items[n])) \in Nat
         /\ Lies(root, doc.items[n], at + Before(doc, n - 1) + KeyLength(doc))
         /\ Before(doc, n) = Before(doc, n - 1) + KeyLength(doc) + Len(Encode(doc.items[n]))
<1> DEFINE e == Encode(doc.items[n])
           b == Before(doc, n - 1)
<1>1. n \in 0 .. Count(doc) /\ n - 1 \in 0 .. Count(doc) /\ doc.items[n] \in Parts
  BY DocumentFacts
<1>2. /\ b \in Nat /\ Len(e) \in Nat /\ Before(doc, n) = b + KeyLength(doc) + Len(e)
      /\ doc.t = "pairs" => UpTo(doc, n)[b + 1] = Text(doc.keys[n])
      /\ \A j \in 1 .. Len(e) : UpTo(doc, n)[b + KeyLength(doc) + j] = e[j]
  BY ElementText DEF Before, UpTo
<1>3. /\ Before(doc, n) <= Before(doc, Count(doc)) /\ Before(doc, Count(doc)) \in Nat
      /\ \A j \in 1 .. Before(doc, n) : Encode(doc)[j] = UpTo(doc, n)[j]
      /\ Len(Encode(doc)) = Before(doc, Count(doc)) + 1
  <2>1. Count(doc) \in 0 .. Count(doc)
    BY DocumentFacts
  <2> QED
    BY <1>1, <2>1, TextPlaces
<1>4. KeyLength(doc) \in Nat /\ (doc.t = "pairs" => KeyLength(doc) = 1)
  BY DEF KeyLength
<1>5. at \in Nat /\ at + Len(Encode(doc)) <= Len(Encode(root))
      /\ \A j \in 1 .. Len(Encode(doc)) : Encode(root)[at + j] = Encode(doc)[j]
  BY DEF Lies
<1> HIDE DEF e, b
<1>6. ASSUME doc.t = "pairs" PROVE Encode(root)[at + b + 1] = Text(doc.keys[n])
  <2>1. b + 1 \in 1 .. Before(doc, n) /\ b + 1 \in 1 .. Len(Encode(doc)) /\ at + (b + 1) = at + b + 1
    BY <1>2, <1>3, <1>4, <1>5, <1>6
  <2> QED
    BY <1>2, <1>3, <1>5, <1>6, <2>1
<1>7. ASSUME NEW j \in 1 .. Len(e) PROVE Encode(root)[(at + b + KeyLength(doc)) + j] = e[j]
  <2>1. b + KeyLength(doc) + j \in 1 .. Before(doc, n) /\ b + KeyLength(doc) + j \in 1 .. Len(Encode(doc))
        /\ at + (b + KeyLength(doc) + j) = (at + b + KeyLength(doc)) + j
    BY <1>2, <1>3, <1>4, <1>5
  <2> QED
    BY <1>2, <1>3, <1>5, <2>1
<1>8. /\ at + b + KeyLength(doc) \in Nat /\ (at + b + KeyLength(doc)) + Len(e) <= Len(Encode(root))
      /\ at + b + 1 <= Len(Encode(root))
  BY <1>2, <1>3, <1>4, <1>5
<1> QED
  BY <1>1, <1>2, <1>6, <1>7, <1>8 DEF Lies, e, b

\* A document never begins with an end.
LEMMA FirstToken ==
  ASSUME NEW root, Len(Encode(root)) \in Nat, NEW doc \in Parts, NEW at, Lies(root, doc, at)
  PROVE  /\ at \in Nat /\ at + 1 <= Len(Encode(root)) /\ Encode(root)[at + 1] # EndToken
         /\ \/ ~IsContainer(doc) /\ Encode(root)[at + 1] = doc /\ Encode(root)[at + 1].t \in {"int", "str"}
            \/ IsContainer(doc) /\ Encode(root)[at + 1] = IF doc.t = "list" THEN ListToken ELSE DictToken
<1>1. ListToken # EndToken /\ DictToken # EndToken /\ EndToken.t = "e"
  BY DEF ListToken, DictToken, EndToken
<1>2. ~IsContainer(doc) => doc.t \in {"int", "str"}
  BY DocumentAssumption DEF IsContainer
<1>3. CASE IsContainer(doc)
  BY <1>1, <1>3, LiesOpen
<1>4. CASE ~IsContainer(doc)
  BY <1>1, <1>2, <1>4, LiesFlat
<1> QED
  BY <1>3, <1>4

-------------------------------------------------------------------------------
(* A document being read: the open containers are those around the place     *)
(* that is read, and each holds the value of the elements that are behind.   *)

Contexts == [doc : Parts, at : Nat, count : Nat]

\* Tokens that were read when the next element of an open container comes.
ReadIn(c, frame) == c.at + Before(c.doc, c.count) + IF frame.keyed THEN 1 ELSE 0

Filling(root, c, frame) ==
  /\ IsContainer(c.doc) /\ c.count <= Count(c.doc) /\ Lies(root, c.doc, c.at)
  /\ frame.value = ValueAt(c.doc, c.count) /\ frame.keyed \in BOOLEAN
  /\ frame.keyed => /\ c.doc.t = "pairs" /\ c.count < Count(c.doc)
                    /\ frame.key = c.doc.keys[c.count + 1]

\* The next element is this one.
Leads(c, frame, inner) ==
  /\ c.count < Count(c.doc) /\ (frame.keyed <=> c.doc.t = "pairs")
  /\ inner.doc = c.doc.items[c.count + 1] /\ inner.at = ReadIn(c, frame)

\* The first n frames lead from the document to what is n levels inside.
Chain(root, frames, n, ctx) ==
  /\ ctx \in [1 .. n + 1 -> Contexts]
  /\ ctx[1].doc = root /\ ctx[1].at = 0
  /\ \A f \in 1 .. n : Filling(root, ctx[f], frames[f]) /\ Leads(ctx[f], frames[f], ctx[f + 1])

Reads(root, frames, ctx, place) ==
  /\ Len(frames) \in Nat /\ Len(frames) # 0
  /\ Chain(root, frames, Len(frames) - 1, ctx)
  /\ Filling(root, ctx[Len(frames)], frames[Len(frames)])
  /\ place = ReadIn(ctx[Len(frames)], frames[Len(frames)]) + 1

\* The keys "info" of a document behind which no string "info" comes.
InfoPlaces(root) ==
  {k \in 1 .. Count(root) :
     /\ root.t = "pairs" /\ root.keys[k] = Key.info
     /\ \A j \in Before(root, k - 1) + 2 .. Len(Encode(root)) : Encode(root)[j] # Text(Key.info)}

NoInfo(frames, n) == \A f \in 1 .. n : frames[f].keyed => frames[f].key # Key.info

\* Behind the element of such a key the span that is hashed has its end.
SpanEnds(root, ctx, frames, n, place, end) ==
  \A k \in InfoPlaces(root) :
    ctx[1].count >= k => /\ place >= Before(root, k - 1) + 2
                         /\ end = Before(root, k) + 1
                         /\ NoInfo(frames, n)

\* What a token does to the frames around it is done to the innermost.
LEMMA ReplaceLast ==
  ASSUME NEW S, NEW open \in Seq(S), open # << >>, NEW x
  PROVE  /\ Len(Append(Front(open), x)) = Len(open) /\ Append(Front(open), x)[Len(open)] = x
         /\ \A f \in 1 .. Len(open) - 1 : Append(Front(open), x)[f] = open[f]
<1>1. Len(open) \in Nat /\ Len(open) # 0
  OBVIOUS
<1>2. /\ Front(open) \in Seq(S) /\ Len(Front(open)) = Len(open) - 1
      /\ \A f \in 1 .. Len(open) - 1 : Front(open)[f] = open[f]
  BY <1>1 DEF Front
<1>3. Front(open) \in Seq(S \cup {x})
  BY <1>2
<1>4. x \in S \cup {x}
  OBVIOUS
<1> DEFINE y == Front(open)
<1>5. y \in Seq(S \cup {x}) /\ Len(y) \in Nat
  BY <1>3
<1> HIDE DEF y
<1>6. /\ Len(Append(y, x)) = Len(y) + 1 /\ Append(y, x)[Len(y) + 1] = x
      /\ \A f \in 1 .. Len(y) : Append(y, x)[f] = y[f]
  BY <1>4, <1>5, AppendProperties
<1> QED
  BY <1>1, <1>2, <1>6 DEF y

\* One element more is behind.
NextContext(c) == [doc |-> c.doc, at |-> c.at, count |-> c.count + 1]

\* An innermost container that takes the value of its next element is read one
\* element further.
LEMMA FilledByElement ==
  ASSUME NEW root, Len(Encode(root)) \in Nat, NEW c \in Contexts, NEW frame, NEW inner \in Contexts,
         Filling(root, c, frame), Leads(c, frame, inner)
  PROVE  LET new == Filled(frame, Meaning(inner.doc)) IN
           /\ NextContext(c) \in Contexts
           /\ Filling(root, NextContext(c), new) /\ ~new.keyed
           /\ ReadIn(NextContext(c), new) = inner.at + Len(Encode(inner.doc))
           /\ Len(Encode(inner.doc)) \in Nat
<1> DEFINE doc == c.doc
           n == c.count + 1
           new == Filled(frame, Meaning(inner.doc))
<1>1. /\ doc \in Parts /\ IsContainer(doc) /\ Lies(root, doc, c.at) /\ c.at \in Nat
      /\ n \in 1 .. Count(doc) /\ c.count = n - 1 /\ c.count \in Nat /\ Count(doc) \in Nat
  BY DocumentFacts DEF Filling, Leads, Contexts
<1>2. /\ Before(doc, n - 1) \in Nat /\ Len(Encode(inner.doc)) \in Nat
      /\ Before(doc, n) = Before(doc, n - 1) + KeyLength(doc) + Len(Encode(inner.doc))
  BY <1>1, LiesElement DEF Leads
<1>3. NextContext(c) \in Contexts
  BY <1>1 DEF NextContext, Contexts
<1>4. frame.value = ValueAt(doc, n - 1) /\ inner.doc = doc.items[n]
  BY <1>1 DEF Filling, Leads
<1>5. frame.keyed <=> doc.t = "pairs"
  BY DEF Leads
<1>6. frame.value.t = IF doc.t = "list" THEN "list" ELSE "dict"
  <2>1. n - 1 \in 0 .. Count(doc)
    BY <1>1
  <2> QED
    BY <1>1, <1>4, <2>1, ValueKind
<1>7. new = NewFrame(ValueAt(doc, n))
  <2>1. ValueAt(doc, n) =
           IF doc.t = "list"
           THEN ListOf(Append(frame.value.items, Meaning(inner.doc)))
           ELSE DictOf(Assigned(frame.value.map, doc.keys[n], Meaning(inner.doc)))
    BY <1>1, <1>4, ValueGrows
  <2>2. doc.t # "list" => frame.key = doc.keys[n]
    BY <1>1, <1>5 DEF Filling, IsContainer
  <2> QED
    BY <1>6, <2>1, <2>2 DEF Filled
<1>8. new.value = ValueAt(doc, n) /\ new.keyed = FALSE
  BY <1>7 DEF NewFrame
<1> HIDE DEF new
<1>9. /\ NextContext(c).doc = doc /\ NextContext(c).at = c.at /\ NextContext(c).count = n
  BY DEF NextContext
<1>10. Filling(root, NextContext(c), new)
  <2>1. ~new.keyed /\ new.keyed \in BOOLEAN
    BY <1>8, Zenon
  <2>5. n <= Count(doc)
    BY <1>1
  <2> DEFINE next == NextContext(c)
  <2>2. next.doc = doc /\ next.at = c.at /\ next.count = n
    BY <1>9
  <2> HIDE DEF next, doc, n
  <2>3. /\ IsContainer(next.doc) /\ next.count <= Count(next.doc) /\ Lies(root, next.doc, next.at)
        /\ new.value = ValueAt(next.doc, next.count)
    BY <1>1, <1>8, <2>5, <2>2
  <2> QED
    BY <2>1, <2>3 DEF Filling, next
<1>11. ReadIn(NextContext(c), new) = c.at + Before(doc, n)
  <2>1. Before(doc, n) \in Nat
    BY <1>1, <1>2 DEF KeyLength
  <2> QED
    BY <1>1, <1>8, <1>9, <2>1 DEF ReadIn
<1>12. inner.at = c.at + Before(doc, n - 1) + KeyLength(doc)
  BY <1>1, <1>5 DEF Leads, ReadIn, KeyLength
<1>13. ReadIn(NextContext(c), new) = inner.at + Len(Encode(inner.doc))
  <2>1. KeyLength(doc) \in Nat
    BY DEF KeyLength
  <2>2. \A a, b, k, e \in Nat : a + (b + k + e) = (a + b + k) + e
    OBVIOUS
  <2> QED
    BY <1>1, <1>2, <1>11, <1>12, <2>1, <2>2
<1> QED
  BY <1>2, <1>3, <1>8, <1>10, <1>13 DEF new

\* Where a value is awaited a part of the document lies.
LEMMA InnerLies ==
  ASSUME NEW root, Len(Encode(root)) \in Nat, NEW c \in Contexts, NEW frame, NEW inner,
         Filling(root, c, frame), Leads(c, frame, inner)
  PROVE  /\ inner.doc \in Parts /\ inner.at \in Nat /\ Lies(root, inner.doc, inner.at)
<1> DEFINE doc == c.doc
           n == c.count + 1
<1>1. /\ doc \in Parts /\ IsContainer(doc) /\ Lies(root, doc, c.at) /\ c.at \in Nat
      /\ n \in 1 .. Count(doc) /\ c.count = n - 1 /\ c.count \in Nat
  BY DocumentFacts DEF Filling, Leads, Contexts
<1>2. inner.at = c.at + Before(doc, n - 1) + KeyLength(doc)
  BY <1>1 DEF Leads, ReadIn, KeyLength
<1>3. inner.doc \in Parts /\ Lies(root, inner.doc, inner.at)
  BY <1>1, <1>2, LiesElement DEF Leads
<1> QED
  BY <1>3 DEF Lies
\* The parser has read a part of a document, or all of it.
Follows(root) ==
  \/ Running /\ stack = << >> /\ i = 1
  \/ /\ Running
     /\ \E ctx : Reads(root, stack, ctx, i) /\ SpanEnds(root, ctx, stack, Len(stack), i, stop)
  \/ /\ parser = "done" /\ parsed = Meaning(root) /\ i = Len(Encode(root)) + 1
     /\ \A k \in InfoPlaces(root) : stop = Before(root, k) + 1

\* What the parser knows of its innermost container.
LEMMA InnermostFacts ==
  ASSUME NEW root \in Parts, data = Encode(root), Len(data) \in Nat,
         NEW c \in Contexts, NEW frame, Filling(root, c, frame), i = ReadIn(c, frame) + 1
  PROVE  /\ c.doc \in Parts /\ IsContainer(c.doc) /\ c.at \in Nat
         /\ c.count \in Nat /\ Count(c.doc) \in Nat /\ c.count <= Count(c.doc)
         /\ frame.value.t = (IF c.doc.t = "list" THEN "list" ELSE "dict")
         /\ c.doc.t \in {"list", "pairs"}
         /\ c.count = Count(c.doc) => ~frame.keyed /\ Token = EndToken
         /\ c.count < Count(c.doc) /\ c.doc.t = "pairs" /\ ~frame.keyed =>
              i <= Len(data) /\ Token = Text(c.doc.keys[c.count + 1])
<1>1. /\ c.doc \in Parts /\ IsContainer(c.doc) /\ c.at \in Nat /\ Lies(root, c.doc, c.at)
      /\ c.count \in Nat /\ Count(c.doc) \in Nat /\ c.count <= Count(c.doc)
      /\ frame.value = ValueAt(c.doc, c.count)
      /\ frame.keyed => c.doc.t = "pairs" /\ c.count < Count(c.doc)
  BY DocumentFacts DEF Filling, Contexts
<1>2. frame.value.t = IF c.doc.t = "list" THEN "list" ELSE "dict"
  BY <1>1, ValueKind
<1>3. c.doc.t \in {"list", "pairs"}
  BY <1>1 DEF IsContainer
<1>4. ASSUME c.count = Count(c.doc) PROVE ~frame.keyed /\ Token = EndToken
  <2>1. ~frame.keyed
    BY <1>1, <1>4
  <2>2. i = c.at + Before(c.doc, Count(c.doc)) + 1
    <3>1. Before(c.doc, Count(c.doc)) \in Nat
      <4>1. Count(c.doc) \in 0 .. Count(c.doc)
        BY <1>1
      <4> QED
        BY <1>1, <4>1, TextPlaces
    <3> QED
      BY <1>1, <1>4, <2>1, <3>1 DEF ReadIn
  <2> QED
    BY <1>1, <2>1, <2>2, LiesOpen DEF Token
<1>5. ASSUME c.count < Count(c.doc), c.doc.t = "pairs", ~frame.keyed
      PROVE  i <= Len(data) /\ Token = Text(c.doc.keys[c.count + 1])
  <2>1. c.count + 1 \in 1 .. Count(c.doc) /\ (c.count + 1) - 1 = c.count
    BY <1>1, <1>5
  <2>2. /\ Before(c.doc, c.count) \in Nat /\ c.at + Before(c.doc, c.count) + 1 <= Len(Encode(root))
        /\ Encode(root)[c.at + Before(c.doc, c.count) + 1] = Text(c.doc.keys[c.count + 1])
    <3> DEFINE n == c.count + 1
    <3>1. n \in 1 .. Count(c.doc) /\ n - 1 = c.count
      BY <2>1
    <3> HIDE DEF n
    <3>2. /\ Before(c.doc, n - 1) \in Nat /\ c.at + Before(c.doc, n - 1) + 1 <= Len(Encode(root))
          /\ Encode(root)[c.at + Before(c.doc, n - 1) + 1] = Text(c.doc.keys[n])
      BY <1>1, <1>5, <3>1, LiesElement
    <3> QED
      BY <3>1, <3>2 DEF n
  <2>3. i = c.at + Before(c.doc, c.count) + 1
    BY <1>1, <1>5, <2>2 DEF ReadIn
  <2> QED
    BY <2>2, <2>3 DEF Token
<1> QED
  BY <1>1, <1>2, <1>3, <1>4, <1>5

\* Where ParseAny is called a part of the document lies.
LEMMA AwaitedElement ==
  ASSUME NEW root \in Parts, data = Encode(root), Len(data) \in Nat,
         NEW S, stack \in Seq(S), Follows(root), Running, AwaitsValue
  PROVE  \E ctx :
           /\ Chain(root, stack, Len(stack), ctx)
           /\ ctx[Len(stack) + 1].count = 0 /\ i = ctx[Len(stack) + 1].at + 1
           /\ ctx[Len(stack) + 1].doc \in Parts
           /\ Lies(root, ctx[Len(stack) + 1].doc, ctx[Len(stack) + 1].at)
           /\ SpanEnds(root, ctx, stack, Len(stack), i, stop)
<1>1. CASE stack = << >> /\ i = 1
  <2> DEFINE ctx == [f \in 1 .. 1 |-> [doc |-> root, at |-> 0, count |-> 0]]
  <2>1. Len(stack) = 0 /\ 0 + 1 = 1 /\ 1 .. 0 = {}
    BY <1>1
  <2>2. ctx \in [1 .. 1 -> Contexts] /\ ctx[1].doc = root /\ ctx[1].at = 0 /\ ctx[1].count = 0
    BY DEF Contexts
  <2> HIDE DEF ctx
  <2>3. Chain(root, stack, 0, ctx)
    BY <2>1, <2>2 DEF Chain
  <2>4. Lies(root, root, 0)
    BY DEF Lies
  <2>5. SpanEnds(root, ctx, stack, 0, i, stop)
    <3>1. \A k \in InfoPlaces(root) : ~(ctx[1].count >= k)
      <4>1. \A k \in InfoPlaces(root) : k \in 1 .. Count(root)
        BY DEF InfoPlaces
      <4> QED
        BY <2>2, <4>1
    <3> QED
      BY <3>1, Zenon DEF SpanEnds
  <2>6. i = ctx[1].at + 1
    BY <1>1, <2>2
  <2> QED
    BY <2>1, <2>2, <2>3, <2>4, <2>5, <2>6
<1>2. CASE \E ctx : Reads(root, stack, ctx, i) /\ SpanEnds(root, ctx, stack, Len(stack), i, stop)
  <2> DEFINE n == Len(stack)
  <2>1. PICK old : Reads(root, stack, old, i) /\ SpanEnds(root, old, stack, n, i, stop)
    BY <1>2
  <2> DEFINE c == old[n]
             frame == stack[n]
  <2>2. n \in Nat /\ n # 0 /\ n \in 1 .. n /\ stack # << >> /\ n - 1 + 1 = n
    BY <2>1 DEF Reads
  <2>3. /\ Chain(root, stack, n - 1, old) /\ Filling(root, c, frame) /\ i = ReadIn(c, frame) + 1
    BY <2>1 DEF Reads
  <2>4. old \in [1 .. n -> Contexts] /\ c \in Contexts
    BY <2>2, <2>3 DEF Chain
  <2>5. Top = frame
    BY <2>2 DEF Top, Last
  <2> HIDE DEF c, frame
  <2>6. /\ c.doc \in Parts /\ IsContainer(c.doc) /\ c.at \in Nat
        /\ c.count \in Nat /\ Count(c.doc) \in Nat /\ c.count <= Count(c.doc)
        /\ frame.value.t = (IF c.doc.t = "list" THEN "list" ELSE "dict")
        /\ c.doc.t \in {"list", "pairs"}
        /\ c.count = Count(c.doc) => ~frame.keyed /\ Token = EndToken
    BY <2>3, <2>4, InnermostFacts
  <2>7. c.count < Count(c.doc) /\ (frame.keyed <=> c.doc.t = "pairs")
    <3>1. frame.keyed => c.doc.t = "pairs" /\ c.count < Count(c.doc)
      BY <2>3 DEF Filling
    <3>2. CASE c.doc.t = "list"
      <4>1. InList
        BY <2>2, <2>5, <2>6, <3>2 DEF InList
      <4>2. Token # EndToken
        BY <4>1 DEF AwaitsValue
      <4>3. c.count # Count(c.doc)
        BY <2>6, <4>2
      <4> QED
        BY <2>6, <3>1, <3>2, <4>3
    <3>3. CASE c.doc.t = "pairs"
      <4>1. frame.keyed
        BY <2>2, <2>5, <2>6, <3>3 DEF AwaitsValue, AwaitsKey
      <4> QED
        BY <3>1, <3>3, <4>1
    <3> QED
      BY <2>6, <3>2, <3>3
  <2> DEFINE inner == [doc |-> c.doc.items[c.count + 1], at |-> ReadIn(c, frame), count |-> 0]
             ctx == [f \in 1 .. n + 1 |-> IF f <= n THEN old[f] ELSE inner]
  <2>8. Leads(c, frame, inner)
    BY <2>7 DEF Leads
  <2>9. inner.doc \in Parts /\ inner.at \in Nat /\ Lies(root, inner.doc, inner.at)
    <3> HIDE DEF inner
    <3> QED
      BY <2>3, <2>4, <2>8, InnerLies
  <2>10. inner \in Contexts /\ inner.count = 0 /\ i = inner.at + 1
    BY <2>3, <2>9 DEF Contexts
  <2> HIDE DEF inner, n
  <2>11. ctx \in [1 .. n + 1 -> Contexts] /\ ctx[n + 1] = inner /\ \A f \in 1 .. n : ctx[f] = old[f]
    BY <2>2, <2>4, <2>10
  <2> HIDE DEF ctx
  <2>12. ctx[1].doc = root /\ ctx[1].at = 0 /\ ctx[1] = old[1]
    BY <2>2, <2>3, <2>11 DEF Chain
  <2>13. ASSUME NEW f \in 1 .. n
         PROVE  Filling(root, ctx[f], stack[f]) /\ Leads(ctx[f], stack[f], ctx[f + 1])
    <3>1. CASE f = n
      BY <2>3, <2>8, <2>11, <3>1 DEF c, frame
    <3>2. CASE f # n
      <4>1. f \in 1 .. n - 1 /\ f + 1 \in 1 .. n
        BY <2>2, <3>2
      <4> QED
        BY <2>3, <2>11, <4>1 DEF Chain
    <3> QED
      BY <3>1, <3>2
  <2>14. Chain(root, stack, n, ctx)
    BY <2>11, <2>12, <2>13 DEF Chain
  <2>15. SpanEnds(root, ctx, stack, n, i, stop)
    BY <2>1, <2>12 DEF SpanEnds
  <2> QED
    BY <2>9, <2>10, <2>11, <2>14, <2>15 DEF n
<1> QED
  BY <1>1, <1>2 DEF Follows, Running

\* ParseAny returns the value of a part of the document to what is around it.
LEMMA YieldFollows ==
  ASSUME NEW root \in Parts, Len(Encode(root)) \in Nat,
         NEW S, NEW open \in Seq(S), NEW ctx, Chain(root, open, Len(open), ctx),
         NEW inner, inner = ctx[Len(open) + 1], inner.count = Count(inner.doc),
         Yield(Meaning(inner.doc), open), Running,
         i' = inner.at + Len(Encode(inner.doc)) + 1, i \in Nat, i' >= i,
         SpanEnds(root, ctx, open, Len(open), i, stop)
  PROVE  Follows(root)'
<1>1. Len(open) \in Nat
  OBVIOUS
<1>2. CASE open = << >>
  <2>1. Len(open) = 0 /\ inner = ctx[1]
    BY <1>2
  <2>2. inner.doc = root /\ inner.at = 0 /\ inner.count = Count(root)
    BY <2>1 DEF Chain
  <2>3. parsed' = Meaning(root) /\ parser' = "done" /\ stop' = stop
    BY <1>2, <2>2 DEF Yield
  <2>4. i' = Len(Encode(root)) + 1
    BY <2>2
  <2>5. \A k \in InfoPlaces(root) : stop' = Before(root, k) + 1
    <3>1. \A k \in InfoPlaces(root) : Count(root) >= k
      BY DocumentFacts DEF InfoPlaces
    <3> QED
      BY <2>1, <2>2, <2>3, <3>1 DEF SpanEnds
  <2> QED
    BY <2>3, <2>4, <2>5 DEF Follows
<1>3. CASE open # << >>
  <2> DEFINE n == Len(open)
             c == ctx[n]
             frame == open[n]
             new == Filled(frame, Meaning(inner.doc))
             more == [f \in 1 .. n |-> IF f = n THEN NextContext(c) ELSE ctx[f]]
  <2>1. n \in Nat /\ n # 0 /\ n \in 1 .. n /\ n \in 1 .. n + 1 /\ n + 1 \in 1 .. n + 1 /\ n - 1 + 1 = n
    BY <1>1, <1>3
  <2>2. ctx \in [1 .. n + 1 -> Contexts] /\ c \in Contexts /\ inner \in Contexts
    BY <2>1 DEF Chain
  <2>3. Filling(root, c, frame) /\ Leads(c, frame, inner)
    BY <2>1 DEF Chain
  <2>4. Last(open) = frame
    BY <2>1 DEF Last
  <2>5. /\ stack' = Append(Front(open), new) /\ parser' = parser
        /\ stop' = IF frame.keyed /\ frame.key = Key.info THEN i' ELSE stop
    BY <1>3, <2>4 DEF Yield
  <2> HIDE DEF c, frame
  <2>6. /\ NextContext(c) \in Contexts
        /\ Filling(root, NextContext(c), new) /\ ~new.keyed
        /\ ReadIn(NextContext(c), new) = inner.at + Len(Encode(inner.doc))
        /\ Len(Encode(inner.doc)) \in Nat
    BY <2>2, <2>3, FilledByElement
  <2>7. /\ NextContext(c).doc = c.doc /\ NextContext(c).at = c.at
        /\ NextContext(c).count = c.count + 1
    BY DEF NextContext
  <2> HIDE DEF new
  <2>8. Len(stack') = n /\ stack'[n] = new /\ \A f \in 1 .. n - 1 : stack'[f] = open[f]
    BY <1>3, <2>5, ReplaceLast
  <2> HIDE DEF n
  <2>9. more \in [1 .. n -> Contexts] /\ more[n] = NextContext(c) /\ \A f \in 1 .. n - 1 : more[f] = ctx[f]
    BY <2>1, <2>2, <2>6
  <2>10. \A f \in 1 .. n : more[f].doc = ctx[f].doc /\ more[f].at = ctx[f].at
    BY <2>1, <2>7 DEF c
  <2>11. more[1].count = IF n = 1 THEN ctx[1].count + 1 ELSE ctx[1].count
    BY <2>1, <2>7, <2>9 DEF c
  <2> HIDE DEF more
  <2>12. Chain(root, stack', n - 1, more)
    <3>1. ASSUME NEW f \in 1 .. n - 1
          PROVE  Filling(root, more[f], stack'[f]) /\ Leads(more[f], stack'[f], more[f + 1])
      <4>1. f \in 1 .. n /\ f + 1 \in 1 .. n
        BY <2>1
      <4>2. Filling(root, ctx[f], open[f]) /\ Leads(ctx[f], open[f], ctx[f + 1])
        BY <4>1 DEF Chain, n
      <4>3. more[f + 1].doc = ctx[f + 1].doc /\ more[f + 1].at = ctx[f + 1].at
        BY <2>10, <4>1
      <4> QED
        BY <2>8, <2>9, <4>2, <4>3 DEF Leads
    <3>2. more[1].doc = root /\ more[1].at = 0
      BY <2>1, <2>10 DEF Chain
    <3> QED
      BY <2>1, <2>9, <3>1, <3>2 DEF Chain
  <2>13. Reads(root, stack', more, i')
    <3>1. i' = ReadIn(more[n], stack'[n]) + 1
      BY <2>6, <2>8, <2>9
    <3>2. Filling(root, more[n], stack'[n])
      BY <2>6, <2>8, <2>9
    <3> QED
      BY <2>1, <2>8, <2>12, <3>1, <3>2 DEF Reads
  <2>14. ASSUME NEW k \in InfoPlaces(root), more[1].count >= k
         PROVE  /\ i' >= Before(root, k - 1) + 2 /\ stop' = Before(root, k) + 1
                /\ NoInfo(stack', n)
    <3>1. /\ k \in 1 .. Count(root) /\ root.t = "pairs" /\ root.keys[k] = Key.info
      BY <2>14 DEF InfoPlaces
    <3>2. Count(root) \in Nat /\ k - 1 \in 0 .. Count(root) /\ IsContainer(root) /\ k \in Nat
      BY <3>1, DocumentFacts DEF IsContainer
    <3>3. Before(root, k - 1) \in Nat
      BY <3>2, TextPlaces
    <3>4. ctx[1].count \in Nat /\ ctx[1].doc = root /\ ctx[1].at = 0
      <4>1. ctx[1] \in Contexts
        BY <2>1, <2>2 DEF n
      <4> QED
        BY <4>1 DEF Contexts, Chain
    <3>5. CASE ctx[1].count >= k
      <4>1. i >= Before(root, k - 1) + 2 /\ stop = Before(root, k) + 1 /\ NoInfo(open, n)
        BY <2>14, <3>5 DEF SpanEnds, n
      <4>2. stop' = stop
        BY <2>1, <2>5, <4>1 DEF NoInfo, frame
      <4>3. NoInfo(stack', n)
        <5>1. \A f \in 1 .. n : f = n \/ f \in 1 .. n - 1
          BY <2>1
        <5> QED
          BY <2>6, <2>8, <4>1, <5>1 DEF NoInfo
      <4> QED
        BY <3>3, <4>1, <4>2, <4>3
    <3>6. CASE ~(ctx[1].count >= k)
      <4>1. n = 1 /\ ctx[1].count + 1 = k /\ c = ctx[1] /\ frame = open[1]
        BY <2>11, <2>14, <3>2, <3>4, <3>6 DEF c, frame
      <4>2. frame.keyed /\ frame.key = Key.info
        BY <2>3, <3>1, <3>4, <4>1 DEF Leads, Filling
      <4>3. stop' = i'
        BY <2>5, <4>2
      <4>4. i' = Before(root, k) + 1
        <5>1. more[1] = NextContext(ctx[1]) /\ stack'[1] = new
          BY <2>8, <2>9, <4>1
        <5>2. i' = ReadIn(NextContext(ctx[1]), new) + 1
          BY <2>6, <4>1
        <5>3. ReadIn(NextContext(ctx[1]), new) = Before(root, k)
          <6>1. Before(root, k) \in Nat
            BY <3>1, <3>2, TextPlaces
          <6> QED
            BY <2>6, <2>7, <3>4, <4>1, <6>1 DEF ReadIn
        <5> QED
          BY <5>2, <5>3
      <4>5. Before(root, k) + 1 >= Before(root, k - 1) + 2
        <5>1. Lies(root, root, 0)
          BY DEF Lies
        <5>2. Before(root, k) = Before(root, k - 1) + KeyLength(root) + Len(Encode(root.items[k]))
              /\ Len(Encode(root.items[k])) \in Nat
          BY <3>1, <3>2, <5>1, LiesElement
        <5>3. KeyLength(root) = 1
          BY <3>1 DEF KeyLength
        <5> QED
          BY <3>3, <5>2, <5>3
      <4>6. NoInfo(stack', n)
        BY <2>6, <2>8, <4>1 DEF NoInfo
      <4> QED
        BY <4>3, <4>4, <4>5, <4>6
    <3> QED
      BY <3>5, <3>6
  <2>15. SpanEnds(root, more, stack', Len(stack'), i', stop')
    BY <2>8, <2>14 DEF SpanEnds
  <2>16. Running'
    BY <2>5 DEF Running
  <2> QED
    BY <2>13, <2>15, <2>16 DEF Follows
<1> QED
  BY <1>2, <1>3

-------------------------------------------------------------------------------
(* Every step of the parser reads on in the document *)

\* The token read is one of the document's.
LEMMA TokenIn ==
  ASSUME NEW root \in Parts, data = Encode(root), i \in Nat \ {0}, i <= Len(data)
  PROVE  /\ Token = Encode(root)[i]
         /\ Token.t \in {"int", "str", "l", "d", "e"}
         /\ Token.t = "str" => Token = Text(Token.s)
<1>1. Encode(root) \in Seq(Alphabet) /\ Len(Encode(root)) \in Nat
  BY TextsAreTokens
<1>2. Token = Encode(root)[i]
  BY DEF Token
<1>3. i \in 1 .. Len(Encode(root))
  BY <1>1
<1>4. Encode(root)[i] \in Alphabet
  BY <1>1, <1>3, ElementOfSeq
<1> QED
  BY <1>2, <1>4, TokenKinds

\* Where the span that is hashed should begin, once that place is behind.
SpanBegins(root) ==
  \A k \in InfoPlaces(root) : i >= Before(root, k - 1) + 2 => start = Before(root, k - 1) + 2

\* A step that marks the span at every string "info" keeps it where it belongs.
LEMMA SpanBeginsKept ==
  ASSUME NEW root \in Parts, data = Encode(root), i \in Nat \ {0}, i <= Len(data), i' = i + 1,
         SpanBegins(root), start' = IF Token = Text(Key.info) THEN i' ELSE start
  PROVE  SpanBegins(root)'
<1> SUFFICES ASSUME NEW k \in InfoPlaces(root), i' >= Before(root, k - 1) + 2
             PROVE  start' = Before(root, k - 1) + 2
  BY DEF SpanBegins
<1> DEFINE b == Before(root, k - 1)
<1>1. /\ k \in 1 .. Count(root) /\ root.t = "pairs" /\ root.keys[k] = Key.info
      /\ \A j \in b + 2 .. Len(Encode(root)) : Encode(root)[j] # Text(Key.info)
  BY DEF InfoPlaces
<1>2. IsContainer(root) /\ Len(Encode(root)) \in Nat
  BY <1>1, TextsAreTokens DEF IsContainer
<1>3. Lies(root, root, 0)
  BY <1>2 DEF Lies
<1>4. b \in Nat /\ Encode(root)[0 + b + 1] = Text(root.keys[k])
  BY <1>1, <1>2, <1>3, LiesElement
<1> HIDE DEF b
<1>5. Token = Encode(root)[i]
  BY TokenIn
<1>6. CASE i = b + 1
  <2>1. 0 + b + 1 = i
    BY <1>4, <1>6
  <2>2. Token = Text(Key.info)
    BY <1>1, <1>4, <1>5, <2>1
  <2> QED
    BY <1>4, <1>6, <2>2 DEF b
<1>7. CASE i # b + 1
  <2>1. i >= b + 2 /\ i \in b + 2 .. Len(Encode(root))
    BY <1>2, <1>4, <1>7 DEF b
  <2>2. Token # Text(Key.info)
    BY <1>1, <1>5, <2>1
  <2> QED
    BY <2>1, <2>2 DEF SpanBegins, b
<1> QED
  BY <1>6, <1>7

\* What MarkStart does, said of the token.
LEMMA MarkedBy ==
  ASSUME NEW root \in Parts, data = Encode(root), i \in Nat \ {0}, i <= Len(data),
         \/ Token.t = "str" /\ start' = IF Token.s = Key.info THEN i' ELSE start
         \/ Token.t # "str" /\ start' = start
  PROVE  start' = IF Token = Text(Key.info) THEN i' ELSE start
<1>1. Token.t = "str" => Token = Text(Token.s)
  BY TokenIn
<1>2. Text(Key.info).t = "str" /\ Text(Key.info).s = Key.info
  BY DEF Text
<1> QED
  BY <1>1, <1>2

\* A number or a string.
LEMMA FlatFollows ==
  ASSUME NEW root \in Parts, data = Encode(root), NEW S, stack \in Seq(S), i \in Nat,
         Follows(root), ParseInt \/ ParseString
  PROVE  Follows(root)' /\ i <= Len(data)
<1>1. /\ Running /\ AwaitsValue /\ Token.t \in {"int", "str"} /\ i' = i + 1 /\ Yield(Token, stack)
  BY DEF ParseInt, ParseString
<1>2. Len(Encode(root)) \in Nat /\ Len(data) \in Nat
  BY TextsAreTokens
<1>3. PICK ctx :
        /\ Chain(root, stack, Len(stack), ctx)
        /\ ctx[Len(stack) + 1].count = 0 /\ i = ctx[Len(stack) + 1].at + 1
        /\ ctx[Len(stack) + 1].doc \in Parts
        /\ Lies(root, ctx[Len(stack) + 1].doc, ctx[Len(stack) + 1].at)
        /\ SpanEnds(root, ctx, stack, Len(stack), i, stop)
  BY <1>1, <1>2, AwaitedElement
<1>4. PICK inner : inner = ctx[Len(stack) + 1]
  OBVIOUS
<1>5. /\ inner.count = 0 /\ i = inner.at + 1 /\ inner.doc \in Parts
      /\ Lies(root, inner.doc, inner.at)
  BY <1>3, <1>4
<1>6. /\ inner.at \in Nat /\ i <= Len(data) /\ Token = Encode(root)[inner.at + 1]
      /\ \/ ~IsContainer(inner.doc)
         \/ Token = ListToken \/ Token = DictToken
  <2>1. /\ inner.at \in Nat /\ inner.at + 1 <= Len(Encode(root))
        /\ \/ ~IsContainer(inner.doc)
           \/ Encode(root)[inner.at + 1] = ListToken \/ Encode(root)[inner.at + 1] = DictToken
    BY <1>2, <1>5, FirstToken
  <2> QED
    BY <1>5, <2>1 DEF Token
<1>7. ~IsContainer(inner.doc)
  BY <1>1, <1>6 DEF ListToken, DictToken
<1>8. Token = inner.doc /\ Meaning(inner.doc) = Token /\ Len(Encode(inner.doc)) = 1 /\ Count(inner.doc) = 0
  BY <1>2, <1>5, <1>6, <1>7, LiesFlat DEF Count
<1>9. Follows(root)'
  <2>1. Yield(Meaning(inner.doc), stack)
    BY <1>1, <1>8
  <2>2. i' = inner.at + Len(Encode(inner.doc)) + 1 /\ i' >= i
    BY <1>1, <1>5, <1>6, <1>8
  <2>3. inner.count = Count(inner.doc)
    BY <1>5, <1>8
  <2> QED
    BY <1>1, <1>2, <1>3, <1>4, <2>1, <2>2, <2>3, YieldFollows
<1> QED
  BY <1>6, <1>9

\* A list or a dictionary begins.
LEMMA OpenFollows ==
  ASSUME NEW root \in Parts, data = Encode(root), NEW S, stack \in Seq(S), i \in Nat,
         Follows(root), OpenContainer
  PROVE  Follows(root)' /\ i <= Len(data)
<1> DEFINE empty == IF Token = ListToken THEN ListOf(<< >>) ELSE DictOf(<< >>)
           new == NewFrame(empty)
           n == Len(stack)
<1>1. /\ Running /\ AwaitsValue /\ Token \in {ListToken, DictToken} /\ i' = i + 1
      /\ stack' = Append(stack, new) /\ stop' = stop /\ parser' = parser
  BY DEF OpenContainer
<1>2. Len(Encode(root)) \in Nat /\ Len(data) \in Nat
  BY TextsAreTokens
<1>3. PICK ctx :
        /\ Chain(root, stack, n, ctx)
        /\ ctx[n + 1].count = 0 /\ i = ctx[n + 1].at + 1
        /\ ctx[n + 1].doc \in Parts
        /\ Lies(root, ctx[n + 1].doc, ctx[n + 1].at)
        /\ SpanEnds(root, ctx, stack, n, i, stop)
  BY <1>1, <1>2, AwaitedElement
<1>4. PICK inner : inner = ctx[n + 1]
  OBVIOUS
<1>5. /\ inner.count = 0 /\ i = inner.at + 1 /\ inner.doc \in Parts
      /\ Lies(root, inner.doc, inner.at)
  BY <1>3, <1>4
<1>6. /\ inner.at \in Nat /\ i <= Len(data) /\ IsContainer(inner.doc)
      /\ Token = IF inner.doc.t = "list" THEN ListToken ELSE DictToken
  <2>1. /\ inner.at \in Nat /\ inner.at + 1 <= Len(Encode(root))
        /\ \/ ~IsContainer(inner.doc) /\ Encode(root)[inner.at + 1].t \in {"int", "str"}
           \/ /\ IsContainer(inner.doc)
              /\ Encode(root)[inner.at + 1] = IF inner.doc.t = "list" THEN ListToken ELSE DictToken
    BY <1>2, <1>5, FirstToken
  <2>2. Token = Encode(root)[inner.at + 1] /\ i <= Len(data)
    BY <1>5, <2>1 DEF Token
  <2>3. Token.t \in {"l", "d"}
    BY <1>1 DEF ListToken, DictToken
  <2> QED
    BY <2>1, <2>2, <2>3
<1>7. empty = ValueAt(inner.doc, 0)
  <2>1. ListToken # DictToken
    BY DEF ListToken, DictToken
  <2>2. ValueAt(inner.doc, 0) = IF inner.doc.t = "list" THEN ListOf(<< >>) ELSE DictOf(<< >>)
    BY <1>5, <1>6, ValueOfNone
  <2> QED
    BY <1>6, <2>1, <2>2
<1> HIDE DEF empty
<1>8. new.value = empty /\ new.keyed = FALSE
  BY DEF NewFrame
<1> HIDE DEF new
<1>9. n \in Nat /\ Len(stack') = n + 1 /\ stack'[n + 1] = new /\ \A f \in 1 .. n : stack'[f] = stack[f]
  BY <1>1, AppendProperties
<1> HIDE DEF n
<1>10. Chain(root, stack', n, ctx)
  BY <1>3, <1>9 DEF Chain
<1>11. Filling(root, inner, new)
  <2>1. Count(inner.doc) \in Nat
    BY <1>5, DocumentFacts
  <2>2. inner.count <= Count(inner.doc)
    BY <1>5, <2>1
  <2>3. new.keyed \in BOOLEAN /\ ~new.keyed
    BY <1>8, Zenon
  <2>4. new.value = ValueAt(inner.doc, inner.count)
    BY <1>5, <1>7, <1>8
  <2> QED
    BY <1>5, <1>6, <2>2, <2>3, <2>4 DEF Filling
<1>12. i' = ReadIn(inner, new) + 1
  <2>1. Before(inner.doc, 0) = 1
    BY <1>2, <1>5, <1>6, LiesOpen
  <2>2. ReadIn(inner, new) = inner.at + Before(inner.doc, inner.count) + 0
    BY <1>8, Zenon DEF ReadIn
  <2> QED
    BY <1>1, <1>5, <1>6, <2>1, <2>2
<1>13. Reads(root, stack', ctx, i')
  <2>1. Len(stack') - 1 = n /\ Len(stack') # 0 /\ Len(stack') \in Nat
    BY <1>9
  <2> QED
    BY <1>4, <1>9, <1>10, <1>11, <1>12, <2>1 DEF Reads
<1>14. SpanEnds(root, ctx, stack', Len(stack'), i', stop')
  <2> SUFFICES ASSUME NEW k \in InfoPlaces(root), ctx[1].count >= k
               PROVE  /\ i' >= Before(root, k - 1) + 2 /\ stop' = Before(root, k) + 1
                      /\ NoInfo(stack', Len(stack'))
    BY DEF SpanEnds
  <2>1. i >= Before(root, k - 1) + 2 /\ stop = Before(root, k) + 1 /\ NoInfo(stack, n)
    BY <1>3 DEF SpanEnds
  <2>2. Before(root, k - 1) \in Nat
    <3>1. k \in 1 .. Count(root) /\ IsContainer(root)
      BY DEF InfoPlaces, IsContainer
    <3>2. Count(root) \in Nat
      BY DocumentFacts
    <3>3. k - 1 \in 0 .. Count(root)
      BY <3>1, <3>2
    <3> QED
      BY <3>1, <3>3, TextPlaces
  <2>3. ~new.keyed
    BY <1>8, Zenon
  <2>4. NoInfo(stack', n + 1)
    <3>1. \A f \in 1 .. n + 1 : f = n + 1 \/ f \in 1 .. n
      BY <1>9
    <3> QED
      BY <1>9, <2>1, <2>3, <3>1 DEF NoInfo
  <2> QED
    BY <1>1, <1>9, <2>1, <2>2, <2>4
<1>15. Running'
  BY <1>1 DEF Running
<1> QED
  BY <1>6, <1>13, <1>14, <1>15 DEF Follows
\* What is read while a container is open.
LEMMA OpenFacts ==
  ASSUME NEW root \in Parts, data = Encode(root), NEW S, stack \in Seq(S), i \in Nat,
         Follows(root), Running, stack # << >>
  PROVE  \E ctx, c, n :
           /\ n = Len(stack) /\ n \in Nat \ {0} /\ c = ctx[n] /\ c \in Contexts
           /\ Chain(root, stack, n - 1, ctx) /\ Filling(root, c, stack[n])
           /\ i = ReadIn(c, stack[n]) + 1 /\ Top = stack[n]
           /\ SpanEnds(root, ctx, stack, n, i, stop)
<1>1. PICK ctx : Reads(root, stack, ctx, i) /\ SpanEnds(root, ctx, stack, Len(stack), i, stop)
  BY DEF Follows, Running
<1> DEFINE n == Len(stack)
<1>2. /\ n \in Nat /\ n # 0 /\ Chain(root, stack, n - 1, ctx) /\ Filling(root, ctx[n], stack[n])
      /\ i = ReadIn(ctx[n], stack[n]) + 1
  BY <1>1 DEF Reads
<1>3. ctx[n] \in Contexts
  <2>1. ctx \in [1 .. n - 1 + 1 -> Contexts]
    BY <1>2 DEF Chain
  <2>2. n \in 1 .. n - 1 + 1
    BY <1>2
  <2> QED
    BY <2>1, <2>2
<1>4. Top = stack[n]
  BY DEF Top, Last
<1> HIDE DEF n
<1> QED
  BY <1>1, <1>2, <1>3, <1>4 DEF n

\* A key.
LEMMA KeyFollows ==
  ASSUME NEW root \in Parts, data = Encode(root), NEW V, NEW K,
         stack \in Seq([value : V, keyed : BOOLEAN, key : K]), i \in Nat, Follows(root), ParseKey
  PROVE  Follows(root)' /\ i <= Len(data) /\ Token.t = "str"
<1> DEFINE s == IF Token.t = "str" THEN Token.s ELSE << >>
<1>1. /\ Running /\ AwaitsKey /\ stack # << >> /\ Token # EndToken /\ i' = i + 1 /\ stop' = stop
      /\ stack' = [stack EXCEPT ![Len(stack)].keyed = TRUE, ![Len(stack)].key = s]
      /\ parser' = IF Token.t = "int" \/ i > Len(data) THEN "lost" ELSE parser
  BY DEF ParseKey, AwaitsKey
<1>2. Len(Encode(root)) \in Nat /\ Len(data) \in Nat
  BY TextsAreTokens
<1>3. PICK ctx, c, n :
        /\ n = Len(stack) /\ n \in Nat \ {0} /\ c = ctx[n] /\ c \in Contexts
        /\ Chain(root, stack, n - 1, ctx) /\ Filling(root, c, stack[n])
        /\ i = ReadIn(c, stack[n]) + 1 /\ Top = stack[n]
        /\ SpanEnds(root, ctx, stack, n, i, stop)
  BY <1>1, OpenFacts
<1> DEFINE frame == stack[n]
<1>4. frame.value.t = "dict" /\ ~frame.keyed
  BY <1>1, <1>3 DEF AwaitsKey
<1>5. /\ c.doc \in Parts /\ IsContainer(c.doc) /\ c.at \in Nat
      /\ c.count \in Nat /\ Count(c.doc) \in Nat /\ c.count <= Count(c.doc)
      /\ frame.value.t = (IF c.doc.t = "list" THEN "list" ELSE "dict")
      /\ c.doc.t \in {"list", "pairs"}
      /\ c.count = Count(c.doc) => ~frame.keyed /\ Token = EndToken
      /\ c.count < Count(c.doc) /\ c.doc.t = "pairs" /\ ~frame.keyed =>
           i <= Len(data) /\ Token = Text(c.doc.keys[c.count + 1])
  BY <1>2, <1>3, InnermostFacts
<1> DEFINE key == c.doc.keys[c.count + 1]
<1> HIDE DEF frame
<1>6. c.doc.t = "pairs" /\ c.count < Count(c.doc)
  BY <1>1, <1>4, <1>5
<1>7. i <= Len(data) /\ Token = Text(key)
  BY <1>4, <1>5, <1>6
<1> HIDE DEF key
<1>8. Token.t = "str" /\ s = key
  BY <1>7 DEF Text
<1> HIDE DEF s
<1>9. parser' = parser
  BY <1>1, <1>2, <1>7, <1>8
<1> DEFINE new == [[frame EXCEPT !.keyed = TRUE] EXCEPT !.key = s]
<1>10. frame \in [value : V, keyed : BOOLEAN, key : K] /\ n \in DOMAIN stack
  <2> DEFINE S == [value : V, keyed : BOOLEAN, key : K]
  <2>1. stack \in Seq(S)
    OBVIOUS
  <2> HIDE DEF S
  <2>2. n \in 1 .. Len(stack) /\ DOMAIN stack = 1 .. Len(stack)
    BY <1>3, <2>1
  <2>3. stack[n] \in S
    BY <2>1, <2>2, ElementOfSeq
  <2> QED
    BY <2>2, <2>3 DEF S, frame
<1>11. /\ new.value = frame.value /\ (new.keyed <=> TRUE) /\ new.key = key
  <2>1. new.value = frame.value /\ new.key = s
    BY <1>10
  <2>2. new.keyed = TRUE
    BY <1>10
  <2> QED
    BY <1>8, <2>1, <2>2, Zenon
<1>12. stack' = [stack EXCEPT ![n] = new]
  BY <1>1, <1>3, <1>10 DEF frame
<1> HIDE DEF new
<1>13. /\ Len(stack') = n /\ stack'[n] = new /\ \A f \in 1 .. n - 1 : stack'[f] = stack[f]
  <2> PICK old : old = stack
    OBVIOUS
  <2>1. old \in Seq([value : V, keyed : BOOLEAN, key : K]) /\ Len(old) = n /\ DOMAIN old = 1 .. n
    BY <1>3
  <2>2. stack' = [old EXCEPT ![n] = new]
    BY <1>12
  <2>3. DOMAIN stack' = 1 .. n /\ Len(stack') = n
    BY <1>3, <2>1, <2>2
  <2> QED
    BY <1>3, <2>1, <2>2, <2>3
<1>14. Reads(root, stack', ctx, i')
  <2>1. Chain(root, stack', n - 1, ctx)
    BY <1>3, <1>13 DEF Chain
  <2>2. Filling(root, c, new)
    <3>1. new.keyed \in BOOLEAN
      BY <1>11, Zenon
    <3> QED
      BY <1>3, <1>6, <1>11, <3>1 DEF Filling, frame, key
  <2>3. i' = ReadIn(c, new) + 1
    <3>1. ReadIn(c, frame) = c.at + Before(c.doc, c.count) + 0
      BY <1>4, Zenon DEF ReadIn
    <3>2. ReadIn(c, new) = c.at + Before(c.doc, c.count) + 1
      BY <1>11, Zenon DEF ReadIn
    <3>3. Before(c.doc, c.count) \in Nat
      <4>1. c.count \in 0 .. Count(c.doc)
        BY <1>5
      <4> QED
        BY <1>5, <4>1, TextPlaces
    <3> QED
      BY <1>1, <1>3, <1>5, <3>1, <3>2, <3>3 DEF frame
  <2>4. Len(stack') - 1 = n - 1 /\ Len(stack') \in Nat /\ Len(stack') # 0
    BY <1>3, <1>13
  <2> QED
    BY <1>3, <1>13, <2>1, <2>2, <2>3, <2>4 DEF Reads
<1>15. SpanEnds(root, ctx, stack', n, i', stop')
  <2> SUFFICES ASSUME NEW k \in InfoPlaces(root), ctx[1].count >= k
               PROVE  /\ i' >= Before(root, k - 1) + 2 /\ stop' = Before(root, k) + 1
                      /\ NoInfo(stack', n)
    BY DEF SpanEnds
  <2>1. i >= Before(root, k - 1) + 2 /\ stop = Before(root, k) + 1 /\ NoInfo(stack, n)
    BY <1>3 DEF SpanEnds
  <2>2. \A j \in Before(root, k - 1) + 2 .. Len(Encode(root)) : Encode(root)[j] # Text(Key.info)
    BY DEF InfoPlaces
  <2>3. Before(root, k - 1) \in Nat
    <3>1. k \in 1 .. Count(root) /\ IsContainer(root)
      BY DEF InfoPlaces, IsContainer
    <3>2. Count(root) \in Nat
      BY DocumentFacts
    <3>3. k - 1 \in 0 .. Count(root)
      BY <3>1, <3>2
    <3> QED
      BY <3>1, <3>3, TextPlaces
  <2>4. Token # Text(Key.info)
    <3>1. i \in Before(root, k - 1) + 2 .. Len(Encode(root))
      BY <1>2, <1>7, <2>1, <2>3
    <3> QED
      BY <1>7, <2>2, <3>1 DEF Token
  <2>5. key # Key.info
    BY <1>7, <2>4
  <2>6. NoInfo(stack', n)
    <3>1. \A f \in 1 .. n : f = n \/ f \in 1 .. n - 1
      BY <1>3
    <3> QED
      BY <1>11, <1>13, <2>1, <2>5, <3>1 DEF NoInfo
  <2> QED
    BY <1>1, <2>1, <2>3, <2>6
<1>16. Running'
  BY <1>1, <1>9 DEF Running
<1> QED
  BY <1>7, <1>8, <1>13, <1>14, <1>15, <1>16 DEF Follows

\* The end of a list or a dictionary.
LEMMA CloseFollows ==
  ASSUME NEW root \in Parts, data = Encode(root), NEW S, stack \in Seq(S), i \in Nat,
         Follows(root), CloseContainer
  PROVE  Follows(root)' /\ i <= Len(data)
<1>1. /\ Running /\ (InList \/ AwaitsKey) /\ stack # << >> /\ Token = EndToken /\ i' = i + 1
      /\ Yield(Top.value, Front(stack))
  BY DEF CloseContainer, InList, AwaitsKey
<1>2. Len(Encode(root)) \in Nat /\ Len(data) \in Nat
  BY TextsAreTokens
<1>3. PICK ctx, c, n :
        /\ n = Len(stack) /\ n \in Nat \ {0} /\ c = ctx[n] /\ c \in Contexts
        /\ Chain(root, stack, n - 1, ctx) /\ Filling(root, c, stack[n])
        /\ i = ReadIn(c, stack[n]) + 1 /\ Top = stack[n]
        /\ SpanEnds(root, ctx, stack, n, i, stop)
  BY <1>1, OpenFacts
<1> DEFINE frame == stack[n]
<1>4. /\ c.doc \in Parts /\ IsContainer(c.doc) /\ c.at \in Nat
      /\ c.count \in Nat /\ Count(c.doc) \in Nat /\ c.count <= Count(c.doc)
      /\ frame.value.t = (IF c.doc.t = "list" THEN "list" ELSE "dict")
      /\ c.doc.t \in {"list", "pairs"}
      /\ c.count = Count(c.doc) => ~frame.keyed /\ Token = EndToken
      /\ c.count < Count(c.doc) /\ c.doc.t = "pairs" /\ ~frame.keyed =>
           i <= Len(data) /\ Token = Text(c.doc.keys[c.count + 1])
  BY <1>2, <1>3, InnermostFacts
<1>5. frame.value.t = "dict" => ~frame.keyed
  BY <1>1, <1>3 DEF InList, AwaitsKey
<1>6. frame.keyed => c.doc.t = "pairs"
  BY <1>3 DEF Filling
<1> HIDE DEF frame
<1>7. c.count = Count(c.doc)
  <2> SUFFICES ASSUME c.count < Count(c.doc) PROVE FALSE
    BY <1>4
  <2>1. CASE c.doc.t = "pairs"
    BY <1>1, <1>4, <1>5, <2>1 DEF Text, EndToken
  <2>2. CASE c.doc.t = "list"
    <3> DEFINE inner == [doc |-> c.doc.items[c.count + 1], at |-> ReadIn(c, frame), count |-> 0]
    <3>1. ~frame.keyed /\ c.doc.t # "pairs"
      BY <1>6, <2>2
    <3>2. Leads(c, frame, inner)
      BY <3>1 DEF Leads
    <3>3. inner.at = ReadIn(c, frame)
      OBVIOUS
    <3> HIDE DEF inner
    <3>4. inner.doc \in Parts /\ inner.at \in Nat /\ Lies(root, inner.doc, inner.at)
      BY <1>2, <1>3, <3>2, InnerLies DEF frame
    <3>5. inner.at + 1 <= Len(Encode(root)) /\ Encode(root)[inner.at + 1] # EndToken
      BY <1>2, <3>4, FirstToken
    <3>6. i = inner.at + 1
      BY <1>3, <3>3 DEF frame
    <3> QED
      BY <1>1, <3>5, <3>6 DEF Token
  <2> QED
    BY <1>4, <2>1, <2>2
<1>8. Top.value = Meaning(c.doc)
  BY <1>3, <1>4, <1>7, ReadingParts DEF Filling
<1>9. /\ i <= Len(data) /\ i' = c.at + Len(Encode(c.doc)) + 1
  <2>1. ~frame.keyed
    BY <1>4, <1>7
  <2>2. ReadIn(c, frame) = c.at + Before(c.doc, Count(c.doc)) + 0
    BY <1>7, <2>1, Zenon DEF ReadIn
  <2>3. /\ Len(Encode(c.doc)) = Before(c.doc, Count(c.doc)) + 1
        /\ c.at + Before(c.doc, Count(c.doc)) + 1 <= Len(Encode(root))
    <3>1. Lies(root, c.doc, c.at)
      BY <1>3 DEF Filling
    <3> QED
      BY <1>2, <1>4, <3>1, LiesOpen
  <2>4. Before(c.doc, Count(c.doc)) \in Nat
    <3>1. Count(c.doc) \in 0 .. Count(c.doc)
      BY <1>4
    <3> QED
      BY <1>4, <3>1, TextPlaces
  <2> QED
    BY <1>1, <1>3, <1>4, <2>2, <2>3, <2>4 DEF frame
<1> DEFINE open == Front(stack)
<1>10. /\ open \in Seq(S) /\ Len(open) = n - 1 /\ \A f \in 1 .. n - 1 : open[f] = stack[f]
  BY <1>1, <1>3 DEF Front
<1>11. Yield(Meaning(c.doc), open)
  BY <1>1, <1>8
<1> HIDE DEF open
<1>12. Chain(root, open, Len(open), ctx)
  BY <1>3, <1>10 DEF Chain
<1>13. SpanEnds(root, ctx, open, Len(open), i, stop)
  <2>1. NoInfo(stack, n) => NoInfo(open, n - 1)
    BY <1>3, <1>10 DEF NoInfo
  <2> QED
    BY <1>3, <1>10, <2>1 DEF SpanEnds
<1>14. c = ctx[Len(open) + 1] /\ i' >= i
  BY <1>1, <1>3, <1>10
<1>15. Follows(root)'
  BY <1>1, <1>2, <1>7, <1>9, <1>10, <1>11, <1>12, <1>13, <1>14, YieldFollows
<1> QED
  BY <1>9, <1>15

\* A document has no other character.
LEMMA NothingOther ==
  ASSUME NEW root \in Parts, data = Encode(root), NEW S, stack \in Seq(S), i \in Nat, Follows(root)
  PROVE  ~ParseOther
<1> SUFFICES ASSUME ParseOther PROVE FALSE
  OBVIOUS
<1>1. Running /\ AwaitsValue /\ Token \in {EndToken, Other}
  BY DEF ParseOther
<1>2. Len(Encode(root)) \in Nat /\ Len(data) \in Nat
  BY TextsAreTokens
<1>3. PICK ctx :
        /\ i = ctx[Len(stack) + 1].at + 1
        /\ ctx[Len(stack) + 1].doc \in Parts
        /\ Lies(root, ctx[Len(stack) + 1].doc, ctx[Len(stack) + 1].at)
  BY <1>1, <1>2, AwaitedElement
<1>4. PICK inner : inner = ctx[Len(stack) + 1]
  OBVIOUS
<1>5. /\ inner.at + 1 <= Len(Encode(root)) /\ Encode(root)[inner.at + 1] # EndToken
      /\ \/ Encode(root)[inner.at + 1].t \in {"int", "str"}
         \/ Encode(root)[inner.at + 1] = ListToken \/ Encode(root)[inner.at + 1] = DictToken
  BY <1>2, <1>3, <1>4, FirstToken
<1>6. Token = Encode(root)[inner.at + 1]
  BY <1>3, <1>4, <1>5 DEF Token
<1> QED
  BY <1>1, <1>5, <1>6 DEF Other, EndToken, ListToken, DictToken
\* Whatever step of ParseAny comes next, the parser still follows the document.
LEMMA StepFollows ==
  ASSUME NEW root \in Parts, data = Encode(root), NEW V, NEW K,
         stack \in Seq([value : V, keyed : BOOLEAN, key : K]), i \in Nat \ {0},
         SpanBegins(root), Follows(root), ParserStep
  PROVE  SpanBegins(root)' /\ Follows(root)'
<1>1. ASSUME Follows(root)', i <= Len(data), i' = i + 1,
             \/ Token.t = "str" /\ start' = IF Token.s = Key.info THEN i' ELSE start
             \/ Token.t # "str" /\ start' = start
      PROVE  SpanBegins(root)' /\ Follows(root)'
  <2>1. start' = IF Token = Text(Key.info) THEN i' ELSE start
    BY <1>1, MarkedBy
  <2> QED
    BY <1>1, <2>1, SpanBeginsKept
<1>2. CASE ParseInt
  <2>1. Token.t # "str" /\ start' = start /\ i' = i + 1
    BY <1>2 DEF ParseInt
  <2> QED
    BY <1>1, <1>2, <2>1, FlatFollows
<1>3. CASE ParseString
  <2>1. Token.t = "str" /\ start' = (IF Token.s = Key.info THEN i' ELSE start) /\ i' = i + 1
    BY <1>3 DEF ParseString, MarkStart
  <2> QED
    BY <1>1, <1>3, <2>1, FlatFollows
<1>4. CASE OpenContainer
  <2>1. Token.t # "str" /\ start' = start /\ i' = i + 1
    BY <1>4 DEF OpenContainer, ListToken, DictToken
  <2> QED
    BY <1>1, <1>4, <2>1, OpenFollows
<1>5. CASE ParseKey
  <2>1. Follows(root)' /\ i <= Len(data) /\ Token.t = "str"
    BY <1>5, KeyFollows
  <2>2. start' = (IF Token.s = Key.info THEN i' ELSE start) /\ i' = i + 1
    BY <1>5, <2>1 DEF ParseKey, MarkStart
  <2> QED
    BY <1>1, <2>1, <2>2
<1>6. CASE CloseContainer
  <2>1. Token.t # "str" /\ start' = start /\ i' = i + 1
    BY <1>6 DEF CloseContainer, EndToken
  <2> QED
    BY <1>1, <1>6, <2>1, CloseFollows
<1>7. ~ParseOther
  BY NothingOther
<1> QED
  BY <1>2, <1>3, <1>4, <1>5, <1>6, <1>7 DEF ParserStep

\* The beginning.
LEMMA StartFollows ==
  ASSUME NEW root \in Parts, StartParser(Encode(root))
  PROVE  SpanBegins(root)' /\ Follows(root)'
<1>1. i' = 1 /\ stack' = << >> /\ parser' = "running"
  BY DEF StartParser
<1>2. \A k \in InfoPlaces(root) : ~(i' >= Before(root, k - 1) + 2)
  <2> SUFFICES ASSUME NEW k \in InfoPlaces(root) PROVE ~(i' >= Before(root, k - 1) + 2)
    OBVIOUS
  <2>1. k \in 1 .. Count(root) /\ IsContainer(root)
    BY DEF InfoPlaces, IsContainer
  <2>2. Count(root) \in Nat
    BY DocumentFacts
  <2>3. k - 1 \in 0 .. Count(root)
    BY <2>1, <2>2
  <2>4. Before(root, k - 1) \in Nat
    BY <2>1, <2>3, TextPlaces
  <2> QED
    BY <1>1, <2>4
<1> QED
  BY <1>1, <1>2 DEF SpanBegins, Follows, Running

\* No document is bencoded to nothing.
LEMMA TextIsThere ==
  ASSUME NEW root \in Parts
  PROVE  Len(Encode(root)) \in Nat /\ Len(Encode(root)) >= 1 /\ Encode(root) # << >>
<1>1. Encode(root) \in Seq(Alphabet) /\ Len(Encode(root)) \in Nat
  BY TextsAreTokens
<1>2. Lies(root, root, 0)
  BY <1>1 DEF Lies
<1>3. 0 + 1 <= Len(Encode(root))
  BY <1>1, <1>2, FirstToken
<1> QED
  BY <1>1, <1>3

\* The end.
LEMMA AllIsRead ==
  ASSUME NEW root, Follows(root), parser = "done"
  PROVE  /\ parsed = Meaning(root) /\ i = Len(Encode(root)) + 1
         /\ \A k \in InfoPlaces(root) : stop = Before(root, k) + 1
BY DEF Follows, Running

\* What is hashed is the text of the last value of "info".
LEMMA SpanIsInfo ==
  ASSUME NEW root \in Parts, data = Encode(root), SpanBegins(root), Follows(root), parser = "done",
         NEW k \in InfoPlaces(root)
  PROVE  HashedSpan = Encode(root.items[k])
<1> DEFINE b == Before(root, k - 1)
           item == Encode(root.items[k])
<1>1. k \in 1 .. Count(root) /\ root.t = "pairs" /\ IsContainer(root)
  BY DEF InfoPlaces, IsContainer
<1>2. Encode(root) \in Seq(Alphabet) /\ Len(Encode(root)) \in Nat
  BY TextsAreTokens
<1>3. Lies(root, root, 0)
  BY <1>2 DEF Lies
<1>4. KeyLength(root) = 1
  BY <1>1 DEF KeyLength
<1>5. /\ b \in Nat /\ root.items[k] \in Parts /\ Len(item) \in Nat
      /\ Lies(root, root.items[k], 0 + b + KeyLength(root))
      /\ Before(root, k) = b + KeyLength(root) + Len(item)
  BY <1>1, <1>2, <1>3, LiesElement
<1>6. /\ b + 1 + Len(item) <= Len(Encode(root))
      /\ \A j \in 1 .. Len(item) : Encode(root)[b + 1 + j] = item[j]
  <2>1. 0 + b + KeyLength(root) = b + 1
    BY <1>4, <1>5
  <2> QED
    BY <1>5, <2>1 DEF Lies
<1>7. item \in Seq(Alphabet)
  BY <1>5, TextsAreTokens
<1>8. Len(item) >= 1
  BY <1>5, TextIsThere
<1> HIDE DEF b, item
<1>9. start = b + 2 /\ stop = b + 2 + Len(item)
  <2>1. i = Len(Encode(root)) + 1 /\ stop = Before(root, k) + 1
    BY AllIsRead
  <2>2. i >= b + 2
    BY <1>2, <1>5, <1>6, <1>8, <2>1
  <2>3. start = b + 2
    BY <2>2 DEF SpanBegins, b
  <2> QED
    BY <1>4, <1>5, <2>1, <2>3
<1>10. HashedSpan = SubSeq(data, b + 2, b + 1 + Len(item))
  <2>1. start <= stop /\ stop - 1 = b + 1 + Len(item)
    BY <1>5, <1>9
  <2> QED
    BY <1>9, <2>1 DEF HashedSpan
<1> DEFINE span == SubSeq(data, b + 2, b + 1 + Len(item))
<1>11. /\ span \in Seq(Alphabet) /\ Len(span) = Len(item)
       /\ \A j \in 1 .. Len(item) : span[j] = data[b + 1 + j]
  <2>1. PICK from \in Nat, to \in Nat : from = b + 2 /\ to = b + 1 + Len(item)
    BY <1>5
  <2>2. \A j \in from .. to : data[j] \in Alphabet
    <3>1. \A j \in 1 .. Len(data) : data[j] \in Alphabet
      BY <1>2, ElementOfSeq
    <3>2. \A j \in from .. to : j \in 1 .. Len(data)
      BY <1>2, <1>5, <1>6, <2>1
    <3> QED
      BY <3>1, <3>2
  <2>3. /\ SubSeq(data, from, to) \in Seq(Alphabet) /\ Len(SubSeq(data, from, to)) = to - from + 1
        /\ \A j \in 1 .. to - from + 1 : SubSeq(data, from, to)[j] = data[from + j - 1]
    BY <1>5, <1>8, <2>1, <2>2, SubSeqProperties
  <2>4. to - from + 1 = Len(item) /\ \A j \in 1 .. Len(item) : from + j - 1 = b + 1 + j
    BY <1>5, <2>1
  <2> QED
    BY <2>1, <2>3, <2>4
<1> HIDE DEF span
<1>12. span = item
  <2>1. \A j \in 1 .. Len(item) : span[j] = item[j]
    BY <1>6, <1>11
  <2> QED
    BY <1>7, <1>11, <2>1, SeqEqual
<1> QED
  BY <1>10, <1>12 DEF span, item
===============================================================================
