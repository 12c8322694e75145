---------------------------- MODULE InductionFacts ----------------------------
(***************************************************************************)
(* Induction over the natural numbers as facts about sets of them, so that *)
(* a proof can cite them for any set it defines, and what follows for      *)
(* FlattenSeq, which is defined by recursion.                              *)
(***************************************************************************)
EXTENDS SequencesExt, SequenceTheorems, FiniteSetTheorems, TLAPS

\* A set of natural numbers that is not empty has a least one.
LEMMA LeastNatural ==
  ASSUME NEW T, T \subseteq Nat, T # {}
  PROVE  \E x \in T : \A y \in T : x <= y
<1> DEFINE Segments == {0 .. n : n \in T}
           Smaller == StrictSubsetOrdering(Nat)
<1>1. Segments \subseteq FiniteSubsetsOf(Nat) /\ Segments # {}
  <2>1. \A n \in T : 0 .. n \subseteq Nat /\ IsFiniteSet(0 .. n)
    BY FS_Interval
  <2> QED
    BY <2>1 DEF FiniteSubsetsOf
<1>2. IsWellFoundedOn(Smaller, FiniteSubsetsOf(Nat))
  BY FS_StrictSubsetOrderingWellFounded
<1> HIDE DEF Smaller
<1>3. PICK least \in Segments : \A other \in Segments : ~(<< other, least >> \in Smaller)
  <2> HIDE DEF Segments
  <2> QED
    BY <1>1, <1>2, WFMin
<1>4. PICK x \in T : least = 0 .. x
  OBVIOUS
<1>5. ASSUME NEW y \in T PROVE x <= y
  <2>1. ~(0 .. y \subseteq 0 .. x /\ 0 .. y # 0 .. x)
    <3>1. ASSUME NEW A \in SUBSET Nat, NEW B \in SUBSET Nat, A \subseteq B, A # B
          PROVE  << A, B >> \in Smaller
      BY <3>1 DEF Smaller, StrictSubsetOrdering
    <3>2. 0 .. x \in SUBSET Nat /\ 0 .. y \in SUBSET Nat
      OBVIOUS
    <3>3. << 0 .. y, 0 .. x >> \notin Smaller
      BY <1>3, <1>4
    <3> QED
      BY <3>1, <3>2, <3>3
  <2>2. SUFFICES ASSUME y < x PROVE FALSE
    OBVIOUS
  <2>3. x \in 0 .. x /\ x \notin 0 .. y /\ 0 .. y \subseteq 0 .. x
    BY <2>2
  <2> QED
    BY <2>1, <2>3
<1> QED
  BY <1>5

\* A set that has 0, and with a number the next, has every natural number.
LEMMA SetInduction ==
  ASSUME NEW A, 0 \in A, \A n \in Nat : n \in A => n + 1 \in A
  PROVE  \A n \in Nat : n \in A
<1>1. SUFFICES ASSUME Nat \ A # {} PROVE FALSE
  OBVIOUS
<1>2. PICK x \in Nat \ A : \A y \in Nat \ A : x <= y
  BY <1>1, LeastNatural
<1>3. x - 1 \in Nat /\ x - 1 \notin A
  BY <1>2
<1> QED
  BY <1>2, <1>3

-------------------------------------------------------------------------------
(* FlattenSeq *)

\* The function that FlattenSeq defines by recursion.
Flattening(s, f) == f = [i \in 1 .. Len(s) |-> IF i = 1 THEN s[i] ELSE f[i - 1] \o s[i]]

\* There is such a function,
LEMMA FlatteningExists ==
  ASSUME NEW B, NEW s \in Seq(Seq(B))
  PROVE  \E f \in [1 .. Len(s) -> Seq(B)] : Flattening(s, f)
<1> DEFINE Upto(n, f) == \A i \in 1 .. n : f[i] = IF i = 1 THEN s[i] ELSE f[i - 1] \o s[i]
           A == {n \in Nat : n <= Len(s) => \E f \in [1 .. n -> Seq(B)] : Upto(n, f)}
<1>1. Len(s) \in Nat /\ \A i \in 1 .. Len(s) : s[i] \in Seq(B)
  BY LenProperties
<1>a. \A n : n \in A <=> n \in Nat /\ (n <= Len(s) => \E f \in [1 .. n -> Seq(B)] : Upto(n, f))
  OBVIOUS
<1> HIDE DEF A
<1>2. 0 \in A
  <2>1. [i \in 1 .. 0 |-> << >>] \in [1 .. 0 -> Seq(B)]
    OBVIOUS
  <2>2. Upto(0, [i \in 1 .. 0 |-> << >>])
    OBVIOUS
  <2> HIDE DEF Upto
  <2> QED
    BY <1>a, <2>1, <2>2
<1>3. ASSUME NEW n \in Nat, n \in A PROVE n + 1 \in A
  <2> SUFFICES ASSUME n + 1 <= Len(s)
               PROVE  \E f \in [1 .. n + 1 -> Seq(B)] : Upto(n + 1, f)
    <3> HIDE DEF Upto
    <3> QED
      BY <1>a
  <2>1. PICK f \in [1 .. n -> Seq(B)] : Upto(n, f)
    <3>1. n <= Len(s)
      BY <1>1
    <3> HIDE DEF Upto
    <3> QED
      BY <1>3, <1>a, <3>1
  <2>2. n + 1 \in 1 .. Len(s) /\ s[n + 1] \in Seq(B)
    BY <1>1
  <2> DEFINE last == IF n = 0 THEN s[1] ELSE f[n] \o s[n + 1]
             g == [i \in 1 .. n + 1 |-> IF i <= n THEN f[i] ELSE last]
  <2>3. last \in Seq(B)
    <3>1. CASE n = 0
      BY <2>2, <3>1
    <3>2. CASE n # 0
      <4>1. f[n] \in Seq(B)
        BY <3>2
      <4>2. f[n] \o s[n + 1] \in Seq(B)
        BY <2>2, <4>1, ConcatProperties
      <4> QED
        BY <3>2, <4>2
    <3> QED
      BY <3>1, <3>2
  <2>4. \A i \in 1 .. n : g[i] = f[i]
    OBVIOUS
  <2>5. g[n + 1] = IF n + 1 = 1 THEN s[n + 1] ELSE g[n] \o s[n + 1]
    BY <2>4
  <2>6. \A i \in 1 .. n : g[i] = IF i = 1 THEN s[i] ELSE g[i - 1] \o s[i]
    <3> SUFFICES ASSUME NEW i \in 1 .. n
                 PROVE  g[i] = IF i = 1 THEN s[i] ELSE g[i - 1] \o s[i]
      OBVIOUS
    <3>1. f[i] = IF i = 1 THEN s[i] ELSE f[i - 1] \o s[i]
      BY <2>1
    <3>2. i # 1 => g[i - 1] = f[i - 1]
      BY <2>4
    <3> HIDE DEF g
    <3> QED
      BY <2>4, <3>1, <3>2
  <2>7. g \in [1 .. n + 1 -> Seq(B)]
    BY <2>3
  <2> HIDE DEF g, last
  <2>8. Upto(n + 1, g)
    BY <2>5, <2>6
  <2> QED
    BY <2>7, <2>8
<1>4. Len(s) \in A
  BY <1>1, <1>2, <1>3, SetInduction
<1>5. PICK f \in [1 .. Len(s) -> Seq(B)] : Upto(Len(s), f)
  <2> HIDE DEF Upto
  <2> QED
    BY <1>1, <1>4, <1>a
<1> QED
  BY <1>5 DEF Flattening

\* It does not look at what follows.
LEMMA FlatteningAgrees ==
  \A s, f, t, g : \A n \in Nat :
    /\ Flattening(s, f) /\ Flattening(t, g)
    /\ Len(s) \in Nat /\ Len(t) \in Nat /\ n <= Len(s) /\ n <= Len(t)
    /\ \A i \in 1 .. n : s[i] = t[i]
    => \A i \in 1 .. n : f[i] = g[i]
<1> SUFFICES ASSUME NEW s, NEW f, NEW t, NEW g, NEW n \in Nat,
                    Flattening(s, f), Flattening(t, g),
                    Len(s) \in Nat, Len(t) \in Nat, n <= Len(s), n <= Len(t),
                    \A i \in 1 .. n : s[i] = t[i]
             PROVE  \A i \in 1 .. n : f[i] = g[i]
  OBVIOUS
<1> DEFINE A == {m \in Nat : m + 1 <= n => f[m + 1] = g[m + 1]}
<1>1. /\ \A i \in 1 .. n : f[i] = IF i = 1 THEN s[i] ELSE f[i - 1] \o s[i]
      /\ \A i \in 1 .. n : g[i] = IF i = 1 THEN s[i] ELSE g[i - 1] \o s[i]
  <2>1. \A i \in 1 .. Len(s) : f[i] = IF i = 1 THEN s[i] ELSE f[i - 1] \o s[i]
    BY DEF Flattening
  <2>2. \A i \in 1 .. Len(t) : g[i] = IF i = 1 THEN t[i] ELSE g[i - 1] \o t[i]
    BY DEF Flattening
  <2> QED
    BY <2>1, <2>2
<1>2. 0 \in A
  BY <1>1
<1>3. ASSUME NEW m \in Nat, m \in A PROVE m + 1 \in A
  <2> SUFFICES ASSUME m + 2 <= n PROVE f[m + 2] = g[m + 2]
    OBVIOUS
  <2>1. f[m + 1] = g[m + 1] /\ m + 2 \in 1 .. n /\ m + 2 # 1 /\ (m + 2) - 1 = m + 1
    BY <1>3
  <2> QED
    BY <1>1, <2>1
<1> HIDE DEF A
<1>4. \A m \in Nat : m \in A
  BY <1>2, <1>3, SetInduction
<1> SUFFICES ASSUME NEW i \in 1 .. n PROVE f[i] = g[i]
  OBVIOUS
<1>5. i - 1 \in A
  BY <1>4
<1> QED
  BY <1>5 DEF A

\* and FlattenSeq takes its last value.
LEMMA FlattenValue ==
  ASSUME NEW B, NEW s \in Seq(Seq(B)), s # << >>
  PROVE  \E f \in [1 .. Len(s) -> Seq(B)] : Flattening(s, f) /\ FlattenSeq(s) = f[Len(s)]
<1> DEFINE chosen == CHOOSE f : Flattening(s, f)
<1>1. PICK g \in [1 .. Len(s) -> Seq(B)] : Flattening(s, g)
  BY FlatteningExists
<1>2. Flattening(s, chosen)
  BY <1>1
<1>3. Len(s) \in Nat /\ Len(s) # 0
  BY EmptySeq
<1>4. FlattenSeq(s) = chosen[Len(s)]
  BY <1>3 DEF FlattenSeq, Flattening
<1> HIDE DEF chosen
<1>5. \A i \in 1 .. Len(s) : chosen[i] = g[i]
  BY <1>1, <1>2, <1>3, FlatteningAgrees
<1>6. Len(s) \in 1 .. Len(s)
  BY <1>3
<1> QED
  BY <1>1, <1>4, <1>5, <1>6

\* FlattenSeq of no strings.
LEMMA FlattenEmpty == FlattenSeq(<< >>) = << >>
BY DEF FlattenSeq

\* FlattenSeq of one string more is what it was, with that string behind it.
LEMMA FlattenAppend ==
  ASSUME NEW B, NEW s \in Seq(Seq(B)), NEW x \in Seq(B)
  PROVE  /\ FlattenSeq(s) \in Seq(B)
         /\ FlattenSeq(Append(s, x)) = FlattenSeq(s) \o x
<1> DEFINE longer == Append(s, x)
<1>1. /\ longer \in Seq(Seq(B)) /\ longer # << >> /\ Len(longer) = Len(s) + 1 /\ Len(s) \in Nat
      /\ longer[Len(s) + 1] = x /\ \A i \in 1 .. Len(s) : longer[i] = s[i]
  BY AppendProperties, LenProperties
<1> HIDE DEF longer
<1>2. PICK f \in [1 .. Len(longer) -> Seq(B)] :
         Flattening(longer, f) /\ FlattenSeq(longer) = f[Len(longer)]
  BY <1>1, FlattenValue
<1>3. f[Len(s) + 1] = IF Len(s) + 1 = 1 THEN x ELSE f[Len(s)] \o x
  <2>1. Len(s) + 1 \in 1 .. Len(longer) /\ (Len(s) + 1) - 1 = Len(s)
    BY <1>1
  <2>2. \A i \in 1 .. Len(longer) : f[i] = IF i = 1 THEN longer[i] ELSE f[i - 1] \o longer[i]
    BY <1>2 DEF Flattening
  <2> QED
    BY <1>1, <2>1, <2>2
<1>4. CASE s = << >>
  <2>1. FlattenSeq(s) = << >>
    BY <1>4 DEF FlattenSeq
  <2>2. FlattenSeq(longer) = x
    BY <1>1, <1>2, <1>3, <1>4
  <2>3. << >> \o x = x /\ << >> \in Seq(B)
    BY ConcatEmptySeq, EmptySeq
  <2> QED
    BY <2>1, <2>2, <2>3 DEF longer
<1>5. CASE s # << >>
  <2>1. PICK g \in [1 .. Len(s) -> Seq(B)] : Flattening(s, g) /\ FlattenSeq(s) = g[Len(s)]
    BY <1>5, FlattenValue
  <2>2. Len(s) \in 1 .. Len(s) /\ Len(s) + 1 # 1
    BY <1>5, EmptySeq
  <2>3. \A i \in 1 .. Len(s) : f[i] = g[i]
    <3>1. Len(s) \in Nat /\ Len(longer) \in Nat /\ Len(s) <= Len(longer)
      BY <1>1
    <3>2. Flattening(longer, f) /\ Flattening(s, g)
      BY <1>2, <2>1
    <3>3. \A i \in 1 .. Len(s) : longer[i] = s[i]
      BY <1>1
    <3>4. Len(s) <= Len(s)
      BY <3>1
    <3> QED
      BY <3>1, <3>2, <3>3, <3>4, FlatteningAgrees
  <2>4. FlattenSeq(longer) = g[Len(s)] \o x
    BY <1>1, <1>2, <1>3, <2>2, <2>3
  <2>5. FlattenSeq(s) \in Seq(B)
    BY <2>1, <2>2
  <2> QED
    BY <2>1, <2>4, <2>5 DEF longer
<1> QED
  BY <1>4, <1>5

-------------------------------------------------------------------------------
(* Parts of sequences *)

\* A part within a sequence is one of its elements, as long as its places are many.
LEMMA PartIsString ==
  ASSUME NEW B, NEW s \in Seq(B), NEW m \in Nat \ {0}, NEW n \in Nat, n <= Len(s)
  PROVE  SubSeq(s, m, n) \in Seq(B) /\ (m <= n => Len(SubSeq(s, m, n)) = n - m + 1)
<1>1. \A i \in m .. n : s[i] \in B
  BY ElementOfSeq
<1> QED
  BY <1>1, SubSeqProperties

\* A string is the beginning of itself with another behind it.
LEMMA PrefixOfConcat ==
  ASSUME NEW B, NEW s \in Seq(B), NEW t \in Seq(B)
  PROVE  IsPrefix(s, s) /\ IsPrefix(s, s \o t)
<1>1. Len(s) \in Nat /\ Len(t) \in Nat /\ s \o t \in Seq(B) /\ Len(s \o t) = Len(s) + Len(t)
  BY ConcatProperties, LenProperties
<1>2. SubSeq(s, 1, Len(s)) = s
  BY SubSeqFull
<1>3. SubSeq(s \o t, 1, Len(s)) = s
  <2>1. /\ SubSeq(s \o t, 1, Len(s)) \in Seq(B)
        /\ Len(SubSeq(s \o t, 1, Len(s))) = Len(s)
    <3>1. CASE Len(s) = 0
      BY <1>1, <3>1, SubSeqEmpty, EmptySeq
    <3>2. CASE Len(s) # 0
      BY <1>1, <3>2, PartIsString
    <3> QED
      BY <3>1, <3>2
  <2>2. \A i \in 1 .. Len(s) : SubSeq(s \o t, 1, Len(s))[i] = s[i]
    BY <1>1, ConcatProperties, SubSeqProperties
  <2> QED
    BY <2>1, <2>2, SeqEqual
<1> QED
  BY <1>1, <1>2, <1>3 DEF IsPrefix
===============================================================================
