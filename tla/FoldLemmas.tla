----------------------------- MODULE FoldLemmas -----------------------------
(***************************************************************************)
(* Induction over the naturals, without an operator for the predicate: the *)
(* numbers that have a property are a set.  And what it shows of the       *)
(* concatenation of a sequence of sequences, by which main() is handed the *)
(* arguments of the words on its command line.                             *)
(***************************************************************************)
EXTENDS Integers, SequencesExt, SequenceTheorems, WellFoundedInduction, TLAPS

-----------------------------------------------------------------------------
(* Induction *)

LEMMA Smallest ==
  ASSUME NEW T \in SUBSET Nat, T # {}
  PROVE  \E n \in T : \A m \in T : n <= m
<1>1. PICK n \in T : \A m \in T : ~(<<m, n>> \in OpToRel(<, Nat))
  <2> DEFINE R == OpToRel(<, Nat)
  <2>1. IsWellFoundedOn(R, Nat)
    BY NatLessThanWellFounded
  <2> HIDE DEF R
  <2>2. \E n \in T : \A m \in T : ~(<<m, n>> \in R)
    BY <2>1, WFMin, Zenon
  <2> QED BY <2>2 DEF R
<1>2. \A m \in T : ~(m < n)
  BY <1>1 DEF OpToRel
<1> QED BY <1>2

LEMMA Everywhere ==
  ASSUME NEW T \in SUBSET Nat, 0 \in T, \A n \in T : n + 1 \in T
  PROVE  T = Nat
<1> SUFFICES ASSUME Nat \ T # {} PROVE FALSE
  OBVIOUS
<1>1. PICK n \in Nat \ T : \A m \in Nat \ T : n <= m
  BY Smallest
<1>2. n - 1 \in Nat /\ n - 1 \notin Nat \ T
  BY <1>1
<1> QED BY <1>2

-----------------------------------------------------------------------------
(* FlattenSeq *)

\* The recursive function by which FlattenSeq is defined: is f that function of
\* the first n sequences?
Flattened(f, seqs, i) == IF i = 1 THEN seqs[i] ELSE f[i - 1] \o seqs[i]
Flattens(f, seqs, n) == f = [i \in 1 .. n |-> Flattened(f, seqs, i)]

LEMMA FlattenedSame ==
  ASSUME NEW f, NEW g, NEW seqs, NEW i, i = 1 \/ f[i - 1] = g[i - 1]
  PROVE  Flattened(f, seqs, i) = Flattened(g, seqs, i)
  BY DEF Flattened

LEMMA FlattensExists ==
  ASSUME NEW seqs, NEW n \in Nat
  PROVE  \E f : Flattens(f, seqs, n)
<1> DEFINE T == {k \in Nat : \E f : Flattens(f, seqs, k)}
<1>1. 0 \in T
  <2> DEFINE f == [i \in 1 .. 0 |-> {}]
  <2>1. f = [i \in 1 .. 0 |-> Flattened(f, seqs, i)]
    OBVIOUS
  <2> QED BY <2>1 DEF Flattens
<1>2. ASSUME NEW k \in T PROVE k + 1 \in T
  <2>1. PICK f : Flattens(f, seqs, k)
    OBVIOUS
  <2> DEFINE g == [i \in 1 .. k + 1 |-> Flattened(f, seqs, i)]
  <2>2. ASSUME NEW i \in 1 .. k + 1 PROVE Flattened(g, seqs, i) = Flattened(f, seqs, i)
    <3>1. i = 1 \/ g[i - 1] = f[i - 1]
      <4> SUFFICES ASSUME i # 1 PROVE g[i - 1] = f[i - 1]
        OBVIOUS
      <4>1. i - 1 \in 1 .. k /\ i - 1 \in 1 .. k + 1
        OBVIOUS
      <4> QED BY <2>1, <4>1, Zenon DEF Flattens
    <3> HIDE DEF g
    <3> QED BY <3>1, FlattenedSame
  <2>3. g = [i \in 1 .. k + 1 |-> Flattened(g, seqs, i)]
    BY <2>2, Zenon
  <2>4. Flattens(g, seqs, k + 1)
    BY <2>3, Zenon DEF Flattens
  <2> HIDE DEF g
  <2> QED BY <2>4
<1>3. T = Nat
  BY <1>1, <1>2, Everywhere
<1> QED BY <1>3

LEMMA FlattenEquation ==
  ASSUME NEW seqs, Len(seqs) \in Nat \ {0}
  PROVE  \E f : Flattens(f, seqs, Len(seqs)) /\ FlattenSeq(seqs) = f[Len(seqs)]
<1> DEFINE F == CHOOSE f : f = [i \in 1 .. Len(seqs) |-> IF i = 1 THEN seqs[i] ELSE f[i - 1] \o seqs[i]]
<1>1. FlattenSeq(seqs) = F[Len(seqs)]
  BY DEF FlattenSeq
<1>2. Flattens(F, seqs, Len(seqs))
  BY FlattensExists, Zenon DEF Flattens, Flattened
<1> HIDE DEF F
<1> QED BY <1>1, <1>2

\* FlattenSeq joins what comes before each sequence with the sequence, from
\* nothing to everything.
LEMMA Joins ==
  ASSUME NEW S, NEW seqs \in Seq(Seq(S))
  PROVE  \E f \in [0 .. Len(seqs) -> Seq(S)] :
           /\ f[0] = <<>> /\ FlattenSeq(seqs) = f[Len(seqs)]
           /\ \A k \in 1 .. Len(seqs) : f[k] = f[k - 1] \o seqs[k]
<1>1. CASE Len(seqs) = 0
  <2> DEFINE f == [k \in 0 .. Len(seqs) |-> <<>>]
  <2>1. f \in [0 .. Len(seqs) -> Seq(S)] /\ f[0] = <<>>
    BY <1>1
  <2>2. FlattenSeq(seqs) = <<>>
    BY <1>1, EmptySeq DEF FlattenSeq
  <2>3. f[Len(seqs)] = <<>>
    BY <1>1
  <2> HIDE DEF f
  <2> QED BY <1>1, <2>1, <2>2, <2>3
<1>2. CASE Len(seqs) # 0
  <2>1. Len(seqs) \in Nat \ {0}
    BY <1>2
  <2>2. PICK g : Flattens(g, seqs, Len(seqs)) /\ FlattenSeq(seqs) = g[Len(seqs)]
    BY <2>1, FlattenEquation
  <2>3. \A k \in 1 .. Len(seqs) : seqs[k] \in Seq(S)
    BY ElementOfSeq
  <2>4. \A k \in 1 .. Len(seqs) : g[k] = IF k = 1 THEN seqs[k] ELSE g[k - 1] \o seqs[k]
    BY <2>2, Zenon DEF Flattens, Flattened
  <2> DEFINE f == [k \in 0 .. Len(seqs) |-> IF k = 0 THEN <<>> ELSE g[k]]
  <2>5. \A k \in 1 .. Len(seqs) : k - 1 \in 0 .. Len(seqs) /\ f[k] = g[k] /\ (k # 1 => f[k - 1] = g[k - 1])
    BY <2>1
  <2>6. f[0] = <<>> /\ FlattenSeq(seqs) = f[Len(seqs)]
    BY <2>1, <2>2, <2>5
  <2>7. DOMAIN f = 0 .. Len(seqs) /\ f = [k \in 0 .. Len(seqs) |-> f[k]]
    OBVIOUS
  <2> HIDE DEF f
  <2>8. ASSUME NEW k \in 1 .. Len(seqs) PROVE f[k] = f[k - 1] \o seqs[k]
    <3>1. CASE k = 1
      <4>1. f[k] = seqs[k] /\ f[k - 1] = <<>>
        BY <2>4, <2>5, <2>6, <3>1
      <4> QED BY <2>3, <4>1, ConcatEmptySeq
    <3>2. CASE k # 1
      BY <2>4, <2>5, <3>2
    <3> QED BY <3>1, <3>2
  <2> DEFINE T == {k \in Nat : k <= Len(seqs) => f[k] \in Seq(S)}
  <2>9. 0 \in T
    BY <2>6, EmptySeq
  <2>10. ASSUME NEW k \in T PROVE k + 1 \in T
    <3> SUFFICES ASSUME k + 1 <= Len(seqs) PROVE f[k + 1] \in Seq(S)
      OBVIOUS
    <3>1. k + 1 \in 1 .. Len(seqs) /\ (k + 1) - 1 = k
      BY <2>1
    <3>2. f[k + 1] = f[k] \o seqs[k + 1] /\ f[k] \in Seq(S) /\ seqs[k + 1] \in Seq(S)
      <4>1. f[k + 1] = f[(k + 1) - 1] \o seqs[k + 1]
        BY <2>8, <3>1, Zenon
      <4>2. f[k] \in Seq(S)
        BY <2>1, <3>1
      <4> QED BY <2>3, <3>1, <4>1, <4>2, Zenon
    <3> QED BY <3>2, ConcatProperties
  <2>11. T = Nat
    BY <2>9, <2>10, Everywhere
  <2>12. \A k \in 0 .. Len(seqs) : f[k] \in Seq(S)
    BY <2>1, <2>11
  <2>13. f \in [0 .. Len(seqs) -> Seq(S)]
    BY <2>7, <2>12
  <2> QED BY <2>6, <2>8, <2>13
<1> QED BY <1>1, <1>2

LEMMA FlattenType == ASSUME NEW S, NEW seqs \in Seq(Seq(S)) PROVE FlattenSeq(seqs) \in Seq(S)
<1>1. PICK f \in [0 .. Len(seqs) -> Seq(S)] : FlattenSeq(seqs) = f[Len(seqs)]
  BY Joins
<1>2. Len(seqs) \in 0 .. Len(seqs)
  OBVIOUS
<1> QED BY <1>1, <1>2

\* The joined sequence has the members of its parts.
LEMMA FlattenRange ==
  ASSUME NEW S, NEW seqs \in Seq(Seq(S))
  PROVE  Range(FlattenSeq(seqs)) = UNION {Range(seqs[k]) : k \in 1 .. Len(seqs)}
<1>1. PICK f \in [0 .. Len(seqs) -> Seq(S)] :
        /\ f[0] = <<>> /\ FlattenSeq(seqs) = f[Len(seqs)]
        /\ \A k \in 1 .. Len(seqs) : f[k] = f[k - 1] \o seqs[k]
  BY Joins
<1>2. Len(seqs) \in Nat /\ \A k \in 1 .. Len(seqs) : seqs[k] \in Seq(S)
  BY ElementOfSeq
<1> DEFINE T == {n \in Nat : n <= Len(seqs) => Range(f[n]) = UNION {Range(seqs[k]) : k \in 1 .. n}}
<1>3. 0 \in T
  <2>1. Range(f[0]) = {}
    BY <1>1 DEF Range
  <2>2. 1 .. 0 = {}
    OBVIOUS
  <2>3. Range(f[0]) = UNION {Range(seqs[k]) : k \in 1 .. 0}
    BY <2>1, <2>2
  <2> QED BY <2>3
<1>4. ASSUME NEW n \in T PROVE n + 1 \in T
  <2> SUFFICES ASSUME n + 1 <= Len(seqs) PROVE Range(f[n + 1]) = UNION {Range(seqs[k]) : k \in 1 .. n + 1}
    OBVIOUS
  <2>1. n + 1 \in 1 .. Len(seqs) /\ (n + 1) - 1 = n /\ n \in 0 .. Len(seqs) /\ 1 .. n + 1 = (1 .. n) \cup {n + 1}
    BY <1>2
  <2>2. Range(f[n]) = UNION {Range(seqs[k]) : k \in 1 .. n}
    BY <1>2, <2>1
  <2>3. f[n + 1] = f[n] \o seqs[n + 1] /\ f[n] \in Seq(S) /\ seqs[n + 1] \in Seq(S)
    <3>1. f[n + 1] = f[(n + 1) - 1] \o seqs[n + 1] /\ f[n] \in Seq(S) /\ seqs[n + 1] \in Seq(S)
      BY <1>1, <1>2, <2>1, Zenon
    <3> QED BY <2>1, <3>1
  <2>4. Range(f[n + 1]) = Range(f[n]) \cup Range(seqs[n + 1])
    BY <2>3, RangeConcatenation
  <2> HIDE DEF T
  <2>5. UNION {Range(seqs[k]) : k \in (1 .. n) \cup {n + 1}} = (UNION {Range(seqs[k]) : k \in 1 .. n}) \cup Range(seqs[n + 1])
    <3> DEFINE R(k) == Range(seqs[k])
    <3> HIDE DEF R
    <3>1. UNION {R(k) : k \in (1 .. n) \cup {n + 1}} = (UNION {R(k) : k \in 1 .. n}) \cup R(n + 1)
      OBVIOUS
    <3> QED BY <3>1 DEF R
  <2> QED BY <2>1, <2>2, <2>4, <2>5, Zenon
<1>5. T = Nat
  BY <1>3, <1>4, Everywhere
<1>6. Len(seqs) \in T
  <2> HIDE DEF T
  <2> QED BY <1>2, <1>5
<1>7. Range(f[Len(seqs)]) = UNION {Range(seqs[k]) : k \in 1 .. Len(seqs)}
  BY <1>2, <1>6
<1> QED BY <1>1, <1>7
=============================================================================
