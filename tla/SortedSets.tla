----------------------------- MODULE SortedSets -----------------------------
(***************************************************************************)
(* Facts about sets of naturals that the proofs of UserStore and Capture   *)
(* need: a least element, and an enumeration in ascending order.  Both are *)
(* inductions, done by the least counterexample.                           *)
(***************************************************************************)
EXTENDS Integers, SequencesExt, TLAPS, WellFoundedInduction, FiniteSetTheorems

\* A set of naturals that is not empty has a least element.
LEMMA LeastNatural ==
    ASSUME NEW S \in SUBSET Nat, S # {}
    PROVE  \E x \in S : \A y \in S : x <= y
<1>1. PICK x \in S : \A y \in S : <<y, x>> \notin OpToRel(<, Nat)
  BY WFMin, NatLessThanWellFounded, Zenon
<1>2. \A y \in S : ~(y < x)
  BY <1>1, Zenon DEF OpToRel
<1> QED BY <1>2

\* Min is it.
LEMMA MinIsLeast ==
    ASSUME NEW S \in SUBSET Nat, S # {}
    PROVE  Min(S) \in S /\ \A y \in S : Min(S) <= y
    BY LeastNatural DEF Min

Ascending(f) == \A m, n \in DOMAIN f : m < n => f[m] < f[n]

Sortable(S) == \E f \in SetToSeqs(S) : Ascending(f)

\* An element in front of a sorted enumeration of greater ones.
LEMMA SortedInFront ==
    ASSUME NEW S \in SUBSET Nat, IsFiniteSet(S), NEW x \in S, \A y \in S : x <= y,
           Sortable(S \ {x})
    PROVE  Sortable(S)
<1> DEFINE n == Cardinality(S)
<1>1. /\ n \in Nat \ {0}
      /\ Cardinality(S \ {x}) = n - 1
  <2>1. n \in Nat /\ Cardinality(S \ {x}) = n - 1 /\ Cardinality(S \ {x}) \in Nat
      BY FS_CardinalityType, FS_RemoveElement
  <2> QED
      BY <2>1
<1>2. PICK g \in SetToSeqs(S \ {x}) : Ascending(g)
    BY DEF Sortable
<1> HIDE DEF n
<1>3. /\ g \in [1 .. n - 1 -> S \ {x}]
      /\ \A a, b \in 1 .. n - 1 : a # b => g[a] # g[b]
    BY <1>1, <1>2 DEF SetToSeqs
<1>4. \A a, b \in 1 .. n - 1 : a < b => g[a] < g[b]
    BY <1>2, <1>3 DEF Ascending
<1> DEFINE f == [a \in 1 .. n |-> IF a = 1 THEN x ELSE g[a - 1]]
<1>5. \A a \in 1 .. n : a = 1 \/ a - 1 \in 1 .. n - 1
    BY <1>1
<1>6. \A a \in 1 .. n : a # 1 => g[a - 1] \in S /\ x < g[a - 1]
  <2>1. \A y \in S \ {x} : y \in S /\ x < y
      OBVIOUS
  <2>2. \A a \in 1 .. n : a # 1 => g[a - 1] \in S \ {x}
      BY <1>3, <1>5
  <2> QED
      BY <2>1, <2>2
<1>7. f \in [1 .. n -> S]
    BY <1>6
<1>8. \A a, b \in 1 .. n : a < b => f[a] < f[b]
  <2> SUFFICES ASSUME NEW a \in 1 .. n, NEW b \in 1 .. n, a < b PROVE f[a] < f[b]
      OBVIOUS
  <2>1. f[b] = g[b - 1] /\ b # 1
      BY <1>1
  <2>2. CASE a = 1
      BY <2>1, <2>2, <1>6
  <2>3. CASE a # 1
      BY <2>1, <2>3, <1>4, <1>5
  <2> QED
      BY <2>2, <2>3
<1> HIDE DEF f
<1>9. \A a, b \in 1 .. n : a # b => f[a] # f[b]
  <2> SUFFICES ASSUME NEW a \in 1 .. n, NEW b \in 1 .. n, a # b PROVE f[a] # f[b]
      OBVIOUS
  <2>1. f[a] \in Nat /\ f[b] \in Nat
      BY <1>7
  <2>2. a < b \/ b < a
      BY <1>1
  <2> QED
      BY <2>1, <2>2, <1>8
<1>10. f \in SetToSeqs(S)
    BY <1>7, <1>9 DEF SetToSeqs, n
<1>11. Ascending(f)
    BY <1>7, <1>8 DEF Ascending
<1> QED
    BY <1>10, <1>11 DEF Sortable

\* Every finite set of naturals can be enumerated in ascending order.
LEMMA FiniteSetsAreSortable ==
    ASSUME NEW T \in SUBSET Nat, IsFiniteSet(T)
    PROVE  Sortable(T)
<1> SUFFICES ASSUME ~Sortable(T) PROVE FALSE
    OBVIOUS
<1> DEFINE Bad == {c \in Nat : \E S \in SUBSET Nat :
                                  IsFiniteSet(S) /\ Cardinality(S) = c /\ ~Sortable(S)}
<1>1. Cardinality(T) \in Bad
    BY FS_CardinalityType
<1>2. PICK c \in Bad : \A d \in Bad : c <= d
    BY <1>1, LeastNatural
<1>3. PICK S \in SUBSET Nat : IsFiniteSet(S) /\ Cardinality(S) = c /\ ~Sortable(S)
    OBVIOUS
<1>4. S # {}
  <2> SUFFICES ASSUME S = {} PROVE FALSE
      OBVIOUS
  <2> DEFINE e == [a \in 1 .. 0 |-> a]
  <2>1. 1 .. Cardinality(S) = 1 .. 0
      BY FS_EmptySet
  <2>2. e \in [1 .. 0 -> {}]
      OBVIOUS
  <2>3. e \in SetToSeqs(S) /\ Ascending(e)
      BY <2>1, <2>2 DEF SetToSeqs, Ascending
  <2> QED
      BY <2>3, <1>3 DEF Sortable
<1>5. PICK x \in S : \A y \in S : x <= y
    BY <1>4, LeastNatural
<1>6. IsFiniteSet(S \ {x}) /\ Cardinality(S \ {x}) = c - 1 /\ Cardinality(S \ {x}) \in Nat
    BY <1>3, FS_RemoveElement, FS_CardinalityType
<1>7. Sortable(S \ {x})
  <2> SUFFICES ASSUME ~Sortable(S \ {x}) PROVE FALSE
      OBVIOUS
  <2>1. c - 1 \in Bad
      BY <1>6
  <2> HIDE DEF Bad
  <2>2. c <= c - 1
      BY <1>2, <2>1
  <2>3. c \in Nat
      BY DEF Bad
  <2> QED
      BY <2>2, <2>3
<1> QED
    BY <1>3, <1>5, <1>7, SortedInFront

\* The positions of an enumeration reach every element.
LEMMA EnumerationIsOnto ==
    ASSUME NEW S, IsFiniteSet(S), NEW f \in SetToSeqs(S)
    PROVE  {f[n] : n \in DOMAIN f} = S
<1> DEFINE D == 1 .. Cardinality(S)
<1>1. Cardinality(S) \in Nat
    BY FS_CardinalityType
<1>2. f \in Injection(D, S)
    BY DEF SetToSeqs, Injection, IsInjective
<1>3. Cardinality(D) = Cardinality(S)
    BY <1>1, FS_Interval
<1>4. f \in Surjection(D, S)
    BY <1>2, <1>3, FS_Injection
<1>5. f \in [D -> S] /\ \A y \in S : \E x \in D : f[x] = y
    BY <1>4 DEF Surjection
<1> QED
    BY <1>5
=============================================================================
