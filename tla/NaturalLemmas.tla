--------------------------- MODULE NaturalLemmas ---------------------------
(***************************************************************************)
(* Facts about numbers and finite sets that the proofs of several          *)
(* components cite.                                                        *)
(***************************************************************************)
EXTENDS Integers, FiniteSets, FiniteSetTheorems, WellFoundedInduction, TLAPS

\* A set of naturals that is not empty has a least element.
LEMMA LeastNatural ==
  ASSUME NEW S \in SUBSET Nat, S # {}
  PROVE  \E m \in S : \A n \in S : m <= n
<1>1. PICK m \in S : \A n \in S : ~(<<n, m>> \in OpToRel(<, Nat))
  BY NatLessThanWellFounded, WFMin
<1>2. \A n \in S : n < m => <<n, m>> \in OpToRel(<, Nat)
  BY DEF OpToRel
<1>3. \A n \in S : ~(n < m)
  BY <1>1, <1>2, Zenon
<1> QED
  BY <1>3

\* A counter that wraps around at b comes to every value within b increments.
LEMMA WrapsToEvery ==
  ASSUME NEW b \in Nat \ {0}, NEW c \in 0 .. b - 1, NEW g \in 0 .. b - 1
  PROVE  \E n \in 1 .. b : (c + n) % b = g
<1>1. CASE g > c
  <2>1. g - c \in 1 .. b /\ c + (g - c) = g /\ g % b = g
    BY <1>1
  <2> QED
    BY <2>1
<1>2. CASE g <= c
  <2>1. g - c + b \in 1 .. b /\ c + (g - c + b) = g + b
    BY <1>2
  <2>2. (g + b) % b = g
    OBVIOUS
  <2> QED
    BY <2>1, <2>2
<1> QED
  BY <1>1, <1>2

\* A set of naturals that is not empty and has a bound has a greatest element.
LEMMA GreatestNatural ==
  ASSUME NEW S \in SUBSET Nat, S # {}, NEW b \in Nat, \A n \in S : n <= b
  PROVE  \E m \in S : \A n \in S : n <= m
<1> DEFINE bounds == {m \in Nat : \A n \in S : n <= m}
<1>1. PICK m \in bounds : \A k \in bounds : m <= k
  <2>1. b \in bounds
    OBVIOUS
  <2> QED
    BY <2>1, LeastNatural
<1>2. ASSUME m \notin S
      PROVE  FALSE
  <2>1. PICK n \in S : TRUE
    OBVIOUS
  <2>2. \A k \in S : k <= m - 1
    BY <1>1, <1>2
  <2>3. m - 1 \in bounds
    BY <1>1, <2>1, <2>2
  <2> QED
    BY <1>1, <2>3
<1> QED
  BY <1>1, <1>2

\* Numbering the members of a finite set of naturals in order reaches each
\* number below its cardinality.
LEMMA EveryRank ==
  ASSUME NEW b \in Nat, NEW F \in SUBSET (0 .. b - 1), NEW j \in Nat, j < Cardinality(F)
  PROVE  \E e \in F : Cardinality({d \in F : d < e}) = j
<1> DEFINE below(n) == {d \in F : d < n}
           above == {n \in Nat : Cardinality(below(n)) > j}
<1>0. \A d \in F : d \in Nat /\ d < b
  OBVIOUS
<1>1. ASSUME NEW n \in Nat
      PROVE  IsFiniteSet(below(n)) /\ Cardinality(below(n)) \in Nat
  <2>1. IsFiniteSet(0 .. b - 1)
    BY FS_Interval
  <2> QED
    BY <2>1, FS_Subset, FS_CardinalityType
<1>2. b \in above
  <2>1. below(b) = F
    BY <1>0
  <2> QED
    BY <2>1, <1>1
<1>3. PICK n \in above : \A k \in above : n <= k
  BY <1>2, LeastNatural
<1>4. n # 0
  <2>1. \A d \in F : ~(d < 0)
    BY <1>0
  <2>2. below(0) = {}
    BY <2>1
  <2> QED
    BY <1>3, <2>2, FS_EmptySet
<1>5. n - 1 \in Nat /\ Cardinality(below(n - 1)) <= j
  BY <1>1, <1>3, <1>4
<1>6. \A d \in F : d < n <=> d < n - 1 \/ d = n - 1
  BY <1>0, <1>3
<1>7. n - 1 \in F
  <2>1. n - 1 \notin F => below(n) = below(n - 1)
    BY <1>6
  <2> QED
    BY <1>3, <1>5, <2>1, <1>1
<1>8. Cardinality(below(n)) = Cardinality(below(n - 1)) + 1
  <2>1. below(n) = below(n - 1) \cup {n - 1} /\ n - 1 \notin below(n - 1)
    <3>1. ~(n - 1 < n - 1)
      BY <1>3
    <3> QED
      BY <1>6, <1>7, <3>1
  <2> QED
    BY <1>1, <1>5, <2>1, FS_AddElement
<1>9. Cardinality(below(n - 1)) = j
  <2>1. /\ Cardinality(below(n)) > j /\ Cardinality(below(n)) \in Nat
        /\ Cardinality(below(n - 1)) \in Nat
    BY <1>1, <1>3, <1>5
  <2> HIDE DEF below
  <2> QED
    BY <2>1, <1>5, <1>8
<1> QED
  BY <1>7, <1>9

\* A member more is one more, a member less is one less.
LEMMA CountMembers ==
  ASSUME NEW S, IsFiniteSet(S), NEW x
  PROVE  /\ x \notin S => Cardinality(S \cup {x}) = Cardinality(S) + 1
         /\ x \in S => Cardinality(S \ {x}) = Cardinality(S) - 1
BY FS_AddElement, FS_RemoveElement

=============================================================================
