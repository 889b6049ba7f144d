------------------------------ MODULE NumberFacts ------------------------------
(***************************************************************************)
(* Facts about sets of natural numbers that the proofs about paging use:   *)
(* least and greatest members, and members by rank.                        *)
(***************************************************************************)
EXTENDS Integers, FiniteSets, FiniteSetTheorems, WellFoundedInduction, TLAPS

\* A set of natural numbers that is not empty has a least member.
LEMMA LeastNatural ==
  ASSUME NEW S \in SUBSET Nat, S # {}
  PROVE  \E m \in S : \A k \in S : m <= k
<1> DEFINE R == OpToRel(<, Nat)
<1>1. IsWellFoundedOn(R, Nat)
  BY NatLessThanWellFounded
<1>2. ASSUME NEW x \in Nat, NEW y \in Nat, y < x
      PROVE  <<y, x>> \in R
  BY <1>2 DEF OpToRel
<1> HIDE DEF R
<1>3. PICK x \in S : \A y \in S : ~ (<<y, x>> \in R)
  BY <1>1, WFMin
<1>4. ASSUME NEW k \in S PROVE x <= k
  <2>1. x \in Nat /\ k \in Nat /\ ~ (<<k, x>> \in R)
    BY <1>3
  <2>2. ~ (k < x)
    BY <2>1, <1>2
  <2>3. QED
    BY <2>1, <2>2
<1>5. QED
  BY <1>4

\* A bounded one has a greatest.
LEMMA GreatestNatural ==
  ASSUME NEW n \in Nat, NEW S \in SUBSET (0..n), S # {}
  PROVE  \E m \in S : \A k \in S : k <= m
<1> DEFINE T == {t \in Nat : \E k \in S : t = n - k}
<1>1. \A k \in S : n - k \in T
  OBVIOUS
<1>2. T \in SUBSET Nat /\ T # {}
  BY <1>1
<1> HIDE DEF T
<1>3. PICK t \in T : \A u \in T : t <= u
  BY <1>2, LeastNatural
<1>4. PICK m \in S : t = n - m
  BY <1>3 DEF T
<1>5. ASSUME NEW k \in S PROVE k <= m
  <2>1. t <= n - k
    BY <1>1, <1>3
  <2>2. QED
    BY <2>1, <1>4
<1>6. QED
  BY <1>5

Below(S, r) == {o \in S : o < r}

LEMMA BelowFinite ==
  ASSUME NEW S, IsFiniteSet(S), NEW r
  PROVE  IsFiniteSet(Below(S, r)) /\ Cardinality(Below(S, r)) \in Nat /\ Below(S, r) \in SUBSET S
<1>1. Below(S, r) \in SUBSET S
  BY DEF Below
<1>2. IsFiniteSet(Below(S, r))
  BY <1>1, FS_Subset
<1>3. QED
  BY <1>1, <1>2, FS_CardinalityType

\* The greatest of a set has all others below it.
LEMMA BelowGreatest ==
  ASSUME NEW T \in SUBSET Nat, IsFiniteSet(T), NEW g \in T, \A k \in T : k <= g
  PROVE  Below(T, g) = T \ {g} /\ Cardinality(Below(T, g)) = Cardinality(T) - 1
<1>1. \A k \in T : k \in Nat /\ g \in Nat /\ (k < g <=> k # g)
  OBVIOUS
<1>2. Below(T, g) = T \ {g}
  BY <1>1 DEF Below
<1>3. QED
  BY <1>2, FS_RemoveElement

\* With more than n members a set of them has one with exactly n below it.
LEMMA MemberOfRank ==
  ASSUME NEW top \in Nat, NEW S \in SUBSET (0..top), NEW n \in Nat, n < Cardinality(S)
  PROVE  \E r \in S : Cardinality(Below(S, r)) = n
<1>1. IsFiniteSet(0..top)
  BY FS_Interval
<1>2. IsFiniteSet(S) /\ Cardinality(S) \in Nat /\ S \in SUBSET Nat
  <2>1. IsFiniteSet(S)
    BY <1>1, FS_Subset
  <2>2. Cardinality(S) \in Nat
    BY <2>1, FS_CardinalityType
  <2>3. S \in SUBSET Nat
    OBVIOUS
  <2>4. QED
    BY <2>1, <2>2, <2>3
<1>3. \A r \in S : /\ IsFiniteSet(Below(S, r)) /\ Cardinality(Below(S, r)) \in Nat
                   /\ Below(S, r) \in SUBSET S
  BY <1>2, BelowFinite
<1>4. \E r \in S : n <= Cardinality(Below(S, r))
  <2>1. S # {}
    BY FS_EmptySet
  <2>2. PICK g \in S : \A k \in S : k <= g
    BY <2>1, GreatestNatural
  <2>3. Cardinality(Below(S, g)) = Cardinality(S) - 1
    BY <1>2, <2>2, BelowGreatest
  <2>4. n <= Cardinality(Below(S, g))
    BY <1>2, <2>3
  <2>5. QED
    BY <2>4
<1> DEFINE T == {r \in S : n <= Cardinality(Below(S, r))}
<1>5. T \in SUBSET Nat /\ T # {}
  BY <1>2, <1>4
<1>6. PICK r \in T : \A k \in T : r <= k
  <2> HIDE DEF T
  <2>1. QED
    BY <1>5, LeastNatural
<1>7. r \in S /\ n <= Cardinality(Below(S, r)) /\ r \in Nat
  BY <1>2, <1>6
<1>8. SUFFICES ASSUME Cardinality(Below(S, r)) # n PROVE FALSE
  BY <1>7
<1>9. n < Cardinality(Below(S, r))
  BY <1>3, <1>7, <1>8
<1>10. Below(S, r) # {}
  BY <1>9, FS_EmptySet
<1>11. Below(S, r) \in SUBSET (0..top)
  BY <1>3, <1>7
<1>12. PICK p \in Below(S, r) : \A k \in Below(S, r) : k <= p
  BY <1>10, <1>11, GreatestNatural
<1>13. p \in S /\ p \in Nat /\ p < r
  BY <1>2, <1>12 DEF Below
<1>14. Below(Below(S, r), p) = Below(S, p)
  <2>1. \A k \in S : k \in Nat /\ (k < p => k < r)
    BY <1>2, <1>7, <1>13
  <2>2. QED
    BY <2>1 DEF Below
<1>15. Cardinality(Below(S, p)) = Cardinality(Below(S, r)) - 1
  <2>1. Below(S, r) \in SUBSET Nat /\ IsFiniteSet(Below(S, r))
    BY <1>2, <1>3, <1>7
  <2>2. Cardinality(Below(Below(S, r), p)) = Cardinality(Below(S, r)) - 1
    BY <1>12, <2>1, BelowGreatest
  <2>3. QED
    BY <1>14, <2>2
<1>16. n <= Cardinality(Below(S, p))
  BY <1>3, <1>7, <1>9, <1>15
<1>17. p \in T
  BY <1>13, <1>16
<1>18. r <= p
  BY <1>6, <1>17
<1>19. QED
  BY <1>7, <1>13, <1>18

=============================================================================
