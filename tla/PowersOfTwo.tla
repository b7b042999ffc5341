---------------------------- MODULE PowersOfTwo ----------------------------
(***************************************************************************)
(* Facts about powers of two that arrays of 1, 2, 4, ... locks need, from  *)
(* the size of the powerset and from the least number of a set.            *)
(***************************************************************************)
EXTENDS Integers, FiniteSets, FiniteSetTheorems, FunctionTheorems, WellFoundedInduction, TLAPS

\* The prover knows 2^n as the number of subsets of n numbers.
LEMMA PowerIsSubsets ==
  ASSUME NEW n \in Nat
  PROVE  /\ IsFiniteSet(SUBSET (1 .. n))
         /\ Cardinality(SUBSET (1 .. n)) = 2 ^ n
<1>1. IsFiniteSet(1 .. n) /\ Cardinality(1 .. n) = n
  BY FS_Interval
<1>2. QED
  BY <1>1, FS_SUBSET

\* A power of two is a positive number.
LEMMA PowerPositive ==
  ASSUME NEW n \in Nat
  PROVE  2 ^ n \in Nat \ {0}
<1>1. IsFiniteSet(SUBSET (1 .. n)) /\ Cardinality(SUBSET (1 .. n)) = 2 ^ n
  BY PowerIsSubsets
<1>2. SUBSET (1 .. n) # {} /\ Cardinality(SUBSET (1 .. n)) \in Nat
  BY <1>1, FS_CardinalityType
<1>3. QED
  BY <1>1, <1>2, FS_EmptySet

\* The first array has one lock.
LEMMA PowerZero == 2 ^ 0 = 1
<1>1. SUBSET (1 .. 0) = {{}}
  OBVIOUS
<1>2. QED
  BY <1>1, PowerIsSubsets, FS_Singleton

\* Each array is twice as long as the one before.
LEMMA PowerDoubles ==
  ASSUME NEW n \in Nat
  PROVE  2 ^ (n + 1) = 2 * 2 ^ n
<1> DEFINE Old == SUBSET (1 .. n)
           New == {T \in SUBSET (1 .. n + 1) : n + 1 \in T}
           f   == [T \in Old |-> T \cup {n + 1}]
<1>1. IsFiniteSet(Old) /\ Cardinality(Old) = 2 ^ n /\ Cardinality(Old) \in Nat
  BY PowerIsSubsets, FS_CardinalityType
<1>2. f \in Bijection(Old, New)
  <2>1. \A T \in Old : f[T] \in New
    OBVIOUS
  <2>2. \A S, T \in Old : f[S] = f[T] => S = T
    OBVIOUS
  <2>3. ASSUME NEW U \in New
        PROVE  \E T \in Old : f[T] = U
    <3>1. U \ {n + 1} \in Old
      OBVIOUS
    <3>2. f[U \ {n + 1}] = U
      BY <3>1
    <3>3. QED
      BY <3>1, <3>2
  <2>4. QED
    BY <2>1, <2>2, <2>3 DEF Bijection, Injection, Surjection, IsInjective
<1>3. IsFiniteSet(New) /\ Cardinality(New) = Cardinality(Old)
  BY <1>1, <1>2, FS_Bijection DEF ExistsBijection
<1>4. SUBSET (1 .. n + 1) = Old \cup New /\ Old \cap New = {}
  OBVIOUS
<1>5. Cardinality(Old \cup New) = Cardinality(Old) + Cardinality(New) - Cardinality(Old \cap New)
  BY <1>1, <1>3, FS_Union
<1>6. Cardinality(Old \cap New) = 0
  BY <1>4, FS_EmptySet
<1>7. Cardinality(SUBSET (1 .. n + 1)) = 2 ^ (n + 1)
  BY PowerIsSubsets
<1>8. 2 ^ (n + 1) = Cardinality(Old) + Cardinality(Old)
  <2> HIDE DEF Old, New
  <2>1. 2 ^ (n + 1) = Cardinality(Old \cup New)
    BY <1>4, <1>7, Zenon
  <2>2. QED
    BY <2>1, <1>1, <1>3, <1>5, <1>6
<1>9. QED
  <2> HIDE DEF Old
  <2>1. 2 * Cardinality(Old) = Cardinality(Old) + Cardinality(Old)
    BY <1>1
  <2>2. QED
    BY <2>1, <1>1, <1>8, Zenon

\* A set of numbers has a least one: induction, without an operator to instantiate.
LEMMA LeastNumber ==
  ASSUME NEW S \in SUBSET Nat, S # {}
  PROVE  \E m \in S : \A k \in S : m <= k
<1> DEFINE R == OpToRel(<, Nat)
<1>1. R = {p \in Nat \X Nat : p[1] < p[2]}
  BY DEF OpToRel
<1>2. IsWellFoundedOn(R, Nat)
  BY NatLessThanWellFounded
<1> HIDE DEF R
<1>3. PICK m \in S : \A k \in S : ~(<<k, m>> \in R)
  BY <1>2, WFMin
<1>4. ASSUME NEW k \in S PROVE m <= k
  <2>1. <<k, m>> \notin R /\ k \in Nat /\ m \in Nat
    BY <1>3
  <2>2. QED
    BY <1>1, <2>1
<1>5. QED
  BY <1>4

\* A table of any size has its last bucket in some array.
LEMMA PowerExceeds ==
  ASSUME NEW n \in Nat
  PROVE  n < 2 ^ n
<1> DEFINE S == {m \in Nat : 2 ^ m <= m}
<1>1. CASE S = {}
  BY <1>1, PowerPositive
<1>2. CASE S # {}
  <2>1. PICK m \in S : \A k \in S : m <= k
    BY <1>2, LeastNumber
  <2>2. m \in Nat \ {0} /\ 2 ^ m <= m
    <3>1. m \in Nat /\ 2 ^ m <= m
      BY <2>1
    <3>2. ~(2 ^ 0 <= 0)
      BY PowerZero
    <3>3. m # 0
      BY <3>1, <3>2
    <3>4. QED
      BY <3>1, <3>3
  <2>3. m - 1 \in Nat /\ m - 1 \notin S
    BY <2>1, <2>2
  <2>4. 2 ^ (m - 1) \in Nat /\ 2 ^ (m - 1) > m - 1
    BY <2>3, PowerPositive
  <2>5. 2 ^ ((m - 1) + 1) = 2 * 2 ^ (m - 1)
    BY <2>3, PowerDoubles
  <2>6. (m - 1) + 1 = m
    BY <2>2
  <2>7. 2 ^ m = 2 * 2 ^ (m - 1)
    BY <2>5, <2>6
  <2> DEFINE p == 2 ^ (m - 1)
             q == 2 ^ m
  <2>8. p \in Nat /\ p > m - 1 /\ q = 2 * p /\ q <= m /\ m \in Nat \ {0}
    BY <2>2, <2>4, <2>7
  <2> HIDE DEF p, q
  <2>9. QED
    BY <2>8
<1>3. QED
  BY <1>1, <1>2

\* The places of an array end before those of the next.
LEMMA PowerGrows ==
  ASSUME NEW a \in Nat, NEW b \in Nat, a < b
  PROVE  2 ^ (a + 1) <= 2 ^ b
<1> DEFINE S == {m \in Nat : a < m /\ ~(2 ^ (a + 1) <= 2 ^ m)}
<1>1. SUFFICES ASSUME S # {} PROVE FALSE
  OBVIOUS
<1>2. PICK m \in S : \A k \in S : m <= k
  BY <1>1, LeastNumber
<1>3. m \in Nat /\ a < m /\ ~(2 ^ (a + 1) <= 2 ^ m)
  BY <1>2
<1>4. 2 ^ (a + 1) \in Nat /\ 2 ^ m \in Nat
  BY <1>3, PowerPositive
<1>5. m # a + 1
  BY <1>3, <1>4
<1>6. m - 1 \in Nat /\ a < m - 1 /\ m - 1 \notin S
  BY <1>2, <1>3, <1>5
<1>7. 2 ^ (a + 1) <= 2 ^ (m - 1) /\ 2 ^ (m - 1) \in Nat
  BY <1>6, PowerPositive
<1>8. 2 ^ ((m - 1) + 1) = 2 * 2 ^ (m - 1) /\ (m - 1) + 1 = m
  BY <1>3, <1>6, PowerDoubles
<1>9. 2 ^ m = 2 * 2 ^ (m - 1)
  BY <1>8
<1> DEFINE p == 2 ^ (m - 1)
           q == 2 ^ m
           r == 2 ^ (a + 1)
<1>10. p \in Nat /\ q = 2 * p /\ r <= p /\ r \in Nat /\ ~(r <= q)
  BY <1>3, <1>4, <1>7, <1>9
<1> HIDE DEF p, q, r
<1>11. QED
  BY <1>10
=============================================================================
