---------------------------- MODULE NaturalOrder ----------------------------
(***************************************************************************)
(* Least and greatest elements of sets of natural numbers, for the proofs  *)
(* about what the code searches for in a table or in a program.            *)
(***************************************************************************)
EXTENDS Integers, TLAPS, WellFoundedInduction

\* A non-empty set of natural numbers has a least element.
LEMMA LeastElement ==
    ASSUME NEW S \in SUBSET Nat, S # {}
    PROVE  \E n \in S : \A m \in S : n <= m
<1> DEFINE R == OpToRel(<, Nat)
<1>1. IsWellFoundedOn(R, Nat)
  BY NatLessThanWellFounded, Zenon
<1>2. \A i, j \in Nat : i < j => <<i, j>> \in R
  BY Zenon DEF OpToRel
<1> HIDE DEF R
<1>3. PICK n \in S : \A m \in S : ~(<<m, n>> \in R)
  BY <1>1, WFMin, Zenon
<1>4. ASSUME NEW m \in S PROVE n <= m
  <2>1. n \in Nat /\ m \in Nat
    BY Zenon
  <2>2. ~(m < n)
    BY <1>2, <1>3, <2>1, Zenon
  <2> QED
    BY <2>1, <2>2
<1> QED
  BY <1>4, Zenon

\* A non-empty set of natural numbers below a bound has a greatest element.
LEMMA GreatestElement ==
    ASSUME NEW b \in Nat, NEW S \in SUBSET (0 .. b), S # {}
    PROVE  \E n \in S : \A m \in S : m <= n
<1> DEFINE Above == {n \in Nat : \A m \in S : m <= n}
<1>1. Above \in SUBSET Nat /\ b \in Above
  OBVIOUS
<1>2. PICK n \in Above : \A m \in Above : n <= m
  BY <1>1, LeastElement, Zenon
<1>3. n \in S
  <2> SUFFICES ASSUME n \notin S PROVE FALSE
    BY Zenon
  <2>1. \A m \in S : m \in Nat /\ m < n
    OBVIOUS
  <2>2. PICK m \in S : m \in 0 .. b
    BY Zenon
  <2>3. n > 0
    BY <2>1, <2>2
  <2>4. n - 1 \in Nat /\ \A l \in S : l <= n - 1
    BY <2>1, <2>3
  <2>5. n - 1 \in Above
    BY <2>4, Zenon
  <2> QED
    BY <1>2, <2>5
<1> QED
  BY <1>3, Zenon

\* A set of natural numbers that is closed under predecessors and has an element
\* without its successor is an initial segment.
LEMMA InitialSegment ==
    ASSUME NEW D \in SUBSET Nat, \A i \in D : i > 0 => i - 1 \in D,
           NEW last \in D, last + 1 \notin D
    PROVE  D = 0 .. last
<1>1. ASSUME NEW n \in D, NEW j \in 0 .. n, j \notin D PROVE FALSE
  <2> DEFINE Later == {k \in D : k > j}
  <2>1. n \in Nat /\ j \in Nat /\ j <= n /\ n # j
    BY <1>1
  <2>2. n > j
    BY <2>1
  <2>3. Later \in SUBSET Nat /\ n \in Later
    BY <2>2, Zenon
  <2>4. PICK m \in Later : \A k \in Later : m <= k
    BY <2>3, LeastElement, Zenon
  <2>5. m \in Nat /\ m > j /\ m - 1 \in D
    BY <2>1
  <2>6. m - 1 # j
    BY <1>1, <2>5, Zenon
  <2>7. m - 1 \in Later
    BY <2>1, <2>5, <2>6
  <2> QED
    BY <2>4, <2>5, <2>7
<1>2. \A k \in D : k <= last
  <2> SUFFICES ASSUME NEW k \in D, k > last PROVE FALSE
    OBVIOUS
  <2>1. last + 1 \in 0 .. k
    OBVIOUS
  <2> QED
    BY <1>1, <2>1, Zenon
<1>3. \A j \in 0 .. last : j \in D
  BY <1>1, Zenon
<1>4. \A k \in D : k \in 0 .. last
  BY <1>2
<1> QED
  BY <1>3, <1>4, Zenon

=============================================================================
