--------------------------- MODULE Extrema_proofs ---------------------------
(***************************************************************************)
(* What the proofs of the drivers need of the natural numbers beyond       *)
(* arithmetic: least and greatest elements of sets, on which the loops     *)
(* that search an array and the minima over timers rest.                   *)
(***************************************************************************)
EXTENDS Integers, WellFoundedInduction, TLAPS

\* A set of natural numbers that is not empty has a least element: the first
\* index at which a search loop stops.
LEMMA LeastElement ==
  ASSUME NEW T \in SUBSET Nat, T # {}
  PROVE  \E m \in T : \A k \in T : m <= k
<1> DEFINE R == OpToRel(<, Nat)
<1>1. IsWellFoundedOn(R, Nat)
  BY NatLessThanWellFounded
<1>2. \A x, y \in Nat : x < y => <<x, y>> \in R
  BY DEF OpToRel
<1> HIDE DEF R
<1>3. \E x \in T : \A y \in T : ~ (<<y, x>> \in R)
  BY <1>1, WFMin, Zenon
<1>4. PICK x \in T : \A y \in T : ~ (<<y, x>> \in R)
  BY <1>3
<1>5. \A y \in T : ~ (y < x)
  BY <1>2, <1>4, Zenon
<1> QED  BY <1>5

\* A bounded set of natural numbers that is not empty has a greatest element.
LEMMA GreatestElement ==
  ASSUME NEW T \in SUBSET Nat, T # {}, NEW b \in Nat, \A k \in T : k <= b
  PROVE  \E m \in T : \A k \in T : k <= m
<1> DEFINE U == {n \in Nat : b - n \in T}
<1>1. \A k \in T : b - k \in U
  <2> TAKE k \in T
  <2>1. b - k \in Nat /\ b - (b - k) = k
    OBVIOUS
  <2> QED  BY <2>1
<1>2. PICK m \in U : \A k \in U : m <= k
  BY <1>1, LeastElement
<1>3. b - m \in T /\ \A k \in T : k <= b - m
  BY <1>1, <1>2
<1> QED  BY <1>3
=============================================================================
