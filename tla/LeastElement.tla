---------------------------- MODULE LeastElement ----------------------------
(***************************************************************************)
(* What the proofs by induction about lists rest on: a non-empty set of    *)
(* natural numbers has a least element.  A statement that holds of n when  *)
(* it holds of every smaller number has no least counterexample.           *)
(***************************************************************************)
EXTENDS WellFoundedInduction, TLAPS

Less == {p \in Nat \X Nat : p[1] < p[2]}

\* The order of the natural numbers, as a set of pairs, is well-founded.
LEMMA LessWellFounded == IsWellFoundedOn(Less, Nat)
BY NatLessThanWellFounded DEF OpToRel, Less

\* A non-empty set of natural numbers has a least element.
THEOREM LeastNat ==
    ASSUME NEW S \in SUBSET Nat, S # {}
    PROVE  \E m \in S : \A n \in S : m <= n
<1>1. S \subseteq Nat
  OBVIOUS
<1>2. PICK m \in S : \A n \in S : ~(<<n, m>> \in Less)
  BY <1>1, LessWellFounded, WFMin
<1>3. \A n \in S : ~(n < m)
  BY <1>2 DEF Less
<1> QED  BY <1>3
=============================================================================
