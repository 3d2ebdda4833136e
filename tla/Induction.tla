----------------------------- MODULE Induction -----------------------------
(***************************************************************************)
(* Induction over the natural numbers, in the form that needs no predicate *)
(* as a parameter: a set of numbers that is not empty has a least element. *)
(* A proof by induction takes the least number for which its claim fails.  *)
(***************************************************************************)
EXTENDS Naturals, WellFoundedInduction, TLAPS

Less == {pair \in Nat \X Nat : pair[1] < pair[2]}

LEMMA LessIsWellFounded == IsWellFoundedOn(Less, Nat)
BY NatLessThanWellFounded, Zenon DEF OpToRel, Less

(* Every set of naturals with an element has a least one. *)
LEMMA LeastNatural ==
  ASSUME NEW S \in SUBSET Nat, S # {}
  PROVE  \E n \in S : \A m \in S : n <= m
<1>1. PICK n \in S : \A m \in S : ~ (<<m, n>> \in Less)
  BY WFMin, LessIsWellFounded
<1>2. \A m \in S : ~(m < n)
  BY <1>1 DEF Less
<1> QED
  BY <1>2

(* Every bounded set of naturals with an element has a greatest one. *)
LEMMA GreatestNatural ==
  ASSUME NEW bound \in Nat, NEW S \in SUBSET (0..bound), S # {}
  PROVE  \E n \in S : \A m \in S : m <= n
<1> DEFINE Gaps == {bound - n : n \in S}
<1>0. \A n \in S : n \in Nat /\ bound - n \in Nat
  OBVIOUS
<1>1. Gaps \in SUBSET Nat /\ Gaps # {}
  BY <1>0
<1> HIDE DEF Gaps
<1>2. PICK g \in Gaps : \A h \in Gaps : g <= h
  BY <1>1, LeastNatural
<1>3. PICK n \in S : g = bound - n
  BY DEF Gaps
<1>4. ASSUME NEW m \in S PROVE m <= n
  <2>1. bound - m \in Gaps
    BY DEF Gaps
  <2>2. g <= bound - m
    BY <1>2, <2>1
  <2> QED
    BY <2>2, <1>3, <1>0
<1> QED
  BY <1>4
=============================================================================
