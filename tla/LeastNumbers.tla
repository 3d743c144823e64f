------------------------------ MODULE LeastNumbers ------------------------------
(***************************************************************************)
(* Induction for the proofs about loops: a set of natural numbers has a    *)
(* least member, so one that has 0 and every successor has them all.  What *)
(* a loop computes is stated as such a set.                                *)
(***************************************************************************)
EXTENDS Naturals, Sequences, WellFoundedInduction, TLAPS

NatOrder == OpToRel(<, Nat)

LEMMA SmallerRelated ==
    ASSUME NEW x \in Nat, NEW y \in Nat, y < x
    PROVE  <<y, x>> \in NatOrder
  BY DEF NatOrder, OpToRel

LEMMA LeastOf ==
    ASSUME NEW S \in SUBSET Nat, S # {}
    PROVE  \E x \in S : \A y \in S : x <= y
  <1>1. PICK x \in S : \A y \in S : ~(<<y, x>> \in NatOrder)
    BY NatLessThanWellFounded, WFMin, Zenon DEF NatOrder
  <1>2. \A y \in S : ~(y < x)
    BY <1>1, SmallerRelated
  <1> QED
    BY <1>2

LEMMA GreatestOf ==
    ASSUME NEW n \in Nat, NEW S \in SUBSET (0..n), S # {}
    PROVE  \E x \in S : \A y \in S : x >= y
  <1> DEFINE T == {n - y : y \in S}
  <1>1. T \in SUBSET Nat /\ T # {}
    <2>1. \A y \in S : n - y \in Nat
      OBVIOUS
    <2> QED
      BY <2>1
  <1>2. PICK z \in T : \A w \in T : z <= w
    BY <1>1, LeastOf
  <1>3. PICK x \in S : z = n - x
    OBVIOUS
  <1>4. \A y \in S : x >= y
    <2> TAKE y \in S
    <2>1. n - y \in T /\ x \in 0..n /\ y \in 0..n
      OBVIOUS
    <2> HIDE DEF T
    <2> QED
      BY <1>2, <1>3, <2>1
  <1> QED
    BY <1>4

LEMMA StepByStep ==
    ASSUME NEW S \in SUBSET Nat, 0 \in S, \A n \in S : n + 1 \in S
    PROVE  \A n \in Nat : n \in S
  <1> SUFFICES ASSUME Nat \ S # {} PROVE FALSE
    OBVIOUS
  <1>1. PICK x \in Nat \ S : \A y \in Nat \ S : x <= y
    BY LeastOf
  <1>2. x - 1 \in Nat /\ ~(x <= x - 1)
    BY <1>1
  <1>3. x - 1 \in S
    BY <1>1, <1>2
  <1>4. x - 1 + 1 = x
    BY <1>1
  <1> QED
    BY <1>1, <1>3, <1>4

(* A function on the first n numbers is a sequence. *)
LEMMA ListIsSeq ==
    ASSUME NEW S, NEW n \in Nat, NEW o \in [1..n -> S]
    PROVE  o \in Seq(S) /\ Len(o) = n
  OBVIOUS
=============================================================================
