--------------------------- MODULE NaturalLemmas ---------------------------
(***************************************************************************)
(* Induction over naturals, stated of sets so that a proof can use it.     *)
(***************************************************************************)
EXTENDS Naturals, WellFoundedInduction, TLAPS

(* A set of naturals that is not empty has a least member, and one with 0 *)
(* and every successor of a member is Nat.                                 *)
LEMMA SetInduction ==
  ASSUME NEW T \in SUBSET Nat
  PROVE  /\ T # {} => \E x \in T : \A y \in T : x <= y
         /\ 0 \in T /\ (\A n \in T : n + 1 \in T) => T = Nat
<1> DEFINE Below == {p \in Nat \X Nat : p[1] < p[2]}
<1>1. IsWellFoundedOn(Below, Nat)
  <2>1. OpToRel(<, Nat) = Below
    BY DEF OpToRel
  <2> QED BY <2>1, NatLessThanWellFounded
<1>2. ASSUME NEW S \in SUBSET Nat, S # {}
      PROVE  \E x \in S : \A y \in S : x <= y
  <2>1. PICK x \in S : \A y \in S : <<y, x>> \notin Below
    <3> HIDE DEF Below
    <3> QED BY <1>1, <1>2, WFMin
  <2>2. ASSUME NEW y \in S PROVE x <= y
    <3>1. y \in Nat /\ x \in Nat
      OBVIOUS
    <3>2. ~ (y < x)
      BY <2>1, <3>1
    <3> QED BY <3>1, <3>2
  <2> QED BY <2>2
<1> HIDE DEF Below
<1>3. ASSUME 0 \in T, \A n \in T : n + 1 \in T, T # Nat PROVE FALSE
  <2>1. PICK x \in Nat \ T : \A y \in Nat \ T : x <= y
    <3>1. Nat \ T # {}
      BY <1>3
    <3> QED BY <1>2, <3>1
  <2>2. x - 1 \in Nat
    BY <1>3, <2>1
  <2>3. x - 1 \in T
    BY <2>1, <2>2
  <2> QED BY <1>3, <2>1, <2>2, <2>3
<1> QED
  BY <1>2, <1>3
=============================================================================
