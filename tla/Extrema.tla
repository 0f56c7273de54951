------------------------------- MODULE Extrema --------------------------------
(***************************************************************************)
(* Row numbers are drawn from 1, 2, 3, ...: the newest of some rows        *)
(* exists, and so does the least of some numbers.                          *)
(***************************************************************************)
EXTENDS Integers, TLAPS, WellFoundedInduction

(***************************************************************************)
(* A non-empty set of natural numbers has a least element: the induction   *)
(* of the proofs that need one is on a least counterexample.               *)
(***************************************************************************)
LEMMA LeastExists ==
    ASSUME NEW T \in SUBSET Nat, T # {}
    PROVE  \E m \in T : \A j \in T : m <= j
<1> DEFINE R == {ss \in Nat \X Nat : ss[1] < ss[2]}
<1>1. IsWellFoundedOn(R, Nat)
  BY NatLessThanWellFounded DEF OpToRel
<1>2. PICK x \in T : \A y \in T : <<y, x>> \notin R
  <2> HIDE DEF R
  <2> QED BY <1>1, WFMin
<1>3. ASSUME NEW j \in T PROVE x <= j
  <2>1. j \in Nat /\ x \in Nat
    OBVIOUS
  <2>2. <<j, x>> \in R <=> j < x
    BY <2>1
  <2>3. ~(j < x)
    BY <1>2, <2>2
  <2> HIDE DEF R
  <2> QED BY <2>1, <2>3
<1> QED BY <1>3

(***************************************************************************)
(* A non-empty set of row numbers has a greatest element, so a query       *)
(* ordered by id, newest first, answers with a row whenever there is one.  *)
(***************************************************************************)
LEMMA MaximumExists ==
    ASSUME NEW n \in Nat, NEW S \in SUBSET (1..n), S # {}
    PROVE  \E m \in S : \A j \in S : j <= m
<1> DEFINE T == {n - i : i \in S}
<1>1. T \in SUBSET Nat /\ T # {}
  <2>1. \E i \in S : n - i \in T
    OBVIOUS
  <2>2. \A x \in T : x \in Nat
    OBVIOUS
  <2> QED BY <2>1, <2>2
<1>2. PICK x \in T : \A y \in T : x <= y
  <2> HIDE DEF T
  <2> QED BY <1>1, LeastExists
<1>3. PICK m \in S : x = n - m
  BY <1>2
<1>4. ASSUME NEW j \in S PROVE j <= m
  <2>1. n - j \in T
    OBVIOUS
  <2>2. n - m <= n - j
    BY <1>2, <1>3, <2>1
  <2>3. j \in Int /\ m \in Int
    OBVIOUS
  <2> QED BY <2>2, <2>3
<1> QED BY <1>4
=============================================================================
