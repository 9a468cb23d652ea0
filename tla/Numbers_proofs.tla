--------------------------- MODULE Numbers_proofs ---------------------------
(***************************************************************************)
(* Lemmas about numbers that the proofs of several components need.        *)
(***************************************************************************)
EXTENDS Integers, FiniteSetTheorems, WellFoundedInduction, TLAPS

(* A set of natural numbers that is not empty has a least element.         *)
LEMMA LeastNumber ==
  ASSUME NEW S \in SUBSET Nat, NEW s \in S
  PROVE  \E n \in S : \A m \in S : n <= m
<1> DEFINE T == {0..n : n \in {i \in S : i <= s}}
           R == StrictSubsetOrdering(0..s)
<1>1. IsWellFoundedOn(R, SUBSET (0..s))
  <2>1. IsFiniteSet(0..s)
    BY FS_Interval
  <2>2. IsWellFoundedOn(R, FiniteSubsetsOf(0..s))
    BY FS_StrictSubsetOrderingWellFounded, Zenon
  <2> QED BY <2>1, <2>2, FS_FiniteSubsetsOfFinite
<1>2. T \subseteq SUBSET (0..s) /\ T # {}
  OBVIOUS
<1>3. \E x \in T : \A y \in T : ~ (<<y, x>> \in R)
  <2>1. \A Q, D, U : IsWellFoundedOn(Q, D) /\ U \subseteq D /\ U # {} =>
          \E x \in U : \A y \in U : ~ (<<y, x>> \in Q)
    BY WFMin, Zenon
  <2> HIDE DEF T, R
  <2> QED BY <1>1, <1>2, <2>1
<1>4. PICK x \in T : \A y \in T : ~ (<<y, x>> \in R)
  BY <1>3
<1>5. PICK n \in S : n <= s /\ x = 0..n
  OBVIOUS
<1>6. ASSUME NEW m \in S, ~(n <= m) PROVE FALSE
  <2>1. 0..m \in T /\ 0..m # 0..n /\ 0..m \subseteq 0..n
    BY <1>5, <1>6
  <2>2. <<0..m, x>> \in R
    BY <2>1, <1>5, <1>2 DEF StrictSubsetOrdering
  <2> QED BY <2>1, <2>2, <1>4
<1> QED BY <1>5, <1>6

(* From any place of a circle one comes to any other.                      *)
LEMMA Around ==
  ASSUME NEW n \in Nat \ {0}, NEW c \in 0..(n - 1), NEW l \in 0..(n - 1)
  PROVE  \E d \in 0..(n - 1) : (c + d) % n = l
<1>1. CASE l >= c
  <2>1. l - c \in 0..(n - 1) /\ c + (l - c) = l /\ l % n = l
    BY <1>1
  <2> QED BY <2>1
<1>2. CASE l < c
  <2>1. l + n - c \in 0..(n - 1) /\ c + (l + n - c) = l + n
    BY <1>2
  <2>2. (l + n) % n = l
    OBVIOUS
  <2> QED BY <2>1, <2>2
<1> QED BY <1>1, <1>2

(* Induction up to a number, over a set instead of a predicate.            *)
LEMMA CountUp ==
  ASSUME NEW n \in Nat, NEW S, 0 \in S,
         \A i \in 0..(n - 1) : i \in S => i + 1 \in S
  PROVE  0..n \subseteq S
<1> DEFINE Missing == {i \in 0..n : i \notin S}
<1> SUFFICES ASSUME NEW j \in Missing PROVE FALSE
  OBVIOUS
<1>1. PICK i \in Missing : \A m \in Missing : i <= m
  <2>1. Missing \in SUBSET Nat
    OBVIOUS
  <2> HIDE DEF Missing
  <2> QED BY <2>1, LeastNumber
<1>2. i # 0 /\ i - 1 \in 0..(n - 1) /\ i - 1 \notin Missing
  BY <1>1
<1>3. (i - 1) + 1 \in S
  BY <1>2
<1> QED BY <1>1, <1>3
=============================================================================
