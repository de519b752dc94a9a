----------------------------- MODULE DataLemmas -----------------------------
(***************************************************************************)
(* Facts about numbers and finite sets that the proofs of several modules  *)
(* need.  Induction is done over a set of numbers: the least number that   *)
(* is not in it is the counterexample.                                     *)
(***************************************************************************)
EXTENDS Naturals, FiniteSets, WellFoundedInduction, TLAPS

\* A set of naturals that is not empty has a least element.
LEMMA LeastOf ==
    ASSUME NEW S, S \subseteq Nat, S # {}
    PROVE  \E n \in S : \A m \in S : n <= m
  <1>1. PICK n \in S : \A m \in S : ~(<<m, n>> \in OpToRel(<, Nat))
    BY NatLessThanWellFounded, WFMin
  <1>2. \A m \in S : ~(m < n)
    BY <1>1 DEF OpToRel
  <1> QED BY <1>2

\* A bounded one has a greatest element: at the least distance of its bound.
LEMMA GreatestOf ==
    ASSUME NEW top \in Nat, NEW S, S \subseteq 0..top, S # {}
    PROVE  \E n \in S : \A m \in S : m <= n
  <1> DEFINE D == {d \in Nat : \E m \in S : d + m = top}
  <1>1. \A m \in S : m \in Nat /\ top - m \in D
    OBVIOUS
  <1>2. D \subseteq Nat /\ D # {}
    BY <1>1
  <1>3. PICK d \in D : \A e \in D : d <= e
    <2> HIDE DEF D
    <2> QED BY <1>2, LeastOf
  <1>4. PICK n \in S : d + n = top
    OBVIOUS
  <1>5. ASSUME NEW m \in S PROVE m <= n
    BY <1>1, <1>3, <1>4
  <1> QED BY <1>5

\* Induction, over a set.
LEMMA SetInduction ==
    ASSUME NEW S, 0 \in S, \A n \in Nat : n \in S => n + 1 \in S
    PROVE  Nat \subseteq S
  <1> SUFFICES ASSUME Nat \ S # {} PROVE FALSE
    OBVIOUS
  <1>1. PICK n \in Nat \ S : \A m \in Nat \ S : n <= m
    BY LeastOf
  <1>2. n - 1 \in Nat /\ n - 1 \in S
    BY <1>1
  <1> QED BY <1>1, <1>2

=============================================================================
