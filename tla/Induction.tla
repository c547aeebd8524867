----------------------------- MODULE Induction -----------------------------
(***************************************************************************)
(* Least and greatest elements of sets of naturals, and induction over a   *)
(* set: what the proofs about CHOOSE of a first or last element and about  *)
(* recursive functions rest on.  The library's principles of induction     *)
(* take a predicate as a parameter; here the predicate is a set.           *)
(***************************************************************************)
EXTENDS Integers, WellFoundedInduction, TLAPS

(* A set of naturals has a least element.                                  *)
LEMMA LeastOf ==
    ASSUME NEW T, T \subseteq Nat, T # {}
    PROVE  \E x \in T : \A y \in T : x <= y
<1> DEFINE R == OpToRel(<, Nat)
<1>1. IsWellFoundedOn(R, Nat)
  BY NatLessThanWellFounded
<1>2. \A a, b \in Nat : b < a => <<b, a>> \in R
  BY DEF OpToRel
<1> HIDE DEF R
<1>3. PICK x \in T : \A y \in T : ~(<<y, x>> \in R)
  BY <1>1, WFMin
<1>4. x \in Nat
  OBVIOUS
<1>5. ASSUME NEW y \in T PROVE x <= y
  <2>1. y \in Nat
    OBVIOUS
  <2>2. ~(y < x)
    BY <1>2, <1>3, <1>4, <2>1
  <2> QED BY <2>1, <2>2, <1>4
<1> QED BY <1>5

(* A set of naturals up to n has a greatest element.                       *)
LEMMA GreatestOf ==
    ASSUME NEW n \in Nat, NEW T, T \subseteq 0..n, T # {}
    PROVE  \E x \in T : \A y \in T : y <= x
<1> DEFINE U == {m \in Nat : \A y \in T : y <= m}
<1>1. n \in U
  OBVIOUS
<1>2. PICK u \in U : \A v \in U : u <= v
  <2> HIDE DEF U
  <2>1. U \subseteq Nat
    BY DEF U
  <2> QED BY <1>1, <2>1, LeastOf
<1>3. u \in Nat /\ \A y \in T : y <= u /\ y \in Nat
  OBVIOUS
<1>4. u \in T
  <2> SUFFICES ASSUME u \notin T PROVE FALSE
    OBVIOUS
  <2>1. PICK y \in T : TRUE
    OBVIOUS
  <2>2. u > 0 /\ u - 1 \in Nat
    BY <1>3, <2>1
  <2>3. \A z \in T : z <= u - 1
    BY <1>3
  <2>4. u - 1 \in U
    BY <2>2, <2>3
  <2>5. u <= u - 1
    BY <1>2, <2>4
  <2> QED BY <2>2, <2>5
<1> QED BY <1>3, <1>4

(* Induction: a set with 0 and every successor holds every natural.        *)
LEMMA SetInduction ==
    ASSUME NEW S, 0 \in S, \A n \in Nat : n \in S => n + 1 \in S
    PROVE  Nat \subseteq S
<1> SUFFICES ASSUME ~(Nat \subseteq S) PROVE FALSE
  OBVIOUS
<1> DEFINE T == Nat \ S
<1> HIDE DEF T
<1>1. PICK x \in T : \A y \in T : x <= y
  BY LeastOf DEF T
<1>2. x \in Nat /\ x \notin S
  BY DEF T
<1>3. x # 0
  BY <1>2
<1>4. x - 1 \in Nat
  BY <1>2, <1>3
<1>5. x - 1 \in S
  <2>1. CASE x - 1 \in T
    BY <2>1, <1>1, <1>2
  <2> QED BY <2>1, <1>4 DEF T
<1>6. (x - 1) + 1 \in S
  BY <1>4, <1>5
<1>7. (x - 1) + 1 = x
  BY <1>2
<1> QED BY <1>2, <1>6, <1>7
=============================================================================
