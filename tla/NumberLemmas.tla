---------------------------- MODULE NumberLemmas ----------------------------
(***************************************************************************)
(* Lemmas about the least and the greatest of a set of numbers, which the  *)
(* proofs of several modules cite.                                         *)
(***************************************************************************)
EXTENDS Integers, FiniteSetsExt, FiniteSetTheorems, WellFoundedInduction, TLAPS

(* Least and greatest numbers.  That a set of numbers has a least one also *)
(* stands for induction where it is cited.                                 *)

LEMMA NatMin ==
  ASSUME NEW T, T \subseteq Nat, T # {}
  PROVE  \E x \in T : \A y \in T : x <= y
<1> DEFINE Less == {pair \in Nat \X Nat : pair[1] < pair[2]}
<1>1. IsWellFoundedOn(Less, Nat)
  BY NatLessThanWellFounded, Zenon DEF OpToRel
<1>2. \A x, y \in Nat : x < y => <<x, y>> \in Less
  OBVIOUS
<1> HIDE DEF Less
<1>3. PICK x \in T : \A y \in T : <<y, x>> \notin Less
  BY <1>1, WFMin
<1>4. ASSUME NEW y \in T PROVE x <= y
  <2>1. x \in Nat /\ y \in Nat
    OBVIOUS
  <2>2. ~(y < x)
    BY <2>1, <1>2, <1>3
  <2> QED BY <2>1, <2>2
<1> QED BY <1>4

LEMMA MinOfNats ==
  ASSUME NEW S, S \subseteq Nat, S # {}
  PROVE  Min(S) \in S /\ \A y \in S : Min(S) <= y
BY NatMin DEF Min

LEMMA MaxOfInts ==
  ASSUME NEW n \in Int, NEW S, S \subseteq Int, S # {}, \A y \in S : y <= n
  PROVE  Max(S) \in S /\ \A y \in S : Max(S) >= y
<1> DEFINE T == {n - y : y \in S}
<1>0. \A y \in S : y \in Int /\ n - y \in Nat
  OBVIOUS
<1>1. T \subseteq Nat /\ T # {}
  BY <1>0
<1>2. PICK z \in T : \A t \in T : z <= t
  <2> HIDE DEF T
  <2> QED BY <1>1, NatMin
<1>3. PICK x \in S : z = n - x
  OBVIOUS
<1>4. ASSUME NEW y \in S PROVE x >= y
  <2>1. n - y \in T
    OBVIOUS
  <2>2. n - x <= n - y
    BY <2>1, <1>2, <1>3
  <2> QED BY <2>2, <1>0
<1> QED BY <1>3, <1>4 DEF Max

LEMMA MaxOfBounded ==
  ASSUME NEW n \in Nat, NEW S, S \subseteq 0 .. n, S # {}
  PROVE  Max(S) \in S /\ \A y \in S : Max(S) >= y
<1>1. n \in Int /\ S \subseteq Int /\ \A y \in S : y <= n
  OBVIOUS
<1> QED BY ONLY <1>1, S # {}, MaxOfInts

LEMMA MinOfInts ==
  ASSUME NEW S, S \subseteq Int, IsFiniteSet(S), S # {}
  PROVE  Min(S) \in S /\ \A y \in S : Min(S) <= y
<1> DEFINE NoMin(X) == ~\E x \in X : \A y \in X : x <= y
           T == {Cardinality(X) : X \in {X \in SUBSET S : X # {} /\ NoMin(X)}}
<1>1. T = {}
  <2> SUFFICES ASSUME T # {} PROVE FALSE
    OBVIOUS
  <2>1. \A X \in SUBSET S : IsFiniteSet(X) /\ Cardinality(X) \in Nat
    BY FS_Subset, FS_CardinalityType
  <2>2. PICK c \in T : \A d \in T : c <= d
    BY <2>1, NatMin
  <2>3. PICK X \in SUBSET S : X # {} /\ NoMin(X) /\ c = Cardinality(X)
    OBVIOUS
  <2>4. PICK x \in X : TRUE
    BY <2>3
  <2>5. Cardinality(X \ {x}) = c - 1 /\ c \in Nat
    BY <2>1, <2>3, <2>4, FS_RemoveElement
  <2>6. CASE X \ {x} = {}
    <3>1. X = {x} /\ x \in Int
      BY <2>6, <2>4
    <3> QED BY <3>1, <2>3
  <2>7. CASE X \ {x} # {}
    <3>1. PICK w \in X \ {x} : \A y \in X \ {x} : w <= y
      BY <2>2, <2>5, <2>7
    <3>2. w \in Int /\ x \in Int /\ \A y \in X : y \in Int
      BY <2>4
    <3>3. \E z \in X : \A y \in X : z <= y
      <4>1. CASE w <= x
        BY <4>1, <3>1, <3>2
      <4>2. CASE x < w
        BY <4>2, <3>1, <3>2, <2>4
      <4> QED BY <4>1, <4>2, <3>2
    <3> QED BY <3>3, <2>3
  <2> QED BY <2>6, <2>7
<1>2. Cardinality(S) \notin T
  BY <1>1
<1>3. \E x \in S : \A y \in S : x <= y
  BY <1>2
<1> QED BY <1>3 DEF Min
=============================================================================
