---------------------------- MODULE OrderLemmas ----------------------------
(***************************************************************************)
(* Facts about least and greatest elements that the proofs of this project *)
(* share.  They are stated for sets and relations that are sets, and rest  *)
(* on one library fact: strict inclusion is well-founded on finite sets.   *)
(***************************************************************************)
EXTENDS Integers, FiniteSetTheorems, TLAPS

\* Every nonempty family of finite sets has a member that includes no other.
LEMMA MinimalSet ==
    ASSUME NEW F, F # {}, \A s \in F : IsFiniteSet(s)
    PROVE  \E s \in F : \A r \in F : r \subseteq s => r = s
<1> DEFINE U == UNION F
           R == StrictSubsetOrdering(U)
<1>1. IsWellFoundedOn(R, FiniteSubsetsOf(U))
  BY FS_StrictSubsetOrderingWellFounded
<1>2. F \subseteq FiniteSubsetsOf(U)
  BY DEF FiniteSubsetsOf
<1>3. PICK s \in F : \A r \in F : ~ (<<r, s>> \in R)
  <2> HIDE DEF R, U
  <2> QED BY <1>1, <1>2, WFMin
<1>4. ASSUME NEW r \in F, r \subseteq s, r # s PROVE FALSE
  <2>1. r \in SUBSET U /\ s \in SUBSET U
    OBVIOUS
  <2> QED BY <2>1, <1>3, <1>4 DEF StrictSubsetOrdering
<1> QED BY <1>4

\* A nonempty set of naturals has a least element.
LEMMA LeastNat ==
    ASSUME NEW T \in SUBSET Nat, T # {}
    PROVE  \E x \in T : \A y \in T : x <= y
<1> DEFINE F == {0 .. x : x \in T}
<1>1. \A x \in Nat : IsFiniteSet(0 .. x)
  BY FS_Interval
<1>2. PICK s \in F : \A r \in F : r \subseteq s => r = s
  <2>1. F # {} /\ \A s \in F : IsFiniteSet(s)
    BY <1>1
  <2> HIDE DEF F
  <2> QED BY <2>1, MinimalSet
<1>3. PICK x \in T : s = 0 .. x
  BY <1>2
<1>4. ASSUME NEW y \in T, y < x PROVE FALSE
  <2>1. 0 .. y \subseteq 0 .. x /\ x \in 0 .. x /\ x \notin 0 .. y
    BY <1>4
  <2> QED BY <2>1, <1>2, <1>3
<1> QED BY <1>4

\* Induction over the naturals, for a set of naturals.
LEMMA NatInductionSet ==
    ASSUME NEW T \in SUBSET Nat, 0 \in T, \A n \in T : n + 1 \in T
    PROVE  T = Nat
<1> SUFFICES ASSUME Nat \ T # {} PROVE FALSE
  OBVIOUS
<1>1. PICK x \in Nat \ T : \A y \in Nat \ T : x <= y
  BY LeastNat
<1>2. x - 1 \in T
  BY <1>1
<1> QED BY <1>1, <1>2

\* A strict order has a greatest element on a finite nonempty set on which it
\* is total.
LEMMA GreatestElement ==
    ASSUME NEW S, IsFiniteSet(S), S # {}, NEW R,
           \A a, b, c \in S : <<a, b>> \in R /\ <<b, c>> \in R => <<a, c>> \in R,
           \A a \in S : <<a, a>> \notin R,
           \A a, b \in S : a = b \/ <<a, b>> \in R \/ <<b, a>> \in R
    PROVE  \E a \in S : \A b \in S \ {a} : <<b, a>> \in R
<1> DEFINE above(a) == {b \in S : a = b \/ <<a, b>> \in R}
           F == {above(a) : a \in S}
<1>1. \A s \in F : IsFiniteSet(s)
  BY FS_Subset
<1>2. PICK s \in F : \A r \in F : r \subseteq s => r = s
  <2>1. \A a \in S : above(a) \in F
    OBVIOUS
  <2>2. F # {}
    <3> HIDE DEF F
    <3> QED BY <2>1
  <2> HIDE DEF F
  <2> QED BY <1>1, <2>2, MinimalSet
<1>3. PICK a \in S : s = above(a)
  BY <1>2
<1>4. ASSUME NEW b \in S \ {a}, <<a, b>> \in R PROVE FALSE
  <2>1. above(b) \subseteq above(a) /\ above(b) \in F
    BY <1>4
  <2>2. a \in above(a) /\ a \notin above(b)
    BY <1>4
  <2>3. above(b) = above(a)
    <3> HIDE DEF F, above
    <3> QED BY <2>1, <1>2, <1>3
  <2> QED BY <2>2, <2>3
<1> QED BY <1>4
=============================================================================
