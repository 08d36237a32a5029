------------------------------- MODULE IdLemmas -------------------------------
(***************************************************************************)
(* Facts about sets of ids that the proofs about batches share.  The ids   *)
(* of a table are an interval from 1.                                      *)
(***************************************************************************)
EXTENDS Integers, FiniteSets, FiniteSetTheorems, WellFoundedInduction, TLAPS

(* Every set of naturals has a least element. *)
LEMMA LeastElement ==
    ASSUME NEW S, S \subseteq Nat, S # {}
    PROVE  \E x \in S : \A y \in S : x <= y
<1> DEFINE R == OpToRel(<, Nat)
<1>1. PICK x \in S : \A y \in S : ~ (<<y, x>> \in R)
  <2>1. IsWellFoundedOn(R, Nat)
    BY NatLessThanWellFounded
  <2> HIDE DEF R
  <2> QED BY <2>1, WFMin
<1>2. \A y \in S : x <= y
  <2> TAKE y \in S
  <2>1. x \in Nat /\ y \in Nat
    OBVIOUS
  <2>2. ~ (y < x)
    <3> SUFFICES ASSUME y < x PROVE <<y, x>> \in R
      BY <1>1
    <3> QED BY <2>1 DEF OpToRel
  <2> QED BY <2>1, <2>2
<1> QED BY <1>2

(* A set of ids has a greatest one. *)
LEMMA GreatestElement ==
    ASSUME NEW n \in Nat, NEW S, S \subseteq 1 .. n, S # {}
    PROVE  \E m \in S : \A a \in S : a <= m
<1> DEFINE T == {n - a : a \in S}
<1>1. PICK t \in T : \A u \in T : t <= u
  <2>1. \A a \in S : n - a \in Nat
    OBVIOUS
  <2>2. T \subseteq Nat
    BY <2>1
  <2>3. T # {}
    <3>1. PICK a \in S : TRUE
      OBVIOUS
    <3>2. n - a \in T
      OBVIOUS
    <3> QED BY <3>2
  <2> HIDE DEF T
  <2> QED BY <2>2, <2>3, LeastElement
<1>2. PICK m \in S : t = n - m
  BY <1>1
<1>3. \A a \in S : a <= m
  <2> TAKE a \in S
  <2>1. n - a \in T
    OBVIOUS
  <2>2. n - m <= n - a
    BY <1>1, <1>2, <2>1
  <2> QED BY <2>2
<1> QED BY <1>3

(* Sets of ids are finite. *)
LEMMA FiniteStretch ==
    ASSUME NEW n \in Nat, NEW S, S \subseteq 1 .. n
    PROVE  IsFiniteSet(S) /\ Cardinality(S) \in Nat
<1>1. IsFiniteSet(1 .. n)
  BY FS_Interval
<1> QED BY <1>1, FS_Subset, FS_CardinalityType

(* What is left of a quotient after one more divisor, and after less.        *)
LEMMA Quotients ==
    ASSUME NEW a \in Nat, NEW b \in Nat, NEW n \in Nat \ {0}, a <= b
    PROVE  /\ a \div n \in Nat /\ b \div n \in Nat
           /\ a \div n <= b \div n
           /\ (a + n) \div n = a \div n + 1
           /\ 0 \div n = 0
<1>1. a \div n \in Nat /\ b \div n \in Nat
  OBVIOUS
<1>2. a \div n <= b \div n
  OBVIOUS
<1>3. (a + n) \div n = a \div n + 1
  OBVIOUS
<1>4. 0 \div n = 0
  OBVIOUS
<1> QED BY <1>1, <1>2, <1>3, <1>4

(* A function of one value, and the same with another. *)
LEMMA OneValue ==
    ASSUME NEW s, NEW x, NEW y
    PROVE  /\ [[j \in {s} |-> x] EXCEPT ![s] = y] = [j \in {s} |-> y]
           /\ [j \in {s} |-> x][s] = x
  OBVIOUS

(* The sizes of disjoint sets add up. *)
LEMMA DisjointUnion ==
    ASSUME NEW S, IsFiniteSet(S), NEW T, IsFiniteSet(T), \A x \in S : x \notin T
    PROVE  Cardinality(S \cup T) = Cardinality(S) + Cardinality(T)
<1>1. Cardinality(S \cap T) = 0
  <2>1. S \cap T = {}
    OBVIOUS
  <2> QED BY <2>1, FS_EmptySet
<1>2. Cardinality(S) \in Nat /\ Cardinality(T) \in Nat
  BY FS_CardinalityType
<1>3. Cardinality(S \cup T) = Cardinality(S) + Cardinality(T) - Cardinality(S \cap T)
  BY FS_Union
<1> QED BY <1>1, <1>2, <1>3

(* ORDER BY id LIMIT k *)
First(S, k) == {a \in S : Cardinality({b \in S : b <= a}) <= k}

(* The first k of a set, as ORDER BY id LIMIT k takes them: at least one,     *)
(* none of them out of turn, and all of them when they are fewer than k.     *)
LEMMA FirstStretch ==
    ASSUME NEW n \in Nat, NEW S, S \subseteq 1 .. n, NEW k \in Nat \ {0}
    PROVE  /\ S # {} => First(S, k) # {}
           /\ \A a \in S, b \in First(S, k) : a <= b => a \in First(S, k)
           /\ Cardinality(First(S, k)) < k => First(S, k) = S
<1> DEFINE B == {a \in S : Cardinality({b \in S : b <= a}) <= k}
           UpTo(a) == {b \in S : b <= a}
<1>0. /\ S \subseteq Nat
      /\ \A a : UpTo(a) \subseteq 1 .. n
      /\ B \subseteq 1 .. n
  <2>1. S \subseteq Nat
    OBVIOUS
  <2>2. \A a : UpTo(a) \subseteq 1 .. n
    OBVIOUS
  <2>3. B \subseteq 1 .. n
    OBVIOUS
  <2> QED BY <2>1, <2>2, <2>3
<1>1. ASSUME S # {} PROVE B # {}
  <2>1. PICK a \in S : \A b \in S : a <= b
    BY <1>0, <1>1, LeastElement
  <2>2. UpTo(a) = {a}
    <3>1. \A b \in S : b <= a <=> b = a
      BY <1>0, <2>1
    <3> QED BY <3>1
  <2>3. Cardinality(UpTo(a)) = 1
    BY <2>2, FS_Singleton
  <2> QED BY <2>3
<1>2. ASSUME NEW a \in S, NEW b \in B, a <= b
      PROVE  a \in B
  <2>1. UpTo(a) \subseteq UpTo(b)
    <3>1. b \in S
      OBVIOUS
    <3>2. \A c \in S : c <= a => c <= b
      BY <1>0, <1>2, <3>1
    <3> QED BY <3>2
  <2>2. /\ IsFiniteSet(UpTo(b))
        /\ Cardinality(UpTo(a)) \in Nat /\ Cardinality(UpTo(b)) \in Nat
    BY <1>0, FiniteStretch
  <2>3. Cardinality(UpTo(a)) <= Cardinality(UpTo(b))
    BY <2>1, <2>2, FS_Subset
  <2> QED BY <2>2, <2>3
<1>3. ASSUME Cardinality(B) < k
      PROVE  B = S
  <2> SUFFICES ASSUME S \ B # {} PROVE FALSE
    OBVIOUS
  <2>1. PICK a \in S \ B : \A b \in S \ B : a <= b
    BY <1>0, LeastElement
  <2> DEFINE L == UpTo(a) \ {a}
  <2>2. L \subseteq B
    <3>1. \A b \in S : b <= a /\ b # a => ~ (a <= b)
      BY <1>0, <2>1
    <3> QED BY <2>1, <3>1
  <2>3. IsFiniteSet(UpTo(a)) /\ IsFiniteSet(B) /\ IsFiniteSet(L)
    BY <1>0, FiniteStretch, FS_RemoveElement
  <2>4. /\ Cardinality(UpTo(a)) \in Nat
        /\ Cardinality(B) \in Nat
        /\ Cardinality(L) \in Nat
    BY <2>3, FS_CardinalityType
  <2>5. Cardinality(L) = Cardinality(UpTo(a)) - 1
    <3>1. a \in UpTo(a)
      BY <1>0
    <3> HIDE DEF UpTo
    <3> QED BY <2>3, <3>1, FS_RemoveElement
  <2>6. Cardinality(L) <= Cardinality(B)
    BY <2>2, <2>3, FS_Subset
  <2>7. Cardinality(UpTo(a)) > k
    BY <2>1, <2>4
  <2> QED BY <1>3, <2>4, <2>5, <2>6, <2>7
<1>4. First(S, k) = B
  BY DEF First
<1> HIDE DEF B
<1> QED BY <1>1, <1>2, <1>3, <1>4

(* The first k are at most k. *)
LEMMA FirstBound ==
    ASSUME NEW n \in Nat, NEW S, S \subseteq 1 .. n, NEW k \in Nat
    PROVE  Cardinality(First(S, k)) <= k
<1> DEFINE B == {a \in S : Cardinality({b \in S : b <= a}) <= k}
           UpTo(a) == {b \in S : b <= a}
<1>1. /\ \A a : UpTo(a) \subseteq 1 .. n
      /\ B \subseteq S /\ B \subseteq 1 .. n
  OBVIOUS
<1>2. CASE B = {}
  <2>1. First(S, k) = {} /\ Cardinality({}) = 0
    BY <1>2, FS_EmptySet DEF First
  <2>2. 0 <= k
    OBVIOUS
  <2> QED BY <2>1, <2>2
<1>3. CASE B # {}
  <2>1. PICK m \in B : \A a \in B : a <= m
    <3> HIDE DEF B
    <3> QED BY <1>1, <1>3, GreatestElement
  <2>2. B \subseteq UpTo(m) /\ Cardinality(UpTo(m)) <= k
    BY <2>1
  <2>3. IsFiniteSet(UpTo(m)) /\ Cardinality(UpTo(m)) \in Nat
    BY <1>1, FiniteStretch
  <2> HIDE DEF UpTo
  <2>4. Cardinality(B) <= Cardinality(UpTo(m)) /\ Cardinality(B) \in Nat
    <3> HIDE DEF B
    <3> QED BY <1>1, <2>2, <2>3, FS_Subset, FiniteStretch
  <2>5. Cardinality(B) <= k
    <3> HIDE DEF B
    <3> QED BY <2>2, <2>3, <2>4
  <2> QED BY <2>5 DEF First
<1> QED BY <1>2, <1>3
=============================================================================
