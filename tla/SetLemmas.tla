------------------------------- MODULE SetLemmas -------------------------------
(***************************************************************************)
(* Facts about finite sets the proofs share: least and greatest elements,  *)
(* images, and the ranks of the elements of a strictly ordered set.        *)
(***************************************************************************)
EXTENDS FiniteSetTheorems, TLAPS

LEMMA LeastNatural ==
    ASSUME NEW S \in SUBSET Nat, S # {}
    PROVE  \E x \in S : \A y \in S : x <= y
<1> DEFINE R == {p \in Nat \X Nat : p[1] < p[2]}
<1>1. IsWellFoundedOn(R, Nat)
  BY NatLessThanWellFounded DEF OpToRel
<1>2. \A x, y \in Nat : y < x => <<y, x>> \in R
  OBVIOUS
<1> HIDE DEF R
<1> PICK x \in S : \A y \in S : <<y, x>> \notin R
  BY <1>1, WFMin
<1>3. ASSUME NEW y \in S PROVE x <= y
  <2>1. x \in Nat /\ y \in Nat
    OBVIOUS
  <2>2. <<y, x>> \notin R
    OBVIOUS
  <2>3. ~(y < x)
    BY <1>2, <2>1, <2>2
  <2> QED BY <2>1, <2>3
<1> QED BY <1>3

(* The image of a finite set by a function. *)
LEMMA FiniteImage ==
    ASSUME NEW S, IsFiniteSet(S), NEW f, DOMAIN f = S, f = [x \in S |-> f[x]]
    PROVE  /\ IsFiniteSet({f[x] : x \in S})
           /\ Cardinality({f[x] : x \in S}) <= Cardinality(S)
<1> DEFINE T == {f[x] : x \in S}
<1>1. f \in Surjection(S, T)
  BY DEF Surjection
<1> QED BY <1>1, FS_Surjection

(* Sets of natural numbers with an upper bound. *)
LEMMA GreatestBelow ==
    ASSUME NEW S \in SUBSET Nat, S # {}, NEW n \in Nat, \A x \in S : x <= n
    PROVE  \E x \in S : \A y \in S : y <= x
<1> DEFINE D == {k \in Nat : \E x \in S : k = n - x}
<1>1. D # {} /\ D \in SUBSET Nat
  <2> PICK x \in S : TRUE
    OBVIOUS
  <2>1. n - x \in Nat
    OBVIOUS
  <2>2. n - x \in D
    BY <2>1
  <2> QED BY <2>2
<1> HIDE DEF D
<1> PICK k \in D : \A j \in D : k <= j
  BY <1>1, LeastNatural
<1> PICK x \in S : k = n - x
  BY DEF D
<1>2. ASSUME NEW y \in S PROVE y <= x
  <2>1. n - y \in Nat
    OBVIOUS
  <2>2. n - y \in D
    BY <2>1 DEF D
  <2> QED BY <2>2
<1> QED BY <1>2

LEMMA GreatestNatural ==
    ASSUME NEW S \in SUBSET Nat, S # {}, IsFiniteSet(S)
    PROVE  \E x \in S : \A y \in S : y <= x
<1> DEFINE Topless(T) == T # {} /\ IsFiniteSet(T) /\ ~\E x \in T : \A y \in T : y <= x
           Sizes == {k \in Nat : \E T \in SUBSET Nat : Topless(T) /\ k = Cardinality(T)}
<1> SUFFICES ASSUME Topless(S) PROVE FALSE
  OBVIOUS
<1>1. Sizes # {}
  BY FS_CardinalityType
<1>2. Sizes \in SUBSET Nat
  OBVIOUS
<1> PICK k \in Sizes : \A j \in Sizes : k <= j
  BY <1>1, <1>2, LeastNatural
<1> PICK T \in SUBSET Nat : Topless(T) /\ k = Cardinality(T)
  OBVIOUS
<1> PICK x \in T : TRUE
  OBVIOUS
<1> DEFINE U == T \ {x}
<1>3. IsFiniteSet(U) /\ Cardinality(U) = k - 1 /\ k \in Nat /\ k - 1 \in Nat
  <2>1. IsFiniteSet(U) /\ Cardinality(U) = k - 1
    BY FS_RemoveElement
  <2>2. Cardinality(U) \in Nat
    BY <2>1, FS_CardinalityType
  <2> QED BY <2>1, <2>2
<1>4. CASE U = {}
  <2>1. \A y \in T : y <= x
    BY <1>4
  <2> QED BY <2>1
<1>5. CASE U # {}
  <2>1. ~Topless(U)
    <3>1. k - 1 \notin Sizes
      BY <1>2, <1>3
    <3> QED BY <1>3, <3>1
  <2> HIDE DEF U
  <2> PICK z \in U : \A y \in U : y <= z
    BY <1>3, <1>5, <2>1
  <2>2. z \in T /\ \A y \in T : y # x => y <= z
    BY DEF U
  <2>3. CASE x <= z
    BY <2>2, <2>3
  <2>4. CASE ~(x <= z)
    <3>1. \A y \in T : y <= x
      BY <2>2, <2>4
    <3> QED BY <3>1
  <2> QED BY <2>3, <2>4
<1> QED BY <1>4, <1>5
-----------------------------------------------------------------------------
(* A strict total order, as a set of pairs, and how many come before. *)
StrictOrder(R, S) ==
    /\ \A x \in S : <<x, x>> \notin R
    /\ \A x, y, z \in S : <<x, y>> \in R /\ <<y, z>> \in R => <<x, z>> \in R
    /\ \A x, y \in S : x = y \/ <<x, y>> \in R \/ <<y, x>> \in R
Below(R, S, x) == {y \in S : <<y, x>> \in R}

LEMMA RanksFollow ==
    ASSUME NEW S, IsFiniteSet(S), NEW R, StrictOrder(R, S), NEW x \in S
    PROVE  /\ Cardinality(Below(R, S, x)) \in 0..(Cardinality(S) - 1)
           /\ \A y \in S : <<y, x>> \in R => Cardinality(Below(R, S, y)) < Cardinality(Below(R, S, x))
<1>1. ASSUME NEW T \in SUBSET S, NEW U \in SUBSET T, NEW z \in T, z \notin U
      PROVE  /\ IsFiniteSet(T) /\ Cardinality(U) \in Nat /\ Cardinality(T) \in Nat
             /\ Cardinality(U) < Cardinality(T)
  <2>1. IsFiniteSet(T)
    BY FS_Subset
  <2>2. IsFiniteSet(U) /\ Cardinality(U) <= Cardinality(T) /\ (Cardinality(T) = Cardinality(U) => T = U)
    BY <2>1, FS_Subset
  <2>3. Cardinality(U) \in Nat /\ Cardinality(T) \in Nat
    BY <2>1, <2>2, FS_CardinalityType
  <2>4. T # U
    BY <1>1
  <2> QED BY <2>1, <2>2, <2>3, <2>4
<1>2. /\ Below(R, S, x) \in SUBSET S /\ x \notin Below(R, S, x)
  BY DEF Below, StrictOrder
<1>3. /\ Cardinality(Below(R, S, x)) \in Nat /\ Cardinality(S) \in Nat
      /\ Cardinality(Below(R, S, x)) < Cardinality(S)
  BY <1>1, <1>2
<1>4. ASSUME NEW y \in S, <<y, x>> \in R
      PROVE  Cardinality(Below(R, S, y)) < Cardinality(Below(R, S, x))
  <2>1. /\ Below(R, S, y) \subseteq Below(R, S, x)
        /\ y \in Below(R, S, x) /\ y \notin Below(R, S, y)
    BY <1>4 DEF Below, StrictOrder
  <2> QED BY <1>1, <1>2, <2>1
<1> QED BY <1>3, <1>4

(* Every place of the order is taken, and by one element only. *)
LEMMA RanksOnto ==
    ASSUME NEW S, IsFiniteSet(S), NEW R, StrictOrder(R, S), NEW k \in 0..(Cardinality(S) - 1)
    PROVE  \E x \in S : Cardinality(Below(R, S, x)) = k
<1> DEFINE n == Cardinality(S)
           rank == [x \in S |-> Cardinality(Below(R, S, x))]
<1>1. n \in Nat
  BY FS_CardinalityType
<1>2. rank \in [S -> 0..(n - 1)]
  BY RanksFollow
<1>3. ASSUME NEW x \in S, NEW y \in S, rank[x] = rank[y] PROVE x = y
  <2>1. rank[x] \in Int /\ rank[y] \in Int
    BY <1>1, <1>2
  <2>2. /\ <<y, x>> \in R => rank[y] < rank[x]
        /\ <<x, y>> \in R => rank[x] < rank[y]
    BY RanksFollow
  <2>3. <<y, x>> \notin R /\ <<x, y>> \notin R
    BY <1>3, <2>1, <2>2
  <2> QED BY <2>3 DEF StrictOrder
<1> HIDE DEF rank
<1>4. rank \in Injection(S, 0..(n - 1))
  BY <1>2, <1>3 DEF Injection, IsInjective
<1>5. IsFiniteSet(0..(n - 1)) /\ Cardinality(0..(n - 1)) = n
  <2>1. n - 1 \in Int /\ 0 \in Int
    BY <1>1
  <2>2. IsFiniteSet(0..(n - 1)) /\ Cardinality(0..(n - 1)) = IF 0 > n - 1 THEN 0 ELSE (n - 1) - 0 + 1
    BY <2>1, FS_Interval
  <2> QED BY <1>1, <2>2
<1>6. rank \in Surjection(S, 0..(n - 1))
  BY <1>4, <1>5, FS_Injection
<1>7. \E x \in S : rank[x] = k
  BY <1>6 DEF Surjection
<1> QED BY <1>7 DEF rank
================================================================================
