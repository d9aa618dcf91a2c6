---------------------------- MODULE RankingProofs ----------------------------
(***************************************************************************)
(* Facts about finite sets of numbers that the proofs of several components *)
(* rest on: ranks number a set from one end to the other, and what is not   *)
(* the case for every number is first not the case for some number.         *)
(***************************************************************************)
EXTENDS Ranking, Integers, FiniteSetTheorems, TLAPS

(* A larger member has a larger rank. *)
LEMMA RankGrows ==
    ASSUME NEW S \in SUBSET Nat, IsFiniteSet(S), NEW x \in S, NEW y \in S, x < y
    PROVE Rank(S, x) < Rank(S, y)
<1>. DEFINE X == {m \in S : m <= x}
            Y == {m \in S : m <= y}
<1>1. X \in SUBSET Y /\ y \in Y /\ y \notin X /\ Y \in SUBSET S
    <2>1. x \in Nat /\ y \in Nat /\ \A m \in S : m \in Nat
        OBVIOUS
    <2>2. \A m \in S : m <= x => m <= y
        BY <2>1
    <2>3. X \subseteq Y
        BY <2>2
    <2>. QED
        BY <2>1, <2>3
<1>2. IsFiniteSet(Y) /\ IsFiniteSet(X)
    BY <1>1, FS_Subset
<1>3. Cardinality(X) <= Cardinality(Y) /\ Cardinality(X) # Cardinality(Y)
    BY <1>1, <1>2, FS_Subset
<1>4. Cardinality(X) \in Nat /\ Cardinality(Y) \in Nat
    BY <1>2, FS_CardinalityType
<1>. QED
    BY <1>3, <1>4 DEF Rank

LEMMA RankRange ==
    ASSUME NEW S \in SUBSET Nat, IsFiniteSet(S), NEW x \in S
    PROVE Rank(S, x) \in 1 .. Cardinality(S)
<1>. DEFINE X == {m \in S : m <= x}
<1>1. X \in SUBSET S /\ x \in X
    OBVIOUS
<1>2. /\ IsFiniteSet(X) /\ Cardinality(X) <= Cardinality(S)
      /\ Cardinality(X) \in Nat /\ Cardinality(S) \in Nat
    BY <1>1, FS_Subset, FS_CardinalityType
<1>3. Cardinality(X) # 0
    BY <1>1, <1>2, FS_EmptySet
<1>. QED
    BY <1>2, <1>3 DEF Rank

(* Every rank up to the number of members is that of one of them: k |->     *)
(* Nth(S, k) goes through S once, in order.                                 *)
LEMMA NthProperties ==
    ASSUME NEW S \in SUBSET Nat, IsFiniteSet(S)
    PROVE /\ Cardinality(S) \in Nat
          /\ \A k \in 1 .. Cardinality(S) : Nth(S, k) \in S /\ Rank(S, Nth(S, k)) = k
          /\ \A j, k \in 1 .. Cardinality(S) : j < k => Nth(S, j) < Nth(S, k)
          /\ \A x \in S : Rank(S, x) \in 1 .. Cardinality(S) /\ Nth(S, Rank(S, x)) = x
<1>. DEFINE N == 1 .. Cardinality(S)
            rank == [x \in S |-> Rank(S, x)]
<1>1. Cardinality(S) \in Nat
    BY FS_CardinalityType
<1>2. IsFiniteSet(N) /\ Cardinality(N) = Cardinality(S)
    BY <1>1, FS_Interval
<1>3. \A x, y \in S : rank[x] = rank[y] => x = y
    <2>1. ASSUME NEW x \in S, NEW y \in S, x < y PROVE Rank(S, x) # Rank(S, y)
        BY <1>1, <2>1, RankGrows, RankRange
    <2>2. \A x \in S : x \in Nat
        OBVIOUS
    <2>. QED
        BY <2>1, <2>2
<1>4. rank \in Injection(S, N)
    BY <1>3, RankRange DEF Injection, IsInjective
<1>5. rank \in Surjection(S, N)
    BY <1>2, <1>4, FS_Injection
<1>6. \A k \in N : Nth(S, k) \in S /\ Rank(S, Nth(S, k)) = k
    <2>. SUFFICES ASSUME NEW k \in N PROVE \E x \in S : Rank(S, x) = k
        BY DEF Nth
    <2>1. \E x \in S : rank[x] = k
        BY <1>5 DEF Surjection
    <2>. QED
        BY <2>1
<1>7. \A j, k \in N : j < k => Nth(S, j) < Nth(S, k)
    <2>. SUFFICES ASSUME NEW j \in N, NEW k \in N, j < k, ~ (Nth(S, j) < Nth(S, k)) PROVE FALSE
        OBVIOUS
    <2>1. Nth(S, j) \in S /\ Nth(S, k) \in S /\ Rank(S, Nth(S, j)) = j /\ Rank(S, Nth(S, k)) = k
        BY <1>6
    <2>2. Nth(S, j) \in Nat /\ Nth(S, k) \in Nat
        BY <2>1
    <2>3. CASE Nth(S, k) = Nth(S, j)
        BY <2>1, <2>3
    <2>4. CASE Nth(S, k) < Nth(S, j)
        <3>1. Rank(S, Nth(S, k)) < Rank(S, Nth(S, j))
            BY <2>1, <2>4, RankGrows
        <3>. QED
            BY <1>1, <2>1, <3>1
    <2>. QED
        BY <2>2, <2>3, <2>4
<1>8. \A x \in S : Rank(S, x) \in N /\ Nth(S, Rank(S, x)) = x
    <2>. SUFFICES ASSUME NEW x \in S PROVE Rank(S, x) \in N /\ Nth(S, Rank(S, x)) = x
        OBVIOUS
    <2>1. Rank(S, x) \in N
        BY RankRange
    <2>. QED
        BY <1>3, <1>6, <2>1
<1>. QED
    BY <1>1, <1>6, <1>7, <1>8

-----------------------------------------------------------------------------

(* A set of naturals that is not empty has a least member. *)
LEMMA LeastNumber ==
    ASSUME NEW T, T \subseteq Nat, T # {}
    PROVE \E x \in T : \A y \in T : x <= y
<1>1. PICK x \in T : \A y \in T : ~ (<<y, x>> \in OpToRel(<, Nat))
    BY NatLessThanWellFounded, WFMin
<1>2. \A y \in T : ~ (y < x)
    BY <1>1 DEF OpToRel
<1>. QED
    BY <1>2

(* What some natural is not in is first left at 0 or by a step. *)
LEMMA FirstOutside ==
    ASSUME NEW P, ~ (Nat \subseteq P)
    PROVE \E n \in Nat \ P : \A m \in Nat : m < n => m \in P
<1>1. PICK n \in Nat \ P : \A m \in Nat \ P : n <= m
    BY LeastNumber
<1>. QED
    BY <1>1
=============================================================================
