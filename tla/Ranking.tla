------------------------------- MODULE Ranking -------------------------------
(***************************************************************************)
(* Sequences made of a finite set of numbers in their order.  They are      *)
(* defined by rank rather than by sorting or by recursion, so that          *)
(* RankingProofs can say what they are for every set.                       *)
(***************************************************************************)
EXTENDS Naturals, FiniteSets

Rank(S, n) == Cardinality({m \in S : m <= n})

(* The k-th smallest number of S. *)
Nth(S, k) == CHOOSE n \in S : Rank(S, n) = k

(* The elements of a list at some of its positions, in their order. *)
ElementsAt(list, positions) ==
    [k \in 1 .. Cardinality(positions) |-> list[Nth(positions, k)]]
=============================================================================
