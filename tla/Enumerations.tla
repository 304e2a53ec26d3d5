---------------------------- MODULE Enumerations ----------------------------
(***************************************************************************)
(* Sets of numbers in order, and what a sequence has at such positions.    *)
(* SelectSeq says the same, but by a recursion that proofs cannot expand,  *)
(* and so with the sum of a sequence.                                      *)
(***************************************************************************)
EXTENDS Integers, FiniteSets, Sequences

\* The place of x among the numbers of S.
Rank(S, x) == Cardinality({y \in S : y <= x})

\* The numbers of S from the smallest to the largest.
InOrder(S) == [k \in 1 .. Cardinality(S) |-> CHOOSE x \in S : Rank(S, x) = k]

\* What the sequence s has at the positions S, in its order.
Picked(s, S) == [k \in 1 .. Cardinality(S) |-> s[InOrder(S)[k]]]

\* The sum of the sequence ns.
Total(ns) ==
    LET sum[k \in 0 .. Len(ns)] == IF k = 0 THEN 0 ELSE sum[k - 1] + ns[k]
    IN  sum[Len(ns)]
=============================================================================
