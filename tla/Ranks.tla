-------------------------------- MODULE Ranks --------------------------------
(***************************************************************************)
(* Sorting and filtering by counting.  The k-th element of a finite set is  *)
(* the one with k - 1 before it.  SetToSortSeq and SelectSeq say the same   *)
(* by recursion and by operators that no prover here can instantiate; a     *)
(* relation that is a set of pairs can be reasoned about.                   *)
(***************************************************************************)
EXTENDS Integers, Sequences, FiniteSets

Rank(S, before, x) == Cardinality({y \in S : <<y, x>> \in before})
Ordered(S, before) == [k \in 1..Cardinality(S) |-> CHOOSE x \in S : Rank(S, before, x) = k - 1]

(* The set as a sequence, in the order of a strict total order. *)
InOrder(S, Before(_, _)) == Ordered(S, {p \in S \X S : Before(p[1], p[2])})

(* The entries of a list at some of its places, and those that pass a test. *)
Places(list, some) ==
    LET order == InOrder(some, LAMBDA i, j : i < j) IN [k \in DOMAIN order |-> list[order[k]]]
Filter(list, Test(_)) == Places(list, {i \in DOMAIN list : Test(list[i])})
===============================================================================
