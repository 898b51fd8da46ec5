--------------------------------- MODULE Sums ---------------------------------
(***************************************************************************)
(* The sum of f[x] over a finite set.  MapThenSumSet takes an operator,    *)
(* which no prover here can instantiate; with a function in its place the  *)
(* sum can be reasoned about (SumProofs).                                  *)
(***************************************************************************)
EXTENDS Integers, FiniteSets, FiniteSetsExt

Total(f, S) == MapThenSumSet(LAMBDA x: f[x], S)

================================================================================
