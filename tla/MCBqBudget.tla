---------------------------- MODULE MCBqBudget ----------------------------
(* Small instances of BqBudget for TLC. *)
EXTENDS BqBudget, TLC

CONSTANTS loop, cli, manual, onchain, coinage, stableEth, baseline

\* The server's goroutines are interchangeable.
ServerSymmetry == Permutations(Actors \ CliActors)
===========================================================================
