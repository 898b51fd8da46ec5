----------------------------- MODULE MCHolderState -----------------------------
(***************************************************************************)
(* A small chain for HolderState: every day spends older coins, day 1 also *)
(* spends a coin of day 2 (a timestamp inversion over midnight).           *)
(***************************************************************************)
EXTENDS HolderState

SpentBy(f) == [c \in Buckets |-> IF c \in DOMAIN f THEN f[c] ELSE 0]
MCCreated  == [d \in Dates |-> CASE d = 0 -> 4 [] d = 1 -> 3 [] OTHER -> 2]
MCSpent    ==
  [d \in Dates |->
     CASE d = 0 -> NothingSpent
       [] d = 1 -> SpentBy((0 :> 1) @@ (2 :> 1))
       [] d = 2 -> SpentBy((0 :> 1) @@ (1 :> 1))
       [] OTHER -> SpentBy((d - 1) :> 1)]

=============================================================================
