---------------------------- MODULE PayFinality ----------------------------
(***************************************************************************)
(* How settled a row and a balance are: the heads a chain reports, the     *)
(* level of a row under them, and how the balance is split.  Heights only; *)
(* the time of a block is its height.                                      *)
(***************************************************************************)
EXTENDS PayRows, SequencesExt

CONSTANTS SafeDepth,    \* per chain: blocks under the tip that are safe
          FinalDepth,   \* per chain: blocks under the tip that are final
          BalancePages  \* Bitcoin pages one balance follows (4)

Chains == {"evm", "btc", "tron", "sol"}
ASSUME DepthAssumption ==
    /\ FinalDepth \in [Chains -> Nat \ {0}] /\ SafeDepth \in [Chains -> Nat]
    /\ \A c \in Chains : SafeDepth[c] <= FinalDepth[c]
    /\ BalancePages \in Nat \ {0}

Below(height, depth) == IF height > depth THEN height - depth ELSE 0
TrueFinal(chain, tip) == Below(tip, FinalDepth[chain])
TrueSafe(chain, tip)  == Below(tip, SafeDepth[chain])

Heads(latest, safe, final) == [latest |-> latest, safe |-> safe, final |-> final]
NoHeads == Heads(0, 0, 0)
Least(a, b) == IF a < b THEN a ELSE b
(* clampHeads: the answers of different nodes put back in order. *)
Clamped(chain, h) ==
    IF chain = "tron" THEN Heads(h.latest, 0, Least(h.final, h.latest))
    ELSE LET safe == Least(h.safe, h.latest)
         IN  Heads(h.latest, safe, Least(h.final, safe))
(* The heads as read: each tag from a node that may be behind the tip; on   *)
(* Bitcoin all three from one list of blocks.                               *)
HeadsRead(chain, tip, behind) ==
    LET lag == IF chain = "btc" THEN [behind EXCEPT !.safe = behind.latest, !.final = behind.latest] ELSE behind
    IN  Clamped(chain, Heads(Below(tip, lag.latest), TrueSafe(chain, Below(tip, lag.safe)),
                             TrueFinal(chain, Below(tip, lag.final))))

BugEvmLevel(r, h) ==
    IF r.failed THEN "DANGER" ELSE IF r.block = 0 THEN "SOFT"
    ELSE IF r.block <= h.safe THEN "FINALIZED" ELSE "SOFT"
EvmLevel(r, h) ==
    IF r.failed THEN "DANGER" ELSE IF r.block = 0 THEN "SOFT"
    ELSE IF r.block <= h.final THEN "FINALIZED" ELSE IF r.block <= h.safe THEN "SAFE" ELSE "SOFT"
SolLevel(r, h) ==
    IF r.failed THEN "DANGER" ELSE IF r.block = 0 THEN "SOFT"
    ELSE IF r.block <= h.final THEN "FINALIZED" ELSE IF r.block > h.safe THEN "SOFT" ELSE "SAFE"
TronLevel(r, h) ==
    IF r.failed THEN "DANGER"
    ELSE IF r.block = 0 THEN IF r.time > 0 /\ h.final > 0 /\ r.time <= h.final THEN "FINALIZED" ELSE "SOFT"
    ELSE IF r.block <= h.final THEN "FINALIZED" ELSE "SOFT"
BtcLevel(r, h) ==
    IF r.block = 0 THEN "DANGER"
    ELSE IF r.block <= h.final THEN "FINALIZED" ELSE IF r.block <= h.safe THEN "SAFE" ELSE "SOFT"
Level(chain, r, h) == CASE chain = "btc"  -> BtcLevel(r, h)
                        [] chain = "sol"  -> SolLevel(r, h)
                        [] chain = "tron" -> TronLevel(r, h)
                        [] OTHER          -> EvmLevel(r, h)

(* Bitcoin's balance: the sums of the address, less what the newest pages   *)
(* show above the final head.  A figure is kept as how often it counts each *)
(* transaction; it is not shown when the pages do not reach the final head, *)
(* or when it is negative.                                                  *)
BtcMined(at)  == {x \in DOMAIN at : at[x] > 0}
BtcListed(at) == {x \in BtcMined(at) :
                     Cardinality({y \in BtcMined(at) : Newer(at, y, x)}) < BalancePages * PageSize}
Crossed(at, final) ==
    \/ \E x \in BtcListed(at) : at[x] <= final
    \/ Cardinality(BtcMined(at)) <= (BalancePages - 1) * PageSize
BtcFinal(sums, at, final) ==
    [x \in DOMAIN at |-> (IF x \in sums THEN 1 ELSE 0)
                         - (IF x \in BtcListed(at) /\ at[x] > final THEN 1 ELSE 0)]
Change(m)  == m.dir = "out" /\ m.party = Nobody
Net(moves) == FoldLeft(LAMBDA n, m : IF Change(m) THEN n ELSE IF m.dir = "in" THEN n + m.value ELSE n - m.value, 0, moves)
Amount(moves, counted) == FoldSet(LAMBDA x, n : n + counted[x] * Net(moves[x]), 0, DOMAIN counted)
BtcShown(moves, counted, at, final) == Crossed(at, final) /\ Amount(moves, counted) >= 0
(* Elsewhere the chain answers the balance at its final head. *)
FinalBalance(chain, tip, at) ==
    [x \in DOMAIN at |-> IF at[x] \in 1..TrueFinal(chain, tip) THEN 1 ELSE 0]
=============================================================================
