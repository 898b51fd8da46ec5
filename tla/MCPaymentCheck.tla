--------------------------- MODULE MCPaymentCheck ---------------------------
EXTENDS PaymentCheck

(* Two addresses with the same ends, and a third one. *)
MCShape == [shop |-> "a..z", twin |-> "a..z", else |-> "b..y"]
MCParties == DOMAIN MCShape
MCSafeDepth == [evm |-> 2, btc |-> 2, tron |-> 0, sol |-> 1]
MCFinalDepth == [evm |-> 4, btc |-> 4, tron |-> 1, sol |-> 2]

Move4(token, dir, party, value) ==
    [token |-> token, dir |-> dir, party |-> party, value |-> value, failed |-> FALSE, inner |-> FALSE]
In(party, value)  == Move4("own", "in", party, value)
Out(party, value) == Move4("own", "out", party, value)
Failed(m) == [m EXCEPT !.failed = TRUE]
Inner(m)  == [m EXCEPT !.inner = TRUE]
Paid == In("else", Real)

Lag(latest, safe, final) == [latest |-> latest, safe |-> safe, final |-> final]
AtTip == {Lag(0, 0, 0)}

Scene(chain, coin, moves, tips, mint) ==
    [chain |-> chain, coin |-> coin, moves |-> moves, tips |-> tips, mint |-> 2..mint, asked |-> 2, reorgs |-> 0,
     lives |-> 0, pages |-> 1, behind |-> AtTip, index |-> {0}, oks |-> {TRUE}, stores |-> {"ok"}]
Assets == {<<"evm", TRUE>>, <<"evm", FALSE>>, <<"tron", TRUE>>, <<"tron", FALSE>>, <<"btc", TRUE>>, <<"sol", TRUE>>}

(* A transfer that is replaced while its row or the heads are cached. *)
Forks == {[Scene("evm", TRUE, <<<<Paid>>>>, 6, 2) EXCEPT !.reorgs = 1, !.lives = 1],
          [Scene("btc", TRUE, <<<<Paid>>>>, 6, 2) EXCEPT !.reorgs = 1, !.pages = 2],
          [Scene("btc", TRUE, <<<<Paid>>>>, 6, 2) EXCEPT !.reorgs = 1, !.pages = 0, !.lives = 1],
          [Scene("sol", TRUE, <<<<Paid>>>>, 5, 2) EXCEPT !.reorgs = 1, !.lives = 1]}
(* Heads and lists from nodes that are behind, reads that fail. *)
Lagging == {[Scene(a[1], a[2], <<<<Paid>>>>, 4, 3) EXCEPT !.lives = 1, !.pages = 0, !.index = {0, 1},
                 !.behind = [latest : {0, 2}, safe : {0, 1}, final : {0}], !.oks = BOOLEAN] : a \in Assets}
(* More rows than a history keeps, than a page holds, than pages are read. *)
Accounts == {a \in Assets : a[1] \in {"evm", "tron"}}
Full == {Scene(a[1], a[2], <<<<Paid, Paid>>, <<Paid>>, <<Paid>>>>, 4, 3) : a \in Accounts}
            \cup {[Scene(c, TRUE, <<<<Paid, Paid>>, <<Paid>>, <<Paid>>, <<Paid>>>>, 4, 3) EXCEPT !.mint = {2}] : c \in {"btc", "sol"}}
(* One transaction of several moves, two of them equal. *)
Batch == <<Paid, Paid, Failed(Out("shop", Real)), Inner(In("shop", Dust)), Move4("bridged", "in", "else", Real)>>
Outputs == <<Out("shop", Real), Out("shop", Dust), Out("twin", Real), Out(Nobody, Real)>>
Batches == {Scene(a[1], a[2], <<Batch>>, 3, 2) : a \in Accounts}
               \cup {[Scene("btc", TRUE, <<<<Paid, Paid>>, Outputs, <<Out(Nobody, Dust)>>>>, 3, 2) EXCEPT !.mint = {2}],
                     Scene("sol", TRUE, <<<<Paid, Paid, In("shop", Dust)>>>>, 4, 2)}
(* A payment after those that history holds. *)
Following == {[Scene(c, FALSE, <<Batch, <<Paid>>>>, 3, 3) EXCEPT !.lives = 1] : c \in {"evm", "tron"}}
                 \cup {[Scene("btc", TRUE, <<<<Paid>>>>, 3, 3) EXCEPT !.lives = 1]}
(* The owner pays the shop; its twin sends bait; the owner may pay the twin. *)
Baits == {In("twin", Dust), Move4("mimic", "in", "twin", Real), Move4("fake", "in", "twin", Real),
          Out("twin", 0), Out("twin", Real)}
Poisoned == {[Scene("evm", FALSE, <<<<Out("shop", Real)>>, <<b>>, <<Out("twin", Real)>>>>, 4, 3)
                 EXCEPT !.pages = 1, !.stores = {"ok", "pool fails", "off"}] : b \in Baits}
Warned == {[Scene("evm", FALSE, <<<<Out("shop", Real)>>, <<b>>>>, 3, 2) EXCEPT !.lives = 1] : b \in Baits}
(* Two callers of /live, one after the other. *)
Callers == {[Scene("tron", TRUE, <<<<Paid>>>>, 3, 3) EXCEPT !.lives = 2, !.pages = 0]}
(* Bitcoin's two reads of a balance. *)
Spent == {[Scene("btc", TRUE, <<<<Paid>>, <<Paid>>, <<Out("shop", Real)>>>>, 6, 3) EXCEPT !.pages = 0, !.lives = 1, !.asked = 5, !.mint = {2, 3, 6}]}

MCScenes == Forks \cup Lagging \cup Full \cup Batches \cup Poisoned \cup Warned \cup Following \cup Callers \cup Spent
=============================================================================
