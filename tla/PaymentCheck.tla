---------------------------- MODULE PaymentCheck ----------------------------
(***************************************************************************)
(* Payment Check for one receiving address on one chain: the chain with    *)
(* its reorganisations, the three caches of the server, one /live request  *)
(* and one /history request at a time, each reading several sources while  *)
(* blocks arrive.  A tick is one block and about a minute, the time a      *)
(* history stays cached; a request lasts less than a tick.                 *)
(***************************************************************************)
EXTENDS PayFlags, PayFinality

CONSTANTS Scenes,       \* what is explored: a chain, an asset, moves, bounds
          Window,       \* how far a history goes back (7 days)
          LogsBack,     \* blocks under the final head the logs are read from (50)
          HeadsTTL, RecentTTL, HistoryTTL,
          MaxReorg      \* blocks a reorganisation may replace

(* A reorganisation stays above the final head, by more than a cached row   *)
(* grows old: it is read, kept HistoryTTL, and answered within two ticks.   *)
ASSUME ReorgAssumption ==
    /\ {Window, LogsBack, HeadsTTL, RecentTTL, HistoryTTL, MaxReorg} \subseteq Nat
    /\ RecentTTL <= HistoryTTL
    /\ \A c \in {"evm", "btc"} : FinalDepth[c] > MaxReorg + HistoryTTL + 1

(* A transaction makes a sequence of moves; on Bitcoin these are the        *)
(* outputs with something in them.  Sources lag by some blocks.             *)
Moves == [token : Registry \cup {"mimic", "fake"}, dir : {"in", "out"}, party : Parties \cup {Nobody},
          value : {0, Dust, Real}, failed : BOOLEAN, inner : BOOLEAN]
Output(m) == m.token = "own" /\ m.value > 0 /\ ~m.failed /\ ~m.inner
ASSUME ScenesAssumption ==
    \A s \in Scenes : /\ s.chain \in Chains /\ s.coin \in BOOLEAN
                      /\ s.moves \in Seq(Seq(Moves) \ {<<>>}) /\ s.index \subseteq Nat
                      /\ s.chain = "btc" => \A x \in DOMAIN s.moves : \A i \in DOMAIN s.moves[x] :
                                               Output(s.moves[x][i])
                      /\ s.behind \subseteq [latest : Nat, safe : Nat, final : Nat]

VARIABLES scene,    \* one of Scenes
          tip,      \* height of the chain, and the time
          at,       \* where each transaction is: -1 unknown, 0 mempool, a block
          reorgs,   \* reorganisations so far
          heads,    \* cache entries, <<>> or <<entry>>
          recent,
          history,
          flight,   \* the read of the heads under way, shared by its callers
          live,     \* the /live request, <<>> or <<record>>
          page,     \* the /history request
          left,     \* requests that may still start
          answer    \* what was answered last
chainVars == <<tip, at, reorgs>>
cacheVars == <<heads, recent, history, flight>>
vars == <<scene, chainVars, cacheVars, live, page, left, answer>>

Txs == DOMAIN at
(* What the rows of a transaction are made of: its transfers.               *)
Made == IF scene.chain = "btc" THEN [x \in DOMAIN scene.moves |-> BtcConverted(scene.moves[x])] ELSE scene.moves
Index(upto) == Ledger(Made, at, upto)
Fresh(entry) == entry # <<>> /\ tip <= entry[1].until
Waits(request, part) == request # <<>> /\ part \in request[1].todo
Without(request, part) == <<[request[1] EXCEPT !.todo = @ \ {part}]>>
Failing(request, part) == <<[request[1] EXCEPT !.todo = @ \ {part}, !.errs = @ \cup {part}]>>

-----------------------------------------------------------------------------
(* The chain. *)
Request(todo) == [todo |-> todo, began |-> tip, errs |-> {}, heads |-> NoHeads,
                  rows |-> <<>>, old |-> <<>>, cut |-> FALSE, truth |-> {}, seen |-> {}, lost |-> {},
                  sums |-> {}, list |-> at, counted |-> FinalBalance(scene.chain, 0, at)]
Patient(request) == IF request = <<>> THEN TRUE ELSE request[1].began = tip

Broadcast(x) ==
    /\ scene.chain = "btc" /\ at[x] = -1
    /\ at' = [at EXCEPT ![x] = 0]
    /\ UNCHANGED <<scene, tip, reorgs, cacheVars, live, page, left>>

Tick(mined) ==
    /\ tip < scene.tips /\ (mined = {} \/ tip + 1 \in scene.mint)
    /\ \A x \in mined : at[x] <= 0
    /\ Patient(live) /\ Patient(page)
    /\ tip' = tip + 1
    /\ at' = [x \in Txs |-> IF x \in mined THEN tip' ELSE at[x]]
    /\ UNCHANGED <<scene, reorgs, cacheVars, live, page, left>>

(* The top blocks are replaced; what is confirmed on Solana stays. *)
Settled == IF scene.chain = "sol" THEN TrueSafe("sol", tip) ELSE TrueFinal(scene.chain, tip)
Reorg(height, back) ==
    /\ reorgs < scene.reorgs /\ height >= Settled /\ height >= tip - MaxReorg
    /\ (\E x \in Txs : at[x] > height) /\ (back = 0 => scene.chain = "btc")
    /\ at' = [x \in Txs |-> IF at[x] > height THEN back ELSE at[x]]
    /\ reorgs' = reorgs + 1
    /\ UNCHANGED <<scene, tip, cacheVars, live, page, left>>

(* An entry lapses somewhere in the last tick of its life. *)
Lapse ==
    /\ UNCHANGED <<scene, chainVars, flight, live, page, left>>
    /\ \/ heads # <<>> /\ heads[1].until <= tip /\ heads' = <<>> /\ UNCHANGED <<recent, history>>
       \/ recent # <<>> /\ recent[1].until <= tip /\ recent' = <<>> /\ UNCHANGED <<heads, history>>
       \/ history # <<>> /\ history[1].until <= tip /\ history' = <<>> /\ UNCHANGED <<heads, recent>>

-----------------------------------------------------------------------------
(* getPayHeads, for both requests: the cache, or one read all callers share. *)
LiveParts == {"newest", "history", "sums"} \cup IF scene.chain = "btc" THEN {"list"} ELSE {}
WithHeads(request, isLive, h, ok) ==
    IF ~Waits(request, "heads") THEN request
    ELSE <<[request[1] EXCEPT !.heads = h,
               !.errs = IF ok THEN @ ELSE @ \cup {"heads"},
               !.todo = (@ \ {"heads"}) \cup IF isLive THEN LiveParts
                                             ELSE IF scene.chain = "sol" THEN {"fetch"} ELSE {}]>>
HeadsHit ==
    /\ Fresh(heads)
    /\ \/ Waits(live, "heads") /\ live' = WithHeads(live, TRUE, heads[1].value, TRUE) /\ UNCHANGED page
       \/ Waits(page, "heads") /\ page' = WithHeads(page, FALSE, heads[1].value, TRUE) /\ UNCHANGED live
    /\ UNCHANGED <<scene, chainVars, cacheVars, left>>
HeadsFetch(behind, ok) ==
    /\ ~Fresh(heads) /\ flight = <<>> /\ (Waits(live, "heads") \/ Waits(page, "heads"))
    /\ flight' = <<[value |-> IF ok THEN HeadsRead(scene.chain, tip, behind) ELSE NoHeads, ok |-> ok]>>
    /\ UNCHANGED <<scene, chainVars, heads, recent, history, live, page, left>>
HeadsLand ==
    /\ flight # <<>>
    /\ heads' = IF flight[1].ok THEN <<[value |-> flight[1].value, until |-> tip + HeadsTTL]>> ELSE heads
    /\ live' = WithHeads(live, TRUE, flight[1].value, flight[1].ok)
    /\ page' = WithHeads(page, FALSE, flight[1].value, flight[1].ok)
    /\ flight' = <<>>
    /\ UNCHANGED <<scene, chainVars, recent, history, left>>

-----------------------------------------------------------------------------
(* /live: the parts that follow the heads, in any order. *)
Live == live[1]
LiveStart ==
    /\ live = <<>> /\ left.live > 0 /\ tip >= scene.asked
    /\ live' = <<Request({"heads"})>>
    /\ left' = [left EXCEPT !.live = @ - 1]
    /\ UNCHANGED <<scene, chainVars, cacheVars, page>>

LogsFrom(h) == IF h.final > LogsBack THEN h.final - LogsBack ELSE 1
ReadsLogs == scene.chain = "evm" /\ ~scene.coin
LiveLogs(timed, ok) ==
    /\ ReadsLogs /\ Waits(live, "newest")
    /\ live' = IF Live.heads.latest = 0 THEN Without(live, "newest")
               ELSE IF ~ok THEN Failing(live, "newest")
               ELSE <<[Without(live, "newest")[1] EXCEPT
                          !.rows = SortedDesc(Logs(Mined(Index(tip)), LogsFrom(Live.heads), Live.heads.latest, timed)),
                          !.seen = {x \in Txs : at[x] \in (Live.heads.final + 1)..Live.heads.latest}]>>
    /\ UNCHANGED <<scene, chainVars, cacheVars, page, left>>

(* The newest page elsewhere, kept a moment for the next caller unless it   *)
(* is empty.  It shows a transaction unless newer ones fill the page.       *)
Upto(behind) == IF scene.chain = "sol" THEN TrueSafe("sol", tip) ELSE Below(tip, behind)
OnPage(ledger) ==
    LET size    == IF scene.chain = "btc" THEN PageSize ELSE RecentSize
        item(i) == IF scene.chain \in {"btc", "sol"} THEN ledger[i].tx ELSE i
    IN  {x \in Txs : /\ at[x] > 0 /\ \E i \in DOMAIN ledger : ledger[i].tx = x
                     /\ Cardinality({item(i) : i \in {j \in DOMAIN ledger : ledger[j].block >= at[x]}}) <= size}
RecentHit ==
    /\ ~ReadsLogs /\ Waits(live, "newest") /\ Fresh(recent)
    /\ live' = <<[Without(live, "newest")[1] EXCEPT !.rows = recent[1].rows, !.seen = recent[1].seen,
                                                    !.lost = recent[1].lost]>>
    /\ UNCHANGED <<scene, chainVars, cacheVars, page, left>>
RecentRead(behind, lost, ok) ==
    /\ ~ReadsLogs /\ Waits(live, "newest") /\ ~Fresh(recent)
    /\ live' = IF ~ok THEN Failing(live, "newest")
               ELSE LET rows == SortedDesc(Recent(scene.chain, scene.coin, Index(Upto(behind)), lost))
                    IN  <<[Without(live, "newest")[1] EXCEPT
                              !.rows = rows, !.seen = OnPage(Index(Upto(behind))), !.lost = lost,
                              !.todo = @ \cup IF rows = <<>> THEN {} ELSE {"keep"}]>>
    /\ UNCHANGED <<scene, chainVars, cacheVars, page, left>>
RecentKeep ==
    /\ Waits(live, "keep")
    /\ recent' = <<[rows |-> Live.rows, seen |-> Live.seen, lost |-> Live.lost, until |-> tip + RecentTTL]>>
    /\ live' = Without(live, "keep")
    /\ UNCHANGED <<scene, chainVars, heads, history, flight, page, left>>

LiveHistory ==
    /\ Waits(live, "history")
    /\ live' = <<[Without(live, "history")[1] EXCEPT !.old = IF Fresh(history) THEN history[1].rows ELSE <<>>]>>
    /\ UNCHANGED <<scene, chainVars, cacheVars, page, left>>

(* The balance: on Bitcoin the sums and the pages are two reads. *)
LiveSums(ok) ==
    /\ Waits(live, "sums")
    /\ live' = IF ~ok THEN Failing(live, "sums")
               ELSE <<[Without(live, "sums")[1] EXCEPT !.sums = BtcMined(at),
                                                       !.counted = FinalBalance(scene.chain, tip, at)]>>
    /\ UNCHANGED <<scene, chainVars, cacheVars, page, left>>
LiveList(ok) ==
    /\ Waits(live, "list")
    /\ live' = IF ~ok THEN Failing(live, "list") ELSE <<[Without(live, "list")[1] EXCEPT !.list = at]>>
    /\ UNCHANGED <<scene, chainVars, cacheVars, page, left>>

Balance(r) ==
    LET counted == IF scene.chain = "btc" THEN BtcFinal(r.sums, r.list, r.heads.final) ELSE r.counted
        shown   == scene.chain # "btc" \/ BtcShown(scene.moves, counted, r.list, r.heads.final)
    IN  IF r.errs \cap {"sums", "list"} = {} /\ shown THEN <<counted>> ELSE <<>>

Analysed(rows, store) == ApplyFlags(LocalHits(rows, scene.chain = "evm", store), scene.chain = "evm")
Graded(rows, h) ==
    [i \in DOMAIN rows |-> [row |-> rows[i].row, flags |-> rows[i].flags, level |-> Level(scene.chain, rows[i].row, h)]]
Answer(r, isLive, rows) ==
    [live |-> isLive, rows |-> Graded(rows, r.heads), cut |-> r.cut, errs |-> r.errs, truth |-> r.truth,
     seen |-> r.seen, lost |-> r.lost, latest |-> LatestOf(rows), alerts |-> IF isLive THEN Alerts(rows, r.began) ELSE {},
     balance |-> Balance(r),
     moved |-> {x \in Txs : (x \in r.sums) # (r.list[x] > 0)}]

LiveRespond(store) ==
    /\ live # <<>> /\ Live.todo = {}
    /\ answer' = <<Answer(Live, TRUE, Analysed(Merged(Live.rows, <<>>, Live.old), store))>>
    /\ live' = <<>>
    /\ UNCHANGED <<scene, chainVars, cacheVars, page, left>>

-----------------------------------------------------------------------------
(* /history: one read of the pages, kept for the next callers.              *)
Page == page[1]
PageStart ==
    /\ page = <<>> /\ left.page > 0 /\ tip >= scene.asked
    /\ page' = <<Request({"heads"} \cup IF scene.chain = "sol" THEN {} ELSE {"fetch"})>>
    /\ left' = [left EXCEPT !.page = @ - 1]
    /\ UNCHANGED <<scene, chainVars, cacheVars, live>>
PageHit ==
    /\ Waits(page, "fetch") /\ Fresh(history)
    /\ page' = <<[Without(page, "fetch")[1] EXCEPT !.rows = history[1].rows, !.cut = history[1].cut,
                                                    !.truth = history[1].truth, !.lost = history[1].lost]>>
    /\ UNCHANGED <<scene, chainVars, cacheVars, live, left>>
PageRead(behind, lost, solid, answers, ok) ==
    /\ Waits(page, "fetch") /\ ~Fresh(history)
    /\ page' = IF ~ok THEN Failing(page, "fetch")
               ELSE LET from == Page.began - Window
                        read == History(scene.chain, scene.coin, Index(Upto(behind)), from, lost,
                                        solid, answers)
                    IN  <<[Page EXCEPT !.todo = (@ \ {"fetch"}) \cup {"land"}, !.rows = read.rows, !.cut = read.cut,
                               !.truth = {x \in Txs : at[x] \in 1..Upto(behind) /\ at[x] >= from}, !.lost = lost]>>
    /\ UNCHANGED <<scene, chainVars, cacheVars, live, left>>
PageLand ==
    /\ Waits(page, "land")
    /\ history' = <<[rows |-> Page.rows, cut |-> Page.cut, truth |-> Page.truth, lost |-> Page.lost,
                     until |-> tip + HistoryTTL]>>
    /\ page' = Without(page, "land")
    /\ UNCHANGED <<scene, chainVars, heads, recent, flight, live, left>>
PageRespond(store) ==
    /\ page # <<>> /\ Page.todo = {}
    /\ answer' = <<Answer(Page, FALSE, Analysed(Page.rows, store))>>
    /\ page' = <<>>
    /\ UNCHANGED <<scene, chainVars, cacheVars, live, left>>

-----------------------------------------------------------------------------
Init ==
    /\ scene \in Scenes
    /\ tip = 1 /\ reorgs = 0
    /\ at = [x \in DOMAIN scene.moves |-> -1]
    /\ heads = <<>> /\ recent = <<>> /\ history = <<>> /\ flight = <<>>
    /\ live = <<>> /\ page = <<>> /\ answer = <<>>
    /\ left = [live |-> scene.lives, page |-> scene.pages]

(* Transactions that are listed but that no node returns; the time of the   *)
(* newest solid block of TRON, 0 when it cannot be read.                    *)
Solid == {TrueFinal(scene.chain, tip)} \cup IF scene.chain = "tron" THEN {0} ELSE {}
Lost == IF scene.chain = "sol" THEN {{}} \cup {{x} : x \in {y \in Txs : at[y] > TrueFinal("sol", tip)}} ELSE {{}}
Quiet ==
    \/ \E x \in Txs : Broadcast(x)
    \/ \E mined \in SUBSET Txs : Tick(mined)
    \/ \E height \in 1..tip, back \in {-1, 0} : Reorg(height, back)
    \/ Lapse \/ HeadsHit \/ HeadsLand
    \/ \E behind \in scene.behind, ok \in scene.oks : HeadsFetch(behind, ok)
    \/ LiveStart \/ RecentHit \/ RecentKeep \/ LiveHistory
    \/ \E timed \in BOOLEAN, ok \in scene.oks : LiveLogs(timed, ok)
    \/ \E behind \in scene.index, lost \in Lost, ok \in scene.oks : RecentRead(behind, lost, ok)
    \/ \E ok \in scene.oks : LiveSums(ok) \/ LiveList(ok)
    \/ PageStart \/ PageHit \/ PageLand
    \/ \E behind \in scene.index, lost \in Lost, solid \in Solid, answers \in BOOLEAN, ok \in scene.oks :
           PageRead(behind, lost, solid, answers, ok)
Next == \/ Quiet /\ answer' = <<>>
        \/ \E store \in scene.stores : LiveRespond(store) \/ PageRespond(store)
Spec == Init /\ [][Next]_vars

-----------------------------------------------------------------------------
(* Properties.  They speak of the answer just given.                        *)
Answered == answer # <<>>
Said == answer[1]
Move(m, r) == /\ m.token = r.token /\ m.dir = r.dir /\ m.party = r.party /\ m.value = r.value
Copies(x, r) == Cardinality({i \in DOMAIN Made[x] : Move(Made[x][i], r)})
Shown(rows, x, r) == Cardinality({i \in DOMAIN rows : rows[i].row.tx = x /\ Kind(rows[i].row) = Kind(r)})

(* A row called FINALIZED names a transaction that is in the chain, at or   *)
(* below the final head: neither the minute a history is cached nor the     *)
(* heads read at another moment, from a node that is behind, let a replaced *)
(* transfer pass (classifyEVM, classifyBTC, classifySolana over cached rows *)
(* and heads).  TRON is not promised this: its final head is as young as    *)
(* the cached rows.  And the balance called final holds no payment that is  *)
(* not final, except one that was mined between the two reads Bitcoin's     *)
(* needs (fetchBTCBalances).                                                *)
FinalIsFinal ==
    Answered =>
        /\ scene.chain # "tron" =>
              \A i \in DOMAIN Said.rows : Said.rows[i].level = "FINALIZED" =>
                  at[Said.rows[i].row.tx] \in 1..TrueFinal(scene.chain, tip)
        /\ Said.live /\ Said.balance # <<>> =>
              \A x \in Txs \ Said.moved : Said.balance[1][x] = 1 =>
                  at[x] \in 1..TrueFinal(scene.chain, tip) \/ reorgs > 0

(* A transfer shows once, however many of the three sources report it, and  *)
(* one that a transaction makes twice shows twice (mergeTxs).  /live leaves *)
(* out no incoming payment that its sources showed; a history that reports  *)
(* no error and no cut leaves out none of its window: in or out, in the     *)
(* asset's own or a bridged token, from every page, list and source that    *)
(* together make it (fetch*History).  Solana is the exception to both: a    *)
(* signature whose transaction every node still answers with null is left   *)
(* out, with no error and no cut (fetchSolanaTxDetails).                    *)
Promised(m) == /\ m.token \in Registry /\ ~m.failed /\ m.value > 0
               /\ ~(m.inner /\ scene.chain = "tron")
               /\ ~(m.inner /\ m.dir = "out")
ShownFully(x, m) ==
    LET r == Row(Entry(x, m, 0), 0, 0)
    IN  Promised(m) => Shown(Said.rows, x, r) >= Copies(x, r)
HistoryExact ==
    Answered =>
        /\ \A i \in DOMAIN Said.rows :
              LET r == Said.rows[i].row IN Shown(Said.rows, r.tx, r) <= Copies(r.tx, r)
        /\ Said.live /\ Said.errs \cap {"heads", "newest"} = {} =>
              \A x \in Said.seen \ Said.lost : \A i \in DOMAIN Made[x] :
                  Made[x][i].dir = "in" => ShownFully(x, Made[x][i])
        /\ ~Said.live /\ "fetch" \notin Said.errs /\ ~Said.cut =>
              \A x \in Said.truth \ Said.lost : \A i \in DOMAIN Made[x] : ShownFully(x, Made[x][i])

(* /live names a latest payment no older than any real one its sources      *)
(* showed when they were read: the logs of the blocks above the final head, *)
(* or the newest page (PaymentCheckLive, sortPayTxsDesc), but for what no   *)
(* node of Solana returned.                                                 *)
Height(r) == IF InMempool(r) THEN tip + 1 ELSE IF r.block > r.time THEN r.block ELSE r.time
LatestSeen ==
    Answered /\ Said.live /\ Said.errs \cap {"heads", "newest"} = {} =>
        \A x \in Said.seen \ Said.lost : \A i \in DOMAIN Made[x] :
            LET m == Made[x][i]
            IN  /\ m.dir = "in" /\ m.token \in Registry /\ ~m.failed /\ m.value = Real
                /\ ~(m.inner /\ scene.chain = "tron") /\ at[x] \in 1..tip
                => Said.latest # <<>> /\ (Height(Said.latest[1]) >= at[x] \/ reorgs > 0)

(* Once the owner has really paid an address, whatever an address with the  *)
(* same ends sends or receives is flagged, and /live warns of it, unless    *)
(* the owner had paid that one before (applyFlags).                         *)
Moment(r) == IF scene.chain = "evm" THEN r.block ELSE r.time
Precedes(r, s) == ~InMempool(r) /\ (InMempool(s) \/ Moment(r) < Moment(s))
Pays(x) == x.row.dir = "out" /\ Genuine(x.row) /\ x.row.value = Real /\ x.row.party \notin Known(Said.rows)
Imitates(x) == /\ x.row.party \in Parties /\ ~(x.row.dir = "out" /\ x.row.failed)
               /\ x.row.dir = "in" \/ Genuine(x.row) \/ x.row.tier = "counterfeit"
LookalikesFlagged ==
    Answered => \A i, j \in DOMAIN Said.rows :
        LET a == Said.rows[i]
            b == Said.rows[j]
        IN  /\ Pays(a) /\ Imitates(b) /\ a.row.party \in Parties /\ Lookalike(a.row.party, b.row.party)
            /\ Precedes(a.row, b.row)
            /\ \A k \in DOMAIN Said.rows :
                  Pays(Said.rows[k]) /\ Said.rows[k].row.party = b.row.party
                      => Precedes(a.row, Said.rows[k].row)
            => /\ b.flags \cap {"lookalike", "sent_to_lookalike"} # {}
               /\ Said.live /\ InAlertWindow(b.row, tip) =>
                      \E p \in (IF "sent_to_lookalike" \in b.flags THEN 2 ELSE 1)..3 : <<b.row.tx, p>> \in Said.alerts
=============================================================================
