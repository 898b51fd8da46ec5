------------------------------ MODULE PayRows ------------------------------
(***************************************************************************)
(* What Payment Check lists for one receiving address: the pages it reads  *)
(* from each family of chains, the rows it makes of them, and the merge of *)
(* several lists into one.  A transfer that changed the chain is a *move*; *)
(* a row is what the code shows of it.  Amounts are classes: 0, Dust or    *)
(* Real.  The time of a block is its height.                               *)
(*                                                                         *)
(* A Bug... operator is a seeded fault: the definition after it as a       *)
(* plausible mistake would write it, used only to test the properties.     *)
(***************************************************************************)
EXTENDS Integers, Sequences, FiniteSets, Ranks

CONSTANTS MaxRows,      \* rows one history read keeps (1000; 200 pages of 200)
          PageSize,     \* rows of one page
          RecentSize,   \* rows of the page /live reads
          MaxPages,     \* Bitcoin pages one history read follows
          Lookups       \* block numbers asked for one by one on TRON

ASSUME LimitsAssumption ==
    {MaxRows, PageSize, RecentSize, MaxPages, Lookups} \subseteq Nat \ {0}

Dust == 1
Real == 2
Nobody == "nobody"

(* An entry of the ledger: a move, its transaction and its block (0: none). *)
Entry(tx, move, block) == [tx |-> tx, move |-> move, block |-> block]
Registry == {"own", "bridged"}
Tier(token) == CASE token = "own"     -> "native"
                 [] token = "bridged" -> "bridged"
                 [] token = "mimic"   -> "counterfeit"
                 [] OTHER             -> "other"
Row(e, block, time) ==
    [tx |-> e.tx, token |-> e.move.token, tier |-> Tier(e.move.token),
     dir |-> e.move.dir, party |-> e.move.party, value |-> e.move.value,
     failed |-> e.move.failed, block |-> block, time |-> time]

(* The address's ledger, newest first, up to the height its index reached;  *)
(* the transactions of the mempool come before every block.                 *)
Newer(at, x, y) == \/ at[x] = 0 /\ at[y] # 0
                   \/ at[y] # 0 /\ at[x] > at[y]
                   \/ at[x] = at[y] /\ x > y
Ledger(moves, at, upto) ==
    LET known == UNION {{x} \X DOMAIN moves[x] : x \in {y \in DOMAIN at : at[y] \in 0..upto}}
        order == InOrder(known, LAMBDA p, q : Newer(at, p[1], q[1]) \/ (p[1] = q[1] /\ p[2] < q[2]))
        of(p) == Entry(p[1], moves[p[1]][p[2]], at[p[1]])
    IN  [k \in DOMAIN order |-> of(order[k])]

InBlock(e) == e.block > 0
Mined(ledger) == Filter(ledger, InBlock)
First(list, n) == SubSeq(list, 1, IF Len(list) < n THEN Len(list) ELSE n)
TxCount(list)  == Cardinality({list[i].tx : i \in DOMAIN list})
FirstTxs(list, n) == Places(list, {i \in DOMAIN list : TxCount(SubSeq(list, 1, i)) <= n})
Since(list, from) == Filter(list, LAMBDA e : e.block >= from)
AllSince(list, from) == \A i \in DOMAIN list : list[i].block >= from
Rows(list) == [i \in DOMAIN list |-> Row(list[i], list[i].block, list[i].block)]

(* Tokens move in calls that succeed; a failed call leaves no event, only   *)
(* the transaction its sender signed.                                       *)
IsTransfer(e) == ~e.move.failed
IsCall(e)     == e.move.dir = "out" /\ ~e.move.inner
IsFailedCall(e) == IsCall(e) /\ e.move.failed /\ e.move.token \in Registry
(* The chain's own coin: what the converter of its two lists keeps. *)
IsCoinMove(e) == IF e.move.dir = "out" THEN e.move.failed \/ e.move.value > 0
                                       ELSE ~e.move.failed /\ e.move.value > 0
IsReceived(e) == e.move.dir = "in" /\ ~e.move.failed /\ e.move.value > 0

(* One newest-first page of an explorer: full when none of it is older.     *)
BugPageFull(page, from) == Len(page) > MaxRows /\ AllSince(page, from)
PageFull(page, from) == Len(page) >= MaxRows /\ AllSince(page, from)

Listed(rows, cut) == [rows |-> rows, cut |-> cut]

EvmTokenHistory(ledger, from) ==
    LET tokens == First(Filter(ledger, IsTransfer), MaxRows)
        calls  == First(Filter(ledger, IsCall), MaxRows)
    IN  Listed(Rows(Since(tokens, from) \o Filter(Since(calls, from), IsFailedCall)),
               PageFull(tokens, from) \/ PageFull(calls, from))

EvmCoinPages(ledger, size) ==
    [calls |-> First(Filter(ledger, LAMBDA e : ~e.move.inner), size),
     inner |-> First(Filter(ledger, LAMBDA e : e.move.inner), size)]
EvmCoinRows(pages, from) ==
    Rows(Filter(Since(pages.calls, from), IsCoinMove) \o Filter(Since(pages.inner, from), IsReceived))
EvmCoinHistory(ledger, from) ==
    LET pages == EvmCoinPages(ledger, MaxRows)
    IN  Listed(EvmCoinRows(pages, from), PageFull(pages.calls, from) \/ PageFull(pages.inner, from))

(* TRON token rows carry a time and no block.  The newest few that are not  *)
(* failed nor solid get the block the node answers, if it answers.          *)
TronTokenRow(e) == Row(e, 0, e.block)
Unsolid(row, solid) == row.block = 0 /\ ~row.failed /\ row.time > solid
LookedUp(rows, solid, answers) ==
    LET ask(i) == /\ Unsolid(rows[i], solid)
                  /\ Cardinality({j \in 1..i : Unsolid(rows[j], solid)}) <= Lookups
    IN  [i \in DOMAIN rows |-> IF answers /\ ask(i) THEN [rows[i] EXCEPT !.block = rows[i].time]
                                                    ELSE rows[i]]
TronTokenHistory(ledger, from) ==
    LET window   == Since(ledger, from)
        registry == Filter(window, LAMBDA e : IsTransfer(e) /\ e.move.token \in Registry)
        page     == First(Filter(window, IsTransfer), PageSize)
        calls    == First(Filter(window, IsCall), PageSize)
        foreign  == Filter(page, LAMBDA e : e.move.token \notin Registry)
        tokens   == First(registry, MaxRows) \o foreign
    IN  Listed([i \in DOMAIN tokens |-> TronTokenRow(tokens[i])] \o Rows(Filter(calls, IsFailedCall)),
               Len(registry) > MaxRows)

(* TRX: the transactions of the account; calls of contracts are not listed. *)
IsTrxMove(e) == ~e.move.inner /\ (e.move.dir = "out" \/ ~e.move.failed)
TronCoinHistory(ledger, from) ==
    LET window == Filter(Since(ledger, from), LAMBDA e : ~e.move.inner)
    IN  Listed(Rows(Filter(First(window, MaxRows), IsTrxMove)), Len(window) > MaxRows)

(* Bitcoin: what convertBTCTx makes of the outputs of one transaction.  A   *)
(* move in is an output to the address, paid by others; a move out is an    *)
(* output of a transaction the address paid, to Nobody when it is its own   *)
(* change.  Received outputs are one row, of the largest payer; sent ones   *)
(* are one row per recipient, in the order they first appear, without the   *)
(* change, or all of it when there is nothing else.  The sum of amounts is  *)
(* of the largest class among them.                                         *)
Largest(list) == IF \E i \in DOMAIN list : list[i].value = Real THEN Real
               ELSE IF \E i \in DOMAIN list : list[i].value = Dust THEN Dust ELSE 0
AsOne(list) == <<[list[1] EXCEPT !.value = Largest(list)]>>
To(list, party) == Filter(list, LAMBDA m : m.party = party)
PerParty(list) ==
    LET first == Places(list, {i \in DOMAIN list : \A j \in 1..(i - 1) : list[j].party # list[i].party})
    IN  [i \in DOMAIN first |-> [first[i] EXCEPT !.value = Largest(To(list, first[i].party))]]
BtcConverted(moves) ==
    LET sent == Filter(moves, LAMBDA m : m.dir = "out")
        paid == Filter(sent, LAMBDA m : m.party # Nobody)
    IN  IF sent = <<>> THEN AsOne(moves) ELSE IF paid = <<>> THEN AsOne(sent) ELSE PerParty(paid)

(* The mempool and pages of whole transactions, until a block before from.  *)
BtcUntil(list, from) ==
    LET old == {i \in DOMAIN list : InBlock(list[i]) /\ list[i].block < from}
    IN  IF old = {} THEN list ELSE SubSeq(list, 1, (CHOOSE i \in old : \A j \in old : i <= j) - 1)
BtcPages(ledger, pages) ==
    Filter(ledger, LAMBDA e : ~InBlock(e)) \o FirstTxs(Mined(ledger), pages * PageSize)
BtcHistory(ledger, from) ==
    LET read == BtcPages(ledger, MaxPages)
    IN  Listed(Rows(BtcUntil(read, from)),
               /\ TxCount(Mined(ledger)) > (MaxPages - 1) * PageSize
               /\ BtcUntil(read, from) = read)

(* Solana: signatures, newest first, then each transaction; one that no     *)
(* node can return yet is left out, and nothing says so.                    *)
Returned(list, lost) == Filter(list, LAMBDA e : e.tx \notin lost)
SolHistory(ledger, from, lost) ==
    LET window == Since(ledger, from)
    IN  Listed(Rows(Returned(FirstTxs(window, MaxRows), lost)), TxCount(window) > MaxRows)

(* What /live reads of the newest transactions, and for tokens of an EVM    *)
(* chain the transfer events of the blocks from..to; a node may leave their *)
(* times out.                                                               *)
Recent(chain, coin, ledger, lost) ==
    CASE chain = "btc"           -> Rows(BtcPages(ledger, 1))
      [] chain = "sol"           -> Rows(Returned(FirstTxs(Mined(ledger), RecentSize), lost))
      [] chain = "tron" /\ coin  -> Rows(Filter(First(Filter(Mined(ledger), LAMBDA e : ~e.move.inner), RecentSize), IsTrxMove))
      [] chain = "tron" /\ ~coin ->
            LET page == First(Filter(Mined(ledger), LAMBDA e : IsTransfer(e) /\ e.move.token \in Registry), RecentSize)
            IN  [i \in DOMAIN page |-> TronTokenRow(page[i])]
      [] OTHER                   -> EvmCoinRows(EvmCoinPages(Mined(ledger), RecentSize), 0)
IsLog(e) == IsTransfer(e) /\ e.move.dir = "in" /\ e.move.token \in Registry
Logs(ledger, from, to, timed) ==
    LET hits == Filter(ledger, LAMBDA e : e.block \in from..to /\ IsLog(e))
    IN  [i \in DOMAIN hits |-> Row(hits[i], hits[i].block, IF timed THEN hits[i].block ELSE 0)]

(* sortPayTxsDesc: what is in no block first; by block when every row has   *)
(* one, by time otherwise.                                                  *)
InMempool(r) == r.block = 0 /\ r.time = 0
After(x, y) == \/ x[1] > y[1]
               \/ x[1] = y[1] /\ x[2] > y[2]
               \/ x[1] = y[1] /\ x[2] = y[2] /\ x[3] > y[3]
RowBefore(r, s, byBlock) ==
    IF InMempool(r) # InMempool(s) THEN InMempool(r)
    ELSE IF byBlock THEN After(<<r.block, r.time, r.tx>>, <<s.block, s.time, s.tx>>)
                    ELSE After(<<r.time, r.block, r.tx>>, <<s.time, s.block, s.tx>>)
BugByBlock(rows) == TRUE
ByBlock(rows) == \A i \in DOMAIN rows : rows[i].block # 0
SortedDesc(rows) ==
    LET byBlock == ByBlock(rows)
        order   == InOrder(DOMAIN rows, LAMBDA i, j : \/ RowBefore(rows[i], rows[j], byBlock)
                                                      \/ ~RowBefore(rows[j], rows[i], byBlock) /\ i < j)
    IN  [i \in DOMAIN rows |-> rows[order[i]]]

(* What a history read answers, for the family of the chain and the asset.  *)
Pages(chain, coin, ledger, from, lost) ==
    CASE chain = "btc"            -> BtcHistory(ledger, from)
      [] chain = "sol"            -> SolHistory(Mined(ledger), from, lost)
      [] chain = "tron" /\ coin   -> TronCoinHistory(Mined(ledger), from)
      [] chain = "tron" /\ ~coin  -> TronTokenHistory(Mined(ledger), from)
      [] chain = "evm" /\ coin    -> EvmCoinHistory(Mined(ledger), from)
      [] OTHER                    -> EvmTokenHistory(Mined(ledger), from)
History(chain, coin, ledger, from, lost, solid, answers) ==
    LET read   == Pages(chain, coin, ledger, from, lost)
        sorted == SortedDesc(read.rows)
    IN  Listed(IF chain = "tron" /\ ~coin THEN LookedUp(sorted, solid, answers) ELSE sorted, read.cut)

(* mergeTxs: a row is the n-th of its kind in its list; the first list that *)
(* has it wins, and the later ones fill in what it lacks.                   *)
Kind(r) == <<r.tx, r.token, r.dir, r.party, r.value>>
Occurrence(list, i) == Cardinality({j \in 1..(i - 1) : Kind(list[j]) = Kind(list[i])})
Keyed(list) == [i \in DOMAIN list |-> [key |-> <<Kind(list[i]), Occurrence(list, i)>>, row |-> list[i]]]
Filled(list, i) ==
    LET same        == {j \in DOMAIN list : list[j].key = list[i].key}
        found(some) == CHOOSE j \in some : \A k \in some : j <= k
        blocks == {j \in same : list[j].row.block # 0}
        times  == {j \in same : list[j].row.time # 0}
    IN  [list[i].row EXCEPT !.block = IF blocks = {} THEN 0 ELSE list[found(blocks)].row.block,
                            !.time = IF times = {} THEN 0 ELSE list[found(times)].row.time,
                            !.failed = \E j \in same : list[j].row.failed]
Merged(logs, recent, history) ==
    LET all   == Keyed(logs) \o Keyed(recent) \o Keyed(history)
        first == {i \in DOMAIN all : \A j \in 1..(i - 1) : all[j].key # all[i].key}
        rows  == [i \in DOMAIN all |-> Filled(all, i)]
    IN  SortedDesc(Places(rows, first))
=============================================================================
