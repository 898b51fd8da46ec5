------------------------- MODULE PaymentCheckProofs -------------------------
(***************************************************************************)
(* FinalIsFinal and LookalikesFlagged, for every chain, address, ledger,    *)
(* schedule of blocks and lag of the nodes that the ASSUMEs allow.          *)
(*                                                                          *)
(* FinalIsFinal.  A row is a claim, that a transaction is in a block; the   *)
(* lists a request works with hold claims that were so when they were read, *)
(* and the argument is about their age: a claim read since time t is so, or *)
(* names a block above t - MaxReorg (Standing).  Filters, sorts and merges  *)
(* make no new claims, which the first half shows; that no list grows older *)
(* than HistoryTTL and a request, and no head runs ahead, is the invariant  *)
(* (IInv).                                                                  *)
(*                                                                          *)
(* LookalikesFlagged is about one list, whatever is in it: a scan in time   *)
(* order fully trusts no two addresses that look alike, and takes full      *)
(* trust from none (ScanIs, TrustLasts).  So the one the owner paid first   *)
(* is trusted when its imitator's row is scanned, and the imitator is not.  *)
(***************************************************************************)
EXTENDS PaymentCheck, SumProofs, SequenceTheorems, TLAPS

-----------------------------------------------------------------------------
(* Sorting and filtering by rank *)

StrictOrder(S, before) ==
  /\ \A x \in S : <<x, x>> \notin before
  /\ \A x, y \in S : x # y => <<x, y>> \in before \/ <<y, x>> \in before
  /\ \A x, y, z \in S : <<x, y>> \in before /\ <<y, z>> \in before => <<x, z>> \in before

\* The ranks of a finite set are the numbers below its size, each of one element.
LEMMA RanksAreOnto ==
  ASSUME NEW S, IsFiniteSet(S), NEW before, StrictOrder(S, before)
  PROVE  /\ Cardinality(S) \in Nat
         /\ \A x \in S : Rank(S, before, x) \in 0..(Cardinality(S) - 1)
         /\ \A x, y \in S : Rank(S, before, x) = Rank(S, before, y) => x = y
         /\ \A k \in 1..Cardinality(S) : \E x \in S : Rank(S, before, x) = k - 1
<1> DEFINE n == Cardinality(S)
           Under(x) == {y \in S : <<y, x>> \in before}
           f == [x \in S |-> Cardinality(Under(x))]
<1>1. n \in Nat BY FS_CardinalityType
<1>2. ASSUME NEW x \in S PROVE IsFiniteSet(Under(x)) /\ Cardinality(Under(x)) \in 0..(n - 1)
  <2>1. Under(x) \in SUBSET (S \ {x}) BY DEF StrictOrder
  <2>2. IsFiniteSet(S \ {x}) /\ Cardinality(S \ {x}) = n - 1 BY FS_RemoveElement
  <2> HIDE DEF Under
  <2>3. IsFiniteSet(Under(x)) /\ Cardinality(Under(x)) <= n - 1 BY <2>1, <2>2, FS_Subset
  <2> QED BY <1>1, <2>3, FS_CardinalityType
<1>3. ASSUME NEW x \in S, NEW y \in S, <<x, y>> \in before PROVE f[x] # f[y]
  <2>1. Under(x) \in SUBSET Under(y) BY <1>3 DEF StrictOrder
  <2>2. x \in Under(y) /\ x \notin Under(x) BY <1>3 DEF StrictOrder
  <2>3. Under(x) # Under(y) BY <2>2
  <2>4. IsFiniteSet(Under(y)) BY <1>2
  <2> HIDE DEF Under
  <2>5. Cardinality(Under(y)) # Cardinality(Under(x)) BY <2>1, <2>3, <2>4, FS_Subset
  <2> QED BY <2>5
<1>4. \A x, y \in S : f[x] = f[y] => x = y BY <1>3 DEF StrictOrder
<1>5. f \in Injection(S, 0..(n - 1))
  <2>1. f \in [S -> 0..(n - 1)] BY <1>2
  <2> QED BY <1>4, <2>1 DEF Injection, IsInjective
<1>6. IsFiniteSet(0..(n - 1)) /\ Cardinality(0..(n - 1)) = n
  <2>1. PICK m \in Int : m = n - 1 BY <1>1
  <2>2. IsFiniteSet(0..m) /\ Cardinality(0..m) = IF 0 > m THEN 0 ELSE m - 0 + 1 BY FS_Interval
  <2> QED BY <1>1, <2>1, <2>2
<1>7. f \in Surjection(S, 0..(n - 1)) BY <1>5, <1>6, FS_Injection
<1>8. ASSUME NEW k \in 1..n PROVE \E x \in S : f[x] = k - 1
  <2>1. k - 1 \in 0..(n - 1) BY <1>1
  <2> QED BY <1>7, <2>1 DEF Surjection
<1>9. \A x \in S : f[x] = Rank(S, before, x) BY DEF Rank
<1> HIDE DEF f
<1> QED BY <1>1, <1>2, <1>4, <1>8, <1>9 DEF Rank

\* And they grow along the order.
LEMMA RankGrows ==
  ASSUME NEW S, IsFiniteSet(S), NEW before, StrictOrder(S, before), NEW x \in S, NEW y \in S, <<x, y>> \in before
  PROVE  Rank(S, before, x) < Rank(S, before, y)
<1> DEFINE Under(z) == {w \in S : <<w, z>> \in before}
<1>1. Under(x) \in SUBSET Under(y) BY DEF StrictOrder
<1>2. x \in Under(y) /\ x \notin Under(x) BY DEF StrictOrder
<1>3. Under(x) # Under(y) BY <1>2
<1>4. Under(y) \in SUBSET S OBVIOUS
<1> HIDE DEF Under
<1>5. IsFiniteSet(Under(y)) BY <1>4, FS_Subset
<1>6. IsFiniteSet(Under(x)) /\ Cardinality(Under(x)) <= Cardinality(Under(y)) /\ Cardinality(Under(x)) # Cardinality(Under(y))
  BY <1>1, <1>3, <1>5, FS_Subset
<1>7. Cardinality(Under(x)) \in Nat /\ Cardinality(Under(y)) \in Nat BY <1>5, <1>6, FS_CardinalityType
<1>8. Cardinality(Under(x)) < Cardinality(Under(y)) BY <1>6, <1>7
<1> QED BY <1>8 DEF Rank, Under

\* So the k-th element is one of the set, and every element comes once.
LEMMA OrderedIs ==
  ASSUME NEW S, IsFiniteSet(S), NEW before, StrictOrder(S, before)
  PROVE  /\ Cardinality(S) \in Nat /\ Ordered(S, before) \in [1..Cardinality(S) -> S]
         /\ \A k \in 1..Cardinality(S) : Rank(S, before, Ordered(S, before)[k]) = k - 1
         /\ \A x \in S : \E k \in 1..Cardinality(S) : Ordered(S, before)[k] = x
<1> DEFINE n == Cardinality(S)
<1>1. n \in Nat BY RanksAreOnto
<1>2. ASSUME NEW k \in 1..n
      PROVE  Ordered(S, before)[k] \in S /\ Rank(S, before, Ordered(S, before)[k]) = k - 1
  <2>1. \E x \in S : Rank(S, before, x) = k - 1 BY RanksAreOnto
  <2> QED BY <2>1 DEF Ordered
<1>3. Ordered(S, before) \in [1..n -> S] BY <1>2 DEF Ordered
<1>4. ASSUME NEW x \in S PROVE \E k \in 1..n : Ordered(S, before)[k] = x
  <2>1. Rank(S, before, x) \in 0..(n - 1) BY RanksAreOnto
  <2>2. Rank(S, before, x) + 1 \in 1..n BY <1>1, <2>1
  <2>3. Rank(S, before, Ordered(S, before)[Rank(S, before, x) + 1]) = Rank(S, before, x) BY <1>1, <1>2, <2>1, <2>2
  <2> QED BY <1>2, <2>2, <2>3, RanksAreOnto
<1> QED BY <1>1, <1>2, <1>3, <1>4

\* The places of a list, in its order.
LEMMA PlacesAre ==
  ASSUME NEW A, NEW list \in Seq(A), NEW some \in SUBSET DOMAIN list
  PROVE  /\ Places(list, some) \in Seq(A) /\ Len(Places(list, some)) = Cardinality(some)
         /\ \A k \in DOMAIN Places(list, some) : \E i \in some : Places(list, some)[k] = list[i]
<1> DEFINE before == {p \in some \X some : p[1] < p[2]}
           order == Ordered(some, before)
<1>1. Len(list) \in Nat /\ DOMAIN list = 1..Len(list) OBVIOUS
<1>2. IsFiniteSet(some)
  <2>1. IsFiniteSet(1..Len(list)) BY <1>1, FS_Interval
  <2> QED BY <1>1, <2>1, FS_Subset
<1>3. \A x, y \in some : <<x, y>> \in before <=> x < y OBVIOUS
<1>4. StrictOrder(some, before)
  <2>1. \A x \in some : x \in Int BY <1>1
  <2> HIDE DEF before
  <2> QED BY <1>3, <2>1 DEF StrictOrder
<1>5. Places(list, some) = [k \in DOMAIN order |-> list[order[k]]] BY DEF Places, InOrder
<1> HIDE DEF before
<1>6. Cardinality(some) \in Nat /\ order \in [1..Cardinality(some) -> some] BY <1>2, <1>4, OrderedIs
<1> HIDE DEF order
<1>7. Places(list, some) \in [1..Cardinality(some) -> A] BY <1>1, <1>5, <1>6
<1>8. Places(list, some) \in Seq(A) BY <1>6, <1>7
<1> QED BY <1>5, <1>6, <1>7, <1>8

-----------------------------------------------------------------------------
(* Entries and rows.  What is said of them is said of a set G: where a      *)
(* transaction and a block may be found together.                           *)

Tiers == {"native", "bridged", "counterfeit", "other"}
RowType ==
  [tx : Nat, token : Registry \cup {"mimic", "fake"}, tier : Tiers, dir : {"in", "out"},
   party : Parties \cup {Nobody}, value : {0, Dust, Real}, failed : BOOLEAN, block : Nat, time : Nat]
EntriesIn(T, G) ==
  {e \in [tx : T, move : Moves, block : Nat] : e.block = 0 \/ <<e.tx, e.block>> \in G}
RowsIn(T, G) == {r \in RowType : r.tx \in T /\ (r.block = 0 \/ <<r.tx, r.block>> \in G)}

LEMMA RowOfEntry ==
  ASSUME NEW T \in SUBSET Nat, NEW G, NEW e \in EntriesIn(T, G), NEW time \in Nat
  PROVE  Row(e, e.block, time) \in RowsIn(T, G)
<1>1. Tier(e.move.token) \in Tiers BY DEF Tier, Tiers
<1>2. e.move \in Moves /\ e.tx \in T /\ e.block \in Nat BY DEF EntriesIn
<1>3. Row(e, e.block, time) \in RowType BY <1>1, <1>2 DEF Row, RowType, Moves
<1> QED BY <1>3 DEF Row, RowsIn, EntriesIn

LEMMA RowsOfEntries ==
  ASSUME NEW T \in SUBSET Nat, NEW G, NEW list \in Seq(EntriesIn(T, G))
  PROVE  Rows(list) \in Seq(RowsIn(T, G))
<1>1. Len(list) \in Nat /\ DOMAIN list = 1..Len(list) OBVIOUS
<1>2. ASSUME NEW i \in DOMAIN list PROVE Row(list[i], list[i].block, list[i].block) \in RowsIn(T, G)
  <2>1. list[i] \in EntriesIn(T, G) OBVIOUS
  <2>2. list[i].block \in Nat BY <2>1 DEF EntriesIn
  <2> QED BY <2>1, <2>2, RowOfEntry
<1>3. Rows(list) \in [1..Len(list) -> RowsIn(T, G)] BY <1>1, <1>2 DEF Rows
<1> QED BY <1>1, <1>3

\* The first few entries, and those since a time, are entries.
LEMMA FirstOf ==
  ASSUME NEW A, NEW list \in Seq(A), NEW n \in Nat
  PROVE  First(list, n) \in Seq(A)
<1>1. Len(list) \in Nat OBVIOUS
<1>2. (IF Len(list) < n THEN Len(list) ELSE n) \in 0..Len(list) BY <1>1
<1> QED BY <1>2, SubSeqProperties DEF First

LEMMA FirstTxsOf ==
  ASSUME NEW A, NEW list \in Seq(A), NEW n
  PROVE  FirstTxs(list, n) \in Seq(A)
<1> DEFINE early == {i \in DOMAIN list : TxCount(SubSeq(list, 1, i)) <= n}
<1>1. early \in SUBSET DOMAIN list OBVIOUS
<1>2. FirstTxs(list, n) = Places(list, early) BY DEF FirstTxs
<1> HIDE DEF early
<1> QED BY <1>1, <1>2, PlacesAre

LEMMA SinceIs ==
  ASSUME NEW A, NEW list \in Seq(A), NEW from
  PROVE  Since(list, from) \in Seq(A)
<1>1. {i \in DOMAIN list : list[i].block >= from} \in SUBSET DOMAIN list OBVIOUS
<1>2. Since(list, from) = Places(list, {i \in DOMAIN list : list[i].block >= from}) BY DEF Since, Filter
<1> QED BY <1>1, <1>2, PlacesAre

LEMMA MinedIs ==
  ASSUME NEW A, NEW list \in Seq(A)
  PROVE  Mined(list) \in Seq(A)
<1>1. {i \in DOMAIN list : InBlock(list[i])} \in SUBSET DOMAIN list OBVIOUS
<1>2. Mined(list) = Places(list, {i \in DOMAIN list : InBlock(list[i])}) BY DEF Mined, Filter
<1> QED BY <1>1, <1>2, PlacesAre

\* Blocks from the top, the mempool (0) before them; then by two more numbers.
Ahead(a, x, i, b, y, j) ==
  \/ a = 0 /\ b # 0
  \/ b # 0 /\ a > b
  \/ a = b /\ x > y
  \/ a = b /\ x = y /\ i < j

LEMMA AheadIsTotal ==
  \A a, x, i, b, y, j \in Nat :
     x # y \/ (a = b /\ i # j) => Ahead(a, x, i, b, y, j) \/ Ahead(b, y, j, a, x, i)
BY DEF Ahead

\* The ledger is finite, and ordered: newest first, in a transaction by place.
LEMMA LedgerIs ==
  ASSUME NEW moves \in Seq(Seq(Moves)), NEW where \in [DOMAIN moves -> Int], NEW upto \in Nat, NEW G,
         \A x \in DOMAIN where : where[x] \in 1..upto => <<x, where[x]>> \in G
  PROVE  Ledger(moves, where, upto) \in Seq(EntriesIn(DOMAIN where, G))
<1> DEFINE shown == {x \in DOMAIN where : where[x] \in 0..upto}
           of == [x \in shown |-> {x} \X DOMAIN moves[x]]
           known == UNION {{x} \X DOMAIN moves[x] : x \in shown}
           Earlier(p, q) == Newer(where, p[1], q[1]) \/ (p[1] = q[1] /\ p[2] < q[2])
           before == {pq \in known \X known : Earlier(pq[1], pq[2])}
           order == Ordered(known, before)
<1>1. Len(moves) \in Nat /\ DOMAIN moves = 1..Len(moves) /\ DOMAIN where = 1..Len(moves)
  OBVIOUS
<1>2. ASSUME NEW x \in shown
      PROVE  /\ moves[x] \in Seq(Moves) /\ Len(moves[x]) \in Nat /\ DOMAIN moves[x] = 1..Len(moves[x])
             /\ where[x] \in Nat /\ x \in Nat
  <2>1. x \in 1..Len(moves) BY <1>1
  <2>2. moves[x] \in Seq(Moves) BY <2>1, ElementOfSeq
  <2> QED BY <2>1, <2>2, <1>1
<1>3. IsFiniteSet(shown)
  <2>1. IsFiniteSet(1..Len(moves)) BY <1>1, FS_Interval
  <2>2. shown \in SUBSET (1..Len(moves)) BY <1>1
  <2> HIDE DEF shown
  <2> QED BY <2>1, <2>2, FS_Subset
<1>4. IsFiniteSet(known)
  <2> DEFINE parts == {{x} \X DOMAIN moves[x] : x \in shown}
  <2>1. \A x \in shown : IsFiniteSet({x} \X DOMAIN moves[x])
    <3> TAKE x \in shown
    <3>1. IsFiniteSet({x}) BY FS_Singleton
    <3>2. PICK n \in Nat : n = Len(moves[x]) /\ DOMAIN moves[x] = 1..n BY <1>2
    <3>3. IsFiniteSet(DOMAIN moves[x]) BY <3>2, FS_Interval
    <3> QED BY <3>1, <3>3, FS_Product
  <2>2. of \in Surjection(shown, parts) BY DEF Surjection
  <2> HIDE DEF of, shown
  <2>3. IsFiniteSet(parts) BY <1>3, <2>2, FS_Surjection
  <2>4. \A part \in parts : IsFiniteSet(part) BY <2>1
  <2> HIDE DEF parts
  <2>5. IsFiniteSet(UNION parts) BY <2>3, <2>4, FS_UNION
  <2> QED BY <2>5 DEF parts
<1>5. ASSUME NEW p \in known PROVE /\ p = <<p[1], p[2]>> /\ p[1] \in shown /\ p[2] \in DOMAIN moves[p[1]]
                                   /\ p[1] \in Nat /\ p[2] \in Nat /\ where[p[1]] \in Nat
  <2>1. PICK x \in shown : p \in {x} \X DOMAIN moves[x] OBVIOUS
  <2>2. p = <<p[1], p[2]>> /\ p[1] = x /\ p[2] \in DOMAIN moves[x] BY <2>1
  <2> HIDE DEF shown, known
  <2> QED BY <2>1, <2>2, <1>2
<1>6. \A p, q \in known : <<p, q>> \in before <=> Earlier(p, q) OBVIOUS
<1>7. StrictOrder(known, before)
  <2> HIDE DEF known, before, shown
  <2>1. \A p, q \in known : p # q => p[1] # q[1] \/ p[2] # q[2] BY <1>5
  <2>2. \A p \in known : p[1] \in Nat /\ p[2] \in Nat /\ where[p[1]] \in Nat BY <1>5
  <2> DEFINE Before(p, q) == Ahead(where[p[1]], p[1], p[2], where[q[1]], q[1], q[2])
  <2>3. \A p, q \in known : Earlier(p, q) <=> Before(p, q)
    <3> TAKE p, q \in known
    <3>1. p[1] = q[1] => where[p[1]] = where[q[1]] OBVIOUS
    <3> QED BY <3>1 DEF Newer, Ahead
  <2>4. \A p \in known : ~Before(p, p) BY <2>2 DEF Ahead
  <2>5. \A p, q \in known : p # q => Before(p, q) \/ Before(q, p)
    <3> SUFFICES ASSUME NEW p \in known, NEW q \in known, p # q PROVE Before(p, q) \/ Before(q, p) OBVIOUS
    <3>1. p[1] # q[1] \/ (where[p[1]] = where[q[1]] /\ p[2] # q[2]) BY <2>1
    <3>2. /\ p[1] \in Nat /\ p[2] \in Nat /\ where[p[1]] \in Nat
          /\ q[1] \in Nat /\ q[2] \in Nat /\ where[q[1]] \in Nat
      BY <2>2
    <3> QED BY ZenonT(20), <3>1, <3>2, AheadIsTotal
  <2>6. \A p, q, r \in known : Before(p, q) /\ Before(q, r) => Before(p, r)
    <3> SUFFICES ASSUME NEW p \in known, NEW q \in known, NEW r \in known, Before(p, q), Before(q, r)
                 PROVE  Before(p, r)
      OBVIOUS
    <3>1. /\ p[1] \in Nat /\ p[2] \in Nat /\ where[p[1]] \in Nat
          /\ q[1] \in Nat /\ q[2] \in Nat /\ where[q[1]] \in Nat
          /\ r[1] \in Nat /\ r[2] \in Nat /\ where[r[1]] \in Nat
      BY <2>2
    <3>2. PICK a \in Nat, x \in Nat, i \in Nat : a = where[p[1]] /\ x = p[1] /\ i = p[2] BY <3>1
    <3>3. PICK b \in Nat, y \in Nat, j \in Nat : b = where[q[1]] /\ y = q[1] /\ j = q[2] BY <3>1
    <3>4. PICK c \in Nat, z \in Nat, k \in Nat : c = where[r[1]] /\ z = r[1] /\ k = r[2] BY <3>1
    <3>5. Ahead(a, x, i, b, y, j) /\ Ahead(b, y, j, c, z, k) BY <3>2, <3>3, <3>4
    <3>6. Ahead(a, x, i, c, z, k) BY <3>5 DEF Ahead
    <3> QED BY <3>2, <3>4, <3>6
  <2> HIDE DEF Before
  <2> HIDE DEF Earlier
  <2> QED BY <1>6, <2>3, <2>4, <2>5, <2>6 DEF StrictOrder
<1>8. Ledger(moves, where, upto) = [k \in DOMAIN order |-> Entry(order[k][1], moves[order[k][1]][order[k][2]], where[order[k][1]])]
  BY DEF Ledger, InOrder
<1>9. \A p \in known : Entry(p[1], moves[p[1]][p[2]], where[p[1]]) \in EntriesIn(DOMAIN where, G)
  <2> TAKE p \in known
  <2>1. p[1] \in shown /\ p[2] \in DOMAIN moves[p[1]] BY <1>5
  <2>2. p[1] \in DOMAIN where /\ where[p[1]] \in 0..upto BY <2>1
  <2>3. moves[p[1]][p[2]] \in Moves BY <2>1, <1>2
  <2>4. where[p[1]] = 0 \/ <<p[1], where[p[1]]>> \in G BY <2>2
  <2> QED BY <2>2, <2>3, <2>4 DEF Entry, EntriesIn
<1> HIDE DEF known, before, shown
<1>10. Cardinality(known) \in Nat /\ order \in [1..Cardinality(known) -> known] BY <1>4, <1>7, OrderedIs
<1> HIDE DEF order
<1>11. Ledger(moves, where, upto) \in [1..Cardinality(known) -> EntriesIn(DOMAIN where, G)] BY <1>8, <1>9, <1>10
<1> QED BY <1>10, <1>11

-----------------------------------------------------------------------------
(* The pages of a history, and the newest ones *)

LEMMA EvmTokenRows ==
  ASSUME NEW T \in SUBSET Nat, NEW G, NEW ledger \in Seq(EntriesIn(T, G)), NEW from
  PROVE  EvmTokenHistory(ledger, from).rows \in Seq(RowsIn(T, G))
<1> DEFINE A == EntriesIn(T, G)
           moved  == Filter(ledger, IsTransfer)
           called == Filter(ledger, IsCall)
           failed == Filter(Since(First(called, MaxRows), from), IsFailedCall)
           tokens == Since(First(moved, MaxRows), from)
<1>0. MaxRows \in Nat BY LimitsAssumption
<1>1. moved \in Seq(A) /\ called \in Seq(A)
  <2>1. {i \in DOMAIN ledger : IsTransfer(ledger[i])} \in SUBSET DOMAIN ledger OBVIOUS
  <2>2. {i \in DOMAIN ledger : IsCall(ledger[i])} \in SUBSET DOMAIN ledger OBVIOUS
  <2> QED BY <2>1, <2>2, PlacesAre DEF Filter
<1> HIDE DEF moved, called, A
<1>2. tokens \in Seq(A) BY <1>0, <1>1, FirstOf, SinceIs
<1>3. Since(First(called, MaxRows), from) \in Seq(A) BY <1>0, <1>1, FirstOf, SinceIs
<1>4. failed \in Seq(A)
  <2> DEFINE calls == Since(First(called, MaxRows), from)
  <2>1. {i \in DOMAIN calls : IsFailedCall(calls[i])} \in SUBSET DOMAIN calls OBVIOUS
  <2>2. failed = Places(calls, {i \in DOMAIN calls : IsFailedCall(calls[i])}) BY DEF Filter
  <2> HIDE DEF calls
  <2> QED BY <1>3, <2>1, <2>2, PlacesAre DEF calls
<1>5. EvmTokenHistory(ledger, from).rows = Rows(tokens \o failed) BY DEF EvmTokenHistory, Listed, moved, called
<1> HIDE DEF tokens, failed
<1>6. tokens \o failed \in Seq(A) BY <1>2, <1>4
<1> QED BY <1>5, <1>6, RowsOfEntries DEF A

LEMMA EvmCoinPagesAre ==
  ASSUME NEW A, NEW ledger \in Seq(A), NEW size \in Nat
  PROVE  EvmCoinPages(ledger, size).calls \in Seq(A) /\ EvmCoinPages(ledger, size).inner \in Seq(A)
<1> DEFINE outer == {i \in DOMAIN ledger : ~ledger[i].move.inner}
           inner == {i \in DOMAIN ledger : ledger[i].move.inner}
<1>1. outer \in SUBSET DOMAIN ledger /\ inner \in SUBSET DOMAIN ledger OBVIOUS
<1>2. EvmCoinPages(ledger, size) =
        [calls |-> First(Places(ledger, outer), size), inner |-> First(Places(ledger, inner), size)]
  BY DEF EvmCoinPages, Filter
<1> HIDE DEF outer, inner
<1>3. Places(ledger, outer) \in Seq(A) /\ Places(ledger, inner) \in Seq(A) BY <1>1, PlacesAre
<1> QED BY <1>2, <1>3, FirstOf

LEMMA EvmCoinRowsAre ==
  ASSUME NEW T \in SUBSET Nat, NEW G, NEW from, NEW pages,
         pages.calls \in Seq(EntriesIn(T, G)), pages.inner \in Seq(EntriesIn(T, G))
  PROVE  EvmCoinRows(pages, from) \in Seq(RowsIn(T, G))
<1> DEFINE A == EntriesIn(T, G)
           calls == Since(pages.calls, from)
           inner == Since(pages.inner, from)
           moved == {i \in DOMAIN calls : IsCoinMove(calls[i])}
           received == {i \in DOMAIN inner : IsReceived(inner[i])}
<1>1. EvmCoinRows(pages, from) = Rows(Places(calls, moved) \o Places(inner, received))
  BY DEF EvmCoinRows, Filter
<1>2. moved \in SUBSET DOMAIN calls /\ received \in SUBSET DOMAIN inner OBVIOUS
<1> HIDE DEF moved, received
<1>3. calls \in Seq(A) /\ inner \in Seq(A) BY SinceIs
<1> HIDE DEF calls, inner, A
<1>4. Places(calls, moved) \in Seq(A) /\ Places(inner, received) \in Seq(A) BY <1>2, <1>3, PlacesAre
<1>5. Places(calls, moved) \o Places(inner, received) \in Seq(A) BY <1>4
<1> QED BY <1>1, <1>5, RowsOfEntries DEF A

LEMMA BtcPagesAre ==
  ASSUME NEW A, NEW ledger \in Seq(A), NEW n \in Nat
  PROVE  BtcPages(ledger, n) \in Seq(A)
<1> DEFINE waiting == {i \in DOMAIN ledger : ~InBlock(ledger[i])}
<1>1. waiting \in SUBSET DOMAIN ledger OBVIOUS
<1>2. BtcPages(ledger, n) = Places(ledger, waiting) \o FirstTxs(Mined(ledger), n * PageSize)
  BY DEF BtcPages, Filter
<1> HIDE DEF waiting
<1>3. Places(ledger, waiting) \in Seq(A) BY <1>1, PlacesAre
<1>4. FirstTxs(Mined(ledger), n * PageSize) \in Seq(A) BY MinedIs, FirstTxsOf
<1> QED BY <1>2, <1>3, <1>4

LEMMA BtcUntilIs ==
  ASSUME NEW A, NEW list \in Seq(A), NEW from
  PROVE  BtcUntil(list, from) \in Seq(A)
<1> DEFINE old == {i \in DOMAIN list : InBlock(list[i]) /\ list[i].block < from}
           least == CHOOSE i \in old : \A j \in old : i <= j
<1>1. CASE old = {} BY <1>1 DEF BtcUntil
<1>2. CASE old # {}
  <2>1. Len(list) \in Nat /\ DOMAIN list = 1..Len(list) OBVIOUS
  <2>2. old \in SUBSET Nat BY <2>1
  <2>3. BtcUntil(list, from) = SubSeq(list, 1, least - 1) BY <1>2 DEF BtcUntil
  <2>4. old \in SUBSET (1..Len(list)) BY <2>1
  <2> HIDE DEF old
  <2>5. \E i \in old : \A j \in old : i <= j BY <1>2, <2>2, LeastNatural
  <2>6. least \in 1..Len(list) BY <2>4, <2>5
  <2> HIDE DEF least
  <2>7. least - 1 \in 0..Len(list) BY <2>1, <2>6
  <2>8. \A i \in 1..(least - 1) : list[i] \in A BY <2>1, <2>7
  <2> QED BY <2>3, <2>7, <2>8, SubSeqProperties
<1> QED BY <1>1, <1>2

LEMMA SolRowsAre ==
  ASSUME NEW T \in SUBSET Nat, NEW G, NEW list \in Seq(EntriesIn(T, G)), NEW n, NEW lost
  PROVE  Rows(Returned(FirstTxs(list, n), lost)) \in Seq(RowsIn(T, G))
<1> DEFINE newest == FirstTxs(list, n)
           known == {i \in DOMAIN newest : newest[i].tx \notin lost}
<1>1. known \in SUBSET DOMAIN newest OBVIOUS
<1>2. newest \in Seq(EntriesIn(T, G)) BY FirstTxsOf
<1>3. Returned(newest, lost) = Places(newest, known) BY DEF Returned, Filter
<1> HIDE DEF newest, known
<1>4. Returned(newest, lost) \in Seq(EntriesIn(T, G)) BY <1>1, <1>2, <1>3, PlacesAre
<1>5. Rows(Returned(newest, lost)) \in Seq(RowsIn(T, G)) BY <1>4, RowsOfEntries
<1> QED BY <1>5 DEF newest

LEMMA LogsAre ==
  ASSUME NEW T \in SUBSET Nat, NEW G, NEW ledger \in Seq(EntriesIn(T, G)), NEW from, NEW to, NEW timed
  PROVE  Logs(ledger, from, to, timed) \in Seq(RowsIn(T, G))
<1> DEFINE hit == {i \in DOMAIN ledger : ledger[i].block \in from..to /\ IsLog(ledger[i])}
           hits == Places(ledger, hit)
<1>1. Logs(ledger, from, to, timed) =
        [i \in DOMAIN hits |-> Row(hits[i], hits[i].block, IF timed THEN hits[i].block ELSE 0)]
  BY DEF Logs, Filter
<1>2. hit \in SUBSET DOMAIN ledger OBVIOUS
<1> HIDE DEF hit
<1>3. hits \in Seq(EntriesIn(T, G)) BY <1>2, PlacesAre
<1> HIDE DEF hits
<1>4. Len(hits) \in Nat /\ DOMAIN hits = 1..Len(hits) BY <1>3
<1>5. ASSUME NEW i \in DOMAIN hits
      PROVE  Row(hits[i], hits[i].block, IF timed THEN hits[i].block ELSE 0) \in RowsIn(T, G)
  <2>1. hits[i] \in EntriesIn(T, G) BY <1>3
  <2>2. hits[i].block \in Nat BY <2>1 DEF EntriesIn
  <2>3. (IF timed THEN hits[i].block ELSE 0) \in Nat BY <2>2
  <2> QED BY <2>1, <2>3, RowOfEntry
<1>6. Logs(ledger, from, to, timed) \in [1..Len(hits) -> RowsIn(T, G)] BY <1>1, <1>4, <1>5
<1> QED BY <1>4, <1>6

-----------------------------------------------------------------------------
(* The order of rows *)

\* The mempool first, then three numbers from the top, then the place.
Above(m, u, v, w, i, n, a, b, c, j) ==
  \/ m > n
  \/ m = n /\ u > a
  \/ m = n /\ u = a /\ v > b
  \/ m = n /\ u = a /\ v = b /\ w > c
  \/ m = n /\ u = a /\ v = b /\ w = c /\ i < j
Waiting(r) == IF InMempool(r) THEN 1 ELSE 0
Major(r, byBlock) == IF byBlock THEN r.block ELSE r.time
Minor(r, byBlock) == IF byBlock THEN r.time ELSE r.block

LEMMA RowBeforeIs ==
  ASSUME NEW r \in RowType, NEW s \in RowType, NEW byBlock \in BOOLEAN, NEW i \in Nat, NEW j \in Nat
  PROVE  (RowBefore(r, s, byBlock) \/ (~RowBefore(s, r, byBlock) /\ i < j))
         <=> Above(Waiting(r), Major(r, byBlock), Minor(r, byBlock), r.tx, i,
                   Waiting(s), Major(s, byBlock), Minor(s, byBlock), s.tx, j)
<1>1. /\ r.block \in Nat /\ r.time \in Nat /\ r.tx \in Nat
      /\ s.block \in Nat /\ s.time \in Nat /\ s.tx \in Nat
  BY DEF RowType
<1>2. CASE byBlock BY <1>1, <1>2 DEF RowBefore, After, Above, Waiting, Major, Minor, InMempool
<1>3. CASE ~byBlock BY <1>1, <1>3 DEF RowBefore, After, Above, Waiting, Major, Minor, InMempool
<1> QED BY <1>2, <1>3

LEMMA AboveIsStrict ==
  ASSUME NEW S \in SUBSET Nat, NEW before, NEW m \in [S -> Int], NEW u \in [S -> Int], NEW v \in [S -> Int],
         NEW w \in [S -> Int],
         \A i, j \in S : <<i, j>> \in before <=> Above(m[i], u[i], v[i], w[i], i, m[j], u[j], v[j], w[j], j)
  PROVE  StrictOrder(S, before)
<1> DEFINE Upper(i, j) == Above(m[i], u[i], v[i], w[i], i, m[j], u[j], v[j], w[j], j)
<1>1. \A i \in S : i \in Nat /\ m[i] \in Int /\ u[i] \in Int /\ v[i] \in Int /\ w[i] \in Int OBVIOUS
<1>2. \A i \in S : ~Upper(i, i) BY <1>1 DEF Above
<1>3. \A i, j \in S : i # j => Upper(i, j) \/ Upper(j, i)
  <2> SUFFICES ASSUME NEW i \in S, NEW j \in S, i # j PROVE Upper(i, j) \/ Upper(j, i) OBVIOUS
  <2>1. PICK a \in Int, c \in Int, d \in Int, e \in Int : a = m[i] /\ c = u[i] /\ d = v[i] /\ e = w[i] BY <1>1
  <2>2. PICK x \in Int, y \in Int, z \in Int, t \in Int : x = m[j] /\ y = u[j] /\ z = v[j] /\ t = w[j] BY <1>1
  <2>3. i \in Nat /\ j \in Nat BY <1>1
  <2>4. Above(a, c, d, e, i, x, y, z, t, j) \/ Above(x, y, z, t, j, a, c, d, e, i) BY <2>3 DEF Above
  <2> QED BY <2>1, <2>2, <2>4
<1>4. \A i, j, k \in S : Upper(i, j) /\ Upper(j, k) => Upper(i, k)
  <2> SUFFICES ASSUME NEW i \in S, NEW j \in S, NEW k \in S, Upper(i, j), Upper(j, k) PROVE Upper(i, k) OBVIOUS
  <2>1. PICK a \in Int, c \in Int, d \in Int, e \in Int : a = m[i] /\ c = u[i] /\ d = v[i] /\ e = w[i] BY <1>1
  <2>2. PICK x \in Int, y \in Int, z \in Int, t \in Int : x = m[j] /\ y = u[j] /\ z = v[j] /\ t = w[j] BY <1>1
  <2>3. PICK o \in Int, p \in Int, q \in Int, r \in Int : o = m[k] /\ p = u[k] /\ q = v[k] /\ r = w[k] BY <1>1
  <2>4. i \in Nat /\ j \in Nat /\ k \in Nat BY <1>1
  <2>5. Above(a, c, d, e, i, x, y, z, t, j) /\ Above(x, y, z, t, j, o, p, q, r, k) BY <2>1, <2>2, <2>3
  <2>6. Above(a, c, d, e, i, o, p, q, r, k) BY <2>4, <2>5 DEF Above
  <2> QED BY <2>1, <2>3, <2>6
<1> HIDE DEF Upper
<1> QED BY <1>2, <1>3, <1>4 DEF StrictOrder, Upper

\* Sorting keeps the rows: the same number, each in one place.
LEMMA SortedIs ==
  ASSUME NEW A \in SUBSET RowType, NEW rows \in Seq(A)
  PROVE  /\ SortedDesc(rows) \in Seq(A) /\ Len(SortedDesc(rows)) = Len(rows)
         /\ \E order \in [DOMAIN rows -> DOMAIN rows] :
               /\ \A i \in DOMAIN rows : SortedDesc(rows)[i] = rows[order[i]]
               /\ \A j \in DOMAIN rows : \E i \in DOMAIN rows : order[i] = j
<1> DEFINE S == DOMAIN rows
           b == ByBlock(rows)
           Sooner(i, j) == RowBefore(rows[i], rows[j], b) \/ (~RowBefore(rows[j], rows[i], b) /\ i < j)
           before == {p \in S \X S : Sooner(p[1], p[2])}
           order == Ordered(S, before)
<1>1. Len(rows) \in Nat /\ S = 1..Len(rows) OBVIOUS
<1>2. IsFiniteSet(S) /\ Cardinality(S) = Len(rows)
  <2>1. PICK n \in Nat : n = Len(rows) BY <1>1
  <2>2. IsFiniteSet(1..n) /\ Cardinality(1..n) = n BY FS_Interval
  <2> QED BY <1>1, <2>1, <2>2
<1>3. SortedDesc(rows) = [i \in S |-> rows[order[i]]] BY DEF SortedDesc, InOrder
<1>4. b \in BOOLEAN BY DEF ByBlock
<1>5. \A i \in S : i \in Nat /\ rows[i] \in RowType BY <1>1
<1>6. \A i, j \in S : <<i, j>> \in before <=> Sooner(i, j) OBVIOUS
<1> DEFINE m == [i \in S |-> Waiting(rows[i])]
           u == [i \in S |-> Major(rows[i], b)]
           v == [i \in S |-> Minor(rows[i], b)]
           w == [i \in S |-> rows[i].tx]
<1>7. \A i, j \in S : Sooner(i, j) <=> Above(m[i], u[i], v[i], w[i], i, m[j], u[j], v[j], w[j], j)
  <2> SUFFICES ASSUME NEW i \in S, NEW j \in S
               PROVE  Sooner(i, j) <=> Above(m[i], u[i], v[i], w[i], i, m[j], u[j], v[j], w[j], j)
    OBVIOUS
  <2> QED BY <1>4, <1>5, RowBeforeIs
<1> HIDE DEF b, Sooner, before
<1>8. m \in [S -> Int] /\ u \in [S -> Int] /\ v \in [S -> Int] /\ w \in [S -> Int] /\ S \in SUBSET Nat
  BY <1>5 DEF Waiting, Major, Minor, RowType
<1> HIDE DEF m, u, v, w
<1>9. StrictOrder(S, before) BY <1>6, <1>7, <1>8, AboveIsStrict
<1> HIDE DEF S
<1>10. /\ order \in [1..Len(rows) -> S]
       /\ \A j \in S : \E i \in 1..Len(rows) : order[i] = j
  BY <1>2, <1>9, OrderedIs
<1> USE DEF S
<1> HIDE DEF order
<1>11. SortedDesc(rows) \in [1..Len(rows) -> A] BY <1>1, <1>3, <1>10
<1>12. SortedDesc(rows) \in Seq(A) /\ Len(SortedDesc(rows)) = Len(rows) BY <1>1, <1>11
<1> QED BY <1>1, <1>3, <1>10, <1>12

-----------------------------------------------------------------------------
(* The merge of several lists *)

KindType == Nat \X (Registry \cup {"mimic", "fake"}) \X {"in", "out"} \X (Parties \cup {Nobody}) \X {0, Dust, Real}
KeyedIn(T, G) == {x \in [key : KindType \X Nat, row : RowsIn(T, G)] : x.key[1] = Kind(x.row)}

LEMMA KeyedIs ==
  ASSUME NEW T \in SUBSET Nat, NEW G, NEW list \in Seq(RowsIn(T, G))
  PROVE  Keyed(list) \in Seq(KeyedIn(T, G))
<1>1. Len(list) \in Nat /\ DOMAIN list = 1..Len(list) OBVIOUS
<1>2. ASSUME NEW i \in DOMAIN list
      PROVE  [key |-> <<Kind(list[i]), Occurrence(list, i)>>, row |-> list[i]] \in KeyedIn(T, G)
  <2>1. list[i] \in RowsIn(T, G) /\ i \in Nat BY <1>1
  <2>2. Kind(list[i]) \in KindType BY <2>1 DEF Kind, KindType, RowsIn, RowType
  <2>3. Occurrence(list, i) \in Nat
    <3> DEFINE U == {j \in 1..(i - 1) : Kind(list[j]) = Kind(list[i])}
    <3>1. IsFiniteSet(1..(i - 1)) BY <2>1, FS_Interval
    <3>2. U \in SUBSET (1..(i - 1)) OBVIOUS
    <3> HIDE DEF U
    <3>3. Cardinality(U) \in Nat BY <3>1, <3>2, FS_Subset, FS_CardinalityType
    <3> QED BY <3>3 DEF Occurrence, U
  <2> QED BY <2>1, <2>2, <2>3 DEF KeyedIn
<1>3. Keyed(list) \in [1..Len(list) -> KeyedIn(T, G)] BY <1>1, <1>2 DEF Keyed
<1> QED BY <1>1, <1>3

\* A row filled in from its copies is a row of its transaction still.
LEMMA FilledIs ==
  ASSUME NEW T \in SUBSET Nat, NEW G, NEW list \in Seq(KeyedIn(T, G)), NEW i \in DOMAIN list
  PROVE  Filled(list, i) \in RowsIn(T, G) /\ Kind(Filled(list, i)) = Kind(list[i].row)
<1> DEFINE same == {j \in DOMAIN list : list[j].key = list[i].key}
           First1(some) == CHOOSE j \in some : \A k \in some : j <= k
           blocks == {j \in same : list[j].row.block # 0}
           times  == {j \in same : list[j].row.time # 0}
           block == IF blocks = {} THEN 0 ELSE list[First1(blocks)].row.block
           time == IF times = {} THEN 0 ELSE list[First1(times)].row.time
           failed == \E j \in same : list[j].row.failed
<1>1. Len(list) \in Nat /\ DOMAIN list = 1..Len(list) OBVIOUS
<1>2. ASSUME NEW j \in same
      PROVE  /\ list[j].row \in RowsIn(T, G) /\ list[j].row.tx = list[i].row.tx
             /\ list[j].row.block \in Nat /\ list[j].row.time \in Nat
  <2>1. list[j] \in KeyedIn(T, G) /\ list[i] \in KeyedIn(T, G) /\ list[j].key = list[i].key OBVIOUS
  <2>2. Kind(list[j].row) = Kind(list[i].row) BY <2>1 DEF KeyedIn
  <2>3. list[j].row.tx = list[i].row.tx BY <2>2 DEF Kind
  <2>4. list[j].row \in RowsIn(T, G) BY <2>1 DEF KeyedIn
  <2> QED BY <2>3, <2>4 DEF RowsIn, RowType
<1>3. ASSUME NEW some \in SUBSET same, some # {} PROVE First1(some) \in some
  <2>1. some \in SUBSET Nat BY <1>1
  <2>2. \E j \in some : \A k \in some : j <= k BY <1>3, <2>1, LeastNatural
  <2> QED BY <2>2
<1>4. Filled(list, i) = [list[i].row EXCEPT !.block = block, !.time = time, !.failed = failed] BY DEF Filled
<1>5. blocks \in SUBSET same /\ \A j \in blocks : list[j].row.block # 0 OBVIOUS
<1>6. times \in SUBSET same OBVIOUS
<1>7. i \in same OBVIOUS
<1> HIDE DEF same, blocks, times, First1
<1>8. block \in Nat /\ (block # 0 => <<list[i].row.tx, block>> \in G)
  <2>1. CASE blocks = {} BY <2>1
  <2>2. CASE blocks # {}
    <3>1. First1(blocks) \in blocks BY <1>3, <1>5, <2>2
    <3>2. First1(blocks) \in same /\ list[First1(blocks)].row.block # 0 BY <1>5, <3>1
    <3>3. list[First1(blocks)].row \in RowsIn(T, G) /\ list[First1(blocks)].row.tx = list[i].row.tx
          /\ list[First1(blocks)].row.block \in Nat
      BY <1>2, <3>2
    <3>4. block = list[First1(blocks)].row.block BY <2>2
    <3> QED BY <3>2, <3>3, <3>4 DEF RowsIn
  <2> QED BY <2>1, <2>2
<1>9. time \in Nat
  <2>1. CASE times = {} BY <2>1
  <2>2. CASE times # {}
    <3>1. First1(times) \in same BY <1>3, <1>6, <2>2
    <3>2. list[First1(times)].row.time \in Nat BY <1>2, <3>1
    <3> QED BY <2>2, <3>2
  <2> QED BY <2>1, <2>2
<1>10. failed \in BOOLEAN OBVIOUS
<1>11. list[i].row \in RowsIn(T, G) BY <1>2, <1>7
<1> HIDE DEF block, time, failed
<1> QED BY <1>4, <1>8, <1>9, <1>10, <1>11 DEF RowsIn, RowType, Kind

LEMMA MergedIs ==
  ASSUME NEW T \in SUBSET Nat, NEW G, NEW logs \in Seq(RowsIn(T, G)), NEW newest \in Seq(RowsIn(T, G)),
         NEW old \in Seq(RowsIn(T, G))
  PROVE  Merged(logs, newest, old) \in Seq(RowsIn(T, G))
<1> DEFINE all == Keyed(logs) \o Keyed(newest) \o Keyed(old)
           some == {i \in DOMAIN all : \A j \in 1..(i - 1) : all[j].key # all[i].key}
           rows == [i \in DOMAIN all |-> Filled(all, i)]
<1>1. Keyed(logs) \in Seq(KeyedIn(T, G)) /\ Keyed(newest) \in Seq(KeyedIn(T, G)) /\ Keyed(old) \in Seq(KeyedIn(T, G))
  BY KeyedIs
<1>2. all \in Seq(KeyedIn(T, G)) BY <1>1
<1>3. Merged(logs, newest, old) = SortedDesc(Places(rows, some)) BY DEF Merged
<1> HIDE DEF all
<1>4. Len(all) \in Nat /\ DOMAIN all = 1..Len(all) BY <1>2
<1>5. \A i \in DOMAIN all : Filled(all, i) \in RowsIn(T, G) BY <1>2, FilledIs
<1>6. rows \in Seq(RowsIn(T, G)) BY <1>4, <1>5
<1>7. some \in SUBSET DOMAIN rows OBVIOUS
<1> HIDE DEF rows, some
<1>8. Places(rows, some) \in Seq(RowsIn(T, G)) BY <1>6, <1>7, PlacesAre
<1>9. RowsIn(T, G) \in SUBSET RowType BY DEF RowsIn
<1> QED BY <1>3, <1>8, <1>9, SortedIs

-----------------------------------------------------------------------------
(* What the reads answer.  Of a row of TRON no more is said than its type:  *)
(* Loose, every transaction may be in every block.                          *)

Loose(T, G) == G = T \X (Nat \ {0})

\* A row of TRON names no block, or the one the node looked up.
LEMMA LooseRow ==
  ASSUME NEW T \in SUBSET Nat, NEW G, Loose(T, G), NEW r \in RowType, r.tx \in T
  PROVE  r \in RowsIn(T, G)
<1>1. r.block \in Nat BY DEF RowType
<1>2. r.block = 0 \/ <<r.tx, r.block>> \in G BY <1>1 DEF Loose
<1> QED BY <1>2 DEF RowsIn

LEMMA TronTokenRowsAre ==
  ASSUME NEW T \in SUBSET Nat, NEW G, NEW list \in Seq(EntriesIn(T, G))
  PROVE  [i \in DOMAIN list |-> TronTokenRow(list[i])] \in Seq(RowsIn(T, G))
<1>1. Len(list) \in Nat /\ DOMAIN list = 1..Len(list) OBVIOUS
<1>2. ASSUME NEW i \in DOMAIN list PROVE TronTokenRow(list[i]) \in RowsIn(T, G)
  <2>1. list[i] \in EntriesIn(T, G) OBVIOUS
  <2>2. list[i].move \in Moves /\ list[i].tx \in T /\ list[i].block \in Nat BY <2>1 DEF EntriesIn
  <2>3. Tier(list[i].move.token) \in Tiers BY DEF Tier, Tiers
  <2> QED BY <2>2, <2>3 DEF TronTokenRow, Row, RowsIn, RowType, Moves
<1>3. [i \in DOMAIN list |-> TronTokenRow(list[i])] \in [1..Len(list) -> RowsIn(T, G)] BY <1>1, <1>2
<1> QED BY <1>1, <1>3

LEMMA TronTokenPages ==
  ASSUME NEW T \in SUBSET Nat, NEW G, NEW ledger \in Seq(EntriesIn(T, G)), NEW from
  PROVE  TronTokenHistory(ledger, from).rows \in Seq(RowsIn(T, G))
<1> DEFINE A == EntriesIn(T, G)
           window   == Since(ledger, from)
           known    == {i \in DOMAIN window : IsTransfer(window[i]) /\ window[i].move.token \in Registry}
           moved    == {i \in DOMAIN window : IsTransfer(window[i])}
           called   == {i \in DOMAIN window : IsCall(window[i])}
           first    == First(Places(window, moved), PageSize)
           calls    == First(Places(window, called), PageSize)
           unknown  == {i \in DOMAIN first : first[i].move.token \notin Registry}
           failed   == {i \in DOMAIN calls : IsFailedCall(calls[i])}
           tokens   == First(Places(window, known), MaxRows) \o Places(first, unknown)
<1>0. MaxRows \in Nat /\ PageSize \in Nat BY LimitsAssumption
<1>1. TronTokenHistory(ledger, from).rows = [i \in DOMAIN tokens |-> TronTokenRow(tokens[i])] \o Rows(Places(calls, failed))
  BY DEF TronTokenHistory, Listed, Filter
<1>2. window \in Seq(A) BY SinceIs
<1>3. {known, moved, called} \subseteq SUBSET DOMAIN window OBVIOUS
<1>4. unknown \in SUBSET DOMAIN first /\ failed \in SUBSET DOMAIN calls OBVIOUS
<1> HIDE DEF window, known, moved, called, unknown, failed, A
<1>5. Places(window, known) \in Seq(A) /\ Places(window, moved) \in Seq(A) /\ Places(window, called) \in Seq(A)
  BY <1>2, <1>3, PlacesAre
<1>6. First(Places(window, known), MaxRows) \in Seq(A) /\ first \in Seq(A) /\ calls \in Seq(A) BY <1>0, <1>5, FirstOf
<1> HIDE DEF first, calls
<1>7. Places(first, unknown) \in Seq(A) /\ Places(calls, failed) \in Seq(A) BY <1>4, <1>6, PlacesAre
<1>8. tokens \in Seq(A) BY <1>6, <1>7
<1> HIDE DEF tokens
<1>9. [i \in DOMAIN tokens |-> TronTokenRow(tokens[i])] \in Seq(RowsIn(T, G)) BY <1>8, TronTokenRowsAre DEF A
<1>10. Rows(Places(calls, failed)) \in Seq(RowsIn(T, G)) BY <1>7, RowsOfEntries DEF A
<1> QED BY <1>1, <1>9, <1>10

LEMMA TronCoinPages ==
  ASSUME NEW T \in SUBSET Nat, NEW G, NEW ledger \in Seq(EntriesIn(T, G)), NEW from
  PROVE  TronCoinHistory(ledger, from).rows \in Seq(RowsIn(T, G))
<1> DEFINE A == EntriesIn(T, G)
           since == Since(ledger, from)
           outer == {i \in DOMAIN since : ~since[i].move.inner}
           first == First(Places(since, outer), MaxRows)
           moved == {i \in DOMAIN first : IsTrxMove(first[i])}
<1>0. MaxRows \in Nat BY LimitsAssumption
<1>1. TronCoinHistory(ledger, from).rows = Rows(Places(first, moved)) BY DEF TronCoinHistory, Listed, Filter
<1>2. since \in Seq(A) BY SinceIs
<1>3. outer \in SUBSET DOMAIN since /\ moved \in SUBSET DOMAIN first OBVIOUS
<1> HIDE DEF since, outer, moved, A
<1>4. first \in Seq(A) BY <1>0, <1>2, <1>3, PlacesAre, FirstOf
<1> HIDE DEF first
<1>5. Places(first, moved) \in Seq(A) BY <1>3, <1>4, PlacesAre
<1> QED BY <1>1, <1>5, RowsOfEntries DEF A

LEMMA TronRecent ==
  ASSUME NEW T \in SUBSET Nat, NEW G, NEW ledger \in Seq(EntriesIn(T, G)), NEW coin, NEW lost
  PROVE  Recent("tron", coin, ledger, lost) \in Seq(RowsIn(T, G))
<1> DEFINE A == EntriesIn(T, G)
           mined == Mined(ledger)
           outer == {i \in DOMAIN mined : ~mined[i].move.inner}
           coins == First(Places(mined, outer), RecentSize)
           moved == {i \in DOMAIN coins : IsTrxMove(coins[i])}
           known == {i \in DOMAIN mined : IsTransfer(mined[i]) /\ mined[i].move.token \in Registry}
           first == First(Places(mined, known), RecentSize)
<1>0. RecentSize \in Nat BY LimitsAssumption
<1>1. /\ coin => Recent("tron", coin, ledger, lost) = Rows(Places(coins, moved))
      /\ ~coin => Recent("tron", coin, ledger, lost) = [i \in DOMAIN first |-> TronTokenRow(first[i])]
  BY DEF Recent, Filter
<1>2. mined \in Seq(A) BY MinedIs
<1>3. {outer, known} \subseteq SUBSET DOMAIN mined /\ moved \in SUBSET DOMAIN coins OBVIOUS
<1> HIDE DEF mined, outer, known, moved, A
<1>4. coins \in Seq(A) /\ first \in Seq(A) BY <1>0, <1>2, <1>3, PlacesAre, FirstOf
<1> HIDE DEF coins, first
<1>5. Places(coins, moved) \in Seq(A) BY <1>3, <1>4, PlacesAre
<1> QED BY <1>1, <1>4, <1>5, RowsOfEntries, TronTokenRowsAre DEF A

LEMMA PagesAre ==
  ASSUME NEW T \in SUBSET Nat, NEW G, NEW ledger \in Seq(EntriesIn(T, G)), NEW from, NEW lost,
         NEW chain \in Chains, NEW coin \in BOOLEAN
  PROVE  Pages(chain, coin, ledger, from, lost).rows \in Seq(RowsIn(T, G))
<1> DEFINE mined == Mined(ledger)
<1>1. mined \in Seq(EntriesIn(T, G)) BY MinedIs
<1>2. {MaxRows, MaxPages} \subseteq Nat BY LimitsAssumption
<1> HIDE DEF mined
<1>3. CASE chain = "btc"
  <2>1. BtcPages(ledger, MaxPages) \in Seq(EntriesIn(T, G)) BY <1>2, BtcPagesAre
  <2>2. BtcUntil(BtcPages(ledger, MaxPages), from) \in Seq(EntriesIn(T, G)) BY <2>1, BtcUntilIs
  <2>3. Pages(chain, coin, ledger, from, lost).rows = Rows(BtcUntil(BtcPages(ledger, MaxPages), from))
    BY <1>3 DEF Pages, BtcHistory, Listed
  <2> QED BY <2>2, <2>3, RowsOfEntries
<1>4. CASE chain = "sol"
  <2>1. Since(mined, from) \in Seq(EntriesIn(T, G)) BY <1>1, SinceIs
  <2> DEFINE window == Since(mined, from)
  <2>2. Pages(chain, coin, ledger, from, lost).rows = Rows(Returned(FirstTxs(window, MaxRows), lost))
    BY <1>4 DEF Pages, SolHistory, Listed, mined
  <2> HIDE DEF window
  <2> QED BY <2>1, <2>2, SolRowsAre DEF window
<1>5. CASE chain = "evm" /\ coin
  <2>1. Pages(chain, coin, ledger, from, lost).rows = EvmCoinRows(EvmCoinPages(mined, MaxRows), from)
    BY <1>5 DEF Pages, EvmCoinHistory, Listed, mined
  <2> QED BY <1>1, <1>2, <2>1, EvmCoinPagesAre, EvmCoinRowsAre
<1>6. CASE chain = "evm" /\ ~coin
  <2>1. Pages(chain, coin, ledger, from, lost) = EvmTokenHistory(mined, from) BY <1>6 DEF Pages, mined
  <2> QED BY <1>1, <2>1, EvmTokenRows
<1>7. CASE chain = "tron" /\ coin
  <2>1. Pages(chain, coin, ledger, from, lost) = TronCoinHistory(mined, from) BY <1>7 DEF Pages, mined
  <2> QED BY <1>1, <2>1, TronCoinPages
<1>8. CASE chain = "tron" /\ ~coin
  <2>1. Pages(chain, coin, ledger, from, lost) = TronTokenHistory(mined, from) BY <1>8 DEF Pages, mined
  <2> QED BY <1>1, <2>1, TronTokenPages
<1> QED BY <1>3, <1>4, <1>5, <1>6, <1>7, <1>8 DEF Chains

LEMMA LookedUpAre ==
  ASSUME NEW T \in SUBSET Nat, NEW G, Loose(T, G), NEW rows \in Seq(RowsIn(T, G)), NEW solid, NEW answers
  PROVE  LookedUp(rows, solid, answers) \in Seq(RowsIn(T, G))
<1>1. Len(rows) \in Nat /\ DOMAIN rows = 1..Len(rows) OBVIOUS
<1>2. DOMAIN LookedUp(rows, solid, answers) = DOMAIN rows
      /\ \A i \in DOMAIN rows : LookedUp(rows, solid, answers)[i] \in {rows[i], [rows[i] EXCEPT !.block = rows[i].time]}
  BY DEF LookedUp
<1>3. ASSUME NEW i \in DOMAIN rows PROVE {rows[i], [rows[i] EXCEPT !.block = rows[i].time]} \subseteq RowsIn(T, G)
  <2>1. rows[i] \in RowsIn(T, G) BY <1>1
  <2>2. rows[i] \in RowType /\ rows[i].tx \in T BY <2>1 DEF RowsIn
  <2>3. [rows[i] EXCEPT !.block = rows[i].time] \in RowType BY <2>2 DEF RowType
  <2>4. [rows[i] EXCEPT !.block = rows[i].time].tx = rows[i].tx BY <2>2 DEF RowType
  <2>5. [rows[i] EXCEPT !.block = rows[i].time] \in RowsIn(T, G) BY <2>2, <2>3, <2>4, LooseRow
  <2> QED BY <2>1, <2>5
<1>4. \A i \in DOMAIN rows : LookedUp(rows, solid, answers)[i] \in RowsIn(T, G) BY <1>2, <1>3
<1>5. LookedUp(rows, solid, answers) = [i \in 1..Len(rows) |-> LookedUp(rows, solid, answers)[i]] BY <1>1 DEF LookedUp
<1>6. LookedUp(rows, solid, answers) \in [1..Len(rows) -> RowsIn(T, G)] BY <1>1, <1>4, <1>5
<1> QED BY <1>1, <1>6

LEMMA HistoryIs ==
  ASSUME NEW T \in SUBSET Nat, NEW G, NEW ledger \in Seq(EntriesIn(T, G)), NEW from, NEW lost, NEW solid,
         NEW answers, NEW chain \in Chains, NEW coin \in BOOLEAN, chain = "tron" => Loose(T, G)
  PROVE  History(chain, coin, ledger, from, lost, solid, answers).rows \in Seq(RowsIn(T, G))
<1> DEFINE read == Pages(chain, coin, ledger, from, lost)
<1>1. read.rows \in Seq(RowsIn(T, G)) BY PagesAre
<1> HIDE DEF read
<1>2. RowsIn(T, G) \in SUBSET RowType BY DEF RowsIn
<1>3. SortedDesc(read.rows) \in Seq(RowsIn(T, G)) BY <1>1, <1>2, SortedIs
<1> DEFINE sorted == SortedDesc(read.rows)
<1>4. History(chain, coin, ledger, from, lost, solid, answers).rows
        = IF chain = "tron" /\ ~coin THEN LookedUp(sorted, solid, answers) ELSE sorted
  BY DEF History, Listed, read
<1> HIDE DEF sorted
<1> QED BY <1>3, <1>4, LookedUpAre DEF sorted

LEMMA RecentIs ==
  ASSUME NEW T \in SUBSET Nat, NEW G, NEW ledger \in Seq(EntriesIn(T, G)), NEW lost,
         NEW chain \in Chains, NEW coin
  PROVE  Recent(chain, coin, ledger, lost) \in Seq(RowsIn(T, G))
<1> DEFINE mined == Mined(ledger)
<1>1. mined \in Seq(EntriesIn(T, G)) BY MinedIs
<1>2. RecentSize \in Nat BY LimitsAssumption
<1> HIDE DEF mined
<1>3. CASE chain = "btc"
  <2>1. BtcPages(ledger, 1) \in Seq(EntriesIn(T, G)) BY BtcPagesAre
  <2>2. Recent(chain, coin, ledger, lost) = Rows(BtcPages(ledger, 1)) BY <1>3 DEF Recent
  <2> QED BY <2>1, <2>2, RowsOfEntries
<1>4. CASE chain = "sol"
  <2>1. Recent(chain, coin, ledger, lost) = Rows(Returned(FirstTxs(mined, RecentSize), lost))
    BY <1>4 DEF Recent, mined
  <2> QED BY <1>1, <2>1, SolRowsAre
<1>5. CASE chain = "evm"
  <2>1. Recent(chain, coin, ledger, lost) = EvmCoinRows(EvmCoinPages(mined, RecentSize), 0)
    BY <1>5 DEF Recent, mined
  <2> QED BY <1>1, <1>2, <2>1, EvmCoinPagesAre, EvmCoinRowsAre
<1>6. CASE chain = "tron" BY <1>6, TronRecent
<1> QED BY <1>3, <1>4, <1>5, <1>6 DEF Chains

\* Flags and tiers leave the transaction and the block of a row alone.
LEMMA AnalysedAre ==
  ASSUME NEW T \in SUBSET Nat, NEW G, NEW rows \in Seq(RowsIn(T, G)), NEW store, NEW h
  PROVE  LET graded == Graded(Analysed(rows, store), h)
         IN  \A i \in DOMAIN graded : /\ graded[i].row \in RowsIn(T, G)
                                      /\ graded[i].level = Level(scene.chain, graded[i].row, h)
<1> DEFINE eth == scene.chain = "evm"
           hits == LocalHits(rows, eth, store)
           flagged == ApplyFlags(hits, eth)
           graded == Graded(flagged, h)
<1>1. DOMAIN hits = DOMAIN rows /\ \A i \in DOMAIN rows : hits[i].row \in RowsIn(T, G)
  <2>1. DOMAIN hits = DOMAIN rows BY DEF LocalHits
  <2>2. ASSUME NEW i \in DOMAIN rows PROVE hits[i].row \in RowsIn(T, G)
    <3>1. rows[i] \in RowsIn(T, G) OBVIOUS
    <3>2. Retiered(rows[i]) \in RowsIn(T, G) BY <3>1 DEF Retiered, RowsIn, RowType, Tiers
    <3>3. hits[i].row = rows[i] \/ hits[i].row = Retiered(rows[i]) BY DEF LocalHits, LocalHit, Flagged
    <3> QED BY <3>1, <3>2, <3>3
  <2> QED BY <2>1, <2>2
<1> HIDE DEF hits
<1>2. DOMAIN flagged = DOMAIN hits /\ \A i \in DOMAIN hits : flagged[i].row = hits[i].row
  BY DEF ApplyFlags, WithScan, Flagged
<1> HIDE DEF flagged
<1>3. DOMAIN graded = DOMAIN flagged /\ \A i \in DOMAIN flagged :
        graded[i].row = flagged[i].row /\ graded[i].level = Level(scene.chain, flagged[i].row, h)
  BY DEF Graded
<1>4. Graded(Analysed(rows, store), h) = graded BY DEF Analysed, flagged, hits
<1> HIDE DEF graded
<1> QED BY <1>1, <1>2, <1>3, <1>4

-----------------------------------------------------------------------------
(* The scan.  hits are the rows as the local lists leave them.              *)

LEMMA ScanBeforeIs ==
  ASSUME NEW r \in RowType, NEW s \in RowType, NEW byBlock \in BOOLEAN, NEW i \in Nat, NEW j \in Nat
  PROVE  (ScanBefore(r, s, byBlock) \/ (~ScanBefore(s, r, byBlock) /\ i < j))
         <=> Above(-Waiting(r), -Major(r, byBlock), -Minor(r, byBlock), -r.tx, i,
                   -Waiting(s), -Major(s, byBlock), -Minor(s, byBlock), -s.tx, j)
<1>1. /\ r.block \in Nat /\ r.time \in Nat /\ r.tx \in Nat
      /\ s.block \in Nat /\ s.time \in Nat /\ s.tx \in Nat
  BY DEF RowType
<1>2. CASE byBlock BY <1>1, <1>2 DEF ScanBefore, After, Above, Waiting, Major, Minor, InMempool
<1>3. CASE ~byBlock BY <1>1, <1>3 DEF ScanBefore, After, Above, Waiting, Major, Minor, InMempool
<1> QED BY <1>2, <1>3

\* The scan visits every row once, and an older row before a newer one.
HitsOn(hits, n) == hits = [i \in 1..n |-> hits[i]] /\ \A i \in 1..n : hits[i].row \in RowType
Visits(order, hits, n, byBlock) ==
  /\ order \in [1..n -> 1..n]
  /\ \A i \in 1..n : PlaceOf(order, i) \in 1..n /\ order[PlaceOf(order, i)] = i
  /\ \A k \in 1..n : PlaceOf(order, order[k]) = k
  /\ \A i, j \in 1..n : ScanBefore(hits[i].row, hits[j].row, byBlock) => PlaceOf(order, i) < PlaceOf(order, j)
LEMMA ScanOrderIs ==
  ASSUME NEW n \in Nat, NEW hits, HitsOn(hits, n), NEW byBlock \in BOOLEAN
  PROVE  Visits(ScanOrder(hits, byBlock), hits, n, byBlock)
<1> DEFINE S == 1..n
           Sooner(i, j) == \/ ScanBefore(hits[i].row, hits[j].row, byBlock)
                           \/ ~ScanBefore(hits[j].row, hits[i].row, byBlock) /\ i < j
           before == {p \in S \X S : Sooner(p[1], p[2])}
           order == Ordered(S, before)
           m == [i \in S |-> -Waiting(hits[i].row)]
           u == [i \in S |-> -Major(hits[i].row, byBlock)]
           v == [i \in S |-> -Minor(hits[i].row, byBlock)]
           w == [i \in S |-> -hits[i].row.tx]
<1>1. DOMAIN hits = S /\ \A i \in S : hits[i].row \in RowType
  <2>1. DOMAIN [i \in 1..n |-> hits[i]] = 1..n OBVIOUS
  <2> QED BY <2>1 DEF HitsOn
<1>2. ScanOrder(hits, byBlock) = order BY <1>1 DEF ScanOrder, InOrder
<1>3. \A i, j \in S : <<i, j>> \in before <=> Sooner(i, j) OBVIOUS
<1>4. \A i, j \in S : Sooner(i, j) <=> Above(m[i], u[i], v[i], w[i], i, m[j], u[j], v[j], w[j], j)
  <2> SUFFICES ASSUME NEW i \in S, NEW j \in S
               PROVE  Sooner(i, j) <=> Above(m[i], u[i], v[i], w[i], i, m[j], u[j], v[j], w[j], j)
    OBVIOUS
  <2>1. hits[i].row \in RowType /\ hits[j].row \in RowType /\ i \in Nat /\ j \in Nat BY <1>1
  <2> QED BY <2>1, ScanBeforeIs
<1>5. \A i, j \in S : ScanBefore(hits[i].row, hits[j].row, byBlock) => Sooner(i, j) OBVIOUS
<1>6. IsFiniteSet(S) /\ Cardinality(S) = n BY FS_Interval
<1>7. m \in [S -> Int] /\ u \in [S -> Int] /\ v \in [S -> Int] /\ w \in [S -> Int] /\ S \in SUBSET Nat
  <2>1. \A i \in S : /\ Waiting(hits[i].row) \in Int /\ Major(hits[i].row, byBlock) \in Int
                     /\ Minor(hits[i].row, byBlock) \in Int /\ hits[i].row.tx \in Int
    BY <1>1 DEF Waiting, Major, Minor, RowType
  <2> QED BY <2>1
<1> HIDE DEF Sooner, before, m, u, v, w
<1>8. StrictOrder(S, before) BY <1>3, <1>4, <1>7, AboveIsStrict
<1> HIDE DEF S
<1>9. /\ order \in [1..n -> S]
      /\ \A k \in 1..n : Rank(S, before, order[k]) = k - 1
      /\ \A x \in S : \E k \in 1..n : order[k] = x
  BY <1>6, <1>8, OrderedIs
<1> HIDE DEF order
<1>10. \A i \in S : PlaceOf(order, i) \in 1..n /\ order[PlaceOf(order, i)] = i BY <1>9 DEF PlaceOf
<1>11. ASSUME NEW i \in S, NEW j \in S, ScanBefore(hits[i].row, hits[j].row, byBlock)
       PROVE  PlaceOf(order, i) < PlaceOf(order, j)
  <2>1. <<i, j>> \in before BY <1>3, <1>5, <1>11
  <2>2. Rank(S, before, i) < Rank(S, before, j) BY <1>6, <1>8, <2>1, RankGrows
  <2>3. Rank(S, before, i) = PlaceOf(order, i) - 1 /\ Rank(S, before, j) = PlaceOf(order, j) - 1 BY <1>9, <1>10
  <2>4. PlaceOf(order, i) \in Nat /\ PlaceOf(order, j) \in Nat BY <1>10
  <2> QED BY <2>2, <2>3, <2>4
<1>12. ASSUME NEW k \in 1..n PROVE PlaceOf(order, order[k]) = k
  <2>1. order[k] \in S BY <1>9
  <2>2. PlaceOf(order, order[k]) \in 1..n /\ order[PlaceOf(order, order[k])] = order[k] BY <1>10, <2>1
  <2>3. PlaceOf(order, order[k]) - 1 = k - 1 BY <1>9, <2>2
  <2> QED BY <2>2, <2>3
<1> QED BY <1>2, <1>9, <1>10, <1>11, <1>12 DEF S, Visits

\* Row by row, as far as there are rows.
LEMMA ScanIs ==
  ASSUME NEW n \in Nat, NEW hits, Len(hits) = n, NEW order, NEW known
  PROVE  LET scan == Scan(hits, order, known)
         IN  /\ scan[0].trust = NoTrust
             /\ \A k \in 1..n : scan[k] = Learn(scan[k - 1], hits[order[k]], known)
<1> DEFINE Step(f, j) == IF j = 0 THEN [trust |-> NoTrust, tainted |-> {}] ELSE Learn(f[j - 1], hits[order[j]], known)
           T == {k \in Nat : \E f : f = [j \in 0..k |-> Step(f, j)]}
<1>1. 0 \in T
  <2> DEFINE f == [j \in 0..0 |-> [trust |-> NoTrust, tainted |-> {}]]
  <2>1. \A j \in 0..0 : Step(f, j) = [trust |-> NoTrust, tainted |-> {}] OBVIOUS
  <2>2. f = [j \in 0..0 |-> Step(f, j)] BY <2>1
  <2> QED BY <2>2
<1>2. ASSUME NEW k \in T PROVE k + 1 \in T
  <2>1. PICK f : f = [j \in 0..k |-> Step(f, j)] BY <1>2
  <2> DEFINE h == [j \in 0..(k + 1) |-> IF j = k + 1 THEN Step(f, k + 1) ELSE f[j]]
  <2>2. ASSUME NEW j \in 0..(k + 1) PROVE h[j] = Step(h, j)
    <3>1. j # 0 => h[j - 1] = f[j - 1] OBVIOUS
    <3>2. Step(h, j) = Step(f, j) BY <3>1
    <3>3. CASE j = k + 1 BY <3>2, <3>3
    <3>4. CASE j # k + 1
      <4>1. j \in 0..k BY <3>4
      <4>2. f[j] = Step(f, j) BY <2>1, <4>1
      <4> QED BY <3>2, <3>4, <4>1, <4>2
    <3> QED BY <3>3, <3>4
  <2>3. h = [j \in 0..(k + 1) |-> Step(h, j)] BY <2>2
  <2> HIDE DEF h, Step
  <2> QED BY <2>3
<1>3. n \in T
  <2> HIDE DEF T
  <2>1. T \in SUBSET Nat BY DEF T
  <2>2. T = Nat BY <1>1, <1>2, <2>1, NatInduct
  <2> QED BY <2>2
<1> DEFINE scan == CHOOSE f : f = [j \in 0..n |-> Step(f, j)]
<1>4. scan = [j \in 0..n |-> Step(scan, j)] BY <1>3
<1>5. Scan(hits, order, known) = scan BY DEF Scan
<1> HIDE DEF scan
<1>6. \A j \in 0..n : scan[j] = Step(scan, j) BY <1>4
<1> QED BY <1>5, <1>6

\* What one row changes.  Only a payment of the owner makes trust complete, and
\* only of a party that no trusted one resembles; nothing takes it away.
PaysTo(x, p, known) == x.row.dir = "out" /\ Trusting(x.row, known) /\ x.row.party = p
LEMMA LearnIs ==
  ASSUME NEW s, s.trust \in [Parties -> 0..2], NEW x, NEW known
  PROVE  LET t == Learn(s, x, known).trust
         IN  /\ t \in [Parties -> 0..2]
             /\ \A p \in Parties : s.trust[p] = 2 => t[p] = 2
             /\ \A p \in Parties : t[p] = 2 /\ s.trust[p] # 2 =>
                   /\ PaysTo(x, p, known) /\ ~Resembles(p, s.trust, 2)
                   /\ \A q \in Parties : q # p => t[q] = s.trust[q]
             /\ \A p \in Parties : PaysTo(x, p, known) => t[p] = 2 \/ Resembles(p, s.trust, 2)
<1> DEFINE t == Learn(s, x, known).trust
           r == x.row
<1>1. \/ /\ t = [s.trust EXCEPT ![r.party] = 1] /\ r.dir = "in" /\ s.trust[r.party] < 1 /\ r.party \in Parties
      \/ /\ t = [s.trust EXCEPT ![r.party] = 2] /\ r.dir = "out" /\ Trusting(r, known) /\ MayTrust(r, s.trust)
         /\ r.party \in Parties
      \/ /\ t = s.trust
         /\ ~(Trusting(r, known) /\ r.dir = "out" /\ MayTrust(r, s.trust))
  BY DEF Learn, Learnt, Trusting
<1> HIDE DEF t
<1>2. CASE t = [s.trust EXCEPT ![r.party] = 1] /\ r.dir = "in" /\ s.trust[r.party] < 1 /\ r.party \in Parties
  <2>1. t \in [Parties -> 0..2] BY <1>2
  <2>2. s.trust[r.party] \in 0..2 BY <1>2
  <2>3. \A p \in Parties : t[p] = IF p = r.party THEN 1 ELSE s.trust[p] BY <1>2
  <2>4. \A p \in Parties : ~PaysTo(x, p, known) BY <1>2 DEF PaysTo
  <2>5. \A p \in Parties : (s.trust[p] = 2 => t[p] = 2) /\ ~(t[p] = 2 /\ s.trust[p] # 2) BY <1>2, <2>2, <2>3
  <2> QED BY <2>1, <2>4, <2>5 DEF t
<1>3. CASE /\ t = [s.trust EXCEPT ![r.party] = 2] /\ r.dir = "out" /\ Trusting(r, known) /\ MayTrust(r, s.trust)
           /\ r.party \in Parties
  <2>1. t \in [Parties -> 0..2] BY <1>3
  <2>2. \A p \in Parties : t[p] = IF p = r.party THEN 2 ELSE s.trust[p] BY <1>3
  <2>3. PaysTo(x, r.party, known) /\ ~Resembles(r.party, s.trust, 2) BY <1>3 DEF PaysTo, MayTrust
  <2>4. \A p \in Parties : PaysTo(x, p, known) => p = r.party BY DEF PaysTo
  <2> QED BY <2>1, <2>2, <2>3, <2>4 DEF t
<1>4. CASE t = s.trust /\ ~(Trusting(r, known) /\ r.dir = "out" /\ MayTrust(r, s.trust))
  <2>1. \A p \in Parties : PaysTo(x, p, known) => Resembles(p, s.trust, 2) BY <1>4 DEF PaysTo, MayTrust
  <2> QED BY <1>4, <2>1 DEF t
<1> QED BY <1>1, <1>2, <1>3, <1>4

\* After k rows: whom the owner is known to have paid, no two of them alike.
TrustsIn(hits, order, known, scan, k) ==
  /\ scan[k].trust \in [Parties -> 0..2]
  /\ \A p \in Parties : scan[k].trust[p] = 2 => \E l \in 1..k : PaysTo(hits[order[l]], p, known)
  /\ \A p, q \in Parties : scan[k].trust[p] = 2 /\ scan[k].trust[q] = 2 => ~Lookalike(p, q)
LEMMA TrustsAre ==
  ASSUME NEW n \in Nat, NEW hits, Len(hits) = n, NEW order, NEW known
  PROVE  \A k \in 0..n : TrustsIn(hits, order, known, Scan(hits, order, known), k)
<1> DEFINE scan == Scan(hits, order, known)
           T == {k \in Nat : k <= n => TrustsIn(hits, order, known, scan, k)}
<1>1. /\ scan[0].trust = NoTrust
      /\ \A k \in 1..n : scan[k] = Learn(scan[k - 1], hits[order[k]], known)
  BY ScanIs
<1> HIDE DEF scan
<1>2. 0 \in T BY <1>1 DEF TrustsIn, NoTrust
<1>3. ASSUME NEW k \in T PROVE k + 1 \in T
  <2>1. SUFFICES ASSUME k + 1 <= n PROVE TrustsIn(hits, order, known, scan, k + 1) OBVIOUS
  <2>2. k \in Nat /\ k + 1 \in 1..n /\ (k + 1) - 1 = k /\ TrustsIn(hits, order, known, scan, k) BY <1>3, <2>1
  <2>3. scan[k + 1] = Learn(scan[k], hits[order[k + 1]], known) BY <1>1, <2>2
  <2> DEFINE s == scan[k].trust
             t == scan[k + 1].trust
  <2>4. s \in [Parties -> 0..2] BY <2>2 DEF TrustsIn
  <2>5. /\ t \in [Parties -> 0..2]
        /\ \A p \in Parties : t[p] = 2 /\ s[p] # 2 =>
              /\ PaysTo(hits[order[k + 1]], p, known) /\ ~Resembles(p, s, 2)
              /\ \A q \in Parties : q # p => t[q] = s[q]
    BY <2>3, <2>4, LearnIs
  <2>6. ASSUME NEW p \in Parties, t[p] = 2 PROVE \E l \in 1..(k + 1) : PaysTo(hits[order[l]], p, known)
    <3>1. CASE s[p] = 2 BY <2>2, <3>1 DEF TrustsIn
    <3>2. CASE s[p] # 2 BY <2>2, <2>5, <2>6, <3>2
    <3> QED BY <3>1, <3>2
  <2>7. ASSUME NEW p \in Parties, NEW q \in Parties, t[p] = 2, t[q] = 2, Lookalike(p, q) PROVE FALSE
    <3>1. p # q /\ Lookalike(q, p) BY <2>7 DEF Lookalike
    <3>2. CASE s[p] = 2 /\ s[q] = 2 BY <2>2, <2>7, <3>2 DEF TrustsIn
    <3>3. CASE s[p] # 2
      <4>1. s[q] = 2 /\ ~Resembles(p, s, 2) BY <2>5, <2>7, <3>1, <3>3
      <4> QED BY <2>7, <4>1 DEF Resembles
    <3>4. CASE s[q] # 2
      <4>1. s[p] = 2 /\ ~Resembles(q, s, 2) BY <2>5, <2>7, <3>1, <3>4
      <4> QED BY <3>1, <4>1 DEF Resembles
    <3> QED BY <3>2, <3>3, <3>4
  <2> QED BY <2>5, <2>6, <2>7 DEF TrustsIn
<1>4. T = Nat
  <2> HIDE DEF T
  <2>1. T \in SUBSET Nat BY DEF T
  <2> QED BY <1>2, <1>3, <2>1, NatInduct
<1>5. ASSUME NEW k \in 0..n PROVE TrustsIn(hits, order, known, scan, k)
  <2>1. k \in T /\ k <= n BY <1>4
  <2> QED BY <2>1
<1> QED BY <1>5 DEF scan

\* Complete trust stays.
LEMMA TrustLasts ==
  ASSUME NEW n \in Nat, NEW hits, Len(hits) = n, NEW order, NEW known, NEW p \in Parties, NEW k \in 0..n,
         Scan(hits, order, known)[k].trust[p] = 2
  PROVE  \A l \in k..n : Scan(hits, order, known)[l].trust[p] = 2
<1> DEFINE scan == Scan(hits, order, known)
           T == {d \in Nat : k + d <= n => scan[k + d].trust[p] = 2}
<1>1. \A j \in 1..n : scan[j] = Learn(scan[j - 1], hits[order[j]], known) BY ScanIs
<1>2. \A j \in 0..n : scan[j].trust \in [Parties -> 0..2] BY TrustsAre DEF TrustsIn
<1>3. scan[k].trust[p] = 2 OBVIOUS
<1> HIDE DEF scan
<1>4. 0 \in T BY <1>3
<1>5. ASSUME NEW d \in T PROVE d + 1 \in T
  <2>1. SUFFICES ASSUME k + (d + 1) <= n PROVE scan[k + (d + 1)].trust[p] = 2 OBVIOUS
  <2>2. d \in Nat /\ k + (d + 1) \in 1..n /\ (k + (d + 1)) - 1 = k + d /\ k + d \in 0..n /\ scan[k + d].trust[p] = 2
    BY <1>5, <2>1
  <2>3. scan[k + (d + 1)] = Learn(scan[k + d], hits[order[k + (d + 1)]], known) BY <1>1, <2>2
  <2>4. scan[k + d].trust \in [Parties -> 0..2] BY <1>2, <2>2
  <2> QED BY <2>2, <2>3, <2>4, LearnIs
<1>6. T = Nat
  <2> HIDE DEF T
  <2>1. T \in SUBSET Nat BY DEF T
  <2> QED BY <1>4, <1>5, <2>1, NatInduct
<1>7. ASSUME NEW l \in k..n PROVE scan[l].trust[p] = 2
  <2>1. l - k \in T /\ k + (l - k) = l /\ l <= n BY <1>6
  <2>2. k + (l - k) <= n => scan[k + (l - k)].trust[p] = 2 BY <2>1
  <2> QED BY <2>1, <2>2
<1> QED BY <1>7 DEF scan

\* Once the owner has paid an address, one that looks the same is suspect,
\* unless it was paid first.
LEMMA ImitatorIsSuspect ==
  ASSUME NEW n \in Nat, NEW hits, Len(hits) = n, NEW order, NEW known, NEW k \in 1..n, NEW l \in 1..n, k < l,
         NEW p \in Parties, NEW q \in Parties, Lookalike(p, q), PaysTo(hits[order[k]], p, known),
         \A j \in 1..n : PaysTo(hits[order[j]], q, known) => k < j
  PROVE  LET trust == Scan(hits, order, known)[l - 1].trust IN trust[q] # 2 /\ Resembles(q, trust, 1)
<1> DEFINE scan == Scan(hits, order, known)
<1>1. \A j \in 1..n : scan[j] = Learn(scan[j - 1], hits[order[j]], known) BY ScanIs
<1>2. \A j \in 0..n : TrustsIn(hits, order, known, scan, j) BY TrustsAre
<1>3. \A o \in Parties : scan[k].trust[o] = 2 => scan[l - 1].trust[o] = 2
  <2> TAKE o \in Parties
  <2>1. k \in 0..n /\ l - 1 \in k..n OBVIOUS
  <2> QED BY <2>1, TrustLasts
<1> HIDE DEF scan
<1>4. k - 1 \in 0..n /\ l - 1 \in 0..n OBVIOUS
<1>5. scan[k - 1].trust[q] # 2
  <2>1. SUFFICES ASSUME scan[k - 1].trust[q] = 2 PROVE FALSE OBVIOUS
  <2>2. PICK j \in 1..(k - 1) : PaysTo(hits[order[j]], q, known) BY <1>2, <1>4, <2>1 DEF TrustsIn
  <2>3. j \in 1..n /\ ~(k < j) BY <2>2
  <2> QED BY <2>2, <2>3
<1>6. PICK o \in Parties : scan[k].trust[o] = 2 /\ Lookalike(q, o)
  <2>1. scan[k - 1].trust \in [Parties -> 0..2] BY <1>2, <1>4 DEF TrustsIn
  <2>2. scan[k] = Learn(scan[k - 1], hits[order[k]], known) BY <1>1
  <2>3. CASE scan[k].trust[p] = 2 BY <2>3 DEF Lookalike
  <2>4. CASE scan[k].trust[p] # 2
    <3>1. Resembles(p, scan[k - 1].trust, 2) BY <2>1, <2>2, <2>4, LearnIs
    <3>2. PICK o \in Parties : scan[k - 1].trust[o] >= 2 /\ Lookalike(p, o) BY <3>1 DEF Resembles
    <3>3. scan[k - 1].trust[o] \in 0..2 BY <2>1
    <3>4. scan[k - 1].trust[o] = 2 BY <3>2, <3>3
    <3>5. scan[k].trust[o] = 2 BY <2>1, <2>2, <3>4, LearnIs
    <3>6. o # q BY <1>5, <3>4
    <3> QED BY <3>2, <3>5, <3>6 DEF Lookalike
  <2> QED BY <2>3, <2>4
<1>7. scan[l - 1].trust[o] = 2 BY <1>3, <1>6
<1>8. Lookalike(o, q) BY <1>6 DEF Lookalike
<1>9. scan[l - 1].trust[q] # 2 BY <1>2, <1>4, <1>7, <1>8 DEF TrustsIn
<1>10. scan[l - 1].trust[o] >= 1 BY <1>7
<1> QED BY <1>6, <1>9, <1>10 DEF Resembles, scan

\* An alert for the transaction of every recent row that has a flag to warn of.
LEMMA AlertRaised ==
  ASSUME NEW rows, NEW now, NEW i \in DOMAIN rows, InAlertWindow(rows[i].row, now), Priority(rows[i].flags) > 0
  PROVE  \E p \in Priority(rows[i].flags)..3 : <<rows[i].row.tx, p>> \in Alerts(rows, now)
<1> DEFINE fresh == {j \in DOMAIN rows : InAlertWindow(rows[j].row, now) /\ Priority(rows[j].flags) > 0}
           x == rows[i].row.tx
           Has(p) == \E j \in fresh : rows[j].row.tx = x /\ Priority(rows[j].flags) = p
           Top(p) == Has(p) /\ \A j \in fresh : rows[j].row.tx = x => Priority(rows[j].flags) <= p
           top == CHOOSE p \in 1..3 : Top(p)
<1>1. \A j \in DOMAIN rows : Priority(rows[j].flags) \in 0..3 BY DEF Priority
<1>2. i \in fresh OBVIOUS
<1>3. \A j \in fresh : Priority(rows[j].flags) \in 1..3 BY <1>1
<1>4. <<x, top>> \in Alerts(rows, now) BY <1>2 DEF Alerts
<1> HIDE DEF fresh
<1>5. \E p \in 1..3 : Top(p)
  <2>1. CASE Has(3) BY <1>3, <2>1
  <2>2. CASE ~Has(3) /\ Has(2)
    <3>1. \A j \in fresh : rows[j].row.tx = x => Priority(rows[j].flags) \in 1..2 BY <1>3, <2>2
    <3> QED BY <2>2, <3>1
  <2>3. CASE ~Has(3) /\ ~Has(2)
    <3>1. \A j \in fresh : rows[j].row.tx = x => Priority(rows[j].flags) = 1 BY <1>3, <2>3
    <3>2. Has(1) BY <1>2, <3>1
    <3> QED BY <3>1, <3>2
  <2> QED BY <2>1, <2>2, <2>3
<1>6. top \in 1..3 /\ Top(top) BY <1>5
<1>7. Priority(rows[i].flags) <= top BY <1>2, <1>6
<1> HIDE DEF top
<1>8. Priority(rows[i].flags) \in 1..3 BY <1>2, <1>3
<1>9. top \in Priority(rows[i].flags)..3 BY <1>6, <1>7, <1>8
<1> QED BY <1>4, <1>9

\* What LookalikesFlagged says of the rows and the alerts of an answer.
Paid(x, known) == x.row.dir = "out" /\ Genuine(x.row) /\ x.row.value = Real /\ x.row.party \notin known
Older(r, s, evm) ==
  /\ ~InMempool(r)
  /\ InMempool(s) \/ (IF evm THEN r.block ELSE r.time) < (IF evm THEN s.block ELSE s.time)
Flags(rows, alerts, isLive, evm, now) ==
  \A i, j \in DOMAIN rows :
     LET a == rows[i]
         b == rows[j]
     IN  /\ Paid(a, Known(rows)) /\ Imitates(b) /\ a.row.party \in Parties /\ Lookalike(a.row.party, b.row.party)
         /\ Older(a.row, b.row, evm)
         /\ \A k \in DOMAIN rows :
               Paid(rows[k], Known(rows)) /\ rows[k].row.party = b.row.party => Older(a.row, rows[k].row, evm)
         => /\ b.flags \cap {"lookalike", "sent_to_lookalike"} # {}
            /\ isLive /\ InAlertWindow(b.row, now) =>
                   \E p \in (IF "sent_to_lookalike" \in b.flags THEN 2 ELSE 1)..3 : <<b.row.tx, p>> \in alerts

\* The order of the property is the order of the scan.
LEMMA OlderIsScanned ==
  ASSUME NEW r \in RowType, NEW s \in RowType, NEW evm \in BOOLEAN, Older(r, s, evm)
  PROVE  ScanBefore(r, s, evm)
<1> DEFINE blocks == After(<<s.block, s.time, s.tx>>, <<r.block, r.time, r.tx>>)
           times  == After(<<s.time, s.block, s.tx>>, <<r.time, r.block, r.tx>>)
<1>1. r.block \in Nat /\ r.time \in Nat /\ s.block \in Nat /\ s.time \in Nat BY DEF RowType
<1>2. \A a, b, c, d, e, f : a > d => After(<<a, b, c>>, <<d, e, f>>) BY DEF After
<1>3. ~InMempool(s) => IF evm THEN blocks ELSE times
  <2>1. ~InMempool(s) => IF evm THEN s.block > r.block ELSE s.time > r.time BY <1>1 DEF Older
  <2>2. (s.block > r.block => blocks) /\ (s.time > r.time => times) BY Zenon, <1>2
  <2> HIDE DEF blocks, times
  <2> QED BY <2>1, <2>2
<1>4. ScanBefore(r, s, evm) <=> IF InMempool(r) # InMempool(s) THEN InMempool(s) ELSE IF evm THEN blocks ELSE times
  BY Zenon DEF ScanBefore
<1> HIDE DEF blocks, times
<1>5. CASE InMempool(s)
  <2>1. InMempool(r) # InMempool(s) BY <1>5 DEF InMempool, Older
  <2> QED BY <1>4, <1>5, <2>1
<1>6. CASE ~InMempool(s)
  <2>1. InMempool(r) = InMempool(s) BY <1>6 DEF InMempool, Older
  <2>2. ScanBefore(r, s, evm) <=> IF evm THEN blocks ELSE times BY <1>4, <2>1
  <2> QED BY <1>3, <1>6, <2>2
<1> QED BY <1>5, <1>6

LEMMA FlagsAreRaised ==
  ASSUME NEW rows \in Seq(RowType), NEW store, NEW h, NEW began \in Nat, NEW isLive, tip \in Nat, began <= tip
  PROVE  Flags(Graded(Analysed(rows, store), h), Alerts(Analysed(rows, store), began), isLive, scene.chain = "evm", tip)
<1> DEFINE n == Len(rows)
           eth == scene.chain = "evm"
           hits == LocalHits(rows, eth, store)
           order == ScanOrder(hits, eth)
           known == Known(hits)
           scan == Scan(hits, order, known)
           flagged == WithScan(hits, order, known, scan)
           said == Graded(flagged, h)
<1>1. n \in Nat /\ DOMAIN rows = 1..n OBVIOUS
<1>2. hits = [i \in 1..n |-> hits[i]] /\ \A i \in 1..n : hits[i].row \in RowType
  <2>1. hits = [i \in 1..n |-> LocalHit(rows[i], eth, store)] BY <1>1 DEF LocalHits
  <2>2. ASSUME NEW i \in 1..n PROVE hits[i].row \in RowType
    <3>1. rows[i] \in RowType BY <1>1
    <3>2. Retiered(rows[i]) \in RowType BY <3>1 DEF Retiered, RowType, Tiers
    <3>3. hits[i].row = rows[i] \/ hits[i].row = Retiered(rows[i]) BY <2>1 DEF LocalHit, Flagged
    <3> QED BY <3>1, <3>2, <3>3
  <2> HIDE DEF hits
  <2> QED BY <2>1, <2>2
<1>3. Analysed(rows, store) = flagged /\ eth \in BOOLEAN BY DEF Analysed, ApplyFlags
<1> HIDE DEF n, hits, eth
<1>4. DOMAIN hits = 1..n /\ Len(hits) = n
  <2>1. DOMAIN [i \in 1..n |-> hits[i]] = 1..n OBVIOUS
  <2>2. DOMAIN hits = 1..n BY <1>2, <2>1
  <2> QED BY <1>1, <2>2
<1>5. Visits(order, hits, n, eth)
  <2>1. HitsOn(hits, n) BY <1>2 DEF HitsOn
  <2>2. n \in Nat BY <1>1
  <2> QED BY Zenon, <1>3, <2>1, <2>2, ScanOrderIs
<1> HIDE DEF order
<1>6. /\ DOMAIN flagged = 1..n
      /\ \A i \in 1..n : /\ flagged[i].row = hits[i].row
                         /\ flagged[i].flags = FlagsOf(hits[i], scan[PlaceOf(order, i) - 1].trust, known)
  BY <1>4 DEF WithScan, Flagged
<1>7. DOMAIN said = 1..n /\ \A i \in 1..n : said[i].row = hits[i].row /\ said[i].flags = flagged[i].flags
  BY <1>6 DEF Graded
<1>8. Known(said) = known
  <2>1. \A i \in 1..n : "lookalike_known" \in said[i].flags <=> hits[i].row.party \in known
    <3> TAKE i \in 1..n
    <3>1. said[i].flags = FlagsOf(hits[i], scan[PlaceOf(order, i) - 1].trust, known) BY <1>6, <1>7
    <3> HIDE DEF scan, known
    <3> QED BY <3>1 DEF FlagsOf, ByItself, BySuspicion, ByCorpus, Kept
  <2>2. \A p \in known : p \in Parties /\ \E i \in 1..n : hits[i].row.party = p BY <1>4 DEF Known
  <2> HIDE DEF scan, known, flagged, said
  <2> QED BY <1>7, <2>1, <2>2 DEF Known
<1> HIDE DEF scan, known, flagged
<1>9. \A i \in 1..n : Paid(said[i], known) /\ hits[i].row.party \in Parties
                      <=> PaysTo(hits[i], hits[i].row.party, known)
  BY <1>7 DEF Paid, PaysTo, Trusting
<1> HIDE DEF said
<1>10. SUFFICES ASSUME NEW i \in 1..n, NEW j \in 1..n, Paid(said[i], known), Imitates(said[j]),
                       said[i].row.party \in Parties, Lookalike(said[i].row.party, said[j].row.party),
                       Older(said[i].row, said[j].row, eth),
                       \A k \in 1..n : Paid(said[k], known) /\ said[k].row.party = said[j].row.party
                          => Older(said[i].row, said[k].row, eth)
                PROVE  /\ said[j].flags \cap {"lookalike", "sent_to_lookalike"} # {}
                       /\ InAlertWindow(said[j].row, tip) =>
                             \E p \in (IF "sent_to_lookalike" \in said[j].flags THEN 2 ELSE 1)..3 :
                                <<said[j].row.tx, p>> \in Alerts(flagged, began)
  <2>1. SUFFICES Flags(said, Alerts(flagged, began), isLive, eth, tip) BY <1>3 DEF said, eth
  <2>2. DOMAIN said = 1..n /\ Known(said) = known BY <1>7, <1>8
  <2> QED BY <2>2 DEF Flags
<1> DEFINE r == hits[j].row
           q == r.party
           trust == scan[PlaceOf(order, j) - 1].trust
<1>11. /\ said[i].row = hits[i].row /\ said[j].row = r
       /\ hits[i].row \in RowType /\ r \in RowType /\ r.value \in {0, Dust, Real} /\ r.dir \in {"in", "out"}
  BY <1>2, <1>7 DEF RowType
<1>12. /\ q \in Parties
       /\ r.dir = "in" \/ Genuine(r) \/ r.tier = "counterfeit"
  BY <1>10, <1>11 DEF Imitates
<1>13. trust[q] # 2 /\ Resembles(q, trust, 1)
  <2> DEFINE k == PlaceOf(order, i)
             l == PlaceOf(order, j)
  <2>1. k \in 1..n /\ l \in 1..n /\ order[k] = i /\ order[l] = j BY <1>5 DEF Visits
  <2>2. k < l BY <1>3, <1>5, <1>10, <1>11, OlderIsScanned DEF Visits
  <2>3. PaysTo(hits[order[k]], hits[i].row.party, known) BY <1>9, <1>10, <1>11, <2>1
  <2>4. ASSUME NEW m \in 1..n, PaysTo(hits[order[m]], q, known) PROVE k < m
    <3>1. order[m] \in 1..n BY <1>5 DEF Visits
    <3>2. hits[order[m]].row.party = q BY <2>4 DEF PaysTo
    <3>3. Paid(said[order[m]], known) BY <1>9, <1>12, <2>4, <3>1, <3>2
    <3>4. Older(hits[i].row, hits[order[m]].row, eth) BY <1>7, <1>10, <1>11, <3>1, <3>2, <3>3
    <3>5. hits[order[m]].row \in RowType BY <1>2, <3>1
    <3>6. ScanBefore(hits[i].row, hits[order[m]].row, eth) BY <1>3, <1>11, <3>4, <3>5, OlderIsScanned
    <3>7. k < PlaceOf(order, order[m]) BY <1>5, <3>1, <3>6 DEF Visits
    <3> QED BY <1>5, <3>7 DEF Visits
  <2> HIDE DEF k, l, q, r
  <2> QED BY <1>1, <1>4, <1>10, <1>11, <1>12, <2>1, <2>2, <2>3, <2>4, ImitatorIsSuspect DEF scan, q, l
<1>14. BySuspicion(r, trust) \cap {"lookalike", "sent_to_lookalike"} # {}
  <2>1. Suspect(r, trust) BY <1>12, <1>13 DEF Suspect
  <2>2. Genuine(r) => r.value = 0 \/ Positive(r) BY <1>11 DEF Positive, Dust, Real
  <2> HIDE DEF r, trust
  <2> QED BY <1>12, <2>1, <2>2 DEF BySuspicion
<1>15. said[j].flags = FlagsOf(hits[j], trust, known) BY <1>6, <1>7
<1>16. said[j].flags \cap {"lookalike", "sent_to_lookalike"} # {} BY <1>14, <1>15 DEF FlagsOf
<1>17. ASSUME InAlertWindow(said[j].row, tip)
       PROVE  \E p \in (IF "sent_to_lookalike" \in said[j].flags THEN 2 ELSE 1)..3 :
                 <<said[j].row.tx, p>> \in Alerts(flagged, began)
  <2>1. j \in DOMAIN flagged /\ flagged[j].row = said[j].row /\ flagged[j].flags = said[j].flags BY <1>6, <1>7
  <2>2. InAlertWindow(flagged[j].row, began)
    <3>1. said[j].row = r /\ r.time \in Nat BY <1>7, <1>11 DEF RowType
    <3>2. r.time = 0 \/ tip - r.time <= AlertWindow BY <1>17, <3>1 DEF InAlertWindow
    <3>3. PICK t \in Nat : t = r.time BY <3>1
    <3>4. AlertWindow \in Nat BY FlagsAssumption
    <3>5. tip - t <= AlertWindow => began - t <= AlertWindow BY <3>4
    <3> QED BY <2>1, <3>1, <3>2, <3>3, <3>5 DEF InAlertWindow
  <2> DEFINE f == flagged[j].flags
  <2>3. Priority(f) \in (IF "sent_to_lookalike" \in f THEN 2 ELSE 1)..3 BY <1>16, <2>1 DEF Priority
  <2>4. \E p \in Priority(f)..3 : <<flagged[j].row.tx, p>> \in Alerts(flagged, began)
    <3>1. Priority(f) > 0 BY <2>3
    <3> QED BY <2>1, <2>2, <3>1, AlertRaised
  <2> HIDE DEF f
  <2> QED BY <2>1, <2>3, <2>4 DEF f
<1> QED BY <1>16, <1>17

-----------------------------------------------------------------------------
(* The invariant.  s is the scene, w where the transactions are, h the tip, *)
(* n the reorganisations so far.                                            *)

\* What a row read at time t or later may say: on Solana what is settled;
\* elsewhere what is so, or what a reorganisation since t may have replaced.
\* On TRON, where blocks are looked up one by one, nothing is said of them.
Anything(w) == (DOMAIN w) \X (Nat \ {0})
Standing(s, w, h, t) ==
  {p \in Anything(w) :
     \/ s.chain = "tron"
     \/ s.chain = "sol" /\ w[p[1]] = p[2] /\ p[2] <= TrueSafe("sol", h)
     \/ s.chain \notin {"tron", "sol"} /\ (w[p[1]] = p[2] \/ p[2] > t - MaxReorg)}
ListAt(s, w, h, t) == Seq(RowsIn(DOMAIN w, Standing(s, w, h, t)))

HeadsType == [latest : Nat, safe : Nat, final : Nat]
HeadsOK(s, h, v) == v \in HeadsType /\ v.final <= TrueFinal(s.chain, h)
EntryOK(s, w, h, e) ==
  /\ e.until \in Nat /\ e.until <= h + HistoryTTL
  /\ e.rows \in ListAt(s, w, h, e.until - HistoryTTL - 1)

Fields == {"todo", "began", "errs", "heads", "rows", "old", "cut", "truth", "seen", "lost", "sums", "list",
           "counted"}
RequestOK(s, w, h, n, r) ==
  /\ DOMAIN r = Fields /\ r.began \in Nat /\ h \in r.began..(r.began + 1) /\ HeadsOK(s, h, r.heads)
  /\ r.rows \in ListAt(s, w, h, r.began - HistoryTTL - 1)
  /\ r.old \in ListAt(s, w, h, r.began - HistoryTTL - 1)
  /\ r.todo \cap {"keep", "land"} # {} => r.rows \in ListAt(s, w, h, r.began)
  /\ r.list \in [DOMAIN w -> Int] /\ r.counted \in [DOMAIN w -> {0, 1}]
  /\ n = 0 => \A x \in DOMAIN w : /\ r.list[x] > 0 => w[x] = r.list[x]
                                  /\ r.counted[x] = 1 => w[x] \in 1..TrueFinal(s.chain, h)

WorldOK(s, w, h, n) ==
  s \in Scenes /\ w \in [DOMAIN s.moves -> {-1} \cup Nat] /\ h \in Nat /\ n \in Nat
LiveOK(s, w, h, n, r) ==
  /\ RequestOK(s, w, h, n, r)
  /\ "heads" \in r.todo => r.todo = {"heads"}
  /\ "newest" \in r.todo => "keep" \notin r.todo
  /\ "land" \notin r.todo
PageOK(s, w, h, n, r) ==
  /\ RequestOK(s, w, h, n, r)
  /\ "fetch" \in r.todo => "land" \notin r.todo
  /\ s.chain = "sol" /\ "heads" \in r.todo => r.todo = {"heads"}
  /\ "keep" \notin r.todo

IInv ==
  /\ WorldOK(scene, at, tip, reorgs)
  /\ heads # <<>> => HeadsOK(scene, tip, heads[1].value)
  /\ flight # <<>> => HeadsOK(scene, tip, flight[1].value)
  /\ recent # <<>> => EntryOK(scene, at, tip, recent[1])
  /\ history # <<>> => EntryOK(scene, at, tip, history[1])
  /\ live # <<>> => LiveOK(scene, at, tip, reorgs, live[1])
  /\ page # <<>> => PageOK(scene, at, tip, reorgs, page[1])

-----------------------------------------------------------------------------
(* The chain moves on *)

LEMMA Lifetimes ==
  /\ HistoryTTL \in Nat /\ RecentTTL \in Nat /\ MaxReorg \in Nat /\ Window \in Nat /\ LogsBack \in Nat
  /\ RecentTTL <= HistoryTTL
  /\ \A c \in {"evm", "btc"} : FinalDepth[c] > MaxReorg + HistoryTTL + 1
BY ReorgAssumption

\* What is final is safe, and both grow with the chain.
LEMMA DepthsGrow ==
  ASSUME NEW c \in Chains, NEW h \in Nat, NEW k \in Nat, h <= k
  PROVE  /\ TrueFinal(c, h) \in Nat /\ TrueSafe(c, h) \in Nat
         /\ TrueFinal(c, h) <= TrueFinal(c, k) /\ TrueSafe(c, h) <= TrueSafe(c, k)
         /\ TrueFinal(c, h) <= TrueSafe(c, h) /\ TrueFinal(c, h) <= h
<1>1. FinalDepth[c] \in Nat /\ SafeDepth[c] \in Nat /\ SafeDepth[c] <= FinalDepth[c] BY DepthAssumption
<1> QED BY <1>1 DEF TrueFinal, TrueSafe, Below

\* A block is mined, a transaction is seen, or the top blocks are replaced.
ChainMoves(s, w, w2, h, h2, n, n2) ==
  /\ WorldOK(s, w, h, n) /\ WorldOK(s, w2, h2, n2) /\ h2 \in {h, h + 1} /\ n2 \in {n, n + 1}
  /\ \A x \in DOMAIN w : w[x] > 0 /\ w2[x] # w[x] =>
        /\ n2 > 0 /\ w[x] > h - MaxReorg
        /\ w[x] > IF s.chain = "sol" THEN TrueSafe("sol", h) ELSE TrueFinal(s.chain, h)

LEMMA ListSurvives ==
  ASSUME NEW s, NEW w, NEW w2, NEW h, NEW h2, NEW n, NEW n2, ChainMoves(s, w, w2, h, h2, n, n2),
         NEW t \in Int, t <= h, NEW rows \in ListAt(s, w, h, t)
  PROVE  rows \in ListAt(s, w2, h2, t)
<1>1. /\ DOMAIN w2 = DOMAIN w /\ h \in Nat /\ h2 \in Nat /\ h <= h2 /\ s.chain \in Chains
      /\ w \in [DOMAIN w -> Int] /\ MaxReorg \in Nat
  BY ScenesAssumption, Lifetimes DEF ChainMoves, WorldOK
<1>2. ASSUME NEW p \in Standing(s, w, h, t) PROVE p \in Standing(s, w2, h2, t)
  <2>1. p \in Anything(w) /\ Anything(w2) = Anything(w) BY <1>1 DEF Standing, Anything
  <2>2. p[1] \in DOMAIN w /\ p[2] \in Nat /\ p[2] > 0 BY <2>1 DEF Anything
  <2>3. CASE s.chain = "sol"
    <3>1. w[p[1]] = p[2] /\ p[2] <= TrueSafe("sol", h) BY <2>3 DEF Standing
    <3>2. TrueSafe("sol", h) <= TrueSafe("sol", h2) /\ TrueSafe("sol", h) \in Nat /\ TrueSafe("sol", h2) \in Nat
      BY <1>1, <2>3, DepthsGrow
    <3>3. w2[p[1]] = w[p[1]] BY <2>2, <2>3, <3>1, <3>2 DEF ChainMoves
    <3> QED BY <1>1, <2>1, <2>2, <2>3, <3>1, <3>2, <3>3 DEF Standing
  <2>4. CASE s.chain = "tron" BY <2>1, <2>4 DEF Standing
  <2>5. CASE s.chain \notin {"tron", "sol"}
    <3>1. w[p[1]] = p[2] \/ p[2] > t - MaxReorg BY <2>5 DEF Standing
    <3>2. w2[p[1]] = w[p[1]] \/ (w[p[1]] = p[2] => p[2] > h - MaxReorg) BY <2>2 DEF ChainMoves
    <3>3. w2[p[1]] = p[2] \/ p[2] > t - MaxReorg BY <1>1, <2>2, <3>1, <3>2
    <3> QED BY <1>1, <2>1, <2>5, <3>3 DEF Standing
  <2> QED BY <2>3, <2>4, <2>5
<1>3. RowsIn(DOMAIN w, Standing(s, w, h, t)) \subseteq RowsIn(DOMAIN w2, Standing(s, w2, h2, t))
  BY <1>1, <1>2 DEF RowsIn
<1> QED BY <1>3, SeqMonotonic DEF ListAt

\* What holds of a later read holds of an earlier one.
LEMMA ListAges ==
  ASSUME NEW s, NEW w, NEW h, NEW t \in Int, NEW u \in Int, u <= t, NEW rows \in ListAt(s, w, h, t)
  PROVE  rows \in ListAt(s, w, h, u)
<1>1. MaxReorg \in Nat BY Lifetimes
<1>2. ASSUME NEW p \in Standing(s, w, h, t) PROVE p \in Standing(s, w, h, u)
  <2>1. p \in Anything(w) BY DEF Standing
  <2>2. p[2] \in Nat BY <2>1 DEF Anything
  <2>3. p[2] > t - MaxReorg => p[2] > u - MaxReorg BY <1>1, <2>2
  <2> QED BY <2>1, <2>3 DEF Standing
<1>3. RowsIn(DOMAIN w, Standing(s, w, h, t)) \subseteq RowsIn(DOMAIN w, Standing(s, w, h, u))
  BY <1>2 DEF RowsIn
<1> QED BY <1>3, SeqMonotonic DEF ListAt

LEMMA EmptyList ==
  ASSUME NEW s, NEW w, NEW h, NEW t PROVE <<>> \in ListAt(s, w, h, t)
BY DEF ListAt

LEMMA HeadsSurvive ==
  ASSUME NEW s, NEW w, NEW w2, NEW h, NEW h2, NEW n, NEW n2, ChainMoves(s, w, w2, h, h2, n, n2),
         NEW v, HeadsOK(s, h, v)
  PROVE  HeadsOK(s, h2, v)
<1>1. h \in Nat /\ h2 \in Nat /\ h <= h2 /\ s.chain \in Chains
  BY ScenesAssumption DEF ChainMoves, WorldOK
<1>2. TrueFinal(s.chain, h) <= TrueFinal(s.chain, h2) /\ TrueFinal(s.chain, h) \in Nat /\ TrueFinal(s.chain, h2) \in Nat
  BY <1>1, DepthsGrow
<1>3. v.final \in Nat BY DEF HeadsOK, HeadsType
<1> QED BY <1>2, <1>3 DEF HeadsOK

LEMMA EntrySurvives ==
  ASSUME NEW s, NEW w, NEW w2, NEW h, NEW h2, NEW n, NEW n2, ChainMoves(s, w, w2, h, h2, n, n2),
         NEW e, EntryOK(s, w, h, e)
  PROVE  EntryOK(s, w2, h2, e)
<1>1. h \in Nat /\ h2 \in Nat /\ h <= h2 /\ HistoryTTL \in Nat BY Lifetimes DEF ChainMoves, WorldOK
<1>2. e.until \in Nat /\ e.until <= h + HistoryTTL BY DEF EntryOK
<1>3. e.until - HistoryTTL - 1 \in Int /\ e.until - HistoryTTL - 1 <= h BY <1>1, <1>2
<1>4. e.rows \in ListAt(s, w2, h2, e.until - HistoryTTL - 1)
  BY <1>3, ListSurvives DEF EntryOK
<1>5. e.until <= h2 + HistoryTTL BY <1>1, <1>2
<1> QED BY <1>2, <1>4, <1>5 DEF EntryOK

LEMMA RequestSurvives ==
  ASSUME NEW s, NEW w, NEW w2, NEW h, NEW h2, NEW n, NEW n2, ChainMoves(s, w, w2, h, h2, n, n2),
         NEW r, RequestOK(s, w, h, n, r), h2 = h \/ r.began = h
  PROVE  RequestOK(s, w2, h2, n2, r)
<1>1. /\ h \in Nat /\ h2 \in Nat /\ h2 \in {h, h + 1} /\ n \in Nat /\ n2 \in {n, n + 1} /\ HistoryTTL \in Nat
      /\ DOMAIN w2 = DOMAIN w /\ w \in [DOMAIN w -> Int] /\ w2 \in [DOMAIN w -> Int] /\ s.chain \in Chains
  BY Lifetimes, ScenesAssumption DEF ChainMoves, WorldOK
<1>2. r.began \in Nat /\ h \in r.began..(r.began + 1) BY DEF RequestOK
<1>3. DOMAIN r = Fields /\ h2 \in r.began..(r.began + 1) BY <1>1, <1>2 DEF RequestOK
<1>4. HeadsOK(s, h2, r.heads) BY HeadsSurvive DEF RequestOK
<1>5. r.began - HistoryTTL - 1 \in Int /\ r.began - HistoryTTL - 1 <= h /\ r.began \in Int /\ r.began <= h BY <1>1, <1>2
<1>6. /\ r.rows \in ListAt(s, w2, h2, r.began - HistoryTTL - 1)
      /\ r.old \in ListAt(s, w2, h2, r.began - HistoryTTL - 1)
      /\ r.todo \cap {"keep", "land"} # {} => r.rows \in ListAt(s, w2, h2, r.began)
  BY <1>5, ListSurvives DEF RequestOK
<1>7. r.list \in [DOMAIN w2 -> Int] /\ r.counted \in [DOMAIN w2 -> {0, 1}] BY <1>1 DEF RequestOK
<1>8. ASSUME n2 = 0, NEW x \in DOMAIN w2
      PROVE  (r.list[x] > 0 => w2[x] = r.list[x]) /\ (r.counted[x] = 1 => w2[x] \in 1..TrueFinal(s.chain, h2))
  <2>1. n = 0 BY <1>1, <1>8
  <2>2. (r.list[x] > 0 => w[x] = r.list[x]) /\ (r.counted[x] = 1 => w[x] \in 1..TrueFinal(s.chain, h))
    BY <1>1, <1>8, <2>1 DEF RequestOK
  <2>3. w[x] > 0 => w2[x] = w[x] BY <1>1, <1>8 DEF ChainMoves
  <2>4. TrueFinal(s.chain, h) \in Nat /\ TrueFinal(s.chain, h2) \in Nat /\ TrueFinal(s.chain, h) <= TrueFinal(s.chain, h2)
    BY <1>1, DepthsGrow
  <2>5. w[x] \in Int BY <1>1, <1>8
  <2> QED BY <2>2, <2>3, <2>4, <2>5
<1> QED BY <1>2, <1>3, <1>4, <1>6, <1>7, <1>8 DEF RequestOK

-----------------------------------------------------------------------------
(* The steps of a request *)

\* The heads are read once; then come the other parts.
LEMMA HeadsForLive ==
  ASSUME NEW w, NEW h, NEW n, NEW q, q # <<>> => LiveOK(scene, w, h, n, q[1]),
         NEW v, HeadsOK(scene, h, v), NEW ok
  PROVE  WithHeads(q, TRUE, v, ok) # <<>> => LiveOK(scene, w, h, n, WithHeads(q, TRUE, v, ok)[1])
<1>1. CASE ~Waits(q, "heads") BY <1>1 DEF WithHeads
<1>2. CASE Waits(q, "heads")
  <2> DEFINE r == q[1]
             errs == IF ok THEN r.errs ELSE r.errs \cup {"heads"}
             todo == (r.todo \ {"heads"}) \cup LiveParts
             r2 == [r EXCEPT !.heads = v, !.errs = errs, !.todo = todo]
  <2>1. q # <<>> /\ "heads" \in r.todo /\ LiveOK(scene, w, h, n, r) BY <1>2 DEF Waits
  <2>2. WithHeads(q, TRUE, v, ok) = <<r2>> BY <1>2 DEF WithHeads
  <2>3. todo = LiveParts BY <2>1 DEF LiveOK
  <2> HIDE DEF todo, errs
  <2>4. /\ DOMAIN r2 = Fields /\ r2.began = r.began /\ r2.heads = v /\ r2.rows = r.rows /\ r2.old = r.old
        /\ r2.todo = todo /\ r2.list = r.list /\ r2.counted = r.counted
    BY <2>1 DEF LiveOK, RequestOK, Fields
  <2> HIDE DEF r2
  <2>5. "heads" \notin todo /\ "keep" \notin todo /\ "land" \notin todo BY <2>3 DEF LiveParts
  <2>6. LiveOK(scene, w, h, n, r2) BY <2>1, <2>4, <2>5 DEF LiveOK, RequestOK
  <2>7. \A z : <<z>>[1] = z OBVIOUS
  <2>8. WithHeads(q, TRUE, v, ok)[1] = r2 BY Zenon, <2>2, <2>7
  <2> QED BY <2>6, <2>8
<1> QED BY <1>1, <1>2

LEMMA HeadsForPage ==
  ASSUME NEW w, NEW h, NEW n, NEW q, q # <<>> => PageOK(scene, w, h, n, q[1]),
         NEW v, HeadsOK(scene, h, v), NEW ok
  PROVE  WithHeads(q, FALSE, v, ok) # <<>> => PageOK(scene, w, h, n, WithHeads(q, FALSE, v, ok)[1])
<1>1. CASE ~Waits(q, "heads") BY <1>1 DEF WithHeads
<1>2. CASE Waits(q, "heads")
  <2> DEFINE r == q[1]
             errs == IF ok THEN r.errs ELSE r.errs \cup {"heads"}
             todo == (r.todo \ {"heads"}) \cup IF scene.chain = "sol" THEN {"fetch"} ELSE {}
             r2 == [r EXCEPT !.heads = v, !.errs = errs, !.todo = todo]
  <2>1. q # <<>> /\ "heads" \in r.todo /\ PageOK(scene, w, h, n, r) BY <1>2 DEF Waits
  <2>2. WithHeads(q, FALSE, v, ok) = <<r2>> BY <1>2 DEF WithHeads
  <2>3. /\ "heads" \notin todo /\ "keep" \notin todo
        /\ "fetch" \in todo => "land" \notin todo
        /\ todo \cap {"keep", "land"} # {} => r.todo \cap {"keep", "land"} # {}
    <3>1. CASE scene.chain = "sol"
      <4>1. todo = {"fetch"} BY <2>1, <3>1 DEF PageOK
      <4> QED BY <4>1
    <3>2. CASE scene.chain # "sol"
      <4>1. todo = r.todo \ {"heads"} BY <3>2
      <4> QED BY <2>1, <4>1 DEF PageOK
    <3> QED BY <3>1, <3>2
  <2> HIDE DEF todo, errs
  <2>4. /\ DOMAIN r2 = Fields /\ r2.began = r.began /\ r2.heads = v /\ r2.rows = r.rows /\ r2.old = r.old
        /\ r2.todo = todo /\ r2.list = r.list /\ r2.counted = r.counted
    BY <2>1 DEF PageOK, RequestOK, Fields
  <2> HIDE DEF r2
  <2>5. PageOK(scene, w, h, n, r2) BY <2>1, <2>3, <2>4 DEF PageOK, RequestOK
  <2>6. \A z : <<z>>[1] = z OBVIOUS
  <2>7. WithHeads(q, FALSE, v, ok)[1] = r2 BY Zenon, <2>2, <2>6
  <2> QED BY <2>5, <2>7
<1> QED BY <1>1, <1>2

\* A request that does one part of its work and keeps its rows.
LEMMA PartDone ==
  ASSUME NEW s, NEW w, NEW h, NEW n, NEW r, RequestOK(s, w, h, n, r), NEW r2,
         DOMAIN r2 = Fields, r2.began = r.began, r2.heads = r.heads, r2.rows = r.rows, r2.todo \subseteq r.todo,
         r2.old \in ListAt(s, w, h, r.began - HistoryTTL - 1),
         r2.list \in [DOMAIN w -> Int], r2.counted \in [DOMAIN w -> {0, 1}],
         n = 0 => \A x \in DOMAIN w : /\ r2.list[x] > 0 => w[x] = r2.list[x]
                                      /\ r2.counted[x] = 1 => w[x] \in 1..TrueFinal(s.chain, h)
  PROVE  RequestOK(s, w, h, n, r2)
BY DEF RequestOK

\* A request that has read rows now, or got them from a cache.
LEMMA RowsTaken ==
  ASSUME NEW s, NEW w, NEW h, NEW n, NEW r, RequestOK(s, w, h, n, r), NEW r2,
         DOMAIN r2 = Fields, r2.began = r.began, r2.heads = r.heads, r2.old = r.old,
         r2.list = r.list, r2.counted = r.counted,
         \/ r2.rows \in ListAt(s, w, h, r.began)
         \/ /\ r2.rows \in ListAt(s, w, h, r.began - HistoryTTL - 1)
            /\ r2.todo \cap {"keep", "land"} = {}
  PROVE  RequestOK(s, w, h, n, r2)
<1>1. r.began \in Nat /\ HistoryTTL \in Nat BY Lifetimes DEF RequestOK
<1>2. r.began - HistoryTTL - 1 \in Int /\ r.began \in Int /\ r.began - HistoryTTL - 1 <= r.began BY <1>1
<1>3. r2.rows \in ListAt(s, w, h, r.began - HistoryTTL - 1) BY <1>2, ListAges
<1> QED BY <1>3 DEF RequestOK

\* What a scene's transactions make are sequences of moves.
LEMMA SceneMoves ==
  ASSUME NEW s \in Scenes
  PROVE  /\ s.moves \in Seq(Seq(Moves)) /\ \A x \in DOMAIN s.moves : s.moves[x] # <<>>
         /\ Len(s.moves) \in Nat /\ DOMAIN s.moves = 1..Len(s.moves)
<1>1. s.moves \in Seq(Seq(Moves) \ {<<>>}) BY ScenesAssumption
<1>2. Seq(Moves) \ {<<>>} \subseteq Seq(Moves) OBVIOUS
<1> QED BY <1>1, <1>2, SeqMonotonic, ElementOfSeq

\* On Bitcoin, after they are made into rows, too.
LEMMA ConvertedMoves ==
  ASSUME NEW moves \in Seq(Moves), moves # <<>>
  PROVE  BtcConverted(moves) \in Seq(Moves)
<1> DEFINE out  == {i \in DOMAIN moves : moves[i].dir = "out"}
           sent == Places(moves, out)
           other == {i \in DOMAIN sent : sent[i].party # Nobody}
           paid == Places(sent, other)
<1>1. /\ BtcConverted(moves) = IF sent = <<>> THEN AsOne(moves) ELSE IF paid = <<>> THEN AsOne(sent) ELSE PerParty(paid)
      /\ out \in SUBSET DOMAIN moves /\ other \in SUBSET DOMAIN sent
  BY DEF BtcConverted, Filter
<1> HIDE DEF out
<1>2. sent \in Seq(Moves) BY <1>1, PlacesAre
<1> HIDE DEF sent, other
<1>3. paid \in Seq(Moves) BY <1>1, <1>2, PlacesAre
<1> HIDE DEF paid
<1>4. ASSUME NEW m \in Moves, NEW list PROVE [m EXCEPT !.value = Largest(list)] \in Moves
  <2>1. Largest(list) \in {0, Dust, Real} BY DEF Largest
  <2> HIDE DEF Dust, Real
  <2> QED BY <2>1 DEF Moves
<1>5. ASSUME NEW list \in Seq(Moves), list # <<>> PROVE AsOne(list) \in Seq(Moves)
  <2>1. list[1] \in Moves BY <1>5
  <2>2. [list[1] EXCEPT !.value = Largest(list)] \in Moves BY <2>1, <1>4
  <2> QED BY <2>2 DEF AsOne
<1>6. ASSUME NEW list \in Seq(Moves) PROVE PerParty(list) \in Seq(Moves)
  <2> DEFINE one == {i \in DOMAIN list : \A j \in 1..(i - 1) : list[j].party # list[i].party}
             first == Places(list, one)
  <2>1. one \in SUBSET DOMAIN list OBVIOUS
  <2> HIDE DEF one
  <2>2. first \in Seq(Moves) BY <2>1, PlacesAre
  <2>3. PerParty(list) = [i \in DOMAIN first |-> [first[i] EXCEPT !.value = Largest(To(list, first[i].party))]]
    BY DEF PerParty, one
  <2> HIDE DEF first
  <2>4. Len(first) \in Nat /\ DOMAIN first = 1..Len(first) BY <2>2
  <2>5. \A i \in DOMAIN first : first[i] \in Moves BY <2>2, <2>4
  <2>6. \A i \in DOMAIN first : [first[i] EXCEPT !.value = Largest(To(list, first[i].party))] \in Moves
    BY <1>4, <2>5
  <2>7. PerParty(list) \in [1..Len(first) -> Moves] BY <2>3, <2>4, <2>6
  <2> QED BY <2>4, <2>7
<1> QED BY <1>1, <1>2, <1>3, <1>5, <1>6

LEMMA MadeIs ==
  ASSUME scene \in Scenes
  PROVE  Made \in Seq(Seq(Moves)) /\ DOMAIN Made = DOMAIN scene.moves
<1> DEFINE moves == scene.moves
<1>1. moves \in Seq(Seq(Moves)) /\ Len(moves) \in Nat /\ DOMAIN moves = 1..Len(moves) BY SceneMoves
<1>2. \A x \in DOMAIN moves : moves[x] \in Seq(Moves) /\ moves[x] # <<>> BY <1>1, SceneMoves, ElementOfSeq
<1>3. Made = IF scene.chain = "btc" THEN [x \in DOMAIN moves |-> BtcConverted(moves[x])] ELSE moves BY DEF Made
<1> HIDE DEF moves
<1>4. \A x \in DOMAIN moves : BtcConverted(moves[x]) \in Seq(Moves) BY <1>2, ConvertedMoves
<1>5. [x \in DOMAIN moves |-> BtcConverted(moves[x])] \in [1..Len(moves) -> Seq(Moves)] BY <1>1, <1>4
<1>6. [x \in DOMAIN moves |-> BtcConverted(moves[x])] \in Seq(Seq(Moves)) BY <1>1, <1>5
<1> QED BY <1>1, <1>3, <1>6 DEF moves

\* A read of the ledger: rows that say what is so.
LEMMA ReadNow ==
  ASSUME NEW s, NEW w, NEW h, NEW n, WorldOK(s, w, h, n), NEW upto \in Nat,
         s.chain = "sol" => upto = TrueSafe("sol", h), NEW t,
         NEW moves \in Seq(Seq(Moves)), DOMAIN moves = DOMAIN s.moves
  PROVE  Ledger(moves, w, upto) \in Seq(EntriesIn(DOMAIN w, Standing(s, w, h, t))) /\ DOMAIN w \in SUBSET Nat
<1>2. DOMAIN w = DOMAIN moves /\ w \in [DOMAIN moves -> Int] BY DEF WorldOK
<1>3. Len(moves) \in Nat /\ DOMAIN moves = 1..Len(moves) OBVIOUS
<1> DEFINE G == Standing(s, w, h, t)
<1>4. \A x \in DOMAIN w : w[x] \in 1..upto => <<x, w[x]>> \in G
  <2> SUFFICES ASSUME NEW x \in DOMAIN w, w[x] \in 1..upto PROVE <<x, w[x]>> \in Standing(s, w, h, t) OBVIOUS
  <2>1. w[x] \in Nat \ {0} /\ w[x] <= upto OBVIOUS
  <2>2. <<x, w[x]>> \in Anything(w) BY <2>1 DEF Anything
  <2> QED BY <2>1, <2>2 DEF Standing
<1> HIDE DEF G
<1>5. Ledger(moves, w, upto) \in Seq(EntriesIn(DOMAIN w, G)) BY <1>2, <1>4, LedgerIs
<1> QED BY <1>2, <1>3, <1>5 DEF G

-----------------------------------------------------------------------------
(* The steps of the chain *)

LEMMA ChainStep ==
  ASSUME IInv, ChainMoves(scene, at, at', tip, tip', reorgs, reorgs'), UNCHANGED <<scene, cacheVars, live, page>>,
         tip' = tip \/ (Patient(live) /\ Patient(page))
  PROVE  IInv'
<1>1. UNCHANGED <<scene, heads, recent, history, flight, live, page>> BY DEF cacheVars
<1>2. WorldOK(scene, at', tip', reorgs') BY DEF ChainMoves
<1>3. /\ heads # <<>> => HeadsOK(scene, tip', heads[1].value)
      /\ flight # <<>> => HeadsOK(scene, tip', flight[1].value)
  BY HeadsSurvive DEF IInv
<1>4. /\ recent # <<>> => EntryOK(scene, at', tip', recent[1])
      /\ history # <<>> => EntryOK(scene, at', tip', history[1])
  BY EntrySurvives DEF IInv
<1>5. live # <<>> => RequestOK(scene, at', tip', reorgs', live[1])
  BY RequestSurvives DEF IInv, Patient, LiveOK
<1>6. page # <<>> => RequestOK(scene, at', tip', reorgs', page[1])
  BY RequestSurvives DEF IInv, Patient, PageOK
<1>7. /\ live # <<>> => LiveOK(scene, at', tip', reorgs', live[1])
      /\ page # <<>> => PageOK(scene, at', tip', reorgs', page[1])
  BY <1>5, <1>6 DEF IInv, LiveOK, PageOK
<1> QED BY <1>1, <1>2, <1>3, <1>4, <1>7 DEF IInv

LEMMA BroadcastStep ==
  ASSUME IInv, NEW x \in Txs, Broadcast(x) PROVE IInv'
<1>1. WorldOK(scene, at, tip, reorgs) BY DEF IInv
<1>2. /\ at' = [at EXCEPT ![x] = 0] /\ at[x] = -1
      /\ UNCHANGED <<scene, tip, reorgs, cacheVars, live, page>>
  BY DEF Broadcast
<1>3. WorldOK(scene, at', tip', reorgs') BY <1>1, <1>2 DEF WorldOK, Txs
<1>4. \A y \in DOMAIN at : at[y] > 0 => at'[y] = at[y] BY <1>1, <1>2 DEF WorldOK
<1>5. ChainMoves(scene, at, at', tip, tip', reorgs, reorgs')
  BY <1>1, <1>2, <1>3, <1>4 DEF ChainMoves
<1> QED BY <1>2, <1>5, ChainStep

LEMMA TickStep ==
  ASSUME IInv, NEW mined \in SUBSET Txs, Tick(mined) PROVE IInv'
<1>1. WorldOK(scene, at, tip, reorgs) BY DEF IInv
<1>2. /\ at' = [y \in Txs |-> IF y \in mined THEN tip' ELSE at[y]] /\ \A y \in mined : at[y] <= 0
      /\ tip' = tip + 1 /\ Patient(live) /\ Patient(page) /\ UNCHANGED <<scene, reorgs, cacheVars, live, page>>
  BY DEF Tick
<1>3. WorldOK(scene, at', tip', reorgs') BY <1>1, <1>2 DEF WorldOK, Txs
<1>4. \A y \in DOMAIN at : at[y] > 0 => at'[y] = at[y]
  <2>1. \A y \in DOMAIN at : at[y] \in Int BY <1>1 DEF WorldOK
  <2>2. \A y \in DOMAIN at : at[y] > 0 => ~(at[y] <= 0) BY <2>1
  <2> QED BY <1>2, <2>2 DEF Txs
<1>5. ChainMoves(scene, at, at', tip, tip', reorgs, reorgs')
  BY <1>1, <1>2, <1>3, <1>4 DEF ChainMoves
<1> QED BY <1>2, <1>5, ChainStep

LEMMA ReorgStep ==
  ASSUME IInv, NEW height \in 1..tip, NEW back \in {-1, 0}, Reorg(height, back) PROVE IInv'
<1>1. WorldOK(scene, at, tip, reorgs) BY DEF IInv
<1>2. /\ at' = [y \in Txs |-> IF at[y] > height THEN back ELSE at[y]] /\ height >= Settled
      /\ height >= tip - MaxReorg /\ reorgs' = reorgs + 1 /\ UNCHANGED <<scene, tip, cacheVars, live, page>>
  BY DEF Reorg
<1>3. WorldOK(scene, at', tip', reorgs') BY <1>1, <1>2 DEF WorldOK, Txs
<1>4. /\ tip \in Nat /\ reorgs \in Nat /\ height \in Nat /\ scene.chain \in Chains /\ MaxReorg \in Nat
      /\ Settled \in Nat
  <2>1. tip \in Nat /\ reorgs \in Nat /\ scene.chain \in Chains BY <1>1, ScenesAssumption DEF WorldOK
  <2>2. Settled \in Nat BY <2>1, DepthsGrow DEF Settled
  <2> QED BY <2>1, <2>2, Lifetimes
<1>5. ASSUME NEW y \in DOMAIN at, at[y] > 0, at'[y] # at[y]
      PROVE  /\ at[y] > tip - MaxReorg
             /\ at[y] > IF scene.chain = "sol" THEN TrueSafe("sol", tip) ELSE TrueFinal(scene.chain, tip)
  <2>1. at[y] \in Int BY <1>1, <1>5 DEF WorldOK
  <2>2. at[y] > height BY <1>2, <1>5 DEF Txs
  <2>3. at[y] > Settled /\ at[y] > tip - MaxReorg BY <1>2, <1>4, <2>1, <2>2
  <2> QED BY <2>3 DEF Settled
<1>6. reorgs' > 0 BY <1>2, <1>4
<1>7. ChainMoves(scene, at, at', tip, tip', reorgs, reorgs')
  BY <1>1, <1>2, <1>3, <1>5, <1>6 DEF ChainMoves
<1> QED BY <1>2, <1>7, ChainStep

LEMMA LapseStep ==
  ASSUME IInv, Lapse PROVE IInv'
BY DEF IInv, Lapse, chainVars

-----------------------------------------------------------------------------
(* The steps of the requests *)

LEMMA LiveStep ==
  ASSUME IInv, UNCHANGED <<scene, chainVars, cacheVars, page>>,
         live' # <<>> => LiveOK(scene, at, tip, reorgs, live'[1])
  PROVE  IInv'
BY DEF IInv, chainVars, cacheVars

LEMMA PageStep ==
  ASSUME IInv, UNCHANGED <<scene, chainVars, cacheVars, live>>,
         page' # <<>> => PageOK(scene, at, tip, reorgs, page'[1])
  PROVE  IInv'
BY DEF IInv, chainVars, cacheVars

\* A node that is behind answers heads that are final all the more.
LEMMA ReadHeads ==
  ASSUME NEW s \in Scenes, NEW h \in Nat, NEW behind \in s.behind
  PROVE  HeadsOK(s, h, HeadsRead(s.chain, h, behind))
<1> DEFINE lag == IF s.chain = "btc" THEN [behind EXCEPT !.safe = behind.latest, !.final = behind.latest] ELSE behind
           latest == Below(h, lag.latest)
           safe == TrueSafe(s.chain, Below(h, lag.safe))
           final == TrueFinal(s.chain, Below(h, lag.final))
<1>1. s.chain \in Chains /\ behind \in [latest : Nat, safe : Nat, final : Nat] BY ScenesAssumption
<1>2. lag \in [latest : Nat, safe : Nat, final : Nat] BY <1>1
<1> HIDE DEF lag
<1>3. /\ latest \in Nat /\ Below(h, lag.safe) \in Nat /\ Below(h, lag.final) \in Nat
      /\ Below(h, lag.final) <= h
  BY <1>2 DEF Below
<1>4. safe \in Nat /\ final \in Nat /\ final <= TrueFinal(s.chain, h) /\ TrueFinal(s.chain, h) \in Nat
  BY <1>1, <1>3, DepthsGrow
<1>5. HeadsRead(s.chain, h, behind) = Clamped(s.chain, Heads(latest, safe, final)) BY DEF HeadsRead, lag
<1> HIDE DEF latest, safe, final
<1> QED BY <1>3, <1>4, <1>5 DEF Clamped, Heads, Least, HeadsOK, HeadsType

LEMMA NoHeadsOK ==
  ASSUME NEW s \in Scenes, NEW h \in Nat PROVE HeadsOK(s, h, NoHeads)
<1>1. TrueFinal(s.chain, h) \in Nat BY ScenesAssumption, DepthsGrow
<1> QED BY <1>1 DEF HeadsOK, HeadsType, NoHeads, Heads

LEMMA HeadsHitStep ==
  ASSUME IInv, HeadsHit PROVE IInv'
<1>1. HeadsOK(scene, tip, heads[1].value) BY DEF IInv, HeadsHit, Fresh
<1>2. CASE live' = WithHeads(live, TRUE, heads[1].value, TRUE) /\ UNCHANGED page
  <2>1. live' # <<>> => LiveOK(scene, at, tip, reorgs, live'[1]) BY <1>1, <1>2, HeadsForLive DEF IInv
  <2> QED BY <1>2, <2>1, LiveStep DEF HeadsHit
<1>3. CASE page' = WithHeads(page, FALSE, heads[1].value, TRUE) /\ UNCHANGED live
  <2>1. page' # <<>> => PageOK(scene, at, tip, reorgs, page'[1]) BY <1>1, <1>3, HeadsForPage DEF IInv
  <2> QED BY <1>3, <2>1, PageStep DEF HeadsHit
<1> QED BY <1>2, <1>3 DEF HeadsHit

LEMMA HeadsFetchStep ==
  ASSUME IInv, NEW behind \in scene.behind, NEW ok, HeadsFetch(behind, ok) PROVE IInv'
<1>1. scene \in Scenes /\ tip \in Nat BY DEF IInv, WorldOK
<1> DEFINE v == IF ok THEN HeadsRead(scene.chain, tip, behind) ELSE NoHeads
<1>2. HeadsOK(scene, tip, v) BY <1>1, ReadHeads, NoHeadsOK
<1>3. flight' = <<[value |-> v, ok |-> ok]>> BY DEF HeadsFetch
<1> HIDE DEF v
<1>4. flight'[1].value = v BY <1>3
<1> QED BY <1>2, <1>4 DEF IInv, HeadsFetch, chainVars

LEMMA HeadsLandStep ==
  ASSUME IInv, HeadsLand PROVE IInv'
<1> DEFINE v == flight[1].value
<1>1. HeadsOK(scene, tip, v) BY DEF IInv, HeadsLand
<1>2. live' # <<>> => LiveOK(scene, at, tip, reorgs, live'[1]) BY <1>1, HeadsForLive DEF IInv, HeadsLand
<1>3. page' # <<>> => PageOK(scene, at, tip, reorgs, page'[1]) BY <1>1, HeadsForPage DEF IInv, HeadsLand
<1>4. heads' # <<>> => HeadsOK(scene, tip, heads'[1].value)
  <2>1. \/ heads' = <<[value |-> v, until |-> tip + HeadsTTL]>>
        \/ heads' = heads
    BY DEF HeadsLand
  <2>2. CASE heads' = heads BY <2>2 DEF IInv
  <2>3. CASE heads' = <<[value |-> v, until |-> tip + HeadsTTL]>>
    <3>1. heads'[1].value = v BY <2>3
    <3> QED BY <1>1, <3>1
  <2> QED BY <2>1, <2>2, <2>3
<1>5. flight' = <<>> BY DEF HeadsLand
<1> QED BY <1>2, <1>3, <1>4, <1>5 DEF IInv, HeadsLand, chainVars

-----------------------------------------------------------------------------
(* The parts of a request *)

\* A request starts with nothing but the place of every transaction now.
LEMMA NewRequest ==
  ASSUME WorldOK(scene, at, tip, reorgs), NEW todo, todo \cap {"keep", "land"} = {}
  PROVE  RequestOK(scene, at, tip, reorgs, Request(todo)) /\ Request(todo).todo = todo
<1> DEFINE r == Request(todo)
<1>1. /\ DOMAIN r = Fields /\ r.began = tip /\ r.heads = NoHeads /\ r.rows = <<>> /\ r.old = <<>>
      /\ r.todo = todo /\ r.list = at /\ r.counted = FinalBalance(scene.chain, 0, at)
  BY DEF Request, Fields
<1>2. /\ scene \in Scenes /\ tip \in Nat /\ scene.chain \in Chains /\ at \in [DOMAIN at -> Int]
  BY ScenesAssumption DEF WorldOK
<1>3. TrueFinal(scene.chain, 0) = 0
  <2>1. TrueFinal(scene.chain, 0) \in Nat /\ TrueFinal(scene.chain, 0) <= 0 BY <1>2, DepthsGrow
  <2> QED BY <2>1
<1>4. r.counted = [x \in DOMAIN at |-> 0] BY <1>1, <1>2, <1>3 DEF FinalBalance
<1>5. HeadsOK(scene, tip, NoHeads) BY <1>2, NoHeadsOK
<1> HIDE DEF r
<1> QED BY <1>1, <1>2, <1>4, <1>5, EmptyList DEF RequestOK, r

\* One part is done, with an error or without.
LEMMA PartsOut ==
  ASSUME NEW q, NEW part
  PROVE  /\ Without(q, part)[1] = [q[1] EXCEPT !.todo = @ \ {part}]
         /\ Failing(q, part)[1] = [q[1] EXCEPT !.todo = @ \ {part}, !.errs = @ \cup {part}]
<1>1. \A z : <<z>>[1] = z OBVIOUS
<1> DEFINE a == [q[1] EXCEPT !.todo = @ \ {part}]
           b == [q[1] EXCEPT !.todo = @ \ {part}, !.errs = @ \cup {part}]
<1>2. Without(q, part) = <<a>> /\ Failing(q, part) = <<b>> BY DEF Without, Failing
<1> HIDE DEF a, b
<1>3. Without(q, part)[1] = a /\ Failing(q, part)[1] = b BY Zenon, <1>1, <1>2
<1> QED BY <1>3 DEF a, b

LEMMA RequestDrops ==
  ASSUME NEW s, NEW w, NEW h, NEW n, NEW q, RequestOK(s, w, h, n, q[1]), NEW part
  PROVE  /\ RequestOK(s, w, h, n, Without(q, part)[1]) /\ RequestOK(s, w, h, n, Failing(q, part)[1])
         /\ Without(q, part)[1].todo = q[1].todo \ {part} /\ Failing(q, part)[1].todo = q[1].todo \ {part}
<1> DEFINE r == q[1]
           a == Without(q, part)[1]
           b == Failing(q, part)[1]
<1>1. DOMAIN r = Fields BY DEF RequestOK
<1>9. a = [r EXCEPT !.todo = @ \ {part}] /\ b = [r EXCEPT !.todo = @ \ {part}, !.errs = @ \cup {part}] BY PartsOut
<1> HIDE DEF a, b, r
<1>2. /\ DOMAIN a = Fields /\ a.began = r.began /\ a.heads = r.heads /\ a.rows = r.rows /\ a.todo = r.todo \ {part}
      /\ a.old = r.old /\ a.list = r.list /\ a.counted = r.counted
  BY <1>9, <1>1 DEF Fields
<1>3. /\ DOMAIN b = Fields /\ b.began = r.began /\ b.heads = r.heads /\ b.rows = r.rows /\ b.todo = r.todo \ {part}
      /\ b.old = r.old /\ b.list = r.list /\ b.counted = r.counted
  BY <1>9, <1>1 DEF Fields
<1>4. RequestOK(s, w, h, n, a) BY <1>2 DEF RequestOK, r
<1>5. RequestOK(s, w, h, n, b) BY <1>3 DEF RequestOK, r
<1> QED BY <1>2, <1>3, <1>4, <1>5 DEF a, b, r

LEMMA LiveDrops ==
  ASSUME NEW s, NEW w, NEW h, NEW n, NEW q, LiveOK(s, w, h, n, q[1]), NEW part
  PROVE  LiveOK(s, w, h, n, Without(q, part)[1]) /\ LiveOK(s, w, h, n, Failing(q, part)[1])
<1>1. RequestOK(s, w, h, n, q[1]) BY DEF LiveOK
<1> QED BY <1>1, RequestDrops DEF LiveOK

LEMMA PageDrops ==
  ASSUME NEW s, NEW w, NEW h, NEW n, NEW q, PageOK(s, w, h, n, q[1]), NEW part
  PROVE  PageOK(s, w, h, n, Without(q, part)[1]) /\ PageOK(s, w, h, n, Failing(q, part)[1])
<1>1. RequestOK(s, w, h, n, q[1]) BY DEF PageOK
<1> QED BY <1>1, RequestDrops DEF PageOK

\* A cached list that is still fresh is as good as one read when the request began.
LEMMA FreshList ==
  ASSUME NEW s, NEW w, NEW h \in Nat, NEW e, EntryOK(s, w, h, e), h <= e.until, NEW t \in Nat, t <= h
  PROVE  e.rows \in ListAt(s, w, h, t - HistoryTTL - 1)
<1>1. e.until \in Nat /\ HistoryTTL \in Nat BY Lifetimes DEF EntryOK
<1>2. e.until - HistoryTTL - 1 \in Int /\ t - HistoryTTL - 1 \in Int /\ t - HistoryTTL - 1 <= e.until - HistoryTTL - 1
  BY <1>1
<1> QED BY <1>2, ListAges DEF EntryOK

\* And a list read since the request began may be kept for its lifetime.
LEMMA KeptList ==
  ASSUME NEW s, NEW w, NEW h \in Nat, NEW t \in Nat, h \in t..(t + 1), NEW ttl \in Nat, ttl <= HistoryTTL,
         NEW e, e.until = h + ttl, e.rows \in ListAt(s, w, h, t)
  PROVE  EntryOK(s, w, h, e)
<1>1. HistoryTTL \in Nat BY Lifetimes
<1>2. e.until - HistoryTTL - 1 \in Int /\ t \in Int /\ e.until - HistoryTTL - 1 <= t BY <1>1
<1>3. e.until \in Nat /\ e.until <= h + HistoryTTL BY <1>1
<1> QED BY <1>2, <1>3, ListAges DEF EntryOK

\* Rows read now stand now, whenever their request began.
LEMMA RowsNow ==
  ASSUME WorldOK(scene, at, tip, reorgs), NEW upto \in Nat,
         scene.chain = "sol" => upto = TrueSafe("sol", tip), NEW t
  PROVE  /\ \A a, b, timed : SortedDesc(Logs(Mined(Index(upto)), a, b, timed)) \in ListAt(scene, at, tip, t)
         /\ \A lost : SortedDesc(Recent(scene.chain, scene.coin, Index(upto), lost)) \in ListAt(scene, at, tip, t)
         /\ \A a, lost, solid, answers :
               History(scene.chain, scene.coin, Index(upto), a, lost, solid, answers).rows \in ListAt(scene, at, tip, t)
<1> DEFINE T == DOMAIN at
           G == Standing(scene, at, tip, t)
           ledger == Index(upto)
<1>1. ledger \in Seq(EntriesIn(T, G)) /\ T \in SUBSET Nat
  <2>1. Made \in Seq(Seq(Moves)) /\ DOMAIN Made = DOMAIN scene.moves BY MadeIs DEF WorldOK
  <2> QED BY <2>1, ReadNow DEF Index
<1>2. scene.chain \in Chains /\ scene.coin \in BOOLEAN /\ (scene.chain = "tron" => Loose(T, G))
  BY ScenesAssumption DEF WorldOK, Loose, Standing, Anything
<1>3. ListAt(scene, at, tip, t) = Seq(RowsIn(T, G)) /\ RowsIn(T, G) \in SUBSET RowType BY DEF ListAt, RowsIn
<1> HIDE DEF T, G, ledger
<1>4. Mined(ledger) \in Seq(EntriesIn(T, G)) BY <1>1, MinedIs
<1>5. \A a, b, timed : SortedDesc(Logs(Mined(ledger), a, b, timed)) \in Seq(RowsIn(T, G))
  BY <1>1, <1>3, <1>4, LogsAre, SortedIs
<1>6. \A lost : SortedDesc(Recent(scene.chain, scene.coin, ledger, lost)) \in Seq(RowsIn(T, G))
  BY <1>1, <1>2, <1>3, RecentIs, SortedIs
<1>7. \A a, lost, solid, answers :
        History(scene.chain, scene.coin, ledger, a, lost, solid, answers).rows \in Seq(RowsIn(T, G))
  BY <1>1, <1>2, HistoryIs
<1> QED BY <1>3, <1>5, <1>6, <1>7 DEF ledger

LEMMA LiveStartStep ==
  ASSUME IInv, LiveStart PROVE IInv'
<1>1. live' = <<Request({"heads"})>> BY DEF LiveStart
<1>2. live'[1] = Request({"heads"}) BY <1>1
<1>3. RequestOK(scene, at, tip, reorgs, live'[1]) /\ live'[1].todo = {"heads"} BY <1>2, NewRequest DEF IInv
<1>4. LiveOK(scene, at, tip, reorgs, live'[1]) BY <1>3 DEF LiveOK
<1> QED BY <1>4, LiveStep DEF LiveStart

\* The newest rows come once; "keep" may follow.
LEMMA NewestTaken ==
  ASSUME NEW r, LiveOK(scene, at, tip, reorgs, r), "newest" \in r.todo, NEW r2,
         DOMAIN r2 = Fields, r2.began = r.began, r2.heads = r.heads, r2.old = r.old,
         r2.list = r.list, r2.counted = r.counted,
         \/ /\ r2.rows \in ListAt(scene, at, tip, r.began)
            /\ r2.todo = r.todo \ {"newest"} \/ r2.todo = (r.todo \ {"newest"}) \cup {"keep"}
         \/ /\ r2.rows \in ListAt(scene, at, tip, r.began - HistoryTTL - 1)
            /\ r2.todo = r.todo \ {"newest"}
  PROVE  LiveOK(scene, at, tip, reorgs, r2)
<1>1. "keep" \notin r.todo /\ "land" \notin r.todo /\ "heads" \notin r.todo BY DEF LiveOK
<1>2. RequestOK(scene, at, tip, reorgs, r2)
  <2>1. RequestOK(scene, at, tip, reorgs, r) BY DEF LiveOK
  <2>2. r2.todo = r.todo \ {"newest"} => r2.todo \cap {"keep", "land"} = {} BY <1>1
  <2> QED BY <2>1, <2>2, RowsTaken
<1>3. "newest" \notin r2.todo /\ "heads" \notin r2.todo /\ "land" \notin r2.todo BY <1>1
<1> QED BY <1>2, <1>3 DEF LiveOK

LEMMA LiveLogsStep ==
  ASSUME IInv, NEW timed, NEW ok, LiveLogs(timed, ok) PROVE IInv'
<1> DEFINE r == live[1]
<1>1. LiveOK(scene, at, tip, reorgs, r) /\ "newest" \in r.todo BY DEF LiveLogs, Waits, IInv
<1>2. WorldOK(scene, at, tip, reorgs) /\ tip \in Nat /\ scene.chain = "evm"
  BY DEF IInv, WorldOK, LiveLogs, ReadsLogs
<1>3. CASE live' = Without(live, "newest")
  <2>1. LiveOK(scene, at, tip, reorgs, live'[1]) BY <1>1, <1>3, LiveDrops
  <2> QED BY <2>1, LiveStep DEF LiveLogs
<1>4. CASE live' = Failing(live, "newest")
  <2>1. LiveOK(scene, at, tip, reorgs, live'[1]) BY <1>1, <1>4, LiveDrops
  <2> QED BY <2>1, LiveStep DEF LiveLogs
<1>5. CASE ~(live' = Without(live, "newest")) /\ ~(live' = Failing(live, "newest"))
  <2> DEFINE rows == SortedDesc(Logs(Mined(Index(tip)), LogsFrom(Live.heads), Live.heads.latest, timed))
             seen == {x \in Txs : at[x] \in (Live.heads.final + 1)..Live.heads.latest}
             r1 == Without(live, "newest")[1]
             r2 == [r1 EXCEPT !.rows = rows, !.seen = seen]
  <2>1. live' = <<r2>> BY <1>5 DEF LiveLogs
  <2>2. rows \in ListAt(scene, at, tip, r.began) BY <1>2, RowsNow
  <2>3. r1 = [r EXCEPT !.todo = @ \ {"newest"}] BY PartsOut
  <2>4. DOMAIN r = Fields BY <1>1 DEF LiveOK, RequestOK
  <2>5. \A z : <<z>>[1] = z OBVIOUS
  <2> HIDE DEF rows, seen, r1, r
  <2>6. /\ DOMAIN r2 = Fields /\ r2.began = r.began /\ r2.heads = r.heads /\ r2.rows = rows /\ r2.old = r.old
        /\ r2.todo = r.todo \ {"newest"} /\ r2.list = r.list /\ r2.counted = r.counted
    BY <2>3, <2>4 DEF Fields
  <2> HIDE DEF r2
  <2>7. LiveOK(scene, at, tip, reorgs, r2) BY <1>1, <2>2, <2>6, NewestTaken DEF r
  <2>8. live'[1] = r2 BY Zenon, <2>1, <2>5
  <2> QED BY <2>7, <2>8, LiveStep DEF LiveLogs
<1> QED BY <1>3, <1>4, <1>5

LEMMA RecentHitStep ==
  ASSUME IInv, RecentHit PROVE IInv'
<1> DEFINE r == live[1]
           r1 == Without(live, "newest")[1]
           r2 == [r1 EXCEPT !.rows = recent[1].rows, !.seen = recent[1].seen, !.lost = recent[1].lost]
<1>1. LiveOK(scene, at, tip, reorgs, r) /\ "newest" \in r.todo BY DEF RecentHit, Waits, IInv
<1>2. live' = <<r2>> BY DEF RecentHit
<1>3. \A z : <<z>>[1] = z OBVIOUS
<1>4. recent[1].rows \in ListAt(scene, at, tip, r.began - HistoryTTL - 1)
  <2>1. EntryOK(scene, at, tip, recent[1]) /\ tip <= recent[1].until /\ tip \in Nat
    BY DEF RecentHit, Fresh, IInv, WorldOK
  <2>2. r.began \in Nat /\ r.began <= tip BY <1>1, <2>1 DEF LiveOK, RequestOK
  <2> QED BY <2>1, <2>2, FreshList
<1>5. r1 = [r EXCEPT !.todo = @ \ {"newest"}] BY PartsOut
<1>6. DOMAIN r = Fields BY <1>1 DEF LiveOK, RequestOK
<1> HIDE DEF r1, r
<1>7. /\ DOMAIN r2 = Fields /\ r2.began = r.began /\ r2.heads = r.heads /\ r2.rows = recent[1].rows /\ r2.old = r.old
      /\ r2.todo = r.todo \ {"newest"} /\ r2.list = r.list /\ r2.counted = r.counted
  BY <1>5, <1>6 DEF Fields
<1> HIDE DEF r2
<1>8. LiveOK(scene, at, tip, reorgs, r2) BY <1>1, <1>4, <1>7, NewestTaken DEF r
<1>9. live'[1] = r2 BY Zenon, <1>2, <1>3
<1> QED BY <1>8, <1>9, LiveStep DEF RecentHit

LEMMA UptoIs ==
  ASSUME WorldOK(scene, at, tip, reorgs), NEW behind \in scene.index
  PROVE  Upto(behind) \in Nat /\ (scene.chain = "sol" => Upto(behind) = TrueSafe("sol", tip))
<1>1. tip \in Nat /\ behind \in Nat /\ scene.chain \in Chains BY ScenesAssumption DEF WorldOK
<1>2. Below(tip, behind) \in Nat BY <1>1 DEF Below
<1>3. "sol" \in Chains BY DEF Chains
<1>4. TrueSafe("sol", tip) \in Nat BY <1>1, <1>3, DepthsGrow
<1> QED BY <1>2, <1>4 DEF Upto

LEMMA RecentReadStep ==
  ASSUME IInv, NEW behind \in scene.index, NEW lost, NEW ok, RecentRead(behind, lost, ok) PROVE IInv'
<1> DEFINE r == live[1]
           rows == SortedDesc(Recent(scene.chain, scene.coin, Index(Upto(behind)), lost))
           seen == OnPage(Index(Upto(behind)))
           more == IF rows = <<>> THEN {} ELSE {"keep"}
           r1 == Without(live, "newest")[1]
           r2 == [r1 EXCEPT !.rows = rows, !.seen = seen, !.lost = lost, !.todo = @ \cup more]
<1>1. LiveOK(scene, at, tip, reorgs, r) /\ "newest" \in r.todo BY DEF RecentRead, Waits, IInv
<1>2. WorldOK(scene, at, tip, reorgs) BY DEF IInv
<1>3. CASE ~ok
  <2>1. live' = Failing(live, "newest") BY <1>3 DEF RecentRead
  <2>2. LiveOK(scene, at, tip, reorgs, live'[1]) BY <1>1, <2>1, LiveDrops
  <2> QED BY <2>2, LiveStep DEF RecentRead
<1>4. CASE ok
  <2>1. live' = <<r2>> BY <1>4 DEF RecentRead
  <2>2. rows \in ListAt(scene, at, tip, r.began) BY <1>2, UptoIs, RowsNow
  <2>3. r1 = [r EXCEPT !.todo = @ \ {"newest"}] BY PartsOut
  <2>4. DOMAIN r = Fields BY <1>1 DEF LiveOK, RequestOK
  <2>5. \A z : <<z>>[1] = z OBVIOUS
  <2>6. more = {} \/ more = {"keep"} OBVIOUS
  <2> HIDE DEF rows, seen, more, r1, r
  <2>7. /\ DOMAIN r2 = Fields /\ r2.began = r.began /\ r2.heads = r.heads /\ r2.rows = rows /\ r2.old = r.old
        /\ r2.todo = (r.todo \ {"newest"}) \cup more /\ r2.list = r.list /\ r2.counted = r.counted
    BY <2>3, <2>4 DEF Fields
  <2> HIDE DEF r2
  <2>8. LiveOK(scene, at, tip, reorgs, r2)
    <3>1. CASE more = {}
      <4>1. r2.todo = r.todo \ {"newest"} BY <2>7, <3>1
      <4> QED BY <1>1, <2>2, <2>7, <4>1, NewestTaken DEF r
    <3>2. CASE more = {"keep"}
      <4>1. r2.todo = (r.todo \ {"newest"}) \cup {"keep"} BY <2>7, <3>2
      <4> QED BY <1>1, <2>2, <2>7, <4>1, NewestTaken DEF r
    <3> QED BY <2>6, <3>1, <3>2
  <2>9. live'[1] = r2 BY Zenon, <2>1, <2>5
  <2> QED BY <2>8, <2>9, LiveStep DEF RecentRead
<1> QED BY <1>3, <1>4

LEMMA RecentKeepStep ==
  ASSUME IInv, RecentKeep PROVE IInv'
<1> DEFINE r == live[1]
           e == [rows |-> r.rows, seen |-> r.seen, lost |-> r.lost, until |-> tip + RecentTTL]
<1>1. LiveOK(scene, at, tip, reorgs, r) /\ "keep" \in r.todo /\ tip \in Nat BY DEF RecentKeep, Waits, IInv, WorldOK
<1>2. recent' = <<e>> /\ live' = Without(live, "keep") BY DEF RecentKeep, Live
<1>3. LiveOK(scene, at, tip, reorgs, live'[1]) BY <1>1, <1>2, LiveDrops
<1>4. /\ r.began \in Nat /\ tip \in r.began..(r.began + 1)
      /\ r.rows \in ListAt(scene, at, tip, r.began)
  BY <1>1 DEF LiveOK, RequestOK
<1>5. e.until = tip + RecentTTL /\ e.rows = r.rows /\ recent'[1] = e BY <1>2
<1> HIDE DEF e, r
<1>6. EntryOK(scene, at, tip, e) BY <1>1, <1>4, <1>5, Lifetimes, KeptList
<1>7. recent' # <<>> => EntryOK(scene, at, tip, recent'[1]) BY <1>5, <1>6
<1> QED BY <1>3, <1>7 DEF IInv, RecentKeep, chainVars

LEMMA LiveHistoryStep ==
  ASSUME IInv, LiveHistory PROVE IInv'
<1> DEFINE r == live[1]
           old == IF Fresh(history) THEN history[1].rows ELSE <<>>
           r1 == Without(live, "history")[1]
           r2 == [r1 EXCEPT !.old = old]
<1>1. LiveOK(scene, at, tip, reorgs, r) BY DEF LiveHistory, Waits, IInv
<1>2. live' = <<r2>> BY DEF LiveHistory
<1>3. \A z : <<z>>[1] = z OBVIOUS
<1>4. old \in ListAt(scene, at, tip, r.began - HistoryTTL - 1)
  <2>1. CASE ~Fresh(history) BY <2>1, EmptyList
  <2>2. CASE Fresh(history)
    <3>1. EntryOK(scene, at, tip, history[1]) /\ tip <= history[1].until /\ tip \in Nat
      BY <2>2 DEF Fresh, IInv, WorldOK
    <3>2. r.began \in Nat /\ r.began <= tip BY <1>1, <3>1 DEF LiveOK, RequestOK
    <3> QED BY <2>2, <3>1, <3>2, FreshList
  <2> QED BY <2>1, <2>2
<1>5. LiveOK(scene, at, tip, reorgs, r1) BY <1>1, LiveDrops
<1>6. r1.began = r.began
  <2>1. r1 = [r EXCEPT !.todo = @ \ {"history"}] BY PartsOut
  <2>2. DOMAIN r = Fields BY <1>1 DEF LiveOK, RequestOK
  <2> HIDE DEF r1, r
  <2> QED BY <2>1, <2>2 DEF Fields
<1> HIDE DEF r1, r, old
<1>7. /\ DOMAIN r2 = Fields /\ r2.began = r1.began /\ r2.heads = r1.heads /\ r2.rows = r1.rows /\ r2.old = old
      /\ r2.todo = r1.todo /\ r2.list = r1.list /\ r2.counted = r1.counted
  BY <1>5 DEF LiveOK, RequestOK, Fields
<1> HIDE DEF r2
<1>8. LiveOK(scene, at, tip, reorgs, r2) BY <1>4, <1>5, <1>6, <1>7 DEF LiveOK, RequestOK
<1>9. live'[1] = r2 BY Zenon, <1>2, <1>3
<1> QED BY <1>8, <1>9, LiveStep DEF LiveHistory

LEMMA LiveSumsStep ==
  ASSUME IInv, NEW ok, LiveSums(ok) PROVE IInv'
<1> DEFINE r == live[1]
           counted == FinalBalance(scene.chain, tip, at)
           sums == BtcMined(at)
           r1 == Without(live, "sums")[1]
           r2 == [r1 EXCEPT !.sums = sums, !.counted = counted]
<1>1. LiveOK(scene, at, tip, reorgs, r) BY DEF LiveSums, Waits, IInv
<1>2. CASE ~ok
  <2>1. live' = Failing(live, "sums") BY <1>2 DEF LiveSums
  <2>2. LiveOK(scene, at, tip, reorgs, live'[1]) BY <1>1, <2>1, LiveDrops
  <2> QED BY <2>2, LiveStep DEF LiveSums
<1>3. CASE ok
  <2>1. live' = <<r2>> BY <1>3 DEF LiveSums
  <2>2. \A z : <<z>>[1] = z OBVIOUS
  <2>3. /\ counted \in [DOMAIN at -> {0, 1}]
        /\ \A x \in DOMAIN at : counted[x] = 1 => at[x] \in 1..TrueFinal(scene.chain, tip)
    BY DEF FinalBalance
  <2>4. LiveOK(scene, at, tip, reorgs, r1) BY <1>1, LiveDrops
  <2> HIDE DEF r1, counted, sums
  <2>5. /\ DOMAIN r2 = Fields /\ r2.began = r1.began /\ r2.heads = r1.heads /\ r2.rows = r1.rows /\ r2.old = r1.old
        /\ r2.todo = r1.todo /\ r2.list = r1.list /\ r2.counted = counted
    BY <2>4 DEF LiveOK, RequestOK, Fields
  <2> HIDE DEF r2
  <2>6. LiveOK(scene, at, tip, reorgs, r2) BY <2>3, <2>4, <2>5 DEF LiveOK, RequestOK
  <2>7. live'[1] = r2 BY Zenon, <2>1, <2>2
  <2> QED BY <2>6, <2>7, LiveStep DEF LiveSums
<1> QED BY <1>2, <1>3

LEMMA LiveListStep ==
  ASSUME IInv, NEW ok, LiveList(ok) PROVE IInv'
<1> DEFINE r == live[1]
           r1 == Without(live, "list")[1]
           r2 == [r1 EXCEPT !.list = at]
<1>1. LiveOK(scene, at, tip, reorgs, r) BY DEF LiveList, Waits, IInv
<1>2. CASE ~ok
  <2>1. live' = Failing(live, "list") BY <1>2 DEF LiveList
  <2>2. LiveOK(scene, at, tip, reorgs, live'[1]) BY <1>1, <2>1, LiveDrops
  <2> QED BY <2>2, LiveStep DEF LiveList
<1>3. CASE ok
  <2>1. live' = <<r2>> BY <1>3 DEF LiveList
  <2>2. \A z : <<z>>[1] = z OBVIOUS
  <2>3. at \in [DOMAIN at -> Int] BY DEF IInv, WorldOK
  <2>4. LiveOK(scene, at, tip, reorgs, r1) BY <1>1, LiveDrops
  <2> HIDE DEF r1
  <2>5. /\ DOMAIN r2 = Fields /\ r2.began = r1.began /\ r2.heads = r1.heads /\ r2.rows = r1.rows /\ r2.old = r1.old
        /\ r2.todo = r1.todo /\ r2.list = at /\ r2.counted = r1.counted
    BY <2>4 DEF LiveOK, RequestOK, Fields
  <2> HIDE DEF r2
  <2>6. LiveOK(scene, at, tip, reorgs, r2) BY <2>3, <2>4, <2>5 DEF LiveOK, RequestOK
  <2>7. live'[1] = r2 BY Zenon, <2>1, <2>2
  <2> QED BY <2>6, <2>7, LiveStep DEF LiveList
<1> QED BY <1>2, <1>3

LEMMA PageStartStep ==
  ASSUME IInv, PageStart PROVE IInv'
<1> DEFINE todo == {"heads"} \cup IF scene.chain = "sol" THEN {} ELSE {"fetch"}
<1>1. page' = <<Request(todo)>> BY DEF PageStart
<1>2. /\ todo \cap {"keep", "land"} = {} /\ "keep" \notin todo /\ "land" \notin todo
      /\ scene.chain = "sol" => todo = {"heads"}
  OBVIOUS
<1> HIDE DEF todo
<1>3. page'[1] = Request(todo) BY <1>1
<1>4. RequestOK(scene, at, tip, reorgs, page'[1]) /\ page'[1].todo = todo BY <1>2, <1>3, NewRequest DEF IInv
<1>5. PageOK(scene, at, tip, reorgs, page'[1]) BY <1>2, <1>4 DEF PageOK
<1> QED BY <1>5, PageStep DEF PageStart

LEMMA PageHitStep ==
  ASSUME IInv, PageHit PROVE IInv'
<1> DEFINE r == page[1]
           e == history[1]
           r1 == Without(page, "fetch")[1]
           r2 == [r1 EXCEPT !.rows = e.rows, !.cut = e.cut, !.truth = e.truth, !.lost = e.lost]
<1>1. PageOK(scene, at, tip, reorgs, r) /\ "fetch" \in r.todo BY DEF PageHit, Waits, IInv
<1>2. page' = <<r2>> BY DEF PageHit
<1>3. \A z : <<z>>[1] = z OBVIOUS
<1>4. e.rows \in ListAt(scene, at, tip, r.began - HistoryTTL - 1)
  <2>1. EntryOK(scene, at, tip, e) /\ tip <= e.until /\ tip \in Nat
    BY DEF PageHit, Fresh, IInv, WorldOK
  <2>2. r.began \in Nat /\ r.began <= tip BY <1>1, <2>1 DEF PageOK, RequestOK
  <2> HIDE DEF e, r
  <2> QED BY <2>1, <2>2, FreshList
<1>5. RequestOK(scene, at, tip, reorgs, r) BY <1>1 DEF PageOK
<1>6. r1 = [r EXCEPT !.todo = @ \ {"fetch"}] BY PartsOut
<1>7. DOMAIN r = Fields BY <1>5 DEF RequestOK
<1> HIDE DEF r1, r, e
<1>8. /\ DOMAIN r2 = Fields /\ r2.began = r.began /\ r2.heads = r.heads /\ r2.rows = e.rows /\ r2.old = r.old
      /\ r2.todo = r.todo \ {"fetch"} /\ r2.list = r.list /\ r2.counted = r.counted
  BY <1>6, <1>7 DEF Fields
<1> HIDE DEF r2
<1>9. "land" \notin r2.todo /\ "keep" \notin r2.todo /\ "fetch" \notin r2.todo
  BY <1>1, <1>8 DEF PageOK
<1>10. r2.todo \cap {"keep", "land"} = {} BY <1>9
<1>11. RequestOK(scene, at, tip, reorgs, r2) BY <1>4, <1>5, <1>8, <1>10, RowsTaken
<1>12. scene.chain = "sol" => "heads" \notin r2.todo BY <1>1, <1>8 DEF PageOK
<1>13. PageOK(scene, at, tip, reorgs, r2) BY <1>9, <1>11, <1>12 DEF PageOK
<1>14. page'[1] = r2 BY Zenon, <1>2, <1>3
<1> QED BY <1>13, <1>14, PageStep DEF PageHit

LEMMA PageReadStep ==
  ASSUME IInv, NEW behind \in scene.index, NEW lost, NEW solid, NEW answers, NEW ok,
         PageRead(behind, lost, solid, answers, ok)
  PROVE  IInv'
<1> DEFINE r == page[1]
           from == r.began - Window
           read == History(scene.chain, scene.coin, Index(Upto(behind)), from, lost,
                           solid, answers)
           truth == {x \in Txs : at[x] \in 1..Upto(behind) /\ at[x] >= from}
           r2 == [r EXCEPT !.todo = (@ \ {"fetch"}) \cup {"land"}, !.rows = read.rows, !.cut = read.cut,
                           !.truth = truth, !.lost = lost]
<1>1. PageOK(scene, at, tip, reorgs, r) /\ "fetch" \in r.todo BY DEF PageRead, Waits, IInv
<1>2. WorldOK(scene, at, tip, reorgs) BY DEF IInv
<1>3. CASE ~ok
  <2>1. page' = Failing(page, "fetch") BY <1>3 DEF PageRead
  <2>2. PageOK(scene, at, tip, reorgs, page'[1]) BY <1>1, <2>1, PageDrops
  <2> QED BY <2>2, PageStep DEF PageRead
<1>4. CASE ok
  <2>1. page' = <<r2>> BY <1>4 DEF PageRead, Page
  <2>2. \A z : <<z>>[1] = z OBVIOUS
  <2>3. read.rows \in ListAt(scene, at, tip, r.began) BY <1>2, UptoIs, RowsNow
  <2>4. RequestOK(scene, at, tip, reorgs, r) /\ DOMAIN r = Fields BY <1>1 DEF PageOK, RequestOK
  <2> HIDE DEF r, read, truth
  <2>5. /\ DOMAIN r2 = Fields /\ r2.began = r.began /\ r2.heads = r.heads /\ r2.rows = read.rows /\ r2.old = r.old
        /\ r2.todo = (r.todo \ {"fetch"}) \cup {"land"} /\ r2.list = r.list /\ r2.counted = r.counted
    BY <2>4 DEF Fields
  <2> HIDE DEF r2
  <2>6. RequestOK(scene, at, tip, reorgs, r2) BY <2>3, <2>4, <2>5, RowsTaken
  <2>7. "fetch" \notin r2.todo /\ "keep" \notin r2.todo /\ (scene.chain = "sol" => "heads" \notin r2.todo)
    BY <1>1, <2>5 DEF PageOK
  <2>8. PageOK(scene, at, tip, reorgs, r2) BY <2>6, <2>7 DEF PageOK
  <2>9. page'[1] = r2 BY Zenon, <2>1, <2>2
  <2> QED BY <2>8, <2>9, PageStep DEF PageRead
<1> QED BY <1>3, <1>4

LEMMA PageLandStep ==
  ASSUME IInv, PageLand PROVE IInv'
<1> DEFINE r == page[1]
           e == [rows |-> r.rows, cut |-> r.cut, truth |-> r.truth, lost |-> r.lost, until |-> tip + HistoryTTL]
<1>1. PageOK(scene, at, tip, reorgs, r) /\ "land" \in r.todo /\ tip \in Nat BY DEF PageLand, Waits, IInv, WorldOK
<1>2. history' = <<e>> /\ page' = Without(page, "land") BY DEF PageLand, Page
<1>3. PageOK(scene, at, tip, reorgs, page'[1]) BY <1>1, <1>2, PageDrops
<1>4. /\ r.began \in Nat /\ tip \in r.began..(r.began + 1)
      /\ r.rows \in ListAt(scene, at, tip, r.began)
  BY <1>1 DEF PageOK, RequestOK
<1>5. e.until = tip + HistoryTTL /\ e.rows = r.rows /\ history'[1] = e BY <1>2
<1> HIDE DEF e, r
<1>6. HistoryTTL \in Nat /\ HistoryTTL <= HistoryTTL BY Lifetimes
<1>7. EntryOK(scene, at, tip, e) BY <1>1, <1>4, <1>5, <1>6, KeptList
<1>8. history' # <<>> => EntryOK(scene, at, tip, history'[1]) BY <1>5, <1>7
<1> QED BY <1>3, <1>8 DEF IInv, PageLand, chainVars

-----------------------------------------------------------------------------
(* What is answered *)

\* No row is old enough to be final under the heads and replaced since.
LEMMA FinalRows ==
  ASSUME WorldOK(scene, at, tip, reorgs), scene.chain # "tron", NEW r, RequestOK(scene, at, tip, reorgs, r),
         NEW rows \in ListAt(scene, at, tip, r.began - HistoryTTL - 1), NEW store
  PROVE  LET graded == Graded(Analysed(rows, store), r.heads)
         IN  \A i \in DOMAIN graded : graded[i].level = "FINALIZED" =>
                at[graded[i].row.tx] \in 1..TrueFinal(scene.chain, tip)
<1> DEFINE G == Standing(scene, at, tip, r.began - HistoryTTL - 1)
           graded == Graded(Analysed(rows, store), r.heads)
<1>1. /\ scene.chain \in {"evm", "btc", "sol"} /\ tip \in Nat /\ DOMAIN at \in SUBSET Nat
      /\ at \in [DOMAIN at -> Int]
  <2>1. scene.moves \in Seq(Seq(Moves)) /\ scene.chain \in Chains BY SceneMoves, ScenesAssumption DEF WorldOK
  <2>2. DOMAIN at = DOMAIN scene.moves BY DEF WorldOK
  <2>3. DOMAIN scene.moves = 1..Len(scene.moves) /\ Len(scene.moves) \in Nat BY <2>1
  <2>4. DOMAIN at \in SUBSET Nat BY <2>2, <2>3
  <2>5. at \in [DOMAIN at -> Int] BY DEF WorldOK
  <2> QED BY <2>1, <2>4, <2>5 DEF WorldOK, Chains
<1>2. rows \in Seq(RowsIn(DOMAIN at, G)) BY DEF ListAt
<1> HIDE DEF G
<1>3. \A i \in DOMAIN graded : /\ graded[i].row \in RowsIn(DOMAIN at, G)
                               /\ graded[i].level = Level(scene.chain, graded[i].row, r.heads)
  BY <1>1, <1>2, AnalysedAre
<1> HIDE DEF graded
<1>4. ASSUME NEW row \in RowsIn(DOMAIN at, G), Level(scene.chain, row, r.heads) = "FINALIZED"
      PROVE  at[row.tx] \in 1..TrueFinal(scene.chain, tip)
  <2>1. row.tx \in DOMAIN at /\ row.block \in Nat /\ (row.block = 0 \/ <<row.tx, row.block>> \in G)
    BY <1>4 DEF RowsIn, RowType
  <2>2. row.block # 0 /\ row.block <= r.heads.final
    BY <1>1, <1>4 DEF Level, EvmLevel, BtcLevel, SolLevel
  <2>3. /\ r.heads.final \in Nat /\ r.heads.final <= TrueFinal(scene.chain, tip)
        /\ r.began \in Nat /\ tip \in r.began..(r.began + 1)
    BY DEF RequestOK, HeadsOK, HeadsType
  <2>4. TrueFinal(scene.chain, tip) \in Nat BY <1>1, DepthsGrow DEF Chains
  <2>5. row.block <= TrueFinal(scene.chain, tip) BY <2>1, <2>2, <2>3, <2>4
  <2>6. at[row.tx] = row.block
    <3>1. CASE scene.chain = "sol" BY <2>1, <2>2, <3>1 DEF G, Standing
    <3>2. CASE scene.chain \in {"evm", "btc"}
      <4>1. at[row.tx] = row.block \/ row.block > r.began - HistoryTTL - 1 - MaxReorg
        BY <2>1, <2>2, <3>2 DEF G, Standing
      <4>2. FinalDepth[scene.chain] \in Nat /\ FinalDepth[scene.chain] > MaxReorg + HistoryTTL + 1
        BY <3>2, Lifetimes, DepthAssumption DEF Chains
      <4>3. row.block <= tip - FinalDepth[scene.chain]
        BY <1>1, <2>1, <2>2, <2>5, <4>2 DEF TrueFinal, Below
      <4>4. HistoryTTL \in Nat /\ MaxReorg \in Nat BY Lifetimes
      <4>5. ~(row.block > r.began - HistoryTTL - 1 - MaxReorg) BY <1>1, <2>1, <2>3, <4>2, <4>3, <4>4
      <4> QED BY <4>1, <4>5
    <3> QED BY <1>1, <3>1, <3>2
  <2> QED BY <2>1, <2>2, <2>4, <2>5, <2>6
<1> QED BY <1>3, <1>4 DEF graded

\* Bitcoin: a payment that the pages do not show is as old as one at the final
\* head, or the pages show everything.
LEMMA BtcFinalIs ==
  ASSUME NEW list, IsFiniteSet(DOMAIN list), DOMAIN list \in SUBSET Nat, list \in [DOMAIN list -> Int],
         NEW sums, NEW final \in Nat, Crossed(list, final),
         NEW x \in DOMAIN list, list[x] > 0, BtcFinal(sums, list, final)[x] = 1
  PROVE  list[x] <= final
<1> DEFINE mined == BtcMined(list)
           newer == [y \in DOMAIN list |-> {z \in mined : Newer(list, z, y)}]
<1>1. mined \in SUBSET DOMAIN list /\ x \in mined BY DEF BtcMined
<1>2. IsFiniteSet(mined)
  <2> HIDE DEF mined
  <2> QED BY <1>1, FS_Subset
<1>3. PageSize \in Nat \ {0} /\ BalancePages \in Nat \ {0} BY LimitsAssumption, DepthAssumption
<1>4. ASSUME NEW y \in DOMAIN list
      PROVE  IsFiniteSet(newer[y]) /\ Cardinality(newer[y]) \in Nat /\ Cardinality(newer[y]) <= Cardinality(mined)
  <2>1. newer[y] \in SUBSET mined OBVIOUS
  <2> HIDE DEF newer, mined
  <2> QED BY <1>2, <2>1, FS_Subset, FS_CardinalityType
<1>5. \A y \in mined : y \in BtcListed(list) <=> Cardinality(newer[y]) < BalancePages * PageSize
  BY <1>1 DEF BtcListed
<1>6. \A y \in BtcListed(list) : y \in mined BY DEF BtcListed
<1>7. CASE x \in BtcListed(list)
  <2>1. ~(list[x] > final) BY <1>7 DEF BtcFinal
  <2> QED BY <2>1
<1>8. CASE x \notin BtcListed(list) /\ \E y \in BtcListed(list) : list[y] <= final
  <2>1. PICK y \in BtcListed(list) : list[y] <= final BY <1>8
  <2>2. y \in mined /\ y \in DOMAIN list BY <1>1, <1>6
  <2>3. SUFFICES ASSUME list[x] > list[y] PROVE FALSE BY <2>1, <2>2
  <2>4. newer[x] \in SUBSET newer[y]
    <3> SUFFICES ASSUME NEW z \in mined, Newer(list, z, x) PROVE Newer(list, z, y) BY <2>2
    <3>1. list[z] \in Int /\ list[x] \in Int /\ list[y] \in Int BY <1>1, <2>2
    <3>2. list[z] > 0 /\ list[y] > 0 BY <2>2 DEF BtcMined
    <3>3. list[z] >= list[x] BY <3>1, <3>2 DEF Newer
    <3>4. list[z] > list[y] /\ list[y] # 0 BY <2>3, <3>1, <3>2, <3>3
    <3> QED BY <3>4 DEF Newer
  <2>5. Cardinality(newer[x]) <= Cardinality(newer[y])
    <3>1. IsFiniteSet(newer[y]) BY <1>4, <2>2
    <3> HIDE DEF newer
    <3> QED BY <2>4, <3>1, FS_Subset
  <2>6. Cardinality(newer[y]) < BalancePages * PageSize BY <1>5, <2>2
  <2>7. ~(Cardinality(newer[x]) < BalancePages * PageSize) BY <1>1, <1>5, <1>8
  <2>8. Cardinality(newer[x]) \in Nat /\ Cardinality(newer[y]) \in Nat BY <1>4, <2>2
  <2>9. BalancePages * PageSize \in Nat BY <1>3
  <2> HIDE DEF newer
  <2> QED BY <2>5, <2>6, <2>7, <2>8, <2>9
<1>9. CASE x \notin BtcListed(list) /\ Cardinality(BtcMined(list)) <= (BalancePages - 1) * PageSize
  <2>1. ~(Cardinality(newer[x]) < BalancePages * PageSize) BY <1>1, <1>5, <1>9
  <2>2. Cardinality(newer[x]) \in Nat /\ Cardinality(newer[x]) <= Cardinality(mined) BY <1>4
  <2>3. Cardinality(mined) \in Nat BY <1>2, FS_CardinalityType
  <2>4. PICK m \in Nat : m = Cardinality(mined) BY <2>3
  <2>5. PICK k \in Nat : k = Cardinality(newer[x]) BY <2>2
  <2>6. m <= (BalancePages - 1) * PageSize BY <1>9, <2>4
  <2>7. (BalancePages - 1) * PageSize < BalancePages * PageSize BY <1>3
  <2>8. k <= m BY <2>2, <2>4, <2>5
  <2>9. ~(k < BalancePages * PageSize) BY <2>1, <2>5
  <2>10. BalancePages * PageSize \in Nat /\ (BalancePages - 1) * PageSize \in Nat BY <1>3
  <2> QED BY <2>6, <2>7, <2>8, <2>9, <2>10
<1> QED BY <1>7, <1>8, <1>9 DEF Crossed

\* The balance called final counts what is final, short of a reorganisation.
LEMMA FinalBalanceIs ==
  ASSUME WorldOK(scene, at, tip, reorgs), reorgs = 0, NEW r, RequestOK(scene, at, tip, reorgs, r),
         Balance(r) # <<>>, NEW x \in Txs, ~((x \in r.sums) # (r.list[x] > 0)), Balance(r)[1][x] = 1
  PROVE  at[x] \in 1..TrueFinal(scene.chain, tip)
<1> DEFINE counted == IF scene.chain = "btc" THEN BtcFinal(r.sums, r.list, r.heads.final) ELSE r.counted
           shown == scene.chain # "btc" \/ BtcShown(scene.moves, counted, r.list, r.heads.final)
<1>1. Balance(r) = IF r.errs \cap {"sums", "list"} = {} /\ shown THEN <<counted>> ELSE <<>> BY DEF Balance
<1>2. \A z : <<z>>[1] = z OBVIOUS
<1>3. shown /\ Balance(r) = <<counted>> BY <1>1
<1>4. /\ \A y \in DOMAIN at : /\ r.list[y] > 0 => at[y] = r.list[y]
                              /\ r.counted[y] = 1 => at[y] \in 1..TrueFinal(scene.chain, tip)
      /\ r.list \in [DOMAIN at -> Int] /\ x \in DOMAIN at
  BY DEF RequestOK, Txs
<1>5. CASE scene.chain # "btc"
  <2>1. Balance(r) = <<r.counted>> BY <1>3, <1>5
  <2>2. Balance(r)[1] = r.counted BY Zenon, <1>2, <2>1
  <2> QED BY <1>4, <2>2
<1>6. CASE scene.chain = "btc"
  <2> DEFINE final == r.heads.final
             list == r.list
  <2>1. Balance(r) = <<BtcFinal(r.sums, list, final)>> /\ Crossed(list, final)
    BY <1>3, <1>6 DEF BtcShown
  <2>2. Balance(r)[1] = BtcFinal(r.sums, list, final) BY Zenon, <1>2, <2>1
  <2>3. BtcFinal(r.sums, list, final)[x] = 1 BY <2>2
  <2>4. list[x] > 0
    <3>1. x \in r.sums BY <1>4, <2>3 DEF BtcFinal
    <3> QED BY <3>1
  <2>5. final \in Nat /\ final <= TrueFinal(scene.chain, tip) BY DEF RequestOK, HeadsOK, HeadsType
  <2>6. DOMAIN list = DOMAIN at /\ list \in [DOMAIN list -> Int] BY <1>4
  <2>7. IsFiniteSet(DOMAIN list) /\ DOMAIN list \in SUBSET Nat
    <3>1. scene.moves \in Seq(Seq(Moves)) BY SceneMoves DEF WorldOK
    <3>2. DOMAIN list = DOMAIN scene.moves BY <2>6 DEF WorldOK
    <3>3. DOMAIN scene.moves = 1..Len(scene.moves) /\ Len(scene.moves) \in Nat BY <3>1
    <3>4. IsFiniteSet(1..Len(scene.moves)) BY <3>3, FS_Interval
    <3> QED BY <3>2, <3>3, <3>4
  <2>8. x \in DOMAIN list BY <1>4
  <2> HIDE DEF list, final
  <2>9. list[x] <= final BY <2>1, <2>3, <2>4, <2>5, <2>6, <2>7, <2>8, BtcFinalIs
  <2>10. at[x] = list[x] BY <1>4, <2>4 DEF list
  <2>11. list[x] \in Int BY <2>6, <2>8
  <2>12. TrueFinal(scene.chain, tip) \in Nat
    <3>1. tip \in Nat /\ scene.chain \in Chains BY ScenesAssumption DEF WorldOK
    <3> QED BY <3>1, DepthsGrow
  <2> QED BY <2>4, <2>5, <2>9, <2>10, <2>11, <2>12
<1> QED BY <1>5, <1>6

\* The rows of an answer, merged from two lists or as they were read.
LEMMA AnswerRows ==
  ASSUME WorldOK(scene, at, tip, reorgs), NEW r, RequestOK(scene, at, tip, reorgs, r)
  PROVE  LET t == r.began - HistoryTTL - 1
         IN  /\ Merged(r.rows, <<>>, r.old) \in ListAt(scene, at, tip, t) /\ r.rows \in ListAt(scene, at, tip, t)
             /\ Merged(r.rows, <<>>, r.old) \in Seq(RowType) /\ r.rows \in Seq(RowType)
             /\ r.began \in Nat /\ tip \in Nat /\ r.began <= tip
<1> DEFINE t == r.began - HistoryTTL - 1
           G == Standing(scene, at, tip, t)
<1>1. r.rows \in Seq(RowsIn(DOMAIN at, G)) /\ r.old \in Seq(RowsIn(DOMAIN at, G)) BY DEF RequestOK, ListAt
<1>2. DOMAIN at \in SUBSET Nat
  <2>1. scene.moves \in Seq(Seq(Moves)) BY SceneMoves DEF WorldOK
  <2>2. DOMAIN scene.moves = 1..Len(scene.moves) /\ Len(scene.moves) \in Nat BY <2>1
  <2>3. DOMAIN at = DOMAIN scene.moves BY DEF WorldOK
  <2> QED BY <2>2, <2>3
<1>3. <<>> \in Seq(RowsIn(DOMAIN at, G)) OBVIOUS
<1>4. tip \in Nat /\ r.began \in Nat /\ tip \in r.began..(r.began + 1) BY DEF WorldOK, RequestOK
<1>5. ListAt(scene, at, tip, t) = Seq(RowsIn(DOMAIN at, G)) BY DEF ListAt
<1> HIDE DEF G
<1>6. Merged(r.rows, <<>>, r.old) \in Seq(RowsIn(DOMAIN at, G)) BY <1>1, <1>2, <1>3, MergedIs
<1>7. Seq(RowsIn(DOMAIN at, G)) \subseteq Seq(RowType)
  <2>1. RowsIn(DOMAIN at, G) \subseteq RowType BY DEF RowsIn
  <2> QED BY <2>1, SeqMonotonic
<1> QED BY <1>1, <1>4, <1>5, <1>6, <1>7

LEMMA LiveRespondStep ==
  ASSUME IInv, NEW store, LiveRespond(store) PROVE IInv' /\ FinalIsFinal'
<1> DEFINE r == live[1]
           rows == Merged(r.rows, <<>>, r.old)
           graded == Graded(Analysed(rows, store), r.heads)
           a == Answer(r, TRUE, Analysed(rows, store))
<1>1. /\ answer' = <<a>> /\ live' = <<>> /\ scene' = scene /\ at' = at /\ tip' = tip /\ reorgs' = reorgs
      /\ UNCHANGED <<scene, chainVars, cacheVars, page>>
  BY DEF LiveRespond, Live, chainVars
<1>2. IInv' BY <1>1, LiveStep
<1>3. WorldOK(scene, at, tip, reorgs) /\ RequestOK(scene, at, tip, reorgs, r)
  BY DEF IInv, LiveRespond, LiveOK
<1>4. /\ a.rows = graded /\ a.balance = Balance(r) /\ a.live = TRUE
      /\ a.moved = {x \in Txs : (x \in r.sums) # (r.list[x] > 0)}
  BY DEF Answer
<1>5. scene.chain # "tron" => \A i \in DOMAIN graded : graded[i].level = "FINALIZED" =>
        at[graded[i].row.tx] \in 1..TrueFinal(scene.chain, tip)
  <2> HAVE scene.chain # "tron"
  <2>1. rows \in ListAt(scene, at, tip, r.began - HistoryTTL - 1) BY <1>3, AnswerRows
  <2> HIDE DEF rows, r
  <2> QED BY <1>3, <2>1, FinalRows
<1>6. a.balance # <<>> => \A x \in Txs \ a.moved : a.balance[1][x] = 1 =>
        at[x] \in 1..TrueFinal(scene.chain, tip) \/ reorgs > 0
  <2> SUFFICES ASSUME Balance(r) # <<>>, NEW x \in Txs, ~((x \in r.sums) # (r.list[x] > 0)), Balance(r)[1][x] = 1,
                      ~(reorgs > 0)
               PROVE  at[x] \in 1..TrueFinal(scene.chain, tip)
    BY <1>4
  <2>1. reorgs = 0 BY <1>3 DEF WorldOK
  <2> HIDE DEF r
  <2> QED BY <1>3, <2>1, FinalBalanceIs
<1> HIDE DEF a, graded
<1>7. answer'[1] = a BY <1>1
<1>8. FinalIsFinal' BY <1>1, <1>4, <1>5, <1>6, <1>7 DEF FinalIsFinal, Said, Txs
<1> QED BY <1>2, <1>8

LEMMA PageRespondStep ==
  ASSUME IInv, NEW store, PageRespond(store) PROVE IInv' /\ FinalIsFinal'
<1> DEFINE r == page[1]
           rows == r.rows
           graded == Graded(Analysed(rows, store), r.heads)
           a == Answer(r, FALSE, Analysed(rows, store))
<1>1. /\ answer' = <<a>> /\ page' = <<>> /\ scene' = scene /\ at' = at /\ tip' = tip
      /\ UNCHANGED <<scene, chainVars, cacheVars, live>>
  BY DEF PageRespond, Page, chainVars
<1>2. IInv' BY <1>1, PageStep
<1>3. WorldOK(scene, at, tip, reorgs) /\ RequestOK(scene, at, tip, reorgs, r)
  BY DEF IInv, PageRespond, PageOK
<1>4. a.rows = graded /\ a.live = FALSE BY DEF Answer
<1>5. scene.chain # "tron" => \A i \in DOMAIN graded : graded[i].level = "FINALIZED" =>
        at[graded[i].row.tx] \in 1..TrueFinal(scene.chain, tip)
  <2>1. rows \in ListAt(scene, at, tip, r.began - HistoryTTL - 1) BY <1>3 DEF RequestOK
  <2> HIDE DEF rows, r
  <2> QED BY <1>3, <2>1, FinalRows
<1> HIDE DEF a, graded
<1>6. answer'[1] = a BY <1>1
<1>7. FinalIsFinal' BY <1>1, <1>4, <1>5, <1>6 DEF FinalIsFinal, Said
<1> QED BY <1>2, <1>7

\* The answer just given says of imitators what the scan of its rows found.
SaidFlags ==
  answer # <<>> => Flags(answer[1].rows, answer[1].alerts, answer[1].live, scene.chain = "evm", tip)
LEMMA SaysFlags ==
  ASSUME NEW a, answer' = <<a>>, UNCHANGED <<scene, tip>>, Flags(a.rows, a.alerts, a.live, scene.chain = "evm", tip)
  PROVE  SaidFlags'
<1>1. answer'[1] = a OBVIOUS
<1>2. scene' = scene /\ tip' = tip OBVIOUS
<1> QED BY <1>1, <1>2 DEF SaidFlags

LEMMA FlagsAreSaid == SaidFlags => LookalikesFlagged
<1> SUFFICES ASSUME answer # <<>>, SaidFlags PROVE LookalikesFlagged BY DEF LookalikesFlagged, Answered
<1> DEFINE a == answer[1]
           evm == scene.chain = "evm"
<1>1. Flags(a.rows, a.alerts, a.live, evm, tip) BY DEF SaidFlags
<1>2. \A x : Pays(x) <=> Paid(x, Known(a.rows)) BY DEF Pays, Paid, Said
<1>3. \A r, s : Precedes(r, s) <=> Older(r, s, evm) BY DEF Precedes, Older, Moment
<1> HIDE DEF evm
<1> QED BY <1>1, <1>2, <1>3 DEF LookalikesFlagged, Flags, Said

LEMMA LiveFlagsStep ==
  ASSUME IInv, NEW store, LiveRespond(store) PROVE SaidFlags'
<1> DEFINE r == live[1]
           rows == Merged(r.rows, <<>>, r.old)
           a == Answer(r, TRUE, Analysed(rows, store))
<1>1. answer' = <<a>> /\ UNCHANGED <<scene, tip>> BY DEF LiveRespond, Live, chainVars
<1>2. WorldOK(scene, at, tip, reorgs) /\ RequestOK(scene, at, tip, reorgs, r)
  BY DEF IInv, LiveRespond, LiveOK
<1>3. /\ a.rows = Graded(Analysed(rows, store), r.heads) /\ a.live = TRUE
      /\ a.alerts = Alerts(Analysed(rows, store), r.began)
  BY DEF Answer
<1>4. rows \in Seq(RowType) /\ r.began \in Nat /\ tip \in Nat /\ r.began <= tip BY <1>2, AnswerRows
<1> HIDE DEF a, rows, r
<1>5. Flags(a.rows, a.alerts, a.live, scene.chain = "evm", tip) BY <1>3, <1>4, FlagsAreRaised
<1> QED BY <1>1, <1>5, SaysFlags

LEMMA PageFlagsStep ==
  ASSUME IInv, NEW store, PageRespond(store) PROVE SaidFlags'
<1> DEFINE r == page[1]
           rows == r.rows
           a == Answer(r, FALSE, Analysed(rows, store))
<1>1. answer' = <<a>> /\ UNCHANGED <<scene, tip>> BY DEF PageRespond, Page, chainVars
<1>2. WorldOK(scene, at, tip, reorgs) /\ RequestOK(scene, at, tip, reorgs, r)
  BY DEF IInv, PageRespond, PageOK
<1>3. a.rows = Graded(Analysed(rows, store), r.heads) /\ a.live = FALSE BY DEF Answer
<1>4. rows \in Seq(RowType) /\ r.began \in Nat /\ tip \in Nat /\ r.began <= tip BY <1>2, AnswerRows
<1> HIDE DEF a, rows, r
<1>5. Flags(a.rows, Alerts(Analysed(rows, store), r.began), a.live, scene.chain = "evm", tip) BY <1>3, <1>4, FlagsAreRaised
<1>6. Flags(a.rows, a.alerts, a.live, scene.chain = "evm", tip) BY <1>3, <1>5 DEF Flags
<1> QED BY <1>1, <1>6, SaysFlags

-----------------------------------------------------------------------------
(* Every state *)

LEMMA InitInv == Init => IInv /\ FinalIsFinal
<1> SUFFICES ASSUME Init PROVE IInv /\ FinalIsFinal OBVIOUS
<1>1. WorldOK(scene, at, tip, reorgs) BY DEF Init, WorldOK
<1>2. heads = <<>> /\ recent = <<>> /\ history = <<>> /\ flight = <<>> /\ live = <<>> /\ page = <<>> /\ answer = <<>>
  BY DEF Init
<1> QED BY <1>1, <1>2 DEF IInv, FinalIsFinal, Answered

LEMMA QuietStep ==
  ASSUME IInv, Quiet PROVE IInv'
<1>1. ASSUME NEW x \in Txs, Broadcast(x) PROVE IInv' BY <1>1, BroadcastStep
<1>2. ASSUME NEW mined \in SUBSET Txs, Tick(mined) PROVE IInv' BY <1>2, TickStep
<1>3. ASSUME NEW height \in 1..tip, NEW back \in {-1, 0}, Reorg(height, back) PROVE IInv' BY <1>3, ReorgStep
<1>4. ASSUME NEW behind \in scene.behind, NEW ok \in scene.oks, HeadsFetch(behind, ok) PROVE IInv'
  BY <1>4, HeadsFetchStep
<1>5. ASSUME NEW timed \in BOOLEAN, NEW ok \in scene.oks, LiveLogs(timed, ok) PROVE IInv' BY <1>5, LiveLogsStep
<1>6. ASSUME NEW behind \in scene.index, NEW lost \in Lost, NEW ok \in scene.oks, RecentRead(behind, lost, ok)
      PROVE  IInv'
  BY <1>6, RecentReadStep
<1>7. ASSUME NEW ok \in scene.oks, LiveSums(ok) \/ LiveList(ok) PROVE IInv' BY <1>7, LiveSumsStep, LiveListStep
<1>8. ASSUME NEW behind \in scene.index, NEW lost \in Lost, NEW solid \in Solid, NEW answers \in BOOLEAN,
             NEW ok \in scene.oks, PageRead(behind, lost, solid, answers, ok)
      PROVE  IInv'
  BY <1>8, PageReadStep
<1>9. CASE Lapse \/ HeadsHit \/ HeadsLand BY <1>9, LapseStep, HeadsHitStep, HeadsLandStep
<1>10. CASE LiveStart \/ RecentHit \/ RecentKeep \/ LiveHistory
  BY <1>10, LiveStartStep, RecentHitStep, RecentKeepStep, LiveHistoryStep
<1>11. CASE PageStart \/ PageHit \/ PageLand BY <1>11, PageStartStep, PageHitStep, PageLandStep
<1> QED BY <1>1, <1>2, <1>3, <1>4, <1>5, <1>6, <1>7, <1>8, <1>9, <1>10, <1>11 DEF Quiet

\* A row called FINALIZED names a transfer that is in the chain at or below its
\* final head, over any caches, nodes that lag and reorganisations, TRON apart;
\* and the balance called final counts no payment that is not.
THEOREM FinalRowsAreFinal == Spec => []FinalIsFinal
<1>1. Init => IInv /\ FinalIsFinal BY InitInv
<1>2. IInv /\ FinalIsFinal /\ [Next]_vars => IInv' /\ FinalIsFinal'
  <2> SUFFICES ASSUME IInv, FinalIsFinal, [Next]_vars PROVE IInv' /\ FinalIsFinal' OBVIOUS
  <2>1. CASE Quiet /\ answer' = <<>>
    <3>1. IInv' BY <2>1, QuietStep
    <3>2. FinalIsFinal' BY <2>1 DEF FinalIsFinal, Answered
    <3> QED BY <3>1, <3>2
  <2>2. CASE \E store \in scene.stores : LiveRespond(store) \/ PageRespond(store)
    BY <2>2, LiveRespondStep, PageRespondStep
  <2>3. CASE UNCHANGED vars
    <3>1. /\ UNCHANGED <<scene, at, tip, reorgs, answer>>
          /\ UNCHANGED <<scene, chainVars, cacheVars, live, page>>
      BY <2>3 DEF vars, chainVars
    <3>2. IInv' BY <3>1 DEF IInv, chainVars, cacheVars
    <3>3. FinalIsFinal' BY <3>1 DEF FinalIsFinal, Answered, Said, Txs
    <3> QED BY <3>2, <3>3
  <2> QED BY <2>1, <2>2, <2>3 DEF Next
<1> QED BY <1>1, <1>2, PTL DEF Spec

LEMMA InvariantStep ==
  ASSUME IInv, [Next]_vars PROVE IInv'
<1>1. CASE Quiet BY <1>1, QuietStep
<1>2. CASE \E store \in scene.stores : LiveRespond(store) \/ PageRespond(store)
  BY <1>2, LiveRespondStep, PageRespondStep
<1>3. CASE UNCHANGED vars
  <2>1. UNCHANGED <<scene, chainVars, cacheVars, live, page>> BY <1>3 DEF vars
  <2> QED BY <2>1 DEF IInv, chainVars, cacheVars
<1> QED BY <1>1, <1>2, <1>3 DEF Next

\* Once the owner has really paid an address, whatever another one with the same
\* ends sends or receives is flagged, over any ledger, order of the blocks and
\* local lists, on every chain; and /live warns of it while the row is recent.
THEOREM LookalikesAreFlagged == Spec => []LookalikesFlagged
<1>1. Init => IInv /\ SaidFlags
  <2> SUFFICES ASSUME Init PROVE IInv /\ SaidFlags OBVIOUS
  <2>1. answer = <<>> BY DEF Init
  <2> QED BY <2>1, InitInv DEF SaidFlags
<1>2. IInv /\ SaidFlags /\ [Next]_vars => IInv' /\ SaidFlags'
  <2> SUFFICES ASSUME IInv, SaidFlags, [Next]_vars PROVE IInv' /\ SaidFlags' OBVIOUS
  <2>1. IInv' BY InvariantStep
  <2>2. CASE answer' = <<>> BY <2>1, <2>2 DEF SaidFlags
  <2>3. CASE \E store \in scene.stores : LiveRespond(store) \/ PageRespond(store)
    BY <2>1, <2>3, LiveFlagsStep, PageFlagsStep
  <2>4. CASE UNCHANGED vars
    <3>1. UNCHANGED <<scene, tip, answer>> BY <2>4 DEF vars, chainVars
    <3> QED BY <2>1, <3>1 DEF SaidFlags
  <2> QED BY <2>1, <2>2, <2>3, <2>4 DEF Next
<1> QED BY <1>1, <1>2, FlagsAreSaid, PTL DEF Spec
=============================================================================
