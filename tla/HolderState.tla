------------------------------ MODULE HolderState ------------------------------
(***************************************************************************)
(* The Bitcoin holder state (opendata_bitcoin_holders.go): which unspent   *)
(* coins exist at the end of a day, by the day that created them.  The     *)
(* on-chain job stores what a day created, the coin-age job what it spent, *)
(* an operator's UTXO baseline starts the state over, and the maintenance  *)
(* pass rolls it forward over what is stored.  The pass reads its inputs   *)
(* in several SQLite reads before its one transaction; both jobs, the      *)
(* baseline (another process) and the price feed write between any two.    *)
(***************************************************************************)
EXTENDS Sums, Functions, TLC

CONSTANTS
  FinalDay,       \* days are 0 .. FinalDay, the last one never ends
  Created,        \* [day -> sats created]: the chain itself
  Spent,          \* [day -> [creation day -> sats spent]]
  FirstStored,    \* the jobs have already stored the days up to this one; -1: none
  Retain,         \* retentionDays of the spent matrix
  BadKinds,       \* kinds of faulty on-chain rows BigQuery may return
  FirstGens,      \* how many baselines may have been built and applied before
  MaxBuilt,       \* bound: baselines built from now on
  MaxRestarts,    \* bound: how often the server restarts
  Prices          \* TRUE: the price feed may lag behind; FALSE: always complete

Dates   == 0 .. FinalDay
Buckets == 0 .. FinalDay + 1
NoDay   == -1

ASSUME HolderAssumption ==
  /\ FinalDay \in Nat /\ Retain \in Nat /\ MaxBuilt \in Nat /\ MaxRestarts \in Nat
  /\ FirstGens \subseteq Nat /\ FirstGens # {} /\ IsFiniteSet(FirstGens)
  /\ Created \in [Dates -> Nat] /\ Spent \in [Dates -> [Buckets -> Nat]]
  /\ FirstStored \in NoDay .. FinalDay - 1
  /\ \A d \in Dates, c \in Buckets: c > d + 1 => Spent[d][c] = 0
  /\ BadKinds \subseteq {"created", "overclaim"} /\ Prices \in BOOLEAN

VARIABLES
  dayNow,     \* the clock, in days
  priced,     \* days with a close in the price feed
  onchain,    \* btc_onchain_daily: the kind of each day's row, "none" without one
  rollupCursor, coinageCursor,
  matrix,     \* days with rows in btc_spent_by_age
  coinage,    \* btc_coinage_daily: "none", "blocked" (without prices) or "priced"
  planned,    \* the end date of the baseline query under way, NoDay without one
  built,      \* counts them for the bound
  baseAsOf,   \* [generation -> its as-of day]
  kept,       \* generations with rows in btc_utxo_baseline
  pending,    \* baseline_pending: a generation, 0 without one
  meta,       \* baseline_meta: a generation, 0 without one
  utxo, asOf, gen,  \* btc_utxo_state with its two kv rows
  rows,       \* btc_holder_daily
  halted,     \* holder_engine_status: the halted day, NoDay if "ok"
  m,          \* the maintenance pass: its place and what it has read
  job,        \* where the coin-age run is: its store, then a pass, then the prune
  restarts

inputs == <<dayNow, priced, onchain, rollupCursor, coinageCursor, matrix>>
base   == <<planned, built, baseAsOf, kept, pending, meta>>
state  == <<utxo, asOf, gen, rows, halted>>
holderVars == <<inputs, coinage, base, state, m, job, restarts>>

Gens == 1 .. Max(FirstGens) + MaxBuilt
SumOf(u) == Total(u, DOMAIN u)

-----------------------------------------------------------------------------
(* The chain and what the queries report of it.                             *)

\* The unspent sats of each bucket at the end of day d, as the blocks have them.  A
\* bucket d + 1 may be negative: a block dated d spends from a parent dated d + 1.
SpentFrom(c) == [d \in Dates |-> Spent[d][c]]
Unspent(d) ==
  [c \in Buckets |-> (IF c <= d /\ c \in Dates THEN Created[c] ELSE 0) - Total(SpentFrom(c), 0 .. d)]

\* baselineSats: the query counts outputs of blocks before t0 that no block before t0
\* spends, so it does not know the outputs of day t0 that day t0 - 1 spent.
BaselineOf(t0) == [c \in Buckets |-> IF c < t0 THEN Unspent(t0 - 1)[c] ELSE 0]

\* A day's on-chain row: what it says was created and issued (coinbase less fees and
\* OP_RETURN), and whether it claims more than the schedule.
CreatedIn(kind, d) == Created[d] + (IF kind = "created" THEN 1 ELSE 0)
Issued(d)          == Created[d] - SumOf(Spent[d])
NothingSpent       == [c \in Buckets |-> 0]
SpentIn(mat, d)    == IF d \in mat THEN Spent[d] ELSE NothingSpent
Known(mat, c)      == [d \in Dates |-> SpentIn(mat, d)[c]]

-----------------------------------------------------------------------------
(* The engine's arithmetic.                                                 *)

\* initFromBaseline: the correction at the boundary.
BugInitFromBaseline(b, t0, sp) == b
InitFromBaseline(b, t0, sp) == [c \in Buckets |-> IF c >= t0 THEN b[c] - sp[c] ELSE b[c]]

IdentityHolds(before, after, d) == SumOf(after) - SumOf(before) = Issued(d)
SignsHold(u, d) ==
  \A c \in Buckets: (c <= d => u[c] >= 0) /\ (c > d + 1 => u[c] = 0)

\* holderMetrics: the price metrics are blocked without the day's close or with an
\* incomplete history; the supply is published all the same.
Row(d, u, see) ==
  [u |-> u, blocked |-> IF see.complete /\ d \in see.closes THEN "no" ELSE "price"]
NoRow == [u |-> NothingSpent, blocked |-> "none"]

\* blockHolderDayMetrics: a day that fails a check loses its price metrics.
Checked(row, passes) == IF passes THEN row ELSE [row EXCEPT !.blocked = "check"]

\* applyDay, over the days ds: what they created comes in, what they spent goes.
Forward(u, ds, see) ==
  [c \in Buckets |->
     u[c] - Total(Known(see.matrix, c), ds)
          + (IF c \in ds THEN CreatedIn(see.onchain[c], c) ELSE 0)]
Backward(u, ds, see) ==
  [c \in Buckets |->
     u[c] + Total(Known(see.matrix, c), ds)
          - (IF c \in ds THEN CreatedIn(see.onchain[c], c) ELSE 0)]

\* The loop that rolls forward from the state u at the end of day d0 up to target: it
\* ends at a day without an on-chain row, and halts before a day that fails a check.
RollForward(u, d0, target, see) ==
  LET after(d) == Forward(u, d0 + 1 .. d, see)
      missing == {d \in d0 + 1 .. target: see.onchain[d] = "none"}
      failing == {d \in d0 + 1 .. target:
                    ~ /\ IdentityHolds(after(d - 1), after(d), d)
                      /\ see.onchain[d] # "overclaim"
                      /\ SignsHold(after(d), d)}
      last == IF missing \cup failing # {} THEN Min(missing \cup failing) - 1
              ELSE IF target > d0 THEN target ELSE d0
      halt == IF last + 1 \in failing \ missing THEN last + 1 ELSE NoDay
  IN  [u |-> after(last), asOf |-> last, halted |-> halt,
       rows |-> [d \in Dates |->
                   IF d \in d0 + 1 .. last \/ d = halt
                   THEN Checked(Row(d, after(d), see), d # halt) ELSE NoRow]]

\* The loop that reconstructs the days before the baseline, from day d0 down: it ends
\* after a day whose on-chain row or spent matrix is not there or whose identity fails.
Reconstruct(u, d0, see) ==
  LET after(d) == Backward(u, d + 1 .. d0, see)
      known(d) == see.onchain[d] # "none" /\ d \in see.matrix
      identity(d) == ~known(d) \/ IdentityHolds(after(d - 1), after(d), d)
      ends == {d \in 0 .. d0: ~known(d) \/ ~identity(d)}
      first == IF ends = {} THEN 0 ELSE Max(ends)
  IN  [d \in Dates |->
         IF d \in first .. d0
         THEN Checked(Row(d, after(d), see),
                      /\ identity(d) /\ see.onchain[d] # "overclaim"
                      /\ SignsHold(after(d), d))
         ELSE NoRow]

Upsert(old, new) == [d \in Dates |-> IF new[d] = NoRow THEN old[d] ELSE new[d]]

-----------------------------------------------------------------------------
(* The two jobs, the price feed, the baseline.                              *)

NoPass == [pc |-> "idle", caller |-> "loop", closes |-> {}, complete |-> FALSE,
         matrix |-> {}, onchain |-> [d \in Dates |-> "none"], pend |-> 0, halted |-> NoDay,
         older |-> FALSE]

Complete == priced = 0 .. dayNow - 1

NewDay ==
  /\ dayNow < FinalDay
  /\ dayNow' = dayNow + 1
  /\ priced' = IF Prices THEN priced ELSE 0 .. dayNow
  /\ UNCHANGED <<onchain, rollupCursor, coinageCursor, matrix, coinage, base, state, m,
                 job, restarts>>

\* btcPriceSyncer: a sync brings the days it lacks through yesterday.
PricesArrive ==
  /\ priced' = 0 .. dayNow - 1
  /\ priced' # priced
  /\ UNCHANGED <<dayNow, onchain, rollupCursor, coinageCursor, matrix, coinage, base,
                 state, m, job, restarts>>

\* applyBtcRollupBatch: rows and cursor in one transaction.  Only the window's last row
\* may be faulty here.
StoreRollup ==
  \E to \in rollupCursor + 1 .. dayNow - 1, kind \in {"ok"} \cup BadKinds:
    /\ onchain' = [d \in Dates |-> IF d \in rollupCursor + 1 .. to - 1 THEN "ok"
                                  ELSE IF d = to THEN kind ELSE onchain[d]]
    /\ rollupCursor' = to
    /\ UNCHANGED <<dayNow, priced, coinageCursor, matrix, coinage, base, state, m, job,
                   restarts>>

\* applyBtcCoinAgeBatch.  Its rows are computed without prices.  The same goroutine then
\* waits for a maintenance pass (onChange) and prunes.
StoreCoinage ==
  /\ job = "idle"
  /\ \E to \in coinageCursor + 1 .. dayNow - 1:
       LET new == coinageCursor + 1 .. to
       IN  /\ matrix' = matrix \cup new
           /\ coinage' = [d \in Dates |-> IF d \in new THEN "blocked" ELSE coinage[d]]
           /\ coinageCursor' = to
  /\ job' = "pass"
  /\ UNCHANGED <<dayNow, priced, onchain, rollupCursor, base, state, m, restarts>>

\* pruneBtcCoinAge: the window's end is the day after the cursor.
Prune ==
  /\ job = "prune"
  /\ matrix' = {d \in matrix: ~(/\ d < coinageCursor + 1 - Retain
                                /\ (asOf = NoDay \/ d <= asOf))}
  /\ job' = "idle"
  /\ UNCHANGED <<dayNow, priced, onchain, rollupCursor, coinageCursor, coinage, base,
                 state, m, restarts>>

\* resolveEndDate: the first day the stored inputs do not cover.
EndDate == IF coinageCursor # NoDay THEN coinageCursor + 1
           ELSE IF rollupCursor # NoDay THEN rollupCursor + 1 ELSE dayNow

NewGen == (IF kept = {} THEN 0 ELSE Max(kept)) + 1

PlanBaseline ==
  /\ planned = NoDay /\ built < MaxBuilt
  /\ EndDate > 0
  /\ planned' = EndDate
  /\ m' = IF m.pc = "idle" THEN m ELSE [m EXCEPT !.older = TRUE]
  /\ UNCHANGED <<inputs, coinage, built, baseAsOf, kept, pending, meta, state, job, restarts>>

\* commitBtcBaseline, from the CLI or from the server.  The query scans 687 GiB: a pass
\* over local tables that was under way when it was planned ends before it does.
CommitBaseline ==
  /\ planned # NoDay /\ ~m.older
  /\ kept' = kept \cup {NewGen}
  /\ baseAsOf' = [baseAsOf EXCEPT ![NewGen] = planned]
  /\ pending' = NewGen
  /\ meta' = NewGen
  /\ planned' = NoDay
  /\ built' = built + 1
  /\ UNCHANGED <<inputs, coinage, state, m, job, restarts>>

-----------------------------------------------------------------------------
(* A maintenance pass.  btcHolderMaintenance.mu admits one at a time.       *)

At(pc) == m.pc = pc
Others == <<inputs, coinage, base, state, restarts>>

\* run: the hourly loop calls it, and the coin-age job after its store.  The closes are
\* copied first; the coverage, the matrix and the on-chain rows are three later reads, one
\* step here because no writer touches two of them.
Start(caller) ==
  /\ At("idle")
  /\ caller = "job" => job = "pass"
  /\ m' = [NoPass EXCEPT !.pc = "stored", !.caller = caller, !.closes = priced]
  /\ UNCHANGED <<Others, job>>

ReadStored ==
  /\ At("stored")
  /\ m' = [m EXCEPT !.pc = "pending", !.complete = Complete,
                    !.closes = IF Complete THEN m.closes ELSE {}, \* else of no use
                    !.matrix = matrix, !.onchain = onchain]
  /\ UNCHANGED <<Others, job>>

\* A pending baseline comes first.
ReadPending ==
  /\ At("pending")
  /\ m' = [m EXCEPT !.pend = pending,
                    !.pc = IF pending = 0 /\ m.complete THEN "blocked" ELSE "commit"]
  /\ UNCHANGED <<Others, job>>

\* With complete prices, rows blocked for want of them send the pass back to the active
\* baseline (activeBaselineRef).
BugRowsNeedPrices == asOf # NoDay /\ rows[asOf].blocked = "price"
RowsNeedPrices == \E d \in Dates: rows[d].blocked = "price"
ActiveBaseline == meta

ReadBlocked ==
  /\ At("blocked")
  /\ m' = [m EXCEPT !.pc = "commit",
                    !.pend = IF RowsNeedPrices THEN ActiveBaseline ELSE 0]
  /\ UNCHANGED <<Others, job>>

\* minSyncedCursor, read just before the transaction.
Target == IF rollupCursor < coinageCursor THEN rollupCursor ELSE coinageCursor

\* Every day of the matrix read gets its coin-age row again, with the prices read.
Recomputed ==
  [d \in Dates |-> IF d \notin m.matrix THEN coinage[d]
                  ELSE IF m.complete /\ d \in m.closes THEN "priced" ELSE "blocked"]

\* What the pass still needs once its transaction is done.
After(day) == [NoPass EXCEPT !.pc = "after", !.caller = m.caller, !.older = m.older,
                           !.pend = m.pend, !.halted = day]
Ended == IF m.caller = "job" THEN "prune" ELSE job

\* applyHolderMaintenanceTx deletes baseline_pending, whatever it says by now.
PendingAfter == 0

\* applyPendingBaseline up to its transaction.
ApplyBaseline ==
  /\ At("commit") /\ m.pend # 0
  /\ m.pend \in kept
  /\ LET t0 == baseAsOf[m.pend]
         u0 == InitFromBaseline(BaselineOf(t0), t0, SpentIn(m.matrix, t0 - 1))
         fwd == RollForward(u0, t0 - 1, Target, m)
         back == Reconstruct(u0, t0 - 1, m)
     IN  /\ utxo' = fwd.u
         /\ asOf' = fwd.asOf
         /\ rows' = Upsert(rows, Upsert(back, fwd.rows))
         /\ m' = After(fwd.halted)
  /\ gen' = m.pend
  /\ coinage' = Recomputed
  /\ pending' = PendingAfter
  /\ UNCHANGED <<inputs, planned, built, baseAsOf, kept, meta, halted, job, restarts>>

\* rollForwardExisting up to its transaction.
NothingToRoll == asOf = NoDay \/ Target <= asOf

RollExisting ==
  /\ At("commit") /\ m.pend = 0
  /\ coinage' = Recomputed
  /\ IF NothingToRoll
     THEN /\ UNCHANGED <<utxo, asOf, gen, rows>>
          /\ m' = NoPass /\ job' = Ended
     ELSE LET fwd == RollForward(utxo, asOf, Target, m)
          IN  /\ utxo' = fwd.u
              /\ asOf' = fwd.asOf
              /\ rows' = Upsert(rows, fwd.rows)
              /\ IF fwd.asOf # asOf \/ fwd.halted # NoDay
                 THEN m' = After(fwd.halted) /\ job' = job
                 ELSE m' = NoPass /\ job' = Ended
              /\ UNCHANGED gen
  /\ UNCHANGED <<inputs, base, halted, restarts>>

\* pruneBtcBaselineGenerations keeps the applied generation, the one before and any newer.
BugSurviving == {m.pend}
Surviving == IF m.pend > 2 THEN {g \in kept: g >= m.pend - 1} ELSE kept

\* persistEngineStatus, and the pruning after a baseline.
Finish ==
  /\ At("after")
  /\ halted' = m.halted
  /\ kept' = IF m.pend = 0 THEN kept ELSE Surviving
  /\ m' = NoPass /\ job' = Ended
  /\ UNCHANGED <<inputs, coinage, planned, built, baseAsOf, pending, meta, utxo, asOf, gen,
                 rows, restarts>>

\* The pass fails and returns; nothing is written.  A read that fails is a pass that was
\* never made, so only the transaction fails here.
Abort ==
  /\ At("commit")
  /\ m' = NoPass /\ job' = Ended
  /\ UNCHANGED Others

\* The server dies; SQLite and a baseline query of the CLI go on.
Restart ==
  /\ restarts < MaxRestarts
  /\ m # NoPass \/ job # "idle"
  /\ m' = NoPass /\ job' = "idle"
  /\ restarts' = restarts + 1
  /\ UNCHANGED <<inputs, coinage, base, state>>

-----------------------------------------------------------------------------
\* The server starts with the days up to FirstStored in its tables; either no baseline was
\* ever built, or the last of some has been applied and, with a feed that lags, the row of
\* its day waits for prices.
HolderInit ==
  LET before == 0 .. FirstStored
      first == [d \in Dates |->
                  IF d = FirstStored
                  THEN [u |-> Unspent(d), blocked |-> IF Prices THEN "price" ELSE "no"]
                  ELSE NoRow]
  IN  /\ dayNow = FirstStored + 1
      /\ priced = IF Prices THEN {} ELSE before
      /\ onchain = [d \in Dates |-> IF d \in before THEN "ok" ELSE "none"]
      /\ rollupCursor = FirstStored /\ coinageCursor = FirstStored
      /\ matrix = before
      /\ coinage = [d \in Dates |-> IF d \in before THEN "blocked" ELSE "none"]
      /\ planned = NoDay /\ built = 0 /\ pending = 0
      /\ gen \in FirstGens /\ meta = gen
      /\ kept = {g \in 1 .. gen: g >= gen - 1}
      /\ baseAsOf = [g \in Gens |-> IF g \in kept THEN FirstStored + 1 ELSE NoDay]
      /\ asOf = IF gen = 0 THEN NoDay ELSE FirstStored
      /\ utxo = IF gen = 0 THEN NothingSpent ELSE Unspent(FirstStored)
      /\ rows = IF gen = 0 THEN [d \in Dates |-> NoRow] ELSE first
      /\ halted = NoDay /\ m = NoPass /\ job = "idle" /\ restarts = 0

Pass ==
  \/ ReadStored \/ ReadPending \/ ReadBlocked
  \/ ApplyBaseline \/ RollExisting \/ Finish

HolderNext ==
  \/ NewDay \/ PricesArrive \/ StoreRollup \/ StoreCoinage \/ Prune
  \/ PlanBaseline \/ CommitBaseline
  \/ \E caller \in {"loop", "job"}: Start(caller)
  \/ Pass \/ Abort \/ Restart

HolderSpec == HolderInit /\ [][HolderNext]_holderVars

\* What the transaction needs to be made.
CanCommit == At("commit") /\ (m.pend # 0 => m.pend \in kept)

-----------------------------------------------------------------------------
(* Properties.                                                              *)

HolderRow == [u: [Buckets -> Int], blocked: {"none", "no", "price", "check"}]
Passes ==
  [pc: {"idle", "stored", "pending", "blocked", "commit", "after"}, caller: {"loop", "job"},
   closes: SUBSET Dates, complete: BOOLEAN, matrix: SUBSET Dates,
   onchain: [Dates -> {"none", "ok", "created", "overclaim"}], pend: {0} \cup Gens,
   halted: {NoDay} \cup Dates, older: BOOLEAN]

HolderTypeOK ==
  /\ dayNow \in Dates /\ priced \subseteq 0 .. dayNow - 1
  /\ onchain \in [Dates -> {"none", "ok", "created", "overclaim"}]
  /\ rollupCursor \in {NoDay} \cup Dates /\ coinageCursor \in {NoDay} \cup Dates
  /\ matrix \subseteq Dates
  /\ coinage \in [Dates -> {"none", "blocked", "priced"}]
  /\ planned \in {NoDay} \cup Dates /\ baseAsOf \in [Gens -> {NoDay} \cup Dates]
  /\ kept \subseteq Gens /\ pending \in {0} \cup Gens /\ meta \in {0} \cup Gens
  /\ utxo \in [Buckets -> Int] /\ asOf \in {NoDay} \cup Dates /\ gen \in {0} \cup Gens
  /\ \A d \in Dates: rows[d] \in HolderRow
  /\ halted \in {NoDay} \cup Dates
  /\ m \in Passes
  /\ job \in {"idle", "pass", "prune"} /\ restarts \in 0 .. MaxRestarts

\* The stored state is the set of unspent coins of its day, to the last sat, and so is every
\* published row whose checks passed, rolled forward or reconstructed: no pass over
\* half-stored days, stale reads or a faulty row ever leaves a day applied twice, skipped
\* or applied without its spends.
StateExact ==
  /\ asOf # NoDay => utxo = Unspent(asOf)
  /\ \A d \in Dates: rows[d].blocked \in {"no", "price"} => rows[d].u = Unspent(d)

\* The rows of a staged generation, and of the one that the price recomputation goes back
\* to, survive every pruning.
BaselineKept == (pending # 0 => pending \in kept) /\ (meta # 0 => meta \in kept)

\* Why that is so: generations are numbered in the order in which they are built, meta names
\* the newest, nothing but the newest is ever staged, and a pass works on one that it read
\* here, so that what it prunes is older than all of them.
BaselineInv ==
  /\ meta \in Nat /\ kept \subseteq 1 .. meta /\ (meta # 0 => meta \in kept)
  /\ pending \in {0, meta}
  /\ m.pend \in 0 .. meta

\* Why the state is exact.  The engine's checks let no faulty or half-stored day through; what
\* is left is the correction at a baseline's boundary, which needs the spends of the day before
\* it: a pass that may see the baseline has read them, as long as they are stored when a baseline
\* is built and are not pruned while it may still be applied, or are none.
BoundaryStays   == FirstStored # NoDay /\ FinalDay - FirstStored <= Retain
NoBoundarySpend == \A d \in Dates: Spent[d][d + 1] = 0

BoundaryInv ==
  BoundaryStays =>
    /\ FirstStored <= coinageCursor /\ FirstStored .. coinageCursor \subseteq matrix
    /\ \A g \in kept: baseAsOf[g] - 1 \in FirstStored .. coinageCursor
    /\ planned # NoDay => planned - 1 \in FirstStored .. coinageCursor
    /\ m.pc \in {"pending", "blocked", "commit"} =>
         /\ \A g \in kept: baseAsOf[g] - 1 \in m.matrix
         /\ planned # NoDay /\ ~m.older => planned - 1 \in m.matrix

GensInv ==
  /\ built \in 0 .. MaxBuilt /\ (planned # NoDay => built < MaxBuilt)
  /\ meta <= Max(FirstGens) + built
  /\ \A g \in kept: baseAsOf[g] # NoDay

ExactInv ==
  /\ HolderTypeOK /\ BaselineInv /\ GensInv /\ BoundaryInv /\ StateExact
  /\ rollupCursor < dayNow /\ coinageCursor < dayNow

\* The engine gets over its waits.  Dates blocked for want of prices are computed again once
\* the prices are there: the rows, but for those that a faulty day separates from the
\* baseline, and the coin-age days.  And a halt on a day whose row is sound, which a pass that
\* read the spends before they were stored can report, does not last.
DaysPriced ==
  /\ \A d \in Dates: rows[d].blocked = "price" =>
       \E k \in d + 1 .. FinalDay: onchain[k] \in BadKinds
  /\ \A d \in matrix: coinage[d] = "priced"
  /\ halted # NoDay /\ onchain[halted] = "ok" => asOf >= halted

\* What README.md:453-454 says of the result: it is rolled forward through the smaller
\* cursor.  A recomputation over a pruned matrix goes back and stays there.
StateKeepsUp == [][asOf # NoDay /\ gen' = gen => asOf' >= asOf]_holderVars

=============================================================================
