----------------------------- MODULE BqBudget -----------------------------
(***************************************************************************)
(* The monthly BigQuery budget of the Bitcoin (btc_) and Stablecoin        *)
(* (stable_) services: the reservations and ledger tables one SQLite file  *)
(* shares between the server's hourly loop, its manual-run goroutines and  *)
(* the CLI processes (opendata_bitcoin_bq.go, type btcBudget).             *)
(*                                                                         *)
(* An actor is one of those goroutines or processes.  It recovers expired  *)
(* reservations, reserves the cap of a run, submits one or two BigQuery    *)
(* queries, attaches their job ids to the reservation, waits, and settles  *)
(* what was billed.  Each SQLite transaction is one action; an actor may   *)
(* crash, and a query outlive it, between any two of them.                 *)
(*                                                                         *)
(* A Bug... operator is a seeded fault: the definition after it as a       *)
(* plausible mistake would write it, used only to test the properties.     *)
(***************************************************************************)
EXTENDS Integers, FiniteSets, FiniteSetsExt

CONSTANTS
  Actors,       \* goroutines and CLI processes that share the budget
  CliActors,    \* those that are --bitcoin-utxo-baseline processes
  Jobs,         \* job ids charged to this budget
  Baseline,     \* the id of the full UTXO scan (btc_utxo_baseline)
  PairJobs,     \* jobs whose run submits two queries
  RefillJobs,   \* those that refill the second query's cap when little is left
  Estimates,    \* dry-run estimates, in cap units
  HardCap,      \* largest reservation of one run, in cap units
  Budget,       \* monthly_budget_gib, in cap units
  TTL,          \* ticks until a reservation expires
  Timeout,      \* ticks a run may last: the deadline of its context
  MonthLen,     \* ticks in a month
  MinInterval,  \* ticks between two baselines that are not forced
  MaxTime,      \* bound: the clock stops here
  MaxIds        \* bound: reservations ever made

ASSUME ConstantsAssumption ==
  /\ CliActors \subseteq Actors
  /\ Jobs # {} /\ PairJobs \subseteq Jobs /\ RefillJobs \subseteq PairJobs
  /\ Estimates \subseteq Nat \ {0}
  /\ HardCap \in Nat \ {0} /\ Budget \in Nat
  /\ TTL \in Nat /\ Timeout \in Nat /\ Timeout < TTL
  /\ MonthLen \in Nat \ {0} /\ MinInterval \in Nat
  /\ MaxTime \in Nat /\ MaxIds \in Nat

Times  == 0 .. MaxTime
Ids    == 1 .. MaxIds            \* INTEGER PRIMARY KEY AUTOINCREMENT
Slots  == {1, 2}                 \* a run's first and second query
Never  == -1
Month(t) == t \div MonthLen
Months == 0 .. MaxTime           \* every month index the clock can show

VARIABLES
  now,          \* wall clock
  nextId,       \* the reservations table's sequence
  live,         \* ids of the rows in the reservations table
  row,          \* the columns a row was inserted with
  attached,     \* bq_job_id: the run's queries whose job id was recorded
  ledger,       \* the budget table: billed bytes by month, over all jobs
  lastBaseline, \* kv last_baseline_at
  query,        \* what BigQuery knows of each reservation's queries
  run,          \* an actor's own state: program counter and locals
  sweep,        \* the rows an actor's recoverStale selected and has not settled
  credited,     \* history: bytes the ledger was charged for a reservation
  estimated,    \* history: runs cancelled while a query was still running
  conservative  \* history: bytes charged by month for runs that left no job id

vars == <<now, nextId, live, row, attached, ledger, lastBaseline, query, run,
          sweep, credited, estimated, conservative>>
db   == <<live, attached, ledger, credited>>
---------------------------------------------------------------------------
(* Pure parts *)

AtMost(a, b)  == IF a < b THEN a ELSE b
AtLeast(a, b) == IF a > b THEN a ELSE b

\* The run's cap: 1.25 times the estimate rounded up, at least one unit, at
\* most the hard cap.
SizedReservation(est) == AtMost(AtLeast((5 * est + 3) \div 4, 1), HardCap)

Expired(id) == row[id].expires <= now

\* Rows recoverStale selects.
BugStale == {id \in live : Expired(id) /\ attached[id] # {}}
Stale == {id \in live : Expired(id)}

\* Rows the budget still sets aside: unexpired, or with a job id recorded.
BugCounted == {id \in live : ~Expired(id)}
Counted == {id \in live : ~Expired(id) \/ attached[id] # {}}

\* The bytes of a set of rows, as the set of their byte units.
Units(S) == UNION {{id} \X (1 .. row[id].bytes) : id \in S}
Reserved == Cardinality(Units(Counted))

Remaining == Budget - ledger[Month(now)] - Reserved

\* The baseline's own checks: none in flight, and MinInterval since the last
\* unless --force.
BugBaselineRuns(force) ==
  force \/ lastBaseline = Never \/ now - lastBaseline >= MinInterval
BugBaselineInterval(force) ==
  \A id \in live : row[id].job = Baseline => Expired(id)
BaselineAllowed(force) ==
  /\ \A id \in live : row[id].job = Baseline => Expired(id)
  /\ force \/ lastBaseline = Never \/ now - lastBaseline >= MinInterval

\* The MaximumBytesBilled of the second query after the first billed b of c.
SecondCap(job, c, b) ==
  IF job \in RefillJobs /\ c - b < 1 THEN c ELSE c - b

Idle == [pc |-> "idle", id |-> 0, est |-> 0, slot |-> 1, cap |-> 0,
         billed |-> 0, ok |-> FALSE, force |-> FALSE]
Ready   == [Idle EXCEPT !.pc = "ready"]
NoQuery == [st |-> "none", cap |-> 0, billed |-> 0]

Billed(id, S) ==
  (IF 1 \in S THEN query[id][1].billed ELSE 0) +
  (IF 2 \in S THEN query[id][2].billed ELSE 0)

Submitted(id) == {s \in Slots : query[id][s].st # "none"}
Working(a) == run[a].pc \in {"submit", "attach", "wait", "settle"}
---------------------------------------------------------------------------
Init ==
  /\ now = 0 /\ nextId = 1
  /\ live = {}
  /\ row = [id \in Ids |-> [job |-> Baseline, bytes |-> 0, created |-> 0, expires |-> 0]]
  /\ attached = [id \in Ids |-> {}]
  /\ ledger = [m \in Months |-> 0]
  /\ lastBaseline = Never
  /\ query = [id \in Ids |-> [s \in Slots |-> NoQuery]]
  /\ run = [a \in Actors |-> Idle]
  /\ sweep = [a \in Actors |-> {}]
  /\ credited = [id \in Ids |-> Never]
  /\ estimated = {}
  /\ conservative = [m \in Months |-> 0]

Charge(id, month, billed) ==
  /\ live' = live \ {id}
  /\ ledger' = [ledger EXCEPT ![month] = @ + billed]
  /\ credited' = [credited EXCEPT ![id] = AtLeast(@, 0) + billed]

BugSettleBlind(id, billed) == Charge(id, Month(row[id].created), billed)

\* settleTx: delete the row and charge the month it was made in; nothing when
\* it is gone.
SettleTx(id, billed) ==
  IF id \in live
  THEN Charge(id, Month(row[id].created), billed)
  ELSE UNCHANGED <<live, ledger, credited>>
---------------------------------------------------------------------------
(* recoverStale: one SELECT, then one transaction per row *)

RecoverSelect(a) ==
  /\ run[a].pc = "idle"
  /\ sweep' = [sweep EXCEPT ![a] =
       {[id |-> id, jobs |-> attached[id]] : id \in Stale}]
  /\ run' = [run EXCEPT ![a].pc = IF sweep'[a] = {} THEN "ready" ELSE "recover"]
  /\ UNCHANGED <<now, nextId, row, db, lastBaseline, query, estimated, conservative>>

\* The next selected row, in id order.
NextRow(a, r) == r \in sweep[a] /\ \A q \in sweep[a] : r.id <= q.id
DropRow(a, r) == sweep' = [sweep EXCEPT ![a] = @ \ {r}]

\* No job id: the whole reservation is charged.
RecoverUnattached(a) ==
  /\ run[a].pc = "recover"
  /\ \E r \in sweep[a] :
       /\ NextRow(a, r) /\ r.jobs = {}
       /\ SettleTx(r.id, row[r.id].bytes)
       /\ conservative' = IF r.id \in live
            THEN [conservative EXCEPT ![Month(row[r.id].created)] = @ + row[r.id].bytes]
            ELSE conservative
       /\ DropRow(a, r)
  /\ UNCHANGED <<now, nextId, row, attached, lastBaseline, query, run, estimated>>

BugJobsDone(r) == TRUE
JobsDone(r) == \A s \in r.jobs : query[r.id][s].st = "done"

\* jobs.get answers for every recorded job id, and all of them are done.
RecoverAttached(a) ==
  /\ run[a].pc = "recover"
  /\ \E r \in sweep[a] :
       /\ NextRow(a, r) /\ r.jobs # {} /\ JobsDone(r)
       /\ SettleTx(r.id, Billed(r.id, r.jobs))
       /\ DropRow(a, r)
  /\ UNCHANGED <<now, nextId, row, attached, lastBaseline, query, run, estimated, conservative>>

\* jobs.get failed, or a job is still running: the row waits for a later tick.
RecoverSkip(a) ==
  /\ run[a].pc = "recover"
  /\ \E r \in sweep[a] : NextRow(a, r) /\ r.jobs # {} /\ DropRow(a, r)
  /\ UNCHANGED <<now, nextId, row, db, lastBaseline, query, run, estimated, conservative>>

\* Every row was seen.
RecoverReturn(a) ==
  /\ run[a].pc = "recover" /\ sweep[a] = {}
  /\ run' = [run EXCEPT ![a].pc = "ready"]
  /\ UNCHANGED <<now, nextId, row, db, lastBaseline, query, sweep, estimated, conservative>>

\* A settle fails and recoverStale returns early: the server logs it and goes
\* on, the CLI exits.
RecoverFails(a) ==
  /\ run[a].pc = "recover" /\ sweep[a] # {}
  /\ run' = [run EXCEPT ![a].pc = IF a \in CliActors THEN "idle" ELSE "ready"]
  /\ sweep' = [sweep EXCEPT ![a] = {}]
  /\ UNCHANGED <<now, nextId, row, db, lastBaseline, query, estimated, conservative>>
---------------------------------------------------------------------------
(* A run *)

\* reserveWithOpts: every check and the insert are one immediate transaction.
Reserve(a, job, est, force) ==
  /\ run[a].pc = "ready" /\ nextId <= MaxIds /\ now + TTL <= MaxTime
  /\ est <= HardCap
  /\ a \in CliActors => job = Baseline
  /\ force => a \in CliActors
  /\ job = Baseline => BaselineAllowed(force)
  /\ SizedReservation(est) <= Remaining
  /\ nextId' = nextId + 1
  /\ live' = live \union {nextId}
  /\ row' = [row EXCEPT ![nextId] =
       [job |-> job, bytes |-> SizedReservation(est), created |-> now, expires |-> now + TTL]]
  /\ run' = [run EXCEPT ![a] = [Idle EXCEPT !.pc = "submit", !.id = nextId, !.est = est,
                                !.cap = SizedReservation(est), !.force = force]]
  /\ UNCHANGED <<now, attached, ledger, lastBaseline, query, sweep, credited, estimated, conservative>>

\* The loop's next job does not reserve, or its tick is over.
Leave(a) ==
  /\ run[a].pc = "ready"
  /\ run' = [run EXCEPT ![a] = Idle]
  /\ UNCHANGED <<now, nextId, row, db, lastBaseline, query, sweep, estimated, conservative>>

\* q.Run: BigQuery accepts the query; the process dies before it is recorded
\* when Crash comes next.
Submit(a) ==
  /\ run[a].pc = "submit"
  /\ query' = [query EXCEPT ![run[a].id][run[a].slot] =
       [st |-> "running", cap |-> run[a].cap, billed |-> 0]]
  /\ run' = [run EXCEPT ![a].pc = "attach"]
  /\ UNCHANGED <<now, nextId, row, db, lastBaseline, sweep, estimated, conservative>>

\* q.Run fails, or the run gives up between its queries: settle what is known.
GiveUp(a) ==
  /\ run[a].pc = "submit"
  /\ run' = [run EXCEPT ![a].pc = "settle"]
  /\ UNCHANGED <<now, nextId, row, db, lastBaseline, query, sweep, estimated, conservative>>

\* attachJob: UPDATE ... WHERE id; touches nothing when the row is gone.
Attach(a) ==
  /\ run[a].pc = "attach"
  /\ attached' = IF run[a].id \in live
       THEN [attached EXCEPT ![run[a].id] = @ \union {run[a].slot}]
       ELSE attached
  /\ run' = [run EXCEPT ![a].pc = "wait"]
  /\ UNCHANGED <<now, nextId, live, row, ledger, lastBaseline, query, sweep, credited, estimated, conservative>>

\* The UPDATE fails and its error is dropped.
AttachFails(a) ==
  /\ run[a].pc = "attach"
  /\ run' = [run EXCEPT ![a].pc = "wait"]
  /\ UNCHANGED <<now, nextId, row, db, lastBaseline, query, sweep, estimated, conservative>>

MyQuery(a) == query[run[a].id][run[a].slot]

\* Wait returns and the run goes on to its second query with what is left.
CollectFirst(a) ==
  LET r == run[a]
      job == row[r.id].job
      cap == SecondCap(job, r.cap, MyQuery(a).billed) IN
  /\ r.pc = "wait" /\ MyQuery(a).st = "done"
  /\ r.slot = 1 /\ job \in PairJobs /\ cap > 0
  /\ run' = [run EXCEPT ![a] = [r EXCEPT !.pc = "submit", !.slot = 2, !.cap = cap,
                                         !.billed = @ + MyQuery(a).billed]]
  /\ UNCHANGED <<now, nextId, row, db, lastBaseline, query, sweep, estimated, conservative>>

\* Wait returns and the run is over, with its result or with an error.
CollectLast(a, ok) ==
  LET r == run[a] IN
  /\ r.pc = "wait" /\ MyQuery(a).st = "done"
  /\ ok => (r.slot = 2 <=> row[r.id].job \in PairJobs)
  /\ run' = [run EXCEPT ![a] = [r EXCEPT !.pc = "settle", !.ok = ok,
                                         !.billed = @ + MyQuery(a).billed]]
  /\ UNCHANGED <<now, nextId, row, db, lastBaseline, query, sweep, estimated, conservative>>

\* Wait fails: the query is cancelled without waiting for it, and a run whose
\* context ended with no bill so far is charged its estimate.
Cancelled(a) ==
  LET r == run[a] IN
  /\ r.pc = "wait" /\ MyQuery(a).st = "running"
  /\ \E timedOut \in BOOLEAN :
       run' = [run EXCEPT ![a] = [r EXCEPT !.pc = "settle",
                !.billed = IF timedOut /\ r.billed = 0 THEN r.est ELSE @]]
  /\ estimated' = estimated \union {r.id}
  /\ UNCHANGED <<now, nextId, row, db, lastBaseline, query, sweep, conservative>>

\* settle, on a context detached from the cancelled one.
Settle(a) ==
  /\ run[a].pc = "settle"
  /\ SettleTx(run[a].id, run[a].billed)
  /\ run' = [run EXCEPT ![a] = Ready]
  /\ UNCHANGED <<now, nextId, row, attached, lastBaseline, query, sweep, estimated, conservative>>

\* Its error is dropped and the row stays until it expires.
SettleFails(a) ==
  /\ run[a].pc = "settle"
  /\ run' = [run EXCEPT ![a] = Ready]
  /\ UNCHANGED <<now, nextId, row, db, lastBaseline, query, sweep, estimated, conservative>>

\* commitBtcBaseline: the baseline, its time and the settlement in one transaction.
CommitBaseline(a) ==
  /\ run[a].pc = "settle" /\ run[a].ok /\ row[run[a].id].job = Baseline
  /\ SettleTx(run[a].id, run[a].billed)
  /\ lastBaseline' = now
  /\ run' = [run EXCEPT ![a] = Ready]
  /\ UNCHANGED <<now, nextId, row, attached, query, sweep, estimated, conservative>>

\* The process dies, or the goroutine panics and is recovered: its locals are lost.
Crash(a) ==
  /\ run[a].pc # "idle"
  /\ run' = [run EXCEPT ![a] = Idle]
  /\ sweep' = [sweep EXCEPT ![a] = {}]
  /\ UNCHANGED <<now, nextId, row, db, lastBaseline, query, estimated, conservative>>
---------------------------------------------------------------------------
(* The environment *)

\* BigQuery finishes a query and bills at most its MaximumBytesBilled.
Finish(id, s) ==
  /\ query[id][s].st = "running"
  /\ \E b \in 0 .. query[id][s].cap :
       query' = [query EXCEPT ![id][s].st = "done", ![id][s].billed = b]
  /\ UNCHANGED <<now, nextId, row, db, lastBaseline, run, sweep, estimated, conservative>>

\* A working run has settled or died once its context's deadline has passed.
Tick ==
  /\ now < MaxTime
  /\ \A a \in Actors : Working(a) => now < row[run[a].id].created + Timeout
  /\ now' = now + 1
  /\ UNCHANGED <<nextId, row, db, lastBaseline, query, run, sweep, estimated, conservative>>

Recover(a) == \/ RecoverSelect(a) \/ RecoverUnattached(a) \/ RecoverAttached(a)
              \/ RecoverSkip(a) \/ RecoverReturn(a) \/ RecoverFails(a)

Run(a) == \/ \E job \in Jobs, est \in Estimates, force \in BOOLEAN : Reserve(a, job, est, force)
          \/ Leave(a) \/ Submit(a) \/ GiveUp(a) \/ Attach(a) \/ AttachFails(a)
          \/ CollectFirst(a) \/ (\E ok \in BOOLEAN : CollectLast(a, ok)) \/ Cancelled(a)
          \/ Settle(a) \/ SettleFails(a) \/ CommitBaseline(a)

Next == \/ \E a \in Actors : Recover(a) \/ Run(a) \/ Crash(a)
        \/ \E id \in Ids, s \in Slots : Finish(id, s)
        \/ Tick

Spec == Init /\ [][Next]_vars

\* The hourly loop recovers on every tick, settles what it ran, and BigQuery
\* ends every query; a jobs.get or a settle that fails does not fail for ever.
Fairness ==
  /\ WF_vars(Tick)
  /\ \A id \in Ids, s \in Slots : WF_vars(Finish(id, s))
  /\ \A a \in Actors :
       /\ WF_vars(RecoverSelect(a)) /\ WF_vars(RecoverReturn(a)) /\ WF_vars(Leave(a))
       /\ SF_vars(RecoverUnattached(a)) /\ SF_vars(RecoverAttached(a))
       /\ WF_vars(Submit(a)) /\ WF_vars(Attach(a))
       /\ WF_vars(CollectFirst(a) \/ \E ok \in BOOLEAN : CollectLast(a, ok))
       /\ WF_vars(Settle(a))

FairSpec == Spec /\ Fairness
---------------------------------------------------------------------------
(* Properties *)

RowType == [job : Jobs \union {Baseline}, bytes : Nat, created : Times, expires : Nat]
QueryType == [st : {"none", "running", "done"}, cap : Nat, billed : Nat]
RunType == [pc : {"idle", "recover", "ready", "submit", "attach", "wait", "settle"},
            id : Ids \union {0}, est : Nat, slot : Slots, cap : Nat, billed : Nat,
            ok : BOOLEAN, force : BOOLEAN]

\* Every variable keeps its type.
TypeOK ==
  /\ now \in Times /\ nextId \in 1 .. (MaxIds + 1)
  /\ live \subseteq Ids /\ row \in [Ids -> RowType]
  /\ attached \in [Ids -> SUBSET Slots]
  /\ ledger \in [Months -> Nat] /\ conservative \in [Months -> Nat]
  /\ lastBaseline \in Times \union {Never}
  /\ query \in [Ids -> [Slots -> QueryType]]
  /\ run \in [Actors -> RunType]
  /\ sweep \in [Actors -> SUBSET [id : Ids, jobs : SUBSET Slots]]
  /\ credited \in [Ids -> Nat \union {Never}]
  /\ estimated \subseteq Ids

\* What a month was charged and the open reservations made in it still fit the
\* budget, whatever the interleaving of processes, crashes and recoveries; only
\* the reservations of runs that died before recording a job id, which leave the
\* sum when they expire and are charged in full later, can exceed it.
LedgerPlusReservedInBudget ==
  \A m \in Months :
    ledger[m] + Cardinality(Units({id \in Counted : Month(row[id].created) = m}))
      <= Budget + conservative[m]

\* A reservation is charged once: a settled row is gone for good, and no later
\* settle by its own run or by a recovery reaches it.
ChargedOnce == [][\A id \in Ids : credited[id] # Never =>
                    id \notin live' /\ credited'[id] = credited[id]]_vars

\* A run whose queries left only some of their job ids in the row.
PartlyAttached(id) == attached[id] # {} /\ ~(Submitted(id) \subseteq attached[id])

\* The most a query can still turn out to have billed.
MayBill(id, s) == IF query[id][s].st = "running" THEN query[id][s].cap ELSE query[id][s].billed

\* A settled reservation charged at least what BigQuery billed, or will still
\* bill, for its queries: recovery waits for the attached jobs and charges the
\* whole reservation when none is.  Not promised for a cancelled run (it is
\* charged an estimate) or for one that recorded only one of two job ids.
ChargeCoversBill ==
  \A id \in Ids : credited[id] # Never /\ id \notin estimated /\ ~PartlyAttached(id)
    => credited[id] >= MayBill(id, 1) + MayBill(id, 2)

\* "reservations without a job ID (e.g. a crash between query submission and
\* attachJob) settle their reserved bytes conservatively so spend cannot be
\* under-counted" (opendata_bitcoin_bq.go:401): no settled run that was not
\* cancelled is charged less than its queries billed.
SpendNotUnderCounted ==
  \A id \in Ids : credited[id] # Never /\ id \notin estimated => credited[id] >= Billed(id, Slots)

\* "MaximumBytesBilled cap and budget reservation" are one number
\* (scam_radar_sync.go:181): no run bills more than it reserved.
BillWithinReservation == \A id \in Ids : Billed(id, Slots) <= row[id].bytes

\* Two processes never scan the UTXO set at once: a second baseline cannot be
\* reserved until the first has settled or can no longer be running.
OneBaselineAtATime ==
  \A a, b \in Actors :
    Working(a) /\ Working(b) /\ row[run[a].id].job = Baseline /\ row[run[b].id].job = Baseline
      => a = b

\* Baselines that were not forced are committed at least MinInterval apart,
\* whichever processes ran them: the check at reservation still holds at commit.
BaselineSpacing ==
  [][\A a \in Actors :
       CommitBaseline(a) => run[a].force \/ lastBaseline = Never
                              \/ lastBaseline' - lastBaseline >= MinInterval]_vars

\* A row never blocks the budget for ever: the reservation of every run, crashed
\* ones included, is settled in the end.
ReservationsSettled == \A id \in Ids : id \in live ~> id \notin live
---------------------------------------------------------------------------
(* The inductive invariant behind the safety properties above.  It assumes *)
(* that no job refills its second cap, RefillJobs = {}.                    *)

\* A row is live until it is charged; ids beyond the sequence were never used.
Rows ==
  \A id \in Ids :
    IF id < nextId
    THEN /\ row[id].created <= now /\ row[id].expires = row[id].created + TTL
         /\ row[id].bytes <= HardCap
         /\ id \in live <=> credited[id] = Never
    ELSE /\ id \notin live /\ credited[id] = Never /\ attached[id] = {}
         /\ \A s \in Slots : query[id][s] = NoQuery

\* A working run owns a live row no other run works on, before its deadline.
Owners ==
  \A a \in Actors : Working(a) =>
    /\ run[a].id \in live
    /\ now <= row[run[a].id].created + Timeout
    /\ run[a].est <= row[run[a].id].bytes
    /\ \A b \in Actors : Working(b) /\ run[b].id = run[a].id => a = b

\* What recoverStale read of a row is still so: it stays expired, and the run
\* that could attach a job to it is over.
Sweeps ==
  \A a \in Actors : \A r \in sweep[a] :
    /\ r.id < nextId /\ Expired(r.id) /\ r.jobs = attached[r.id]

\* The queries of a reservation can never bill more than it, and the caps of
\* the run's next query leaves room for what was billed.
Bills ==
  /\ \A id \in Ids :
       /\ MayBill(id, 1) + MayBill(id, 2) <= row[id].bytes
       /\ \A s \in Slots : /\ query[id][s].billed <= query[id][s].cap
                           /\ query[id][s].st = "none" => query[id][s] = NoQuery
  /\ \A a \in Actors : Working(a) =>
       LET r == run[a]
           q == query[r.id] IN
       /\ r.pc # "settle" =>
            /\ r.billed + r.cap <= row[r.id].bytes
            /\ r.billed = IF r.slot = 1 THEN 0 ELSE q[1].billed
            /\ r.slot = 1 => q[2].st = "none"
            /\ r.slot = 2 => q[1].st = "done"
       /\ r.pc = "submit" => q[r.slot].st = "none"
       /\ r.pc \in {"attach", "wait"} => q[r.slot].st # "none" /\ q[r.slot].cap = r.cap
       /\ r.pc = "settle" =>
            /\ r.billed <= row[r.id].bytes
            /\ r.id \notin estimated => r.billed >= MayBill(r.id, 1) + MayBill(r.id, 2)

\* The interval a baseline was reserved under still separates it from the last.
Spaced ==
  \A a \in Actors : Working(a) /\ row[run[a].id].job = Baseline /\ ~run[a].force
    => lastBaseline = Never \/ row[run[a].id].created - lastBaseline >= MinInterval

IInv ==
  /\ TypeOK /\ Rows /\ Owners /\ Sweeps /\ Bills /\ Spaced
  /\ OneBaselineAtATime /\ ChargeCoversBill /\ LedgerPlusReservedInBudget
===========================================================================
