--------------------------- MODULE BackfillRequests ---------------------------
(***************************************************************************)
(* The freeze-history backfill as its operator sees it                      *)
(* (address_risk_backfill.go): estimate, token, confirm, the run in the     *)
(* server, the same run of the CLI in another process, and the status       *)
(* computed from stored metadata and live counts.  The history is a row of  *)
(* yearly batches, newest first, and a day that the hourly sync may fetch   *)
(* before the run does; FreezeCoverage has its watermarks in full.          *)
(***************************************************************************)
EXTENDS Integers, FiniteSets, FiniteSetsExt

CONSTANTS
  Years,        \* yearly batches of a complete history
  Requests,     \* HTTP requests in flight
  PlanTTL       \* backfillPlanTTL, in ticks

ASSUME BackfillAssumption == Years \in Nat \ {0} /\ PlanTTL \in Nat

VARIABLES
  stored,     \* batches 1 .. stored are covered and their events are in the table
  gap,        \* TRUE: the last day is not fetched yet
  lost,       \* batches whose events were deleted behind the program's back
  everLost,   \* history: events were ever lost
  meta,       \* backfill_meta: its status and the batches with events it counted
  plan,       \* pendingPlan
  issued,     \* history: tokens given out so far, which are 1 .. issued
  started,    \* history: tokens that started a run
  running,    \* backfillRunning
  g,          \* the run in the server
  cli,        \* the run of a CLI process
  req         \* [request -> its place, mode, and what it has read or answered]

backfills == <<stored, gap, lost, everLost, meta, plan, issued, started, running, g, cli, req>>

NoPlan == [token |-> 0, force |-> FALSE, size |-> 0, age |-> 0]
NoRun  == [pc |-> "none", todo |-> {}, force |-> FALSE, token |-> 0, max |-> 0, billed |-> 0]
NoReq  == [pc |-> "idle", force |-> FALSE, size |-> 0, flag |-> FALSE,
           meta |-> [status |-> "idle", events |-> 0], full |-> FALSE, events |-> 0,
           answer |-> "none"]

-----------------------------------------------------------------------------
\* planBackfill: batch 0 is the forward gap; force re-fetches what is covered.
Batches(force) ==
  (IF gap THEN {0} ELSE {}) \cup (IF force THEN 1 .. Years ELSE stored + 1 .. Years)

\* Dry-run bytes: a year is ten times the gap, so that the tenth of tolerance lets one in.
Bytes(b) == IF b = 0 THEN 1 ELSE 10
SizeOf(bs) == Bytes(0) * Cardinality(bs \cap {0}) + Bytes(1) * Cardinality(bs \ {0})

\* stablecoinEventCounts.
Events == stored - Cardinality(lost)
Full   == stored = Years

\* What backfillStatus makes of what it read, in its order.
StatusOf(mt, full, events, active) ==
  LET status == IF mt.status = "idle" /\ full /\ events > 0 THEN "completed"
                ELSE IF mt.status = "running" THEN "interrupted" ELSE mt.status
      count == IF mt.status = "idle" THEN events ELSE mt.events
  IN  CASE active -> "running"
        [] ~active /\ status = "completed" /\ (~full \/ events = 0 \/ events < count) -> "corrupted"
        [] OTHER -> status

StatusNow(active) == StatusOf(meta, Full, Events, active)

\* The mode a request runs in.
ForceRepair(force) == force \/ StatusNow(FALSE) = "corrupted"
Healthy == StatusNow(FALSE) = "completed"

-----------------------------------------------------------------------------
(* Requests.  Each holds the mutex where it tests the flag.                  *)

\* POST {"dry_run": true}: the first critical section, then the estimate, then the plan.
AskEstimate(r) ==
  /\ req[r].pc = "idle" /\ ~running
  /\ \E force \in BOOLEAN:
       /\ ~(Healthy /\ ~force)
       /\ req' = [req EXCEPT ![r] = [NoReq EXCEPT !.pc = "estimate", !.force = ForceRepair(force)]]
  /\ UNCHANGED <<stored, gap, lost, everLost, meta, plan, issued, started, running, g, cli>>

Estimate(r) ==
  /\ req[r].pc = "estimate"
  /\ req' = [req EXCEPT ![r].pc = "keep", ![r].size = SizeOf(Batches(req[r].force))]
  /\ UNCHANGED <<stored, gap, lost, everLost, meta, plan, issued, started, running, g, cli>>

EstimateFails(r) ==
  /\ req[r].pc = "estimate"
  /\ req' = [req EXCEPT ![r] = NoReq]
  /\ UNCHANGED <<stored, gap, lost, everLost, meta, plan, issued, started, running, g, cli>>

KeepPlan(r) ==
  /\ req[r].pc = "keep"
  /\ IF running THEN UNCHANGED <<plan, issued>>
     ELSE /\ issued' = issued + 1
          /\ plan' = [token |-> issued', force |-> req[r].force, size |-> req[r].size, age |-> 0]
  /\ req' = [req EXCEPT ![r] = NoReq]
  /\ UNCHANGED <<stored, gap, lost, everLost, meta, started, running, g, cli>>

PlanAges ==
  /\ plan # NoPlan /\ plan.age <= PlanTTL
  /\ plan' = [plan EXCEPT !.age = @ + 1]
  /\ UNCHANGED <<stored, gap, lost, everLost, meta, issued, started, running, g, cli, req>>

\* The checks of POST {"confirm": true}, with any token given out before.
MayStart(token, force) ==
  /\ ~running
  /\ ~(Healthy /\ ~force)
  /\ token = plan.token /\ plan.age <= PlanTTL
  /\ plan.force = ForceRepair(force)

BugPlanAfter == plan
PlanAfter == NoPlan

\* An empty plan must stay empty: its maximum is less than a batch.
MaxTotal(size) == size + size \div 10

Confirm(r) ==
  /\ req[r].pc = "idle"
  /\ \E token \in 1 .. issued, force \in BOOLEAN:
       /\ MayStart(token, force)
       /\ g' = [NoRun EXCEPT !.pc = "plan", !.force = ForceRepair(force), !.token = token,
                             !.max = MaxTotal(plan.size)]
       /\ started' = started \cup {token}
  /\ plan' = PlanAfter
  /\ meta' = [status |-> "running", events |-> Events]
  /\ running' = TRUE
  /\ UNCHANGED <<stored, gap, lost, everLost, issued, cli, req>>

\* GET: the flag, then the metadata, then the watermarks and the counts.
GetFlag(r) ==
  /\ req[r].pc = "idle"
  /\ req' = [req EXCEPT ![r] = [NoReq EXCEPT !.pc = "meta", !.flag = running]]
  /\ UNCHANGED <<stored, gap, lost, everLost, meta, plan, issued, started, running, g, cli>>

ReadBy(pc) == pc
GetRead(r) ==
  /\ req[r].pc \in {"meta", "counts"}
  /\ LET q == IF ReadBy(req[r].pc) = "meta" THEN [req[r] EXCEPT !.meta = meta]
              ELSE [req[r] EXCEPT !.full = Full, !.events = Events]
     IN  req' = [req EXCEPT ![r] =
           IF q.pc = "meta" THEN [q EXCEPT !.pc = "counts"]
           ELSE [NoReq EXCEPT !.pc = "answered",
                              !.answer = StatusOf(q.meta, q.full, q.events, q.flag)]]
  /\ UNCHANGED <<stored, gap, lost, everLost, meta, plan, issued, started, running, g, cli>>

GetDone(r) ==
  /\ req[r].pc = "answered"
  /\ req' = [req EXCEPT ![r] = NoReq]
  /\ UNCHANGED <<stored, gap, lost, everLost, meta, plan, issued, started, running, g, cli>>

-----------------------------------------------------------------------------
(* A run: runAddressRiskBackfill, for the server (run = g) and the CLI.      *)

\* It plans again.  More than was confirmed, and it fails before anything is billed.
BugGrew(run, size) == FALSE
Grew(run, size) == run.token # 0 /\ size > run.max

Planned(run) ==
  LET todo == Batches(run.force)
  IN  [run EXCEPT !.todo = todo,
         !.pc = IF Grew(run, SizeOf(todo)) THEN "failed"
                ELSE IF todo = {} THEN "finish" ELSE "fetch"]

\* saveMetaLogged at the start of the batches; the run that fails says so itself.
MetaPlanned(run) ==
  IF Planned(run).pc = "fetch" THEN [status |-> "running", events |-> 0] ELSE meta

\* One batch is fetched, billed and stored, newest first; its events are counted.
BatchOf(run) == Min(run.todo)
Fetched(run) ==
  [run EXCEPT !.todo = @ \ {BatchOf(run)}, !.billed = @ + Bytes(BatchOf(run)),
              !.pc = IF run.todo = {BatchOf(run)} THEN "finish" ELSE "fetch"]
StoredAfter(run) == Max({stored, BatchOf(run)})
LostAfter(run) == lost \ {BatchOf(run)}
MetaFetched(run) ==
  [status |-> "running", events |-> StoredAfter(run) - Cardinality(LostAfter(run))]

\* finalizeBackfillMeta and saveBackfillFailure.
MetaFinished == [status |-> IF Full THEN "completed" ELSE "partial", events |-> Events]
MetaFailed == [status |-> "failed", events |-> Events]

RunPlan ==
  /\ g.pc = "plan"
  /\ g' = Planned(g) /\ meta' = MetaPlanned(g)
  /\ UNCHANGED <<stored, gap, lost, everLost, plan, issued, started, running, cli, req>>

RunBatch ==
  /\ g.pc = "fetch"
  /\ g' = Fetched(g) /\ meta' = MetaFetched(g)
  /\ stored' = StoredAfter(g) /\ lost' = LostAfter(g)
  /\ gap' = (gap /\ BatchOf(g) # 0)
  /\ UNCHANGED <<everLost, plan, issued, started, running, cli, req>>

\* A BigQuery or SQLite error, or the 45 minutes are over; the batch may have been billed.
RunFails ==
  /\ g.pc \in {"plan", "fetch"}
  /\ g' = [g EXCEPT !.pc = "failed", !.billed = @ + (IF g.pc = "fetch" THEN Bytes(BatchOf(g)) ELSE 0)]
  /\ UNCHANGED <<stored, gap, lost, everLost, meta, plan, issued, started, running, cli, req>>

RunSays ==
  /\ g.pc \in {"failed", "finish"}
  /\ meta' = IF g.pc = "failed" THEN MetaFailed ELSE MetaFinished
  /\ g' = [g EXCEPT !.pc = "free"]
  /\ UNCHANGED <<stored, gap, lost, everLost, plan, issued, started, running, cli, req>>

RunFrees ==
  /\ g.pc = "free"
  /\ running' = FALSE
  /\ g' = [g EXCEPT !.pc = "invalidate"]
  /\ UNCHANGED <<stored, gap, lost, everLost, meta, plan, issued, started, cli, req>>

RunInvalidates ==
  /\ g.pc = "invalidate"
  /\ g' = NoRun
  /\ UNCHANGED <<stored, gap, lost, everLost, meta, plan, issued, started, running, cli, req>>

\* runBackfillCLI, in a process of its own: no token, no flag, no cache.
CliStart ==
  /\ cli.pc = "none"
  /\ cli' = Planned(NoRun) /\ meta' = MetaPlanned(NoRun)
  /\ UNCHANGED <<stored, gap, lost, everLost, plan, issued, started, running, g, req>>

CliBatch ==
  /\ cli.pc = "fetch"
  /\ cli' = Fetched(cli) /\ meta' = MetaFetched(cli)
  /\ stored' = StoredAfter(cli) /\ lost' = LostAfter(cli)
  /\ gap' = (gap /\ BatchOf(cli) # 0)
  /\ UNCHANGED <<everLost, plan, issued, started, running, g, req>>

CliSays ==
  /\ cli.pc \in {"fetch", "finish"}
  /\ meta' = IF cli.pc = "fetch" THEN MetaFailed ELSE MetaFinished
  /\ cli' = NoRun
  /\ UNCHANGED <<stored, gap, lost, everLost, plan, issued, started, running, g, req>>

CliDies ==
  /\ cli.pc # "none"
  /\ cli' = NoRun
  /\ UNCHANGED <<stored, gap, lost, everLost, meta, plan, issued, started, running, g, req>>

-----------------------------------------------------------------------------
\* The hourly sync and its clock.
DayEnds ==
  /\ ~gap /\ gap' = TRUE
  /\ UNCHANGED <<stored, lost, everLost, meta, plan, issued, started, running, g, cli, req>>

SyncDay ==
  /\ gap /\ gap' = FALSE
  /\ UNCHANGED <<stored, lost, everLost, meta, plan, issued, started, running, g, cli, req>>

\* Rows deleted by hand or by a broken disk: what the corruption check is there for.
RowsLost ==
  /\ \E b \in 1 .. stored: lost' = lost \cup {b}
  /\ everLost' = TRUE
  /\ UNCHANGED <<stored, gap, meta, plan, issued, started, running, g, cli, req>>

BackfillCrash ==
  /\ plan' = NoPlan /\ running' = FALSE /\ g' = NoRun
  /\ req' = [r \in Requests |-> NoReq]
  /\ UNCHANGED <<stored, gap, lost, everLost, meta, issued, started, cli>>

BackfillInit ==
  /\ stored \in {0, Years} /\ gap = FALSE /\ lost = {} /\ everLost = FALSE
  /\ meta = [status |-> "idle", events |-> 0]
  /\ plan = NoPlan /\ issued = 0 /\ started = {} /\ running = FALSE
  /\ g = NoRun /\ cli = NoRun /\ req = [r \in Requests |-> NoReq]

-----------------------------------------------------------------------------
Statuses == {"idle", "running", "failed", "partial", "completed"}
Metas    == [status: Statuses, events: 0 .. Years]
Plans    == [token: Nat, force: BOOLEAN, size: Nat, age: 0 .. PlanTTL + 1]
Runs     == [pc: {"none", "plan", "fetch", "finish", "failed", "free", "invalidate"},
             todo: SUBSET (0 .. Years), force: BOOLEAN, token: Nat, max: Nat, billed: Nat]
Answers  == {"none", "interrupted", "corrupted"} \cup Statuses
Reqs     == [pc: {"idle", "estimate", "keep", "meta", "counts", "answered"}, force: BOOLEAN,
             size: Nat, flag: BOOLEAN, meta: Metas, full: BOOLEAN, events: 0 .. Years,
             answer: Answers]

BackfillTypeOK ==
  /\ stored \in 0 .. Years /\ gap \in BOOLEAN /\ lost \subseteq 1 .. stored
  /\ everLost \in BOOLEAN /\ meta \in Metas
  /\ plan \in Plans /\ issued \in Nat /\ plan.token <= issued
  /\ started \subseteq 1 .. issued /\ running \in BOOLEAN
  /\ g \in Runs /\ cli \in Runs /\ req \in [Requests -> Reqs]

\* A token starts one run, for two confirms, a confirm after a finished run or a new
\* estimate in between alike, and only when the run before it is over.
OneRunPerToken ==
  [][started' # started \/ (g.pc # "plan" /\ g'.pc = "plan") =>
       /\ g.pc \in {"none", "invalidate"}
       /\ g'.token \notin started]_backfills

\* Whatever was stored, by whom, since the estimate: what a run
\* fetches is at most a tenth more, by its dry runs, than its operator confirmed.
BilledWithinConfirmed == g.billed <= g.max

\* A status answer says "corrupted" only if events were lost, however the run, the CLI and
\* the hourly sync moved between its reads, and "completed" only for a full history.
StatusTrue ==
  \A r \in Requests:
    /\ req[r].answer = "corrupted" => everLost
    /\ req[r].answer = "completed" => Full

-----------------------------------------------------------------------------
(* The inductive invariant, part by part.                                    *)

\* The flag is set exactly while the server's run is under way, and a plan's token is new.
TokensNew ==
  /\ running <=> g.pc \in {"plan", "fetch", "finish", "failed", "free"}
  /\ plan.token \notin started

\* What a run has billed and still plans to fetch was confirmed.
WithinMax ==
  /\ g.pc # "none" => g.token # 0
  /\ g.pc \in {"none", "plan"} => g.billed = 0
  /\ g.pc = "fetch" => g.todo # {} /\ g.billed + SizeOf(g.todo) <= g.max
  /\ cli.pc \in {"none", "fetch", "finish"} /\ (cli.pc = "fetch" => cli.todo # {})

\* Metadata stored, or read and still in a request's hands, says no more than there is.
MetaTrue(mt) == (mt.status = "completed" => Full) /\ (~everLost => mt.events <= stored)
StatusesTrue ==
  /\ ~everLost => lost = {}
  /\ MetaTrue(meta)
  /\ \A r \in Requests: req[r].pc = "counts" => MetaTrue(req[r].meta)

BackfillInv ==
  /\ BackfillTypeOK /\ TokensNew
  /\ WithinMax /\ BilledWithinConfirmed
  /\ StatusesTrue /\ StatusTrue

=============================================================================
