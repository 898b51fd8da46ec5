----------------------------- MODULE DailySync -----------------------------
(***************************************************************************)
(* One daily BigQuery job (dailyBQSyncer, scam_radar_sync.go): the window  *)
(* of days it fetches next, its cursor, and what a failed run does.  A     *)
(* failure that BigQuery billed is recorded in SQLite; it delays the next  *)
(* scheduled run, and several of them stop the job until an operator       *)
(* resumes it from another process (opendata_bitcoin_bq.go).               *)
(*                                                                         *)
(* The job is run by the hourly schedule or by hand, one run at a time     *)
(* (module RunSlots).  Time is counted in hours, DayLen of them a day; a   *)
(* process that dies loses retryAfter and the unbilled count.              *)
(*                                                                         *)
(* A Bug... operator is a seeded fault: the definition after it as a       *)
(* plausible mistake would write it, used only to test the properties.     *)
(***************************************************************************)
EXTENDS Integers, Sequences, FiniteSets

CONSTANTS
  DayLen,       \* hours in a day
  Finality,     \* hours after midnight when a run looks for the day before
  Slack,        \* hours after midnight when BigQuery may have all of it
  InitialDays,  \* initialDays: the cold start
  MaxWindow,    \* maxWindowDays
  MinWindow,    \* minWindowDays: the cadence of the schedule
  Chunk,        \* chunkCatchUp: a wider gap is fetched in chunks
  MaxBilled,    \* failurePolicy.maxBilledFailures
  Within,       \* failurePolicy.within, 0 for "in a row"
  Backoff,      \* failurePolicy.backoff, a sequence
  ManualClears, \* TRUE: a manual run clears retryAfter (the stablecoin jobs)
  Manual,       \* TRUE: there are manual runs
  ResumeAny,    \* TRUE: the operator also resumes a job that is not stopped
  MaxCrashes,   \* bound: process deaths
  MaxTime       \* bound: the last hour

ASSUME ConstantsAssumption ==
  /\ DayLen \in Nat \ {0} /\ Finality \in 0 .. (DayLen - 1) /\ Slack \in Nat
  /\ InitialDays \in Nat \ {0} /\ MaxWindow \in Nat \ {0} /\ MinWindow \in Nat \ {0}
  /\ Chunk \in BOOLEAN /\ ManualClears \in BOOLEAN /\ Manual \in BOOLEAN
  /\ ResumeAny \in BOOLEAN
  /\ MaxBilled \in Nat \ {0} /\ Within \in Nat
  /\ Backoff \in Seq(Nat) /\ Len(Backoff) > 0
  /\ MaxCrashes \in Nat /\ MaxTime \in Nat

Days     == (1 - InitialDays) .. (MaxTime \div DayLen)
None     == -InitialDays           \* the empty string of a watermark
Triggers == {"schedule", "manual"}

VARIABLES
  clock,        \* the time
  exported,     \* the days before it are complete in BigQuery
  stored,       \* days whose rows are in SQLite
  cursor,       \* last day synced
  coverageFrom, \* first day synced
  failures,     \* times of the recorded billed failures (SQLite)
  stopped,      \* the stop flag (SQLite)
  retryAfter,   \* no scheduled run before it (memory)
  unbilled,     \* unbilledFailures (memory)
  ticked,       \* when the schedule last ticked, -1: it ticks at once
  task,         \* the run in progress
  billed,       \* history: times of the billed failures since the last success or resume
  due,          \* history: end of the back-off of the last billed failure, 0 once the
                \* process died or a manual run cleared it
  resumed,      \* history: the operator has resumed the stopped job and none has run since
  crashes       \* history: process deaths

db      == <<stored, cursor, coverageFrom, failures, stopped>>
memory  == <<retryAfter, unbilled>>
history == <<billed, due, resumed, crashes>>
vars    == <<clock, exported, db, memory, ticked, task, history>>
---------------------------------------------------------------------------
(* Pure parts *)

today == clock \div DayLen

Smaller(a, b) == IF a < b THEN a ELSE b
Larger(a, b)  == IF a > b THEN a ELSE b

Idle == [pc |-> "idle", trigger |-> "schedule", at |-> 0, start |-> 0, end |-> 0,
         newFrom |-> None, read |-> <<>>]

\* startDate.
StartDate == IF cursor = None THEN today - InitialDays ELSE cursor + 1

\* The last day boundary past finality at time t.
Candidate(t) == IF t % DayLen < Finality THEN t \div DayLen - 1 ELSE t \div DayLen

\* safeEndForJob: the candidate if BigQuery has it, else yesterday when that is
\* worth it.
SafeEnd(t, start) ==
  IF Candidate(t) <= exported THEN {Candidate(t)}
  ELSE {d \in {t \div DayLen - 1} :
          Candidate(t) = t \div DayLen /\ start < d /\ d <= exported}

\* resolveWindow: the end of the window [start, end), none when there is nothing
\* to do or the gap is too large.
WindowEnd(t, end) ==
  {e \in {Smaller(end, t.start + MaxWindow)} :
     /\ t.start < end
     /\ t.trigger = "manual" \/ t.newFrom # None \/ end - t.start >= MinWindow
     /\ Chunk \/ end - t.start <= MaxWindow}

\* The watermark of a stored window.
BugLastDay(t) == t.end
LastDay(t) == t.end - 1

\* The recorded failures that still count at time t.
Active(fs, t) == {i \in DOMAIN fs : Within = 0 \/ fs[i] >= t - Within}

\* applyBilledFailure's delay after n counted failures.
BackoffFor(n) == Backoff[Larger(1, Smaller(n, Len(Backoff)))]

\* applyUnbilledBackoff: 1, 2, 4 ... hours, at most a day.
UnbilledBackoff(n) == Smaller(<<1, 2, 4, 8, 16, 32>>[n], DayLen)
---------------------------------------------------------------------------
Init ==
  /\ clock \in DayLen .. (2 * DayLen) /\ clock <= MaxTime
  /\ exported = today - 1
  /\ stored = {} /\ cursor = None /\ coverageFrom = None
  /\ failures = <<>> /\ stopped = FALSE
  /\ retryAfter = 0 /\ unbilled = 0
  /\ ticked = -1
  /\ task = Idle
  /\ billed = <<>> /\ due = 0 /\ resumed = FALSE /\ crashes = 0

Goto(pc, t) == task' = [t EXCEPT !.pc = pc]
End == task' = Idle
---------------------------------------------------------------------------
(* A run *)

\* There may be a complete day to fetch: the skip that asks nobody.
BugMayBeDue(tr) ==
  \/ cursor = None
  \/ LET s == cursor + 1 IN
     /\ s < Candidate(clock)
     /\ tr = "manual" \/ today - s > MinWindow
MayBeDue(tr) ==
  \/ cursor = None
  \/ LET s == cursor + 1 IN
     /\ s < Candidate(clock)
     /\ tr = "manual" \/ today - s >= MinWindow

BugHeld == clock + 1 < retryAfter
Held == clock < retryAfter

\* executeSync and the first part of syncWithOpts: the stop flag, the back-off
\* (which a manual run ignores), the start of the window.
Begin(tr) ==
  /\ task.pc = "idle"
  /\ IF tr = "schedule" THEN ticked < clock \/ clock = MaxTime
     ELSE Manual /\ ~stopped
  /\ IF stopped \/ (tr = "schedule" /\ Held) \/ ~MayBeDue(tr) THEN UNCHANGED task
     ELSE Goto("plan", [Idle EXCEPT
            !.trigger = tr, !.at = clock, !.start = StartDate,
            !.newFrom = IF cursor = None THEN StartDate ELSE None])
  /\ resumed' = FALSE
  /\ ticked' = IF tr = "schedule" THEN clock ELSE ticked
  /\ retryAfter' = IF tr = "manual" /\ ManualClears THEN 0 ELSE retryAfter
  /\ due' = IF tr = "manual" /\ ManualClears THEN 0 ELSE due
  /\ UNCHANGED <<clock, exported, db, unbilled, billed, crashes>>

\* The window is known, its dry run fits the cap and the budget.
Plan ==
  /\ task.pc = "plan"
  /\ \E end \in SafeEnd(task.at, task.start) : \E e \in WindowEnd(task, end) :
       Goto("query", [task EXCEPT !.end = e])
  /\ UNCHANGED <<clock, exported, db, memory, ticked, history>>

\* No window, no budget or over the cap: nothing is billed, nothing is delayed.
PlanIsEmpty ==
  /\ task.pc = "plan" /\ End
  /\ UNCHANGED <<clock, exported, db, memory, ticked, history>>

\* Counted to 6, where the delay stops growing.
UnbilledFailure ==
  /\ unbilled' = Smaller(unbilled + 1, 6)
  /\ retryAfter' = task.at + UnbilledBackoff(unbilled')

\* The readiness check, the dry run or the query failed before it was billed.
FailUnbilled ==
  /\ task.pc \in {"plan", "query"} /\ UnbilledFailure /\ End
  /\ UNCHANGED <<clock, exported, db, ticked, history>>

QuerySucceeds ==
  /\ task.pc = "query" /\ Goto("store", task)
  /\ UNCHANGED <<clock, exported, db, memory, ticked, history>>

\* A query that was billed failed, timed out or failed a guard, or its rows could
\* not be stored.
FailBilled ==
  /\ task.pc \in {"query", "store"} /\ Goto("record", task)
  /\ billed' = Append(billed, task.at)
  /\ UNCHANGED <<clock, exported, db, memory, ticked, due, resumed, crashes>>

\* The job's rows and the watermarks, in one transaction.
Store ==
  /\ task.pc = "store"
  /\ stored' = stored \union (task.start .. (task.end - 1))
  /\ cursor' = LastDay(task)
  /\ coverageFrom' = IF task.newFrom = None THEN coverageFrom ELSE task.newFrom
  /\ Goto("clear", task)
  /\ UNCHANGED <<clock, exported, failures, stopped, memory, ticked, history>>

Clear == failures' = <<>> /\ stopped' = FALSE

\* A success forgets the failures.
Succeed ==
  /\ task.pc = "clear" /\ Clear /\ End
  /\ unbilled' = 0 /\ billed' = <<>> /\ due' = 0
  /\ UNCHANGED <<clock, exported, stored, cursor, coverageFrom, retryAfter, ticked,
                 resumed, crashes>>
---------------------------------------------------------------------------
(* applyBilledFailure *)

\* recordFailure reads the list and writes it back in two statements.
ReadFailures ==
  /\ task.pc = "record" /\ Goto("append", [task EXCEPT !.read = failures])
  /\ UNCHANGED <<clock, exported, db, memory, ticked, history>>

WriteFailures ==
  /\ task.pc = "append" /\ Goto("decide", [task EXCEPT !.read = <<>>])
  /\ failures' = Append(task.read, task.at)
  /\ UNCHANGED <<clock, exported, stored, cursor, coverageFrom, stopped, memory, ticked,
                 history>>

BugTooMany(n) == n > MaxBilled
TooMany(n) == n >= MaxBilled

\* Enough of them stop the job, fewer delay its next scheduled run.
BugDecide ==
  LET n == Cardinality(Active(failures, task.at)) IN
  /\ task.pc = "decide"
  /\ retryAfter' = task.at + BackoffFor(n)
  /\ IF TooMany(n) THEN Goto("stop", task) /\ due' = task.at
     ELSE End /\ due' = task.at + BackoffFor(n)
  /\ UNCHANGED <<clock, exported, db, unbilled, ticked, billed, resumed, crashes>>
Decide ==
  LET n == Cardinality(Active(failures, task.at)) IN
  /\ task.pc = "decide"
  /\ IF TooMany(n) THEN Goto("stop", task) /\ due' = task.at /\ UNCHANGED retryAfter
     ELSE End /\ retryAfter' = task.at + BackoffFor(n) /\ due' = task.at + BackoffFor(n)
  /\ UNCHANGED <<clock, exported, db, unbilled, ticked, billed, resumed, crashes>>

Stop ==
  /\ task.pc = "stop" /\ End
  /\ stopped' = TRUE
  /\ UNCHANGED <<clock, exported, stored, cursor, coverageFrom, failures, memory, ticked,
                 history>>
---------------------------------------------------------------------------
(* The operator and the environment *)

\* btcResumeJob, in a process of its own.
Resume ==
  /\ stopped \/ ResumeAny
  /\ Clear
  /\ billed' = <<>> /\ due' = 0 /\ resumed' = stopped
  /\ UNCHANGED <<clock, exported, stored, cursor, coverageFrom, memory, ticked, task, crashes>>

\* The server dies and starts again: its loop ticks at once.
Crash ==
  /\ crashes < MaxCrashes /\ crashes' = crashes + 1
  /\ End /\ ticked' = -1 /\ retryAfter' = 0 /\ unbilled' = 0 /\ due' = 0
  /\ UNCHANGED <<clock, exported, db, billed, resumed>>

Advance ==
  /\ clock < MaxTime /\ clock' = clock + 1
  /\ UNCHANGED <<exported, db, memory, ticked, task, history>>

Export ==
  /\ exported' \in (exported + 1) .. ((clock - Slack) \div DayLen)
  /\ UNCHANGED <<clock, db, memory, ticked, task, history>>

\* Time goes on after the last hour of the model: a back-off ends.
Outlast ==
  /\ clock = MaxTime /\ retryAfter > clock /\ task.pc = "idle"
  /\ retryAfter' = 0 /\ due' = 0
  /\ UNCHANGED <<clock, exported, db, unbilled, ticked, task, billed, resumed, crashes>>

Next ==
  \/ \E tr \in Triggers : Begin(tr)
  \/ Plan \/ PlanIsEmpty \/ FailUnbilled \/ QuerySucceeds \/ FailBilled
  \/ Store \/ Succeed
  \/ ReadFailures \/ WriteFailures \/ Decide \/ Stop
  \/ Resume \/ Crash \/ Advance \/ Outlast \/ Export

Spec == Init /\ [][Next]_vars
---------------------------------------------------------------------------
(* Properties *)

Hours == 0 .. MaxTime
TaskType ==
  [pc : {"idle", "plan", "query", "store", "clear", "record", "append", "decide", "stop"},
   trigger : Triggers, at : Hours, start : Days, end : Days,
   newFrom : Days \union {None}, read : Seq(Hours)]

TypeOK ==
  /\ clock \in DayLen .. MaxTime /\ exported \in -1 .. today
  /\ stored \in SUBSET Days /\ cursor \in Days \union {None}
  /\ coverageFrom \in Days \union {None}
  /\ failures \in Seq(Hours) /\ stopped \in BOOLEAN
  /\ retryAfter \in Nat /\ unbilled \in 0 .. 6
  /\ ticked \in -1 .. clock
  /\ task \in TaskType
  /\ billed \in Seq(Hours) /\ due \in Nat /\ resumed \in BOOLEAN
  /\ crashes \in 0 .. MaxCrashes

\* The days from coverage_from to the cursor are in SQLite: "the cursor advances on
\* success with no resync path" (scam_radar_sync.go:21), so a day it passes over is
\* lost for good.
SyncedDaysStored == cursor # None => coverageFrom .. cursor \subseteq stored

\* The failures of a list in the window that ends at time t.
Recent(fs, t) == {i \in DOMAIN fs : Within = 0 \/ fs[i] >= t - Within}

\* "stops after 4 billed failures within 24 hours" (README.md:431): the failures
\* billed in one window never exceed the limit, except that each death of the
\* process may hide one from it or let one more run through.
BilledFailuresBounded == Cardinality(Recent(billed, clock)) <= MaxBilled + crashes

\* "Unbilled checks ... never count as failures" (README.md:427): a job stops only
\* after the limit of failures that were billed since its last success or resume.
StopsForBilledFailures ==
  [][stopped' /\ ~stopped =>
       Cardinality(Recent(billed, task.at)) >= MaxBilled]_vars

\* The policy of the stablecoin jobs, "3h, 6h, 12h" (opendata_stablecoin_bq.go:1131), whose
\* panel promises NextRunAfter (:1302): no scheduled query starts before the back-off of
\* the last billed failure is over, unless a manual run has cleared it.
BackoffHonoured ==
  [][task'.pc = "query" /\ task.pc = "plan" /\ task.trigger = "schedule" => task.at >= due]_vars

\* A resumed job runs "on its next tick" (opendata_bitcoin_bq.go:624; the stablecoin jobs
\* are resumed alike, opendata_stablecoin_bq.go:1139): that tick is not held back by the
\* server's memory of the failures.  So it is where a manual run clears the back-off; a
\* manual run of a Bitcoin job can stop it while a delay is still in memory.
ResumeTakesEffect == [][ticked' # ticked /\ resumed => ~Held]_vars

\* The cursor is at the last exported days its cadence asks for, unless the job is stopped
\* or the gap is too large to fetch in one window.
CaughtUp ==
  \/ cursor # None /\ exported - (cursor + 1) < MinWindow
  \/ stopped
  \/ ~Chunk /\ exported - StartDate > MaxWindow
---------------------------------------------------------------------------
(* The inductive invariant *)

\* The run in progress continues the stored days, or starts them.
TaskContinues ==
  /\ task.pc # "idle" => task.at \in DayLen .. clock
  /\ task.pc \in {"plan", "query", "store"} =>
       IF task.newFrom = None THEN cursor # None /\ task.start = cursor + 1
       ELSE cursor = None /\ task.start = task.newFrom
  /\ task.pc \in {"query", "store"} => task.start < task.end

\* A failure at time f is in the window that ends at time t.
InWindow(f, t) == Within = 0 \/ f >= t - Within

\* Every recorded failure was billed since the last success or resume, in every
\* window, and so was the one about to be recorded.
RecordedWereBilled ==
  \A t \in Hours :
    Cardinality(Recent(failures, t))
      + (IF task.pc \in {"record", "append"} /\ InWindow(task.at, t) THEN 1 ELSE 0)
      <= Cardinality(Recent(billed, t))

\* A run in progress is not of a stopped job, nor of one resumed before it began.
RunFree == task.pc # "idle" => ~stopped /\ ~resumed

\* What a run knows when only a stopped job is resumed: no resume in the middle.
RunAlone ==
  /\ task.pc = "append" => task.read = failures
  /\ task.pc = "stop" => Cardinality(Recent(failures, task.at)) >= MaxBilled
  /\ RecordedWereBilled

\* A billed failure is recorded, about to be, or was lost by a death of the process; a list
\* that was read before a resume is too long, never too short.
Recorded(fs, t) ==
  Cardinality(Recent(fs, t)) + crashes
    + (IF task.pc \in {"record", "append"} /\ InWindow(task.at, t) THEN 1 ELSE 0)
BilledAreRecorded ==
  \A t \in Hours : /\ Cardinality(Recent(billed, t)) <= Recorded(failures, t)
                   /\ task.pc = "append" => Cardinality(Recent(billed, t)) <= Recorded(task.read, t)

\* The limit is reached only by a failure of the run in progress, or in a stopped job.
BeforeLimit ==
  Cardinality(Recent(billed, clock))
    <= crashes + (IF stopped \/ task.pc \in {"record", "append", "decide", "stop"}
                  THEN MaxBilled ELSE MaxBilled - 1)

\* Nothing delays a run in progress, a job that it stops or one just resumed.
NotDelayed == task.pc # "idle" \/ stopped \/ resumed => retryAfter <= clock

\* The back-off of the last billed failure is over in a run, and is in memory between runs.
DueIsKept == IF task.pc = "idle" THEN due <= retryAfter \/ due <= clock ELSE due <= task.at

IInv ==
  /\ TypeOK /\ SyncedDaysStored /\ TaskContinues
  /\ RunFree /\ BilledAreRecorded /\ BeforeLimit
  /\ ~ResumeAny => RunAlone
  /\ ~Manual \/ ManualClears => NotDelayed /\ DueIsKept
===========================================================================
