----------------------------- MODULE RunSlots -----------------------------
(***************************************************************************)
(* Who may run one daily BigQuery job, and the end of the server: the      *)
(* hourly loop (runScheduled) and HTTP requests for a manual run           *)
(* (BitcoinBQRun) share the flag running[job] and the time lastManualAt    *)
(* under one mutex; a manual run outlives its request in a goroutine that  *)
(* the server waits for before it exits (btcBQRunner.Shutdown).            *)
(*                                                                         *)
(* What a run does is module DailySync.  Time is counted in minutes.       *)
(*                                                                         *)
(* A Bug... operator is a seeded fault: the definition after it as a       *)
(* plausible mistake would write it, used only to test the properties.     *)
(***************************************************************************)
EXTENDS Integers, FiniteSets

CONSTANTS
  Requests,     \* HTTP requests that may be handled at once
  Loop,         \* the hourly loop
  Cooldown,     \* btcManualCooldown
  NoOpCooldown, \* btcManualNoOpCooldown
  LastMinute       \* bound: the last minute

ASSUME SlotsAssumption ==
  /\ IsFiniteSet(Requests) /\ Loop \notin Requests
  /\ Cooldown \in Nat /\ NoOpCooldown \in 0 .. Cooldown /\ LastMinute \in Nat

Actors == Requests \union {Loop}
Never  == -Cooldown - 1      \* lastManualAt of a job with no manual run yet

VARIABLES
  minute,
  running,      \* running[job]
  lastManualAt, \* the time the next manual run is counted from
  pc,           \* where each actor is
  now,          \* the time each request read before it took the mutex
  waiting,      \* wg: manual runs in progress
  cancelled,    \* runCtx is cancelled
  server,       \* "serving", "draining", "waiting" for wg, "returned" from it
  lastStart,    \* history: the time of the last manual run
  freeAt        \* history: when the last manual run that fetched nothing ended, or Never

slotVars == <<minute, running, lastManualAt, pc, now, waiting, cancelled, server,
          lastStart, freeAt>>

\* Where an actor holds the job.
Holding == {"estimate", "start", "run", "free"}
\* Where the goroutine of a manual run is.
InGoroutine == {"run", "free", "done"}
---------------------------------------------------------------------------
SlotsInit ==
  /\ minute = 0 /\ running = FALSE /\ lastManualAt = Never
  /\ pc = [a \in Actors |-> "idle"] /\ now = [r \in Requests |-> 0]
  /\ waiting = 0 /\ cancelled = FALSE /\ server = "serving"
  /\ lastStart = Never /\ freeAt = Never

MoveTo(a, l) == pc' = [pc EXCEPT ![a] = l]

(* A manual run *)

\* The early checks, without the mutex: the server is up, the job not stopped.
Arrive(r) ==
  /\ pc[r] = "idle" /\ server = "serving" /\ ~cancelled
  /\ now' = [now EXCEPT ![r] = minute] /\ MoveTo(r, "ask")
  /\ UNCHANGED <<minute, running, lastManualAt, waiting, cancelled, server, lastStart, freeAt>>

BugMayStart(r) == now[r] - lastManualAt >= Cooldown
MayStart(r) == ~running /\ now[r] - lastManualAt >= Cooldown

\* The job is taken, unless it is running or a manual run was started just before.
Ask(r) ==
  /\ pc[r] = "ask"
  /\ IF MayStart(r) THEN running' = TRUE /\ MoveTo(r, "estimate")
     ELSE UNCHANGED running /\ MoveTo(r, "idle")
  /\ UNCHANGED <<minute, lastManualAt, now, waiting, cancelled, server, lastStart, freeAt>>

\* The dry run confirms the estimate the client saw.
Estimate(r) ==
  /\ pc[r] = "estimate" /\ MoveTo(r, "start")
  /\ UNCHANGED <<minute, running, lastManualAt, now, waiting, cancelled, server, lastStart, freeAt>>

Abort(r) == MoveTo(r, "idle") /\ running' = FALSE

\* It fails, finds nothing to do, or does not fit: abortRunning.
EstimateFails(r) ==
  /\ pc[r] = "estimate" /\ Abort(r)
  /\ UNCHANGED <<minute, lastManualAt, now, waiting, cancelled, server, lastStart, freeAt>>

BugRefused == FALSE
Refused == cancelled

\* Under the mutex again: the run starts in a goroutine, unless the server ends.
Start(r) ==
  /\ pc[r] = "start"
  /\ IF Refused THEN Abort(r) /\ UNCHANGED <<lastManualAt, waiting, lastStart, freeAt>>
     ELSE /\ lastManualAt' = now[r] /\ waiting' = waiting + 1 /\ MoveTo(r, "run")
          /\ lastStart' = now[r] /\ freeAt' = Never
          /\ UNCHANGED running
  /\ UNCHANGED <<minute, now, cancelled, server>>

Shortened == minute + NoOpCooldown - Cooldown

\* executeSync ends; when no query ran, the next manual run may come sooner.
ManualEnds(r) ==
  /\ r \in Requests /\ pc[r] = "run" /\ MoveTo(r, "free")
  /\ \/ lastManualAt' = Shortened /\ freeAt' = minute
     \/ UNCHANGED <<lastManualAt, freeAt>>
  /\ UNCHANGED <<minute, running, now, waiting, cancelled, server, lastStart>>

\* The deferred calls of the goroutine, and of runScheduled.
Free(a) ==
  /\ pc[a] = "free" /\ running' = FALSE
  /\ MoveTo(a, IF a = Loop THEN "idle" ELSE "done")
  /\ UNCHANGED <<minute, lastManualAt, now, waiting, cancelled, server, lastStart, freeAt>>

BugDone(r) ==
  /\ pc[r] = "done" /\ MoveTo(r, "idle")
  /\ UNCHANGED <<minute, running, lastManualAt, now, waiting, cancelled, server, lastStart, freeAt>>
Done(r) ==
  /\ pc[r] = "done" /\ MoveTo(r, "idle") /\ waiting' = waiting - 1
  /\ UNCHANGED <<minute, running, lastManualAt, now, cancelled, server, lastStart, freeAt>>
---------------------------------------------------------------------------
(* A scheduled run *)

\* A loop that is in the middle of its jobs goes on when its context is cancelled.
BugMaySchedule == TRUE
MaySchedule == ~running

Tick ==
  /\ pc[Loop] = "idle" /\ MaySchedule
  /\ running' = TRUE /\ MoveTo(Loop, "run")
  /\ UNCHANGED <<minute, lastManualAt, now, waiting, cancelled, server, lastStart, freeAt>>

ScheduledEnds ==
  /\ pc[Loop] = "run" /\ MoveTo(Loop, "free")
  /\ UNCHANGED <<minute, running, lastManualAt, now, waiting, cancelled, server, lastStart, freeAt>>
---------------------------------------------------------------------------
(* The end of the server *)

\* SIGTERM: the contexts are cancelled, the listener is closed.
Signal ==
  /\ server = "serving" /\ server' = "draining" /\ cancelled' = TRUE
  /\ UNCHANGED <<minute, running, lastManualAt, pc, now, waiting, lastStart, freeAt>>

\* server.Shutdown returns when no request is left, or after 15 s with some.
Drained ==
  /\ server = "draining" /\ server' = "waiting"
  /\ UNCHANGED <<minute, running, lastManualAt, pc, now, waiting, cancelled, lastStart, freeAt>>

Waited == server = "waiting" /\ waiting = 0

\* wg.Wait returns and main is about to; the other goroutines may still take steps.
Return ==
  /\ Waited /\ server' = "returned"
  /\ UNCHANGED <<minute, running, lastManualAt, pc, now, waiting, cancelled, lastStart, freeAt>>

MinutePasses ==
  /\ minute < LastMinute /\ minute' = minute + 1
  /\ UNCHANGED <<running, lastManualAt, pc, now, waiting, cancelled, server, lastStart, freeAt>>

SlotsNext ==
  \/ \E r \in Requests : \/ Arrive(r) \/ Ask(r) \/ Estimate(r) \/ EstimateFails(r)
                         \/ Start(r) \/ ManualEnds(r) \/ Done(r)
  \/ \E a \in Actors : Free(a)
  \/ Tick \/ ScheduledEnds \/ Signal \/ Drained \/ Return \/ MinutePasses

SlotsSpec == SlotsInit /\ [][SlotsNext]_slotVars

\* Every query has a timeout and every request ends; server.Shutdown has a timeout.
SlotFairness ==
  /\ \A r \in Requests :
       WF_slotVars(Ask(r) \/ Estimate(r) \/ EstimateFails(r) \/ Start(r) \/ ManualEnds(r) \/ Done(r))
  /\ \A a \in Actors : WF_slotVars(Free(a))
  /\ WF_slotVars(ScheduledEnds) /\ WF_slotVars(Drained) /\ WF_slotVars(Return)

FairSlots == SlotsSpec /\ SlotFairness
---------------------------------------------------------------------------
(* Properties *)

SlotsTypeOK ==
  /\ minute \in 0 .. LastMinute /\ running \in BOOLEAN
  /\ lastManualAt \in Int /\ lastStart \in Int /\ freeAt \in Int
  /\ pc \in [Actors -> {"idle", "ask", "done"} \union Holding]
  /\ pc[Loop] \in {"idle", "run", "free"}
  /\ now \in [Requests -> 0 .. LastMinute]
  /\ waiting \in Nat /\ cancelled \in BOOLEAN
  /\ server \in {"serving", "draining", "waiting", "returned"}

\* The job is never run, or about to be run, twice: the hourly loop and the manual
\* requests take turns (BitcoinBQRun, runScheduled).
OneRunAtATime == \A a, b \in Actors : pc[a] \in Holding /\ pc[b] \in Holding => a = b

\* Once wg.Wait has returned no manual run is left between its query and its
\* settlement (btcBQRunner.Shutdown), and a request that server.Shutdown gave up on
\* starts none.
NoRunAfterWait == server = "returned" => \A r \in Requests : pc[r] \notin InGoroutine

\* Two manual runs are a cooldown apart, or the shorter one if the first fetched
\* nothing, however long the requests waited for the mutex.
ManualRunsSpaced ==
  [][\A r \in Requests : pc[r] = "start" /\ pc'[r] = "run" =>
       \/ now[r] - lastStart >= Cooldown
       \/ freeAt # Never /\ now[r] - freeAt >= NoOpCooldown]_slotVars

\* A signal ends the server, whatever is running.
ServerReturns == server = "draining" ~> server = "returned"
---------------------------------------------------------------------------
(* The inductive invariant *)

Goroutines == {r \in Requests : pc[r] \in InGoroutine}

\* The flag is set exactly while an actor holds the job.
FlagMeansHeld == running <=> \E a \in Actors : pc[a] \in Holding

SlotsInv ==
  /\ SlotsTypeOK /\ OneRunAtATime /\ FlagMeansHeld /\ NoRunAfterWait
  /\ waiting = Cardinality(Goroutines)
  /\ server # "serving" => cancelled
===========================================================================
