------------------------------- MODULE MCBqJobs -------------------------------
(***************************************************************************)
(* Small instances of two parts around the daily BigQuery jobs, each        *)
(* explored alone while the other rests: the schedule of one job, and the   *)
(* Bitcoin holder state, which is built from what two of them stored.       *)
(***************************************************************************)
EXTENDS MCDailySync, MCHolderState

VARIABLE scene

all == <<vars, holderVars, scene>>

MCInit ==
  /\ scene \in {"job", "holders"}
  /\ Init /\ (scene = "job" \/ clock = DayLen)
  /\ HolderInit /\ (scene = "holders" \/ gen = 0)

JobStep     == scene = "job" /\ Next /\ (Disturbed => clock <= HandsOff) /\ UNCHANGED holderVars
HoldersStep == scene = "holders" /\ HolderNext /\ UNCHANGED vars

\* The job's loop ticks for ever, time passes and BigQuery exports its days.
JobFairness ==
  /\ WF_vars(scene = "job" /\ Begin("schedule")) /\ WF_vars(scene = "job" /\ Advance)
  /\ WF_vars(scene = "job" /\ Export)
  /\ WF_vars(PlanIsEmpty) /\ WF_vars(Succeed) /\ WF_vars(Outlast)
  /\ WF_vars(ReadFailures) /\ WF_vars(WriteFailures) /\ WF_vars(Decide) /\ WF_vars(Stop)

\* The hourly loop calls maintenance for ever; days, prices and both jobs' data come in the end.
HolderFairness ==
  /\ WF_holderVars(scene = "holders" /\ (NewDay \/ PricesArrive \/ StoreRollup \/ StoreCoinage))
  /\ WF_holderVars(scene = "holders" /\ Start("loop"))
  /\ WF_holderVars(Prune) /\ WF_holderVars(ReadStored \/ ReadPending \/ ReadBlocked \/ Finish)

\* What fails now and then succeeds if it is tried again and again: a job's check, query and
\* store; the maintenance after a store, and its transaction.  This is strong fairness of each;
\* one of a scene is stated together with one of the other.
Ready(n) ==
  \/ scene = "job" /\ CASE n = 1 -> ENABLED Plan [] n = 2 -> ENABLED QuerySucceeds
                        [] n = 3 -> ENABLED Store
  \/ scene = "holders" /\ CASE n = 1 -> At("idle") /\ job = "pass" [] n = 2 -> CanCommit
                            [] n = 3 -> FALSE
Retry(n) ==
  \/ n = 1 /\ (Plan \/ Start("job"))
  \/ n = 2 /\ (QuerySucceeds \/ ApplyBaseline \/ RollExisting)
  \/ n = 3 /\ Store

JobsSpec ==
  /\ MCInit /\ [][(JobStep \/ HoldersStep) /\ UNCHANGED scene]_all
  /\ JobFairness /\ HolderFairness
  /\ \A n \in 1 .. 3: []<>Ready(n) => []<><<Retry(n)>>_all

\* The schedule alone brings the cursor to the last exported days its cadence asks for, over
\* failures, late exports and stops, unless the job is stopped or its gap too large.
CatchesUp == <>[](scene = "job" => CaughtUp)

\* The engine gets over its waits: days blocked for want of prices are computed again once the
\* prices are there, and a false halt does not last.
DaysGetPriced == <>[](scene = "holders" => DaysPriced)

=============================================================================
