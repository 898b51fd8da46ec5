---------------------------- MODULE MCDailySync ----------------------------
(* Small instances of DailySync for TLC: a day of three hours.             *)
EXTENDS DailySync

CONSTANT HandsOff  \* bound: no crash, manual run or needless resume after it

Backoff12   == <<1, 2>>
BackoffOnce == <<2>>      \* btc_coinage: one delay, then the job stops

\* Disturbances end early, so that what has to happen in the end can be seen.
ByHand    == task.pc = "idle" /\ task'.trigger = "manual"
Needless  == ~stopped /\ UNCHANGED <<task, clock, exported, ticked, retryAfter>>
Disturbed == ByHand \/ Needless \/ crashes' # crashes
===========================================================================
