-------------------------- MODULE FreezeCoverage --------------------------
(***************************************************************************)
(* The freeze-event history of Address Risk: the events table and the      *)
(* watermarks that say which days it covers (address_risk_store.go), moved *)
(* by the server's hourly sync (address_risk_stablecoin_sync.go) and by    *)
(* backfills that run beside it, in the server or as CLI processes         *)
(* (address_risk_backfill.go).                                             *)
(*                                                                         *)
(* A day is a number; BigQuery has exported the days before `exported`.    *)
(* A writer reads the watermarks, plans a window of days, fetches it and   *)
(* stores the events with the watermarks it moves in one transaction; the  *)
(* writers interleave between these steps and may die at any of them.      *)
(*                                                                         *)
(* A Bug... operator is a seeded fault: the definition after it as a       *)
(* plausible mistake would write it, used only to test the properties.     *)
(***************************************************************************)
EXTENDS Integers

CONSTANTS
  Server,       \* the hourly sync
  Backfills,    \* backfill runs: the server's one and CLI processes
  InitialDays,  \* initial_sync_days: the cold start, 0 when it is off
  MaxWindow,    \* stablecoinMaxWindowDays
  YearLen,      \* days in a calendar year
  ColdStart,    \* TRUE: the history may be empty at the start
  Span,         \* a writer's time limit, in clock steps
  MaxDay        \* bound: the last day

ASSUME ConstantsAssumption ==
  /\ Server \notin Backfills
  /\ InitialDays \in Nat /\ MaxWindow \in Nat \ {0} /\ YearLen \in Nat \ {0}
  /\ ColdStart \in BOOLEAN
  /\ Span \in [Backfills \union {Server} -> Nat] /\ MaxDay \in Nat \ {0}

Days    == 0 .. MaxDay
NoMark  == -1                    \* the empty string of a watermark
Marks   == Days \union {NoMark}
Writers == Backfills \union {Server}

VARIABLES
  clock,        \* the time: a day and whether it is past 00:30 UTC
  exported,     \* the days before it are complete in BigQuery
  storedDays,   \* days whose USDT and USDC events are in the table
  storedLate,   \* days fetched since the query also asks for the late token
  cursor,       \* last covered day
  coverageFrom, \* first covered day
  tokenFrom,    \* first covered day of the late token (EURC)
  task          \* a writer's program counter, plan and fetched window

db   == <<storedDays, storedLate, cursor, coverageFrom, tokenFrom>>
freezeVars == <<clock, exported, storedDays, storedLate, cursor, coverageFrom, tokenFrom, task>>
---------------------------------------------------------------------------
(* Pure parts *)

DayOf(t) == t \div 2
\* The last day boundary whose blocks are final at t: 30 minutes past midnight.
FinalAt(t) == (t - 1) \div 2
today == DayOf(clock)

Later(a, b)   == IF a > b THEN a ELSE b
Earlier(a, b) == IF a < b THEN a ELSE b
YearStart(d)  == (d \div YearLen) * YearLen

NoWindow == [start |-> 0, end |-> 0, newFrom |-> NoMark, newCursor |-> NoMark]
Idle == [pc |-> "idle", at |-> 0, w |-> NoWindow, got |-> {},
         end |-> 0, fwd |-> 0, from |-> NoMark, since |-> 0]

\* safeEndFrom, for a writer that read the clock at t: the last final day when
\* its blocks are exported, else the day before when that is worth it; before
\* 00:30 UTC yesterday is the only candidate.
SafeEnd(t, start) ==
  IF FinalAt(t) <= exported THEN {FinalAt(t)}
  ELSE {d \in {DayOf(t) - 1} : FinalAt(t) = DayOf(t) /\ start < d /\ d <= exported}

\* planBackfill: the next batch of a plan.  First the forward gap after the
\* cursor, MaxWindow days at a time, or on an empty history the current year;
\* then back to since, year by year.
ForwardEnd(t) == IF t.from = NoMark THEN t.end ELSE Earlier(t.fwd + MaxWindow, t.end)
BackwardStart(t) == Later(t.since, YearStart(t.from - 1))
MoreForward(t)  == t.fwd < t.end
MoreBackward(t) == t.from > t.since
BugNextBatch(t) ==
  IF MoreForward(t)
  THEN [start |-> t.fwd, end |-> ForwardEnd(t),
        newFrom |-> IF t.from = NoMark THEN t.since ELSE NoMark, newCursor |-> ForwardEnd(t) - 1]
  ELSE [start |-> BackwardStart(t), end |-> t.from, newFrom |-> t.since, newCursor |-> NoMark]
NextBatch(t) ==
  IF MoreForward(t)
  THEN [start |-> t.fwd, end |-> ForwardEnd(t),
        newFrom |-> IF t.from = NoMark THEN t.fwd ELSE NoMark, newCursor |-> ForwardEnd(t) - 1]
  ELSE [start |-> BackwardStart(t), end |-> t.from, newFrom |-> BackwardStart(t), newCursor |-> NoMark]

\* extendStablecoinTokenCoverage, after the cursor has moved.
BugTokenFromAfter(w) ==
  IF tokenFrom = NoMark THEN w.start
  ELSE IF w.start < tokenFrom THEN w.start ELSE tokenFrom
TokenFromAfter(w) ==
  IF tokenFrom = NoMark
  THEN IF w.end - 1 >= cursor' THEN w.start ELSE NoMark
  ELSE IF w.start < tokenFrom /\ w.end >= tokenFrom THEN w.start ELSE tokenFrom

BugCursorAfter(w) == IF w.newCursor = NoMark THEN cursor ELSE w.newCursor
CursorAfter(w) == Later(cursor, w.newCursor)
---------------------------------------------------------------------------
FreezeInit ==
  /\ clock \in 3 .. (2 * MaxDay + 1)
  /\ exported \in {today - 1, FinalAt(clock)}
  /\ \/ /\ ColdStart /\ today >= InitialDays
        /\ cursor = NoMark /\ coverageFrom = NoMark /\ storedDays = {}
     \/ /\ cursor \in 0 .. (exported - 1) /\ coverageFrom \in 0 .. cursor
        /\ storedDays = coverageFrom .. cursor
  /\ storedLate = {} /\ tokenFrom = NoMark
  /\ task = [a \in Writers |-> Idle]

\* insertStablecoinWindow: the events and every watermark, in one transaction.
\* The cursor only grows and coverage_from only shrinks.
InsertWindow(w, got) ==
  /\ storedDays' = storedDays \union got
  /\ storedLate' = storedLate \union got
  /\ coverageFrom' = IF w.newFrom = NoMark THEN coverageFrom
                     ELSE IF coverageFrom = NoMark THEN w.newFrom
                     ELSE Earlier(coverageFrom, w.newFrom)
  /\ cursor' = CursorAfter(w)
  /\ tokenFrom' = TokenFromAfter(w)

Goto(a, pc, t) == task' = [task EXCEPT ![a] = [t EXCEPT !.pc = pc]]
---------------------------------------------------------------------------
(* The hourly sync *)

BugComplete(start) == start + 1 < FinalAt(clock)
\* There is a complete day to fetch.
Complete(start) == start < FinalAt(clock)

\* It reads the cursor: the day after it starts the window, or on an empty
\* history the cold start.
SyncRead ==
  LET start == IF cursor = NoMark THEN today - InitialDays ELSE cursor + 1 IN
  /\ task[Server].pc = "idle"
  /\ IF cursor = NoMark THEN InitialDays > 0 ELSE Complete(start)
  /\ Goto(Server, "probe", [Idle EXCEPT
       !.at = clock,
       !.w = [NoWindow EXCEPT !.start = start,
                              !.newFrom = IF cursor = NoMark THEN start ELSE NoMark]])
  /\ UNCHANGED <<clock, exported, db>>

\* The window's end; a gap wider than MaxWindow is left to a backfill.
SyncProbe ==
  LET t == task[Server] IN
  /\ t.pc = "probe"
  /\ \E end \in SafeEnd(t.at, t.w.start) :
       /\ t.w.start < end /\ end - t.w.start <= MaxWindow
       /\ Goto(Server, "fetch", [t EXCEPT !.w = [t.w EXCEPT !.end = end,
                                                      !.newCursor = end - 1]])
  /\ UNCHANGED <<clock, exported, db>>
---------------------------------------------------------------------------
(* A backfill *)

\* The watermark of the exported blocks ends the plan.
BackfillProbe(a, since) ==
  /\ a \in Backfills /\ task[a].pc = "idle"
  /\ \E end \in SafeEnd(clock, NoMark) :
       Goto(a, "read", [Idle EXCEPT !.at = clock, !.end = end, !.since = since])
  /\ UNCHANGED <<clock, exported, db>>

\* It reads the watermarks and plans its batches; force fetches the covered
\* days again.
BackfillRead(a, force) ==
  LET t == task[a]
      first == Later(t.since, YearStart(t.end - 1)) IN
  /\ t.pc = "read"
  /\ IF cursor = NoMark
     THEN Goto(a, "run", [t EXCEPT !.fwd = first, !.from = NoMark])
     ELSE Goto(a, "run", [t EXCEPT !.fwd = cursor + 1,
            !.from = IF force \/ coverageFrom = NoMark THEN cursor + 1 ELSE coverageFrom])
  /\ UNCHANGED <<clock, exported, db>>

BackfillNext(a) ==
  LET t == task[a] IN
  /\ t.pc = "run" /\ (MoreForward(t) \/ MoreBackward(t))
  /\ Goto(a, "fetch", [t EXCEPT !.w = NextBatch(t)])
  /\ UNCHANGED <<clock, exported, db>>
---------------------------------------------------------------------------
(* Steps of both *)

\* The query returns the events of the exported days of the window.
Fetch(a) ==
  LET t == task[a] IN
  /\ t.pc = "fetch"
  /\ Goto(a, "store", [t EXCEPT !.got = {d \in t.w.start .. (t.w.end - 1) : d < exported}])
  /\ UNCHANGED <<clock, exported, db>>

Store(a) ==
  LET t == task[a] IN
  /\ t.pc = "store"
  /\ InsertWindow(t.w, t.got)
  /\ IF a = Server THEN task' = [task EXCEPT ![a] = Idle]
     ELSE Goto(a, "run", [t EXCEPT !.w = NoWindow, !.got = {},
            !.fwd  = IF t.w.newCursor = NoMark THEN @ ELSE t.w.end,
            !.from = IF t.w.newFrom = NoMark THEN @ ELSE t.w.start])
  /\ UNCHANGED <<clock, exported>>

\* The tick or the run ends: nothing to do, an error, or the process dies.
Stop(a) ==
  /\ task[a].pc # "idle"
  /\ task' = [task EXCEPT ![a] = Idle]
  /\ UNCHANGED <<clock, exported, db>>
---------------------------------------------------------------------------
(* The environment *)

\* A writer that is out of time has been cancelled before the clock moves on.
Advance ==
  /\ clock < 2 * MaxDay + 1
  /\ \A a \in Writers : task[a].pc # "idle" => clock < task[a].at + Span[a]
  /\ clock' = clock + 1
  /\ UNCHANGED <<exported, db, task>>

\* BigQuery exports the blocks of further days.
Export ==
  /\ exported < FinalAt(clock)
  /\ exported' \in (exported + 1) .. FinalAt(clock)
  /\ UNCHANGED <<clock, db, task>>

FreezeNext ==
  \/ SyncRead \/ SyncProbe
  \/ \E a \in Backfills : \/ \E since \in Days : BackfillProbe(a, since)
                          \/ \E force \in BOOLEAN : BackfillRead(a, force)
                          \/ BackfillNext(a)
  \/ \E a \in Writers : Fetch(a) \/ Store(a) \/ Stop(a)
  \/ Advance \/ Export

FreezeSpec == FreezeInit /\ [][FreezeNext]_freezeVars
---------------------------------------------------------------------------
(* Properties *)

WindowType == [start : Days, end : Nat, newFrom : Marks, newCursor : Marks]
TaskType == [pc : {"idle", "probe", "read", "run", "fetch", "store"}, at : Nat,
             w : WindowType, got : SUBSET Days,
             end : Days, fwd : Nat, from : Nat \union {NoMark}, since : Days]

FreezeTypeOK ==
  /\ clock \in 2 .. (2 * MaxDay + 1) /\ exported \in 0 .. today
  /\ storedDays \in SUBSET Days /\ storedLate \in SUBSET Days
  /\ cursor \in Marks /\ coverageFrom \in Marks /\ tokenFrom \in Marks
  /\ task \in [Writers -> TaskType]

\* The days the history claims.
Covered     == IF cursor = NoMark \/ coverageFrom = NoMark THEN {} ELSE coverageFrom .. cursor
CoveredLate == IF cursor = NoMark \/ tokenFrom = NoMark THEN {} ELSE tokenFrom .. cursor

\* "[coverage_from, cursor] never claims a day whose events are missing"
\* (address_risk_store.go:368): a lookup that says an address was never frozen in
\* the covered days is right, whichever writers ran side by side and wherever
\* they died.
CoveredDaysStored == Covered \subseteq storedDays

\* "so [coverage_from, cursor] stays gap-free per token"
\* (address_risk_store.go:382): the same for the token that joined the query
\* after days had been synced without it.
LateTokenDaysStored == CoveredLate \subseteq storedLate

Archive     == INSTANCE FreezeArchive WITH fetched <- storedDays, covered <- Covered
LateArchive == INSTANCE FreezeArchive WITH fetched <- storedLate, covered <- CoveredLate

\* The table and its watermarks are an archive that only grows: a writer with an
\* old plan never takes back what another has covered, "which keeps a concurrent
\* backfill CLI and service sync from moving either back"
\* (address_risk_store.go:370).
IsArchive == Archive!Spec

\* So are the late token's events and its own coverage start.
IsLateArchive == LateArchive!Spec

\* The hourly sync alone reaches the last exported day, unless it was down so
\* long that the gap needs a backfill.
SyncCatchesUp ==
  <>[](cursor >= exported - 1 \/ today - (cursor + 1) > MaxWindow)
---------------------------------------------------------------------------
(* The inductive invariant behind the safety properties above, for a history *)
(* that is not empty at the start.                                           *)

\* A plan's next batches still touch the covered days, whatever other writers
\* have covered since it was made.
PlanTouches(t) ==
  /\ t.end <= exported
  /\ t.fwd <= cursor + 1
  /\ t.from # NoMark /\ coverageFrom <= t.from /\ t.from <= cursor + 1

\* So does a window on its way to the table, which moves one watermark.
WindowTouches(w) ==
  /\ w.start < w.end /\ w.end <= exported
  /\ \/ w.newFrom = NoMark /\ w.newCursor = w.end - 1 /\ w.start <= cursor + 1
     \/ w.newCursor = NoMark /\ w.newFrom = w.start /\ coverageFrom <= w.end
        /\ w.end <= cursor + 1

TaskTouches(a) ==
  LET t == task[a] IN
  /\ t.pc = "probe" => a = Server /\ t.w.newFrom = NoMark /\ t.w.start <= cursor + 1
  /\ t.pc = "read" => a # Server /\ t.end <= exported
  /\ t.pc = "run" => a # Server /\ PlanTouches(t)
  /\ t.pc \in {"fetch", "store"} => WindowTouches(t.w) /\ (a # Server => PlanTouches(t))
  /\ t.pc = "store" => t.got = t.w.start .. (t.w.end - 1)

FreezeInv ==
  /\ FreezeTypeOK
  /\ cursor # NoMark /\ coverageFrom # NoMark
  /\ coverageFrom <= cursor /\ cursor < exported
  /\ CoveredDaysStored /\ LateTokenDaysStored
  /\ \A a \in Writers : TaskTouches(a)
===========================================================================
