----------------------- MODULE FreezeCoverageProofs -----------------------
(* Proofs about FreezeCoverage for every set of backfills, window, year and *)
(* number of days, for a history that is not empty at the start.            *)
EXTENDS FreezeCoverage, TLAPS

\* The year of a day starts at or before it.
LEMMA YearStartType == \A d \in Nat : YearStart(d) \in Nat /\ YearStart(d) <= d
<1> SUFFICES ASSUME NEW d \in Nat PROVE YearStart(d) \in Nat /\ YearStart(d) <= d
  OBVIOUS
<1>1. PICK y \in Nat \ {0} : y = YearLen BY ConstantsAssumption
<1>2. PICK q \in Nat : q = d \div y BY <1>1
<1>3. q * y \in Nat BY <1>2
<1>4. q * y <= d BY <1>1, <1>2
<1> QED BY <1>1, <1>2, <1>3, <1>4 DEF YearStart

\* The clock and the export watermark stay within the bounded days.
LEMMA ClockDays ==
  ASSUME NEW t \in 2 .. (2 * MaxDay + 1)
  PROVE  DayOf(t) \in Days /\ FinalAt(t) \in Days /\ FinalAt(t) <= DayOf(t)
BY ConstantsAssumption DEF DayOf, FinalAt, Days

\* An idle writer is well typed and promises nothing.
LEMMA IdleType == Idle \in TaskType
BY ConstantsAssumption DEF Idle, NoWindow, TaskType, WindowType, Marks, Days, NoMark

\* A writer whose task does not change keeps touching the covered days while
\* the watermarks only grow.
LEMMA KeepTouching ==
  ASSUME FreezeInv, exported' \in Nat, cursor' \in Nat, coverageFrom' \in Nat,
         exported <= exported', cursor <= cursor', coverageFrom' <= coverageFrom,
         NEW b \in Writers, task'[b] = task[b]
  PROVE  TaskTouches(b)'
<1>1. TaskTouches(b) /\ task[b] \in TaskType BY DEF FreezeInv, FreezeTypeOK
<1>2. exported \in Nat /\ cursor \in Nat /\ coverageFrom \in Nat
  BY ConstantsAssumption DEF FreezeInv, FreezeTypeOK, Marks, Days, today, DayOf
<1> DEFINE t == task[b]
<1>3. t.w.end \in Nat /\ t.w.start \in Nat /\ t.end \in Nat /\ t.fwd \in Nat
      /\ (t.from \in Nat \/ t.from = NoMark)
  BY <1>1 DEF TaskType, WindowType, Days
<1>4. PlanTouches(t) => PlanTouches(t)'
  BY <1>2, <1>3 DEF PlanTouches, NoMark
<1>5. WindowTouches(t.w) => WindowTouches(t.w)'
  BY <1>2, <1>3 DEF WindowTouches
<1>6. t.w.start <= cursor + 1 => t.w.start <= cursor' + 1 BY <1>2, <1>3
<1>7. t.end <= exported => t.end <= exported' BY <1>2, <1>3
<1> QED BY <1>1, <1>4, <1>5, <1>6, <1>7 DEF TaskTouches, PlanTouches, WindowTouches

\* The export watermark and the watermarks of the table are days.
LEMMA InvDays ==
  ASSUME FreezeInv
  PROVE  exported \in Days /\ cursor \in Days /\ coverageFrom \in Days
         /\ coverageFrom <= cursor /\ cursor < exported
<1>1. clock \in 2 .. (2 * MaxDay + 1) /\ exported \in 0 .. DayOf(clock)
  BY DEF FreezeInv, FreezeTypeOK, today
<1>2. DayOf(clock) \in Days BY <1>1, ClockDays
<1> QED BY <1>1, <1>2, ConstantsAssumption DEF FreezeInv, FreezeTypeOK, Marks, Days

\* A step of one writer that leaves the table alone keeps the invariant if it
\* keeps that writer's part.
LEMMA QuietStep ==
  ASSUME FreezeInv, NEW a \in Writers, NEW t \in TaskType,
         task' = [task EXCEPT ![a] = t], UNCHANGED <<clock, exported, db>>, TaskTouches(a)'
  PROVE  FreezeInv'
<1>1. FreezeTypeOK' BY DEF FreezeInv, FreezeTypeOK, db, today
<1>2. exported \in Nat /\ cursor \in Nat /\ coverageFrom \in Nat
  BY ConstantsAssumption DEF FreezeInv, FreezeTypeOK, Marks, Days, today, DayOf
<1>3. ASSUME NEW b \in Writers, b # a PROVE TaskTouches(b)'
  <2>1. task'[b] = task[b] BY <1>3 DEF FreezeInv, FreezeTypeOK
  <2> QED BY <1>2, <2>1, KeepTouching DEF db
<1>4. CoveredDaysStored' /\ LateTokenDaysStored'
  BY DEF FreezeInv, CoveredDaysStored, LateTokenDaysStored, Covered, CoveredLate, db
<1> QED BY <1>1, <1>3, <1>4 DEF FreezeInv, db

\* Where a plan may end: exported days only.
LEMMA SafeEndType ==
  ASSUME FreezeTypeOK, NEW t \in Nat, NEW start \in Int, NEW d \in SafeEnd(t, start)
  PROVE  d \in Int /\ d <= exported
<1>1. FinalAt(t) \in Int /\ DayOf(t) - 1 \in Int BY DEF FinalAt, DayOf
<1>2. CASE FinalAt(t) <= exported
  <2>1. d = FinalAt(t) BY <1>2 DEF SafeEnd
  <2> QED BY <1>1, <1>2, <2>1
<1>3. CASE ~(FinalAt(t) <= exported)
  <2>1. d = DayOf(t) - 1 /\ d <= exported BY <1>3 DEF SafeEnd
  <2> QED BY <1>1, <2>1
<1> QED BY <1>2, <1>3

\* The hourly sync's two planning steps.
LEMMA SyncReadStep == FreezeInv /\ SyncRead => FreezeInv'
<1> SUFFICES ASSUME FreezeInv, SyncRead PROVE FreezeInv'
  OBVIOUS
<1>1. cursor # NoMark /\ cursor \in Days /\ clock \in 2 .. (2 * MaxDay + 1)
  BY DEF FreezeInv, FreezeTypeOK, Marks
<1> DEFINE w == [NoWindow EXCEPT !.start = cursor + 1, !.newFrom = NoMark]
           t == [Idle EXCEPT !.at = clock, !.w = w, !.pc = "probe"]
<1>2. task' = [task EXCEPT ![Server] = t] /\ cursor + 1 < FinalAt(clock)
  BY <1>1 DEF SyncRead, Goto, Complete
<1>3. w \in WindowType /\ w.start = cursor + 1 /\ w.newFrom = NoMark
  <2>1. cursor + 1 \in Days BY <1>1, <1>2, ClockDays, ConstantsAssumption DEF Days
  <2> QED BY <2>1, ConstantsAssumption DEF NoWindow, WindowType, Marks, Days, NoMark
<1>4. t \in TaskType /\ t.pc = "probe" /\ t.w = w
  <2>1. clock \in Nat BY <1>1, ConstantsAssumption
  <2> HIDE DEF w
  <2> QED BY <2>1, <1>3, IdleType DEF Idle, TaskType
<1>5. task'[Server].pc = "probe" /\ task'[Server].w.newFrom = NoMark
      /\ task'[Server].w.start = cursor + 1
  BY <1>2, <1>3, <1>4 DEF FreezeInv, FreezeTypeOK, Writers
<1>6. TaskTouches(Server)'
  <2>1. cursor' = cursor BY DEF SyncRead, db
  <2> QED BY <1>1, <1>5, <2>1 DEF TaskTouches, Days
<1> QED BY <1>2, <1>4, <1>6, QuietStep DEF SyncRead, Writers

LEMMA SyncProbeStep == FreezeInv /\ SyncProbe => FreezeInv'
<1> SUFFICES ASSUME FreezeInv, SyncProbe PROVE FreezeInv'
  OBVIOUS
<1> DEFINE t == task[Server]
<1>1. t \in TaskType /\ TaskTouches(Server) /\ t.pc = "probe"
  BY DEF FreezeInv, FreezeTypeOK, Writers, SyncProbe
<1>2. PICK end \in SafeEnd(t.at, t.w.start) :
        /\ t.w.start < end
        /\ task' = [task EXCEPT ![Server] =
             [t EXCEPT !.w = [t.w EXCEPT !.end = end, !.newCursor = end - 1], !.pc = "fetch"]]
  BY DEF SyncProbe, Goto
<1> DEFINE w == [t.w EXCEPT !.end = end, !.newCursor = end - 1]
           u == [t EXCEPT !.w = w, !.pc = "fetch"]
<1>3. t.at \in Nat /\ t.w.start \in Days /\ t.w \in WindowType
  BY <1>1 DEF TaskType, WindowType
<1>4. end \in Int /\ end <= exported
  <2>1. t.at \in Nat /\ t.w.start \in Int BY <1>3 DEF Days
  <2>2. FreezeTypeOK BY DEF FreezeInv
  <2> QED BY <2>1, <2>2, SafeEndType
<1>5. exported \in Days /\ cursor \in Days
  BY InvDays
<1>6. end \in Nat /\ end - 1 \in Days
  <2> HIDE DEF t
  <2> QED BY <1>2, <1>3, <1>4, <1>5, ConstantsAssumption DEF Days
<1>7. w \in WindowType /\ w.start = t.w.start /\ w.end = end /\ w.newCursor = end - 1
      /\ w.newFrom = t.w.newFrom
  <2> HIDE DEF t
  <2> QED BY <1>3, <1>6 DEF WindowType, Marks
<1>8. u \in TaskType /\ u.pc = "fetch" /\ u.w = w
  <2> HIDE DEF w
  <2> QED BY <1>1, <1>7 DEF TaskType
<1>9. task'[Server] = u BY <1>2 DEF FreezeInv, FreezeTypeOK, Writers
<1>10. TaskTouches(Server)'
  <2>1. /\ task'[Server].pc = "fetch" /\ task'[Server].w.start = t.w.start
        /\ task'[Server].w.end = end /\ task'[Server].w.newCursor = end - 1
        /\ task'[Server].w.newFrom = t.w.newFrom
    BY <1>7, <1>8, <1>9
  <2>2. t.w.newFrom = NoMark /\ t.w.start <= cursor + 1 BY <1>1 DEF TaskTouches
  <2>3. cursor' = cursor /\ exported' = exported BY DEF SyncProbe, db
  <2>4. WindowTouches(task[Server].w)' BY <1>2, <1>4, <2>1, <2>2, <2>3 DEF WindowTouches
  <2> QED BY <2>1, <2>4 DEF TaskTouches
<1> QED BY <1>2, <1>8, <1>10, QuietStep DEF SyncProbe, Writers

\* A backfill's planning steps.
LEMMA BackfillProbeStep ==
  ASSUME FreezeInv, NEW a \in Backfills, NEW since \in Days, BackfillProbe(a, since)
  PROVE  FreezeInv'
<1>1. PICK end \in SafeEnd(clock, NoMark) :
        task' = [task EXCEPT ![a] =
          [Idle EXCEPT !.at = clock, !.end = end, !.since = since, !.pc = "read"]]
  BY DEF BackfillProbe, Goto
<1> DEFINE t == [Idle EXCEPT !.at = clock, !.end = end, !.since = since, !.pc = "read"]
<1>2. clock \in Nat /\ clock \in 2 .. (2 * MaxDay + 1) /\ FreezeTypeOK
  BY ConstantsAssumption DEF FreezeInv, FreezeTypeOK
<1>3. end \in Int /\ end <= exported BY <1>2, SafeEndType DEF NoMark
<1>4. end \in Days
  <2>1. FinalAt(clock) \in Days BY <1>2, ClockDays
  <2>2. CASE FinalAt(clock) <= exported BY <2>1, <2>2 DEF SafeEnd
  <2>3. CASE ~(FinalAt(clock) <= exported)
    <3>1. NoMark < end BY <2>3 DEF SafeEnd
    <3> QED BY <1>3, <3>1, InvDays, ConstantsAssumption DEF NoMark, Days
  <2> QED BY <2>2, <2>3
<1>5. t \in TaskType /\ t.pc = "read" /\ t.end = end
  BY <1>2, <1>4, IdleType DEF Idle, TaskType
<1>6. a \in Writers /\ a # Server BY ConstantsAssumption DEF Writers
<1>7. task'[a].pc = "read" /\ task'[a].end = end BY <1>1, <1>5, <1>6 DEF FreezeInv, FreezeTypeOK
<1>8. exported' = exported BY DEF BackfillProbe
<1>9. TaskTouches(a)' BY <1>3, <1>6, <1>7, <1>8 DEF TaskTouches
<1> QED BY <1>1, <1>5, <1>6, <1>9, QuietStep DEF BackfillProbe

LEMMA BackfillReadStep ==
  ASSUME FreezeInv, NEW a \in Backfills, NEW force \in BOOLEAN, BackfillRead(a, force)
  PROVE  FreezeInv'
<1> DEFINE old  == task[a]
           from == IF force \/ coverageFrom = NoMark THEN cursor + 1 ELSE coverageFrom
           t    == [old EXCEPT !.fwd = cursor + 1, !.from = from, !.pc = "run"]
<1>1. a \in Writers /\ a # Server BY ConstantsAssumption DEF Writers
<1>2. old \in TaskType /\ TaskTouches(a) /\ old.pc = "read"
  BY <1>1 DEF FreezeInv, FreezeTypeOK, BackfillRead
<1>3. cursor # NoMark BY DEF FreezeInv
<1>4. task' = [task EXCEPT ![a] = t] BY <1>3 DEF BackfillRead, Goto
<1>5. from \in Nat /\ coverageFrom <= from /\ from <= cursor + 1 /\ cursor + 1 \in Nat
  BY InvDays, ConstantsAssumption DEF Days
<1>6. t \in TaskType /\ t.pc = "run" /\ t.fwd = cursor + 1 /\ t.from = from /\ t.end = old.end
  <2> HIDE DEF from, old
  <2> QED BY <1>2, <1>5 DEF TaskType
<1>7. task'[a] = t BY <1>1, <1>4 DEF FreezeInv, FreezeTypeOK
<1>8. /\ task'[a].pc = "run" /\ task'[a].fwd = cursor + 1 /\ task'[a].from \in Nat
      /\ coverageFrom <= task'[a].from /\ task'[a].from <= cursor + 1
      /\ task'[a].end <= exported
  BY <1>1, <1>2, <1>5, <1>6, <1>7 DEF TaskTouches
<1>9. UNCHANGED <<exported, cursor, coverageFrom>> BY DEF BackfillRead, db
<1>10. PlanTouches(task[a])' BY <1>5, <1>8, <1>9 DEF PlanTouches, NoMark
<1>11. TaskTouches(a)' BY <1>1, <1>8, <1>10 DEF TaskTouches
<1> QED BY <1>1, <1>4, <1>6, <1>11, QuietStep DEF BackfillRead

\* The next batch of a plan that touches the covered days touches them too.
LEMMA NextBatchTouches ==
  ASSUME FreezeInv, NEW t \in TaskType, PlanTouches(t), MoreForward(t) \/ MoreBackward(t)
  PROVE  NextBatch(t) \in WindowType /\ WindowTouches(NextBatch(t))
<1>1. /\ t.end \in Days /\ t.fwd \in Nat /\ t.from \in Nat /\ t.since \in Days
      /\ t.from # NoMark
  BY DEF TaskType, PlanTouches, NoMark
<1>2. /\ t.end <= exported /\ t.fwd <= cursor + 1
      /\ coverageFrom <= t.from /\ t.from <= cursor + 1
  BY DEF PlanTouches
<1>3. CASE MoreForward(t)
  <2> DEFINE e == ForwardEnd(t)
  <2>1. e \in Nat /\ t.fwd < e /\ e <= t.end
    BY <1>1, <1>3, ConstantsAssumption DEF ForwardEnd, Earlier, MoreForward, Days
  <2>2. NextBatch(t) = [start |-> t.fwd, end |-> e, newFrom |-> NoMark, newCursor |-> e - 1]
    BY <1>1, <1>3 DEF NextBatch
  <2> HIDE DEF e
  <2>3. t.fwd \in Days /\ e - 1 \in Days /\ e <= exported
    BY <1>1, <1>2, <2>1, InvDays, ConstantsAssumption DEF Days
  <2> QED BY <1>1, <1>2, <2>1, <2>2, <2>3 DEF WindowType, WindowTouches, Marks
<1>4. CASE ~MoreForward(t)
  <2> DEFINE s == BackwardStart(t)
  <2>1. t.from - 1 \in Nat BY <1>1, <1>4 DEF MoreBackward, Days
  <2>2. YearStart(t.from - 1) \in Nat /\ YearStart(t.from - 1) <= t.from - 1
    BY <2>1, YearStartType
  <2>3. s \in Nat /\ s < t.from
    BY <1>1, <1>4, <2>2 DEF BackwardStart, Later, MoreBackward, Days
  <2>4. NextBatch(t) = [start |-> s, end |-> t.from, newFrom |-> s, newCursor |-> NoMark]
    BY <1>4 DEF NextBatch
  <2> HIDE DEF s
  <2>5. s \in Days /\ t.from <= exported
    BY <1>1, <1>2, <2>3, InvDays, ConstantsAssumption DEF Days
  <2> QED BY <1>1, <1>2, <2>3, <2>4, <2>5 DEF WindowType, WindowTouches, Marks
<1> QED BY <1>3, <1>4

LEMMA BackfillNextStep ==
  ASSUME FreezeInv, NEW a \in Backfills, BackfillNext(a)
  PROVE  FreezeInv'
<1> DEFINE old == task[a]
           t   == [old EXCEPT !.w = NextBatch(old), !.pc = "fetch"]
<1>1. a \in Writers /\ a # Server BY ConstantsAssumption DEF Writers
<1>2. old \in TaskType /\ TaskTouches(a) /\ old.pc = "run"
  BY <1>1 DEF FreezeInv, FreezeTypeOK, BackfillNext
<1>3. PlanTouches(old) BY <1>2 DEF TaskTouches
<1>4. NextBatch(old) \in WindowType /\ WindowTouches(NextBatch(old))
  BY <1>2, <1>3, NextBatchTouches DEF BackfillNext
<1>5. task' = [task EXCEPT ![a] = t] BY DEF BackfillNext, Goto
<1>6. /\ t \in TaskType /\ t.pc = "fetch" /\ t.w = NextBatch(old)
      /\ t.end = old.end /\ t.fwd = old.fwd /\ t.from = old.from
  <2> HIDE DEF old
  <2> QED BY <1>2, <1>4 DEF TaskType
<1>7. /\ task'[a].pc = "fetch" /\ task'[a].w = NextBatch(old)
      /\ task'[a].end = old.end /\ task'[a].fwd = old.fwd /\ task'[a].from = old.from
  BY <1>1, <1>5, <1>6 DEF FreezeInv, FreezeTypeOK
<1>8. UNCHANGED <<exported, cursor, coverageFrom>> BY DEF BackfillNext, db
<1>9. PlanTouches(task[a])' BY <1>3, <1>7, <1>8 DEF PlanTouches
<1>10. WindowTouches(task[a].w)' BY <1>4, <1>7, <1>8 DEF WindowTouches
<1>11. TaskTouches(a)' BY <1>1, <1>7, <1>9, <1>10 DEF TaskTouches
<1> QED BY <1>1, <1>5, <1>6, <1>11, QuietStep DEF BackfillNext

\* The query of a window that ends at exported days returns all its days.
LEMMA FetchStep ==
  ASSUME FreezeInv, NEW a \in Writers, Fetch(a)
  PROVE  FreezeInv'
<1> DEFINE old == task[a]
           got == {d \in old.w.start .. (old.w.end - 1) : d < exported}
           t   == [old EXCEPT !.got = got, !.pc = "store"]
<1>1. old \in TaskType /\ TaskTouches(a) /\ old.pc = "fetch"
  BY DEF FreezeInv, FreezeTypeOK, Fetch
<1>2. WindowTouches(old.w) /\ (a # Server => PlanTouches(old)) BY <1>1 DEF TaskTouches
<1>3. old.w.start \in Days /\ old.w.end \in Nat BY <1>1 DEF TaskType, WindowType
<1>4. got = old.w.start .. (old.w.end - 1)
  <2>1. old.w.end <= exported BY <1>2 DEF WindowTouches
  <2> HIDE DEF old
  <2> QED BY <1>3, <2>1, InvDays DEF Days
<1>5. got \in SUBSET Days
  <2> HIDE DEF old
  <2> QED BY <1>3, InvDays, ConstantsAssumption DEF Days
<1>6. task' = [task EXCEPT ![a] = t] BY DEF Fetch, Goto
<1>7. /\ t \in TaskType /\ t.pc = "store" /\ t.w = old.w /\ t.got = got
      /\ t.end = old.end /\ t.fwd = old.fwd /\ t.from = old.from
  <2> HIDE DEF old, got
  <2> QED BY <1>1, <1>5 DEF TaskType
<1>8. /\ task'[a].pc = "store" /\ task'[a].w = old.w
      /\ task'[a].got = old.w.start .. (old.w.end - 1)
      /\ task'[a].end = old.end /\ task'[a].fwd = old.fwd /\ task'[a].from = old.from
  BY <1>4, <1>6, <1>7 DEF FreezeInv, FreezeTypeOK
<1>9. UNCHANGED <<exported, cursor, coverageFrom>> BY DEF Fetch, db
<1>10. (a # Server => PlanTouches(task[a]))' BY <1>2, <1>8, <1>9 DEF PlanTouches
<1>11. WindowTouches(task[a].w)' BY <1>2, <1>8, <1>9 DEF WindowTouches
<1>12. TaskTouches(a)' BY <1>8, <1>10, <1>11 DEF TaskTouches
<1> QED BY <1>6, <1>7, <1>12, QuietStep DEF Fetch

\* What a store does to the table: it adds the days s .. e - 1, which touch the
\* covered days, and moves one of the two watermarks over them.
LEMMA StoreMoves ==
  ASSUME FreezeInv, NEW a \in Writers, Store(a)
  PROVE  \E s \in Days, e \in Nat :
           /\ s < e /\ e <= exported
           /\ s = task[a].w.start /\ e = task[a].w.end
           /\ storedDays' = storedDays \union (s .. (e - 1))
           /\ storedLate' = storedLate \union (s .. (e - 1))
           /\ \/ /\ task[a].w.newFrom = NoMark /\ task[a].w.newCursor # NoMark
                 /\ s <= cursor + 1 /\ coverageFrom' = coverageFrom
                 /\ cursor' = Later(cursor, e - 1)
              \/ /\ task[a].w.newFrom # NoMark /\ task[a].w.newCursor = NoMark
                 /\ coverageFrom <= e /\ e <= cursor + 1
                 /\ coverageFrom' = Earlier(coverageFrom, s) /\ cursor' = cursor
           /\ tokenFrom' = IF tokenFrom = NoMark
                            THEN IF e - 1 >= cursor' THEN s ELSE NoMark
                            ELSE IF s < tokenFrom /\ e >= tokenFrom THEN s ELSE tokenFrom
<1> DEFINE t == task[a]
           s == t.w.start
           e == t.w.end
<1>1. t \in TaskType /\ TaskTouches(a) /\ t.pc = "store"
  BY DEF FreezeInv, FreezeTypeOK, Store
<1>2. WindowTouches(t.w) /\ t.got = s .. (e - 1) BY <1>1 DEF TaskTouches
<1>3. s \in Days /\ e \in Nat BY <1>1 DEF TaskType, WindowType
<1>4. InsertWindow(t.w, t.got) BY DEF Store
<1>5. storedDays' = storedDays \union (s .. (e - 1)) /\ storedLate' = storedLate \union (s .. (e - 1))
  BY <1>2, <1>4 DEF InsertWindow
<1>6. tokenFrom' = IF tokenFrom = NoMark
                   THEN IF e - 1 >= cursor' THEN s ELSE NoMark
                   ELSE IF s < tokenFrom /\ e >= tokenFrom THEN s ELSE tokenFrom
  BY <1>4 DEF InsertWindow, TokenFromAfter
<1>7. coverageFrom # NoMark BY DEF FreezeInv
<1>8. CASE t.w.newFrom = NoMark /\ t.w.newCursor = e - 1 /\ s <= cursor + 1
  <2>1. coverageFrom' = coverageFrom /\ cursor' = Later(cursor, e - 1)
    BY <1>4, <1>8 DEF InsertWindow, CursorAfter
  <2>2. s < e /\ e <= exported BY <1>2 DEF WindowTouches
  <2>3. t.w.newCursor # NoMark BY <1>3, <1>8, <2>2 DEF NoMark, Days
  <2> QED BY <1>3, <1>5, <1>6, <1>8, <2>1, <2>2, <2>3
<1>9. CASE t.w.newCursor = NoMark /\ t.w.newFrom = s /\ coverageFrom <= e /\ e <= cursor + 1
  <2>1. s < e /\ e <= exported BY <1>2 DEF WindowTouches
  <2>2. t.w.newFrom # NoMark BY <1>3, <1>9 DEF NoMark, Days
  <2>3. coverageFrom' = Earlier(coverageFrom, s)
    BY <1>4, <1>7, <1>9, <2>2 DEF InsertWindow
  <2>4. cursor' = cursor
    BY <1>4, <1>9, InvDays DEF InsertWindow, CursorAfter, Later, NoMark, Days
  <2> QED BY <1>3, <1>5, <1>6, <1>9, <2>1, <2>2, <2>3, <2>4
<1> QED BY <1>2, <1>8, <1>9 DEF WindowTouches

\* A store keeps every claim, and no day is uncovered by it.
LEMMA StoreKeepsClaims ==
  ASSUME FreezeInv, NEW a \in Writers, Store(a)
  PROVE  /\ FreezeTypeOK' \/ ~(task' \in [Writers -> TaskType])
         /\ cursor' \in Days /\ coverageFrom' \in Days
         /\ cursor <= cursor' /\ coverageFrom' <= coverageFrom /\ cursor' < exported
         /\ tokenFrom' = NoMark \/ tokenFrom' \in Days
         /\ tokenFrom # NoMark => tokenFrom' # NoMark /\ tokenFrom' <= tokenFrom
         /\ CoveredDaysStored' /\ LateTokenDaysStored'
<1>1. PICK s \in Days, e \in Nat :
        /\ s < e /\ e <= exported
        /\ storedDays' = storedDays \union (s .. (e - 1))
        /\ storedLate' = storedLate \union (s .. (e - 1))
        /\ \/ s <= cursor + 1 /\ coverageFrom' = coverageFrom /\ cursor' = Later(cursor, e - 1)
           \/ coverageFrom <= e /\ e <= cursor + 1
              /\ coverageFrom' = Earlier(coverageFrom, s) /\ cursor' = cursor
        /\ tokenFrom' = IF tokenFrom = NoMark
                         THEN IF e - 1 >= cursor' THEN s ELSE NoMark
                         ELSE IF s < tokenFrom /\ e >= tokenFrom THEN s ELSE tokenFrom
  BY StoreMoves
<1>2. /\ exported \in Days /\ cursor \in Days /\ coverageFrom \in Days
      /\ coverageFrom <= cursor /\ cursor < exported
  BY InvDays
<1>3. tokenFrom = NoMark \/ tokenFrom \in Days BY DEF FreezeInv, FreezeTypeOK, Marks
<1>4. /\ cursor' \in Days /\ coverageFrom' \in Days
      /\ cursor <= cursor' /\ coverageFrom' <= coverageFrom /\ cursor' < exported
  BY <1>1, <1>2, ConstantsAssumption DEF Later, Earlier, Days
<1>5. tokenFrom' = NoMark \/ tokenFrom' \in Days BY <1>1, <1>3
<1>6. tokenFrom # NoMark => tokenFrom' # NoMark /\ tokenFrom' <= tokenFrom
  BY <1>1, <1>3, ConstantsAssumption DEF Days, NoMark
<1>7. CoveredDaysStored'
  <2>1. ASSUME NEW d \in Int, coverageFrom' <= d, d <= cursor' PROVE d \in storedDays'
    <3>1. coverageFrom .. cursor \subseteq storedDays
      BY DEF FreezeInv, CoveredDaysStored, Covered
    <3>2. CASE coverageFrom <= d /\ d <= cursor BY <1>1, <1>2, <2>1, <3>1, <3>2 DEF Days
    <3>3. CASE ~(coverageFrom <= d /\ d <= cursor)
      <4>1. s <= d /\ d <= e - 1
        BY <1>1, <1>2, <2>1, <3>3 DEF Later, Earlier, Days
      <4> QED BY <1>1, <2>1, <4>1 DEF Days
    <3> QED BY <3>2, <3>3
  <2> QED BY <1>4, <2>1 DEF CoveredDaysStored, Covered, Days
<1>8. LateTokenDaysStored'
  <2>1. ASSUME NEW d \in Int, tokenFrom' # NoMark, tokenFrom' <= d, d <= cursor'
        PROVE  d \in storedLate'
    <3>1. CASE tokenFrom = NoMark
      <4>1. s <= d /\ d <= e - 1 BY <1>1, <1>4, <2>1, <3>1 DEF Days
      <4> QED BY <1>1, <2>1, <4>1 DEF Days
    <3>2. CASE tokenFrom # NoMark
      <4>1. tokenFrom .. cursor \subseteq storedLate
        BY <1>2, <3>2 DEF FreezeInv, LateTokenDaysStored, CoveredLate, NoMark, Days
      <4>2. CASE tokenFrom <= d /\ d <= cursor
        BY <1>1, <1>2, <1>3, <2>1, <3>2, <4>1, <4>2 DEF Days
      <4>3. CASE ~(tokenFrom <= d /\ d <= cursor)
        <5>1. s <= d /\ d <= e - 1
          BY <1>1, <1>2, <1>3, <2>1, <3>2, <4>3 DEF Later, Earlier, Days
        <5> QED BY <1>1, <2>1, <5>1 DEF Days
      <4> QED BY <4>2, <4>3
    <3> QED BY <3>1, <3>2
  <2> QED BY <1>4, <1>5, <2>1 DEF LateTokenDaysStored, CoveredLate, Days
<1>9. storedDays' \in SUBSET Days /\ storedLate' \in SUBSET Days
  BY <1>1, <1>2, ConstantsAssumption DEF FreezeInv, FreezeTypeOK, Days
<1>10. UNCHANGED <<clock, exported>> BY DEF Store
<1>11. task' \in [Writers -> TaskType] => FreezeTypeOK'
  BY <1>4, <1>5, <1>9, <1>10 DEF FreezeInv, FreezeTypeOK, Marks, today
<1> QED BY <1>4, <1>5, <1>6, <1>7, <1>8, <1>11

LEMMA StoreStep ==
  ASSUME FreezeInv, NEW a \in Writers, Store(a)
  PROVE  FreezeInv'
<1> DEFINE old == task[a]
           fwd  == IF old.w.newCursor = NoMark THEN old.fwd ELSE old.w.end
           from == IF old.w.newFrom = NoMark THEN old.from ELSE old.w.start
           t    == [old EXCEPT !.w = NoWindow, !.got = {}, !.fwd = fwd, !.from = from, !.pc = "run"]
<1>1. old \in TaskType /\ TaskTouches(a) /\ old.pc = "store"
  BY DEF FreezeInv, FreezeTypeOK, Store
<1>2. /\ cursor' \in Days /\ coverageFrom' \in Days
      /\ cursor <= cursor' /\ coverageFrom' <= coverageFrom /\ cursor' < exported
      /\ CoveredDaysStored' /\ LateTokenDaysStored'
      /\ FreezeTypeOK' \/ ~(task' \in [Writers -> TaskType])
  BY StoreKeepsClaims
<1>3. exported' = exported /\ exported \in Days /\ cursor \in Days /\ coverageFrom \in Days
      /\ coverageFrom <= cursor
  BY InvDays DEF Store
<1>4. ASSUME a = Server
      PROVE  task' \in [Writers -> TaskType] /\ TaskTouches(a)'
  <2>1. task' = [task EXCEPT ![a] = Idle] BY <1>4 DEF Store
  <2>2. task' \in [Writers -> TaskType] /\ task'[a] = Idle
    BY <2>1, IdleType DEF FreezeInv, FreezeTypeOK
  <2>3. TaskTouches(a)' BY <2>2 DEF TaskTouches, Idle
  <2> QED BY <2>1, <2>2, <2>3
<1>5. ASSUME a # Server
      PROVE  task' \in [Writers -> TaskType] /\ TaskTouches(a)'
  <2>1. task' = [task EXCEPT ![a] = t] BY <1>5 DEF Store, Goto
  <2>2. old.w.start \in Nat /\ old.w.end \in Nat /\ old.fwd \in Nat
        /\ (old.from \in Nat \/ old.from = NoMark)
    BY <1>1 DEF TaskType, WindowType, Days
  <2>3. fwd \in Nat /\ (from \in Nat \/ from = NoMark) BY <2>2
  <2>4. NoWindow \in WindowType BY IdleType DEF Idle, TaskType
  <2>5. /\ t \in TaskType /\ t.pc = "run" /\ t.end = old.end /\ t.fwd = fwd /\ t.from = from
    <3> HIDE DEF old, fwd, from
    <3> QED BY <1>1, <2>3, <2>4 DEF TaskType
  <2>6. task' \in [Writers -> TaskType] /\ task'[a] = t BY <2>1, <2>5 DEF FreezeInv, FreezeTypeOK
  <2>7. PlanTouches(old) BY <1>1, <1>5 DEF TaskTouches
  <2>8. old.end \in Days BY <1>1 DEF TaskType
  <2>9. fwd <= cursor' + 1 /\ from # NoMark /\ coverageFrom' <= from /\ from <= cursor' + 1
    <3>1. PICK s \in Days, e \in Nat :
            /\ s < e /\ s = old.w.start /\ e = old.w.end
            /\ \/ /\ old.w.newFrom = NoMark /\ old.w.newCursor # NoMark
                  /\ s <= cursor + 1 /\ cursor' = Later(cursor, e - 1)
               \/ /\ old.w.newFrom # NoMark /\ old.w.newCursor = NoMark
                  /\ e <= cursor + 1 /\ coverageFrom' = Earlier(coverageFrom, s)
      BY StoreMoves
    <3> DEFINE f == old.fwd
               g == old.from
    <3>2. /\ f \in Nat /\ g \in Nat /\ f <= cursor + 1
          /\ coverageFrom <= g /\ g <= cursor + 1
      BY <2>2, <2>7 DEF PlanTouches
    <3> HIDE DEF f, g
    <3>3. CASE old.w.newFrom = NoMark /\ old.w.newCursor # NoMark
      <4>1. fwd = e /\ from = g /\ cursor' = Later(cursor, e - 1)
        BY <3>1, <3>3 DEF g
      <4> QED BY <1>2, <1>3, <3>2, <4>1 DEF Later, NoMark, Days
    <3>4. CASE old.w.newFrom # NoMark /\ old.w.newCursor = NoMark
      <4>1. fwd = f /\ from = s /\ e <= cursor + 1 /\ coverageFrom' = Earlier(coverageFrom, s)
        BY <3>1, <3>4 DEF f
      <4>2. coverageFrom' <= s BY <1>3, <4>1 DEF Earlier, Days
      <4> HIDE DEF fwd, from
      <4> QED BY <1>2, <1>3, <3>1, <3>2, <4>1, <4>2 DEF NoMark, Days
    <3> QED BY <3>1, <3>3, <3>4
  <2>10. /\ task'[a].pc = "run" /\ task'[a].end = old.end
         /\ task'[a].fwd = fwd /\ task'[a].from = from
    BY <2>5, <2>6
  <2>11. PlanTouches(task[a])'
    BY <1>3, <2>7, <2>9, <2>10 DEF PlanTouches
  <2>12. TaskTouches(a)' BY <1>5, <2>10, <2>11 DEF TaskTouches
  <2> QED BY <2>1, <2>6, <2>12
<1>6. task' \in [Writers -> TaskType] /\ TaskTouches(a)' /\ (\A b \in Writers : b # a => task'[b] = task[b])
  <2>1. CASE a = Server
    <3>1. \A b \in Writers : b # a => task'[b] = task[b]
      BY <2>1 DEF Store, FreezeInv, FreezeTypeOK
    <3> QED BY <1>4, <2>1, <3>1
  <2>2. CASE a # Server
    <3>1. \A b \in Writers : b # a => task'[b] = task[b]
      BY <2>2 DEF Store, Goto, FreezeInv, FreezeTypeOK
    <3> QED BY <1>5, <2>2, <3>1
  <2> QED BY <2>1, <2>2
<1>7. ASSUME NEW b \in Writers PROVE TaskTouches(b)'
  <2>1. CASE b = a BY <1>6, <2>1
  <2>2. CASE b # a
    <3>1. exported' \in Nat /\ cursor' \in Nat /\ coverageFrom' \in Nat
          /\ exported <= exported' /\ cursor <= cursor' /\ coverageFrom' <= coverageFrom
      BY <1>2, <1>3 DEF Days
    <3> QED BY <1>6, <2>2, <3>1, KeepTouching
  <2> QED BY <2>1, <2>2
<1>8. cursor' # NoMark /\ coverageFrom' # NoMark /\ coverageFrom' <= cursor' /\ cursor' < exported'
  BY <1>2, <1>3 DEF NoMark, Days
<1> QED BY <1>2, <1>6, <1>7, <1>8 DEF FreezeInv

LEMMA StopStep ==
  ASSUME FreezeInv, NEW a \in Writers, Stop(a)
  PROVE  FreezeInv'
<1>1. task' = [task EXCEPT ![a] = Idle] BY DEF Stop
<1>2. task'[a] = Idle BY <1>1 DEF FreezeInv, FreezeTypeOK
<1>3. TaskTouches(a)' BY <1>2 DEF TaskTouches, Idle
<1> QED BY <1>1, <1>3, IdleType, QuietStep DEF Stop

\* The environment: time and the export only move on.
LEMMA ClockStep ==
  ASSUME FreezeInv, Advance \/ Export
  PROVE  FreezeInv'
<1>1. UNCHANGED <<storedDays, storedLate, cursor, coverageFrom, tokenFrom, task>>
  BY DEF Advance, Export, db
<1>2. exported \in Nat /\ clock \in 2 .. (2 * MaxDay + 1) BY InvDays DEF Days, FreezeInv, FreezeTypeOK
<1>3. /\ clock' \in 2 .. (2 * MaxDay + 1) /\ exported' \in 0 .. DayOf(clock')
      /\ exported <= exported'
  <2>1. CASE Advance
    <3>1. exported \in 0 .. DayOf(clock) /\ exported' = exported /\ clock' = clock + 1
      BY <2>1 DEF FreezeInv, FreezeTypeOK, today, Advance
    <3>2. DayOf(clock) <= DayOf(clock') /\ DayOf(clock') \in Int /\ DayOf(clock) \in Int
      BY <1>2, <3>1 DEF DayOf
    <3>3. clock' \in 2 .. (2 * MaxDay + 1)
      BY <1>2, <2>1, ConstantsAssumption DEF Advance
    <3> QED BY <3>1, <3>2, <3>3
  <2>2. CASE Export
    <3>1. clock' = clock /\ exported' \in (exported + 1) .. FinalAt(clock)
      BY <2>2 DEF Export
    <3>2. FinalAt(clock) <= DayOf(clock) /\ FinalAt(clock) \in Int /\ DayOf(clock) \in Int
      BY <1>2, ClockDays DEF Days
    <3> QED BY <1>2, <3>1, <3>2
  <2> QED BY <2>1, <2>2
<1>4. FreezeTypeOK' BY <1>1, <1>3 DEF FreezeInv, FreezeTypeOK, today
<1>5. cursor \in Nat /\ coverageFrom \in Nat /\ cursor < exported'
  BY <1>2, <1>3, InvDays DEF Days
<1>6. ASSUME NEW b \in Writers PROVE TaskTouches(b)'
  BY <1>1, <1>2, <1>3, <1>5, KeepTouching
<1>7. CoveredDaysStored' /\ LateTokenDaysStored'
  BY <1>1 DEF FreezeInv, CoveredDaysStored, LateTokenDaysStored, Covered, CoveredLate
<1> QED BY <1>1, <1>4, <1>5, <1>6, <1>7 DEF FreezeInv
---------------------------------------------------------------------------
(* The invariant *)

\* A history that starts with some covered days starts well.
LEMMA InitHolds == ~ColdStart /\ FreezeInit => FreezeInv
<1> SUFFICES ASSUME ~ColdStart, FreezeInit PROVE FreezeInv
  OBVIOUS
<1>1. clock \in 3 .. (2 * MaxDay + 1) /\ clock \in 2 .. (2 * MaxDay + 1)
  BY ConstantsAssumption DEF FreezeInit
<1>2. exported \in Days /\ exported <= DayOf(clock)
  <2>1. FinalAt(clock) \in Days /\ FinalAt(clock) <= DayOf(clock) /\ DayOf(clock) \in Days
    BY <1>1, ClockDays
  <2>2. DayOf(clock) - 1 \in Days BY <1>1, <2>1, ConstantsAssumption DEF DayOf, Days
  <2> QED BY <2>1, <2>2 DEF FreezeInit, Days, today
<1>3. /\ cursor \in Days /\ coverageFrom \in Days
      /\ coverageFrom <= cursor /\ cursor < exported
  BY <1>2, ConstantsAssumption DEF FreezeInit, Days
<1>4. FreezeTypeOK
  <2>1. DayOf(clock) \in Int BY <1>1 DEF DayOf
  <2>2. exported \in 0 .. DayOf(clock) BY <1>2, <2>1 DEF Days
  <2>3. storedDays = coverageFrom .. cursor BY DEF FreezeInit
  <2>4. storedDays \in SUBSET Days BY <1>3, <2>3, ConstantsAssumption DEF Days
  <2>5. task \in [Writers -> TaskType] BY IdleType DEF FreezeInit
  <2> QED BY <1>1, <1>3, <2>2, <2>4, <2>5 DEF FreezeInit, FreezeTypeOK, Marks, today
<1>5. cursor # NoMark /\ coverageFrom # NoMark BY <1>3 DEF NoMark, Days
<1>6. CoveredDaysStored /\ LateTokenDaysStored
  BY DEF FreezeInit, CoveredDaysStored, LateTokenDaysStored, Covered, CoveredLate
<1>7. ASSUME NEW b \in Writers PROVE TaskTouches(b)
  BY DEF FreezeInit, TaskTouches, Idle
<1> QED BY <1>3, <1>4, <1>5, <1>6, <1>7 DEF FreezeInv

LEMMA NextHolds == FreezeInv /\ [FreezeNext]_freezeVars => FreezeInv'
<1> SUFFICES ASSUME FreezeInv, [FreezeNext]_freezeVars PROVE FreezeInv'
  OBVIOUS
<1>1. CASE SyncRead BY <1>1, SyncReadStep
<1>2. CASE SyncProbe BY <1>2, SyncProbeStep
<1>3. ASSUME NEW a \in Backfills, NEW since \in Days, BackfillProbe(a, since) PROVE FreezeInv'
  BY <1>3, BackfillProbeStep
<1>4. ASSUME NEW a \in Backfills, NEW force \in BOOLEAN, BackfillRead(a, force) PROVE FreezeInv'
  BY <1>4, BackfillReadStep
<1>5. ASSUME NEW a \in Backfills, BackfillNext(a) PROVE FreezeInv'
  BY <1>5, BackfillNextStep
<1>6. ASSUME NEW a \in Writers, Fetch(a) PROVE FreezeInv' BY <1>6, FetchStep
<1>7. ASSUME NEW a \in Writers, Store(a) PROVE FreezeInv' BY <1>7, StoreStep
<1>8. ASSUME NEW a \in Writers, Stop(a) PROVE FreezeInv' BY <1>8, StopStep
<1>9. CASE Advance BY <1>9, ClockStep
<1>10. CASE Export BY <1>10, ClockStep
<1>11. CASE UNCHANGED freezeVars
  <2>1. FreezeTypeOK' BY <1>11 DEF FreezeInv, FreezeTypeOK, freezeVars, today
  <2>2. exported \in Nat /\ cursor \in Nat /\ coverageFrom \in Nat BY InvDays DEF Days
  <2>3. ASSUME NEW b \in Writers PROVE TaskTouches(b)'
    BY <1>11, <2>2, KeepTouching DEF freezeVars
  <2>4. CoveredDaysStored' /\ LateTokenDaysStored'
    BY <1>11 DEF FreezeInv, CoveredDaysStored, LateTokenDaysStored, Covered, CoveredLate, freezeVars
  <2> QED BY <1>11, <2>1, <2>3, <2>4 DEF FreezeInv, freezeVars
<1> QED BY <1>1, <1>2, <1>3, <1>4, <1>5, <1>6, <1>7, <1>8, <1>9, <1>10, <1>11 DEF FreezeNext

LEMMA Invariance == ASSUME ~ColdStart PROVE FreezeSpec => []FreezeInv
<1>1. FreezeInit => FreezeInv BY InitHolds
<1> QED BY <1>1, NextHolds, PTL DEF FreezeSpec
---------------------------------------------------------------------------
(* The theorems *)

\* Every variable keeps its type, whatever the writers do.
THEOREM TypeCorrect == ASSUME ~ColdStart PROVE FreezeSpec => []FreezeTypeOK
<1>1. FreezeInv => FreezeTypeOK BY DEF FreezeInv
<1> QED BY <1>1, Invariance, PTL

\* The covered days are in the events table, for any number of backfills, any
\* window and any year length: a lookup of a covered day is right.
THEOREM DaysStored == ASSUME ~ColdStart PROVE FreezeSpec => []CoveredDaysStored
<1>1. FreezeInv => CoveredDaysStored BY DEF FreezeInv
<1> QED BY <1>1, Invariance, PTL

\* So are the late token's: its own coverage start never runs ahead of the days
\* fetched since it joined the query.
THEOREM LateDaysStored == ASSUME ~ColdStart PROVE FreezeSpec => []LateTokenDaysStored
<1>1. FreezeInv => LateTokenDaysStored BY DEF FreezeInv
<1> QED BY <1>1, Invariance, PTL

\* A step leaves the table and its watermarks alone, or it is a store.
LEMMA OnlyStoreMoves ==
  ASSUME [FreezeNext]_freezeVars
  PROVE  UNCHANGED db \/ \E a \in Writers : Store(a)
BY DEF FreezeNext, freezeVars, db, SyncRead, SyncProbe, BackfillProbe, BackfillRead, BackfillNext,
       Fetch, Stop, Advance, Export

\* Stores only add days, and no watermark takes back what another writer covered.
LEMMA StoreExtends ==
  ASSUME FreezeInv, NEW a \in Writers, Store(a)
  PROVE  Archive!Extend /\ LateArchive!Extend
<1>1. /\ cursor' \in Days /\ coverageFrom' \in Days
      /\ cursor <= cursor' /\ coverageFrom' <= coverageFrom
      /\ tokenFrom' = NoMark \/ tokenFrom' \in Days
      /\ tokenFrom # NoMark => tokenFrom' # NoMark /\ tokenFrom' <= tokenFrom
      /\ CoveredDaysStored' /\ LateTokenDaysStored'
  BY StoreKeepsClaims
<1>2. cursor \in Days /\ coverageFrom \in Days /\ (tokenFrom = NoMark \/ tokenFrom \in Days)
  BY InvDays DEF FreezeInv, FreezeTypeOK, Marks
<1>3. storedDays \subseteq storedDays' /\ storedLate \subseteq storedLate'
  BY DEF Store, InsertWindow
<1>4. Covered \subseteq Covered'
  BY <1>1, <1>2 DEF Covered, NoMark, Days
<1>5. CoveredLate \subseteq CoveredLate'
  BY <1>1, <1>2 DEF CoveredLate, NoMark, Days
<1> QED BY <1>1, <1>3, <1>4, <1>5 DEF Archive!Extend, LateArchive!Extend, Archive!Honest,
      LateArchive!Honest, CoveredDaysStored, LateTokenDaysStored

\* The table with its watermarks implements the archive that only grows: no
\* interleaving of the sync with backfills, and no writer's death, uncovers a day.
THEOREM ImplementsArchive == ASSUME ~ColdStart PROVE FreezeSpec => IsArchive
<1>1. FreezeInit => Archive!Init
  BY InitHolds DEF FreezeInv, CoveredDaysStored, Archive!Init, Archive!Honest
<1>2. FreezeInv /\ [FreezeNext]_freezeVars => [Archive!Extend]_<<storedDays, Covered>>
  BY OnlyStoreMoves, StoreExtends DEF db, Covered
<1> QED BY <1>1, <1>2, Invariance, PTL DEF FreezeSpec, IsArchive, Archive!Spec

\* The same for the late token.
THEOREM ImplementsLateArchive == ASSUME ~ColdStart PROVE FreezeSpec => IsLateArchive
<1>1. FreezeInit => LateArchive!Init
  BY InitHolds DEF FreezeInv, LateTokenDaysStored, LateArchive!Init, LateArchive!Honest
<1>2. FreezeInv /\ [FreezeNext]_freezeVars => [LateArchive!Extend]_<<storedLate, CoveredLate>>
  BY OnlyStoreMoves, StoreExtends DEF db, CoveredLate
<1> QED BY <1>1, <1>2, Invariance, PTL DEF FreezeSpec, IsLateArchive, LateArchive!Spec
===========================================================================
