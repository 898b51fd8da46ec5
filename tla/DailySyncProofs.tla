-------------------------- MODULE DailySyncProofs --------------------------
(***************************************************************************)
(* A daily job.  DailySync, for every cadence, window, back-off and limit;  *)
(* and RunSlots, for every number of requests and every cooldown: a job has *)
(* one run at a time, and none after the server has waited.                 *)
(***************************************************************************)
EXTENDS DailySync, RunSlots, FiniteSetTheorems, TLAPS

\* Division by a day's length is monotonic.
LEMMA DivMonotonic ==
  ASSUME NEW a \in Int, NEW b \in Int, a <= b
  PROVE  a \div DayLen \in Int /\ b \div DayLen \in Int /\ a \div DayLen <= b \div DayLen
<1>1. PICK d \in Nat \ {0} : d = DayLen BY ConstantsAssumption
<1>2. PICK p \in Int : p = a \div d BY <1>1
<1>3. PICK q \in Int : q = b \div d BY <1>1
<1>4. d * p <= a /\ a < d * (p + 1) BY <1>1, <1>2
<1>5. d * q <= b /\ b < d * (q + 1) BY <1>1, <1>3
<1>6. ASSUME q < p PROVE FALSE
  <2>1. q + 1 <= p BY <1>6
  <2>2. d * (q + 1) <= d * p BY <1>1, <2>1
  <2> QED BY <1>1, <1>4, <1>5, <2>2
<1> QED BY <1>1, <1>2, <1>3, <1>6

LEMMA LastDayType == MaxTime \div DayLen \in Int
<1>1. MaxTime \in Int /\ MaxTime <= MaxTime BY ConstantsAssumption
<1> QED BY <1>1, DivMonotonic

\* The days of the model.
LEMMA Calendar ==
  ASSUME NEW t \in DayLen .. MaxTime
  PROVE  /\ t \div DayLen \in 1 .. (MaxTime \div DayLen)
         /\ t \div DayLen \in Days /\ 0 \in Days /\ t \in Hours
         /\ Candidate(t) \in Int /\ Candidate(t) <= t \div DayLen
<1>1. DayLen \div DayLen = 1 BY ConstantsAssumption
<1>2. DayLen \in Int /\ MaxTime \in Int /\ t \in Int /\ DayLen <= t /\ t <= MaxTime
  BY ConstantsAssumption
<1>3. /\ t \div DayLen \in Int /\ MaxTime \div DayLen \in Int
      /\ 1 <= t \div DayLen /\ t \div DayLen <= MaxTime \div DayLen
  BY <1>1, <1>2, DivMonotonic
<1>4. Candidate(t) \in Int /\ Candidate(t) <= t \div DayLen
  <2>1. PICK q \in Int : q = t \div DayLen BY <1>3
  <2> QED BY <2>1 DEF Candidate
<1>5. t \in Hours BY <1>2, ConstantsAssumption DEF Hours
<1> QED BY <1>3, <1>4, <1>5, ConstantsAssumption DEF Days

\* An idle job is well typed.
LEMMA IdleType == ASSUME TypeOK PROVE Idle \in TaskType /\ today \in Days /\ today >= 1
<1>1. clock \in DayLen .. MaxTime BY DEF TypeOK
<1>2. 0 \in Days /\ today \in Days /\ today >= 1 BY <1>1, Calendar DEF today
<1>3. 0 \in Hours BY ConstantsAssumption DEF Hours
<1>4. <<>> \in Seq(Hours) OBVIOUS
<1> QED BY <1>2, <1>3, <1>4 DEF Idle, TaskType, Triggers

\* Counting the failures of a window, with one more at the end.
LEMMA CountType ==
  ASSUME NEW fs \in Seq(Hours), NEW t \in Int
  PROVE  IsFiniteSet(Recent(fs, t)) /\ Cardinality(Recent(fs, t)) \in Nat
<1>1. Recent(fs, t) \in SUBSET (1 .. Len(fs)) BY DEF Recent
<1>2. IsFiniteSet(1 .. Len(fs)) BY FS_Interval
<1>3. IsFiniteSet(Recent(fs, t)) BY <1>1, <1>2, FS_Subset
<1> QED BY <1>3, FS_CardinalityType

LEMMA CountAppend ==
  ASSUME NEW fs \in Seq(Hours), NEW f \in Hours, NEW t \in Int
  PROVE  Cardinality(Recent(Append(fs, f), t))
           = Cardinality(Recent(fs, t)) + (IF InWindow(f, t) THEN 1 ELSE 0)
<1> DEFINE n == Len(fs) + 1
<1>1. n \notin Recent(fs, t) BY DEF Recent
<1>2. CASE InWindow(f, t)
  <2>1. Recent(Append(fs, f), t) = Recent(fs, t) \cup {n} BY <1>2 DEF Recent, InWindow
  <2>2. Cardinality(Recent(fs, t) \cup {n}) = Cardinality(Recent(fs, t)) + 1
    BY <1>1, CountType, FS_AddElement
  <2> QED BY <1>2, <2>1, <2>2
<1>3. CASE ~InWindow(f, t)
  <2>1. Recent(Append(fs, f), t) = Recent(fs, t) BY <1>3 DEF Recent, InWindow
  <2> QED BY <1>3, <2>1, CountType
<1> QED BY <1>2, <1>3

LEMMA CountNone == ASSUME NEW t PROVE Cardinality(Recent(<<>>, t)) = 0
<1>1. Recent(<<>>, t) = {} BY DEF Recent
<1> QED BY <1>1, FS_EmptySet

\* The counted failures are the recorded ones of the window.
LEMMA ActiveIsRecent == \A fs, t : Active(fs, t) = Recent(fs, t)
BY DEF Active, Recent

\* A delay is a number of hours.
LEMMA DelayTypes ==
  ASSUME TypeOK
  PROVE  /\ Smaller(unbilled + 1, 6) \in 1 .. 6
         /\ UnbilledBackoff(Smaller(unbilled + 1, 6)) \in Nat
         /\ BackoffFor(Cardinality(Active(failures, task.at))) \in Nat
         /\ Cardinality(Active(failures, task.at)) \in Nat
<1>1. unbilled \in 0 .. 6 BY DEF TypeOK
<1>2. Smaller(unbilled + 1, 6) \in 1 .. 6 BY <1>1 DEF Smaller
<1>3. \A n \in 1 .. 6 : UnbilledBackoff(n) \in Nat
  <2>1. DayLen \in Nat BY ConstantsAssumption
  <2> QED BY <2>1 DEF UnbilledBackoff, Smaller
<1>4. task.at \in Int /\ failures \in Seq(Hours)
  BY ConstantsAssumption DEF TypeOK, TaskType, Hours
<1>5. Cardinality(Active(failures, task.at)) \in Nat
  BY <1>4, CountType, ActiveIsRecent
<1>6. \A n \in Nat : BackoffFor(n) \in Nat
  <2> SUFFICES ASSUME NEW n \in Nat PROVE BackoffFor(n) \in Nat
    OBVIOUS
  <2> DEFINE k == Larger(1, Smaller(n, Len(Backoff)))
  <2>1. k \in 1 .. Len(Backoff) BY ConstantsAssumption DEF Larger, Smaller
  <2>2. BackoffFor(n) = Backoff[k] BY DEF BackoffFor
  <2> HIDE DEF k
  <2> QED BY <2>1, <2>2, ConstantsAssumption
<1> QED BY <1>2, <1>3, <1>5, <1>6

\* The steps that only move the run on, or end it.
LEMMA TypeOfPc ==
  ASSUME TypeOK,
         NEW place \in {"plan", "query", "store", "clear", "record", "append", "decide", "stop"},
         NEW t \in TaskType
  PROVE  [t EXCEPT !.pc = place] \in TaskType
BY DEF TaskType

\* The start of a run is a day, and the day it resumes at is not over.
LEMMA BeginType ==
  ASSUME TypeOK, NEW tr \in Triggers, Begin(tr)
  PROVE  TypeOK'
<1>1. clock \in DayLen .. MaxTime BY DEF TypeOK
<1>2. today \in Days /\ today >= 1 /\ Idle \in TaskType BY IdleType
<1>3. clock \in Hours /\ Candidate(clock) \in Int /\ Candidate(clock) <= today
  BY <1>1, Calendar DEF today
<1>4. task' \in TaskType
  <2>1. CASE UNCHANGED task BY <2>1 DEF TypeOK
  <2>2. CASE ~UNCHANGED task
    <3> DEFINE new == IF cursor = None THEN StartDate ELSE None
               t == [Idle EXCEPT !.trigger = tr, !.at = clock, !.start = StartDate,
                                 !.newFrom = new]
    <3>1. task' = [t EXCEPT !.pc = "plan"] /\ MayBeDue(tr) BY <2>2 DEF Begin, Goto
    <3>2. StartDate \in Days
      <4>1. CASE cursor = None
        BY <1>2, <4>1, ConstantsAssumption DEF StartDate, Days
      <4>2. CASE cursor # None
        <5>1. cursor \in Days BY <4>2 DEF TypeOK
        <5>2. cursor + 1 < Candidate(clock) BY <3>1, <4>2 DEF MayBeDue
        <5>3. PICK m \in Int : m = MaxTime \div DayLen BY LastDayType
        <5>4. cursor \in Int /\ 1 - InitialDays <= cursor /\ today <= m
          BY <5>1, <5>3, <1>2, ConstantsAssumption DEF Days
        <5>5. today \in Int BY <1>2 DEF Days
        <5> QED BY <1>3, <4>2, <5>2, <5>3, <5>4, <5>5, ConstantsAssumption DEF StartDate, Days
      <4> QED BY <4>1, <4>2
    <3>3. new \in Days \cup {None} BY <3>2
    <3>4. t \in TaskType
      <4> HIDE DEF new
      <4> QED BY <1>2, <1>3, <3>2, <3>3 DEF TaskType
    <3> QED BY <3>1, <3>4, TypeOfPc
  <2> QED BY <2>1, <2>2
<1>5. retryAfter' \in Nat BY DEF Begin, TypeOK
<1>6. ticked' \in -1 .. clock
  <2>1. ticked' \in {ticked, clock}
    BY DEF Begin
  <2>2. clock \in -1 .. clock BY <1>1, ConstantsAssumption
  <2> QED BY <2>1, <2>2 DEF TypeOK
<1> QED BY <1>4, <1>5, <1>6 DEF Begin, TypeOK, db, today

\* A window is made of days.
LEMMA WindowType ==
  ASSUME TypeOK, NEW end \in SafeEnd(task.at, task.start), NEW e \in WindowEnd(task, end),
         task.at \in DayLen .. MaxTime
  PROVE  e \in Days /\ task.start < e
<1>1. /\ task.at \div DayLen \in Days
      /\ Candidate(task.at) \in Int /\ Candidate(task.at) <= task.at \div DayLen
  BY Calendar
<1>2. PICK q \in Int : q = task.at \div DayLen BY <1>1 DEF Days
<1>3. end \in Int /\ end <= q BY <1>1, <1>2 DEF SafeEnd
<1>4. PICK m \in Int : m = MaxTime \div DayLen BY LastDayType
<1>5. q <= m /\ task.start \in Int /\ 1 - InitialDays <= task.start
  BY <1>1, <1>2, <1>4, ConstantsAssumption DEF TypeOK, TaskType, Days
<1>6. e = Smaller(end, task.start + MaxWindow) /\ task.start < end BY DEF WindowEnd
<1>7. e \in Int /\ e <= end /\ task.start < e
  BY <1>3, <1>5, <1>6, ConstantsAssumption DEF Smaller
<1> QED BY <1>3, <1>4, <1>5, <1>7, ConstantsAssumption DEF Days

\* When the run that plans began.
LEMMA PlanAt ==
  ASSUME TypeOK, TaskContinues, Plan
  PROVE  task.at \in DayLen .. MaxTime
<1>1. DayLen \in Nat /\ MaxTime \in Nat /\ clock \in DayLen .. MaxTime
  BY ConstantsAssumption DEF TypeOK
<1>2. task.at \in DayLen .. clock BY DEF Plan, TaskContinues
<1> QED BY <1>1, <1>2

LEMMA MemoryType ==
  ASSUME TypeOK, retryAfter' \in Nat, unbilled' \in 0 .. 6, task' \in TaskType,
         UNCHANGED <<clock, exported, stored, cursor, coverageFrom, failures,
                     stopped, ticked, billed, due, resumed, crashes>>
  PROVE  TypeOK'
BY DEF TypeOK, today

LEMMA QueryType ==
  ASSUME TypeOK, QuerySucceeds
  PROVE  TypeOK'
<1>1. task' \in TaskType BY TypeOfPc DEF TypeOK, QuerySucceeds, Goto
<1> QED BY <1>1 DEF QuerySucceeds, TypeOK, db, memory, history, today

\* Every step keeps the types.
LEMMA TypeStep == IInv /\ [Next]_vars => TypeOK'
<1> SUFFICES ASSUME IInv, [Next]_vars PROVE TypeOK'
  OBVIOUS
<1> USE DEF IInv
<1>1. Idle \in TaskType /\ <<>> \in Seq(Hours) BY IdleType
<1>2. clock \in DayLen .. MaxTime /\ task \in TaskType BY DEF TypeOK
<1>3. task.at \in Hours /\ failures \in Seq(Hours) /\ billed \in Seq(Hours)
  BY <1>2 DEF TypeOK, TaskType
<1>4. CASE \E tr \in Triggers : Begin(tr) BY <1>4, BeginType
<1>5. CASE Plan
  <2>1. PICK end \in SafeEnd(task.at, task.start) : \E e \in WindowEnd(task, end) :
          Goto("query", [task EXCEPT !.end = e])
    BY <1>5 DEF Plan
  <2>2. PICK e \in WindowEnd(task, end) : Goto("query", [task EXCEPT !.end = e]) BY <2>1
  <2>3. e \in Days
    <3>1. task.at \in DayLen .. MaxTime BY <1>5, PlanAt
    <3> QED BY <2>2, <3>1, WindowType
  <2>4. [task EXCEPT !.end = e] \in TaskType BY <1>2, <2>3 DEF TaskType
  <2>5. task' \in TaskType BY <2>2, <2>4, TypeOfPc DEF Goto
  <2> QED BY <1>5, <2>5 DEF Plan, TypeOK, db, memory, history, today
<1>6. CASE PlanIsEmpty
  BY <1>1, <1>6 DEF PlanIsEmpty, End, TypeOK, db, memory, history, today
<1>7. CASE FailUnbilled
  <2>1. retryAfter' \in Nat /\ unbilled' \in 0 .. 6
    <3>1. unbilled' \in 1 .. 6 /\ UnbilledBackoff(unbilled') \in Nat
      BY <1>7, DelayTypes DEF FailUnbilled, UnbilledFailure
    <3>2. task.at \in Nat BY <1>3, ConstantsAssumption DEF Hours
    <3>3. retryAfter' = task.at + UnbilledBackoff(unbilled') BY <1>7 DEF FailUnbilled, UnbilledFailure
    <3> QED BY <3>1, <3>2, <3>3
  <2>2. task' = Idle /\ UNCHANGED <<clock, exported, stored, cursor, coverageFrom, failures,
                                     stopped, ticked, billed, due, resumed, crashes>>
    BY <1>7 DEF FailUnbilled, End, db, history
  <2>3. TypeOK /\ task' \in TaskType BY <1>1, <2>2
  <2> HIDE DEF IInv
  <2> QED BY <2>1, <2>2, <2>3, MemoryType
<1>8. CASE QuerySucceeds BY <1>8, QueryType
<1>9. CASE FailBilled
  BY <1>2, <1>3, <1>9, TypeOfPc DEF FailBilled, Goto, TypeOK, db, memory, today
<1>10. CASE Store
  <2>1. task.start < task.end /\ task.start \in Days /\ task.end \in Days
        /\ task.newFrom \in Days \cup {None}
    BY <1>2, <1>10 DEF Store, TaskContinues, TaskType
  <2>2. PICK m \in Int : m = MaxTime \div DayLen BY LastDayType
  <2>3. task.end - 1 \in Days /\ task.start .. (task.end - 1) \subseteq Days
    BY <2>1, <2>2, ConstantsAssumption DEF Days
  <2> QED BY <1>2, <1>10, <2>1, <2>3, TypeOfPc
          DEF Store, LastDay, Goto, TypeOK, memory, history, today
<1>11. CASE Succeed
  <2>1. unbilled' \in 0 .. 6 /\ due' \in Nat BY <1>11 DEF Succeed
  <2> QED BY <1>1, <1>11, <2>1 DEF Succeed, Clear, End, TypeOK, today
<1>12. CASE ReadFailures
  <2>1. [task EXCEPT !.read = failures] \in TaskType BY <1>2, <1>3 DEF TaskType
  <2> QED BY <1>12, <2>1, TypeOfPc DEF ReadFailures, Goto, TypeOK, db, memory, history, today
<1>13. CASE WriteFailures
  <2>1. [task EXCEPT !.read = <<>>] \in TaskType /\ task.read \in Seq(Hours)
    BY <1>1, <1>2 DEF TaskType
  <2>2. Append(task.read, task.at) \in Seq(Hours) BY <1>3, <2>1
  <2> QED BY <1>13, <2>1, <2>2, TypeOfPc
          DEF WriteFailures, Goto, TypeOK, memory, history, today
<1>14. CASE Decide
  <2>1. /\ task' \in TaskType /\ retryAfter' \in Nat /\ due' \in Nat
    <3>1. [task EXCEPT !.pc = "stop"] \in TaskType BY <1>2, TypeOfPc
    <3>2. task.at \in Nat BY <1>3, ConstantsAssumption DEF Hours
    <3>3. \A n \in Nat : task.at + n \in Nat BY <3>2
    <3>4. task.at + BackoffFor(Cardinality(Active(failures, task.at))) \in Nat
      BY <3>3, DelayTypes
    <3> QED BY <1>1, <1>14, <3>1, <3>2, <3>4 DEF Decide, Goto, End, TypeOK
  <2> QED BY <1>14, <2>1 DEF Decide, TypeOK, db, today
<1>15. CASE Stop
  BY <1>1, <1>15 DEF Stop, End, TypeOK, memory, history, today
<1>16. CASE Resume
  BY <1>1, <1>16 DEF Resume, Clear, TypeOK, memory, today
<1>17. CASE Crash
  <2>1. -1 \in -1 .. clock BY <1>2, ConstantsAssumption
  <2> QED BY <1>1, <1>17, <2>1, ConstantsAssumption DEF Crash, End, TypeOK, db, today
<1>18. CASE Advance
  <2>1. clock' \in DayLen .. MaxTime /\ clock <= clock' /\ clock \in Int /\ clock' \in Int
    BY <1>2, <1>18, ConstantsAssumption DEF Advance
  <2>2. exported' \in -1 .. today'
    <3>1. today \in Int /\ today' \in Int /\ today <= today' BY <2>1, DivMonotonic DEF today
    <3> QED BY <1>18, <3>1 DEF Advance, TypeOK
  <2>3. ticked' \in -1 .. clock'
    BY <1>18, <2>1 DEF Advance, TypeOK
  <2> QED BY <1>18, <2>1, <2>2, <2>3 DEF Advance, TypeOK, db, memory, history
<1>19. CASE Outlast
  BY <1>19 DEF Outlast, TypeOK, db, today
<1>20. CASE Export
  <2>1. clock \in Int /\ clock - Slack \in Int /\ clock - Slack <= clock
    BY <1>2, ConstantsAssumption
  <2>2. (clock - Slack) \div DayLen \in Int /\ today \in Int
        /\ (clock - Slack) \div DayLen <= today
    BY <2>1, DivMonotonic DEF today
  <2>3. exported' \in -1 .. today BY <1>20, <2>2 DEF Export, TypeOK
  <2> QED BY <1>20, <2>3 DEF Export, TypeOK, db, memory, history, today
<1>21. CASE UNCHANGED vars
  BY <1>21 DEF vars, TypeOK, db, memory, history, today
<1> QED BY <1>4, <1>5, <1>6, <1>7, <1>8, <1>9, <1>10, <1>11, <1>12, <1>13, <1>14, <1>15,
           <1>16, <1>17, <1>18, <1>19, <1>20, <1>21 DEF Next

\* Every step keeps a run in line with the stored days.
LEMMA ContinuesStep == IInv /\ [Next]_vars => TaskContinues'
<1> SUFFICES ASSUME IInv, [Next]_vars PROVE TaskContinues'
  OBVIOUS
<1> USE DEF IInv
<1>1. clock \in DayLen .. MaxTime /\ task \in TaskType BY DEF TypeOK
<1>2. ASSUME End PROVE TaskContinues'
  BY <1>2 DEF End, Idle, TaskContinues
<1>3. CASE \E tr \in Triggers : Begin(tr)
  <2> SUFFICES ASSUME NEW tr \in Triggers, Begin(tr) PROVE TaskContinues'
    BY <1>3
  <2>1. CASE UNCHANGED task BY <2>1 DEF Begin, TaskContinues, db
  <2>2. CASE ~UNCHANGED task
    <3>1. /\ task'.pc = "plan" /\ task'.at = clock /\ task'.start = StartDate
          /\ task'.newFrom = IF cursor = None THEN StartDate ELSE None
      BY <2>2 DEF Begin, Goto, Idle
    <3>2. clock \in DayLen .. clock BY <1>1, ConstantsAssumption
    <3>3. clock' = clock /\ cursor' = cursor BY DEF Begin, db
    <3>4. cursor = None => StartDate # None
      <4>1. today \in Int /\ today >= 1 BY IdleType DEF Days
      <4> QED BY <4>1, ConstantsAssumption DEF StartDate, None
    <3> QED BY <3>1, <3>2, <3>3, <3>4 DEF TaskContinues, StartDate
  <2> QED BY <2>1, <2>2
<1>4. CASE Plan
  <2>1. PICK end \in SafeEnd(task.at, task.start) : \E e \in WindowEnd(task, end) :
          Goto("query", [task EXCEPT !.end = e])
    BY <1>4 DEF Plan
  <2>2. PICK e \in WindowEnd(task, end) : Goto("query", [task EXCEPT !.end = e]) BY <2>1
  <2>3. task.at \in DayLen .. MaxTime BY <1>4, PlanAt
  <2>4. task.start < e BY <2>2, <2>3, WindowType
  <2>5. /\ task'.pc = "query" /\ task'.at = task.at /\ task'.start = task.start
        /\ task'.end = e /\ task'.newFrom = task.newFrom
    BY <1>1, <2>2 DEF Goto, TaskType
  <2> QED BY <1>4, <2>4, <2>5 DEF Plan, TaskContinues, db
<1>5. CASE QuerySucceeds
  <2>1. task' = [task EXCEPT !.pc = "store"] BY <1>5 DEF QuerySucceeds, Goto
  <2> QED BY <1>1, <1>5, <2>1 DEF QuerySucceeds, TaskContinues, TaskType, db
<1>6. CASE FailBilled \/ Store \/ ReadFailures \/ WriteFailures \/ Decide
  <2>1. /\ task'.pc \in {"idle", "record", "clear", "append", "decide", "stop"}
        /\ task'.pc # "idle" => task'.at = task.at
    <3>1. CASE FailBilled \/ Store
      BY <1>1, <3>1 DEF FailBilled, Store, Goto, TaskType
    <3>2. CASE ReadFailures
      BY <1>1, <3>2 DEF ReadFailures, Goto, TaskType
    <3>3. CASE WriteFailures
      BY <1>1, <3>3 DEF WriteFailures, Goto, TaskType
    <3>4. CASE Decide
      BY <1>1, <3>4 DEF Decide, Goto, End, Idle, TaskType
    <3> QED BY <1>6, <3>1, <3>2, <3>3, <3>4
  <2>2. clock' = clock /\ task.pc # "idle"
    BY <1>6 DEF FailBilled, Store, ReadFailures, WriteFailures, Decide
  <2> QED BY <2>1, <2>2 DEF TaskContinues
<1>7. CASE PlanIsEmpty \/ FailUnbilled \/ Succeed \/ Stop \/ Crash
  BY <1>2, <1>7 DEF PlanIsEmpty, FailUnbilled, Succeed, Stop, Crash
<1>8. CASE Resume \/ Outlast \/ Export \/ UNCHANGED vars
  BY <1>8 DEF Resume, Outlast, Export, vars, TaskContinues, db
<1>9. CASE Advance
  <2>1. task.at \in DayLen .. clock => task.at \in DayLen .. (clock + 1)
    BY <1>1, ConstantsAssumption
  <2> QED BY <1>9, <2>1 DEF Advance, TaskContinues, db
<1> QED BY <1>3, <1>4, <1>5, <1>6, <1>7, <1>8, <1>9 DEF Next

\* A store appends its window to the synced days; nothing else moves them.
LEMMA SyncedStep == IInv /\ [Next]_vars => SyncedDaysStored'
<1> SUFFICES ASSUME IInv, [Next]_vars PROVE SyncedDaysStored'
  OBVIOUS
<1> USE DEF IInv
<1>1. CASE Store
  <2>1. task.start \in Int /\ task.end \in Int /\ task.start < task.end /\ cursor \in Int
        /\ (coverageFrom \in Int)
    BY <1>1, ConstantsAssumption DEF Store, TaskContinues, TypeOK, TaskType, Days, None
  <2>2. /\ cursor' = task.end - 1
        /\ stored' = stored \cup (task.start .. (task.end - 1))
        /\ coverageFrom' = IF task.newFrom = None THEN coverageFrom ELSE task.newFrom
    BY <1>1 DEF Store, LastDay
  <2>3. CASE task.newFrom = None
    <3>1. cursor # None /\ task.start = cursor + 1 BY <1>1, <2>3 DEF Store, TaskContinues
    <3>2. coverageFrom .. cursor \subseteq stored BY <3>1 DEF SyncedDaysStored
    <3> QED BY <2>1, <2>2, <2>3, <3>1, <3>2 DEF SyncedDaysStored
  <2>4. CASE task.newFrom # None
    <3>1. task.start = task.newFrom BY <1>1, <2>4 DEF Store, TaskContinues
    <3> QED BY <2>1, <2>2, <2>4, <3>1 DEF SyncedDaysStored
  <2> QED BY <2>3, <2>4
<1>2. CASE UNCHANGED <<stored, cursor, coverageFrom>>
  BY <1>2 DEF SyncedDaysStored
<1> QED BY <1>1, <1>2 DEF Next, Begin, Plan, PlanIsEmpty, FailUnbilled, QuerySucceeds,
          FailBilled, Succeed, ReadFailures, WriteFailures, Decide, Stop, Resume, Crash,
          Advance, Outlast, Export, vars, db

\* A step that leaves both lists of failures alone and does not enter the recording
\* keeps them in line.
LEMMA SameCounts ==
  ASSUME RecordedWereBilled, TypeOK, failures' = failures, billed' = billed,
         task'.pc \in {"record", "append"}
           => task.pc \in {"record", "append"} /\ task'.at = task.at
  PROVE  RecordedWereBilled'
<1> SUFFICES ASSUME NEW t \in Hours
             PROVE  Cardinality(Recent(failures', t))
                      + (IF task'.pc \in {"record", "append"} /\ InWindow(task'.at, t)
                         THEN 1 ELSE 0)
                      <= Cardinality(Recent(billed', t))
  BY DEF RecordedWereBilled, Hours, Recent, InWindow
<1>1. t \in Int /\ failures \in Seq(Hours) /\ billed \in Seq(Hours)
  BY ConstantsAssumption DEF Hours, TypeOK
<1>2. Cardinality(Recent(failures, t)) \in Nat /\ Cardinality(Recent(billed, t)) \in Nat
  BY <1>1, CountType
<1>3. Cardinality(Recent(failures, t))
        + (IF task.pc \in {"record", "append"} /\ InWindow(task.at, t) THEN 1 ELSE 0)
        <= Cardinality(Recent(billed, t))
  BY DEF RecordedWereBilled
<1> QED BY <1>2, <1>3

\* Forgetting every failure, billed ones too, keeps them in line.
LEMMA NoCounts ==
  ASSUME failures' = <<>>, billed' = <<>>, task'.pc \notin {"record", "append"}
  PROVE  RecordedWereBilled'
BY CountNone DEF RecordedWereBilled, Recent, InWindow

\* Billing a failure and recording it move the same count.
LEMMA FailBilledCounts ==
  ASSUME RecordedWereBilled, TypeOK, FailBilled
  PROVE  RecordedWereBilled'
<1>1. task'.pc = "record" /\ task'.at = task.at /\ failures' = failures
      /\ task.pc \notin {"record", "append"} /\ billed' = Append(billed, task.at)
  BY DEF FailBilled, Goto, TypeOK, TaskType, db
<1> SUFFICES ASSUME NEW t \in Hours
             PROVE  Cardinality(Recent(failures, t))
                      + (IF InWindow(task.at, t) THEN 1 ELSE 0)
                      <= Cardinality(Recent(Append(billed, task.at), t))
  BY <1>1 DEF RecordedWereBilled, Hours, Recent, InWindow
<1>2. t \in Int /\ failures \in Seq(Hours) /\ billed \in Seq(Hours) /\ task.at \in Hours
  BY ConstantsAssumption DEF Hours, TypeOK, TaskType
<1>3. Cardinality(Recent(failures, t)) \in Nat /\ Cardinality(Recent(billed, t)) \in Nat
  BY <1>2, CountType
<1>4. Cardinality(Recent(failures, t)) <= Cardinality(Recent(billed, t))
  BY <1>1, <1>3 DEF RecordedWereBilled
<1>5. Cardinality(Recent(Append(billed, task.at), t))
        = Cardinality(Recent(billed, t)) + (IF InWindow(task.at, t) THEN 1 ELSE 0)
  BY <1>2, CountAppend
<1> QED BY <1>3, <1>4, <1>5

LEMMA WriteFailuresCounts ==
  ASSUME RecordedWereBilled, TypeOK, WriteFailures, task.read = failures
  PROVE  RecordedWereBilled'
<1>1. task'.pc = "decide" /\ task.pc = "append" /\ billed' = billed
      /\ failures' = Append(failures, task.at)
  BY DEF WriteFailures, Goto, TypeOK, TaskType, history
<1> SUFFICES ASSUME NEW t \in Hours
             PROVE  Cardinality(Recent(Append(failures, task.at), t))
                      <= Cardinality(Recent(billed, t))
  <2>1. ASSUME NEW t \in Hours
        PROVE  /\ Cardinality(Recent(Append(failures, task.at), t)) \in Nat
               /\ Append(failures, task.at) \in Seq(Hours)
    <3>1. t \in Int /\ Append(failures, task.at) \in Seq(Hours)
      BY ConstantsAssumption DEF Hours, TypeOK, TaskType
    <3> QED BY <3>1, CountType
  <2> QED BY <1>1, <2>1 DEF RecordedWereBilled, Hours, Recent, InWindow
<1>2. t \in Int /\ failures \in Seq(Hours) /\ billed \in Seq(Hours) /\ task.at \in Hours
  BY ConstantsAssumption DEF Hours, TypeOK, TaskType
<1>3. Cardinality(Recent(failures, t)) \in Nat BY <1>2, CountType
<1>4. Cardinality(Recent(failures, t)) + (IF InWindow(task.at, t) THEN 1 ELSE 0)
        <= Cardinality(Recent(billed, t))
  BY <1>1 DEF RecordedWereBilled
<1>5. Cardinality(Recent(Append(failures, task.at), t))
        = Cardinality(Recent(failures, t)) + (IF InWindow(task.at, t) THEN 1 ELSE 0)
  BY <1>2, CountAppend
<1> QED BY <1>3, <1>4, <1>5

LEMMA BeginRuns ==
  ASSUME NEW tr, Begin(tr)
  PROVE  /\ task'.pc \in {"idle", "plan"} /\ (task'.pc # "idle" => ~stopped)
         /\ failures' = failures /\ stopped' = stopped /\ billed' = billed /\ resumed' = FALSE
<1>1. CASE UNCHANGED task BY <1>1 DEF Begin, db
<1>2. CASE ~UNCHANGED task BY <1>2 DEF Begin, Goto, Idle, db
<1> QED BY <1>1, <1>2

LEMMA RunFreeStep == IInv /\ [Next]_vars => RunFree'
<1> SUFFICES ASSUME IInv, [Next]_vars PROVE RunFree'
  OBVIOUS
<1>1. RunFree /\ task \in TaskType BY DEF IInv, TypeOK
<1>2. ASSUME End PROVE RunFree' BY <1>2 DEF End, Idle, RunFree
<1>3. CASE \E tr \in Triggers : Begin(tr)
  BY <1>3, BeginRuns DEF RunFree
<1>4. CASE Plan \/ QuerySucceeds \/ FailBilled \/ Store \/ ReadFailures \/ WriteFailures
  <2>1. task.pc # "idle" /\ stopped' = stopped /\ resumed' = resumed
    BY <1>4 DEF Plan, QuerySucceeds, FailBilled, Store, ReadFailures, WriteFailures, db, history
  <2> QED BY <1>1, <2>1 DEF RunFree
<1>5. CASE Decide
  <2>1. task.pc # "idle" /\ stopped' = stopped /\ resumed' = resumed BY <1>5 DEF Decide, db
  <2> QED BY <1>1, <2>1 DEF RunFree
<1>6. CASE PlanIsEmpty \/ FailUnbilled \/ Succeed \/ Stop \/ Crash
  BY <1>2, <1>6 DEF PlanIsEmpty, FailUnbilled, Succeed, Stop, Crash
<1>7. CASE Resume
  <2>1. task' = task /\ ~stopped' /\ resumed' = stopped BY <1>7 DEF Resume, Clear
  <2> QED BY <1>1, <2>1 DEF RunFree
<1>8. CASE Advance \/ Outlast \/ Export \/ UNCHANGED vars
  <2>1. UNCHANGED <<task, stopped, resumed>>
    BY <1>8 DEF Advance, Outlast, Export, vars, db, history
  <2> QED BY <1>1, <2>1 DEF RunFree
<1> QED BY <1>3, <1>4, <1>5, <1>6, <1>7, <1>8 DEF Next

\* The parts of RunAlone that do not count.
RunClear ==
  /\ task.pc = "append" => task.read = failures
  /\ task.pc = "stop" => Cardinality(Recent(failures, task.at)) >= MaxBilled

LEMMA RunClearStep == ~ResumeAny /\ IInv /\ [Next]_vars => RunClear'
<1> SUFFICES ASSUME ~ResumeAny, IInv, [Next]_vars PROVE RunClear'
  OBVIOUS
<1>1. RunClear /\ RunFree /\ task \in TaskType BY DEF IInv, TypeOK, RunAlone, RunClear
<1>2. ASSUME End PROVE RunClear' BY <1>2 DEF End, Idle, RunClear
<1>3. CASE \E tr \in Triggers : Begin(tr)
  BY <1>3, BeginRuns DEF RunClear
<1>4. CASE Plan
  BY <1>1, <1>4 DEF Plan, Goto, TaskType, RunClear, db, history
<1>5. CASE QuerySucceeds
  BY <1>1, <1>5 DEF QuerySucceeds, Goto, TaskType, RunClear, db, history
<1>6. CASE FailBilled
  BY <1>1, <1>6 DEF FailBilled, Goto, TaskType, RunClear, db
<1>7. CASE Store
  BY <1>1, <1>7 DEF Store, Goto, TaskType, RunClear, history
<1>8. CASE ReadFailures
  <2>1. task'.pc = "append" /\ task'.read = failures
    BY <1>1, <1>8 DEF ReadFailures, Goto, TaskType
  <2> QED BY <1>1, <1>8, <2>1 DEF ReadFailures, RunClear, db, history
<1>9. CASE WriteFailures
  BY <1>1, <1>9 DEF WriteFailures, Goto, TaskType, RunClear, history
<1>10. CASE Decide
  <2>1. CASE TooMany(Cardinality(Active(failures, task.at)))
    <3>1. task'.pc = "stop" /\ task'.at = task.at /\ failures' = failures
      BY <1>1, <1>10, <2>1 DEF Decide, Goto, TaskType, db
    <3>2. Cardinality(Recent(failures, task.at)) >= MaxBilled
      BY <2>1, ActiveIsRecent DEF TooMany
    <3> QED BY <1>1, <3>1, <3>2 DEF RunClear, Recent
  <2>2. CASE ~TooMany(Cardinality(Active(failures, task.at)))
    BY <1>2, <1>10, <2>2 DEF Decide
  <2> QED BY <2>1, <2>2
<1>11. CASE PlanIsEmpty \/ FailUnbilled \/ Succeed \/ Stop \/ Crash
  BY <1>2, <1>11 DEF PlanIsEmpty, FailUnbilled, Succeed, Stop, Crash
<1>12. CASE Resume
  <2>1. task.pc = "idle" /\ task' = task BY <1>1, <1>12 DEF Resume, RunFree
  <2> QED BY <2>1 DEF RunClear
<1>13. CASE Advance \/ Outlast \/ Export \/ UNCHANGED vars
  <2>1. UNCHANGED <<task, failures>>
    BY <1>13 DEF Advance, Outlast, Export, vars, db, history
  <2> QED BY <1>1, <2>1 DEF RunClear
<1> QED BY <1>3, <1>4, <1>5, <1>6, <1>7, <1>8, <1>9, <1>10, <1>11, <1>12, <1>13 DEF Next

LEMMA RunAloneStep == ~ResumeAny /\ IInv /\ [Next]_vars => RunAlone'
<1> SUFFICES ASSUME ~ResumeAny, IInv, [Next]_vars PROVE RecordedWereBilled'
  BY RunClearStep DEF RunAlone, RunClear
<1>1. RecordedWereBilled /\ TypeOK /\ task \in TaskType /\ RunAlone /\ RunFree
  BY DEF IInv, TypeOK, RunAlone
<1>2. Idle.pc \notin {"record", "append"} BY DEF Idle
<1>3. CASE \E tr \in Triggers : Begin(tr)
  <2>1. failures' = failures /\ billed' = billed /\ task'.pc \in {"idle", "plan"}
    BY <1>3, BeginRuns
  <2>2. task'.pc # "record" /\ task'.pc # "append" BY <2>1
  <2> QED BY <1>1, <2>1, <2>2, SameCounts
<1>4. CASE Plan
  BY <1>1, <1>4, SameCounts DEF Plan, Goto, TaskType, db, history
<1>5. CASE QuerySucceeds
  BY <1>1, <1>5, SameCounts DEF QuerySucceeds, Goto, TaskType, db, history
<1>6. CASE FailBilled BY <1>1, <1>6, FailBilledCounts
<1>7. CASE Store
  BY <1>1, <1>7, SameCounts DEF Store, Goto, TaskType, history
<1>8. CASE ReadFailures
  BY <1>1, <1>8, SameCounts DEF ReadFailures, Goto, TaskType, db, history
<1>9. CASE WriteFailures
  BY <1>1, <1>9, WriteFailuresCounts DEF WriteFailures, RunAlone
<1>10. CASE Decide
  <2>1. failures' = failures /\ billed' = billed /\ task'.pc \in {"idle", "stop"}
    BY <1>1, <1>10 DEF Decide, Goto, End, Idle, TaskType, db
  <2>2. task'.pc # "record" /\ task'.pc # "append" BY <2>1
  <2> QED BY <1>1, <2>1, <2>2, SameCounts
<1>11. CASE PlanIsEmpty \/ FailUnbilled \/ Stop \/ Crash
  <2>1. failures' = failures /\ billed' = billed /\ task' = Idle
    BY <1>11 DEF PlanIsEmpty, FailUnbilled, Stop, Crash, End, db, history
  <2>2. task'.pc # "record" /\ task'.pc # "append" BY <1>2, <2>1
  <2> QED BY <1>1, <2>1, <2>2, SameCounts
<1>12. CASE Succeed
  BY <1>2, <1>12, NoCounts DEF Succeed, Clear, End
<1>13. CASE Resume
  <2>1. task'.pc = "idle" BY <1>1, <1>13 DEF Resume, RunFree
  <2> QED BY <1>13, <2>1, NoCounts DEF Resume, Clear
<1>14. CASE Advance \/ Outlast \/ Export \/ UNCHANGED vars
  BY <1>1, <1>14, SameCounts DEF Advance, Outlast, Export, vars, db, history
<1> QED BY <1>3, <1>4, <1>5, <1>6, <1>7, <1>8, <1>9, <1>10, <1>11, <1>12, <1>13, <1>14 DEF Next

\* A manual run that clears the back-off, or none at all, leaves nothing that
\* delays a resumed job.
LEMMA NotDelayedStep ==
  (~Manual \/ ManualClears) /\ IInv /\ [Next]_vars => NotDelayed'
<1> SUFFICES ASSUME ~Manual \/ ManualClears, IInv, [Next]_vars,
                    task'.pc # "idle" \/ stopped' \/ resumed'
             PROVE  retryAfter' <= clock'
  BY DEF NotDelayed
<1>1. /\ NotDelayed /\ RunFree /\ retryAfter \in Nat /\ clock \in Nat
  BY ConstantsAssumption DEF IInv, TypeOK
<1>2. Idle.pc = "idle" BY DEF Idle
<1>3. CASE \E tr \in Triggers : Begin(tr)
  <2> SUFFICES ASSUME NEW tr \in Triggers, Begin(tr) PROVE retryAfter' <= clock'
    BY <1>3
  <2>1. clock' = clock /\ stopped' = stopped /\ task.pc = "idle" /\ ~resumed'
    BY DEF Begin, db
  <2>2. CASE stopped
    BY <1>1, <2>1, <2>2 DEF Begin, NotDelayed
  <2>3. CASE ~stopped
    <3>1. task' # task BY <2>1, <2>3
    <3>2. ~(tr = "schedule" /\ Held) BY <3>1 DEF Begin
    <3>3. CASE tr = "schedule" BY <1>1, <2>1, <3>2, <3>3 DEF Begin, Held
    <3>4. CASE tr = "manual" BY <1>1, <2>1, <3>4 DEF Begin
    <3> QED BY <3>3, <3>4 DEF Triggers
  <2> QED BY <2>2, <2>3
<1>4. CASE Plan \/ QuerySucceeds \/ FailBilled \/ Store \/ ReadFailures \/ WriteFailures \/ Stop
  BY <1>1, <1>4 DEF Plan, QuerySucceeds, FailBilled, Store, ReadFailures, WriteFailures, Stop,
                    NotDelayed, memory
<1>5. CASE PlanIsEmpty
  BY <1>1, <1>5 DEF PlanIsEmpty, NotDelayed, memory
<1>6. CASE FailUnbilled \/ Succeed
  <2>1. task'.pc = "idle" /\ ~stopped' /\ ~resumed'
    BY <1>1, <1>2, <1>6 DEF FailUnbilled, Succeed, Clear, End, RunFree, db, history
  <2> QED BY <2>1
<1>7. CASE Decide
  <2>1. CASE UNCHANGED retryAfter BY <1>1, <1>7, <2>1 DEF Decide, NotDelayed
  <2>2. CASE End
    <3>1. task'.pc = "idle" /\ ~stopped' /\ ~resumed'
      BY <1>1, <1>2, <1>7, <2>2 DEF Decide, End, RunFree, db
    <3> QED BY <3>1
  <2> QED BY <1>7, <2>1, <2>2 DEF Decide
<1>8. CASE Resume
  BY <1>1, <1>8 DEF Resume, Clear, NotDelayed, memory
<1>9. CASE Crash \/ Outlast
  BY <1>1, <1>9 DEF Crash, Outlast
<1>10. CASE Advance
  <2>1. retryAfter' = retryAfter /\ clock' = clock + 1 /\ retryAfter <= clock
    BY <1>1, <1>10 DEF Advance, NotDelayed, memory, db, history
  <2> QED BY <1>1, <2>1
<1>11. CASE Export \/ UNCHANGED vars
  BY <1>1, <1>11 DEF Export, vars, NotDelayed, memory, db, history
<1> QED BY <1>3, <1>4, <1>5, <1>6, <1>7, <1>8, <1>9, <1>10, <1>11 DEF Next

\* Fewer failures fall in a later window.
LEMMA CountFewer ==
  ASSUME NEW fs \in Seq(Hours), NEW t \in Int, NEW u \in Int, t <= u
  PROVE  Cardinality(Recent(fs, u)) <= Cardinality(Recent(fs, t))
<1>1. Recent(fs, u) \subseteq Recent(fs, t)
  <2> SUFFICES ASSUME NEW i \in DOMAIN fs, Within # 0, fs[i] >= u - Within
               PROVE  fs[i] >= t - Within
    BY DEF Recent
  <2>1. fs[i] \in Int BY ConstantsAssumption DEF Hours
  <2> QED BY <2>1, ConstantsAssumption
<1> QED BY <1>1, CountType, FS_Subset

\* A step that leaves both lists alone, ends no recording and reads no list.
LEMMA SameRecorded ==
  ASSUME BilledAreRecorded, TypeOK, failures' = failures, billed' = billed, crashes' = crashes,
         task.pc \in {"record", "append"}
           => task'.pc \in {"record", "append"} /\ task'.at = task.at,
         task'.pc = "append" => task.pc = "append" /\ task'.read = task.read
  PROVE  BilledAreRecorded'
<1> SUFFICES ASSUME NEW t \in Hours
             PROVE  /\ Cardinality(Recent(billed, t)) <= Recorded(failures, t)'
                    /\ task'.pc = "append" =>
                         Cardinality(Recent(billed, t)) <= Recorded(task.read, t)'
  BY DEF BilledAreRecorded, Hours, Recorded, Recent, InWindow
<1>1. /\ t \in Int /\ failures \in Seq(Hours) /\ billed \in Seq(Hours) /\ crashes \in Nat
      /\ task.read \in Seq(Hours)
  BY ConstantsAssumption DEF Hours, TypeOK, TaskType
<1>2. /\ Cardinality(Recent(failures, t)) \in Nat /\ Cardinality(Recent(billed, t)) \in Nat
      /\ Cardinality(Recent(task.read, t)) \in Nat
  BY <1>1, CountType
<1>3. /\ Cardinality(Recent(billed, t)) <= Recorded(failures, t)
      /\ task.pc = "append" => Cardinality(Recent(billed, t)) <= Recorded(task.read, t)
  BY DEF BilledAreRecorded
<1> DEFINE last == IF task.pc \in {"record", "append"} /\ InWindow(task.at, t) THEN 1 ELSE 0
           next == IF task'.pc \in {"record", "append"} /\ InWindow(task'.at, t) THEN 1 ELSE 0
<1>4. /\ Recorded(failures, t)' = Cardinality(Recent(failures, t)) + crashes + next
      /\ task'.pc = "append" =>
           Recorded(task.read, t)' = Cardinality(Recent(task.read, t)) + crashes + next
      /\ Recorded(failures, t) = Cardinality(Recent(failures, t)) + crashes + last
      /\ Recorded(task.read, t) = Cardinality(Recent(task.read, t)) + crashes + last
  BY DEF Recorded, Recent, InWindow
<1>5. last \in Nat /\ next \in Nat /\ last <= next OBVIOUS
<1> HIDE DEF last, next
<1> QED BY <1>1, <1>2, <1>3, <1>4, <1>5

\* Forgetting what was billed.
LEMMA NoneBilled ==
  ASSUME TypeOK', billed' = <<>>
  PROVE  BilledAreRecorded' /\ BeforeLimit'
<1>1. /\ failures' \in Seq(Hours) /\ task'.read \in Seq(Hours) /\ crashes' \in Nat
      /\ clock' \in Int
  BY ConstantsAssumption DEF TypeOK, TaskType
<1>2. \A t \in Hours : /\ Cardinality(Recent(failures', t)) \in Nat
                       /\ Cardinality(Recent(task'.read, t)) \in Nat
  <2> TAKE t \in Hours
  <2>1. t \in Int BY ConstantsAssumption DEF Hours
  <2> QED BY <1>1, <2>1, CountType
<1>3. \A t : Cardinality(Recent(billed', t)) = 0 BY CountNone
<1>4. BilledAreRecorded'
  <2> SUFFICES ASSUME NEW t \in Hours
               PROVE  /\ 0 <= Recorded(failures, t)'
                      /\ 0 <= Recorded(task.read, t)'
    BY <1>3 DEF BilledAreRecorded, Hours, Recent
  <2> DEFINE last == IF task'.pc \in {"record", "append"} /\ InWindow(task'.at, t) THEN 1 ELSE 0
  <2>1. /\ Recorded(failures, t)' = Cardinality(Recent(failures', t)) + crashes' + last
        /\ Recorded(task.read, t)' = Cardinality(Recent(task'.read, t)) + crashes' + last
    BY DEF Recorded, Recent, InWindow
  <2>2. last \in Nat OBVIOUS
  <2> HIDE DEF last
  <2> QED BY <1>1, <1>2, <2>1, <2>2
<1>5. BeforeLimit'
  BY <1>1, <1>3, ConstantsAssumption DEF BeforeLimit, Recent
<1> QED BY <1>4, <1>5

LEMMA RecordedStep == IInv /\ [Next]_vars => BilledAreRecorded'
<1> SUFFICES ASSUME IInv, [Next]_vars PROVE BilledAreRecorded'
  OBVIOUS
<1>1. BilledAreRecorded /\ TypeOK /\ TypeOK' /\ task \in TaskType
  BY TypeStep DEF IInv, TypeOK
<1>2. Idle.pc \notin {"record", "append"} BY DEF Idle
<1>3. /\ failures \in Seq(Hours) /\ billed \in Seq(Hours) /\ crashes \in Nat
      /\ task.read \in Seq(Hours) /\ task.at \in Hours
  BY <1>1 DEF TypeOK, TaskType
<1>4. \A t \in Hours : /\ t \in Int
                       /\ Cardinality(Recent(failures, t)) \in Nat
                       /\ Cardinality(Recent(billed, t)) \in Nat
                       /\ Cardinality(Recent(task.read, t)) \in Nat
  <2> TAKE t \in Hours
  <2>1. t \in Int BY ConstantsAssumption DEF Hours
  <2> QED BY <1>3, <2>1, CountType
<1>5. CASE \E tr \in Triggers : Begin(tr)
  <2>1. failures' = failures /\ billed' = billed /\ task'.pc \in {"idle", "plan"}
        /\ task.pc = "idle" /\ crashes' = crashes
    BY <1>5, BeginRuns DEF Begin
  <2>2. task'.pc # "append" BY <2>1
  <2> QED BY <1>1, <2>1, <2>2, SameRecorded
<1>6. CASE Plan \/ QuerySucceeds \/ Store
  <2>1. failures' = failures /\ billed' = billed /\ crashes' = crashes
        /\ task.pc \in {"plan", "query", "store"} /\ task'.pc \in {"query", "store", "clear"}
    BY <1>1, <1>6 DEF Plan, QuerySucceeds, Store, Goto, TaskType, db, history
  <2>2. task'.pc # "append" BY <2>1
  <2> QED BY <1>1, <2>1, <2>2, SameRecorded
<1>7. CASE PlanIsEmpty \/ FailUnbilled \/ Stop
  <2>1. failures' = failures /\ billed' = billed /\ crashes' = crashes /\ task' = Idle
        /\ task.pc \in {"plan", "query", "stop"}
    BY <1>7 DEF PlanIsEmpty, FailUnbilled, Stop, End, db, history
  <2>2. task'.pc # "append" BY <1>2, <2>1
  <2> QED BY <1>1, <2>1, <2>2, SameRecorded
<1>8. CASE Decide
  <2>1. failures' = failures /\ billed' = billed /\ crashes' = crashes
        /\ task.pc = "decide" /\ task'.pc \in {"idle", "stop"}
    BY <1>1, <1>8 DEF Decide, Goto, End, Idle, TaskType, db
  <2>2. task'.pc # "append" BY <2>1
  <2> QED BY <1>1, <2>1, <2>2, SameRecorded
<1>9. CASE Advance \/ Outlast \/ Export \/ UNCHANGED vars
  BY <1>1, <1>9, SameRecorded DEF Advance, Outlast, Export, vars, db, history
<1>10. CASE FailBilled
  <2>1. /\ task'.pc = "record" /\ task'.at = task.at /\ failures' = failures
        /\ task.pc \notin {"record", "append"} /\ billed' = Append(billed, task.at)
        /\ crashes' = crashes
    BY <1>1, <1>10 DEF FailBilled, Goto, TaskType, db
  <2>2. ASSUME NEW t \in Hours
        PROVE  Cardinality(Recent(billed', t)) <= Recorded(failures, t)'
    <3>1. Cardinality(Recent(billed', t))
            = Cardinality(Recent(billed, t)) + (IF InWindow(task.at, t) THEN 1 ELSE 0)
      BY <1>3, <1>4, <2>1, CountAppend
    <3>2. Cardinality(Recent(billed, t)) <= Cardinality(Recent(failures, t)) + crashes
      BY <1>1, <1>3, <1>4, <2>1 DEF BilledAreRecorded, Recorded
    <3>3. Recorded(failures, t)' = Cardinality(Recent(failures, t)) + crashes
                                     + (IF InWindow(task.at, t) THEN 1 ELSE 0)
      BY <2>1 DEF Recorded, Recent, InWindow
    <3> QED BY <1>3, <1>4, <3>1, <3>2, <3>3
  <2> QED BY <2>1, <2>2 DEF BilledAreRecorded, Hours, Recent
<1>11. CASE ReadFailures
  <2>1. /\ task'.pc = "append" /\ task'.at = task.at /\ task'.read = failures
        /\ task.pc = "record" /\ failures' = failures /\ billed' = billed /\ crashes' = crashes
    BY <1>1, <1>11 DEF ReadFailures, Goto, TaskType, db, history
  <2> QED BY <1>1, <2>1 DEF BilledAreRecorded, Recorded, Hours, Recent, InWindow
<1>12. CASE WriteFailures
  <2>1. /\ task'.pc = "decide" /\ task.pc = "append" /\ failures' = Append(task.read, task.at)
        /\ billed' = billed /\ crashes' = crashes
    BY <1>1, <1>12 DEF WriteFailures, Goto, TaskType, history
  <2>2. ASSUME NEW t \in Hours
        PROVE  Cardinality(Recent(billed, t)) <= Recorded(failures, t)'
    <3>1. Cardinality(Recent(failures', t))
            = Cardinality(Recent(task.read, t)) + (IF InWindow(task.at, t) THEN 1 ELSE 0)
      BY <1>3, <1>4, <2>1, CountAppend
    <3>2. Cardinality(Recent(billed, t)) <= Recorded(task.read, t)
      BY <1>1, <2>1 DEF BilledAreRecorded
    <3>3. Recorded(failures, t)' = Cardinality(Recent(failures', t)) + crashes + 0
      BY <2>1 DEF Recorded, Recent, InWindow
    <3> QED BY <1>3, <1>4, <2>1, <3>1, <3>2, <3>3 DEF Recorded
  <2> QED BY <2>1, <2>2 DEF BilledAreRecorded, Hours, Recent
<1>13. CASE Succeed \/ Resume
  BY <1>1, <1>13, NoneBilled DEF Succeed, Resume
<1>14. CASE Crash
  <2>1. /\ task'.pc \notin {"record", "append"} /\ failures' = failures /\ billed' = billed
        /\ crashes' = crashes + 1
    BY <1>2, <1>14 DEF Crash, End, db
  <2>2. ASSUME NEW t \in Hours
        PROVE  Cardinality(Recent(billed, t)) <= Recorded(failures, t)'
    <3>1. Cardinality(Recent(billed, t)) <= Recorded(failures, t)
      BY <1>1 DEF BilledAreRecorded
    <3>2. Recorded(failures, t)' = Cardinality(Recent(failures, t)) + (crashes + 1) + 0
      BY <2>1 DEF Recorded, Recent, InWindow
    <3> QED BY <1>3, <1>4, <3>1, <3>2 DEF Recorded
  <2> QED BY <2>1, <2>2 DEF BilledAreRecorded, Hours, Recent
<1> QED BY <1>5, <1>6, <1>7, <1>8, <1>9, <1>10, <1>11, <1>12, <1>13, <1>14 DEF Next

\* A step that leaves the bill alone.
LEMMA SameLimit ==
  ASSUME BeforeLimit, TypeOK, billed' = billed, clock' = clock, crashes' \in Nat,
         \/ /\ crashes' = crashes
            /\ stopped \/ task.pc \in {"record", "append", "decide", "stop"}
                 => stopped' \/ task'.pc \in {"record", "append", "decide", "stop"}
         \/ crashes' = crashes + 1
  PROVE  BeforeLimit'
<1>1. /\ billed \in Seq(Hours) /\ clock \in Int /\ crashes \in Nat
  BY ConstantsAssumption DEF TypeOK
<1>2. Cardinality(Recent(billed, clock)) \in Nat BY <1>1, CountType
<1>3. Cardinality(Recent(billed, clock))' = Cardinality(Recent(billed, clock)) BY DEF Recent
<1> QED BY <1>1, <1>2, <1>3, ConstantsAssumption DEF BeforeLimit

LEMMA LimitStep == IInv /\ [Next]_vars => BeforeLimit'
<1> SUFFICES ASSUME IInv, [Next]_vars PROVE BeforeLimit'
  OBVIOUS
<1>1. BeforeLimit /\ BilledAreRecorded /\ RunFree /\ TypeOK /\ TypeOK' /\ task \in TaskType
  BY TypeStep DEF IInv, TypeOK
<1>2. Idle.pc = "idle" BY DEF Idle
<1>3. /\ failures \in Seq(Hours) /\ billed \in Seq(Hours) /\ crashes \in Nat
      /\ task.at \in Hours /\ clock \in Hours /\ clock \in Int /\ task.at \in Int
  BY <1>1, ConstantsAssumption DEF TypeOK, TaskType, Hours
<1>4. /\ Cardinality(Recent(billed, clock)) \in Nat
      /\ Cardinality(Recent(billed, task.at)) \in Nat
      /\ Cardinality(Recent(failures, task.at)) \in Nat
  BY <1>3, CountType
<1>5. CASE \E tr \in Triggers : Begin(tr)
  <2>1. billed' = billed /\ stopped' = stopped /\ task.pc = "idle" /\ crashes' = crashes
        /\ clock' = clock
    BY <1>5, BeginRuns DEF Begin
  <2> QED BY <1>1, <1>3, <2>1, SameLimit
<1>6. CASE Plan \/ QuerySucceeds \/ Store \/ ReadFailures \/ WriteFailures
  <2>1. /\ billed' = billed /\ crashes' = crashes /\ stopped' = stopped /\ clock' = clock
        /\ task.pc \in {"record", "append", "decide", "stop"} =>
             task'.pc \in {"record", "append", "decide", "stop"}
    BY <1>1, <1>6 DEF Plan, QuerySucceeds, Store, ReadFailures, WriteFailures, Goto, TaskType,
                      db, history
  <2> QED BY <1>1, <1>3, <2>1, SameLimit
<1>7. CASE PlanIsEmpty \/ FailUnbilled \/ Stop
  <2>1. /\ billed' = billed /\ crashes' = crashes /\ clock' = clock /\ task' = Idle
        /\ \/ stopped' = stopped /\ task.pc \in {"plan", "query"}
           \/ stopped'
    BY <1>7 DEF PlanIsEmpty, FailUnbilled, Stop, End, db, history
  <2> QED BY <1>1, <1>3, <2>1, SameLimit
<1>8. CASE Decide
  <2>0. /\ billed' = billed /\ crashes' = crashes /\ clock' = clock /\ stopped' = stopped
        /\ task.pc = "decide" /\ failures' = failures
    BY <1>8 DEF Decide, db
  <2>1. CASE TooMany(Cardinality(Active(failures, task.at)))
    <3>1. task'.pc = "stop" BY <1>1, <1>8, <2>1 DEF Decide, Goto, TaskType
    <3> QED BY <1>1, <1>3, <2>0, <3>1, SameLimit
  <2>2. CASE ~TooMany(Cardinality(Active(failures, task.at)))
    <3>1. Cardinality(Recent(failures, task.at)) < MaxBilled
      BY <1>4, <2>2, ActiveIsRecent, ConstantsAssumption DEF TooMany
    <3>2. Cardinality(Recent(billed, task.at)) <= Cardinality(Recent(failures, task.at)) + crashes
      BY <1>1, <1>3, <1>4, <2>0 DEF BilledAreRecorded, Recorded
    <3>3. task.at <= clock BY <1>3, <2>0, ConstantsAssumption DEF IInv, TaskContinues
    <3>4. Cardinality(Recent(billed, clock)) <= Cardinality(Recent(billed, task.at))
      BY <1>3, <3>3, CountFewer
    <3>5. Cardinality(Recent(billed, clock)) <= crashes + (MaxBilled - 1)
      BY <1>3, <1>4, <3>1, <3>2, <3>4, ConstantsAssumption
    <3>6. Cardinality(Recent(billed, clock))' = Cardinality(Recent(billed, clock))
      BY <2>0 DEF Recent
    <3> QED BY <1>3, <1>4, <2>0, <3>5, <3>6, ConstantsAssumption DEF BeforeLimit
  <2> QED BY <2>1, <2>2
<1>9. CASE FailBilled
  <2>1. /\ task'.pc = "record" /\ ~stopped /\ task.pc \in {"query", "store"}
        /\ billed' = Append(billed, task.at) /\ clock' = clock /\ crashes' = crashes
    BY <1>1, <1>9 DEF FailBilled, Goto, TaskType, RunFree
  <2>2. Cardinality(Recent(billed, clock)) <= crashes + (MaxBilled - 1)
    BY <1>1, <2>1 DEF BeforeLimit
  <2>3. Cardinality(Recent(Append(billed, task.at), clock))
          = Cardinality(Recent(billed, clock)) + (IF InWindow(task.at, clock) THEN 1 ELSE 0)
    BY <1>3, CountAppend
  <2>4. Cardinality(Recent(billed, clock))' = Cardinality(Recent(Append(billed, task.at), clock))
    BY <2>1 DEF Recent
  <2> QED BY <1>3, <1>4, <2>1, <2>2, <2>3, <2>4, ConstantsAssumption DEF BeforeLimit
<1>10. CASE Succeed \/ Resume
  BY <1>1, <1>10, NoneBilled DEF Succeed, Resume
<1>11. CASE Crash
  BY <1>1, <1>3, <1>11, SameLimit DEF Crash
<1>12. CASE Advance
  <2>1. /\ clock' = clock + 1 /\ UNCHANGED <<billed, crashes, stopped, task>>
    BY <1>12 DEF Advance, db, history
  <2>2. Cardinality(Recent(billed, clock + 1)) <= Cardinality(Recent(billed, clock))
    BY <1>3, CountFewer
  <2>3. Cardinality(Recent(billed, clock + 1)) \in Nat
    <3>1. clock + 1 \in Int BY <1>3
    <3> QED BY <1>3, <3>1, CountType
  <2>4. Cardinality(Recent(billed, clock))' = Cardinality(Recent(billed, clock + 1))
    BY <2>1 DEF Recent
  <2> QED BY <1>1, <1>3, <1>4, <2>1, <2>2, <2>3, <2>4, ConstantsAssumption DEF BeforeLimit
<1>13. CASE Outlast \/ Export \/ UNCHANGED vars
  <2>1. UNCHANGED <<billed, crashes, stopped, task, clock>>
    BY <1>13 DEF Outlast, Export, vars, db, history
  <2> QED BY <1>1, <1>3, <2>1, SameLimit
<1> QED BY <1>5, <1>6, <1>7, <1>8, <1>9, <1>10, <1>11, <1>12, <1>13 DEF Next

\* What a run in progress and the memory say of the last billed failure's back-off.
LEMMA DueStep == (~Manual \/ ManualClears) /\ IInv /\ [Next]_vars => DueIsKept'
<1> SUFFICES ASSUME ~Manual \/ ManualClears, IInv, [Next]_vars PROVE DueIsKept'
  OBVIOUS
<1>1. /\ DueIsKept /\ task \in TaskType /\ retryAfter \in Nat /\ clock \in Nat /\ due \in Nat
      /\ task.pc # "idle" => task.at <= clock
      /\ task.at \in Nat
  BY ConstantsAssumption DEF IInv, TypeOK, TaskType, Hours, TaskContinues
<1>2. Idle.pc = "idle" BY DEF Idle
<1>3. CASE \E tr \in Triggers : Begin(tr)
  <2> SUFFICES ASSUME NEW tr \in Triggers, Begin(tr) PROVE DueIsKept'
    BY <1>3
  <2>1. clock' = clock /\ task.pc = "idle" /\ (due <= retryAfter \/ due <= clock)
    BY <1>1 DEF Begin, DueIsKept
  <2>2. CASE tr = "manual"
    <3>1. due' = 0 /\ retryAfter' = 0 BY <2>2 DEF Begin
    <3>2. task' = task \/ (task'.at = clock /\ task'.pc = "plan")
      BY DEF Begin, Goto, Idle
    <3> QED BY <1>1, <2>1, <3>1, <3>2 DEF DueIsKept
  <2>3. CASE tr = "schedule"
    <3>1. due' = due /\ retryAfter' = retryAfter BY <2>3 DEF Begin
    <3>2. task' = task \/ (task'.at = clock /\ task'.pc = "plan" /\ ~Held)
      BY <2>3 DEF Begin, Goto, Idle
    <3> QED BY <1>1, <2>1, <3>1, <3>2 DEF DueIsKept, Held
  <2> QED BY <2>2, <2>3 DEF Triggers
<1>4. CASE Plan \/ QuerySucceeds \/ FailBilled \/ Store \/ ReadFailures \/ WriteFailures
  <2>1. /\ due' = due /\ task.pc # "idle" /\ task'.pc # "idle" /\ task'.at = task.at
    BY <1>1, <1>4 DEF Plan, QuerySucceeds, FailBilled, Store, ReadFailures, WriteFailures,
                      Goto, TaskType, history
  <2> QED BY <1>1, <2>1 DEF DueIsKept
<1>5. CASE PlanIsEmpty \/ FailUnbilled \/ Stop
  <2>1. due' = due /\ clock' = clock /\ task.pc # "idle" /\ task'.pc = "idle"
    BY <1>2, <1>5 DEF PlanIsEmpty, FailUnbilled, Stop, End, history
  <2> QED BY <1>1, <2>1 DEF DueIsKept
<1>6. CASE Succeed \/ Resume \/ Crash
  <2>1. /\ due' = 0 /\ clock' = clock /\ task' \in {task, Idle}
    BY <1>6 DEF Succeed, Resume, Crash, End
  <2> QED BY <1>1, <1>2, <2>1 DEF DueIsKept
<1>7. CASE Decide
  <2>1. CASE TooMany(Cardinality(Active(failures, task.at)))
    <3>1. due' = task.at /\ task'.pc = "stop" /\ task'.at = task.at
      BY <1>1, <1>7, <2>1 DEF Decide, Goto, TaskType
    <3> QED BY <1>1, <3>1 DEF DueIsKept
  <2>2. CASE ~TooMany(Cardinality(Active(failures, task.at)))
    <3>1. /\ task'.pc = "idle" /\ due' = retryAfter'
          /\ retryAfter' = task.at + BackoffFor(Cardinality(Active(failures, task.at)))
      BY <1>2, <1>7, <2>2 DEF Decide, End
    <3>2. retryAfter' \in Nat
      <4>1. TypeOK BY DEF IInv
      <4> QED BY <1>1, <3>1, <4>1, DelayTypes
    <3> QED BY <3>1, <3>2 DEF DueIsKept
  <2> QED BY <2>1, <2>2
<1>8. CASE Advance
  <2>1. clock' = clock + 1 /\ UNCHANGED <<task, due, retryAfter>>
    BY <1>8 DEF Advance, memory, history
  <2> QED BY <1>1, <2>1 DEF DueIsKept
<1>9. CASE Outlast
  <2>1. due' = 0 /\ task' = task /\ task.pc = "idle" /\ clock' = clock BY <1>9 DEF Outlast
  <2> QED BY <1>1, <2>1 DEF DueIsKept
<1>10. CASE Export \/ UNCHANGED vars
  <2>1. UNCHANGED <<clock, task, due, retryAfter>>
    BY <1>10 DEF Export, vars, memory, history
  <2> QED BY <1>1, <2>1 DEF DueIsKept
<1> QED BY <1>3, <1>4, <1>5, <1>6, <1>7, <1>8, <1>9, <1>10 DEF Next

\* The initial states: nothing recorded, nothing synced.
LEMMA InitHolds == Init => IInv
<1> SUFFICES ASSUME Init PROVE IInv
  OBVIOUS
<1>1. clock \in DayLen .. MaxTime
  BY ConstantsAssumption DEF Init
<1>2. today \in Days /\ 0 \in Days /\ today \in Int /\ today >= 1
  BY <1>1, Calendar, ConstantsAssumption DEF today, Days
<1>3. task \in TaskType /\ task.pc = "idle"
  <2>1. <<>> \in Seq(Hours) /\ 0 \in Hours BY ConstantsAssumption DEF Hours
  <2> QED BY <1>2, <2>1 DEF Init, Idle, TaskType, Triggers
<1>4. TypeOK
  <2>1. exported \in -1 .. today BY <1>2 DEF Init
  <2>2. ticked \in -1 .. clock
    BY <1>1, ConstantsAssumption DEF Init
  <2>3. 0 \in 0 .. MaxCrashes /\ <<>> \in Seq(Hours) BY ConstantsAssumption
  <2>4. failures \in Seq(Hours) /\ billed \in Seq(Hours) /\ crashes \in 0 .. MaxCrashes
    BY <2>3 DEF Init
  <2>5. retryAfter \in Nat /\ unbilled \in 0 .. 6 /\ due \in Nat
    BY DEF Init
  <2>6. stored \in SUBSET Days /\ cursor = None /\ coverageFrom = None
        /\ stopped \in BOOLEAN /\ resumed \in BOOLEAN
    BY DEF Init
  <2> QED BY <1>1, <1>3, <2>1, <2>2, <2>4, <2>5, <2>6 DEF TypeOK
<1>5. SyncedDaysStored /\ TaskContinues
  BY <1>3 DEF Init, SyncedDaysStored, TaskContinues
<1>6. RecordedWereBilled
  BY <1>3, CountNone DEF Init, RecordedWereBilled
<1>7. RunAlone
  BY <1>3, <1>6 DEF Init, RunAlone
<1>8. NotDelayed /\ DueIsKept /\ RunFree
  BY <1>1, <1>3, ConstantsAssumption DEF Init, NotDelayed, DueIsKept, RunFree
<1>9. BilledAreRecorded /\ BeforeLimit
  <2>1. billed = <<>> /\ failures = <<>> /\ crashes = 0 /\ ~stopped BY DEF Init
  <2>2. \A t : Cardinality(Recent(<<>>, t)) = 0 BY CountNone
  <2> QED BY <1>3, <2>1, <2>2, ConstantsAssumption DEF BilledAreRecorded, BeforeLimit, Recorded
<1> QED BY <1>4, <1>5, <1>7, <1>8, <1>9 DEF IInv

LEMMA Invariance == Spec => []IInv
<1>1. IInv /\ [Next]_vars => IInv'
  BY TypeStep, ContinuesStep, SyncedStep, RunFreeStep, RecordedStep, LimitStep, RunAloneStep,
     NotDelayedStep, DueStep
  DEF IInv
<1> QED BY <1>1, InitHolds, PTL DEF Spec

\* Every variable of a daily job keeps its type, for every calendar and policy.
THEOREM TypeCorrect == Spec => []TypeOK
<1>1. IInv => TypeOK BY DEF IInv
<1> QED BY <1>1, Invariance, PTL

\* The cursor never passes over a day (scam_radar_sync.go:21), whatever the chunks,
\* the cadence, the export's lag, the failures and the restarts.
THEOREM SyncedDaysAreStored == Spec => []SyncedDaysStored
<1>1. IInv => SyncedDaysStored BY DEF IInv
<1> QED BY <1>1, Invariance, PTL

\* In one window a job never bills more failures than its limit, and one more for each death
\* of the process: for any limit, window, back-off and calendar, with manual runs and an
\* operator who resumes the job in the middle of a run (README.md:431).
THEOREM FailuresAreBounded == Spec => []BilledFailuresBounded
<1>1. IInv => BilledFailuresBounded
  <2> SUFFICES ASSUME IInv PROVE Cardinality(Recent(billed, clock)) <= MaxBilled + crashes
    BY DEF BilledFailuresBounded
  <2>1. billed \in Seq(Hours) /\ clock \in Int /\ crashes \in Nat /\ BeforeLimit
    BY ConstantsAssumption DEF IInv, TypeOK
  <2>2. Cardinality(Recent(billed, clock)) \in Nat BY <2>1, CountType
  <2> QED BY <2>1, <2>2, ConstantsAssumption DEF BeforeLimit
<1> QED BY <1>1, Invariance, PTL

\* No scheduled query starts before the back-off of the last billed failure is over
\* (README.md:431), in a job without manual runs or whose manual runs clear the back-off.
THEOREM BackoffIsHonoured ==
  ASSUME ~Manual \/ ManualClears PROVE Spec => BackoffHonoured
<1>1. IInv /\ [Next]_vars =>
        [task'.pc = "query" /\ task.pc = "plan" /\ task.trigger = "schedule"
           => task.at >= due]_vars
  <2> SUFFICES ASSUME IInv, task.pc = "plan" PROVE task.at >= due
    OBVIOUS
  <2>1. task.at \in Int /\ due \in Int /\ due <= task.at
    BY ConstantsAssumption DEF IInv, TypeOK, TaskType, Hours, DueIsKept
  <2> QED BY <2>1
<1> QED BY <1>1, Invariance, PTL DEF Spec, BackoffHonoured

\* A job stops only for its limit of billed failures since its last success or
\* resume, in its window, if only a stopped job is resumed.
THEOREM StopsOnlyForBilledFailures == ASSUME ~ResumeAny PROVE Spec => StopsForBilledFailures
<1>1. IInv /\ [Next]_vars =>
        [stopped' /\ ~stopped => Cardinality(Recent(billed, task.at)) >= MaxBilled]_vars
  <2> SUFFICES ASSUME IInv, [Next]_vars, stopped', ~stopped
               PROVE  Cardinality(Recent(billed, task.at)) >= MaxBilled
    OBVIOUS
  <2>1. Stop
    BY DEF Next, Begin, Plan, PlanIsEmpty, FailUnbilled, QuerySucceeds, FailBilled, Store,
           Succeed, ReadFailures, WriteFailures, Decide, Resume, Crash, Advance, Outlast,
           Export, Clear, vars, db
  <2>2. task.pc = "stop" /\ RunAlone /\ TypeOK BY <2>1 DEF Stop, IInv
  <2>3. task.at \in Hours /\ task.at \in Int /\ failures \in Seq(Hours) /\ billed \in Seq(Hours)
    BY <2>2, ConstantsAssumption DEF TypeOK, TaskType, Hours
  <2>4. Cardinality(Recent(failures, task.at)) >= MaxBilled BY <2>2 DEF RunAlone
  <2>5. /\ Cardinality(Recent(failures, task.at)) \in Nat
        /\ Cardinality(Recent(billed, task.at)) \in Nat
    BY <2>3, CountType
  <2>6. Cardinality(Recent(failures, task.at)) + 0 <= Cardinality(Recent(billed, task.at))
    BY <2>2, <2>3 DEF RunAlone, RecordedWereBilled
  <2> QED BY <2>4, <2>5, <2>6, ConstantsAssumption
<1> QED BY <1>1, Invariance, PTL DEF Spec, StopsForBilledFailures

\* A job whose manual runs clear the back-off (the stablecoin jobs), or that has no
\* manual runs, runs on the first tick after its resume.
THEOREM ResumesOnNextTick ==
  ASSUME ~Manual \/ ManualClears PROVE Spec => ResumeTakesEffect
<1>1. IInv /\ [Next]_vars => [ticked' # ticked /\ resumed => ~Held]_vars
  <2> SUFFICES ASSUME IInv, resumed PROVE ~Held
    OBVIOUS
  <2>1. retryAfter <= clock /\ retryAfter \in Nat /\ clock \in Nat
    BY ConstantsAssumption DEF IInv, NotDelayed, TypeOK
  <2> QED BY <2>1 DEF Held
<1> QED BY <1>1, Invariance, PTL DEF Spec, ResumeTakesEffect

-----------------------------------------------------------------------------
(* The slots of a daily job *)

\* Where an actor can be.
Spots == {"idle", "ask", "done"} \cup Holding

LEMMA GoroutinesFinite ==
  ASSUME SlotsTypeOK
  PROVE  IsFiniteSet(Goroutines) /\ Cardinality(Goroutines) \in Nat
<1>1. Goroutines \in SUBSET Requests BY DEF Goroutines
<1>2. IsFiniteSet(Goroutines) BY <1>1, SlotsAssumption, FS_Subset
<1> QED BY <1>2, FS_CardinalityType

\* A step of one actor that takes the job, or keeps what it has of it.
LEMMA SlotStep ==
  ASSUME SlotsTypeOK, OneRunAtATime, FlagMeansHeld, NEW a \in Actors, NEW l \in Spots,
         pc' = [pc EXCEPT ![a] = l],
         \/ l \in Holding /\ running' /\ (~running \/ pc[a] \in Holding)
         \/ l \notin Holding /\ pc[a] \in Holding /\ ~running'
         \/ l \notin Holding /\ pc[a] \notin Holding /\ running' = running
  PROVE  OneRunAtATime' /\ FlagMeansHeld'
<1>1. pc'[a] = l /\ \A b \in Actors \ {a} : pc'[b] = pc[b] BY DEF SlotsTypeOK
<1>2. running \in BOOLEAN BY DEF SlotsTypeOK
<1> QED BY <1>1, <1>2 DEF OneRunAtATime, FlagMeansHeld

\* A step of one request that does not enter or leave its goroutine.
LEMMA CountStep ==
  ASSUME SlotsTypeOK, NEW a \in Actors, NEW l,
         pc' = [pc EXCEPT ![a] = l],
         a = Loop \/ (pc[a] \in InGoroutine <=> l \in InGoroutine)
  PROVE  Goroutines' = Goroutines
<1>1. pc'[a] = l /\ \A b \in Actors \ {a} : pc'[b] = pc[b] BY DEF SlotsTypeOK
<1> QED BY <1>1, SlotsAssumption DEF Goroutines, Actors

\* What is left of the invariant when the goroutines stay the same.
LEMMA SameGoroutines ==
  ASSUME SlotsInv, Goroutines' = Goroutines, waiting' = waiting, cancelled' = cancelled,
         server' = server
  PROVE  NoRunAfterWait' /\ waiting' = Cardinality(Goroutines')
         /\ (server' # "serving" => cancelled')
<1>1. server = "returned" => Goroutines = {} BY DEF SlotsInv, NoRunAfterWait, Goroutines
<1>2. server' = "returned" => Goroutines' = {} BY <1>1
<1>3. NoRunAfterWait' BY <1>2 DEF NoRunAfterWait, Goroutines
<1> QED BY <1>3 DEF SlotsInv

\* The types.
LEMMA SlotTypesStep == SlotsTypeOK /\ waiting = Cardinality(Goroutines) /\ [SlotsNext]_slotVars => SlotsTypeOK'
<1> SUFFICES ASSUME SlotsTypeOK, waiting = Cardinality(Goroutines), [SlotsNext]_slotVars PROVE SlotsTypeOK'
  OBVIOUS
<1> USE DEF SlotsTypeOK, MoveTo, Holding
<1>1. ASSUME NEW r \in Requests, Arrive(r) \/ Ask(r) \/ Estimate(r) \/ EstimateFails(r)
      PROVE  SlotsTypeOK'
  <2>1. pc' = pc \/ \E l \in {"idle", "ask", "estimate", "start"} : pc' = [pc EXCEPT ![r] = l]
    BY <1>1 DEF Arrive, Ask, Estimate, EstimateFails, Abort
  <2>2. /\ pc' \in [Actors -> {"idle", "ask", "done"} \cup Holding]
        /\ pc'[Loop] \in {"idle", "run", "free"}
    BY <2>1, SlotsAssumption DEF Actors
  <2>3. now' \in [Requests -> 0 .. LastMinute] /\ running' \in BOOLEAN
    BY <1>1 DEF Arrive, Ask, Estimate, EstimateFails, Abort
  <2> QED BY <1>1, <2>2, <2>3 DEF Arrive, Ask, Estimate, EstimateFails
<1>2. ASSUME NEW r \in Requests, Start(r) PROVE SlotsTypeOK'
  <2>1. \E l \in {"idle", "run"} : pc' = [pc EXCEPT ![r] = l]
    BY <1>2 DEF Start, Abort
  <2>2. /\ pc' \in [Actors -> {"idle", "ask", "done"} \cup Holding]
        /\ pc'[Loop] \in {"idle", "run", "free"}
    BY <2>1, SlotsAssumption DEF Actors
  <2>3. /\ now[r] \in Int /\ Never \in Int /\ waiting + 1 \in Nat
    BY SlotsAssumption DEF Never
  <2>4. /\ running' \in BOOLEAN /\ waiting' \in Nat
        /\ lastManualAt' \in Int /\ lastStart' \in Int /\ freeAt' \in Int
    BY <1>2, <2>3 DEF Start, Abort
  <2> QED BY <1>2, <2>2, <2>4 DEF Start
<1>3. ASSUME NEW r \in Requests, ManualEnds(r) PROVE SlotsTypeOK'
  <2>1. Shortened \in Int BY SlotsAssumption DEF Shortened
  <2> QED BY <1>3, <2>1, SlotsAssumption DEF ManualEnds, Actors
<1>4. ASSUME NEW r \in Requests, Done(r) PROVE SlotsTypeOK'
  <2>1. r \in Goroutines BY <1>4 DEF Done, Goroutines, InGoroutine
  <2>2. waiting # 0 BY <2>1, GoroutinesFinite, FS_EmptySet
  <2> QED BY <1>4, <2>2, SlotsAssumption DEF Done, Actors
<1>5. ASSUME NEW a \in Actors, Free(a) PROVE SlotsTypeOK'
  BY <1>5, SlotsAssumption DEF Free, Actors
<1>6. CASE Tick \/ ScheduledEnds
  BY <1>6, SlotsAssumption DEF Tick, ScheduledEnds, Actors
<1>7. CASE Signal \/ Drained \/ Return
  BY <1>7 DEF Signal, Drained, Return
<1>8. CASE MinutePasses
  BY <1>8, SlotsAssumption DEF MinutePasses
<1>9. CASE UNCHANGED slotVars
  BY <1>9 DEF slotVars
<1> QED BY <1>1, <1>2, <1>3, <1>4, <1>5, <1>6, <1>7, <1>8, <1>9 DEF SlotsNext

LEMMA SlotsNextHolds == SlotsInv /\ [SlotsNext]_slotVars => SlotsInv'
<1> SUFFICES ASSUME SlotsInv, [SlotsNext]_slotVars PROVE SlotsInv'
  OBVIOUS
<1>1. SlotsTypeOK' /\ SlotsTypeOK /\ OneRunAtATime /\ FlagMeansHeld BY SlotTypesStep DEF SlotsInv
<1>2. Requests \subseteq Actors /\ Loop \in Actors BY DEF Actors
<1>3. ASSUME NEW a \in Actors, NEW l \in Spots, pc' = [pc EXCEPT ![a] = l],
             OneRunAtATime' /\ FlagMeansHeld', waiting' = waiting, cancelled' = cancelled,
             server' = server, a = Loop \/ (pc[a] \in InGoroutine <=> l \in InGoroutine)
      PROVE  SlotsInv'
  <2>1. Goroutines' = Goroutines BY <1>1, <1>3, CountStep
  <2> QED BY <1>1, <1>3, <2>1, SameGoroutines DEF SlotsInv
<1>4. ASSUME NEW r \in Requests, Arrive(r) PROVE SlotsInv'
  <2>1. pc' = [pc EXCEPT ![r] = "ask"] /\ pc[r] = "idle" /\ running' = running
    BY <1>4 DEF Arrive, MoveTo
  <2>2. OneRunAtATime' /\ FlagMeansHeld'
    BY <1>1, <1>2, <2>1, SlotStep DEF Spots, Holding
  <2> QED BY <1>2, <1>3, <1>4, <2>1, <2>2 DEF Arrive, Spots, Holding, InGoroutine
<1>5. ASSUME NEW r \in Requests, Ask(r) PROVE SlotsInv'
  <2>1. PICK l \in {"idle", "estimate"} :
          /\ pc' = [pc EXCEPT ![r] = l]
          /\ IF l = "idle" THEN running' = running ELSE running' /\ ~running
    BY <1>5 DEF Ask, MoveTo, MayStart
  <2>2. pc[r] = "ask" BY <1>5 DEF Ask
  <2>3. OneRunAtATime' /\ FlagMeansHeld'
    BY <1>1, <1>2, <2>1, <2>2, SlotStep DEF Spots, Holding
  <2> QED BY <1>2, <1>3, <1>5, <2>1, <2>2, <2>3 DEF Ask, Spots, Holding, InGoroutine
<1>6. ASSUME NEW r \in Requests, Estimate(r) PROVE SlotsInv'
  <2>1. pc' = [pc EXCEPT ![r] = "start"] /\ pc[r] = "estimate" /\ running' = running
    BY <1>6 DEF Estimate, MoveTo
  <2>2. running' BY <1>1, <1>2, <2>1 DEF FlagMeansHeld, Holding
  <2>3. OneRunAtATime' /\ FlagMeansHeld'
    BY <1>1, <1>2, <2>1, <2>2, SlotStep DEF Spots, Holding
  <2> QED BY <1>2, <1>3, <1>6, <2>1, <2>3 DEF Estimate, Spots, Holding, InGoroutine
<1>7. ASSUME NEW r \in Requests, pc[r] \in {"estimate", "start"}, Abort(r),
             waiting' = waiting, cancelled' = cancelled, server' = server
      PROVE  SlotsInv'
  <2>1. pc' = [pc EXCEPT ![r] = "idle"] /\ ~running' BY <1>7 DEF Abort, MoveTo
  <2>2. OneRunAtATime' /\ FlagMeansHeld'
    BY <1>1, <1>2, <1>7, <2>1, SlotStep DEF Spots, Holding
  <2> QED BY <1>2, <1>3, <1>7, <2>1, <2>2 DEF Spots, Holding, InGoroutine
<1>8. ASSUME NEW r \in Requests, Start(r) PROVE SlotsInv'
  <2>1. CASE cancelled BY <1>7, <1>8, <2>1 DEF Start, Refused
  <2>2. CASE ~cancelled
    <3>1. /\ pc' = [pc EXCEPT ![r] = "run"] /\ pc[r] = "start" /\ running' = running
          /\ waiting' = waiting + 1 /\ server' = server /\ cancelled' = cancelled
      BY <1>8, <2>2 DEF Start, Refused, MoveTo
    <3>2. running' BY <1>1, <1>2, <3>1 DEF FlagMeansHeld, Holding
    <3>3. OneRunAtATime' /\ FlagMeansHeld'
      BY <1>1, <1>2, <3>1, <3>2, SlotStep DEF Spots, Holding
    <3>4. Goroutines' = Goroutines \cup {r} /\ r \notin Goroutines
      <4>1. pc'[r] = "run" /\ \A b \in Actors \ {r} : pc'[b] = pc[b]
        BY <1>1, <1>2, <3>1 DEF SlotsTypeOK
      <4> QED BY <1>2, <3>1, <4>1 DEF Goroutines, InGoroutine
    <3>5. waiting' = Cardinality(Goroutines')
      BY <1>1, <3>1, <3>4, GoroutinesFinite, FS_AddElement DEF SlotsInv
    <3>6. server' = "serving" BY <2>2, <3>1 DEF SlotsInv
    <3> QED BY <1>1, <3>3, <3>5, <3>6 DEF SlotsInv, NoRunAfterWait
  <2> QED BY <2>1, <2>2
<1>9. ASSUME NEW r \in Requests, EstimateFails(r) PROVE SlotsInv'
  BY <1>7, <1>9 DEF EstimateFails
<1>10. ASSUME NEW r \in Requests, ManualEnds(r) PROVE SlotsInv'
  <2>1. pc' = [pc EXCEPT ![r] = "free"] /\ pc[r] = "run" /\ running' = running
    BY <1>10 DEF ManualEnds, MoveTo
  <2>2. running' BY <1>1, <1>2, <2>1 DEF FlagMeansHeld, Holding
  <2>3. OneRunAtATime' /\ FlagMeansHeld'
    BY <1>1, <1>2, <2>1, <2>2, SlotStep DEF Spots, Holding
  <2> QED BY <1>2, <1>3, <1>10, <2>1, <2>3 DEF ManualEnds, Spots, Holding, InGoroutine
<1>11. ASSUME NEW r \in Requests, Done(r) PROVE SlotsInv'
  <2>1. /\ pc' = [pc EXCEPT ![r] = "idle"] /\ pc[r] = "done" /\ running' = running
        /\ waiting' = waiting - 1 /\ server' = server /\ cancelled' = cancelled
    BY <1>11 DEF Done, MoveTo
  <2>2. OneRunAtATime' /\ FlagMeansHeld'
    BY <1>1, <1>2, <2>1, SlotStep DEF Spots, Holding
  <2>3. Goroutines' = Goroutines \ {r} /\ r \in Goroutines
    <3>1. pc'[r] = "idle" /\ \A b \in Actors \ {r} : pc'[b] = pc[b]
      BY <1>1, <1>2, <2>1 DEF SlotsTypeOK
    <3> QED BY <1>2, <2>1, <3>1 DEF Goroutines, InGoroutine
  <2>4. waiting' = Cardinality(Goroutines')
    BY <1>1, <2>1, <2>3, GoroutinesFinite, FS_RemoveElement DEF SlotsInv
  <2>5. server # "returned" BY <2>3 DEF SlotsInv, NoRunAfterWait, Goroutines
  <2> QED BY <1>1, <2>1, <2>2, <2>4, <2>5 DEF SlotsInv, NoRunAfterWait
<1>12. ASSUME NEW a \in Actors, Free(a) PROVE SlotsInv'
  <2>1. PICK l \in {"idle", "done"} :
          pc' = [pc EXCEPT ![a] = l] /\ (a = Loop \/ l = "done")
    BY <1>12 DEF Free, MoveTo
  <2>2. pc[a] = "free" /\ ~running' BY <1>12 DEF Free
  <2>3. OneRunAtATime' /\ FlagMeansHeld'
    BY <1>1, <2>1, <2>2, SlotStep DEF Spots, Holding
  <2> QED BY <1>3, <1>12, <2>1, <2>2, <2>3 DEF Free, Spots, Holding, InGoroutine
<1>13. CASE Tick
  <2>1. pc' = [pc EXCEPT ![Loop] = "run"] /\ pc[Loop] = "idle" /\ running' /\ ~running
    BY <1>13 DEF Tick, MaySchedule, MoveTo
  <2>2. OneRunAtATime' /\ FlagMeansHeld'
    BY <1>1, <1>2, <2>1, SlotStep DEF Spots, Holding
  <2> QED BY <1>2, <1>3, <1>13, <2>1, <2>2 DEF Tick, Spots, Holding
<1>14. CASE ScheduledEnds
  <2>1. pc' = [pc EXCEPT ![Loop] = "free"] /\ pc[Loop] = "run" /\ running' = running
    BY <1>14 DEF ScheduledEnds, MoveTo
  <2>2. running' BY <1>1, <1>2, <2>1 DEF FlagMeansHeld, Holding
  <2>3. OneRunAtATime' /\ FlagMeansHeld'
    BY <1>1, <1>2, <2>1, <2>2, SlotStep DEF Spots, Holding
  <2> QED BY <1>2, <1>3, <1>14, <2>1, <2>3 DEF ScheduledEnds, Spots, Holding
<1>15. CASE Signal \/ Drained \/ Return \/ MinutePasses \/ UNCHANGED slotVars
  <2>1. pc' = pc /\ running' = running /\ waiting' = waiting
        /\ (server' # "serving" => cancelled')
    <3>1. CASE Signal BY <3>1 DEF Signal
    <3>2. CASE Drained \/ Return BY <3>2 DEF Drained, Return, Waited, SlotsInv
    <3>3. CASE MinutePasses \/ UNCHANGED slotVars BY <3>3 DEF MinutePasses, slotVars, SlotsInv
    <3> QED BY <1>15, <3>1, <3>2, <3>3
  <2>2. OneRunAtATime' /\ FlagMeansHeld' /\ Goroutines' = Goroutines
    BY <1>1, <2>1 DEF OneRunAtATime, FlagMeansHeld, Goroutines
  <2>3. server' = "returned" => Goroutines = {}
    <3>1. CASE Return
      <4>1. waiting = 0 BY <3>1 DEF Return, Waited
      <4> QED BY <1>1, <4>1, GoroutinesFinite, FS_EmptySet DEF SlotsInv
    <3>2. CASE ~Return
      <4>1. server' = "returned" => server = "returned"
        BY <1>15, <3>2 DEF Signal, Drained, MinutePasses, slotVars
      <4> QED BY <4>1 DEF SlotsInv, NoRunAfterWait, Goroutines
    <3> QED BY <3>1, <3>2
  <2>4. NoRunAfterWait' BY <2>2, <2>3 DEF NoRunAfterWait, Goroutines
  <2> QED BY <1>1, <2>1, <2>2, <2>4 DEF SlotsInv
<1> QED BY <1>4, <1>5, <1>6, <1>8, <1>9, <1>10, <1>11, <1>12, <1>13, <1>14, <1>15 DEF SlotsNext

LEMMA SlotsInitHolds == SlotsInit => SlotsInv
<1> SUFFICES ASSUME SlotsInit PROVE SlotsInv
  OBVIOUS
<1>1. SlotsTypeOK
  <2>1. Never \in Int /\ 0 \in 0 .. LastMinute BY SlotsAssumption DEF Never
  <2>2. pc \in [Actors -> {"idle"}] /\ pc[Loop] = "idle" BY DEF SlotsInit, Actors
  <2>3. now \in [Requests -> 0 .. LastMinute] BY <2>1 DEF SlotsInit
  <2> QED BY <2>1, <2>2, <2>3 DEF SlotsInit, SlotsTypeOK
<1>2. \A a \in Actors : pc[a] \notin Holding BY DEF SlotsInit, Holding
<1>3. Goroutines = {} BY DEF SlotsInit, Goroutines, InGoroutine, Actors
<1>4. waiting = Cardinality(Goroutines) BY <1>3, FS_EmptySet DEF SlotsInit
<1> QED BY <1>1, <1>2, <1>4 DEF SlotsInit, SlotsInv, OneRunAtATime, FlagMeansHeld, NoRunAfterWait

LEMMA SlotsInvariance == SlotsSpec => []SlotsInv
BY SlotsInitHolds, SlotsNextHolds, PTL DEF SlotsSpec

\* The variables of the runner keep their types.
THEOREM SlotsTypeCorrect == SlotsSpec => []SlotsTypeOK
<1>1. SlotsInv => SlotsTypeOK BY DEF SlotsInv
<1> QED BY <1>1, SlotsInvariance, PTL

\* One run of the job at a time, for any number of requests.
THEOREM OneRun == SlotsSpec => []OneRunAtATime
<1>1. SlotsInv => OneRunAtATime BY DEF SlotsInv
<1> QED BY <1>1, SlotsInvariance, PTL

\* No manual run outlives the wait at the end of the server.
THEOREM NoLateRun == SlotsSpec => []NoRunAfterWait
<1>1. SlotsInv => NoRunAfterWait BY DEF SlotsInv
<1> QED BY <1>1, SlotsInvariance, PTL
=============================================================================
