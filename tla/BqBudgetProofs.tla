-------------------------- MODULE BqBudgetProofs --------------------------
(* Proofs about BqBudget for every set of actors and jobs and every bound. *)
EXTENDS BqBudget, FiniteSetTheorems, TLAPS

\* A time's month index is within Months.
LEMMA MonthType == \A t \in Times : Month(t) \in Months
<1> SUFFICES ASSUME NEW t \in Times PROVE Month(t) \in Months
  OBVIOUS
<1>1. t \div MonthLen \in Int /\ 0 <= t \div MonthLen /\ t \div MonthLen <= t
  BY ConstantsAssumption DEF Times
<1> QED BY <1>1, ConstantsAssumption DEF Month, Months, Times

\* A reservation covers the estimate it is made for and respects the hard cap.
LEMMA SizedType == \A est \in Estimates : est <= HardCap =>
  /\ est \in Nat /\ SizedReservation(est) \in Nat
  /\ est <= SizedReservation(est) /\ SizedReservation(est) <= HardCap
BY ConstantsAssumption DEF SizedReservation, AtMost, AtLeast

\* Summing a row's bills gives a number.
LEMMA BilledType == ASSUME TypeOK, NEW id \in Ids, NEW S PROVE Billed(id, S) \in Nat
<1>1. query[id][1] \in QueryType /\ query[id][2] \in QueryType BY DEF TypeOK, Slots
<1> QED BY <1>1 DEF Billed, QueryType

\* What SettleTx does to the types, for a row id and a bill that is a number.
LEMMA SettleType ==
  ASSUME TypeOK, NEW id \in Ids, NEW billed \in Nat, SettleTx(id, billed)
  PROVE  /\ live' \subseteq Ids
         /\ ledger' \in [Months -> Nat]
         /\ credited' \in [Ids -> Nat \union {Never}]
<1>1. Month(row[id].created) \in Months BY MonthType DEF TypeOK, RowType
<1>2. AtLeast(credited[id], 0) + billed \in Nat BY DEF TypeOK, AtLeast, Never
<1>3. CASE id \in live
  <2>1. ledger[Month(row[id].created)] + billed \in Nat BY <1>1 DEF TypeOK
  <2> QED BY <1>1, <1>2, <1>3, <2>1 DEF SettleTx, Charge, TypeOK
<1>4. CASE id \notin live
  BY <1>4 DEF SettleTx, TypeOK
<1> QED BY <1>3, <1>4

\* The initial state is well typed.
LEMMA TypeInit == Init => TypeOK
BY ConstantsAssumption DEF Init, TypeOK, Ids, Times, Months, RowType, Idle, RunType, NoQuery, QueryType, Slots, Never

\* Moving an actor to another program counter, and making it idle, keep its type.
LEMMA PcType ==
  ASSUME TypeOK, NEW a \in Actors,
         NEW pc \in {"idle", "recover", "ready", "submit", "attach", "wait", "settle"}
  PROVE  /\ [run EXCEPT ![a].pc = pc] \in [Actors -> RunType]
         /\ [run EXCEPT ![a] = Idle] \in [Actors -> RunType]
         /\ [run EXCEPT ![a] = Ready] \in [Actors -> RunType]
<1>1. [run[a] EXCEPT !.pc = pc] \in RunType
  <2>1. PICK r \in RunType : r = run[a] BY DEF TypeOK
  <2>2. [r EXCEPT !.pc = pc] \in RunType BY DEF RunType
  <2> QED BY <2>1, <2>2
<1>2. Idle \in RunType /\ Ready \in RunType BY DEF Idle, Ready, RunType, Slots
<1> QED BY <1>1, <1>2 DEF TypeOK

\* Every step keeps the types; Owners gives the id of a run that waits or settles.
LEMMA TypeStep == TypeOK /\ Owners /\ [Next]_vars => TypeOK'
<1> SUFFICES ASSUME TypeOK, Owners, [Next]_vars PROVE TypeOK'
  OBVIOUS
<1>1. ASSUME NEW a \in Actors, RecoverSelect(a) PROVE TypeOK'
  <2>1. {[id |-> id, jobs |-> attached[id]] : id \in Stale} \in SUBSET [id : Ids, jobs : SUBSET Slots]
    BY DEF Stale, TypeOK
  <2>2. sweep' \in [Actors -> SUBSET [id : Ids, jobs : SUBSET Slots]]
    BY <1>1, <2>1 DEF RecoverSelect, TypeOK
  <2>3. run' \in [Actors -> RunType] BY <1>1, PcType DEF RecoverSelect
  <2> QED BY <1>1, <2>2, <2>3 DEF RecoverSelect, TypeOK, db
<1>2. ASSUME NEW a \in Actors, RecoverUnattached(a) PROVE TypeOK'
  <2>1. PICK r \in sweep[a] : SettleTx(r.id, row[r.id].bytes) /\ DropRow(a, r)
           /\ conservative' = IF r.id \in live
                THEN [conservative EXCEPT ![Month(row[r.id].created)] = @ + row[r.id].bytes]
                ELSE conservative
    BY <1>2 DEF RecoverUnattached
  <2>2. r \in [id : Ids, jobs : SUBSET Slots] BY DEF TypeOK
  <2>3. row[r.id] \in RowType /\ r.id \in Ids BY <2>2 DEF TypeOK
  <2>4. live' \subseteq Ids /\ ledger' \in [Months -> Nat] /\ credited' \in [Ids -> Nat \union {Never}]
    BY <2>1, <2>3, SettleType DEF RowType
  <2>5. Month(row[r.id].created) \in Months BY <2>3, MonthType DEF RowType
  <2>6. conservative' \in [Months -> Nat]
    <3>1. conservative[Month(row[r.id].created)] + row[r.id].bytes \in Nat
      BY <2>3, <2>5 DEF TypeOK, RowType
    <3> QED BY <2>1, <3>1, <2>5 DEF TypeOK
  <2>7. sweep' \in [Actors -> SUBSET [id : Ids, jobs : SUBSET Slots]] BY <2>1 DEF DropRow, TypeOK
  <2> QED BY <1>2, <2>4, <2>6, <2>7 DEF RecoverUnattached, TypeOK
<1>3. ASSUME NEW a \in Actors, RecoverAttached(a) PROVE TypeOK'
  <2>1. PICK r \in sweep[a] : SettleTx(r.id, Billed(r.id, r.jobs)) /\ DropRow(a, r)
    BY <1>3 DEF RecoverAttached
  <2>2. r.id \in Ids BY DEF TypeOK
  <2>3. live' \subseteq Ids /\ ledger' \in [Months -> Nat] /\ credited' \in [Ids -> Nat \union {Never}]
    BY <2>1, <2>2, BilledType, SettleType
  <2>4. sweep' \in [Actors -> SUBSET [id : Ids, jobs : SUBSET Slots]] BY <2>1 DEF DropRow, TypeOK
  <2> QED BY <1>3, <2>3, <2>4 DEF RecoverAttached, TypeOK
<1>4. ASSUME NEW a \in Actors, RecoverSkip(a) PROVE TypeOK'
  <2>1. sweep' \in [Actors -> SUBSET [id : Ids, jobs : SUBSET Slots]]
    BY <1>4 DEF RecoverSkip, DropRow, TypeOK
  <2> QED BY <1>4, <2>1 DEF RecoverSkip, TypeOK, db
<1>5a. ASSUME NEW a \in Actors, RecoverReturn(a) PROVE TypeOK'
  BY <1>5a, PcType DEF RecoverReturn, TypeOK, db
<1>5b. ASSUME NEW a \in Actors, RecoverFails(a) PROVE TypeOK'
  <2>1. sweep' \in [Actors -> SUBSET [id : Ids, jobs : SUBSET Slots]]
    BY <1>5b DEF RecoverFails, TypeOK
  <2> QED BY <1>5b, <2>1, PcType DEF RecoverFails, TypeOK, db
<1>5. ASSUME NEW a \in Actors, NEW job \in Jobs, NEW est \in Estimates, NEW force \in BOOLEAN,
             Reserve(a, job, est, force) PROVE TypeOK'
  <2>1. est \in Nat /\ SizedReservation(est) \in Nat BY <1>5, SizedType DEF Reserve
  <2>2. nextId \in Ids /\ nextId' \in 1 .. (MaxIds + 1)
    BY <1>5, ConstantsAssumption DEF Reserve, TypeOK, Ids
  <2>3. [job |-> job, bytes |-> SizedReservation(est), created |-> now, expires |-> now + TTL] \in RowType
    BY <2>1, ConstantsAssumption DEF RowType, TypeOK, Times
  <2>4. [Idle EXCEPT !.pc = "submit", !.id = nextId, !.est = est,
                     !.cap = SizedReservation(est), !.force = force] \in RunType
    BY <2>1, <2>2 DEF Idle, RunType, Slots
  <2> QED BY <1>5, <2>2, <2>3, <2>4 DEF Reserve, TypeOK
<1>6. ASSUME NEW a \in Actors, Leave(a) \/ GiveUp(a) \/ AttachFails(a) \/ SettleFails(a) PROVE TypeOK'
  <2>1. run' \in [Actors -> RunType]
    <3>1. CASE Leave(a) BY <3>1, PcType DEF Leave
    <3>2. CASE GiveUp(a) BY <3>2, PcType DEF GiveUp
    <3>3. CASE AttachFails(a) BY <3>3, PcType DEF AttachFails
    <3>4. CASE SettleFails(a) BY <3>4, PcType DEF SettleFails
    <3> QED BY <1>6, <3>1, <3>2, <3>3, <3>4
  <2> QED BY <1>6, <2>1 DEF Leave, GiveUp, AttachFails, SettleFails, TypeOK, db
<1>7. ASSUME NEW a \in Actors, Crash(a) PROVE TypeOK'
  <2>1. sweep' \in [Actors -> SUBSET [id : Ids, jobs : SUBSET Slots]] BY <1>7 DEF Crash, TypeOK
  <2> QED BY <1>7, <2>1, PcType DEF Crash, TypeOK, db
<1>8. ASSUME NEW a \in Actors, Submit(a) PROVE TypeOK'
  <2>1. run[a] \in RunType BY DEF TypeOK
  <2>2. [st |-> "running", cap |-> run[a].cap, billed |-> 0] \in QueryType
    BY <2>1 DEF QueryType, RunType
  <2>3. query' \in [Ids -> [Slots -> QueryType]]
    BY <1>8, <2>1, <2>2 DEF Submit, TypeOK, RunType
  <2> QED BY <1>8, <2>3, PcType DEF Submit, TypeOK, db
<1>9. ASSUME NEW a \in Actors, Attach(a) PROVE TypeOK'
  <2>1. attached' \in [Ids -> SUBSET Slots] BY <1>9 DEF Attach, TypeOK, RunType
  <2> QED BY <1>9, <2>1, PcType DEF Attach, TypeOK
<1>10. ASSUME NEW a \in Actors, run[a].pc \in {"wait", "settle"} PROVE
         run[a] \in RunType /\ run[a].id \in Ids /\ MyQuery(a) \in QueryType
  BY <1>10 DEF Owners, Working, MyQuery, TypeOK, RunType
<1>11. ASSUME NEW a \in Actors, CollectFirst(a) PROVE TypeOK'
  <2> DEFINE cap == SecondCap(row[run[a].id].job, run[a].cap, MyQuery(a).billed)
  <2>1. run[a] \in RunType /\ MyQuery(a) \in QueryType BY <1>10, <1>11 DEF CollectFirst
  <2>5. MyQuery(a).billed \in Nat /\ run[a].billed + MyQuery(a).billed \in Nat
    BY <2>1 DEF RunType, QueryType
  <2>2. cap \in Nat BY <1>11, <2>1 DEF CollectFirst, SecondCap, RunType, QueryType
  <2>3. [run[a] EXCEPT !.pc = "submit", !.slot = 2, !.cap = cap,
                       !.billed = @ + MyQuery(a).billed] \in RunType
    <3> HIDE DEF cap
    <3> QED BY <2>1, <2>2, <2>5 DEF RunType, Slots
  <2>4. run' \in [Actors -> RunType] BY <1>11, <2>3 DEF CollectFirst, TypeOK
  <2> QED BY <1>11, <2>4 DEF CollectFirst, TypeOK, db
<1>12. ASSUME NEW a \in Actors, NEW ok \in BOOLEAN, CollectLast(a, ok) PROVE TypeOK'
  <2>1. run[a] \in RunType /\ MyQuery(a) \in QueryType BY <1>10, <1>12 DEF CollectLast
  <2>4. run[a].billed + MyQuery(a).billed \in Nat BY <2>1 DEF RunType, QueryType
  <2>2. [run[a] EXCEPT !.pc = "settle", !.ok = ok, !.billed = @ + MyQuery(a).billed] \in RunType
    BY <2>1, <2>4 DEF RunType
  <2>3. run' \in [Actors -> RunType] BY <1>12, <2>2 DEF CollectLast, TypeOK
  <2> QED BY <1>12, <2>3 DEF CollectLast, TypeOK, db
<1>13. ASSUME NEW a \in Actors, Cancelled(a) PROVE TypeOK'
  <2>1. run[a] \in RunType /\ run[a].id \in Ids BY <1>10, <1>13 DEF Cancelled
  <2> PICK timedOut \in BOOLEAN :
        run' = [run EXCEPT ![a] = [run[a] EXCEPT !.pc = "settle",
                 !.billed = IF timedOut /\ run[a].billed = 0 THEN run[a].est ELSE @]]
    BY <1>13 DEF Cancelled
  <2>2. [run[a] EXCEPT !.pc = "settle",
           !.billed = IF timedOut /\ run[a].billed = 0 THEN run[a].est ELSE @] \in RunType
    BY <2>1 DEF RunType
  <2>3. run' \in [Actors -> RunType] BY <2>2 DEF TypeOK
  <2> QED BY <1>13, <2>1, <2>3 DEF Cancelled, TypeOK, db
<1>14. ASSUME NEW a \in Actors, Settle(a) \/ CommitBaseline(a) PROVE TypeOK'
  <2>1. run[a] \in RunType /\ run[a].id \in Ids BY <1>10, <1>14 DEF Settle, CommitBaseline
  <2>2. live' \subseteq Ids /\ ledger' \in [Months -> Nat] /\ credited' \in [Ids -> Nat \union {Never}]
    BY <1>14, <2>1, SettleType DEF Settle, CommitBaseline, RunType
  <2>3. run' = [run EXCEPT ![a] = Ready] BY <1>14 DEF Settle, CommitBaseline
  <2>4. run' \in [Actors -> RunType] BY <2>3, PcType
  <2> QED BY <1>14, <2>2, <2>4 DEF Settle, CommitBaseline, TypeOK
<1>15. ASSUME NEW id \in Ids, NEW s \in Slots, Finish(id, s) PROVE TypeOK'
  <2>1. PICK b \in 0 .. query[id][s].cap :
          query' = [query EXCEPT ![id][s].st = "done", ![id][s].billed = b]
    BY <1>15 DEF Finish
  <2>2. query[id][s] \in QueryType BY DEF TypeOK
  <2>3. b \in Nat BY <2>2 DEF QueryType
  <2>4. query' \in [Ids -> [Slots -> QueryType]] BY <2>1, <2>2, <2>3 DEF TypeOK, QueryType
  <2> QED BY <1>15, <2>4 DEF Finish, TypeOK, db
<1>16. ASSUME Tick PROVE TypeOK'
  BY <1>16, ConstantsAssumption DEF Tick, TypeOK, Times, db
<1>17. ASSUME UNCHANGED vars PROVE TypeOK'
  BY <1>17 DEF vars, TypeOK
<1> QED
  BY <1>1, <1>2, <1>3, <1>4, <1>5, <1>5a, <1>5b, <1>6, <1>7, <1>8, <1>9, <1>11, <1>12, <1>13, <1>14,
     <1>15, <1>16, <1>17 DEF Next, Recover, Run

---------------------------------------------------------------------------
(* Rows, owners and sweeps *)

\* SettleTx takes a live row to a charged one and touches no other.
LEMMA SettleRows ==
  ASSUME TypeOK, Rows, NEW id \in Ids, NEW billed \in Nat, SettleTx(id, billed),
         UNCHANGED <<now, nextId, row, attached, query>>
  PROVE  Rows'
<1>1. CASE id \notin live BY <1>1 DEF SettleTx, Rows, Expired, Month
<1>2. CASE id \in live
  <2>1. credited' = [credited EXCEPT ![id] = AtLeast(@, 0) + billed] /\ live' = live \ {id}
    BY <1>2 DEF SettleTx, Charge
  <2>2. AtLeast(credited[id], 0) + billed # Never BY DEF AtLeast, Never, TypeOK
  <2>3. credited'[id] # Never /\ \A i \in Ids \ {id} : credited'[i] = credited[i]
    BY <2>1, <2>2 DEF TypeOK
  <2> QED BY <1>2, <2>1, <2>3 DEF Rows
<1> QED BY <1>1, <1>2

\* A row stays live until its charge, and unused ids stay unused.
LEMMA RowsStep == TypeOK /\ Rows /\ Owners /\ [Next]_vars => Rows'
<1> SUFFICES ASSUME TypeOK, Rows, Owners, [Next]_vars PROVE Rows'
  OBVIOUS
<1>1. ASSUME UNCHANGED <<now, nextId, live, row, attached, query, credited>> PROVE Rows'
  BY <1>1 DEF Rows
<1>2. ASSUME NEW a \in Actors,
             RecoverSelect(a) \/ RecoverSkip(a) \/ RecoverReturn(a) \/ RecoverFails(a)
      PROVE Rows'
  BY <1>1, <1>2 DEF RecoverSelect, RecoverSkip, RecoverReturn, RecoverFails, db
<1>3. ASSUME NEW a \in Actors, RecoverUnattached(a) PROVE Rows'
  <2>1. PICK r \in sweep[a] : SettleTx(r.id, row[r.id].bytes)
    BY <1>3 DEF RecoverUnattached
  <2>2. r.id \in Ids BY DEF TypeOK
  <2>3. row[r.id].bytes \in Nat BY <2>2 DEF TypeOK, RowType
  <2> QED BY <1>3, <2>1, <2>2, <2>3, SettleRows DEF RecoverUnattached
<1>4. ASSUME NEW a \in Actors, RecoverAttached(a) PROVE Rows'
  <2>1. PICK r \in sweep[a] : SettleTx(r.id, Billed(r.id, r.jobs))
    BY <1>4 DEF RecoverAttached
  <2>2. r.id \in Ids BY DEF TypeOK
  <2> QED BY <1>4, <2>1, <2>2, BilledType, SettleRows DEF RecoverAttached
<1>5. ASSUME NEW a \in Actors, NEW job \in Jobs, NEW est \in Estimates, NEW force \in BOOLEAN,
             Reserve(a, job, est, force) PROVE Rows'
  <2>1. SizedReservation(est) \in Nat /\ SizedReservation(est) <= HardCap
    BY <1>5, SizedType DEF Reserve
  <2>2. nextId \in Ids /\ nextId' = nextId + 1 BY <1>5, ConstantsAssumption DEF Reserve, TypeOK, Ids
  <2>3. live' = live \union {nextId} /\ UNCHANGED <<now, attached, query, credited>>
    BY <1>5 DEF Reserve
  <2>4. row' = [row EXCEPT ![nextId] =
          [job |-> job, bytes |-> SizedReservation(est), created |-> now, expires |-> now + TTL]]
    BY <1>5 DEF Reserve
  <2>5. \A id \in Ids \ {nextId} : row'[id] = row[id] BY <2>4 DEF TypeOK
  <2>6. /\ row'[nextId].created = now /\ row'[nextId].expires = now + TTL
        /\ row'[nextId].bytes = SizedReservation(est)
    BY <2>2, <2>4 DEF TypeOK
  <2>7. now \in Int /\ nextId \in Int /\ Ids \subseteq Int /\ credited[nextId] = Never
    BY <2>2 DEF TypeOK, Times, Ids, Rows
  <2> QED BY <2>1, <2>2, <2>3, <2>5, <2>6, <2>7 DEF Rows
<1>6. ASSUME NEW a \in Actors,
             Leave(a) \/ GiveUp(a) \/ AttachFails(a) \/ SettleFails(a) \/ Cancelled(a) \/ Crash(a)
               \/ CollectFirst(a) \/ (\E ok \in BOOLEAN : CollectLast(a, ok))
      PROVE Rows'
  BY <1>1, <1>6 DEF Leave, GiveUp, AttachFails, SettleFails, Cancelled, Crash, CollectFirst, CollectLast, db
<1>7. ASSUME NEW a \in Actors, Submit(a) \/ Attach(a) PROVE Rows'
  <2>1. run[a].id \in live /\ run[a].id \in Ids
    BY <1>7 DEF Submit, Attach, Owners, Working, TypeOK
  <2>2. run[a].id < nextId BY <2>1 DEF Rows
  <2>3. /\ \A id \in Ids \ {run[a].id} : attached'[id] = attached[id] /\ query'[id] = query[id]
        /\ UNCHANGED <<now, nextId, live, row, credited>>
    <3>1. CASE Submit(a)
      <4>1. attached' = attached /\ UNCHANGED <<now, nextId, live, row, credited>>
        BY <3>1 DEF Submit, db
      <4>2. \A id \in Ids \ {run[a].id} : query'[id] = query[id]
        BY <3>1 DEF Submit, TypeOK
      <4> QED BY <4>1, <4>2
    <3>2. CASE Attach(a)
      <4>1. query' = query /\ UNCHANGED <<now, nextId, live, row, credited>>
        BY <3>2 DEF Attach
      <4>2. \A id \in Ids \ {run[a].id} : attached'[id] = attached[id]
        BY <3>2 DEF Attach, TypeOK
      <4> QED BY <4>1, <4>2
    <3> QED BY <1>7, <3>1, <3>2
  <2>4. \A id \in Ids : ~(id < nextId) => id # run[a].id BY <2>2
  <2> QED BY <2>1, <2>2, <2>3, <2>4 DEF Rows
<1>8. ASSUME NEW a \in Actors, Settle(a) \/ CommitBaseline(a) PROVE Rows'
  <2>1. run[a].id \in live /\ run[a].billed \in Nat
    BY <1>8 DEF Settle, CommitBaseline, Owners, Working, TypeOK, RunType
  <2>2. run[a].id \in Ids BY <2>1 DEF TypeOK
  <2> QED BY <1>8, <2>1, <2>2, SettleRows DEF Settle, CommitBaseline
<1>9. ASSUME NEW id \in Ids, NEW s \in Slots, Finish(id, s) PROVE Rows'
  <2>1. id < nextId BY <1>9 DEF Finish, Rows, NoQuery, TypeOK, Ids
  <2>2. \A i \in Ids : i >= nextId => query'[i] = query[i]
    BY <1>9, <2>1 DEF Finish, TypeOK, Ids
  <2> QED BY <1>9, <2>2 DEF Finish, Rows, TypeOK, Ids, db
<1>10. ASSUME Tick PROVE Rows'
  BY <1>10 DEF Tick, Rows, TypeOK, RowType, Times, db
<1>11. ASSUME UNCHANGED vars PROVE Rows'
  BY <1>1, <1>11 DEF vars
<1> QED
  BY <1>2, <1>3, <1>4, <1>5, <1>6, <1>7, <1>8, <1>9, <1>10, <1>11 DEF Next, Recover, Run

\* Owners survives a step after which every run still working was working
\* before, on the same row, which is still live and before its deadline.
LEMMA OwnersKept ==
  ASSUME Owners,
         \A b \in Actors : Working(b)' =>
           /\ Working(b) /\ run'[b].id = run[b].id /\ run'[b].est = run[b].est
           /\ run[b].id \in live' /\ row'[run[b].id] = row[run[b].id]
           /\ now' <= row[run[b].id].created + Timeout
  PROVE  Owners'
BY DEF Owners

\* A row that expired is not the row of a working run.
LEMMA ExpiredNotOwned ==
  ASSUME TypeOK, Rows, Owners, NEW id \in Ids, id < nextId, Expired(id),
         NEW a \in Actors, Working(a)
  PROVE  run[a].id # id
<1> SUFFICES ASSUME run[a].id = id PROVE FALSE
  OBVIOUS
<1>1. now <= row[id].created + Timeout BY DEF Owners
<1>2. row[id].expires = row[id].created + TTL /\ row[id].expires <= now
  BY DEF Rows, Expired
<1>3. row[id].created \in Nat /\ now \in Nat BY DEF TypeOK, RowType, Times
<1> QED BY <1>1, <1>2, <1>3, ConstantsAssumption

\* SettleTx removes one row and no other.
LEMMA SettleLive ==
  ASSUME NEW id, NEW billed, SettleTx(id, billed) PROVE live' = live \ {id}
BY DEF SettleTx, Charge

\* A working run always owns a live row of its own.
LEMMA OwnersStep == TypeOK /\ Rows /\ Owners /\ Sweeps /\ [Next]_vars => Owners'
<1> SUFFICES ASSUME TypeOK, Rows, Owners, Sweeps, [Next]_vars PROVE Owners'
  OBVIOUS
<1> DEFINE Same(b) == /\ Working(b) /\ run'[b].id = run[b].id /\ run'[b].est = run[b].est
                      /\ run[b].id \in live' /\ row'[run[b].id] = row[run[b].id]
                      /\ now' <= row[run[b].id].created + Timeout
<1>0. \A b \in Actors : Working(b) =>
        run[b].id \in live /\ run[b].id \in Ids /\ now <= row[run[b].id].created + Timeout
  BY DEF Owners, TypeOK
\* An actor that ends up not working, while no row changes.
<1>1. ASSUME NEW a \in Actors, run' = [run EXCEPT ![a] = run'[a]], ~Working(a)',
             UNCHANGED <<now, live, row>> PROVE Owners'
  <2>1. \A b \in Actors : Working(b)' => b # a /\ run'[b] = run[b] BY <1>1 DEF TypeOK
  <2>2. \A b \in Actors : Working(b)' => Same(b) BY <1>0, <1>1, <2>1 DEF Working
  <2> QED BY <2>2, OwnersKept
\* An actor whose run goes on with the same row and estimate.
<1>2. ASSUME NEW a \in Actors, run' = [run EXCEPT ![a] = run'[a]], Working(a),
             run'[a].id = run[a].id, run'[a].est = run[a].est,
             UNCHANGED <<now, live, row>> PROVE Owners'
  <2>1. \A b \in Actors : b # a => run'[b] = run[b] BY <1>2 DEF TypeOK
  <2>2. \A b \in Actors : Working(b)' => Same(b)
    <3> TAKE b \in Actors
    <3>1. CASE b = a BY <1>0, <1>2, <3>1
    <3>2. CASE b # a BY <1>0, <1>2, <2>1, <3>2 DEF Working
    <3> QED BY <3>1, <3>2
  <2> QED BY <2>2, OwnersKept
\* A recovery settles a row it selected.
<1>3. ASSUME NEW a \in Actors, NEW r \in sweep[a], live' = live \ {r.id},
             UNCHANGED <<now, row, run>> PROVE Owners'
  <2>1. r.id \in Ids /\ r.id < nextId /\ Expired(r.id) BY DEF TypeOK, Sweeps
  <2>2. \A b \in Actors : Working(b) => run[b].id # r.id BY <2>1, ExpiredNotOwned
  <2>3. \A b \in Actors : Working(b)' => Same(b) BY <1>0, <1>3, <2>2 DEF Working
  <2> QED BY <2>3, OwnersKept
<1>4. ASSUME NEW a \in Actors, RecoverUnattached(a) \/ RecoverAttached(a) PROVE Owners'
  <2>1. PICK r \in sweep[a] : \E b : SettleTx(r.id, b)
    BY <1>4 DEF RecoverUnattached, RecoverAttached
  <2>2. live' = live \ {r.id} BY <2>1, SettleLive
  <2> QED BY <1>3, <1>4, <2>2 DEF RecoverUnattached, RecoverAttached
<1>5. ASSUME NEW a \in Actors, RecoverSelect(a) \/ RecoverReturn(a) \/ RecoverFails(a) PROVE Owners'
  <2>0. run[a] \in RunType BY DEF TypeOK
  <2>1. \E pc \in {"idle", "recover", "ready"} : run' = [run EXCEPT ![a].pc = pc]
    BY <1>5 DEF RecoverSelect, RecoverReturn, RecoverFails
  <2>2. ~Working(a)' /\ run' = [run EXCEPT ![a] = run'[a]]
    BY <2>0, <2>1 DEF Working, TypeOK, RunType
  <2> QED BY <1>1, <1>5, <2>2 DEF RecoverSelect, RecoverReturn, RecoverFails, db
<1>6. ASSUME NEW a \in Actors, RecoverSkip(a) PROVE Owners'
  <2>1. \A b \in Actors : Working(b)' => Same(b) BY <1>0, <1>6 DEF RecoverSkip, Working, db
  <2> QED BY <2>1, OwnersKept
<1>7. ASSUME NEW a \in Actors, NEW job \in Jobs, NEW est \in Estimates, NEW force \in BOOLEAN,
             Reserve(a, job, est, force) PROVE Owners'
  <2>1. est \in Nat /\ SizedReservation(est) \in Nat /\ est <= SizedReservation(est)
    BY <1>7, SizedType DEF Reserve
  <2>2. nextId \in Ids /\ live' = live \union {nextId} /\ now' = now
    BY <1>7, ConstantsAssumption DEF Reserve, TypeOK, Ids
  <2>3. /\ \A b \in Actors \ {a} : run'[b] = run[b]
        /\ run'[a].id = nextId /\ run'[a].est = est
    BY <1>7 DEF Reserve, TypeOK, Idle
  <2>4. /\ \A id \in Ids \ {nextId} : row'[id] = row[id]
        /\ row'[nextId].created = now /\ row'[nextId].bytes = SizedReservation(est)
    BY <1>7, <2>2 DEF Reserve, TypeOK
  <2>5. \A b \in Actors \ {a} : Working(b)' => Working(b) /\ run[b].id # nextId
    <3>1. \A b \in Actors \ {a} : Working(b)' => Working(b) BY <2>3 DEF Working
    <3>2. nextId \notin live BY <2>2 DEF Rows, TypeOK
    <3> QED BY <1>0, <3>1, <3>2
  <2>6. now <= now + Timeout BY ConstantsAssumption DEF TypeOK, Times
  <2> SUFFICES ASSUME NEW b \in Actors, Working(b)'
               PROVE /\ run'[b].id \in live' /\ now' <= row'[run'[b].id].created + Timeout
                     /\ run'[b].est <= row'[run'[b].id].bytes
                     /\ \A c \in Actors : Working(c)' /\ run'[c].id = run'[b].id => b = c
    BY DEF Owners
  <2>7. CASE b = a
    <3>1. \A c \in Actors : Working(c)' /\ run'[c].id = nextId => c = a BY <2>3, <2>5
    <3> QED BY <2>1, <2>2, <2>3, <2>4, <2>6, <2>7, <3>1
  <2>8. CASE b # a
    <3>1. Working(b) /\ run'[b] = run[b] /\ run[b].id \in Ids \ {nextId} BY <1>0, <2>3, <2>5, <2>8
    <3>2. row'[run[b].id] = row[run[b].id] BY <2>4, <3>1
    <3>3. /\ run[b].id \in live' /\ now <= row[run[b].id].created + Timeout
          /\ run[b].est <= row[run[b].id].bytes
      BY <2>2, <3>1 DEF Owners
    <3>4. \A c \in Actors : Working(c)' /\ run'[c].id = run[b].id => b = c
      <4> SUFFICES ASSUME NEW c \in Actors, Working(c)', run'[c].id = run[b].id PROVE b = c
        OBVIOUS
      <4>1. c # a BY <2>3, <3>1
      <4>2. Working(c) /\ run[c].id = run[b].id BY <2>3, <2>5, <4>1
      <4> QED BY <3>1, <4>2 DEF Owners
    <3> QED BY <2>2, <3>1, <3>2, <3>3, <3>4
  <2> QED BY <2>7, <2>8
<1>8. ASSUME NEW a \in Actors, Leave(a) \/ SettleFails(a) \/ Crash(a) PROVE Owners'
  <2>1. ~Working(a)' /\ run' = [run EXCEPT ![a] = run'[a]]
    BY <1>8 DEF Leave, SettleFails, Crash, Working, TypeOK, Idle, Ready
  <2> QED BY <1>1, <1>8, <2>1 DEF Leave, SettleFails, Crash, db
<1>9. ASSUME NEW a \in Actors,
             Submit(a) \/ GiveUp(a) \/ Attach(a) \/ AttachFails(a) PROVE Owners'
  <2>1. /\ Working(a) /\ run'[a].id = run[a].id /\ run'[a].est = run[a].est
        /\ run' = [run EXCEPT ![a] = run'[a]]
    BY <1>9 DEF Submit, GiveUp, Attach, AttachFails, Working, TypeOK, RunType
  <2> QED BY <1>2, <1>9, <2>1 DEF Submit, GiveUp, Attach, AttachFails, db
<1>10. ASSUME NEW a \in Actors,
              CollectFirst(a) \/ (\E ok \in BOOLEAN : CollectLast(a, ok)) \/ Cancelled(a) PROVE Owners'
  <2>0. run[a] \in RunType BY DEF TypeOK
  <2>1. /\ Working(a) /\ run'[a].id = run[a].id /\ run'[a].est = run[a].est
        /\ run' = [run EXCEPT ![a] = run'[a]]
    <3>1. CASE CollectFirst(a) BY <2>0, <3>1 DEF CollectFirst, Working, TypeOK, RunType
    <3>2. ASSUME NEW ok \in BOOLEAN, CollectLast(a, ok)
          PROVE /\ Working(a) /\ run'[a].id = run[a].id /\ run'[a].est = run[a].est
                /\ run' = [run EXCEPT ![a] = run'[a]]
      BY <2>0, <3>2 DEF CollectLast, Working, TypeOK, RunType
    <3>3. CASE Cancelled(a) BY <2>0, <3>3 DEF Cancelled, Working, TypeOK, RunType
    <3> QED BY <1>10, <3>1, <3>2, <3>3
  <2> QED BY <1>2, <1>10, <2>1 DEF CollectFirst, CollectLast, Cancelled, db
<1>11. ASSUME NEW a \in Actors, Settle(a) \/ CommitBaseline(a) PROVE Owners'
  <2>1. live' = live \ {run[a].id} BY <1>11, SettleLive DEF Settle, CommitBaseline
  <2>2. Working(a) /\ ~Working(a)' /\ \A b \in Actors \ {a} : run'[b] = run[b]
    BY <1>11 DEF Settle, CommitBaseline, Working, TypeOK, Ready, Idle
  <2>3. \A b \in Actors : Working(b)' => Working(b) /\ b # a /\ run'[b] = run[b]
    BY <2>2 DEF Working
  <2>4. \A b \in Actors : Working(b)' => run[b].id # run[a].id BY <2>2, <2>3 DEF Owners
  <2>5. \A b \in Actors : Working(b)' => Same(b)
    BY <1>0, <1>11, <2>1, <2>3, <2>4 DEF Settle, CommitBaseline
  <2> QED BY <2>5, OwnersKept
<1>12. ASSUME NEW id \in Ids, NEW s \in Slots, Finish(id, s) PROVE Owners'
  <2>1. \A b \in Actors : Working(b)' => Same(b) BY <1>0, <1>12 DEF Finish, Working, db
  <2> QED BY <2>1, OwnersKept
<1>13. ASSUME Tick PROVE Owners'
  <2>1. \A b \in Actors : Working(b) => now + 1 <= row[run[b].id].created + Timeout
    <3> SUFFICES ASSUME NEW b \in Actors, Working(b) PROVE now + 1 <= row[run[b].id].created + Timeout
      OBVIOUS
    <3>1. now < row[run[b].id].created + Timeout BY <1>13 DEF Tick
    <3>2. row[run[b].id].created \in Nat /\ now \in Nat BY <1>0 DEF TypeOK, RowType, Times
    <3> QED BY <3>1, <3>2, ConstantsAssumption
  <2>2. \A b \in Actors : Working(b)' => Same(b) BY <1>0, <1>13, <2>1 DEF Tick, Working, db
  <2> QED BY <2>2, OwnersKept
<1>14. ASSUME UNCHANGED vars PROVE Owners'
  <2>1. \A b \in Actors : Working(b)' => Same(b) BY <1>0, <1>14 DEF vars, Working
  <2> QED BY <2>1, OwnersKept
<1> QED
  BY <1>4, <1>5, <1>6, <1>7, <1>8, <1>9, <1>10, <1>11, <1>12, <1>13, <1>14 DEF Next, Recover, Run

\* Sweeps survives a step that adds nothing to a sweep and touches neither the
\* row nor the job ids of an expired reservation.
LEMMA SweepsKept ==
  ASSUME TypeOK, Sweeps,
         \A a \in Actors : sweep'[a] \subseteq sweep[a],
         nextId <= nextId', nextId' \in Nat, now <= now', now' \in Nat,
         \A id \in Ids : id < nextId => row'[id] = row[id],
         \A id \in Ids : id < nextId /\ Expired(id) => attached'[id] = attached[id]
  PROVE  Sweeps'
<1> SUFFICES ASSUME NEW a \in Actors, NEW r \in sweep'[a]
             PROVE  r.id < nextId' /\ Expired(r.id)' /\ r.jobs = attached'[r.id]
  BY DEF Sweeps
<1>1. r \in sweep[a] /\ r.id \in Ids BY DEF TypeOK
<1>2. r.id < nextId /\ Expired(r.id) /\ r.jobs = attached[r.id] BY <1>1 DEF Sweeps
<1>3. row[r.id].expires \in Nat /\ now \in Nat /\ nextId \in Nat /\ r.id \in Nat
  BY <1>1 DEF TypeOK, RowType, Times, Ids
<1> QED BY <1>1, <1>2, <1>3 DEF Expired

\* What recoverStale selected stays expired and gains no job id.
LEMMA SweepsStep == TypeOK /\ Rows /\ Owners /\ Sweeps /\ [Next]_vars => Sweeps'
<1> SUFFICES ASSUME TypeOK, Rows, Owners, Sweeps, [Next]_vars PROVE Sweeps'
  OBVIOUS
<1>0. nextId \in Nat /\ now \in Nat /\ nextId <= nextId /\ now <= now
  BY DEF TypeOK, Times
<1>1. ASSUME UNCHANGED <<now, nextId, row, attached>>, \A a \in Actors : sweep'[a] \subseteq sweep[a]
      PROVE  Sweeps'
  BY <1>0, <1>1, SweepsKept
<1>2. ASSUME NEW a \in Actors, RecoverSelect(a) PROVE Sweeps'
  <2>1. /\ sweep'[a] = {[id |-> id, jobs |-> attached[id]] : id \in Stale}
        /\ \A b \in Actors \ {a} : sweep'[b] = sweep[b]
        /\ UNCHANGED <<now, nextId, row, attached>>
    BY <1>2 DEF RecoverSelect, TypeOK, db
  <2>2. \A id \in Stale : id \in Ids /\ id < nextId /\ Expired(id)
    BY DEF Stale, Rows, TypeOK
  <2>3. \A r \in sweep'[a] : r.id < nextId /\ Expired(r.id) /\ r.jobs = attached[r.id]
    BY <2>1, <2>2
  <2> SUFFICES ASSUME NEW b \in Actors, NEW r \in sweep'[b]
               PROVE  r.id < nextId /\ Expired(r.id) /\ r.jobs = attached[r.id]
    BY <2>1 DEF Sweeps, Expired
  <2>4. CASE b = a BY <2>3, <2>4
  <2>5. CASE b # a BY <2>1, <2>5 DEF Sweeps
  <2> QED BY <2>4, <2>5
<1>3. ASSUME NEW a \in Actors, RecoverUnattached(a) \/ RecoverAttached(a) \/ RecoverSkip(a) PROVE Sweeps'
  <2>1. \E r \in sweep[a] : DropRow(a, r) BY <1>3 DEF RecoverUnattached, RecoverAttached, RecoverSkip
  <2>2. \A b \in Actors : sweep'[b] \subseteq sweep[b] BY <2>1 DEF DropRow, TypeOK
  <2> QED BY <1>1, <1>3, <2>2 DEF RecoverUnattached, RecoverAttached, RecoverSkip, db
<1>4. ASSUME NEW a \in Actors, RecoverFails(a) \/ Crash(a) PROVE Sweeps'
  <2>1. \A b \in Actors : sweep'[b] \subseteq sweep[b] BY <1>4 DEF RecoverFails, Crash, TypeOK
  <2> QED BY <1>1, <1>4, <2>1 DEF RecoverFails, Crash, db
<1>5. ASSUME NEW a \in Actors, NEW job \in Jobs, NEW est \in Estimates, NEW force \in BOOLEAN,
             Reserve(a, job, est, force) PROVE Sweeps'
  <2>1. \A id \in Ids : id < nextId => row'[id] = row[id]
    BY <1>0, <1>5 DEF Reserve, TypeOK, Ids
  <2>2. nextId' \in Nat /\ nextId <= nextId' /\ now' = now /\ attached' = attached /\ sweep' = sweep
    BY <1>0, <1>5 DEF Reserve
  <2> QED BY <1>0, <2>1, <2>2, SweepsKept
<1>6. ASSUME NEW a \in Actors, Attach(a) PROVE Sweeps'
  <2>1. \A id \in Ids : id < nextId /\ Expired(id) => id # run[a].id
    BY <1>6, ExpiredNotOwned DEF Attach, Working
  <2>2. \A id \in Ids : id < nextId /\ Expired(id) => attached'[id] = attached[id]
    BY <1>6, <2>1 DEF Attach, TypeOK
  <2> QED BY <1>0, <1>6, <2>2, SweepsKept DEF Attach
<1>7. ASSUME NEW a \in Actors,
             RecoverReturn(a) \/ Leave(a) \/ Submit(a) \/ GiveUp(a) \/ AttachFails(a) \/ CollectFirst(a)
               \/ (\E ok \in BOOLEAN : CollectLast(a, ok)) \/ Cancelled(a) \/ Settle(a)
               \/ SettleFails(a) \/ CommitBaseline(a)
      PROVE Sweeps'
  BY <1>1, <1>7 DEF RecoverReturn, Leave, Submit, GiveUp, AttachFails, CollectFirst, CollectLast,
                    Cancelled, Settle, SettleFails, CommitBaseline, db
<1>8. ASSUME NEW id \in Ids, NEW s \in Slots, Finish(id, s) PROVE Sweeps'
  BY <1>1, <1>8 DEF Finish, db
<1>9. ASSUME Tick PROVE Sweeps'
  BY <1>0, <1>9, SweepsKept DEF Tick, db
<1>10. ASSUME UNCHANGED vars PROVE Sweeps'
  BY <1>1, <1>10 DEF vars
<1> QED
  BY <1>2, <1>3, <1>4, <1>5, <1>6, <1>7, <1>8, <1>9, <1>10 DEF Next, Recover, Run

---------------------------------------------------------------------------
(* Baselines *)

\* A working, unexpired scan of the UTXO set.
Scans(a) == Working(a) /\ row[run[a].id].job = Baseline

\* Every working baseline after the step was one before it, reserved with the
\* same force flag at the same time.
LEMMA BaselineKept ==
  ASSUME OneBaselineAtATime, Spaced, lastBaseline' = lastBaseline,
         \A b \in Actors : Scans(b)' =>
           /\ Scans(b) /\ run'[b].force = run[b].force
           /\ row'[run'[b].id].created = row[run[b].id].created
  PROVE  OneBaselineAtATime' /\ Spaced'
BY DEF OneBaselineAtATime, Spaced, Scans

\* At most one baseline runs, and it stays the interval away from the last.
LEMMA BaselineStep ==
  TypeOK /\ Rows /\ Owners /\ Sweeps /\ OneBaselineAtATime /\ Spaced /\ [Next]_vars
    => OneBaselineAtATime' /\ Spaced'
<1> SUFFICES ASSUME TypeOK, Rows, Owners, Sweeps, OneBaselineAtATime, Spaced, [Next]_vars
             PROVE  OneBaselineAtATime' /\ Spaced'
  OBVIOUS
<1> DEFINE Same(b) == /\ Scans(b) /\ run'[b].force = run[b].force
                      /\ row'[run'[b].id].created = row[run[b].id].created
\* A step that only moves one actor, to a state that is not working or on with its row.
<1>1. ASSUME NEW a \in Actors, run' = [run EXCEPT ![a] = run'[a]],
             Working(a)' => Working(a) /\ run'[a].id = run[a].id /\ run'[a].force = run[a].force,
             UNCHANGED <<row, lastBaseline>>
      PROVE  OneBaselineAtATime' /\ Spaced'
  <2>1. \A b \in Actors : b # a => run'[b] = run[b] BY <1>1 DEF TypeOK
  <2>2. \A b \in Actors : Scans(b)' => Same(b) BY <1>1, <2>1 DEF Scans, Working
  <2> QED BY <1>1, <2>2, BaselineKept
<1>2. ASSUME UNCHANGED <<run, row, lastBaseline>> PROVE OneBaselineAtATime' /\ Spaced'
  <2>1. \A b \in Actors : Scans(b)' => Same(b) BY <1>2 DEF Scans, Working
  <2> QED BY <1>2, <2>1, BaselineKept
<1>3. ASSUME NEW a \in Actors,
             \/ RecoverSelect(a) \/ RecoverReturn(a) \/ RecoverFails(a) \/ Leave(a) \/ SettleFails(a)
             \/ Crash(a) \/ Settle(a)
      PROVE  OneBaselineAtATime' /\ Spaced'
  <2>1. run[a] \in RunType BY DEF TypeOK
  <2>2. \/ \E pc \in {"idle", "recover", "ready"} : run' = [run EXCEPT ![a].pc = pc]
        \/ run' = [run EXCEPT ![a] = Idle] \/ run' = [run EXCEPT ![a] = Ready]
    BY <1>3 DEF RecoverSelect, RecoverReturn, RecoverFails, Leave, SettleFails, Crash, Settle
  <2>3. ~Working(a)' /\ run' = [run EXCEPT ![a] = run'[a]]
    BY <2>1, <2>2 DEF Working, TypeOK, RunType, Idle, Ready
  <2>4. UNCHANGED <<row, lastBaseline>>
    BY <1>3 DEF RecoverSelect, RecoverReturn, RecoverFails, Leave, SettleFails, Crash, Settle, db
  <2> QED BY <1>1, <2>3, <2>4
<1>4. ASSUME NEW a \in Actors, RecoverUnattached(a) \/ RecoverAttached(a) \/ RecoverSkip(a)
      PROVE  OneBaselineAtATime' /\ Spaced'
  BY <1>2, <1>4 DEF RecoverUnattached, RecoverAttached, RecoverSkip
<1>5. ASSUME NEW a \in Actors, NEW job \in Jobs, NEW est \in Estimates, NEW force \in BOOLEAN,
             Reserve(a, job, est, force) PROVE OneBaselineAtATime' /\ Spaced'
  <2>1. nextId \in Ids /\ lastBaseline' = lastBaseline
    BY <1>5, ConstantsAssumption DEF Reserve, TypeOK, Ids
  <2>2. /\ \A b \in Actors \ {a} : run'[b] = run[b]
        /\ run'[a].id = nextId /\ run'[a].force = force
    BY <1>5 DEF Reserve, TypeOK, Idle
  <2>3. /\ \A id \in Ids \ {nextId} : row'[id] = row[id]
        /\ row'[nextId].created = now /\ row'[nextId].job = job
    BY <1>5, <2>1 DEF Reserve, TypeOK
  <2>4. \A b \in Actors \ {a} : Scans(b)' => Same(b)
    <3> SUFFICES ASSUME NEW b \in Actors \ {a}, Scans(b)' PROVE Same(b)
      OBVIOUS
    <3>1. Working(b) BY <2>2 DEF Scans, Working
    <3>2. run[b].id \in live /\ run[b].id \in Ids BY <3>1 DEF Owners, TypeOK
    <3>3. nextId \notin live BY <2>1 DEF Rows, TypeOK
    <3>4. row'[run[b].id] = row[run[b].id] BY <2>3, <3>2, <3>3
    <3> QED BY <2>2, <3>1, <3>4 DEF Scans
  <2>5. CASE job # Baseline
    <3>1. ~Scans(a)' BY <2>2, <2>3, <2>5 DEF Scans
    <3> QED BY <2>1, <2>4, <3>1, BaselineKept
  <2>6. CASE job = Baseline
    <3>1. BaselineAllowed(force) BY <1>5, <2>6 DEF Reserve
    <3>2. \A b \in Actors : ~Scans(b)
      <4> SUFFICES ASSUME NEW b \in Actors, Scans(b) PROVE FALSE
        OBVIOUS
      <4>1. run[b].id \in live /\ run[b].id \in Ids BY DEF Scans, Owners, TypeOK
      <4>2. run[b].id < nextId BY <4>1 DEF Rows
      <4>3. Expired(run[b].id) BY <3>1, <4>1 DEF Scans, BaselineAllowed
      <4> QED BY <4>1, <4>2, <4>3, ExpiredNotOwned DEF Scans
    <3>3. \A b \in Actors : Scans(b)' => b = a BY <2>4, <3>2
    <3>4. OneBaselineAtATime' BY <3>3 DEF OneBaselineAtATime, Scans
    <3>5. force \/ lastBaseline = Never \/ now - lastBaseline >= MinInterval
      BY <3>1 DEF BaselineAllowed
    <3>6. Spaced' BY <2>1, <2>2, <2>3, <3>3, <3>5 DEF Spaced, Scans
    <3> QED BY <3>4, <3>6
  <2> QED BY <2>5, <2>6
<1>6. ASSUME NEW a \in Actors,
             \/ Submit(a) \/ GiveUp(a) \/ Attach(a) \/ AttachFails(a)
      PROVE  OneBaselineAtATime' /\ Spaced'
  <2>1. run[a] \in RunType BY DEF TypeOK
  <2>2. /\ Working(a) /\ UNCHANGED <<row, lastBaseline>>
        /\ \E pc \in {"attach", "settle", "wait"} : run' = [run EXCEPT ![a].pc = pc]
    BY <1>6 DEF Submit, GiveUp, Attach, AttachFails, Working, db
  <2>3. /\ run'[a].id = run[a].id /\ run'[a].force = run[a].force
        /\ run' = [run EXCEPT ![a] = run'[a]]
    BY <2>1, <2>2 DEF TypeOK, RunType
  <2> QED BY <1>1, <2>2, <2>3
<1>7. ASSUME NEW a \in Actors,
             CollectFirst(a) \/ (\E ok \in BOOLEAN : CollectLast(a, ok)) \/ Cancelled(a)
      PROVE  OneBaselineAtATime' /\ Spaced'
  <2>1. run[a] \in RunType BY DEF TypeOK
  <2>2. Working(a) /\ UNCHANGED <<row, lastBaseline>>
    BY <1>7 DEF CollectFirst, CollectLast, Cancelled, Working, db
  <2>3. /\ run'[a].id = run[a].id /\ run'[a].force = run[a].force
        /\ run' = [run EXCEPT ![a] = run'[a]]
    <3>1. CASE CollectFirst(a) BY <2>1, <3>1 DEF CollectFirst, TypeOK, RunType
    <3>2. ASSUME NEW ok \in BOOLEAN, CollectLast(a, ok)
          PROVE /\ run'[a].id = run[a].id /\ run'[a].force = run[a].force
                /\ run' = [run EXCEPT ![a] = run'[a]]
      BY <2>1, <3>2 DEF CollectLast, TypeOK, RunType
    <3>3. CASE Cancelled(a) BY <2>1, <3>3 DEF Cancelled, TypeOK, RunType
    <3> QED BY <1>7, <3>1, <3>2, <3>3
  <2> QED BY <1>1, <2>2, <2>3
<1>8. ASSUME NEW a \in Actors, CommitBaseline(a) PROVE OneBaselineAtATime' /\ Spaced'
  <2>1. Scans(a) /\ row' = row /\ \A b \in Actors \ {a} : run'[b] = run[b]
    BY <1>8 DEF CommitBaseline, Scans, Working, TypeOK
  <2>2. ~Working(a)' BY <1>8 DEF CommitBaseline, Working, Ready, Idle, TypeOK
  <2>3. \A b \in Actors : ~Scans(b)'
    BY <2>1, <2>2 DEF OneBaselineAtATime, Scans, Working
  <2> QED BY <2>3 DEF OneBaselineAtATime, Spaced, Scans
<1>9. ASSUME NEW id \in Ids, NEW s \in Slots, Finish(id, s) PROVE OneBaselineAtATime' /\ Spaced'
  BY <1>2, <1>9 DEF Finish
<1>10. ASSUME Tick PROVE OneBaselineAtATime' /\ Spaced'
  BY <1>2, <1>10 DEF Tick
<1>11. ASSUME UNCHANGED vars PROVE OneBaselineAtATime' /\ Spaced'
  BY <1>2, <1>11 DEF vars
<1> QED
  BY <1>3, <1>4, <1>5, <1>6, <1>7, <1>8, <1>9, <1>10, <1>11 DEF Next, Recover, Run

---------------------------------------------------------------------------
(* What holds for every mix of jobs *)

Core == TypeOK /\ Rows /\ Owners /\ Sweeps /\ OneBaselineAtATime /\ Spaced

\* Core is an invariant.
LEMMA CoreInv == Spec => []Core
<1>1. Init => Core
  <2> SUFFICES ASSUME Init PROVE Core
    OBVIOUS
  <2>1. \A a \in Actors : ~Working(a) /\ sweep[a] = {} BY DEF Init, Working, Idle
  <2>2. Rows BY ConstantsAssumption DEF Init, Rows, Ids, Slots
  <2> QED BY <2>1, <2>2, TypeInit DEF Core, Owners, Sweeps, OneBaselineAtATime, Spaced
<1>2. Core /\ [Next]_vars => Core'
  BY TypeStep, RowsStep, OwnersStep, SweepsStep, BaselineStep DEF Core
<1> QED BY <1>1, <1>2, PTL DEF Spec

\* Every variable keeps its type, in every reachable state.
THEOREM TypeCorrect == Spec => []TypeOK
<1>1. Core => TypeOK BY DEF Core
<1> QED BY <1>1, CoreInv, PTL

\* No two processes ever scan the UTXO set at once (reserveWithOpts, exclusive).
THEOREM OneBaseline == Spec => []OneBaselineAtATime
<1>1. Core => OneBaselineAtATime BY DEF Core
<1> QED BY <1>1, CoreInv, PTL

\* The interval checked when a baseline is reserved still holds when it commits.
THEOREM BaselinesSpaced == Spec => BaselineSpacing
<1>1. Core /\ [Next]_vars =>
        [\A a \in Actors : CommitBaseline(a) => run[a].force \/ lastBaseline = Never
                              \/ lastBaseline' - lastBaseline >= MinInterval]_vars
  <2> SUFFICES ASSUME Core, NEW a \in Actors, CommitBaseline(a), ~run[a].force, lastBaseline # Never
               PROVE  lastBaseline' - lastBaseline >= MinInterval
    OBVIOUS
  <2>1. Working(a) /\ row[run[a].id].job = Baseline /\ lastBaseline' = now
    BY DEF CommitBaseline, Working
  <2>2. row[run[a].id].created - lastBaseline >= MinInterval BY <2>1 DEF Core, Spaced
  <2>3. run[a].id \in Ids /\ run[a].id < nextId BY <2>1 DEF Core, Owners, Rows, TypeOK
  <2>4. row[run[a].id].created <= now BY <2>3 DEF Core, Rows
  <2>5. /\ row[run[a].id].created \in Int /\ now \in Int /\ lastBaseline \in Int /\ MinInterval \in Int
    BY <2>3, ConstantsAssumption DEF Core, TypeOK, RowType, Times, Never
  <2> QED BY <2>1, <2>2, <2>4, <2>5
<1> QED BY <1>1, CoreInv, PTL DEF Spec, BaselineSpacing

\* A reservation is charged at most once, by its run or by one recovery
\* (settleTx's "already settled").
THEOREM ChargeOnce == Spec => ChargedOnce
<1>1. Core /\ [Next]_vars =>
        [\A id \in Ids : credited[id] # Never => id \notin live' /\ credited'[id] = credited[id]]_vars
  <2> SUFFICES ASSUME Core, Next, NEW id \in Ids, credited[id] # Never
               PROVE  id \notin live' /\ credited'[id] = credited[id]
    BY DEF vars
  <2>0. id \notin live /\ id < nextId BY DEF Core, Rows
  <2>1. ASSUME NEW i, NEW b, SettleTx(i, b) PROVE id \notin live' /\ credited'[id] = credited[id]
    BY <2>0, <2>1 DEF SettleTx, Charge, Core, TypeOK
  <2>2. ASSUME NEW a \in Actors, NEW job \in Jobs, NEW est \in Estimates, NEW force \in BOOLEAN,
               Reserve(a, job, est, force)
        PROVE  id \notin live' /\ credited'[id] = credited[id]
    BY <2>0, <2>2 DEF Reserve, Core, TypeOK, Ids
  <2>3. ASSUME NEW a \in Actors, RecoverUnattached(a) \/ RecoverAttached(a)
        PROVE  id \notin live' /\ credited'[id] = credited[id]
    BY <2>1, <2>3 DEF RecoverUnattached, RecoverAttached
  <2>4. ASSUME NEW a \in Actors, Settle(a) \/ CommitBaseline(a)
        PROVE  id \notin live' /\ credited'[id] = credited[id]
    BY <2>1, <2>4 DEF Settle, CommitBaseline
  <2>5. ASSUME UNCHANGED <<live, credited>> PROVE id \notin live' /\ credited'[id] = credited[id]
    BY <2>0, <2>5
  <2>6. ASSUME NEW a \in Actors,
               \/ RecoverSelect(a) \/ RecoverSkip(a) \/ RecoverReturn(a) \/ RecoverFails(a) \/ Leave(a)
               \/ Submit(a) \/ GiveUp(a) \/ Attach(a) \/ AttachFails(a) \/ CollectFirst(a)
               \/ (\E ok \in BOOLEAN : CollectLast(a, ok)) \/ Cancelled(a) \/ SettleFails(a) \/ Crash(a)
        PROVE  UNCHANGED <<live, credited>>
    BY <2>6 DEF RecoverSelect, RecoverSkip, RecoverReturn, RecoverFails, Leave, Submit, GiveUp, Attach,
                AttachFails, CollectFirst, CollectLast, Cancelled, SettleFails, Crash, db
  <2>7. ASSUME NEW i \in Ids, NEW s \in Slots, Finish(i, s) PROVE UNCHANGED <<live, credited>>
    BY <2>7 DEF Finish, db
  <2>8. Tick => UNCHANGED <<live, credited>> BY DEF Tick, db
  <2> QED BY <2>2, <2>3, <2>4, <2>5, <2>6, <2>7, <2>8 DEF Next, Recover, Run
<1> QED BY <1>1, CoreInv, PTL DEF Spec, ChargedOnce

---------------------------------------------------------------------------
(* The bytes a set of rows reserves *)

UnitsOf(f, S) == UNION {{id} \X (1 .. f[id].bytes) : id \in S}

\* Rows within the hard cap reserve finitely many units.
LEMMA UnitsFinite ==
  ASSUME NEW f \in [Ids -> RowType], NEW S \in SUBSET Ids, \A id \in S : f[id].bytes <= HardCap
  PROVE  IsFiniteSet(UnitsOf(f, S)) /\ Cardinality(UnitsOf(f, S)) \in Nat
<1>1. IsFiniteSet(Ids) /\ IsFiniteSet(1 .. HardCap)
  BY FS_Interval, ConstantsAssumption DEF Ids
<1>2. IsFiniteSet(Ids \X (1 .. HardCap)) BY <1>1, FS_Product
<1>3. UnitsOf(f, S) \subseteq Ids \X (1 .. HardCap)
  <2>1. \A id \in S : 1 .. f[id].bytes \subseteq 1 .. HardCap
    BY ConstantsAssumption DEF RowType
  <2> QED BY <2>1 DEF UnitsOf
<1>4. IsFiniteSet(UnitsOf(f, S)) BY <1>2, <1>3, FS_Subset
<1> QED BY <1>4, FS_CardinalityType

\* Fewer rows reserve no more.
LEMMA UnitsMonotone ==
  ASSUME NEW f \in [Ids -> RowType], NEW S \in SUBSET Ids, \A id \in S : f[id].bytes <= HardCap,
         NEW T \in SUBSET S
  PROVE  Cardinality(UnitsOf(f, T)) <= Cardinality(UnitsOf(f, S))
<1>1. UnitsOf(f, T) \subseteq UnitsOf(f, S) BY DEF UnitsOf
<1> QED BY <1>1, UnitsFinite, FS_Subset

\* An interval from one has as many members as its end says.
LEMMA IntervalSize == \A n \in Nat : IsFiniteSet(1 .. n) /\ Cardinality(1 .. n) = n
<1> SUFFICES ASSUME NEW n \in Nat PROVE IsFiniteSet(1 .. n) /\ Cardinality(1 .. n) = n
  OBVIOUS
<1>1. IsFiniteSet(1 .. n) /\ Cardinality(1 .. n) = IF 1 > n THEN 0 ELSE n - 1 + 1
  BY FS_Interval
<1> QED BY <1>1

\* One more row reserves its own bytes more.
LEMMA UnitsAdd ==
  ASSUME NEW f \in [Ids -> RowType], NEW S \in SUBSET Ids, \A id \in S : f[id].bytes <= HardCap,
         NEW i \in Ids \ S, f[i].bytes <= HardCap
  PROVE  Cardinality(UnitsOf(f, S \union {i})) = Cardinality(UnitsOf(f, S)) + f[i].bytes
<1> DEFINE N == {i} \X (1 .. f[i].bytes)
<1>1. f[i].bytes \in Nat BY DEF RowType
<1>2. IsFiniteSet(1 .. f[i].bytes) /\ Cardinality(1 .. f[i].bytes) = f[i].bytes
  BY <1>1, IntervalSize
<1>3. IsFiniteSet({i}) /\ Cardinality({i}) = 1 BY FS_Singleton
<1>4. IsFiniteSet(N) /\ Cardinality(N) = f[i].bytes
  <2>1. IsFiniteSet(N) /\ Cardinality(N) = Cardinality({i}) * Cardinality(1 .. f[i].bytes)
    BY <1>2, <1>3, FS_Product
  <2>2. \A n \in Nat : 1 * n = n OBVIOUS
  <2> QED BY <1>1, <1>2, <1>3, <2>1, <2>2
<1>5. UnitsOf(f, S \union {i}) = UnitsOf(f, S) \union N BY DEF UnitsOf
<1>6. UnitsOf(f, S) \cap N = {} BY DEF UnitsOf
<1>7. IsFiniteSet(UnitsOf(f, S)) /\ Cardinality(UnitsOf(f, S)) \in Nat BY UnitsFinite
<1> HIDE DEF N
<1>8. Cardinality(UnitsOf(f, S) \union N) = Cardinality(UnitsOf(f, S)) + Cardinality(N) - Cardinality({})
  BY <1>4, <1>6, <1>7, FS_Union
<1>9. Cardinality({}) = 0 BY FS_EmptySet
<1>10. \A k, n \in Nat : k + n - 0 = k + n OBVIOUS
<1> QED BY <1>1, <1>4, <1>5, <1>7, <1>8, <1>9, <1>10

---------------------------------------------------------------------------
(* The budget *)

InMonth(m) == {id \in Counted : Month(row[id].created) = m}

\* Every counted row is a live row within the hard cap.
LEMMA CountedRows ==
  ASSUME TypeOK, Rows
  PROVE  /\ Counted \subseteq Ids /\ \A id \in Counted : id < nextId /\ row[id].bytes <= HardCap
         /\ \A m : InMonth(m) \in SUBSET Ids /\ InMonth(m) \subseteq Counted
BY DEF Counted, TypeOK, Rows, InMonth

\* The ledger invariant survives a step that charges nothing and counts no new row.
LEMMA BudgetKept ==
  ASSUME TypeOK, Rows, LedgerPlusReservedInBudget,
         ledger' = ledger, conservative' = conservative, row' = row, Counted' \subseteq Counted
  PROVE  LedgerPlusReservedInBudget'
<1> SUFFICES ASSUME NEW m \in Months
             PROVE  ledger[m] + Cardinality(UnitsOf(row, InMonth(m)')) <= Budget + conservative[m]
  BY DEF LedgerPlusReservedInBudget, Units, UnitsOf, InMonth
<1>1. ledger[m] + Cardinality(UnitsOf(row, InMonth(m))) <= Budget + conservative[m]
  BY DEF LedgerPlusReservedInBudget, Units, UnitsOf, InMonth
<1>2. InMonth(m)' \in SUBSET InMonth(m) BY DEF InMonth
<1>3. /\ row \in [Ids -> RowType] /\ InMonth(m) \in SUBSET Ids
      /\ \A id \in InMonth(m) : row[id].bytes <= HardCap
  BY CountedRows DEF TypeOK
<1>4. Cardinality(UnitsOf(row, InMonth(m)')) <= Cardinality(UnitsOf(row, InMonth(m)))
  BY <1>2, <1>3, UnitsMonotone
<1>5. Cardinality(UnitsOf(row, InMonth(m))) \in Nat /\ Cardinality(UnitsOf(row, InMonth(m)')) \in Nat
  BY <1>2, <1>3, UnitsFinite
<1>6. ledger[m] \in Nat /\ conservative[m] \in Nat /\ Budget \in Nat
  BY ConstantsAssumption DEF TypeOK
<1> QED BY <1>1, <1>4, <1>5, <1>6

\* It survives a charge of at most the row's bytes for a row that was counted.
LEMMA BudgetSettled ==
  ASSUME TypeOK, Rows, LedgerPlusReservedInBudget,
         NEW id \in Counted, NEW billed \in Nat, billed <= row[id].bytes, SettleTx(id, billed),
         UNCHANGED <<now, row, attached, conservative>>
  PROVE  LedgerPlusReservedInBudget'
<1>1. id \in live /\ id \in Ids BY DEF Counted, TypeOK
<1>2. live' = live \ {id} /\ ledger' = [ledger EXCEPT ![Month(row[id].created)] = @ + billed]
  BY <1>1 DEF SettleTx, Charge
<1>3. Counted' = Counted \ {id} BY <1>2 DEF Counted, Expired
<1> SUFFICES ASSUME NEW m \in Months
             PROVE  ledger'[m] + Cardinality(UnitsOf(row, InMonth(m)')) <= Budget + conservative[m]
  BY DEF LedgerPlusReservedInBudget, Units, UnitsOf, InMonth
<1>4. ledger[m] + Cardinality(UnitsOf(row, InMonth(m))) <= Budget + conservative[m]
  BY DEF LedgerPlusReservedInBudget, Units, UnitsOf, InMonth
<1>5. /\ row \in [Ids -> RowType] /\ InMonth(m) \in SUBSET Ids /\ row[id].bytes \in Nat
      /\ \A i \in InMonth(m) : row[i].bytes <= HardCap
      /\ row[id].bytes <= HardCap
  BY CountedRows DEF TypeOK, RowType
<1>6. ledger[m] \in Nat /\ conservative[m] \in Nat /\ Budget \in Nat
  BY ConstantsAssumption DEF TypeOK
<1>7. InMonth(m)' = InMonth(m) \ {id} BY <1>3 DEF InMonth
<1>8. CASE Month(row[id].created) = m
  <2> DEFINE S == InMonth(m) \ {id}
  <2>1. InMonth(m) = S \union {id} BY <1>8 DEF InMonth
  <2>2. S \in SUBSET Ids /\ (\A i \in S : row[i].bytes <= HardCap) /\ id \in Ids \ S
    BY <1>1, <1>5
  <2> HIDE DEF S
  <2>3. Cardinality(UnitsOf(row, S \union {id})) = Cardinality(UnitsOf(row, S)) + row[id].bytes
    BY <1>5, <2>2, UnitsAdd
  <2>4. Cardinality(UnitsOf(row, S)) \in Nat BY <1>5, <2>2, UnitsFinite
  <2>5. ledger'[m] = ledger[m] + billed BY <1>2, <1>8 DEF TypeOK
  <2>6. InMonth(m)' = S BY <1>7 DEF S
  <2> QED BY <1>4, <1>5, <1>6, <2>1, <2>3, <2>4, <2>5, <2>6
<1>9. CASE Month(row[id].created) # m
  <2>1. InMonth(m)' = InMonth(m) BY <1>7, <1>9 DEF InMonth
  <2>2. ledger'[m] = ledger[m] BY <1>2, <1>9 DEF TypeOK
  <2> QED BY <1>4, <2>1, <2>2
<1> QED BY <1>8, <1>9

---------------------------------------------------------------------------
(* Bills, when no job refills its second cap *)

QueriesFit(id) ==
  /\ MayBill(id, 1) + MayBill(id, 2) <= row[id].bytes
  /\ \A s \in Slots : /\ query[id][s].billed <= query[id][s].cap
                      /\ query[id][s].st = "none" => query[id][s] = NoQuery

RunFits(a) ==
  LET r == run[a]
      q == query[r.id] IN
  /\ r.pc # "settle" =>
       /\ r.billed + r.cap <= row[r.id].bytes
       /\ r.billed = IF r.slot = 1 THEN 0 ELSE q[1].billed
       /\ r.slot = 1 => q[2].st = "none"
       /\ r.slot = 2 => q[1].st = "done"
  /\ r.pc = "submit" => q[r.slot].st = "none"
  /\ r.pc \in {"attach", "wait"} => q[r.slot].st # "none" /\ q[r.slot].cap = r.cap
  /\ r.pc = "settle" =>
       /\ r.billed <= row[r.id].bytes
       /\ r.id \notin estimated => r.billed >= MayBill(r.id, 1) + MayBill(r.id, 2)

\* Bills in two parts: what BigQuery knows, and what each run believes.
LEMMA BillsParts ==
  Bills <=> (\A id \in Ids : QueriesFit(id)) /\ (\A a \in Actors : Working(a) => RunFits(a))
BY DEF Bills, QueriesFit, RunFits

\* Both parts of the next state's Bills.
LEMMA BillsPartsNext ==
  Bills' <=> (\A id \in Ids : QueriesFit(id)') /\ (\A a \in Actors : Working(a)' => RunFits(a)')
BY DEF Bills, QueriesFit, RunFits

\* Numbers are numbers.
LEMMA BillTypes ==
  ASSUME TypeOK, NEW id \in Ids
  PROVE  /\ MayBill(id, 1) \in Nat /\ MayBill(id, 2) \in Nat /\ row[id].bytes \in Nat
         /\ \A s \in Slots : /\ query[id][s] \in QueryType
                             /\ query[id][s].billed \in Nat /\ query[id][s].cap \in Nat
<1>1. \A s \in Slots : query[id][s] \in QueryType BY DEF TypeOK
<1>2. \A s \in Slots : query[id][s].billed \in Nat /\ query[id][s].cap \in Nat BY <1>1 DEF QueryType
<1>3. row[id].bytes \in Nat BY DEF TypeOK, RowType
<1> QED BY <1>1, <1>2, <1>3 DEF MayBill, Slots

\* A row whose columns and queries do not change still fits.
LEMMA QueriesKept ==
  ASSUME NEW id, QueriesFit(id), row'[id] = row[id], query'[id] = query[id]
  PROVE  QueriesFit(id)'
BY DEF QueriesFit, MayBill

\* A run that does not move, on a row that does not change, still fits.
LEMMA RunKept ==
  ASSUME NEW a, RunFits(a), run'[a] = run[a], row'[run[a].id] = row[run[a].id],
         query'[run[a].id] = query[run[a].id], estimated \subseteq estimated'
  PROVE  RunFits(a)'
BY DEF RunFits, MayBill

\* Bills survives a step of one actor that leaves BigQuery and the rows alone.
LEMMA BillsQuiet ==
  ASSUME Bills, UNCHANGED <<query, row>>, estimated \subseteq estimated', NEW a \in Actors,
         \A b \in Actors \ {a} : run'[b] = run[b], Working(a)' => RunFits(a)'
  PROVE  Bills'
<1>1. \A id \in Ids : QueriesFit(id)' BY BillsParts, QueriesKept
<1>2. \A b \in Actors \ {a} : Working(b)' => RunFits(b)'
  <2> SUFFICES ASSUME NEW b \in Actors \ {a}, Working(b)' PROVE RunFits(b)'
    OBVIOUS
  <2>1. Working(b) BY DEF Working
  <2> QED BY <2>1, BillsParts, RunKept
<1> QED BY <1>1, <1>2, BillsPartsNext

\* The queries of a reservation fit it, whatever the run, its crash or a recovery does.
LEMMA BillsStep ==
  ASSUME RefillJobs = {}
  PROVE  TypeOK /\ Rows /\ Owners /\ Bills /\ [Next]_vars => Bills'
<1> SUFFICES ASSUME TypeOK, Rows, Owners, Bills, [Next]_vars PROVE Bills'
  OBVIOUS
<1>0. \A a \in Actors : Working(a) =>
        /\ RunFits(a) /\ run[a] \in RunType /\ run[a].id \in Ids /\ run[a].id \in live
        /\ QueriesFit(run[a].id) /\ run[a].slot \in Slots
        /\ run[a].billed \in Nat /\ run[a].cap \in Nat /\ run[a].est \in Nat
  BY BillsParts DEF Owners, TypeOK, RunType
<1>1. ASSUME NEW a \in Actors,
             \/ RecoverSelect(a) \/ RecoverReturn(a) \/ RecoverFails(a) \/ Leave(a) \/ SettleFails(a)
             \/ Crash(a) \/ Settle(a) \/ CommitBaseline(a)
      PROVE  Bills'
  <2>1. run[a] \in RunType BY DEF TypeOK
  <2>2. \/ \E pc \in {"idle", "recover", "ready"} : run' = [run EXCEPT ![a].pc = pc]
        \/ run' = [run EXCEPT ![a] = Idle] \/ run' = [run EXCEPT ![a] = Ready]
    BY <1>1 DEF RecoverSelect, RecoverReturn, RecoverFails, Leave, SettleFails, Crash, Settle, CommitBaseline
  <2>3. ~Working(a)' /\ \A b \in Actors \ {a} : run'[b] = run[b]
    BY <2>1, <2>2 DEF Working, TypeOK, RunType, Idle, Ready
  <2>4. UNCHANGED <<query, row, estimated>>
    BY <1>1 DEF RecoverSelect, RecoverReturn, RecoverFails, Leave, SettleFails, Crash, Settle, CommitBaseline
  <2> QED BY <2>3, <2>4, BillsQuiet
<1>2. ASSUME NEW a \in Actors, RecoverUnattached(a) \/ RecoverAttached(a) \/ RecoverSkip(a) PROVE Bills'
  <2>1. UNCHANGED <<run, query, row, estimated>>
    BY <1>2 DEF RecoverUnattached, RecoverAttached, RecoverSkip
  <2>2. Working(a)' => RunFits(a)' BY <2>1, <1>0, RunKept DEF Working
  <2> QED BY <2>1, <2>2, BillsQuiet
<1>3. ASSUME NEW a \in Actors, NEW job \in Jobs, NEW est \in Estimates, NEW force \in BOOLEAN,
             Reserve(a, job, est, force) PROVE Bills'
  <2>0. nextId \in Ids BY <1>3, ConstantsAssumption DEF Reserve, TypeOK, Ids
  <2>. PICK n \in Ids : n = nextId BY <2>0
  <2>1. nextId \in Ids /\ query' = query /\ estimated' = estimated
    BY <1>3, ConstantsAssumption DEF Reserve, TypeOK, Ids
  <2>2. /\ \A id \in Ids \ {n} : row'[id] = row[id]
        /\ row'[n].bytes = SizedReservation(est) /\ SizedReservation(est) \in Nat
    BY <1>3, <2>1, SizedType DEF Reserve, TypeOK
  <2>3. \A s \in Slots : query[n][s] = NoQuery BY <2>1 DEF Rows, TypeOK
  <2>4. query'[n][1] = NoQuery /\ query'[n][2] = NoQuery BY <2>1, <2>3 DEF Slots
  <2>5. QueriesFit(n)'
    <3>1. MayBill(n, 1)' = 0 /\ MayBill(n, 2)' = 0 BY <2>4 DEF MayBill, NoQuery
    <3>2. 0 + 0 <= row'[n].bytes BY <2>2
    <3>3. \A s \in Slots : query'[n][s].billed <= query'[n][s].cap
      BY <2>4 DEF NoQuery, Slots
    <3> QED BY <2>1, <2>3, <3>1, <3>2, <3>3 DEF QueriesFit
  <2>6. \A id \in Ids : QueriesFit(id)' BY <2>1, <2>2, <2>5, BillsParts, QueriesKept
  <2>7. /\ \A b \in Actors \ {a} : run'[b] = run[b]
        /\ run'[a].pc = "submit" /\ run'[a].id = n /\ run'[a].slot = 1
        /\ run'[a].billed = 0 /\ run'[a].cap = SizedReservation(est)
    BY <1>3 DEF Reserve, TypeOK, Idle
  <2>8. RunFits(a)' BY <2>1, <2>2, <2>3, <2>7 DEF RunFits, NoQuery, Slots
  <2>9. \A b \in Actors \ {a} : Working(b)' => RunFits(b)'
    <3> SUFFICES ASSUME NEW b \in Actors \ {a}, Working(b)' PROVE RunFits(b)'
      OBVIOUS
    <3>1. Working(b) BY <2>7 DEF Working
    <3>2. run[b].id # n BY <1>0, <2>1, <3>1 DEF Rows, TypeOK
    <3> QED BY <1>0, <2>1, <2>2, <2>7, <3>1, <3>2, RunKept
  <2> QED BY <2>6, <2>8, <2>9, BillsPartsNext
<1>4. ASSUME NEW a \in Actors, Submit(a) PROVE Bills'
  <2>1. Working(a) /\ run[a].pc = "submit" BY <1>4 DEF Submit, Working
  <2>. PICK i \in Ids, s \in Slots : i = run[a].id /\ s = run[a].slot BY <1>0, <2>1
  <2>2. /\ i \in Ids /\ s \in Slots /\ run[a] \in RunType /\ run[a].cap \in Nat /\ run[a].billed \in Nat
        /\ QueriesFit(i) /\ RunFits(a)
    BY <1>0, <2>1
  <2>3. /\ \A id \in Ids \ {i} : query'[id] = query[id]
        /\ query'[i][s] = [st |-> "running", cap |-> run[a].cap, billed |-> 0]
        /\ \A t \in Slots \ {s} : query'[i][t] = query[i][t]
        /\ UNCHANGED <<row, estimated>>
    BY <1>4, <2>2 DEF Submit, TypeOK
  <2>4. /\ \A b \in Actors \ {a} : run'[b] = run[b]
        /\ run'[a] = [run[a] EXCEPT !.pc = "attach"]
    BY <1>4 DEF Submit, TypeOK
  <2>5. /\ run'[a].pc = "attach" /\ run'[a].id = i /\ run'[a].slot = s
        /\ run'[a].cap = run[a].cap /\ run'[a].billed = run[a].billed
    BY <2>2, <2>4 DEF RunType
  <2>6. /\ run[a].billed + run[a].cap <= row[i].bytes
        /\ query[i][s].st = "none"
        /\ s = 1 => run[a].billed = 0 /\ query[i][2].st = "none"
        /\ s = 2 => run[a].billed = query[i][1].billed /\ query[i][1].st = "done"
    BY <2>1, <2>2 DEF RunFits
  <2>7. QueriesFit(i)'
    <3>1. CASE s = 1
      <4>1. query'[i][2] = NoQuery /\ query'[i][1].cap = run[a].cap /\ query'[i][1].st = "running"
            /\ query'[i][1].billed = 0
        BY <2>2, <2>3, <2>6, <3>1 DEF QueriesFit, Slots
      <4>2. run[a].billed = 0 BY <2>6, <3>1
      <4>3. 0 + run[a].cap <= row[i].bytes BY <2>6, <4>2
      <4>4. run[a].cap + 0 <= row[i].bytes BY <2>2, <4>3, BillTypes
      <4>5. MayBill(i, 1)' = run[a].cap /\ MayBill(i, 2)' = 0 BY <4>1 DEF MayBill, NoQuery
      <4>6. \A t \in Slots : /\ query'[i][t].billed <= query'[i][t].cap
                             /\ query'[i][t].st = "none" => query'[i][t] = NoQuery
        BY <2>2, <4>1 DEF NoQuery, Slots
      <4> QED BY <2>3, <4>4, <4>5, <4>6 DEF QueriesFit
    <3>2. CASE s = 2
      <4>1. query'[i][1] = query[i][1] /\ query'[i][2].cap = run[a].cap /\ query'[i][2].st = "running"
            /\ query'[i][2].billed = 0
        BY <2>2, <2>3, <3>2 DEF Slots
      <4>2. run[a].billed = query[i][1].billed /\ query[i][1].st = "done" BY <2>6, <3>2
      <4>3. query[i][1].billed + run[a].cap <= row[i].bytes BY <2>6, <4>2
      <4>4. MayBill(i, 1)' = query[i][1].billed /\ MayBill(i, 2)' = run[a].cap
        BY <4>1, <4>2 DEF MayBill
      <4>5. \A t \in Slots : /\ query'[i][t].billed <= query'[i][t].cap
                             /\ query'[i][t].st = "none" => query'[i][t] = NoQuery
        BY <2>2, <4>1 DEF QueriesFit, Slots
      <4> QED BY <2>3, <4>3, <4>4, <4>5 DEF QueriesFit
    <3> QED BY <2>2, <3>1, <3>2 DEF Slots
  <2>8. \A id \in Ids : QueriesFit(id)' BY <2>3, <2>7, BillsParts, QueriesKept
  <2>9. RunFits(a)'
    <3>1. s = 1 => query'[i][2].st = "none" BY <2>3, <2>6 DEF Slots
    <3>2. s = 2 => query'[i][1] = query[i][1] BY <2>3 DEF Slots
    <3>3. query'[i][s].st = "running" /\ query'[i][s].cap = run[a].cap BY <2>3
    <3> QED BY <2>2, <2>3, <2>5, <2>6, <3>1, <3>2, <3>3 DEF RunFits, Slots
  <2>10. \A b \in Actors \ {a} : Working(b)' => RunFits(b)'
    <3> SUFFICES ASSUME NEW b \in Actors \ {a}, Working(b)' PROVE RunFits(b)'
      OBVIOUS
    <3>1. Working(b) BY <2>4 DEF Working
    <3>2. run[b].id # i BY <2>1, <3>1 DEF Owners
    <3> QED BY <1>0, <2>3, <2>4, <3>1, <3>2, RunKept
  <2> QED BY <2>8, <2>9, <2>10, BillsPartsNext
<1>5. ASSUME NEW a \in Actors, GiveUp(a) PROVE Bills'
  <2>1. Working(a) /\ run[a].pc = "submit" BY <1>5 DEF GiveUp, Working
  <2>2. /\ run[a].id \in Ids /\ run[a].slot \in Slots /\ run[a] \in RunType
        /\ run[a].cap \in Nat /\ run[a].billed \in Nat /\ QueriesFit(run[a].id) /\ RunFits(a)
    BY <1>0, <2>1
  <2>3. /\ UNCHANGED <<query, row, estimated>> /\ run'[a] = [run[a] EXCEPT !.pc = "settle"]
        /\ \A b \in Actors \ {a} : run'[b] = run[b]
    BY <1>5 DEF GiveUp, TypeOK
  <2>4. run'[a].pc = "settle" /\ run'[a].id = run[a].id /\ run'[a].billed = run[a].billed
    BY <2>2, <2>3 DEF RunType
  <2>5. run[a].billed <= row[run[a].id].bytes
    BY <2>1, <2>2, BillTypes DEF RunFits
  <2>6. run[a].billed >= MayBill(run[a].id, 1) + MayBill(run[a].id, 2)
    <3>1. CASE run[a].slot = 1
      <4>1. query[run[a].id][1] = NoQuery /\ query[run[a].id][2] = NoQuery
        BY <2>1, <2>2, <3>1 DEF RunFits, QueriesFit, Slots
      <4> QED BY <2>2, <4>1 DEF MayBill, NoQuery
    <3>2. CASE run[a].slot = 2
      <4>1. /\ query[run[a].id][2] = NoQuery /\ query[run[a].id][1].st = "done"
            /\ run[a].billed = query[run[a].id][1].billed
        BY <2>1, <2>2, <3>2 DEF RunFits, QueriesFit, Slots
      <4> QED BY <2>2, <4>1 DEF MayBill, NoQuery
    <3> QED BY <2>2, <3>1, <3>2 DEF Slots
  <2>7. RunFits(a)' BY <2>3, <2>4, <2>5, <2>6 DEF RunFits, MayBill
  <2> QED BY <2>3, <2>7, BillsQuiet
<1>6. ASSUME NEW a \in Actors, Attach(a) \/ AttachFails(a) PROVE Bills'
  <2>1. Working(a) /\ run[a].pc = "attach" BY <1>6 DEF Attach, AttachFails, Working
  <2>2. run[a] \in RunType /\ RunFits(a) BY <1>0, <2>1
  <2>3. /\ UNCHANGED <<query, row, estimated>> /\ run'[a] = [run[a] EXCEPT !.pc = "wait"]
        /\ \A b \in Actors \ {a} : run'[b] = run[b]
    BY <1>6 DEF Attach, AttachFails, TypeOK
  <2>4. /\ run'[a].pc = "wait" /\ run'[a].id = run[a].id /\ run'[a].slot = run[a].slot
        /\ run'[a].cap = run[a].cap /\ run'[a].billed = run[a].billed
    BY <2>2, <2>3 DEF RunType
  <2>5. RunFits(a)' BY <2>1, <2>2, <2>3, <2>4 DEF RunFits
  <2> QED BY <2>3, <2>5, BillsQuiet
<1>7. ASSUME NEW a \in Actors, run[a].pc = "wait" PROVE
         /\ Working(a) /\ run[a] \in RunType /\ run[a].id \in Ids /\ run[a].slot \in Slots
         /\ run[a].cap \in Nat /\ run[a].billed \in Nat /\ run[a].est \in Nat
         /\ QueriesFit(run[a].id) /\ RunFits(a)
         /\ MyQuery(a).billed \in Nat /\ MyQuery(a).billed <= run[a].cap
         /\ run[a].billed + run[a].cap <= row[run[a].id].bytes
  <2>1. Working(a) BY <1>7 DEF Working
  <2>2. /\ run[a] \in RunType /\ run[a].id \in Ids /\ run[a].slot \in Slots
        /\ run[a].cap \in Nat /\ run[a].billed \in Nat /\ run[a].est \in Nat
        /\ QueriesFit(run[a].id) /\ RunFits(a)
    BY <1>0, <2>1
  <2>3. MyQuery(a).billed \in Nat /\ MyQuery(a).billed <= MyQuery(a).cap /\ MyQuery(a).cap = run[a].cap
    BY <1>7, <2>2, BillTypes DEF QueriesFit, RunFits, MyQuery
  <2>4. run[a].billed + run[a].cap <= row[run[a].id].bytes BY <1>7, <2>2 DEF RunFits
  <2> QED BY <2>1, <2>2, <2>3, <2>4
<1>8. ASSUME NEW a \in Actors, CollectFirst(a) PROVE Bills'
  <2> DEFINE b == MyQuery(a).billed
             c == run[a].cap - b
  <2>1. run[a].pc = "wait" /\ run[a].slot = 1 /\ MyQuery(a).st = "done" BY <1>8 DEF CollectFirst
  <2>2. /\ run[a] \in RunType /\ RunFits(a) /\ run[a].cap \in Nat /\ b \in Nat /\ b <= run[a].cap
        /\ run[a].billed + run[a].cap <= row[run[a].id].bytes
    BY <1>7, <2>1
  <2>3. run[a].billed = 0 /\ query[run[a].id][2].st = "none" /\ MyQuery(a) = query[run[a].id][1]
    BY <2>1, <2>2 DEF RunFits, MyQuery
  <2>4. SecondCap(row[run[a].id].job, run[a].cap, b) = c BY DEF SecondCap
  <2>5. /\ UNCHANGED <<query, row, estimated>> /\ \A x \in Actors \ {a} : run'[x] = run[x]
        /\ run'[a] = [run[a] EXCEPT !.pc = "submit", !.slot = 2, !.cap = c, !.billed = @ + b]
    BY <1>8, <2>4 DEF CollectFirst, TypeOK
  <2>6. /\ run'[a].pc = "submit" /\ run'[a].id = run[a].id /\ run'[a].slot = 2
        /\ run'[a].cap = c /\ run'[a].billed = run[a].billed + b
    BY <2>2, <2>5 DEF RunType
  <2>7. run'[a].billed = b /\ b + c <= row[run[a].id].bytes
    BY <2>2, <2>3, <2>6
  <2>8. RunFits(a)' BY <2>1, <2>3, <2>5, <2>6, <2>7 DEF RunFits
  <2> QED BY <2>5, <2>8, BillsQuiet
<1>9. ASSUME NEW a \in Actors, NEW ok \in BOOLEAN, CollectLast(a, ok) PROVE Bills'
  <2> DEFINE b == MyQuery(a).billed
  <2>1. run[a].pc = "wait" /\ MyQuery(a).st = "done" BY <1>9 DEF CollectLast
  <2>2. /\ run[a] \in RunType /\ RunFits(a) /\ run[a].cap \in Nat /\ b \in Nat /\ b <= run[a].cap
        /\ run[a].billed \in Nat /\ run[a].billed + run[a].cap <= row[run[a].id].bytes
        /\ run[a].id \in Ids /\ run[a].slot \in Slots /\ QueriesFit(run[a].id)
    BY <1>7, <2>1
  <2>3. /\ UNCHANGED <<query, row, estimated>> /\ \A x \in Actors \ {a} : run'[x] = run[x]
        /\ run'[a] = [run[a] EXCEPT !.pc = "settle", !.ok = ok, !.billed = @ + b]
    BY <1>9 DEF CollectLast, TypeOK
  <2>4. run'[a].pc = "settle" /\ run'[a].id = run[a].id /\ run'[a].billed = run[a].billed + b
    BY <2>2, <2>3 DEF RunType
  <2>5. row[run[a].id].bytes \in Nat BY <2>2, BillTypes
  <2>6. run[a].billed + b <= row[run[a].id].bytes BY <2>2, <2>5
  <2>7. run[a].billed + b = MayBill(run[a].id, 1) + MayBill(run[a].id, 2)
    <3>1. CASE run[a].slot = 1
      <4>1. query[run[a].id][2] = NoQuery /\ run[a].billed = 0 /\ MyQuery(a) = query[run[a].id][1]
        BY <2>1, <2>2, <3>1 DEF RunFits, QueriesFit, MyQuery, Slots
      <4> QED BY <2>1, <2>2, <4>1 DEF MayBill, NoQuery
    <3>2. CASE run[a].slot = 2
      <4>1. /\ MyQuery(a) = query[run[a].id][2] /\ query[run[a].id][1].st = "done"
            /\ run[a].billed = query[run[a].id][1].billed
        BY <2>1, <2>2, <3>2 DEF RunFits, MyQuery
      <4> QED BY <2>1, <2>2, <4>1 DEF MayBill
    <3> QED BY <2>2, <3>1, <3>2 DEF Slots
  <2>9. (MayBill(run[a].id, 1) + MayBill(run[a].id, 2))' = MayBill(run[a].id, 1) + MayBill(run[a].id, 2)
    BY <2>3, <2>4 DEF MayBill
  <2>10. run'[a].billed <= row'[run'[a].id].bytes BY <2>3, <2>4, <2>6
  <2>11. run'[a].billed >= (MayBill(run[a].id, 1) + MayBill(run[a].id, 2))'
    BY <2>2, <2>4, <2>7, <2>9
  <2>8. RunFits(a)'
    <3> HIDE DEF MayBill
    <3> QED BY <2>4, <2>10, <2>11 DEF RunFits
  <2> QED BY <2>3, <2>8, BillsQuiet
<1>10. ASSUME NEW a \in Actors, Cancelled(a) PROVE Bills'
  <2>1. run[a].pc = "wait" BY <1>10 DEF Cancelled
  <2>2. /\ run[a] \in RunType /\ Working(a) /\ run[a].cap \in Nat /\ run[a].billed \in Nat /\ run[a].est \in Nat
        /\ run[a].billed + run[a].cap <= row[run[a].id].bytes /\ run[a].id \in Ids
    BY <1>7, <2>1
  <2>3. /\ UNCHANGED <<query, row>> /\ \A x \in Actors \ {a} : run'[x] = run[x]
        /\ \E timedOut \in BOOLEAN :
             run'[a] = [run[a] EXCEPT !.pc = "settle",
                         !.billed = IF timedOut /\ run[a].billed = 0 THEN run[a].est ELSE @]
        /\ estimated' = estimated \union {run[a].id}
    BY <1>10 DEF Cancelled, TypeOK
  <2>4. /\ run'[a].pc = "settle" /\ run'[a].id = run[a].id
        /\ run'[a].billed \in {run[a].est, run[a].billed}
    BY <2>2, <2>3 DEF RunType
  <2>5. run[a].est <= row[run[a].id].bytes BY <2>2 DEF Owners
  <2>6. row[run[a].id].bytes \in Nat BY <2>2, BillTypes
  <2>7. run'[a].billed <= row[run[a].id].bytes BY <2>2, <2>4, <2>5, <2>6
  <2>8. RunFits(a)' BY <2>3, <2>4, <2>7 DEF RunFits
  <2> QED BY <2>3, <2>8, BillsQuiet
<1>11. ASSUME NEW id \in Ids, NEW s \in Slots, Finish(id, s) PROVE Bills'
  <2>1. PICK x \in 0 .. query[id][s].cap :
          query' = [query EXCEPT ![id][s].st = "done", ![id][s].billed = x]
    BY <1>11 DEF Finish
  <2>2. query[id][s] \in QueryType /\ query[id][s].cap \in Nat BY BillTypes
  <2>3. /\ query'[id][s].st = "done" /\ query'[id][s].billed = x /\ query'[id][s].cap = query[id][s].cap
        /\ \A t \in Slots \ {s} : query'[id][t] = query[id][t]
        /\ \A i \in Ids \ {id} : query'[i] = query[i]
    BY <2>1, <2>2 DEF TypeOK, QueryType
  <2>4. UNCHANGED <<row, run, estimated>> /\ query[id][s].st = "running" BY <1>11 DEF Finish
  <2>5. x \in Nat /\ x <= query[id][s].cap BY <2>2
  <2>6. /\ MayBill(id, 1)' <= MayBill(id, 1) /\ MayBill(id, 2)' <= MayBill(id, 2)
        /\ MayBill(id, 1)' \in Nat /\ MayBill(id, 2)' \in Nat
    <3>1. CASE s = 1 BY <2>3, <2>4, <2>5, <3>1, BillTypes DEF MayBill, Slots
    <3>2. CASE s = 2 BY <2>3, <2>4, <2>5, <3>2, BillTypes DEF MayBill, Slots
    <3> QED BY <3>1, <3>2 DEF Slots
  <2>7. MayBill(id, 1)' + MayBill(id, 2)' <= MayBill(id, 1) + MayBill(id, 2)
    BY <2>6, BillTypes
  <2>8. QueriesFit(id)'
    <3>1. QueriesFit(id) BY BillsParts
    <3>2. MayBill(id, 1)' + MayBill(id, 2)' <= row'[id].bytes
      BY <2>4, <2>6, <2>7, <3>1, BillTypes DEF QueriesFit
    <3>3. \A t \in Slots : /\ query'[id][t].billed <= query'[id][t].cap
                           /\ query'[id][t].st = "none" => query'[id][t] = NoQuery
      BY <2>3, <2>5, <3>1 DEF QueriesFit
    <3> QED BY <3>2, <3>3 DEF QueriesFit
  <2>9. \A i \in Ids : QueriesFit(i)' BY <2>3, <2>4, <2>8, BillsParts, QueriesKept
  <2>10. \A a \in Actors : Working(a)' => RunFits(a)'
    <3> SUFFICES ASSUME NEW a \in Actors, Working(a)' PROVE RunFits(a)'
      OBVIOUS
    <3>1. Working(a) BY <2>4 DEF Working
    <3>2. CASE run[a].id # id BY <1>0, <2>3, <2>4, <3>1, <3>2, RunKept
    <3>3. CASE run[a].id = id
      <4>1. RunFits(a) /\ run[a].slot \in Slots /\ run[a].billed \in Nat BY <1>0, <3>1
      <4>2. \A t \in Slots : query[id][t].st \in {"none", "done"} => query'[id][t] = query[id][t]
        BY <2>3, <2>4
      <4>3. \A t \in Slots : query[id][t].st # "none" =>
              query'[id][t].st # "none" /\ query'[id][t].cap = query[id][t].cap
        BY <2>3, <2>4
      <4>4. CASE run[a].pc = "settle"
        <5>1. run[a].id \notin estimated => run[a].billed >= MayBill(id, 1) + MayBill(id, 2)
          BY <3>3, <4>1, <4>4 DEF RunFits
        <5>2. run[a].id \notin estimated => run[a].billed >= MayBill(id, 1)' + MayBill(id, 2)'
          BY <2>6, <2>7, <4>1, <5>1, BillTypes
        <5> QED BY <2>4, <3>3, <4>1, <4>4, <5>2 DEF RunFits
      <4>5. CASE run[a].pc # "settle"
        BY <2>4, <3>3, <4>1, <4>2, <4>3, <4>5 DEF RunFits, Slots
      <4> QED BY <4>4, <4>5
    <3> QED BY <3>2, <3>3
  <2> QED BY <2>9, <2>10, BillsPartsNext
<1>12. ASSUME UNCHANGED <<run, query, row, estimated>> PROVE Bills'
  <2>1. \A id \in Ids : QueriesFit(id)' BY <1>12, BillsParts, QueriesKept
  <2>2. \A a \in Actors : Working(a)' => RunFits(a)' BY <1>0, <1>12, RunKept DEF Working
  <2> QED BY <2>1, <2>2, BillsPartsNext
<1>13. ASSUME Tick PROVE Bills'
  BY <1>12, <1>13 DEF Tick
<1>14. ASSUME UNCHANGED vars PROVE Bills'
  BY <1>12, <1>14 DEF vars
<1> QED
  BY <1>1, <1>2, <1>3, <1>4, <1>5, <1>6, <1>8, <1>9, <1>10, <1>11, <1>13, <1>14 DEF Next, Recover, Run

---------------------------------------------------------------------------
(* Charges and the budget *)

\* Slots whose bills are in a charge, and what the other queries may bill.
LEMMA BilledAll ==
  ASSUME TypeOK, Bills, NEW id \in Ids, attached[id] # {}, ~PartlyAttached(id),
         \A s \in attached[id] : query[id][s].st = "done"
  PROVE  Billed(id, attached[id]) >= MayBill(id, 1) + MayBill(id, 2)
<1>1. \A s \in Slots : s \notin attached[id] => query[id][s].st = "none"
  BY DEF PartlyAttached, Submitted
<1>2. \A s \in Slots : s \notin attached[id] => MayBill(id, s) = 0
  BY <1>1 DEF MayBill, Bills, NoQuery
<1>3. \A s \in Slots : s \in attached[id] => MayBill(id, s) = query[id][s].billed
  BY DEF MayBill
<1>4. \A s \in Slots : MayBill(id, s) = IF s \in attached[id] THEN query[id][s].billed ELSE 0
  BY <1>2, <1>3
<1>5. Billed(id, attached[id]) = MayBill(id, 1) + MayBill(id, 2)
  BY <1>4 DEF Billed, Slots
<1> QED BY <1>5, BilledType

\* Any set of a row's queries has billed at most its reservation.
LEMMA BilledFits ==
  ASSUME TypeOK, Bills, NEW id \in Ids, NEW S
  PROVE  Billed(id, S) <= row[id].bytes
<1>1. QueriesFit(id) BY BillsParts
<1>2. /\ query[id][1].billed <= MayBill(id, 1) /\ query[id][2].billed <= MayBill(id, 2)
      /\ query[id][1].billed \in Nat /\ query[id][2].billed \in Nat
  BY <1>1, BillTypes DEF MayBill, QueriesFit, Slots
<1>3. Billed(id, S) <= MayBill(id, 1) + MayBill(id, 2) BY <1>2, BillTypes DEF Billed
<1>4. MayBill(id, 1) + MayBill(id, 2) <= row[id].bytes BY <1>1 DEF QueriesFit
<1> QED BY <1>3, <1>4, BillTypes, BilledType

\* ChargeCoversBill survives a step that charges nothing, records no job id and
\* submits nothing for a row already charged.
LEMMA ChargeKept ==
  ASSUME TypeOK, Bills, ChargeCoversBill, credited' = credited, estimated \subseteq estimated',
         \A id \in Ids : credited[id] # Never => attached'[id] = attached[id] /\ query'[id] = query[id]
  PROVE  ChargeCoversBill'
BY DEF ChargeCoversBill, PartlyAttached, Submitted, MayBill

\* It survives the settlement of a row with a charge that covers its queries.
LEMMA ChargeSettled ==
  ASSUME TypeOK, Rows, ChargeCoversBill, NEW id \in Ids, NEW billed \in Nat, SettleTx(id, billed),
         UNCHANGED <<attached, query, estimated>>,
         id \in live /\ id \notin estimated /\ ~PartlyAttached(id)
           => billed >= MayBill(id, 1) + MayBill(id, 2)
  PROVE  ChargeCoversBill'
<1>1. CASE id \notin live
  BY <1>1 DEF SettleTx, ChargeCoversBill, PartlyAttached, Submitted, MayBill
<1>2. CASE id \in live
  <2>1. credited[id] = Never BY <1>2 DEF Rows
  <2>2. AtLeast(Never, 0) + billed = billed BY DEF AtLeast, Never
  <2>3. credited'[id] = billed /\ \A i \in Ids \ {id} : credited'[i] = credited[i]
    BY <1>2, <2>1, <2>2 DEF SettleTx, Charge, TypeOK
  <2> SUFFICES ASSUME NEW i \in Ids, credited'[i] # Never, i \notin estimated, ~PartlyAttached(i)
               PROVE  credited'[i] >= MayBill(i, 1) + MayBill(i, 2)
    BY DEF ChargeCoversBill, PartlyAttached, Submitted, MayBill
  <2>4. CASE i = id BY <1>2, <2>3, <2>4
  <2>5. CASE i # id BY <2>3, <2>5 DEF ChargeCoversBill
  <2> QED BY <2>4, <2>5
<1> QED BY <1>1, <1>2

\* A charge, once made, covers what the reservation's queries bill.
LEMMA ChargeStep ==
  TypeOK /\ Rows /\ Owners /\ Sweeps /\ Bills /\ ChargeCoversBill /\ [Next]_vars => ChargeCoversBill'
<1> SUFFICES ASSUME TypeOK, Rows, Owners, Sweeps, Bills, ChargeCoversBill, [Next]_vars
             PROVE  ChargeCoversBill'
  OBVIOUS
<1>1. ASSUME UNCHANGED <<credited, attached, query>>, estimated \subseteq estimated'
      PROVE  ChargeCoversBill'
  BY <1>1, ChargeKept
<1>2. ASSUME NEW a \in Actors,
             \/ RecoverSelect(a) \/ RecoverSkip(a) \/ RecoverReturn(a) \/ RecoverFails(a) \/ Leave(a)
             \/ GiveUp(a) \/ AttachFails(a) \/ CollectFirst(a)
             \/ (\E ok \in BOOLEAN : CollectLast(a, ok)) \/ Cancelled(a) \/ SettleFails(a) \/ Crash(a)
             \/ (\E job \in Jobs, est \in Estimates, force \in BOOLEAN : Reserve(a, job, est, force))
      PROVE  ChargeCoversBill'
  BY <1>1, <1>2 DEF RecoverSelect, RecoverSkip, RecoverReturn, RecoverFails, Leave, GiveUp, AttachFails,
     CollectFirst, CollectLast, Cancelled, SettleFails, Crash, Reserve, db
<1>3. ASSUME NEW a \in Actors, RecoverUnattached(a) PROVE ChargeCoversBill'
  <2>1. PICK r \in sweep[a] : SettleTx(r.id, row[r.id].bytes) BY <1>3 DEF RecoverUnattached
  <2>2. r.id \in Ids BY DEF TypeOK
  <2>3. row[r.id].bytes \in Nat BY <2>2, BillTypes
  <2>4. row[r.id].bytes >= MayBill(r.id, 1) + MayBill(r.id, 2)
    BY <2>2, <2>3, BillTypes, BillsParts DEF QueriesFit
  <2> QED BY <1>3, <2>1, <2>2, <2>3, <2>4, ChargeSettled DEF RecoverUnattached
<1>4. ASSUME NEW a \in Actors, RecoverAttached(a) PROVE ChargeCoversBill'
  <2>1. PICK r \in sweep[a] : r.jobs # {} /\ JobsDone(r) /\ SettleTx(r.id, Billed(r.id, r.jobs))
    BY <1>4 DEF RecoverAttached
  <2>2. r.id \in Ids /\ r.jobs = attached[r.id] BY DEF TypeOK, Sweeps
  <2>3. ~PartlyAttached(r.id) => Billed(r.id, r.jobs) >= MayBill(r.id, 1) + MayBill(r.id, 2)
    BY <2>1, <2>2, BilledAll DEF JobsDone
  <2> QED BY <1>4, <2>1, <2>2, <2>3, BilledType, ChargeSettled DEF RecoverAttached
<1>5. ASSUME NEW a \in Actors, Submit(a) \/ Attach(a) PROVE ChargeCoversBill'
  <2>1. run[a].id \in live /\ run[a].id \in Ids
    BY <1>5 DEF Submit, Attach, Owners, Working, TypeOK
  <2>2. \A id \in Ids : credited[id] # Never => id # run[a].id BY <2>1 DEF Rows
  <2>3. \A id \in Ids \ {run[a].id} : attached'[id] = attached[id] /\ query'[id] = query[id]
    <3>1. CASE Submit(a) BY <3>1 DEF Submit, TypeOK, db
    <3>2. CASE Attach(a) BY <3>2 DEF Attach, TypeOK
    <3> QED BY <1>5, <3>1, <3>2
  <2>4. credited' = credited /\ estimated \subseteq estimated' BY <1>5 DEF Submit, Attach, db
  <2> QED BY <2>2, <2>3, <2>4, ChargeKept
<1>6. ASSUME NEW a \in Actors, Settle(a) \/ CommitBaseline(a) PROVE ChargeCoversBill'
  <2>1. Working(a) /\ run[a].pc = "settle" /\ SettleTx(run[a].id, run[a].billed)
    BY <1>6 DEF Settle, CommitBaseline, Working
  <2>2. run[a].id \in Ids /\ run[a].billed \in Nat BY <2>1 DEF Owners, TypeOK, RunType
  <2>3. run[a].id \notin estimated => run[a].billed >= MayBill(run[a].id, 1) + MayBill(run[a].id, 2)
    BY <2>1, BillsParts DEF RunFits
  <2> QED BY <1>6, <2>1, <2>2, <2>3, ChargeSettled DEF Settle, CommitBaseline
<1>7. ASSUME NEW id \in Ids, NEW s \in Slots, Finish(id, s) PROVE ChargeCoversBill'
  <2>1. PICK x \in 0 .. query[id][s].cap :
          query' = [query EXCEPT ![id][s].st = "done", ![id][s].billed = x]
    BY <1>7 DEF Finish
  <2>2. query[id][s] \in QueryType /\ query[id][s].cap \in Nat BY BillTypes
  <2>3. /\ query'[id][s].st = "done" /\ query'[id][s].billed = x
        /\ \A t \in Slots \ {s} : query'[id][t] = query[id][t]
        /\ \A i \in Ids \ {id} : query'[i] = query[i]
    BY <2>1, <2>2 DEF TypeOK, QueryType
  <2>4. UNCHANGED <<attached, credited, estimated>> /\ query[id][s].st = "running"
    BY <1>7 DEF Finish, db
  <2>5. x \in Nat /\ x <= query[id][s].cap BY <2>2
  <2>6. /\ MayBill(id, 1)' <= MayBill(id, 1) /\ MayBill(id, 2)' <= MayBill(id, 2)
        /\ MayBill(id, 1)' \in Nat /\ MayBill(id, 2)' \in Nat
    <3>1. CASE s = 1 BY <2>3, <2>4, <2>5, <3>1, BillTypes DEF MayBill, Slots
    <3>2. CASE s = 2 BY <2>3, <2>4, <2>5, <3>2, BillTypes DEF MayBill, Slots
    <3> QED BY <3>1, <3>2 DEF Slots
  <2>7. Submitted(id)' = Submitted(id) BY <2>3, <2>4 DEF Submitted
  <2> SUFFICES ASSUME NEW i \in Ids, credited[i] # Never, i \notin estimated, ~PartlyAttached(i)'
               PROVE  credited[i] >= MayBill(i, 1)' + MayBill(i, 2)'
    BY <2>4 DEF ChargeCoversBill
  <2>8. CASE i = id
    <3>1. ~PartlyAttached(id) BY <2>4, <2>7, <2>8 DEF PartlyAttached
    <3>2. credited[id] >= MayBill(id, 1) + MayBill(id, 2) BY <2>8, <3>1 DEF ChargeCoversBill
    <3>3. credited[id] \in Int BY DEF TypeOK, Never
    <3> QED BY <2>6, <2>8, <3>2, <3>3, BillTypes
  <2>9. CASE i # id
    <3>1. query'[i] = query[i] /\ attached'[i] = attached[i] BY <2>3, <2>4, <2>9
    <3>2. ~PartlyAttached(i) BY <3>1 DEF PartlyAttached, Submitted
    <3>3. MayBill(i, 1)' = MayBill(i, 1) /\ MayBill(i, 2)' = MayBill(i, 2) BY <3>1 DEF MayBill
    <3> QED BY <3>2, <3>3 DEF ChargeCoversBill
  <2> QED BY <2>8, <2>9
<1>8. ASSUME Tick PROVE ChargeCoversBill'
  BY <1>1, <1>8 DEF Tick, db
<1>9. ASSUME UNCHANGED vars PROVE ChargeCoversBill'
  BY <1>1, <1>9 DEF vars
<1> QED
  BY <1>2, <1>3, <1>4, <1>5, <1>6, <1>7, <1>8, <1>9 DEF Next, Recover, Run

\* A month's charges and open reservations keep fitting the budget.
LEMMA BudgetStep ==
  TypeOK /\ Rows /\ Owners /\ Sweeps /\ Bills /\ LedgerPlusReservedInBudget /\ [Next]_vars
    => LedgerPlusReservedInBudget'
<1> SUFFICES ASSUME TypeOK, Rows, Owners, Sweeps, Bills, LedgerPlusReservedInBudget, [Next]_vars
             PROVE  LedgerPlusReservedInBudget'
  OBVIOUS
<1>1. ASSUME UNCHANGED <<now, live, row, attached, ledger, conservative>>
      PROVE  LedgerPlusReservedInBudget'
  BY <1>1, BudgetKept DEF Counted, Expired
<1>2. ASSUME NEW a \in Actors,
             \/ RecoverSelect(a) \/ RecoverSkip(a) \/ RecoverReturn(a) \/ RecoverFails(a) \/ Leave(a)
             \/ Submit(a) \/ GiveUp(a) \/ AttachFails(a) \/ CollectFirst(a)
             \/ (\E ok \in BOOLEAN : CollectLast(a, ok)) \/ Cancelled(a) \/ SettleFails(a) \/ Crash(a)
      PROVE  LedgerPlusReservedInBudget'
  BY <1>1, <1>2 DEF RecoverSelect, RecoverSkip, RecoverReturn, RecoverFails, Leave, Submit, GiveUp,
     AttachFails, CollectFirst, CollectLast, Cancelled, SettleFails, Crash, db
<1>3. ASSUME NEW a \in Actors, RecoverUnattached(a) PROVE LedgerPlusReservedInBudget'
  <2>1. PICK r \in sweep[a] : /\ r.jobs = {} /\ SettleTx(r.id, row[r.id].bytes)
                              /\ conservative' = IF r.id \in live
                                   THEN [conservative EXCEPT ![Month(row[r.id].created)] = @ + row[r.id].bytes]
                                   ELSE conservative
    BY <1>3 DEF RecoverUnattached
  <2>2. UNCHANGED <<now, row, attached>> BY <1>3 DEF RecoverUnattached
  <2>3. r.id \in Ids /\ r.jobs = attached[r.id] /\ Expired(r.id) BY DEF TypeOK, Sweeps
  <2>4. CASE r.id \notin live
    <3>1. UNCHANGED <<live, ledger, conservative>> BY <2>1, <2>4 DEF SettleTx
    <3> QED BY <1>1, <2>2, <3>1
  <2>5. CASE r.id \in live
    <3> DEFINE k == Month(row[r.id].created)
               b == row[r.id].bytes
    <3>1. k \in Months /\ b \in Nat BY <2>3, MonthType DEF TypeOK, RowType
    <3>2. /\ live' = live \ {r.id} /\ ledger' = [ledger EXCEPT ![k] = @ + b]
          /\ conservative' = [conservative EXCEPT ![k] = @ + b]
      BY <2>1, <2>5 DEF SettleTx, Charge
    <3>3. Counted' = Counted BY <2>1, <2>2, <2>3, <3>2 DEF Counted, Expired
    <3> HIDE DEF k, b
    <3> SUFFICES ASSUME NEW m \in Months
                 PROVE  ledger'[m] + Cardinality(UnitsOf(row, InMonth(m))) <= Budget + conservative'[m]
      BY <2>2, <3>3 DEF LedgerPlusReservedInBudget, Units, UnitsOf, InMonth
    <3>4. ledger[m] + Cardinality(UnitsOf(row, InMonth(m))) <= Budget + conservative[m]
      BY DEF LedgerPlusReservedInBudget, Units, UnitsOf, InMonth
    <3>5. /\ row \in [Ids -> RowType] /\ InMonth(m) \in SUBSET Ids
          /\ \A id \in InMonth(m) : row[id].bytes <= HardCap
      BY CountedRows DEF TypeOK
    <3>6. Cardinality(UnitsOf(row, InMonth(m))) \in Nat BY <3>5, UnitsFinite
    <3>7. ledger[m] \in Nat /\ conservative[m] \in Nat /\ Budget \in Nat
      BY ConstantsAssumption DEF TypeOK
    <3>8. CASE m = k
      <4>1. ledger'[m] = ledger[m] + b /\ conservative'[m] = conservative[m] + b
        BY <3>2, <3>8 DEF TypeOK
      <4> QED BY <3>1, <3>4, <3>6, <3>7, <4>1
    <3>9. CASE m # k
      <4>1. ledger'[m] = ledger[m] /\ conservative'[m] = conservative[m] BY <3>2, <3>9 DEF TypeOK
      <4> QED BY <3>4, <4>1
    <3> QED BY <3>8, <3>9
  <2> QED BY <2>4, <2>5
<1>4. ASSUME NEW a \in Actors, RecoverAttached(a) PROVE LedgerPlusReservedInBudget'
  <2>1. PICK r \in sweep[a] : r.jobs # {} /\ SettleTx(r.id, Billed(r.id, r.jobs))
    BY <1>4 DEF RecoverAttached
  <2>2. UNCHANGED <<now, row, attached, conservative>> BY <1>4 DEF RecoverAttached
  <2>3. r.id \in Ids /\ r.jobs = attached[r.id] BY DEF TypeOK, Sweeps
  <2>4. CASE r.id \notin live
    <3>1. UNCHANGED <<live, ledger>> BY <2>1, <2>4 DEF SettleTx
    <3> QED BY <1>1, <2>2, <3>1
  <2>5. CASE r.id \in live
    <3>1. r.id \in Counted BY <2>1, <2>3, <2>5 DEF Counted
    <3> QED BY <2>1, <2>2, <2>3, <3>1, BilledType, BilledFits, BudgetSettled
  <2> QED BY <2>4, <2>5
<1>5. ASSUME NEW a \in Actors, NEW job \in Jobs, NEW est \in Estimates, NEW force \in BOOLEAN,
             Reserve(a, job, est, force) PROVE LedgerPlusReservedInBudget'
  <2> DEFINE size == SizedReservation(est)
  <2>0. nextId \in Ids BY <1>5, ConstantsAssumption DEF Reserve, TypeOK, Ids
  <2>. PICK n \in Ids : n = nextId BY <2>0
  <2>1. size \in Nat /\ size <= HardCap BY <1>5, SizedType DEF Reserve
  <2>2. /\ UNCHANGED <<now, attached, ledger, conservative>> /\ live' = live \union {n}
        /\ size <= Budget - ledger[Month(now)] - Cardinality(UnitsOf(row, Counted))
    BY <1>5 DEF Reserve, Remaining, Reserved, Units, UnitsOf
  <2>3. /\ \A id \in Ids \ {n} : row'[id] = row[id]
        /\ row'[n].bytes = size /\ row'[n].created = now
    BY <1>5 DEF Reserve, TypeOK
  <2>4. n \notin live /\ n \notin Counted BY DEF Rows, TypeOK, Counted
  <2>5. Counted' \subseteq Counted \union {n}
    BY <2>2, <2>3, <2>4 DEF Counted, Expired, TypeOK
  <2>6. row \in [Ids -> RowType] /\ row' \in [Ids -> RowType]
    <3>1. TypeOK' BY TypeStep
    <3> QED BY <3>1 DEF TypeOK
  <2>7. Counted \in SUBSET Ids /\ \A id \in Counted : row[id].bytes <= HardCap /\ row'[id] = row[id]
    BY <2>3, <2>4, CountedRows
  <2> HIDE DEF size
  <2> SUFFICES ASSUME NEW m \in Months
               PROVE  ledger[m] + Cardinality(UnitsOf(row', InMonth(m)')) <= Budget + conservative[m]
    BY <2>2 DEF LedgerPlusReservedInBudget, Units, UnitsOf, InMonth
  <2>8. ledger[m] \in Nat /\ conservative[m] \in Nat /\ Budget \in Nat
    BY ConstantsAssumption DEF TypeOK
  <2>9. ledger[m] + Cardinality(UnitsOf(row, InMonth(m))) <= Budget + conservative[m]
    BY DEF LedgerPlusReservedInBudget, Units, UnitsOf, InMonth
  <2>10. InMonth(m) \in SUBSET Counted BY DEF InMonth
  <2>11. CASE m # Month(now)
    <3>1. InMonth(m)' \in SUBSET InMonth(m) BY <2>3, <2>5, <2>7, <2>11 DEF InMonth
    <3>2. UnitsOf(row', InMonth(m)') = UnitsOf(row, InMonth(m)') BY <2>7, <2>10, <3>1 DEF UnitsOf
    <3>3. Cardinality(UnitsOf(row, InMonth(m)')) <= Cardinality(UnitsOf(row, InMonth(m)))
      BY <2>6, <2>7, <2>10, <3>1, UnitsMonotone
    <3>4. Cardinality(UnitsOf(row, InMonth(m)')) \in Nat /\ Cardinality(UnitsOf(row, InMonth(m))) \in Nat
      BY <2>6, <2>7, <2>10, <3>1, UnitsFinite
    <3> QED BY <2>8, <2>9, <3>2, <3>3, <3>4
  <2>12. CASE m = Month(now)
    <3>1. InMonth(m)' \in SUBSET (Counted \union {n}) BY <2>5 DEF InMonth
    <3>2. /\ Counted \union {n} \in SUBSET Ids /\ n \in Ids \ Counted
          /\ \A id \in Counted \union {n} : row'[id].bytes <= HardCap
          /\ \A id \in Counted : row'[id].bytes <= HardCap
      BY <2>1, <2>3, <2>4, <2>7
    <3>3. Cardinality(UnitsOf(row', InMonth(m)')) <= Cardinality(UnitsOf(row', Counted \union {n}))
      BY <2>6, <3>1, <3>2, UnitsMonotone
    <3>4. Cardinality(UnitsOf(row', Counted \union {n})) = Cardinality(UnitsOf(row', Counted)) + size
      BY <2>3, <2>6, <2>7, <3>2, UnitsAdd
    <3>5. UnitsOf(row', Counted) = UnitsOf(row, Counted) BY <2>7 DEF UnitsOf
    <3>6. /\ Cardinality(UnitsOf(row', InMonth(m)')) \in Nat
          /\ Cardinality(UnitsOf(row, Counted)) \in Nat
      <4>1. InMonth(m)' \in SUBSET Ids /\ \A id \in InMonth(m)' : row'[id].bytes <= HardCap
        BY <3>1, <3>2
      <4> QED BY <2>6, <2>7, <4>1, UnitsFinite
    <3>7. size <= Budget - ledger[m] - Cardinality(UnitsOf(row, Counted)) BY <2>2, <2>12
    <3>8. Cardinality(UnitsOf(row', InMonth(m)')) <= Cardinality(UnitsOf(row, Counted)) + size
      BY <3>3, <3>4, <3>5
    <3> QED BY <2>1, <2>8, <3>6, <3>7, <3>8
  <2> QED BY <2>11, <2>12
<1>6. ASSUME NEW a \in Actors, Attach(a) PROVE LedgerPlusReservedInBudget'
  <2>1. run[a].id \in live /\ run[a].id \in Ids /\ run[a].id < nextId /\ Working(a)
    BY <1>6 DEF Attach, Owners, Working, TypeOK, Rows
  <2>2. ~Expired(run[a].id) BY <2>1, ExpiredNotOwned
  <2>3. \A id \in Ids \ {run[a].id} : attached'[id] = attached[id] BY <1>6 DEF Attach, TypeOK
  <2>4. UNCHANGED <<now, live, row, ledger, conservative>> BY <1>6 DEF Attach
  <2>5. Counted' \subseteq Counted BY <2>2, <2>3, <2>4 DEF Counted, Expired, TypeOK
  <2> QED BY <2>4, <2>5, BudgetKept
<1>7. ASSUME NEW a \in Actors, Settle(a) \/ CommitBaseline(a) PROVE LedgerPlusReservedInBudget'
  <2>1. Working(a) /\ run[a].pc = "settle" /\ SettleTx(run[a].id, run[a].billed)
    BY <1>7 DEF Settle, CommitBaseline, Working
  <2>2. run[a].id \in live /\ run[a].id \in Ids /\ run[a].id < nextId /\ run[a].billed \in Nat
    BY <2>1 DEF Owners, TypeOK, RunType, Rows
  <2>3. run[a].billed <= row[run[a].id].bytes BY <2>1, BillsParts DEF RunFits
  <2>4. ~Expired(run[a].id) BY <2>1, <2>2, ExpiredNotOwned
  <2>5. run[a].id \in Counted BY <2>2, <2>4 DEF Counted
  <2>6. UNCHANGED <<now, row, attached, conservative>> BY <1>7 DEF Settle, CommitBaseline
  <2> QED BY <2>1, <2>2, <2>3, <2>5, <2>6, BudgetSettled
<1>8. ASSUME NEW id \in Ids, NEW s \in Slots, Finish(id, s) PROVE LedgerPlusReservedInBudget'
  BY <1>1, <1>8 DEF Finish, db
<1>9. ASSUME Tick PROVE LedgerPlusReservedInBudget'
  <2>1. UNCHANGED <<live, row, attached, ledger, conservative>> /\ now' = now + 1 BY <1>9 DEF Tick, db
  <2>2. \A id \in live : row[id].expires \in Nat /\ now \in Nat BY DEF TypeOK, RowType, Times
  <2>3. Counted' \subseteq Counted BY <2>1, <2>2 DEF Counted, Expired
  <2> QED BY <2>1, <2>3, BudgetKept
<1>10. ASSUME UNCHANGED vars PROVE LedgerPlusReservedInBudget'
  BY <1>1, <1>10 DEF vars
<1> QED
  BY <1>2, <1>3, <1>4, <1>5, <1>6, <1>7, <1>8, <1>9, <1>10 DEF Next, Recover, Run

---------------------------------------------------------------------------
(* What holds when no job refills its second cap *)

\* The inductive invariant of the model.
THEOREM Inductive == ASSUME RefillJobs = {} PROVE Spec => []IInv
<1>1. Init => IInv
  <2> SUFFICES ASSUME Init PROVE IInv
    OBVIOUS
  <2>1. \A a \in Actors : ~Working(a) /\ sweep[a] = {} BY DEF Init, Working, Idle
  <2>2. Rows BY ConstantsAssumption DEF Init, Rows, Ids, Slots
  <2>3. TypeOK BY TypeInit
  <2>4. Bills
    <3>1. \A id \in Ids : query[id][1] = NoQuery /\ query[id][2] = NoQuery /\ row[id].bytes = 0
      BY DEF Init, Slots
    <3>2. \A id \in Ids : QueriesFit(id) BY <3>1 DEF QueriesFit, MayBill, NoQuery, Slots
    <3> QED BY <2>1, <3>2, BillsParts
  <2>5. ChargeCoversBill BY DEF Init, ChargeCoversBill
  <2>6. LedgerPlusReservedInBudget
    <3>1. \A m \in Months : Units(InMonth(m)) = {} BY DEF Init, Counted, Units, InMonth
    <3>2. Cardinality({}) = 0 BY FS_EmptySet
    <3>3. \A m \in Months : ledger[m] = 0 /\ conservative[m] = 0 BY DEF Init
    <3>4. 0 + 0 <= Budget + 0 BY ConstantsAssumption
    <3>5. \A m \in Months : Cardinality(Units({id \in Counted : Month(row[id].created) = m})) = 0
      BY <3>1, <3>2 DEF InMonth
    <3> QED BY <3>3, <3>4, <3>5 DEF LedgerPlusReservedInBudget
  <2> QED BY <2>1, <2>2, <2>3, <2>4, <2>5, <2>6
          DEF IInv, Owners, Sweeps, OneBaselineAtATime, Spaced
<1>2. IInv /\ [Next]_vars => IInv'
  BY TypeStep, RowsStep, OwnersStep, SweepsStep, BaselineStep, BillsStep, ChargeStep, BudgetStep DEF IInv
<1> QED BY <1>1, <1>2, PTL DEF Spec

\* Charges and open reservations of a month never pass the budget, apart from
\* what runs that died before attachJob are charged in full.
THEOREM LedgerInBudget == ASSUME RefillJobs = {} PROVE Spec => []LedgerPlusReservedInBudget
<1>1. IInv => LedgerPlusReservedInBudget BY DEF IInv
<1> QED BY <1>1, Inductive, PTL

\* A settled reservation was charged at least what its queries bill, unless its
\* run was cancelled or recorded only one of its two job ids.
THEOREM ChargeCovers == ASSUME RefillJobs = {} PROVE Spec => []ChargeCoversBill
<1>1. IInv => ChargeCoversBill BY DEF IInv
<1> QED BY <1>1, Inductive, PTL

\* A run never bills more than it reserved.
THEOREM BillsReserved == ASSUME RefillJobs = {} PROVE Spec => []BillWithinReservation
<1>1. IInv => BillWithinReservation
  BY BilledFits DEF IInv, BillWithinReservation
<1> QED BY <1>1, Inductive, PTL

===========================================================================
