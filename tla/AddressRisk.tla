------------------------------ MODULE AddressRisk ------------------------------
(***************************************************************************)
(* The Address Risk service of the server: its hourly goroutine (the label  *)
(* lists, then the freeze events), the backfill, and the overview, which    *)
(* reads the store in several queries and is kept in the response cache     *)
(* (cache.go, address_risk_overview.go, main.go).                           *)
(***************************************************************************)
EXTENDS RiskLists, BackfillRequests

CONSTANTS
  TTL,         \* lifetime of a cache entry, in ticks
  Readers,     \* overview requests in flight
  Bounds       \* the bounds one behaviour may choose from

VARIABLES
  overview,    \* its entry in the response cache: a view and its age, or NoOverview
  reader,      \* [reader -> its place and the view it is building]
  left         \* bound: how many more of each environment step

vars == <<lists, backfills, overview, reader, left>>

ASSUME OverviewAssumption == TTL \in Nat

\* A view: rows of the list, batches the coverage claims, batches whose events it counts.
NoView   == [rows |-> 0, claimed |-> 0, events |-> 0]
NoOverview == [view |-> NoView, age |-> -1]
NoReader == [pc |-> "idle", view |-> NoView]

-----------------------------------------------------------------------------
\* Cache.Get: an expired entry is deleted.
BugExpired(entry) == FALSE
Expired(entry) == entry.age > TTL
Lookup(r) ==
  /\ reader[r].pc = "idle"
  /\ IF overview # NoOverview /\ ~Expired(overview) THEN UNCHANGED <<overview, reader>>
     ELSE /\ overview' = NoOverview
          /\ reader' = [reader EXCEPT ![r] = [NoReader EXCEPT !.pc = "first"]]

\* buildOverview: allSyncStates first, the events after it.
BugReadAt(pc) == IF pc = "first" THEN "events" ELSE "states"
ReadAt(pc) == IF pc = "first" THEN "states" ELSE "events"
Read(r) ==
  /\ reader[r].pc \in {"first", "second"}
  /\ LET view == reader[r].view
     IN  reader' = [reader EXCEPT ![r] =
           [pc |-> IF reader[r].pc = "first" THEN "second" ELSE "set",
            view |-> IF ReadAt(reader[r].pc) = "states"
                     THEN [view EXCEPT !.rows = Cardinality(list), !.claimed = stored]
                     ELSE [view EXCEPT !.events = stored]]]
  /\ UNCHANGED overview

\* Cache.Set, whatever was invalidated since the reads.
SetEntry(r) ==
  /\ reader[r].pc = "set"
  /\ overview' = [view |-> reader[r].view, age |-> 0]
  /\ reader' = [reader EXCEPT ![r] = NoReader]

ReadFails(r) ==
  /\ reader[r].pc \in {"first", "second"}
  /\ reader' = [reader EXCEPT ![r] = NoReader]
  /\ UNCHANGED overview

Invalidate == overview' = NoOverview

Ages ==
  /\ overview # NoOverview /\ overview.age <= TTL
  /\ overview' = [overview EXCEPT !.age = @ + 1]
  /\ UNCHANGED reader

-----------------------------------------------------------------------------
Spend(what) == left[what] > 0 /\ left' = [left EXCEPT ![what] = @ - 1]

ListsStep ==
  /\ UNCHANGED <<backfills, reader>>
  /\ \/ ListJob /\ left.sources > 0 /\ UNCHANGED <<overview, left>>
     \/ ListChanged /\ Invalidate /\ UNCHANGED left
     \/ UpstreamChanges /\ Spend("changes") /\ UNCHANGED overview

\* The same goroutine syncs the freeze events after the lists; then it invalidates.
HourlySync ==
  /\ lpc = "idle"
  /\ SyncDay
  /\ lpc' = "invalidate"
  /\ UNCHANGED <<upstream, list, contentHash, pendingHash, sinceOk, fetched, previous>>
  /\ UNCHANGED <<overview, reader, left>>

RunStep == RunPlan \/ RunBatch \/ RunFails \/ RunSays \/ RunFrees
CliStep == CliBatch \/ CliSays \/ CliDies

BackfillStep ==
  /\ UNCHANGED <<lists, reader>>
  /\ \/ /\ UNCHANGED overview
        /\ \/ \E r \in Requests: \/ AskEstimate(r) /\ Spend("posts")
                                 \/ Confirm(r) /\ Spend("posts")
                                 \/ GetFlag(r) /\ Spend("gets")
           \/ CliStart /\ Spend("clis")
           \/ DayEnds /\ Spend("days")
           \/ RowsLost /\ Spend("losses")
           \/ /\ UNCHANGED left
              /\ \/ PlanAges \/ RunStep \/ CliStep
                 \/ \E r \in Requests: \/ Estimate(r) \/ EstimateFails(r) \/ KeepPlan(r)
                                       \/ GetRead(r) \/ GetDone(r)
     \/ RunInvalidates /\ Invalidate /\ UNCHANGED left

OverviewStep ==
  /\ UNCHANGED <<lists, backfills>>
  /\ \/ \E r \in Readers:
          \/ Lookup(r) /\ Spend("reads")
          \/ (Read(r) \/ SetEntry(r) \/ ReadFails(r)) /\ UNCHANGED left
     \/ Ages /\ UNCHANGED left

\* A restart loses what is in memory.
Crash ==
  /\ Spend("crashes")
  /\ ListCrash /\ BackfillCrash
  /\ Invalidate /\ reader' = [r \in Readers |-> NoReader]

Init ==
  /\ ListInit /\ BackfillInit
  /\ overview = NoOverview /\ reader = [r \in Readers |-> NoReader]
  /\ left \in Bounds
  /\ left.sources = 0 => upstream = [i \in 1 .. Files |-> {}]

Next == ListsStep \/ HourlySync \/ BackfillStep \/ OverviewStep \/ Crash

Spec == Init /\ [][Next]_vars

-----------------------------------------------------------------------------
Views == [rows: Nat, claimed: 0 .. Years, events: 0 .. Years]

TypeOK ==
  /\ ListTypeOK /\ BackfillTypeOK
  /\ overview \in [view: Views, age: -1 .. TTL + 1]
  /\ reader \in [Readers -> [pc: {"idle", "first", "second", "set"}, view: Views]]

\* No answer says more than was so.  A status is as StatusTrue says, and an overview, in a
\* request or in the cache, claims no day whose events it misses: it reads the watermarks
\* before the events, and a window stores both together.
AnswersTrue ==
  /\ StatusTrue
  /\ \A v \in {overview.view} \cup {reader[r].view : r \in {q \in Readers: reader[q].pc = "set"}}:
       v.claimed <= v.events

\* An overview built before a change and cached after its invalidation goes away: once
\* nothing changes any more, what is served is what is stored.
OverviewCatchesUp ==
  <>[](\/ overview = NoOverview \/ Expired(overview)
       \/ overview.view.rows = Cardinality(list) /\ overview.view.claimed = stored)

-----------------------------------------------------------------------------
\* The inductive invariant.  A reader between its two queries holds a claim that the store
\* still meets, because no step takes a stored batch back.
ViewsTrue ==
  /\ overview.view.claimed <= overview.view.events
  /\ \A r \in Readers:
       /\ reader[r].pc = "second" => reader[r].view.claimed <= stored
       /\ reader[r].pc = "set" => reader[r].view.claimed <= reader[r].view.events

IInv == TypeOK /\ ListInv /\ BackfillInv /\ ViewsTrue

=============================================================================
