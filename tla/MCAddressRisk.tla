----------------------------- MODULE MCAddressRisk -----------------------------
(***************************************************************************)
(* Small instances of the two models of Address Risk's data, each explored  *)
(* alone while the other rests: the service (lists, backfill requests,      *)
(* overview), and the history of freeze events that its writers share.      *)
(***************************************************************************)
EXTENDS AddressRisk, MCFreezeCoverage

VARIABLE scene

\* A behaviour of the service chooses one of the bounds, so that the parts are explored with
\* the overview one at a time.
NoStep == [sources |-> 0, changes |-> 0, posts |-> 0, gets |-> 0, clis |-> 0, days |-> 0,
           losses |-> 0, reads |-> 0, crashes |-> 0]
MCBounds ==
  { [NoStep EXCEPT !.sources = 1, !.changes = 2, !.reads = 1],
    [NoStep EXCEPT !.sources = 1, !.changes = 3, !.crashes = 1],
    [NoStep EXCEPT !.posts = 4, !.days = 1],
    [NoStep EXCEPT !.posts = 2, !.gets = 1, !.clis = 1, !.losses = 1],
    [NoStep EXCEPT !.posts = 2, !.reads = 1, !.crashes = 1, !.days = 1] }
AllBounds == MCBounds \union {NoStep}

\* Four addresses are a guarded list; a file is whole, truncated or empty.
MCContents == {{1, 2, 3, 4}, {1}, {}}

\* At rest a part has no fair step, and what has to happen in it has happened.
ServiceRests == left = NoStep /\ stored = 0
HistoryRests == /\ clock = 2 * MaxDay + 1 /\ exported = MaxDay
                /\ cursor = exported - 1 /\ coverageFrom = cursor

MCInit ==
  /\ scene \in {"service", "history"}
  /\ Init /\ (IF scene = "history" THEN ServiceRests ELSE left # NoStep)
  /\ FreezeInit /\ (scene = "history" \/ HistoryRests)

MCNext ==
  /\ UNCHANGED scene
  /\ \/ scene = "service" /\ Next /\ UNCHANGED freezeVars
     \/ scene = "history" /\ FreezeNext /\ UNCHANGED vars

\* The hourly loop ticks for ever; every step of a backfill that the server runs has a
\* timeout; a cache entry grows old.
ServiceFairness ==
  /\ WF_vars((ListTick \/ Decide) /\ left.sources > 0 /\ UNCHANGED <<backfills, overview, reader, left>>)
  /\ WF_vars(ListChanged /\ Invalidate /\ UNCHANGED <<backfills, reader, left>>)
  /\ WF_vars(RunStep /\ UNCHANGED <<lists, overview, reader, left>>)
  /\ WF_vars(RunInvalidates /\ Invalidate /\ UNCHANGED <<lists, reader, left>>)
  /\ WF_vars(Ages /\ UNCHANGED <<lists, backfills, left>>)

\* The same loop syncs the freeze events; nobody has to start a backfill; days are exported.
HistoryFairness ==
  WF_freezeVars(SyncRead) /\ WF_freezeVars(Stop(Server)) /\ WF_freezeVars(Export)

\* A download, a query or a store that fails now and then succeeds if it is tried again and
\* again.  This is strong fairness of each; one of a scene is stated together with one of
\* the other.
Ready(n) ==
  \/ scene = "service" /\ lpc = "fetch" /\ Len(fetched) = n - 1
  \/ scene = "history" /\ CASE n = 1 -> ENABLED SyncProbe
                            [] n = 2 -> ENABLED Fetch(Server)
                            [] n = 3 -> ENABLED Store(Server)
Retry(n) ==
  \/ FetchFile /\ Len(fetched) = n - 1
  \/ n = 1 /\ SyncProbe
  \/ n = 2 /\ Fetch(Server)
  \/ n = 3 /\ Store(Server)

all == <<vars, freezeVars, scene>>
MCSpec ==
  /\ MCInit /\ [][MCNext]_all
  /\ ServiceFairness /\ HistoryFairness /\ \A n \in 1 .. 3: []<>Ready(n) => []<><<Retry(n)>>_all

=============================================================================
