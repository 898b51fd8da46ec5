------------------------------ MODULE Stablecoins ------------------------------
(***************************************************************************)
(* The samplers of the stablecoin pages and the signal engine they share    *)
(* (opendata_stablecoin_signal_service.go, _peg.go, _health.go).  Each      *)
(* sampler publishes what it found and then evaluates the signals; so does  *)
(* a watchdog.  An evaluation reads the latest sample, the view and the     *)
(* stored controls first and applies the engine later, under its lock, so   *)
(* that one may overtake another.  Time passes in intervals of the peg      *)
(* sampler.                                                                 *)
(***************************************************************************)
EXTENDS StableSignals, StableControls, StableSupply

CONSTANTS
  Stall,       \* stableStallIntervals: 3
  Bounds       \* what the environment may do, see left; one is chosen at the start

Loops == {"peg", "supply", "controls", "watchdog"}
Limits ==
  [loops : SUBSET Loops, fields : SUBSET FieldsOf, assets : SUBSET Assets,
   signals : SUBSET Signals, starts : SUBSET DOMAIN Worlds, samples : SUBSET DOMAIN Samples,
   ticks : Nat, supplies : Nat, changes : Nat, silences : Nat, lags : Nat, lies : Nat,
   faults : Nat, worlds : Nat, restarts : Nat]

\* Intervals pass only where the watchdog runs; main starts it with the samplers.
ASSUME ServiceAssumption ==
  /\ Stall \in Nat /\ Bounds \subseteq Limits
  /\ \A b \in Bounds : b.ticks > 0 /\ "peg" \in b.loops => "watchdog" \in b.loops

VARIABLES
  now,         \* intervals since the start
  latest,      \* stablePegSampler.lastResult: the sample and when it was begun
  persistErr,  \* stablePegSampler.persistErr # nil
  lastRun,     \* health: when the last completed run of the peg sampler began, -1: none yet
  begun,       \* when the peg run under way began
  ticked,      \* loops whose ticker has fired
  place,       \* [loop -> "waiting", "fetching", "published", "evaluating" or "evaluated"]
  flight,      \* [loop -> its evaluation under way], for those that have one
  world,       \* what the world inputs are
  since,       \* history: when lastRun was first recorded, -1: not yet
  recent,      \* history: the last readings of S1 published that were not unknown
  missed,      \* history: one of them was lost, by a panic or with the memory
  late,        \* history: the stored records came in after others were shown, and the
               \* watchdog has not evaluated since
  left         \* bound: what the environment may still do

service == <<now, latest, persistErr, lastRun, begun, ticked, place, flight, world>>
history == <<since, recent, missed, late>>
vars    == <<engine, controls, supply, service, history, left>>

Spend(what) == left[what] > 0 /\ left' = [left EXCEPT ![what] = @ - 1]
Spare(what, used) == IF used THEN Spend(what) ELSE UNCHANGED left
Moves(loop, to) == place' = [place EXCEPT ![loop] = to]

-----------------------------------------------------------------------------
\* The peg sampler: at boot and at every tick.  A run that takes longer than an interval
\* finds one tick waiting.
PegBegins ==
  /\ place["peg"] = "waiting" /\ "peg" \in ticked
  /\ Moves("peg", "fetching") /\ ticked' = ticked \ {"peg"} /\ begun' = now
  /\ UNCHANGED <<engine, controls, supply, now, latest, persistErr, lastRun, flight, world,
                 history, left>>

\* tick: the sample is computed, stored if SQLite lets it, and published either way.
Newest(all) == SubSeq(all, Max({1, Len(all) - Enter + 1}), Len(all))
LastRead(r) == [level |-> r.level, immediate |-> r.immediate]
Published(r) ==
  IF r.level = Unknown THEN recent ELSE Newest(Append(recent, LastRead(r)))
Publish(taken, err) ==
  /\ latest' = [of |-> taken, at |-> begun] /\ persistErr' = err /\ Spare("faults", err)
  /\ recent' = Published(S1Raw(asset, taken.peg))
PegPublishes ==
  /\ place["peg"] = "fetching"
  /\ \E k \in left.samples, err \in BOOLEAN : Publish(Taken(k), err)
  /\ Moves("peg", "published")
  /\ UNCHANGED <<engine, controls, supply, now, lastRun, begun, ticked, flight, world, since, missed,
                 late>>

\* recordRun, and what a panic leaves undone: runStablePegOnce records a run after its tick.
PegRecorded ==
  /\ place["peg"] = "evaluated" /\ lastRun' = begun /\ Moves("peg", "waiting")
  /\ since' = IF since = -1 THEN now ELSE since
  /\ UNCHANGED <<engine, controls, supply, now, latest, persistErr, begun, ticked, flight,
                 world, recent, missed, late, left>>
Without(p) == [q \in DOMAIN flight \ {p} |-> [flight[q] EXCEPT !.before = @ \ {p}]]
Panics(p) ==
  /\ p # "watchdog" /\ place[p] # "waiting" /\ Spend("faults")
  /\ Moves(p, "waiting") /\ flight' = Without(p)
  /\ missed' = (missed \/ (p = "peg" /\ place[p] \in {"published", "evaluating"}))
  /\ UNCHANGED <<engine, controls, supply, now, latest, persistErr, lastRun, begun, ticked, world,
                 since, recent, late>>

\* sampler("peg").Stalled
BugStalled == lastRun # -1 /\ now - lastRun > Stall + 1
Stalled == lastRun # -1 /\ now - lastRun > Stall

-----------------------------------------------------------------------------
\* The controls sampler.  fault: how often an asked endpoint was silent, behind, or lying.
Charged(said, a) ==
  LET faults == [e \in a.first |-> FaultOf(e, said[e])]
      Of(kind) == Cardinality({e \in a.first : faults[e] = kind})
                  + Cardinality({e \in a.other : FaultOf(e, a.second) = kind})
  IN  /\ \A kind \in {"silences", "lags", "lies"} : left[kind] >= Of(kind)
      /\ left' = [k \in DOMAIN left |->
                    IF k \in {"silences", "lags", "lies"} THEN left[k] - Of(k) ELSE left[k]]
Said == {s \in [ToSet(Endpoints) -> Values \cup {NoAnswer}] : \A e \in DOMAIN s : s[e] \in Answers(e)}
ControlsSample ==
  /\ place["controls"] = "waiting" /\ "controls" \in ticked /\ ticked' = ticked \ {"controls"}
  /\ \/ \E said \in Said, second \in Values \cup {NoAnswer} :
          LET a == Asked(said, second)
          IN  /\ \A e \in DOMAIN said \ a.first : said[e] = truth
              /\ IF a.other = {} THEN second = NoAnswer ELSE \A e \in a.other : second \in Answers(e)
              /\ Sample(said, second) /\ Charged(said, a)
              /\ Moves("controls", "published")
     \/ SampleFails /\ Spend("faults") /\ Moves("controls", "waiting")
  /\ UNCHANGED <<engine, supply, now, latest, persistErr, lastRun, begun, flight, world,
                 history>>

\* The supply sampler.
SupplySample ==
  /\ place["supply"] = "waiting" /\ "supply" \in ticked /\ ticked' = ticked \ {"supply"}
  /\ Moves("supply", "published") /\ Spend("supplies")
  /\ \E answers \in {{}} \cup {{a} : a \in Reports}, next \in BOOLEAN,
        figures \in {{}} \cup {{f} : f \in Figures}, totals \in {{}} \cup {{t} : t \in Totals} :
       SupplyTick(answers, next, figures, totals)
  /\ UNCHANGED <<engine, controls, now, latest, persistErr, lastRun, begun, flight, world,
                 history>>

-----------------------------------------------------------------------------
\* signalInputs: what is in memory and the states of the controls; then their events.  A read
\* that fails leaves them out.  before: the loops whose evaluations read theirs earlier.
Evaluation(state) ==
  [before |-> DOMAIN flight, now |-> now, state |-> state, read |-> "S8" \notin watched,
   s8 |-> UnknownReading, passed |-> {},
   peg |-> latest, stalled |-> Stalled, view |-> view, world |-> world,
   trouble |-> (Stalled \/ persistErr \/ view.mismatch)]
Evaluates(p) == /\ Moves(p, "evaluating")
                /\ IF p = "watchdog" THEN /\ place[p] = "waiting" /\ p \in ticked
                                          /\ ticked' = ticked \ {p}
                   ELSE place[p] = "published" /\ UNCHANGED ticked
Gather(p) ==
  /\ Evaluates(p)
  /\ \E fails \in BOOLEAN :
       /\ flight' = [q \in DOMAIN flight \cup {p} |->
                       IF q = p THEN Evaluation(IF fails THEN NoControl ELSE control) ELSE flight[q]]
       /\ Spare("faults", fails)
  /\ UNCHANGED <<engine, controls, supply, now, latest, persistErr, lastRun, begun, world,
                 history>>
ReadEvents(p) ==
  /\ ~flight[p].read
  /\ \E fails \in BOOLEAN :
       /\ flight' = [flight EXCEPT ![p].s8 = S8Raw(flight[p].state, IF fails THEN <<>> ELSE changes),
                                   ![p].state = NoControl, ![p].read = TRUE]
       /\ Spare("faults", fails)
  /\ UNCHANGED <<engine, controls, supply, now, latest, persistErr, lastRun, begun, ticked,
                 place, world, history>>

\* apply, in any order: the lock is not a queue.
Passed(p, events) ==
  [q \in DOMAIN flight \ {p} |->
     [flight[q] EXCEPT !.before = @ \ {p},
                       !.passed = IF q \in flight[p].before THEN @ \cup events ELSE @]]
ApplyWith(p, in, loads, saves, out, changed) ==
  /\ Apply(in, loads, saves, [s \in watched |-> out[s].rec], changed, in.passed)
  /\ flight' = Passed(p, IF Stores(loads, saves) THEN changed ELSE {})
ApplyTo(p, in, loads, saves, rs, out) == ApplyWith(p, in, loads, saves, out, ChangedBy(rs, out))
LateLoad(loads) == ~loaded /\ loads /\ recs # <<>>
ApplyNext(p) ==
  /\ flight[p].read
  /\ \E loads, saves \in BOOLEAN :
       /\ (loaded => loads) /\ (~loads => saves) /\ Spare("faults", ~loads \/ ~saves)
       /\ ApplyTo(p, flight[p], loads, saves, Base(loads), Outcome(Base(loads), flight[p]))
       /\ missed' = (missed \/ LateLoad(loads))
       /\ late' = (p # "watchdog" /\ (late \/ LateLoad(loads)))
  /\ Moves(p, IF p = "peg" THEN "evaluated" ELSE "waiting")
  /\ UNCHANGED <<controls, supply, now, latest, persistErr, lastRun, begun, ticked, world,
                 since, recent>>

-----------------------------------------------------------------------------
\* The tickers.  An evaluation of the watchdog takes less than an interval.  A loop whose
\* samples are not timed may sample whenever it waits.
Running == left.loops
Tick ==
  /\ "watchdog" \notin ticked /\ place["watchdog"] = "waiting"
  /\ IF "peg" \in Running THEN Spend("ticks") /\ now' = now + 1 ELSE UNCHANGED <<now, left>>
  /\ ticked' = ticked \cup Running
  /\ UNCHANGED <<engine, controls, supply, latest, persistErr, lastRun, begun, place, flight,
                 world, history>>

WorldChanges ==
  /\ Spend("worlds") /\ world' \in DOMAIN Worlds \ {world}
  /\ UNCHANGED <<engine, controls, supply, now, latest, persistErr, lastRun, begun, ticked,
                 place, flight, history>>
ChainStep ==
  /\ \/ ChainChanges /\ Spend("changes")
     \/ EventsAge /\ UNCHANGED left
  /\ UNCHANGED <<engine, supply, service, history>>

\* A restart loses the memory; the peg sampler samples at boot.  Controls that are not
\* sampled stay unseen.
Restart ==
  /\ Spend("restarts")
  /\ EngineRestart /\ SupplyRestart
  /\ IF "controls" \in Running THEN ControlsRestart ELSE UNCHANGED controls
  /\ latest' = NoPeg /\ persistErr' = FALSE /\ lastRun' = -1 /\ since' = -1 /\ begun' = now
  /\ ticked' = Running \cap {"peg", "supply"}
  /\ place' = [p \in Loops |-> "waiting"] /\ flight' = <<>> /\ late' = FALSE
  /\ missed' = (missed \/ pegSeen < latest.at \/ (recs # <<>> /\ recs # saved))
  /\ UNCHANGED <<now, world, recent>>

Init ==
  /\ left \in Bounds
  /\ field \in left.fields /\ watched = left.signals /\ asset \in left.assets
  /\ tether = (asset = "usdt")
  /\ EngineInit /\ ControlsInit /\ SupplyInit
  /\ now = 0 /\ latest = NoPeg /\ persistErr = FALSE /\ lastRun = -1 /\ since = -1 /\ begun = 0
  /\ ticked = Running \cap {"peg", "supply"} /\ place = [p \in Loops |-> "waiting"]
  /\ flight = <<>> /\ world \in left.starts /\ recent = <<>> /\ missed = FALSE
  /\ late = FALSE

PegStep == PegBegins \/ PegPublishes \/ PegRecorded
Evaluate(p) == Gather(p) \/ (p \in DOMAIN flight /\ (ReadEvents(p) \/ ApplyNext(p)))
Next ==
  \/ PegStep \/ ControlsSample \/ SupplySample \/ Tick \/ WorldChanges \/ ChainStep \/ Restart
  \/ \E p \in Loops : Evaluate(p) \/ Panics(p)

Spec == Init /\ [][Next]_vars

-----------------------------------------------------------------------------
TypeOK ==
  /\ EngineTypeOK /\ ControlsTypeOK /\ SupplyTypeOK
  /\ now \in Nat /\ latest.at \in -1 .. now /\ lastRun \in -1 .. now /\ since \in -1 .. now
  /\ persistErr \in BOOLEAN /\ ticked \subseteq Loops /\ missed \in BOOLEAN
  /\ place \in [Loops -> {"waiting", "fetching", "published", "evaluating", "evaluated"}]
  /\ DOMAIN flight = {p \in Loops : place[p] = "evaluating"} /\ late \in BOOLEAN

\* README.md:528, "no venue above 50% of the weight": with three venues or more, whatever
\* one of them quotes and at whatever volume, it moves the published price at most half way.
NoVenueDecidesPrices ==
  [][latest' \notin {latest, NoPeg} => NoVenueDecides(latest'.of.peg)]_latest

\* signal_service.go:14-15, "so a stalled peg sampler still shows": once a run was recorded,
\* S1 claims nothing from a sample older than the limit, however runs panic, hang and are
\* overtaken.  The watchdog notices one interval late, and what the stored records bring
\* back after evaluations had to do without them, at its next evaluation.
StaleSampleShows ==
  ~late /\ "S1" \in DOMAIN recs /\ since # -1 /\ LevelOf(recs["S1"].state) >= 0
    => now - Max({pegSeen, since}) <= Stall + 1

\* Why: a run is recorded after its sample was evaluated; what has not been consumed yet was
\* read in this interval, or in the one before while the watchdog has still to evaluate in
\* this one; and an evaluation that saw no stall read a sample within the limit.
Timely(t)    == pegSeen >= t - Stall \/ since >= t - Stall
WatchdogDone == place["watchdog"] = "waiting" /\ "watchdog" \notin ticked
Unconsumed(p)   == flight[p].peg.at > pegSeen
S1Claims      == "S1" \in DOMAIN recs /\ LevelOf(recs["S1"].state) >= 0

ClockInv ==
  /\ now \in Nat /\ begun \in 0 .. now /\ latest.at \in -1 .. begun /\ lastRun \in -1 .. latest.at
  /\ since \in -1 .. now /\ pegSeen \in Int
  /\ {"loops", "ticks"} \subseteq DOMAIN left /\ left.ticks \in Nat
  /\ left.ticks > 0 /\ "peg" \in Running => "watchdog" \in Running
  /\ lastRun <= pegSeen /\ (lastRun = -1 => since = -1)
  /\ DOMAIN place = Loops
  /\ place["peg"] \in {"published", "evaluating", "evaluated"} => latest.at = begun
  /\ place["peg"] = "evaluated" => pegSeen >= begun
  /\ since # -1 \/ place["peg"] = "evaluated" => DOMAIN recs = watched
ShapeInv ==
  /\ "S1" \in DOMAIN recs => "state" \in DOMAIN recs["S1"]
  /\ "S1" \in DOMAIN saved => "state" \in DOMAIN saved["S1"]
FlightInv ==
  /\ DOMAIN flight = {p \in Loops : place[p] = "evaluating"}
  /\ \A p \in DOMAIN flight :
       LET e == flight[p]
       IN  /\ e.now \in 0 .. now /\ e.peg.at \in -1 .. latest.at /\ e.stalled \in BOOLEAN
           /\ p = "peg" => e.peg.at = begun
           /\ p = "watchdog" =>
                /\ e.now = now
                /\ \A q \in DOMAIN flight : flight[q].now < now => flight[q].peg.at <= e.peg.at
           /\ Unconsumed(p) => e.now >= now - 1 /\ (WatchdogDone => e.now = now)
           /\ ~e.stalled => \/ e.peg.at >= e.now - Stall
                            \/ since = -1 \/ since >= e.now
StaleInv ==
  /\ ClockInv /\ ShapeInv /\ FlightInv
  /\ ~late /\ S1Claims /\ since # -1 => Timely(now - 1) /\ (WatchdogDone => Timely(now))

\* S1 rises only when the last samples in a row are at the new level or above, or at once
\* if two venues agree on a crash: no sample counts twice, however many evaluations see it
\* and whatever a restart reloads.  And S12 shows an excess only on two pieces of evidence.
LevelBefore == IF loaded THEN HystOf(recs, "S1").level
               ELSE Max({HystOf(recs, "S1").level, HystOf(saved, "S1").level})
Earned(level) == /\ recent # <<>>
                 /\ \/ Last(recent).immediate
                    \/ Len(recent) = Enter /\ \A i \in DOMAIN recent : recent[i].level >= level
AlarmsEarned ==
  [][/\ ~missed' /\ HystOf(recs', "S1").level > LevelBefore => Earned(HystOf(recs', "S1").level)
     /\ ExcessEarned']_vars

\* Why: no run publishes while the sample before is not consumed, unless one was missed; so
\* the counters of S1 are runs of the readings published, and so are those it stored, until
\* they are loaded.  Ahead: whether the last reading is still to be counted.
Owed  == latest.at > pegSeen
Ahead == IF Owed /\ S1Raw(asset, latest.of.peg).level # Unknown THEN 1 ELSE 0
RunOf(upto, n, k) == Len(recent) >= UpTo(upto + n, Enter)
                     /\ \A i \in DOMAIN recent :
                          i \in Len(recent) - upto - n + 1 .. Len(recent) - upto => recent[i].level >= k
Matches(h) == \A k \in 1 .. 3 : RunOf(Ahead, h.up[k], k)
HystOK(h) ==
  h \in [level : 0 .. 3, samples : Nat, up : [1 .. 3 -> 0 .. Enter], down : Nat, last : Int,
         pending : Int, count : Nat, confirmed : BOOLEAN]
S1Shape(rs) ==
  "S1" \in DOMAIN rs => {"state", "hyst"} \subseteq DOMAIN rs["S1"] /\ HystOK(rs["S1"].hyst)
FreshInv ==
  /\ pegSeen <= latest.at
  /\ place["peg"] = "fetching" => latest.at < begun
  /\ "peg" \in ticked => /\ "peg" \in Running /\ latest.at < now
                         /\ place["peg"] = "fetching" => begun < now
RecordsInv ==
  /\ S1Shape(recs) /\ S1Shape(saved) /\ missed \in BOOLEAN
  /\ recs = <<>> \/ DOMAIN recs = watched
  /\ DOMAIN saved \subseteq watched /\ ("S1" \in watched /\ recs = <<>> => ~loaded)
ReadingsInv ==
  /\ recent \in Seq([level : 0 .. 3, immediate : BOOLEAN]) /\ Len(recent) <= Enter
  /\ ~missed =>
       /\ place["peg"] \notin {"published", "evaluating"} => ~Owed
       /\ \A p \in DOMAIN flight : Unconsumed(p) => flight[p].peg = latest
       /\ Ahead = 1 => /\ recent # <<>>
                       /\ Last(recent) = LastRead(S1Raw(asset, latest.of.peg))
       /\ Matches(HystOf(recs, "S1"))
       /\ ~loaded /\ recs = <<>> => Matches(HystOf(saved, "S1"))
AlarmInv == FreshInv /\ RecordsInv /\ ReadingsInv

================================================================================
