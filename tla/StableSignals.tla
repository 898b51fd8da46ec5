----------------------------- MODULE StableSignals -----------------------------
(***************************************************************************)
(* The signal engine (opendata_stablecoin_signal_engine.go) for one asset:  *)
(* apply evaluates every signal on inputs gathered before it took its lock, *)
(* changes the records in memory, and saves them with an event for each     *)
(* change of state.                                                         *)
(***************************************************************************)
EXTENDS StableRules

CONSTANTS
  Samples,     \* [name -> sample of the venues]
  Worlds       \* [name -> facts, flows and Tether's assets, the inputs nobody samples here]

ASSUME SampleAssumption == \A k \in DOMAIN Samples : IsSample(Samples[k])

SampledSignals == {"S1", "S2", "S3", "S13"}
WorldSignals   == {"S4", "S5", "S6", "S11"}
Signals        == SampledSignals \cup WorldSignals \cup {"S8", "S10", "S12"}
Assets         == {"usdt", "usdc", "eurc"}

VARIABLES
  asset,              \* the asset; the signals of the others are kept the same way
  watched,            \* the signals that are looked at; each is evaluated on its own
  recs,               \* records in memory: [signal -> its state and hysteresis]
  loaded,             \* they were read from SQLite
  pegSeen, viewSeen,  \* the newest peg sample and supply view consumed
  saved,              \* stable_signal_state
  told,               \* what the newest event of each signal (or, before the first, its
                      \* first state) says the state is
  gaps                \* history: signals with a change whose event was lost or is out of order

engine == <<asset, watched, recs, loaded, pegSeen, viewSeen, saved, told, gaps>>

None   == "none"
Record(state, hyst) == [state |-> state, hyst |-> hyst]
HystOf(rs, s) == IF s \in DOMAIN rs THEN rs[s].hyst ELSE Fresh

-----------------------------------------------------------------------------
\* What the peg sampler publishes of a sample, and what the asset's signals read off it and
\* off a world.
Pegs == [k \in DOMAIN Samples |-> Peg(Samples[k])]
TakenOf(peg) == [peg |-> peg[asset], relative |-> peg.relative, failing |-> peg.failing]
Taken(k) == TakenOf(Pegs[k])
Thresholds == [S1 |-> S1Thr, S2 |-> S2Thr, S3 |-> S3Thr, S13 |-> S13Thr]
ReadingsOf(a, w) ==
  [S4  |-> S4Raw(FlowSeries(w.issuer, w.aggregator, w.today), w.today),
   S5  |-> S5Raw(a, w.coverage),
   S6  |-> S6Raw(w.facts), S11 |-> S11Raw(w.facts), stale |-> FactsStale(w.facts)]
WorldReadings == [a \in Assets, w \in DOMAIN Worlds |-> ReadingsOf(a, Worlds[w])]

\* An evaluation's inputs: the time, the latest sample and supply view with their times,
\* whether the peg sampler is stalled, the reading of S8, the world, and other trouble.
NoPeg  == [of |-> <<>>, at |-> -1]

BugNewPeg(in) == in.peg # NoPeg
NewPeg(in)  == in.peg.at > pegSeen
NewView(in) == in.view.at > viewSeen
ReadingOf(s, in) ==
  CASE s = "S1"  -> S1Raw(asset, in.peg.of.peg)
    [] s = "S2"  -> S2Raw(in.peg.of.peg)
    [] s = "S3"  -> S3Raw(asset, in.peg.of.relative)
    [] s = "S13" -> S13Raw(in.peg.of.failing, in.trouble \/ WorldReadings[asset, in.world].stale)
    [] s = "S8"  -> in.s8
    [] s = "S10" -> S10Raw(in.view)
    [] OTHER     -> WorldReadings[asset, in.world][s]

-----------------------------------------------------------------------------
\* The record of a signal after an evaluation of in on the records rs, but for the stall.
Shown(h, r) == Record(SampledState(h, r), h)
SampledTo(h, r, thr, at) == Shown(SampledStep(h, r, thr, at), r)
Sampled(rs, s, in) == SampledTo(HystOf(rs, s), ReadingOf(s, in), Thresholds[s], in.peg.at)

\* applyS12: the aggregator's level is confirmed by two views, the excess by its sampler.
S12Reading(h, onchain) ==
  IF onchain = 2 THEN Reading(2)
  ELSE IF ~h.confirmed \/ (h.level < 0 /\ onchain < 0) THEN UnknownReading
  ELSE Reading(Max({h.level, onchain}))
S12As(h, view) == Record(StateOf(S12Reading(h, S12OnchainLevel(view))), h)
S12Of(rs, in) ==
  IF ~in.view.known
  THEN IF "S12" \in DOMAIN rs THEN rs["S12"] ELSE Record("unknown", HystOf(rs, "S12"))
  ELSE S12As(IF NewView(in) THEN ConfirmStep(HystOf(rs, "S12"), in.view.level)
             ELSE HystOf(rs, "S12"), in.view)

Evaluated(rs, s, in) ==
  IF s = "S3" /\ asset = "eurc" THEN Record("n/a", Fresh)
  ELSE IF s \in SampledSignals
       THEN IF NewPeg(in) THEN Sampled(rs, s, in)
            ELSE IF s \in DOMAIN rs THEN rs[s] ELSE Record("unknown", Fresh)
  ELSE IF s = "S12" THEN S12Of(rs, in)
  ELSE Record(StateOf(ReadingOf(s, in)), Fresh)

\* A stalled peg sampler: S1 to S3 are unknown and S13 is at watch at least.
StallShown(s, rec, in) ==
  IF ~in.stalled THEN rec
  ELSE IF s \in {"S1", "S2", "S3"} /\ rec.state # "n/a" THEN [rec EXCEPT !.state = "unknown"]
  ELSE IF s = "S13" /\ LevelOf(rec.state) < 1 THEN [rec EXCEPT !.state = "watch"]
  ELSE rec

\* apply, whether or not the stored records can be read and the new ones saved.  passed:
\* the signals for which a later evaluation has already stored an event.  A record that is
\* new has no event.
WithStored == [s \in DOMAIN saved \cup DOMAIN recs |-> IF s \in DOMAIN saved THEN saved[s] ELSE recs[s]]
Base(loads) == IF ~loaded /\ loads THEN WithStored ELSE recs
BugMaySave(loads) == TRUE
MaySave(loads) == loaded \/ loads
Both(first, shown) == [first |-> first.state, rec |-> shown]
EvaluatedWith(s, first, in) == Both(first, StallShown(s, first, in))
Outcome(rs, in) == [s \in watched |-> EvaluatedWith(s, Evaluated(rs, s, in), in)]
ChangedBy(rs, out) ==
  {s \in watched : \/ s \in DOMAIN rs /\ rs[s].state # out[s].first
                   \/ out[s].rec.state # out[s].first}
Stores(loads, saves) == MaySave(loads) /\ saves
Apply(in, loads, saves, new, changed, passed) ==
  /\ recs' = new
  /\ loaded' = (loaded \/ loads)
  /\ pegSeen' = Max({pegSeen, in.peg.at})
  /\ viewSeen' = IF in.view.known THEN Max({viewSeen, in.view.at}) ELSE viewSeen
  /\ IF Stores(loads, saves)
     THEN /\ saved' = new
          /\ told' = [s \in watched |-> IF s \in changed \ passed \/ s \notin DOMAIN saved
                                        THEN new[s].state ELSE told[s]]
          /\ gaps' = (gaps \ changed) \cup (changed \cap passed)
     ELSE /\ gaps' = IF MaySave(loads) THEN gaps \cup changed ELSE gaps
          /\ UNCHANGED <<saved, told>>
  /\ UNCHANGED <<asset, watched>>

\* The memory is gone.
EngineRestart ==
  /\ recs' = <<>> /\ loaded' = FALSE /\ pegSeen' = -1 /\ viewSeen' = -1
  /\ UNCHANGED <<asset, watched, saved, told, gaps>>

EngineInit ==
  /\ asset \in Assets /\ watched \in SUBSET Signals
  /\ recs = <<>> /\ loaded = FALSE /\ pegSeen = -1 /\ viewSeen = -1
  /\ saved = <<>> /\ told = [s \in watched |-> None] /\ gaps = {}

-----------------------------------------------------------------------------
States == {"n/a", "unknown", "info"} \cup ToSet(Names)
HystType ==
  [level : Unknown .. 3, samples : 0 .. Enter, up : [1 .. 3 -> 0 .. Enter], down : 0 .. Exit,
   last : Int, pending : Unknown .. 3, count : 0 .. Confirm, confirmed : BOOLEAN]
RecordsOK(rs) == \A s \in DOMAIN rs : s \in watched /\ rs[s] \in [state : States, hyst : HystType]
EngineTypeOK ==
  /\ asset \in Assets /\ watched \subseteq Signals /\ RecordsOK(recs) /\ RecordsOK(saved)
  /\ loaded \in BOOLEAN /\ pegSeen \in Int /\ viewSeen \in Int
  /\ told \in [watched -> States \cup {None}] /\ gaps \subseteq watched

\* The engine "writes the current state ... and every state change" (signal_engine.go:13-15):
\* unless a save failed or a slower evaluation stored an older event, the newest event of a
\* signal names the state of its record, over restarts, failed loads and evaluations that
\* overtake each other.
LogTellsChanges == \A s \in DOMAIN saved : s \notin gaps => told[s] = saved[s].state

\* Why: once they are loaded, the records in memory differ from the stored ones only where a
\* change could not be saved.
EngineInv ==
  /\ DOMAIN saved \subseteq watched
  /\ LogTellsChanges
  /\ loaded => \A s \in DOMAIN saved :
                 s \notin gaps => s \in DOMAIN recs /\ recs[s].state = saved[s].state

================================================================================
