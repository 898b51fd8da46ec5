------------------------------ MODULE StableRules ------------------------------
(***************************************************************************)
(* The rules of the stablecoin signals (opendata_stablecoin_signals.go):    *)
(* what one evaluation reads off its inputs, and the policy that turns      *)
(* readings into a state.  S8 is in StableControls.                         *)
(***************************************************************************)
EXTENDS StablePeg

CONSTANTS
  Enter,       \* stableSampledEnter: 3
  Exit,        \* stableSampledExit: 12
  MaxGap,      \* stableSampledMaxGap, in peg ticks: 3
  Confirm      \* stableConfirmSamples: 2

ASSUME RulesAssumption ==
  Enter \in Nat \ {0} /\ Exit \in Nat \ {0} /\ MaxGap \in Nat /\ Confirm \in Nat \ {0}

\* A reading: a level (or Unknown), the measure it was read from, whether it is critical at
\* once, the highest level it may lead to; level 0 may be shown as info.
Unknown == -1
Reading(level)   == [level |-> level, value |-> 0, immediate |-> FALSE, cap |-> 3,
                     info |-> FALSE, na |-> FALSE]
UnknownReading   == Reading(Unknown)
NotApplicable    == [UnknownReading EXCEPT !.na = TRUE]
Info             == [Reading(0) EXCEPT !.info = TRUE]
Names            == <<"normal", "watch", "warning", "critical">>

\* stableRawState and stableLevelOf.
StateOf(r) ==
  IF r.na THEN "n/a" ELSE IF r.level < 0 THEN "unknown"
  ELSE IF r.level = 0 /\ r.info THEN "info" ELSE Names[r.level + 1]
LevelOf(state) ==
  IF state = "info" THEN 0
  ELSE Max({Unknown} \cup {i - 1 : i \in {j \in DOMAIN Names : Names[j] = state}})

\* stableLevelFor: thresholds of watch, warning and critical, 0 for none.
Mag(n) == IF n < 0 THEN -n ELSE n
UpTo(n, max) == IF n < max THEN n ELSE max
LevelFor(v, thr) == Max({0} \cup {k \in DOMAIN thr : thr[k] > 0 /\ v >= thr[k]})
Measured(v, thr) == [Reading(LevelFor(v, thr)) EXCEPT !.value = v]

-----------------------------------------------------------------------------
\* Sampled signals.
S1Thr  == <<Bps(30), Bps(100), Bps(300)>>
S2Thr  == <<Bps(25), Bps(100), 0>>
S3Thr  == <<Bps(30), Bps(100), 0>>
S13Thr == <<0, 0, 0>>

\* stableVenuePrices: here a venue's price is the plain median of its inputs.
VenuePrice(peg, v) ==
  Median(Own(peg.quotes, IncludedIn(peg.quotes), v), DevsOf(peg.quotes))
DirectVenues(peg) ==
  {peg.quotes[i].venue : i \in {j \in IncludedIn(peg.quotes) : peg.quotes[j].kind = "direct"}}
S1Cap(asset, peg) == IF asset = "eurc" /\ Cardinality(DirectVenues(peg)) < 2 THEN 2 ELSE 3
S1Of(r, cap, crashed) ==
  [r EXCEPT !.cap = cap, !.level = UpTo(r.level, cap), !.immediate = crashed]
Crashed(peg) == Cardinality({v \in peg.venues : Mag(VenuePrice(peg, v)) >= Bps(500)}) >= 2
S1Raw(asset, peg) ==
  IF peg.state # "ok" THEN S1Of(UnknownReading, S1Cap(asset, peg), FALSE)
  ELSE S1Of(Measured(Mag(peg.dev), S1Thr), S1Cap(asset, peg), Crashed(peg))

S2Raw(peg) == IF peg.inputs < 3 THEN UnknownReading ELSE Measured(peg.disp, S2Thr)

\* The pool prices USDC in USDT: below par USDC is the weaker coin.
WeakBy(asset, dev) ==
  IF (asset = "usdc" /\ dev < 0) \/ (asset = "usdt" /\ dev > 0) THEN Mag(dev) ELSE 0
S3Of(asset, pool) ==
  IF pool = {} THEN UnknownReading ELSE Measured(WeakBy(asset, Max(pool)), S3Thr)
S3Raw(asset, relative) ==
  IF asset = "eurc" THEN NotApplicable
  ELSE S3Of(asset, {relative.quotes[i].dev :
                     i \in {j \in IncludedIn(relative.quotes) : relative.quotes[j].kind = "dex"}})

\* Data health: the causes that stand.
S13Raw(failing, troubled) == Reading(IF failing THEN 2 ELSE IF troubled THEN 1 ELSE 0)

-----------------------------------------------------------------------------
\* S4 on a daily series points, in the order of the days: each day's median of the last
\* three, against a day and a week before.
FlowMedian(points, i) == Median(1 .. 3, [j \in 1 .. 3 |-> points[i - 3 + j].value])
Stale(day, today) == day < today - 2
Change(points, back) ==
  {<<FlowMedian(points, Len(points)), FlowMedian(points, i)>> :
     i \in {j \in 3 .. Len(points) : /\ points[j].day = points[Len(points)].day - back
                                     /\ FlowMedian(points, j) > 0}}
\* A fall of so many tenths of a percent, or more.
Falls(changes, tenths) == \E c \in changes : c[1] * 1000 <= c[2] * (1000 - tenths)
S4Of(day, week) ==
  IF day = {} /\ week = {} THEN UnknownReading
  ELSE Reading(IF Falls(day, 30) \/ Falls(week, 80) THEN 3
               ELSE IF Falls(day, 10) \/ Falls(week, 40) THEN 2
               ELSE IF Falls(day, 5) \/ Falls(week, 20) THEN 1 ELSE 0)
S4Raw(points, today) ==
  IF Len(points) < 4 THEN UnknownReading
  ELSE IF Stale(points[Len(points)].day, today) THEN UnknownReading
  ELSE S4Of(Change(points, 1), Change(points, 7))

\* flowInput: the issuer's series once it has each of its last ten days and is not stale.
Covers(points, n, today) ==
  /\ Len(points) >= n
  /\ ~Stale(points[Len(points)].day, today)
  /\ \A i \in 0 .. n - 1 : \E p \in ToSet(points) : p.day = points[Len(points)].day - i
FlowSeries(issuer, aggregator, today) ==
  IF Covers(issuer, 10, today) \/ (Len(aggregator) < 4 /\ Len(issuer) >= 4)
  THEN issuer ELSE aggregator

\* S5: Tether's assets over liabilities, in thousandths; 0 without an update.
S5Raw(asset, coverage) ==
  IF asset # "usdt" THEN NotApplicable
  ELSE IF coverage = 0 THEN UnknownReading
  ELSE Reading(IF coverage < 1000 THEN 3 ELSE IF coverage < 1010 THEN 1 ELSE 0)

\* S6: the age of the latest attestation against the issuer's own lag, and whether the
\* facts may be stale, which S13 shows.
P90(lags) == SortSeq(lags, <)[(9 * Len(lags) + 9) \div 10]
WatchAfter(f) ==
  IF Len(f.lags) >= 3 /\ f.cadence > 0 THEN f.cadence + P90(f.lags) + 7
  ELSE IF f.cadence \in 1 .. 45 THEN 65 ELSE IF f.cadence \in 46 .. 100 THEN 150 ELSE 0
S6Over(f) == f.reports > 0 /\ WatchAfter(f) > 0 /\ f.age > WatchAfter(f)
FactsStale(f) == S6Over(f) /\ f.checked > 14
S6Raw(f) ==
  LET overdue == IF f.age > WatchAfter(f) + 30 THEN 2 ELSE 1
  IN  IF f.reports = 0 \/ WatchAfter(f) = 0 THEN UnknownReading
      ELSE IF f.shortfall THEN Reading(2)
      ELSE IF FactsStale(f) THEN UnknownReading
      ELSE Reading(IF S6Over(f) THEN overdue ELSE 0)

\* S10: the bridged share of the supply on the verified chains.
S10Raw(view) ==
  LET total == view.native + view.bridged
  IN  IF ~view.known \/ total <= 0 THEN UnknownReading
      ELSE IF view.bridged * 100 >= 10 * total THEN Reading(1) ELSE Info

S11Raw(f) ==
  CASE f.mica = "unknown" -> UnknownReading
    [] f.mica = "not_authorized" -> Reading(1)
    [] OTHER -> Info

\* S12: the aggregator's level is read here and confirmed by the engine; the excess over a
\* chain's total is confirmed by the supply sampler.
S12OnchainLevel(view) == IF ~view.compared THEN Unknown ELSE IF view.excess THEN 2 ELSE 0

-----------------------------------------------------------------------------
\* stableHyst.  The counters stop where they no longer matter.
Fresh == [level |-> 0, samples |-> 0, up |-> <<0, 0, 0>>, down |-> 0, last |-> -1,
          pending |-> Unknown, count |-> 0, confirmed |-> FALSE]

\* stableSampledStep, for a sample at a time: the state is the level unless it is unknown
\* or the signal is warming up.
Restarted(h, at) == IF h.last >= 0 /\ at - h.last > MaxGap THEN Fresh ELSE h
Below(level, r, thr) ==
  IF thr[1] > 0 THEN level > 0 /\ r.value * 10 < 8 * thr[level] ELSE r.level < level
Leave(h) == [h EXCEPT !.level = @ - 1, !.down = 0]
Counted(h, r, at) ==
  [h EXCEPT !.last = at, !.samples = UpTo(@ + 1, Enter),
            !.up = [k \in 1 .. 3 |-> IF r.level >= k THEN UpTo(@[k] + 1, Enter) ELSE 0]]
Reached(h, r) ==
  Max({IF r.immediate THEN 3 ELSE h.level} \cup {k \in h.level + 1 .. 3 : h.up[k] >= Enter})
Downs(h, r, thr, reached, capped) ==
  IF reached > h.level \/ ~Below(capped, r, thr) THEN 0
  ELSE 1 + (IF capped < reached THEN 0 ELSE h.down)
Leaving(h, moved) == IF ~moved /\ h.level > 0 /\ h.down >= Exit THEN Leave(h) ELSE h
Settled(h, r, thr, reached, capped) ==
  Leaving([h EXCEPT !.level = capped, !.down = Downs(h, r, thr, reached, capped)], reached > h.level)
Moved(h, r, thr, reached) == Settled(h, r, thr, reached, UpTo(reached, r.cap))
Stepping(h, r, thr) == Moved(h, r, thr, Reached(h, r))
SampledStep(h, r, thr, at) ==
  IF r.level < 0 THEN Restarted(h, at) ELSE Stepping(Counted(Restarted(h, at), r, at), r, thr)
SampledState(h, r) ==
  IF r.level < 0 \/ (h.samples < Enter /\ h.level = 0) THEN "unknown" ELSE Names[h.level + 1]

\* stableConfirmStep: a level is taken over when so many samples in a row agree on it.
Agreeing(h, level) == IF h.count > 0 /\ h.pending = level THEN h.count + 1 ELSE 1
ConfirmStep(h, level) ==
  IF h.confirmed /\ level = h.level THEN [h EXCEPT !.count = 0]
  ELSE IF Agreeing(h, level) < Confirm
       THEN [h EXCEPT !.pending = level, !.count = Agreeing(h, level)]
  ELSE [h EXCEPT !.level = level, !.confirmed = TRUE, !.pending = level, !.count = 0]

================================================================================
