----------------------------- MODULE MCStablecoins -----------------------------
(***************************************************************************)
(* Small instances of Stablecoins.  A behaviour chooses one of the bounds,  *)
(* so that each sampler is explored with the watchdog on its own.           *)
(***************************************************************************)
EXTENDS Stablecoins

Minter == [critical |-> FALSE, warns |-> TRUE, alone |-> FALSE]
MCEndpoints == <<"one", "two", "three">>
MCFields == { [critical |-> TRUE, warns |-> FALSE, alone |-> FALSE],
              Minter,
              [critical |-> TRUE, warns |-> FALSE, alone |-> TRUE] }

\* A sample: every pair of a venue at one price and volume, but for those named.
AllAt(dev, vol) == [p \in Pairs |-> Ticker(dev, vol, {})]
Venues(devs, vols) ==
  [p \in Pairs |-> CASE p[1] = "coinbase" -> Ticker(Bps(devs[1]), vols[1], {})
                     [] p[1] = "kraken"   -> Ticker(Bps(devs[2]), vols[2], {})
                     [] p[1] = "bitstamp" -> Ticker(Bps(devs[3]), vols[3], {})
                     [] OTHER -> Ticker(0, 1, {})]
Sampled5m(answers) == [answers |-> answers, ecb |-> TRUE, wide |-> FALSE]
Down(answers, venues) == [p \in Pairs |-> IF p[1] \in venues THEN NoTicker("timeout") ELSE answers[p]]
Named ==
  << <<"par">>   :> Sampled5m(AllAt(0, 1)),
     <<"low">>   :> Sampled5m(AllAt(Bps(-120), 1)),
     <<"crash">> :> Sampled5m(Venues(<<-600, -600, 0>>, <<1, 1, 5>>)),
     <<"out">>   :> Sampled5m(Down(AllAt(0, 1), {"coinbase", "kraken", "bitstamp", "okx", "binance"})),
     <<"wide">>  :> [answers |-> [p \in Pairs |-> Ticker(Bps(-40), 0, {"wide"})],
                     ecb |-> FALSE, wide |-> TRUE] >>
Grid == {<<d, v>> : d \in [1 .. 3 -> {-600, -50, 0, 40}], v \in [1 .. 3 -> {1, 4}]}
MCSamples ==
  FoldSeq(LAMBDA f, g : f @@ g, <<>>, Named)
    @@ [k \in Grid |-> Sampled5m(Venues(k[1], k[2]))]

Series(values) == [i \in 1 .. Len(values) |-> [day |-> i, value |-> values[i]]]
Facts == [lags |-> <<10, 12, 14>>, cadence |-> 30, reports |-> 3, age |-> 40, checked |-> 5,
          shortfall |-> FALSE, mica |-> "authorized"]
World == [facts |-> Facts, issuer |-> <<>>, today |-> 12, coverage |-> 1020,
          aggregator |-> Series(<<100, 100, 100, 100, 100, 100, 100, 100, 100, 100, 100>>)]
MCWorlds ==
  "calm" :> World
    @@ "run" :> [World EXCEPT !.facts.age = 60, !.coverage = 1005,
                              !.aggregator = Series(<<100, 100, 100, 100, 100, 100, 100, 100, 96, 96, 96>>)]
    @@ "late" :> [World EXCEPT !.facts = [Facts EXCEPT !.age = 90, !.checked = 20, !.mica = "unknown"],
                               !.issuer = Series(<<50, 50, 49, 49, 49, 48, 48, 48, 47, 47, 47>>)]
    @@ "none" :> [facts |-> [Facts EXCEPT !.reports = 0, !.lags = <<>>, !.mica = "not_authorized"],
                  issuer |-> <<>>, aggregator |-> <<>>, today |-> 12, coverage |-> 0]

Quiet == [loops |-> {}, fields |-> {Minter}, assets |-> {"usdc"}, signals |-> SampledSignals,
          starts |-> {"calm"}, samples |-> {}, ticks |-> 0, supplies |-> 0, changes |-> 0,
          silences |-> 0, lags |-> 0, lies |-> 0, faults |-> 0, worlds |-> 0, restarts |-> 0]
Timed == [Quiet EXCEPT !.loops = {"peg", "watchdog"}, !.assets = {"usdt"},
                       !.signals = {"S1"}]
Onchain == [Quiet EXCEPT !.fields = MCFields, !.loops = {"controls"}, !.signals = {"S8"}]
Stocks == [Quiet EXCEPT !.loops = {"supply"}, !.assets = {"usdc", "usdt"},
                        !.signals = {"S10", "S12", "S13"}]
MCBounds ==
  { [Quiet EXCEPT !.loops = {"peg"}, !.samples = DOMAIN MCSamples],
    [Timed EXCEPT !.samples = {<<"par">>}, !.ticks = 4, !.faults = 1],
    [Timed EXCEPT !.samples = {<<"par">>, <<"crash">>, <<"out">>}, !.ticks = 3,
                  !.signals = {"S1", "S13"}],
    [Timed EXCEPT !.samples = {<<"low">>, <<"par">>}, !.ticks = 2, !.faults = 1, !.restarts = 1],
    [Onchain EXCEPT !.changes = 1, !.silences = 2, !.lags = 1, !.lies = 2],
    [Onchain EXCEPT !.changes = 1, !.silences = 1, !.lies = 1, !.restarts = 1],
    [Onchain EXCEPT !.silences = 3, !.lies = 2, !.restarts = 1],
    [Onchain EXCEPT !.loops = {"controls", "watchdog"}, !.fields = {Minter}, !.changes = 1, !.lies = 1, !.faults = 1],
    [Stocks EXCEPT !.supplies = 4],
    [Stocks EXCEPT !.supplies = 3, !.restarts = 1, !.signals = {"S12"}],
    [Stocks EXCEPT !.supplies = 2, !.loops = {"supply", "watchdog"}],
    [Quiet EXCEPT !.loops = {"watchdog"}, !.assets = Assets, !.signals = WorldSignals,
                  !.starts = DOMAIN MCWorlds, !.worlds = 2] }

MCReports == {[listed |-> TRUE, age |-> 0, old |-> FALSE, sums |-> TRUE],
              [listed |-> FALSE, age |-> 0, old |-> FALSE, sums |-> TRUE],
              [listed |-> TRUE, age |-> 2, old |-> TRUE, sums |-> FALSE]}
MCFigures == {1000, 1030}
MCTotals  == {[native |-> 1005, bridged |-> 200], [native |-> 990, bridged |-> 10]}

=============================================================================
