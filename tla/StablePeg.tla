------------------------------- MODULE StablePeg -------------------------------
(***************************************************************************)
(* The consensus price of each stablecoin (opendata_stablecoin_consensus.go,*)
(* opendata_stablecoin_venues.go): which quotes count, and what they make   *)
(* together.  A price is its deviation from par (a euro price: from the     *)
(* euro's) in units of 1/Scale of a basis point, so that a ratio of prices  *)
(* is a difference of deviations.                                           *)
(***************************************************************************)
EXTENDS Sums, Sequences, SequencesExt

Scale == 16
Bps(n) == n * Scale

\* What a venue answered for a pair: the code of a failed fetch, or a price, a 24h volume
\* in units of the minimum, and what is wrong with the quote.
Ticker(dev, vol, faults) == [code |-> "", dev |-> dev, vol |-> vol, faults |-> faults]
NoTicker(code)           == [code |-> code, dev |-> 0, vol |-> 0, faults |-> {}]

\* A sample of the venues: the answers, by venue and pair, and whether the ECB rate is
\* stored.  A pair without an answer belongs to a provider that is off.
Answer(s, venue, pair) ==
  IF <<venue, pair>> \in DOMAIN s.answers THEN s.answers[<<venue, pair>>]
  ELSE NoTicker("disabled")

IsTicker(t) == t.code \in STRING /\ t.dev \in Int /\ t.vol \in Nat
IsSample(s) == \A p \in DOMAIN s.answers : IsTicker(s.answers[p])

Pairs ==
  {<<"coinbase", "USDT-USD">>, <<"coinbase", "USDT-USDC">>, <<"coinbase", "EURC-USDC">>,
   <<"kraken", "USDTZUSD">>, <<"kraken", "USDCUSD">>, <<"kraken", "EURCEUR">>,
   <<"kraken", "EURCUSD">>, <<"kraken", "ZEURZUSD">>,
   <<"bitstamp", "usdtusd">>, <<"bitstamp", "usdcusd">>, <<"bitstamp", "eurceur">>,
   <<"bitstamp", "eurusd">>, <<"okx", "USDC-USDT">>, <<"binance", "USDCUSDT">>,
   <<"uniswap", "USDC-USDT">>}
InEuros == {"EURCEUR", "eurceur"}

Quote(venue, kind, reason, dev, vol) ==
  [venue |-> venue, kind |-> kind, reason |-> reason, dev |-> dev, vol |-> vol]
Included(q) == q.reason = ""
IncludedIn(qs) == {i \in DOMAIN qs : Included(qs[i])}

\* stableEvalMarket: the first check that fails is the reason.  The pool of Uniswap has
\* neither a spread nor a volume to check.
Checks == << <<"old", "stale">>, <<"ahead", "bad_response">>, <<"untraded", "stale">>,
             <<"wide", "wide_spread">>, <<"no_rate", "fx_unavailable">>,
             <<"thin", "low_volume">> >>
FirstFailed(failed) == IF failed = {} THEN "" ELSE Checks[Min(failed)][2]
Reason(answer, faults) ==
  IF answer.code # "" THEN answer.code
  ELSE FirstFailed({i \in DOMAIN Checks : Checks[i][1] \in faults})
MarketQuote(answer, venue, pair, kind, rate) ==
  Quote(venue, kind,
        Reason(answer, answer.faults
                         \cup (IF pair \in InEuros /\ ~rate THEN {"no_rate"} ELSE {})
                         \cup (IF venue # "uniswap" /\ answer.vol < 1 THEN {"thin"} ELSE {})),
        answer.dev, answer.vol)
MarketWith(s, venue, pair, kind, rate) ==
  MarketQuote(Answer(s, venue, pair), venue, pair, kind, rate)

\* stableDerive: num / den of one venue, out when a leg is, weighted by the thinner leg.
\* The spreads of two included legs may add up to one that is too wide.
Derive(num, den, wide) ==
  Quote(num.venue, "derived",
        IF ~Included(num) \/ ~Included(den) THEN "leg_excluded"
        ELSE IF wide THEN "wide_spread" ELSE "",
        num.dev - den.dev, Min({num.vol, den.vol}))

-----------------------------------------------------------------------------
\* stableMedian of devs[i], i \in I: the middle one, or the mean of the middle two.
UpToIt(I, devs, i)  == Cardinality({j \in I : devs[j] <= devs[i]})
Ranked(I, devs, k)  == Min({devs[i] : i \in {j \in I : UpToIt(I, devs, j) >= k}})
Middle(I, devs, half) ==
  IF Cardinality(I) % 2 = 1 THEN Ranked(I, devs, half + 1)
  ELSE (Ranked(I, devs, half) + Ranked(I, devs, half + 1)) \div 2
Median(I, devs) == Middle(I, devs, Cardinality(I) \div 2)

\* stableWeightedMedian of devs[i], i \in I, weighted by weight[i].
WeightTo(I, devs, weight, d) == Total(weight, {i \in I : devs[i] <= d})
AtHalf(mid, above, tied) == IF tied /\ above # {} THEN (mid + Min(above)) \div 2 ELSE mid
MedianAt(I, devs, weight, all, mid) ==
  AtHalf(mid, {devs[i] : i \in {j \in I : devs[j] > mid}}, 2 * WeightTo(I, devs, weight, mid) = all)
Crossing(I, devs, weight, all) ==
  Min({d \in {devs[i] : i \in I} : 2 * WeightTo(I, devs, weight, d) >= all})
WeightedMedian(I, devs, weight) ==
  MedianAt(I, devs, weight, Total(weight, I), Crossing(I, devs, weight, Total(weight, I)))

\* stableAggregate of the included quotes qs[i]: each venue's price is the weighted median
\* of its own, and with three venues or more none weighs more than the others together.
VenuesOf(qs, I) == {qs[i].venue : i \in I}
Own(qs, I, v) == {i \in I : qs[i].venue = v}
PriceIn(qs, own) ==
  WeightedMedian(own, [i \in own |-> qs[i].dev], [i \in own |-> qs[i].vol])
PriceOf(qs, I, v) == PriceIn(qs, Own(qs, I, v))
Volume(qs, I) == Total([i \in I |-> qs[i].vol], I)
BugCapped(sum, others) == IF sum > others THEN (sum + others) \div 2 ELSE sum
Capped(sum, others) == IF sum > others THEN others ELSE sum
Capping(sum, total) == [v \in DOMAIN sum |-> Capped(sum[v], total - sum[v])]
Aggregated(venues, price, sum, total) ==
  CASE venues = {} -> [state |-> "unknown", dev |-> 0]
    [] Cardinality(venues) = 1 -> [state |-> "single_venue", dev |-> Max(Range(price))]
    [] Cardinality(venues) = 2 -> [state |-> "ok",
                                   dev |-> Total(price, venues) \div 2]
    [] OTHER -> [state |-> "ok", dev |-> WeightedMedian(venues, price, Capping(sum, total))]
Aggregate(qs, I) ==
  Aggregated(VenuesOf(qs, I), [v \in VenuesOf(qs, I) |-> PriceOf(qs, I, v)],
             [v \in VenuesOf(qs, I) |-> Volume(qs, Own(qs, I, v))], Volume(qs, I))

\* stableFinishPeg.
Spread(devs) == Max(devs) - Min(devs)
FinishedAs(qs, I, a) ==
  [quotes |-> qs, state |-> a.state, dev |-> a.dev,
   disp |-> IF Cardinality(I) < 2 THEN 0 ELSE Spread({qs[i].dev : i \in I}),
   inputs |-> Cardinality(I), venues |-> VenuesOf(qs, I)]
FinishedWith(qs, I) == FinishedAs(qs, I, Aggregate(qs, I))
Finish(qs) == FinishedWith(qs, IncludedIn(qs))

-----------------------------------------------------------------------------
\* stableComputePeg.
DevsOf(qs) == [i \in DOMAIN qs |-> qs[i].dev]
Euro(s) == <<MarketWith(s, "kraken", "ZEURZUSD", "direct", FALSE),
                       MarketWith(s, "bitstamp", "eurusd", "direct", FALSE)>>
HasRate(s) == IncludedIn(Euro(s)) # {} \/ s.ecb
Market(s, venue, pair) == MarketWith(s, venue, pair, "direct", HasRate(s))

Usdt(s) == Finish(<<Market(s, "coinbase", "USDT-USD"), Market(s, "kraken", "USDTZUSD"),
                    Market(s, "bitstamp", "usdtusd")>>)

Usdc(s) == Finish(<<Market(s, "kraken", "USDCUSD"), Market(s, "bitstamp", "usdcusd"),
                    Derive(Market(s, "coinbase", "USDT-USD"),
                           Market(s, "coinbase", "USDT-USDC"), s.wide)>>)

\* Coinbase's EURC in USDC, times the consensus of USDC, over the EUR/USD rate.
CrossQuote(leg, usdc, euro) ==
  IF ~Included(leg) \/ usdc.state # "ok" \/ IncludedIn(euro) = {}
  THEN Quote("coinbase", "cross", "leg_excluded", 0, leg.vol)
  ELSE Quote("coinbase", "cross", "",
             leg.dev + usdc.dev - Median(IncludedIn(euro), DevsOf(euro)), leg.vol)
Eurc(s) ==
  Finish(<<Market(s, "kraken", "EURCEUR"), Market(s, "bitstamp", "eurceur"),
           Derive(Market(s, "kraken", "EURCUSD"), Market(s, "kraken", "ZEURZUSD"), s.wide),
           CrossQuote(Market(s, "coinbase", "EURC-USDC"), Usdc(s), Euro(s))>>)

\* USDT per USDC, on the exchanges and on Uniswap.
Inverted(swap) == Quote("coinbase", "inverse", swap.reason, -swap.dev, swap.vol)
MedianOf(qs, I) ==
  [quotes |-> qs, inputs |-> Cardinality(I), dev |-> IF I = {} THEN 0 ELSE Median(I, DevsOf(qs))]
RelativeOf(qs) == MedianOf(qs, IncludedIn(qs))
Relative(s) ==
  RelativeOf(<<Market(s, "okx", "USDC-USDT"), Market(s, "binance", "USDCUSDT"),
               Inverted(Market(s, "coinbase", "USDT-USDC")),
               MarketWith(s, "uniswap", "USDC-USDT", "dex", FALSE)>>)

\* stableVenuesFailing: no exchange that was asked answered on any of its markets.
FilterReasons == {"", "stale", "wide_spread", "low_volume", "fx_unavailable", "leg_excluded"}
VenuesFailing(s) ==
  LET asked == {p \in Pairs : p[1] # "uniswap"
                  /\ Answer(s, p[1], p[2]).code \notin {"disabled", "paused"}}
  IN  asked # {} /\ \A p \in asked : Market(s, p[1], p[2]).reason \notin FilterReasons

Peg(s) == [usdt |-> Usdt(s), usdc |-> Usdc(s), eurc |-> Eurc(s), relative |-> Relative(s),
           failing |-> VenuesFailing(s)]

-----------------------------------------------------------------------------
\* "no venue above 50% of the weight" (README.md:528): with three venues or more, whatever
\* one of them quotes and however large its volume, the consensus leaves the range of the
\* others' prices by at most half of the way to its own.
Between(dev, own, others) ==
  /\ dev >= Min({Min(others), (Min(others) + own) \div 2})
  /\ dev <= Max({Max(others), (Max(others) + own) \div 2})
BoundedBy(peg, I, v) ==
  Between(peg.dev, PriceOf(peg.quotes, I, v),
          {PriceOf(peg.quotes, I, u) : u \in peg.venues \ {v}})
NoVenueDecides(peg) ==
  Cardinality(peg.venues) >= 3 => \A v \in peg.venues :
    BoundedBy(peg, IncludedIn(peg.quotes), v)

================================================================================
