# Verification of the biglens server

TLA+ models of the stateful core of biglens (`src/backend`), TLC configurations
that check them on small instances, and TLAPS proofs for every value of the
constants.

## 1. The system

biglens is one Go server (`backend/main.go`), a React frontend, and a few
command-line modes of the same binary. Most handlers are read-only: they build a
SQL text, run it in BigQuery and cache the rows for ten minutes (`cache.go`). The
program's own logic, the part that keeps state between requests, is the set of
*services* that copy public data into one SQLite file (`address_risk_store.go`)
and decide from it what to show, what to fetch next, and how much money BigQuery
may cost; the *samplers* that watch stablecoins and raise signals; and the checks
that merge several unreliable sources into one answer (Payment Check, Address
Risk). Several goroutines of the server (hourly loops, samplers, HTTP handlers)
and several processes (the CLI modes) share the file.

| Part | State | Operations | Hard behaviour | What makes it correct |
|---|---|---|---|---|
| Budget ledger (`opendata_bitcoin_bq.go`, `_bq_utxo*.go`) | tables `btc_reservations`, `btc_budget` (and `stable_` twins), kv `last_baseline_at` | `reserveWithOpts`, `attachJob`, `settle`, `recoverStale`, `commitBtcBaseline` | several processes, crashes between BigQuery and SQLite, expiry racing a late settle, month boundaries | a month is not overspent; each reservation is charged exactly once and for at least its bill; one baseline at a time, at its interval; no row stays for ever |
| Daily jobs and runners (`scam_radar_sync.go`, `opendata_bitcoin_bq_runner.go`, `opendata_stablecoin_bq.go`) | `sync_state` cursor and `coverage_from`, kv `stopped:` and `failures:`, in memory `retryAfter`, `running`, `lastManualAt` | `syncWithOpts`, `executeSync`, `runScheduled`, manual run handler, resume CLI | manual run against schedule, failure after billing, resume from another process, shutdown | days are covered without a gap; repeated billed failures stop the job; a stopped job runs only after a resume |
| Bitcoin holder state (`opendata_bitcoin_holders.go`, `_valuation.go`) | `btc_utxo_state`, `btc_holder_daily`, baseline generations, `baseline_pending`, the spent matrix | a maintenance pass: apply a staged baseline, roll forward, reconstruct backwards, recompute prices; prune | jobs, the price feed and a baseline write between the reads of a pass | the state is the chain's to the last sat; no baseline is lost; rows get their prices |
| Freeze events (`address_risk_stablecoin_sync.go`, `address_risk_backfill.go`) | `stablecoin_events`, `cursor`, `coverage_from`, token coverage, `backfill_meta`, the pending plan | hourly sync, estimate and confirm over HTTP, CLI backfill, status | writers moving the same watermarks; crash between batches; two confirms; a status read in parts | every day the coverage claims was fetched; a token starts one run for what it was shown; a status never lies |
| Label lists (`address_risk_lists.go`, `address_risk_sync.go`) | `list_entries`, `content_hash`, `pending_hash` | `syncSource`, `decideListUpdate`, `replaceList` | truncated, mixed or flapping downloads | one bad download never wipes a list, a real delisting gets through |
| Overview and response cache (`address_risk_overview.go`, `cache.go`) | one cached answer with a lifetime | build from several reads, store, invalidate | answers computed before an invalidation and stored after it | an answer claims nothing that was not so and goes away |
| Stablecoin samplers and signals (`opendata_stablecoin_peg.go`, `_supply.go`, `_controls.go`, `_signal_*.go`, `_consensus.go`) | last sample, supply view, control states with pending values, signal records in memory and in SQLite, event log | five-minute and hourly samplers, a watchdog, `apply` | one venue or one RPC node that lies, evaluations that overtake each other, stalls, panics, failed saves, restarts | an alarm is earned, neither flaps nor is lost; a stale sample shows; a lie is not believed and the truth is |
| Payment Check (`payment_check_*.go`) | three caches; nothing stored | `/live` and `/history`: heads, pages, merge, flags, balances | blocks and reorganisations between the reads of one request, nodes that lag, full pages, poisoning | what is called final is final; nothing shows twice or is left out unsaid; an imitator is flagged |
| Address Risk lookup (`address_risk_lookup.go`, `_freeze_live.go`, `_eip7702.go`, `_bqprofile.go`, `_keys.go`, `_handlers.go`) | lookup cache and flights, Etherscan key, profile cache and bucket | fan-out to a dozen sources, failover, the summary, a BigQuery job that outlives its lookup | calls that fail alone or silently; a key changed under a flight; a flight that ends between a look and a flight | nothing is called clean that was not checked; what is cached is not the result of a failure; an address is billed once, an hour has a ceiling |
| Scam Radar handlers | caches | read-only queries | | partial data is labelled as such |
| Bitcoin feeds, Crypto Pulse | in-memory snapshots | HTTP feeds | late data | nothing computed from an incomplete day |
| Dashboards, billing, catalog, resources, security, open data | response cache, a configuration file | read-only queries | parallel queries sharing flights | an answer is never blamed on another request |
| Frontend, terraform, trend bot | none the backend depends on | | | |

Interactions: the hourly loop calls, in order, the budget's recovery, the on-chain
job, the coin-age job and the holder maintenance; manual runs call the same
syncer from an HTTP goroutine; the CLI modes open the same SQLite file from
another process. A job reserves in the ledger, runs queries that attach their ids
to the reservation, settles, and stores rows with its cursor; `onChange` callbacks
run a maintenance pass or drop cached answers. The samplers publish in memory,
store, and then evaluate the signals through one engine.

## 2. Plan

In this order, the most expensive mistakes first.

| | Modules | Subject | Abstract specification, theorems |
|---|---|---|---|
| done | `BqBudget`, `BqBudgetProofs` | the ledger, recovery, runs of one or two queries, the baseline lock | charged once, charges within the budget, charge covers the bill, one baseline |
| done | `FreezeCoverage`, `FreezeArchive`, `FreezeCoverageProofs` | server sync and backfills on shared watermarks | implements an archive that only grows and claims no day it has not fetched |
| done | `DailySync`, `DailySyncProofs` | windows, cadence, back-off, billed failures, stop and resume | no day passed over, billed failures bounded, back-offs honoured, a resume takes effect |
| done | `RunSlots`, `DailySyncProofs` | who runs a job, cooldown, shutdown | one run at a time, none after the server's wait |
| done | `Sums`, `SumProofs`, `HolderState`, `HolderStateProofs` | the maintenance pass against its writers | the state is exact; no staged or needed baseline is pruned |
| done | `RiskLists`, `BackfillRequests`, `AddressRisk`, `AddressRiskProofs` | the anti-wipe guard; estimate tokens, runs and status; the overview and its cache entry, composed | no unconfirmed shrink, one run per token, billed as confirmed, answers true |
| done | `BqProfile`, `RiskLookup`, `AddressRiskProofs` | one lookup and its sources, flights, both caches, the profile's jobs | a clean answer is true, a kept one the best, billed once, the hour's ceiling |
| done | `StablePeg`, `StableRules`, `StableControls`, `StableSupply`, `StableSignals`, `Stablecoins`, `StablecoinsProofs` | consensus price, rules and hysteresis, control reads, supply comparison, engine, watchdog, composed | the truth is confirmed, a liar alone is not, the log is complete, a stall shows, no venue decides a price |
| done | `Ranks`, `PayRows`, `PayFlags`, `PayFinality`, `PaymentCheck`, `PaymentCheckProofs` | page reads, merge, flags, finality and balances of four families of chains | what is called final is final, imitators of a paid address are flagged |
| next | `Pages` | the cached answer of several parts that most handlers give | a request that leaves never fails another; a refusal has a failed source |
| next | `CryptoDays` | the daily windows of Crypto Pulse: readiness, rollover, what is kept for ever | a day that is kept is complete |
| last | `JobUnderBudget` | `DailySync` on a budget that `BqBudget` implements | a refused reservation never moves the cursor or the stop flag |

## 3. Modules

Every module opens with a comment that says which code it models. An operator named
`Bug...` is a seeded fault, the definition after it as a plausible mistake would write
it; nothing else uses it. `PROJECT.json` maps every definition to its source lines.

### BqBudget (`opendata_bitcoin_bq.go`, `scam_radar_sync.go`)

An *actor* is a server goroutine or a CLI process. `live`, `row` and `attached` are the
`btc_reservations` table, `ledger` is `btc_budget`, `lastBaseline` the kv row,
`query` what BigQuery knows, `run` an actor's locals. Each SQLite transaction is one
action: `Reserve` (every check of `reserveWithOpts` and the insert), `Attach`,
`Settle`, `CommitBaseline`; `recoverStale` is one `RecoverSelect` and then one
transaction per row, so that a sweep works on what it read before. Errors the code
drops are actions of their own (`AttachFails`, `SettleFails`), `Cancelled` charges the
estimate, and `Crash` may come between any two actions while the query goes on.
`SecondCap` is the `MaximumBytesBilled` of a second query; `RefillJobs` are the
stablecoin jobs that give it the whole cap again when less than 1 MiB is left. Sizes
are counted in cap units, time in ticks.
`credited`, `estimated` and `conservative` are history.

### FreezeCoverage (`address_risk_store.go`, `_stablecoin_sync.go`, `_backfill.go`)

A day is a number, the clock counts half days (before and after 00:30 UTC), and
BigQuery has the days before `exported`. `storedDays` and `storedLate` are the days whose
events are in the table, without and with the token that joined the query late
(EURC). `cursor`, `coverageFrom` and `tokenFrom` are the watermarks. A writer is the
hourly sync (`SyncRead`, `SyncProbe`) or a backfill (`BackfillProbe`, `BackfillRead`,
`BackfillNext`); both then `Fetch` and `Store` a window, and `Stop` anywhere.
`Store` is `insertStablecoinWindow`: events, watermarks and token coverage in one
transaction. `SafeEnd` is `safeEndFrom` with its wall-clock and export checks, and
`NextBatch` one iteration of `planBackfill`. `FreezeArchive` is the abstract
specification; both the common history and the late token's implement it.

### DailySync (`scam_radar_sync.go`, `opendata_bitcoin_bq.go`)

One job. `syncWithOpts` is cut where it talks to SQLite or BigQuery: `Begin` (stop flag,
back-off, start of the window), `Plan` or `PlanIsEmpty` (export check, window, dry run,
reservation), `QuerySucceeds`, `FailUnbilled` or `FailBilled`, `Store`, `Succeed`.
`applyBilledFailure` is `ReadFailures`, `WriteFailures` (`recordFailure` has no
transaction), `Decide`, `Stop`. `Resume` is the operator's CLI process. `failures` and
`stopped` survive a `Crash`; `retryAfter` and `unbilled` do not. The jobs differ in the
constants: the stablecoin jobs' manual runs clear the back-off (`ManualClears`), the
Bitcoin jobs' do not. A day has three hours here; the unbilled count stops at 6, where
the delay stops growing. `billed`, `due`, `resumed` and `crashes` are history.

### RunSlots (`opendata_bitcoin_bq_runner.go`, `main.go`)

Where each request, its goroutine and the hourly loop are (`pc`), cut at every lock and
unlock of the runner's mutex: `Arrive` (checks without the mutex, and the reading of
the clock), `Ask` (flag and cooldown), `Estimate` or `EstimateFails`, `Start` (second
critical section), `ManualEnds`, `Free` and `Done` (the deferred calls). `Tick` and
`ScheduledEnds` are `runScheduled`. `Signal`, `Drained` and `Return` are the end of
`main`: contexts cancelled, `server.Shutdown` with its 15 seconds, `wg.Wait`. What a run
does is `DailySync`, which in turn takes from this module that runs do not overlap.

### HolderState (`opendata_bitcoin_holders.go`, `_valuation.go`)

The chain is two tables, `Created` and `Spent`, by day; `Unspent(d)` is what the stored
state should be. A maintenance pass is cut at its reads: `Start` copies the closes,
`ReadStored` the matrix and the on-chain rows, `ReadPending` and `ReadBlocked` decide
whether it works from a baseline, and `ApplyBaseline` or `RollExisting` is its one
transaction, which reads the cursors just before; `Finish` persists the engine status
and prunes generations. `StoreRollup`, `StoreCoinage`, `Prune`, `PricesArrive`,
`PlanBaseline` and `CommitBaseline` may come between any two. `RollForward` and
`Reconstruct` are the two loops of the engine with their supply identity and sign
checks, `Row` and `Checked` decide which price metrics are blocked. Faulty on-chain rows
(`BadKinds`) say that a day created one sat more, or claim more than the schedule. A
baseline query scans 687 GiB, so a pass over local tables that was under way when it was
planned ends before it (`m.older`). `Sums` has the sum over a set that these use.

### RiskLists, BackfillRequests, AddressRisk

`RiskLists` is one source of the hourly job: files that change one by one upstream,
`FetchFile` for each, `Decide` with the anti-wipe guard, and `ListChanged` for the
invalidation. `BackfillRequests` has the history as a row of yearly batches (FreezeCoverage
has its watermarks in full) and cuts `handleBackfill` at its critical sections:
`AskEstimate`, `Estimate`, `KeepPlan`, `Confirm`, and the status request in `GetFlag`,
`GetRead`, `GetDone`; a run is `RunPlan`, `RunBatch`, `RunSays`, `RunFrees`,
`RunInvalidates`, and the CLI does the same in another process without the flag.
`StatusOf` is `backfillStatus`. `AddressRisk` composes both with the overview: `Lookup`,
`Read` twice, `SetEntry`, and an entry that ages, is invalidated, and may be stored after
an invalidation.

### BqProfile, RiskLookup

`BqProfile` is `bqProfiler`: per address one flight (`JoinProfile`, `Recheck`, `Refuse`,
`BeginJob`, `EndJob`) and a cache of lasting answers, per server one `hourlyBucket` with
its refill in ticks, and per lookup what it knows (`AskProfile`, `GiveUp` after
`settings.Timeout`, the job going on without it). `paid`, `window` and `begun` are history.
`RiskLookup` is a request from `Look` (the key's snapshot and the cache) over `Join` to
`Finish`, the end of the flight. Its sources wait for nothing but the network, so one
action has them all answer, with any set of failed calls (`Faults`): `Status`, `Found`
and `Text` are the table of `riskSourcesFor`, each check with its failover and fallback,
and `buildRiskSummary`. What is true of an address is a set of clues, and a call fails or
tells the truth. A freeze that the local history already shows is not repeated by the
code; here it is, as it changes neither the text nor what may be cached. `MCServer` also
holds the scene of `RunSlots`.

### The stablecoin modules

`StablePeg` is the consensus price: which quotes count (`Checks`, the rejections), the
weighted median with its cap on a venue's weight, crosses through euro and between
stablecoins. Prices are deviations from par in sixteenths of a basis point. `StableRules`
has the readings of the signals and the two policies that turn readings into states:
hysteresis over samples (`SampledStep`, with its counters, caps, gaps and immediate rise)
and two-step confirmation (`ConfirmStep`). `StableControls` is one contract field read from
rotating endpoints, one of which may lie (`Liar`): `Stepped` is `stableControlStep`. Ages
there are by the clock, in intervals: a restart takes no time, or as long as a pending value
lasts, or longer, and the sample after it (`gap`) falls in the interval that had begun or in
the next, so that a pending value outlives a quick restart and not a slow one.
`StableSupply` compares an issuer's report with the chain and with the aggregator;
`StableSignals` is the engine for one asset, `Apply` its locked part. `Stablecoins` composes
them: every loop goes from `waiting` through `fetching`, `published` and `evaluating`; an
evaluation gathers its inputs (`Gather`, `ReadEvents`) and applies them later (`ApplyNext`),
so that another may overtake it. `Panics`, failed loads, reads and saves, and `Restart` can
strike between any two. `recent`, `since`, `missed`, `late`, `gaps`, `told`, `been`,
`quiet`, `clear` and `evidence` are history.

Assumed there: an evaluation of the watchdog takes less than an interval and does not
panic; `apply` is atomic (it holds a mutex); the stored series (S4, S5, S6, S11) are
`Worlds`; whether the supply and controls samplers stall is not modelled; the RPC controls
are enabled.

### PayRows, PayFlags, PayFinality, PaymentCheck

A scene is one receiving address on one chain: EVM, Bitcoin, TRON or Solana, the asset being
the chain's coin or a token. `PayRows` has the page reads of each family (limits, windows,
missing block times, the failures that cut a list) and the merge of three sources; pages of
Bitcoin and Solana hold whole transactions, and `BtcConverted` is what `convertBTCTx` makes
of the outputs of one: received outputs are one row, sent ones one per recipient, a sum of
amounts being of the largest class among them; `PayFlags` the hits of local lists, the
chronological scan that learns trusted counterparties and flags their imitators, and the
alerts; `PayFinality` the heads, their clamping, the level of a row and the split of a
balance. `PaymentCheck` has the chain with blocks and reorganisations, the heads flight that
callers share, the recent and history caches, and the parts of a `/live` and of a `/history`
request in any order. The time of a block is its height; a tick is a block and about a
minute. `Made` is the rows a transaction should have, `lost` the transactions of Solana that
a request's sources listed and no node returned, `Solid` TRON's newest solid block, or 0
when that read fails (the code drops its error). Assumed (`ReorgAssumption`): a
reorganisation stays above the final head by more than a cached row grows old, and the
newest rows are cached no longer than a history is. `Ranks` sorts and filters by counting
what comes before, so that the provers can reason about it.

## 4. Runs

| Run | Checks | Instance |
|---|---|---|
| `bq_ledger` | `LedgerPlusReservedInBudget`, `ChargeCoversBill`, `ChargedOnce`: nothing is charged twice, lost, or beyond the budget; the second query gets what is left; a charge covers its bills | 2 goroutines, 2 reservations of 2 units, budget 2, a month of 3 ticks, clock to 4 |
| `bq_baseline` | `OneBaselineAtATime`, `BaselineSpacing`, `ReservationsSettled`: one UTXO scan at a time, spaced at commit; every reservation is settled in the end | a goroutine and a CLI with and without `--force`, 2 reservations, clock to 3, fair |
| `bq_undercount` | a disagreement, section 7 | 1 goroutine, 1 reservation |
| `freeze_cold_race` | a disagreement, section 7 | cold start of 1 day |
| `bq_jobs` | two parts that share nothing, one scene at a time. `job`: `SyncedDaysStored`, `BilledFailuresBounded`, `BackoffHonoured`, `ResumeTakesEffect`, `CatchesUp`. `holders`: `StateExact`, `BaselineKept`, `DaysGetPriced` | `job`: a stablecoin job's policy; 3 days of 3 hours (10 hours), chunks of 2 days, 3 failures in a day stop, back-offs 1 and 2, a death of the process; manual runs, resumes at any moment and the death in the first 4 hours (`HandsOff`); fair. `holders`: 3 days with a spend of a later day's coin over midnight, 1 new baseline, 1 restart, both kinds of faulty rows, late prices, fair |
| `daily_bitcoin` | a disagreement, section 7 | a Bitcoin job's policy: 2 failures stop, 1 back-off of 2 hours that manual runs leave as it is |
| `server` | two parts that share nothing, one scene at a time. `slots`: `OneRunAtATime`, `NoRunAfterWait`, `ServerReturns`. Lookups: `NoFalseClean`, `KeptIsBest`, `BilledOnce` | `slots`: 2 requests and the loop, 5 minutes, cooldowns 3 and 1, fair. `lookups`: 1 request, the worlds `MCWorlds`, one failing call or two that stand in for one another, 1 change of the key. `profile` and `billing`: 2 requests, 2 addresses or 1, 1 job in an hour of 1 tick, lifetimes of 1 and 0 ticks, a cache of 1 profile |
| `profile_ceiling` | a disagreement, section 7 | the scenes of `server`, 2 jobs in an hour of 2 ticks |
| `holders_pruned` | a disagreement, section 7 | 4 days, a retention of 1 day |
| `address_risk` | two parts that share nothing, one scene at a time. `service`: `BilledWithinConfirmed`, `AnswersTrue`, `ShrinkConfirmed`, `DelistingAccepted`, `OneRunPerToken`, `OverviewCatchesUp`. `history`: `IsArchive`, `IsLateArchive`, `SyncCatchesUp`: the archive of freeze events only grows and claims no day it has not fetched, also for the late token; the cursor catches up | `service`: a source of 2 files of 4 addresses, 2 years of history, 2 requests, 1 reader, lifetimes of 1 tick; one of five bounds on the environment, fair. `history`: sync and 1 backfill, days 0 to 4, cold start of 2 days or a partial history, windows and years of 2 days, fair |
| `stablecoins` | `TruthConfirmed`, `StaleSampleShows`, `LogTellsChanges`, `NoVenueDecidesPrices`, `AlarmsEarned`, `LieNeedsSilence` | one of twelve bounds, chosen at the start (`MCBounds`) |
| `payments` | `FinalIsFinal`, `HistoryExact`, `LatestSeen`, `LookalikesFlagged` | one of the scenes of `MCScenes` |

The type invariants of the modules with proofs are proved, not run; each module has one.
In a run of two scenes the part that is not explored is at rest, with nothing left to happen
in it, and each scene is the module's own specification within the bounds.

Why the bounds are enough. *Ledger*: two actors and two rows are what one settle against one
recovery, one expired row against one new one, or two baselines need; the clock runs past an
expiry and a month boundary. *Freeze*: two writers and five days let a plan go stale while
the other moves both watermarks; windows and years of two days give plans of several
batches. `Span` limits how long a backfill plan may be old in TLC; the CLI has no such
limit, and the proofs need none. *Daily*: three days let a window be chunked, a failure
leave the policy's 24-hour window, and a stop, a resume and a further stop happen; any
number of manual runs fits in an hour, and one scheduled run (the loop's period).
Disturbances end after four hours so that what has to happen in the end can be observed;
their actions are not fair, and stopping them early is one of their legal behaviours.
*Holders*: a baseline, the day it ends on and a later day are all a boundary correction, a
roll-forward and a reconstruction need, and one more generation lets one be staged while
another is applied. *Address risk*: four addresses are a guarded list, a file is whole,
truncated or empty, and three changes let a rejected download be followed by another; two
requests race one run, and the bounds explore each part with the overview, restarts or the
CLI beside it. *Stablecoins*: `Enter`, `Exit` and `Confirm` of 2 are the least that count
anything (the code has 3, 12 and 2), and `PendingAge` of 1 and a gap of 0 or 1 after a
restart put a pending value on both sides of its limit; each sampler runs with the watchdog
on its own, because they share nothing but the engine, whose signals are evaluated
independently. *Server*: a source's failure is independent of the others', so single
failures and the pairs that stand in for one another (two endpoints, Etherscan and
Blockscout, the lists of accounts and the canonical ones) are all that can turn a status; a
bucket of one job and a cache of one profile are at their limits at once, and two requests
race one flight; `profile_ceiling` needs two jobs an hour, because a bucket of one gains its
second exactly when the hour is over. The grid of prices has four quotes and two volumes for
each of three venues, so that each can hold most of the weight, lie below, or tie at half.
Four ticks are past the stall limit of one interval and its notice. *Payments*: a page of
one row, three rows a history and four transactions put every limit at its edge, and batches
of several moves or outputs make fewer transactions than rows; scenes vary one hazard each
(forks, lags, full pages, batches, later payments, poisoning, two callers, a spend). The
clock of a run stops at its bound: where a property says that something happens in the end,
time-outs, exports and (`Outlast`) back-offs still end at the last step. Goroutines that
differ in nothing are a symmetry set, in runs without liveness only. `CHECK_DEADLOCK FALSE`
everywhere: a clock at its bound with nothing to do is a legitimate end.

## 5. Fairness

Stated in the MC modules; strong fairness of an action of one scene is stated together with
that of one of the other (`Ready`, `Retry`), which is the same because only one scene runs.

`bq_baseline`: the hourly loop calls `recoverStaleOnce` on every tick for ever, so its steps
are weakly fair; a `jobs.get` or a settle that fails is tried again on the next tick, so
they are strongly fair; BigQuery ends every query. Nothing forces a run to start or to
crash. The `history` of `address_risk`: the loop ticks (`SyncRead`, `Stop` weakly fair); a
probe, fetch or store that fails now and then succeeds some time (strong); backfills have no
fairness. The `job` of `bq_jobs`: the same for the job's steps; the operator has none, so
"or the job is stopped" is part of the property. `server`: a request's dry run and a run's
queries have timeouts, deferred calls run, `server.Shutdown` has its own timeout; nothing
forces a request, a tick or a signal. The `holders`: the hourly loop starts a pass for ever
and the coin-age job one after each store (strong, because the pass in progress may be in
its way); a transaction that fails now and then succeeds some time; days, prices and rows
come in the end; nothing forces a baseline. The `service`: the loop ticks, each file that is
asked for again and again is downloaded some time (strong), a run's steps have timeouts, a
cache entry grows old; no request, restart or upstream change is forced. `stablecoins` and
`payments` have safety properties only and no fairness.

## 6. Proofs

All by an inductive invariant at the end of each component's module, one lemma per action
and PTL at the end. TLC checked each of these invariants on the runs' instances before it
was proved.

- **BqBudget** (`IInv`): type correctness, one baseline, baseline spacing and charged-once
  for all constants. The rest assume `RefillJobs = {}`: that the ledger and open rows fit
  the budget, that a charge covers its bills and that no run bills more than it reserved.
  `IInv` says that a row is live until it is charged (`Rows`), that a working run owns its
  row before its deadline (`Owners`, from `Timeout < TTL`), that what a sweep read of
  a row is still true because an expired row has no run left (`Sweeps`), and that a run's
  caps and bills add up (`Bills`). Bytes are counted as the cardinality of sets of units.
- **FreezeCoverage** (`FreezeInv`): for any number of backfills with plans of any age, type
  correctness, both coverage invariants, and both refinements of `FreezeArchive`, for a
  history that is not empty at the start (`~ColdStart`). `FreezeInv` says that a plan and a
  window on its way still touch the covered interval however far others have moved it,
  which is why a stored window leaves no hole. From an empty history it is false
  (`freeze_cold_race`).
- **DailySync** (`IInv`): type correctness, no day passed over, and the bound on billed
  failures, for all constants, with manual runs, resumes at any moment and any number of
  deaths. The bound is not inductive: `BilledAreRecorded` says, for every window that
  ends at any hour, that a billed failure is in the list, about to be appended to the
  list *read before*, or lost by a death, so that the lost update of `recordFailure`
  against a resume leaves a list too long and never too short; `BeforeLimit` that the
  limit is reached only in a run or a stopped job; `RunFree` that no run in progress is of
  a stopped job. A job stops only for billed failures if only stopped jobs are resumed
  (`~ResumeAny`, `RunAlone`). Back-offs are honoured and a resume takes effect if manual
  runs clear the back-off or there are none (`~Manual \/ ManualClears`): `DueIsKept` and
  `NotDelayed` tie the server's memory to the history.
- **RunSlots** (`SlotsInv`, in `DailySyncProofs`): type correctness, one run, no run after
  the wait, for any number of requests. `SlotsInv` says that the flag is set exactly while one
  actor holds the job and that the wait group counts the goroutines.
- **HolderState** (`ExactInv`): the state and every row whose checks passed are exact, for
  every chain, every faulty row of the two kinds, any number of days, baselines and
  restarts, and no pruning takes a staged generation, or the one a price recomputation goes
  back to. The second needs `BaselineInv`: generations are numbered in the order they are
  built, `meta` is the newest and nothing else is ever staged, and a pass works on one it
  read in the same process. The first assumes `BoundaryStays` (the spends of the first
  stored day on are not pruned within the days of the model) or `NoBoundarySpend` (no block
  spends from a parent of a later date); with neither, TLC finds a baseline applied after
  the spends it is corrected by are gone (the `holders` scene with `Retain = 0`).
  `BoundaryInv` says that a pass that may see a baseline has read those spends.
  The rest is arithmetic: `IdentityMeans` (a day whose supply identity holds was right in
  every bucket: its spends were stored, or it had none, and its row was not faulty),
  `DayExact` (so it takes an exact state to an exact state, in both directions),
  `RollForwardExact` and `ReconstructExact` (so do the two loops, by induction over the
  days), and `BaselineExact` (so does the correction at the boundary).
- **SumProofs**: sums over finite sets and intervals, least and greatest elements, used by
  HolderState. The library's induction theorems take an operator, which the provers cannot
  instantiate; its theorem that the naturals are well-founded does not, so `NatInduct` and
  `FinSetInduct` state induction for a *set* of numbers and of subsets.
- **AddressRisk** (`IInv`): type correctness, no unconfirmed shrink, one run per token,
  billed as confirmed, answers true, for any number of files, addresses, requests,
  readers and restarts. The pending payload is the last one downloaded; a plan's token is
  the newest issued and has started nothing; a run's bill and what it has still to fetch
  fit what was confirmed; a stored status is true of the store at every moment; a reader
  between its two queries holds a claim the store still meets because no step takes a
  batch back.
- **RiskLookup** (`LookupInv`, which is `ProfileInv` and `ServiceInv`, in
  `AddressRiskProofs`): type correctness, twice the limit in an hour (`BucketCeiling`),
  billed once, no false clean answer, kept answers are best, for every world, every set of
  failed calls, any number of requests, addresses, tokens and endpoints. `BucketInv` bounds
  what began since any moment by what the bucket held, gained and has left, which is twice
  `max_per_hour` and not the ceiling the README names; `CacheInv` ties a cached profile to
  what was paid. `ServiceInv` says that an answer given or kept is `Answer` of some set of
  failed calls, which the key may have changed since without effect, because it is part of
  the cache's key. The work is in the lemmas on the operators: a source that read as checked
  told all it knows (`CleanIsTrue`), and an answer that may be kept is unchanged when every
  failed call but the harmless ones had succeeded (`Left`, `Milder`, `KeptAnswer`).
- **Stablecoins** (`ControlsInv`, `EngineInv`, `StaleInv`, `AlarmInv`, `SupplyInv`): that
  two true samples confirm the truth and one liar is not believed, for any endpoints; that
  the log is complete unless an event was lost with a save or stored out of order; that a
  stalled sampler shows, for any limit. `ControlsInv` says that a value no honest node can
  have named is pending without a dispute only while honest nodes are silent. `EngineInv`
  says that loaded records differ from stored ones only where a save failed. `StaleInv`, the
  hardest, orders the samples in flight: a run is recorded after its sample was evaluated;
  what is not consumed yet was read in this interval or the one before; an evaluation that
  saw no stall read a sample within the limit. That no venue decides a price (`PegBounded`),
  for any samples whose prices and volumes are numbers: the weighted median is the lowest
  price that half of the weight does not exceed, or the mean of it and the next; with the
  cap, each of three venues or more has at most half of the weight (`CapIsHalf`), so that
  the consensus reaches past the others' prices only as the mean of two of the venues'
  prices, one of them another's; and a venue's weight is the sum over its own quotes
  (`VolumeByVenue`). The model takes medians by rank, which is what sorting and indexing
  gives, and without a sequence to reason about. That alarms are earned, for any thresholds,
  evaluations that overtake each other and restarts, and a comparison confirmed twice at
  least (`Confirm >= 2`; the code has 2). The counters of S1 are runs of the readings
  published (`ReadingsInv`), those in memory and, until they are loaded, those stored. The
  last reading is still to be counted exactly while its sample is newer than any consumed
  (`Ahead`): no run publishes before the sample before was consumed, because the samples are
  begun in order and each is evaluated by its own run at the latest (`FreshInv`). Hence no
  sample counts twice or not at all, and what a late load would mix in counts as a lost one.
  For S12, `CountInv` says that its counter is no more than the run of readings that ends
  the evidence, `UpdatesInv` that Tether's kept updates are the newest evidence, in the
  order of their numbers. The lemmas are those of the hysteresis (`StepIs`: a level rises at
  once or where a counter is full, and a counter is one more than it was or is cleared) and
  of a bounded window over a sequence (`PublishedRun`, `CountedRun`, `UpdatesKeep`).

- **PaymentCheck** (`IInv`): what is called final is final, for every ledger, window, lag of
  the nodes, full page, batch of lost transactions and order of a request's parts, on a
  chain that reorganises above its final head. A row is a claim, that a transaction is in a
  block. `Standing` says what such a claim is worth with age: read since time t, it is so or
  names a block above t - `MaxReorg`, because a reorganisation replaces no more. The first
  half of the proofs shows that page reads, filters, the merge, the flags and the sort make
  no new claim (`HistoryIs`, `RecentIs`, `LogsAre`, `MergedIs`, `AnalysedAre`); the fields
  a merge fills in come from a row of the same key. `IInv` bounds the age of every list
  (`HistoryTTL` in a cache, two ticks more in a request) and says that no head is above the
  final head of now (`HeadsOK`). A row below such a head is too old to have been replaced
  (`ReorgAssumption`), so it is where it says. For Bitcoin's balance the sum of the
  confirmed payments above the head is what the list shows and nothing else
  (`FinalBalanceIs`).

  That imitators of a paid address are flagged, for every list a request can answer with.
  `IInv` types the rows of all families of chains for this, TRON's as well, and says that
  what a request answers is `ApplyFlags` of some rows, with the heads' level added
  (`SaidFlags`). The rest is about that operator: a stable sort by rank puts each row in
  one place and respects the scan's key (`ScanOrderIs`, `OlderIsScanned`); full trust is
  given to no two addresses that look alike and is never taken back (`ScanIs`,
  `TrustLasts`), by induction over the rows scanned; so an imitator that the owner had not
  paid before is a suspect when its row is scanned (`ImitatorIsSuspect`), gets a flag, and
  an alert of at least that flag's priority (`AlertRaised`).

The proofs found faults of earlier versions of these models and properties.
`StaleSampleShows` is false without `late` (section 7). Two overlapping `CASE`s in
`StableSignals` and `PayFlags` left a choice the code does not have. `LookalikesFlagged`
compared heights where the scan of an EVM chain compares blocks, and took the alert window
from the block before the newest. The scan itself was a fold, which the provers cannot
reason about; it is a recursive function now, of the states after each row.

Assumptions on constants are those of the modules' `ASSUME`s. Only model-checked:

- all liveness properties (the prover does not do fairness);
- `HistoryExact` and `LatestSeen` of `PaymentCheck`. They are about what a list does *not*
  leave out: how many equal rows a full page or a merge kept, and which row came first in
  a list that is complete only above a head;
- everything about `RefillJobs` and about an empty freeze history.

## 7. Where the code and its words differ

Five are runs that TLC finds violated, described in `PROJECT.json`: a two-query run that
dies before its second `attachJob` is under-charged (`bq_undercount`); a cold start of one
day after midnight and a backfill planned before it can leave a claimed day unfetched
(`freeze_cold_race`; with two backfills a cold start of two days has the same hole); a row
that waits for prices sends the state back to a baseline whose first days are pruned
(`holders_pruned`). Where manual runs do not clear the back-off (Bitcoin's runner), the tick
after a resume can be held back, although `opendata_bitcoin_bq.go:624` says that the job
resumes on its next tick: a scheduled failure set a delay in memory, and a manual run stopped
the job (`daily_bitcoin`; with the stablecoin jobs' policy `bq_jobs` shows, and
`DailySyncProofs` proves, that it is not). The profile's bucket starts full and refills, so an
hour can see nearly twice `max_per_hour` jobs, against "the hard cap ceiling
`max_per_hour × max_bytes_billed`" (`README.md:862`; `profile_ceiling`).

Met while modelling, not kept as runs:

- *Budget and jobs.* A stablecoin run may bill twice its reservation, because its second
  query gets the whole cap again when less than 1 MiB is left (`RefillJobs`). A
  reservation whose process died before `attachJob` leaves the month's sum when it
  expires and returns when recovered, so BigQuery can bill more than
  `monthly_budget_gib` in between (the `conservative` term of
  `LedgerPlusReservedInBudget`). A manual run of a Bitcoin job that fails before it is billed
  overwrites a longer back-off, because it sets the delay of an unbilled failure and did not
  clear the other; `BackoffHonoured` is checked and proved for the jobs whose manual runs
  clear it. A resume of a job that is running,
  between the read and the write of `recordFailure`, is undone (`ResumeAny`; the bound on
  billed failures survives it). The error of `recordFailure` is dropped
  (`scam_radar_sync.go:504`), and a panic in a manual run's estimate leaves the job marked as
  running (`opendata_bitcoin_bq_runner.go:749`).
- *Holder state.* A baseline committed between a pass's read of `baseline_pending` and its
  transaction is deleted unapplied until the next price recomputation or baseline,
  against `README.md:449-455`. A baseline built before any coin-age data is applied without the
  correction at the boundary. A pass that read the matrix before a store can halt on a
  sound day; a later pass gets over it. A faulty day in the reconstructed range keeps the
  rows before it without prices and makes every hourly pass apply the baseline again. The
  price watermark can jump a hole in the closes (`opendata_bitcoin_prices.go:149-212`).
- *Address risk.* The status "failed: previous backfill was interrupted" also shows while a
  CLI run, or one that has just started, is alive, and a second billed backfill can be
  started on it. An overview stored after an invalidation is served for up to its lifetime
  (`address_risk_overview.go:288`).
- *Stablecoins.* When the stored records could not be read at first and come in later, S1
  shows for one watchdog interval what they say, however old. After a stall the recovering
  run evaluates before it is recorded, so its own evaluation still counts as stalled. S13
  and an immediate rise of S1 can move twice in one `apply` with one timestamp, and `INSERT
  OR REPLACE` keeps only the second event, against "every state change"
  (`signal_engine.go:13-15`). An older evaluation applied after a newer one moves the
  level-triggered signals back. A failed save loses its events for good; with a restart it
  can also lose a consumed sample. A peg sampler that never completed a run never counts as
  stalled. The comment on S8 says "6 hours (3 x 2h)" (`signals.go:95-97`), the code waits
  three quarters of an hour; a failed read of the control states makes a critical S8
  unknown. A sample of an unlisted chain is passed over where the comment at
  `supply.go:656-657` says that it resets the count. The second read of a control asks only
  the first other endpoint.
- *Lookup.* A profile whose match with the
  local lists failed is labelled partial and still cached, against "so a retry gets fresh
  data" (`address_risk_lookup.go`, `cacheable`). When Solana's lists of accounts fail, the
  canonical accounts answer for them, and one frozen elsewhere is missed without a word
  (`Harmless` and `Excused` name both). Counterparties that could not be screened are in the
  answer's scope and not in its summary. A key saved and deleted at once can be one thing in
  memory and another in the configuration file (`address_risk_keys.go`).
- *Payment Check.* A block mined between Bitcoin's two reads of a balance makes the sum
  called final include a payment of one confirmation (`README.md:776-783`); `FinalIsFinal`
  excludes what that block moved. TRON rows are cached about as long as a block takes to
  solidify, so `FinalIsFinal` does not promise them. Counterfeit TRON rows can push others
  off its one unfiltered page without a mark. On Solana a signature whose transaction every
  node answers with null is left out with no error and no cut
  (`payment_check_solana.go:364-366`), so that a payment can be missing from an answer that
  claims to be complete, whether one node is asked or all of them lag; `HistoryExact` and
  `LatestSeen` hold for the others and except these by name (`Said.lost`). Calls of
  contracts that send coins out, on EVM chains and TRON, are not listed. Trust is also
  learnt from rows that are not confirmed, which the README says never happens. `Cache.Get`
  may delete an entry that was stored between its load and its delete.

Met while reading parts without a module: adding two billing datasets at once can lose one,
because `POST /config` changes the configuration outside its mutex after a slow probe
(`billing_handlers.go:222-249` against `config.go:235`); Crypto Pulse's readiness probe runs
beside the queries it vouches for, so that a day can be kept for ever although its last
hours were missing; a part that several dashboards share runs under the context of the
request that began it, so that one request's failure can cancel another's part
(`opendata_handlers.go:339-364`), where `resources_handlers.go:285` says otherwise.

## 8. Not modelled

SQL texts and row mapping; the numbers of a dry run (an estimate fits or does not); the
last-run and over-budget rows of the status page; errors of SQLite inside
`applyBilledFailure` and panics outside the stablecoin samplers; HTTP and JSON decoding;
amounts and their formatting; the token and name registries; Solana's tokens (the
signatures of token accounts, merged with the wallet's) and the smaller page of its archival
nodes; prices beyond "there or not" in the holder state. The components without a module,
with the reason, are in `PROJECT.json`: most are read-only query handlers and provider calls
without state of their own.
