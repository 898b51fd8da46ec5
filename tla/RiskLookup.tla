------------------------------ MODULE RiskLookup ------------------------------
(***************************************************************************)
(* One Address Risk lookup (address_risk_lookup.go and the files of its     *)
(* live sources): the sources of the address's chain are asked at once,     *)
(* each fails on its own, and the backend says in one sentence what was     *)
(* found and what could not be checked.  Requests for one key share a       *)
(* flight, and an answer that a retry would not better is cached.           *)
(*                                                                         *)
(* What is true of an address is a set of clues.  A call of a lookup fails  *)
(* or tells the truth; how it fails matters only where the code asks.       *)
(***************************************************************************)
EXTENDS BqProfile

CONSTANTS
  Lookups,     \* requests that may be handled at once
  LookupTTL,   \* lifetime of a cached lookup, in ticks
  Tokens,      \* tokens that the issuer can freeze on the chain
  Rpcs,        \* the chain's RPC endpoints
  Worlds,      \* what may be true, see WorldSet
  Faults,      \* the sets of calls of one lookup that may fail together
  KeyChanges   \* bound: how often the Etherscan key is saved or deleted

Lists   == {"ofac", "mew_darklist"}
Freezes == {"stablecoin", "tron_stablecoin"}
Local   == Lists \union Freezes \union {"scam_lookalikes", "fake_token_deployers"}

\* riskSourcesFor.
OnBase == {"ofac", "mew_darklist", "scam_lookalikes", "fake_token_deployers",
           "issuer_freeze", "goplus", "blockscout", "eip7702"}
RiskSourcesFor ==
  [eth  |-> OnBase \union {"stablecoin", "chainalysis_oracle", "etherscan", "bigquery_profile"},
   arb  |-> OnBase \union {"chainalysis_oracle"},
   op   |-> OnBase \union {"chainalysis_oracle"},
   base |-> OnBase,
   tron |-> {"ofac", "tron_stablecoin", "scam_lookalikes", "issuer_freeze", "goplus"},
   btc  |-> {"ofac"},
   sol  |-> {"ofac", "issuer_freeze"}]

\* The sync state of a local source: its last success or its cursor, a download that waits
\* to be confirmed, whether it has rows, and whether its history begins late.
SyncStates == [last: {"never", "old", "recent"}, pending: BOOLEAN, rows: BOOLEAN, late: BOOLEAN]

Clue(source, what) == [source |-> source, what |-> what]
Clues == [source: Local, what: {"listed"}]
   \union [source: {"issuer_freeze"}, what: Tokens]
   \union [source: {"chainalysis_oracle", "goplus", "blockscout"}, what: {"hit"}]
   \union [source: {"etherscan"}, what: {"linked", "suspect"}]
   \union [source: {"eip7702"}, what: {"delegated", "flagged"}]
   \union [source: {"bigquery_profile"}, what: {"peer"}]

\* facts: the clues that are true.  elsewhere: tokens frozen only at an account that is not
\* the canonical one (Solana).  lists: the local lists have entries.  blockscout: the chain
\* has a Blockscout instance.  troubled: calls may fail (a bound).
WorldSet == [chain: DOMAIN RiskSourcesFor, facts: SUBSET Clues, elsewhere: SUBSET Tokens,
             sync: [Local -> SyncStates], lists: BOOLEAN, blockscout: BOOLEAN, troubled: BOOLEAN]

\* The calls of a lookup: reads of the store, and calls of the network.  "refused" is
\* Etherscan's answer to a bad key, "etherscan" any other failure of its lists.
FreezeCalls(t) == {"freeze"} \X {t} \X Rpcs
OracleCalls    == {"oracle"} \X Rpcs
CodeCalls      == {"code"} \X Rpcs
TronCalls      == {"tron"} \X Tokens
AccountCalls   == {"accounts"} \X Tokens
SingleCalls == {"states", "hits", "pool", "peers", "goplus", "blockscout", "etherscan", "refused",
                "fallback", "screen", "delegate", "canonical"}
Calls == {<<c>>: c \in SingleCalls} \union OracleCalls \union CodeCalls \union TronCalls \union AccountCalls
         \union UNION {FreezeCalls(t): t \in Tokens}

ASSUME LookupAssumption ==
  /\ Worlds \subseteq WorldSet /\ Faults \subseteq SUBSET Calls
  /\ \A w \in Worlds: Clue("eip7702", "flagged") \in w.facts => Clue("eip7702", "delegated") \in w.facts
  /\ LookupTTL \in Nat /\ KeyChanges \in Nat

VARIABLES
  world,    \* what is true, and the configuration
  keyed,    \* whether there is an Etherscan key
  changes,  \* bound: changes of the key so far
  asking,   \* [request -> its place and the key it looks up]
  flight,   \* the keys whose lookup is in progress
  cache,    \* [key -> an answer and its age, or NoEntry]
  given     \* the answers given by the last step

serviceVars == <<world, keyed, changes, asking, flight, cache, given>>
lookupVars  == <<profileVars, serviceVars>>

-----------------------------------------------------------------------------
(* The sources; down is the set of calls that fail *)

OkIf(ok) == IF ok THEN "ok" ELSE "error"

\* evmRPCFailover, checkOracle: one endpoint that answers is enough.
Failover(calls, down) == calls \ down # {}

\* listSourceStatus; scamLookalikeSourceStatus; stablecoinSourceStatusFor.
ListStatus(st) ==
  IF st.pending \/ st.last = "old" THEN "stale"
  ELSE IF st.last = "never" \/ ~st.rows THEN "empty" ELSE "ok"
CursorStatus(st) ==
  IF st.last = "never" THEN "empty" ELSE IF st.last = "old" THEN "stale" ELSE "ok"
FreezeHistoryStatus(st) ==
  IF CursorStatus(st) = "ok" /\ st.late THEN "partial" ELSE CursorStatus(st)

\* localCheck: a read that fails takes all local sources with it.
LocalOk(down) == {<<"states">>, <<"hits">>} \intersect down = {}
LocalStatus(s, down) ==
  IF ~LocalOk(down) THEN "error"
  ELSE IF s \in Lists THEN ListStatus(world.sync[s])
  ELSE IF s \in Freezes THEN FreezeHistoryStatus(world.sync[s])
  ELSE CursorStatus(world.sync[s])

\* checkEVMContractFreeze, checkTronContractFreeze: TRON has one endpoint.
TokenAnswers(t, down) ==
  IF world.chain = "tron" THEN <<"tron", t>> \notin down ELSE Failover(FreezeCalls(t), down)

\* checkIssuerFreeze: every token has to answer; on Solana every list of accounts, or else
\* the canonical accounts.
AllAccounts(down) == AccountCalls \intersect down = {}
BugFreezeOk(down) ==
  IF world.chain = "sol" THEN AllAccounts(down) \/ <<"canonical">> \notin down
  ELSE \E t \in Tokens: TokenAnswers(t, down)
FreezeOk(down) ==
  IF world.chain = "sol" THEN AllAccounts(down) \/ <<"canonical">> \notin down
  ELSE \A t \in Tokens: TokenAnswers(t, down)
Frozen(t, down) ==
  IF world.chain = "sol" THEN AllAccounts(down) \/ t \notin world.elsewhere
  ELSE TokenAnswers(t, down)

\* checkEIP7702Source: a delegated account's delegate is looked up on Blockscout.
Delegated(down) ==
  Failover(CodeCalls, down) /\ Clue("eip7702", "delegated") \in world.facts /\ world.blockscout
NoCache(down) == Delegated(down) /\ <<"delegate">> \in down

\* checkEtherscan: without a key, or when Etherscan fails for another reason than the key,
\* Blockscout is asked; an empty pool of listed addresses would read as "no association".
KeyFails(k, down)  == k.keyed /\ {<<"etherscan">>, <<"refused">>} \intersect down # {}
FallsBack(k, down) ==
  ~k.keyed \/ (KeyFails(k, down) /\ <<"refused">> \notin down /\ world.blockscout)
EtherscanOk(k, down) ==
  /\ world.lists /\ <<"pool">> \notin down
  /\ KeyFails(k, down) => FallsBack(k, down)
  /\ FallsBack(k, down) => <<"fallback">> \notin down
EtherscanStatus(k, down) ==
  IF ~k.keyed /\ ~world.blockscout THEN "not_configured" ELSE OkIf(EtherscanOk(k, down))

\* screenCounterparties: its failures are counted, and the source is still ok.
Screened(k, down) == EtherscanStatus(k, down) = "ok" /\ <<"screen">> \notin down
ScreenErrors(k, down) == EtherscanStatus(k, down) = "ok" /\ <<"screen">> \in down

\* checkBQProfile: the job's counterparties are matched against the local lists.
ProfileStatus(prof, down) == IF prof = "ok" /\ <<"peers">> \in down THEN "partial" ELSE prof

\* lookupOpts: each source's status, with prof for what the profile came to.
Status(s, k, down, prof) ==
  CASE s \in Local             -> LocalStatus(s, down)
    [] s = "issuer_freeze"     -> OkIf(FreezeOk(down))
    [] s = "chainalysis_oracle" -> OkIf(Failover(OracleCalls, down))
    [] s = "etherscan"         -> EtherscanStatus(k, down)
    [] s = "eip7702"           -> IF Rpcs = {} THEN "not_configured"
                                  ELSE OkIf(Failover(CodeCalls, down))
    [] s = "bigquery_profile"  -> ProfileStatus(prof, down)
    [] OTHER                   -> OkIf(<<s>> \notin down)

\* What an answering source tells of a clue that is true.
Sees(c, k, down) ==
  CASE c.source = "issuer_freeze" -> Frozen(c.what, down)
    [] c.source = "etherscan"     -> c.what = "linked" \/ Screened(k, down)
    [] c.source = "eip7702"       -> c.what = "delegated" \/ (Delegated(down) /\ ~NoCache(down))
    [] OTHER                      -> TRUE

\* The clues of a source whose status is st: what is stored counts even when it is old.
\* The code does not repeat a freeze that the local history shows; the text is the same.
Found(s, k, down, st) ==
  IF st = "ok" \/ (s \in Local /\ st # "error")
  THEN {c \in world.facts: c.source = s /\ Sees(c, k, down)} ELSE {}

\* The sources an answer names.
Named == RiskSourcesFor[world.chain] \ (IF world.blockscout THEN {} ELSE {"blockscout"})

NamedStatuses(k, down, prof) == [s \in Named |-> Status(s, k, down, prof)]
AllFound(k, down, prof) == UNION {Found(s, k, down, Status(s, k, down, prof)): s \in Named}

Answer(k, down, prof) ==
  [status  |-> NamedStatuses(k, down, prof),
   clues   |-> AllFound(k, down, prof),
   screen  |-> "etherscan" \in Named /\ ScreenErrors(k, down),
   noCache |-> "eip7702" \in Named /\ NoCache(down)]

With(a, statuses) == {s \in DOMAIN a.status: a.status[s] \in statuses}

\* buildRiskSummary: what is said first; clean is "No records in the N sources checked".
Unchecked == {"error", "stale", "timeout", "rate_limited", "partial", "empty", "over_budget"}
Text(a) ==
  IF a.clues # {} THEN "found" ELSE IF With(a, Unchecked) = {} THEN "clean" ELSE "partly"

\* cacheable.
BugCacheable(a) == With(a, {"error", "empty", "timeout", "rate_limited"}) = {} /\ ~a.noCache
Cacheable(a) ==
  /\ ~a.noCache /\ ~a.screen
  /\ With(a, {"error", "empty", "timeout", "rate_limited"}) = {}

-----------------------------------------------------------------------------
(* Requests *)

NoEntry == [age |-> -1]
Fresh(entry) == entry # NoEntry /\ entry.age <= LookupTTL
Idle == [pc |-> "idle"]

\* AddressRiskLookup: the key is read once; the profile is for Ethereum only.
Look(r, k) ==
  /\ asking[r] = Idle /\ k.keyed = keyed /\ (k.bq => world.chain = "eth")
  /\ IF Fresh(cache[k])
     THEN given' = {[key |-> k, answer |-> cache[k].answer]} /\ UNCHANGED <<asking, cache>>
     ELSE /\ cache' = [cache EXCEPT ![k] = NoEntry]
          /\ asking' = [asking EXCEPT ![r] = [pc |-> "missed", key |-> k]] /\ given' = {}
  /\ UNCHANGED <<profileVars, world, keyed, changes, flight>>

\* flight.Do, which does not look at the cache again.
Join(r) ==
  /\ asking[r].pc = "missed"
  /\ flight' = flight \union {asking[r].key}
  /\ asking' = [asking EXCEPT ![r].pc = "waiting"] /\ given' = {}
  /\ UNCHANGED <<profileVars, world, keyed, changes, cache>>

CallProfile(k) ==
  /\ k \in flight /\ k.bq /\ (AskProfile(k) \/ JoinProfile(k))
  /\ given' = {} /\ UNCHANGED <<world, keyed, changes, asking, flight, cache>>

\* wg.Wait: every source has answered or failed; the answer is cached if it may be, and
\* given to all that wait for it.
Waiting(k) == {r \in Lookups: asking[r].pc = "waiting" /\ asking[r].key = k}
Profiled(k) == IF k.bq THEN told[k] ELSE "skipped"

Finish(k, down) ==
  /\ k \in flight /\ Profiled(k) \notin {"no", "missed", "waiting"}
  /\ LET a == Answer(k, down, Profiled(k))
     IN  /\ cache' = IF Cacheable(a) THEN [cache EXCEPT ![k] = [answer |-> a, age |-> 0]] ELSE cache
         /\ given' = {[key |-> k, answer |-> a]}
  /\ flight' = flight \ {k}
  /\ asking' = [r \in Lookups |-> IF r \in Waiting(k) THEN Idle ELSE asking[r]]
  /\ told' = [told EXCEPT ![k] = "no"]
  /\ UNCHANGED <<tokens, job, profiles, paid, window, begun, world, keyed, changes>>

\* setEtherscanKey: a key is saved or deleted.
ChangeKey ==
  /\ changes < KeyChanges /\ changes' = changes + 1
  /\ keyed' = ~keyed /\ given' = {}
  /\ UNCHANGED <<profileVars, world, asking, flight, cache>>

ProfileStep ==
  /\ \/ \E a \in Addresses: \/ Recheck(a) \/ Refuse(a) \/ BeginJob(a)
                            \/ \E status \in Outcomes: EndJob(a, status)
     \/ \E k \in Keys: GiveUp(k)
     \/ OpenWindow
  /\ given' = {} /\ UNCHANGED <<world, keyed, changes, asking, flight, cache>>

LookupTick ==
  /\ ProfileTick /\ given' = {}
  /\ cache' = [k \in Keys |-> IF Fresh(cache[k]) THEN [cache[k] EXCEPT !.age = @ + 1] ELSE cache[k]]
  /\ UNCHANGED <<world, keyed, changes, asking, flight>>

LookupInit ==
  /\ ProfileInit
  /\ world \in Worlds /\ keyed \in BOOLEAN /\ changes = 0
  /\ asking = [r \in Lookups |-> Idle] /\ flight = {}
  /\ cache = [k \in Keys |-> NoEntry] /\ given = {}

LookupNext ==
  \/ \E r \in Lookups: \/ Join(r)
                        \/ \E k \in Keys: Look(r, k)
  \/ \E k \in Keys: \/ CallProfile(k)
                     \/ \E down \in IF world.troubled THEN Faults ELSE {{}}: Finish(k, down)
  \/ ChangeKey \/ ProfileStep \/ LookupTick

LookupSpec == LookupInit /\ [][LookupNext]_lookupVars

-----------------------------------------------------------------------------
(* Properties *)

\* The answers that the cache holds or that were just given.
Shown == given \union {[key |-> k, answer |-> cache[k].answer]: k \in {q \in Keys: cache[q] # NoEntry}}

\* A counterparty whose screening failed is known to be unchecked by the answer's scope
\* alone, and Solana's canonical accounts are the best a public endpoint may tell.
Excused(a) ==
  {c \in Clues: \/ a.screen /\ c = Clue("etherscan", "suspect")
                \/ world.chain = "sol" /\ c.source = "issuer_freeze" /\ c.what \in world.elsewhere}

\* "No records in the N sources checked" is said only when none of those sources has
\* anything about the address, whichever of its calls failed on the way, however requests
\* share the answer, and from the cache too (buildRiskSummary).
NoFalseClean ==
  \A s \in Shown: Text(s.answer) = "clean" =>
    \A c \in world.facts:
      \/ c.source \notin DOMAIN s.answer.status
      \/ s.answer.status[c.source] \in {"skipped", "not_configured"}
      \/ c \in Excused(s.answer)

Harmless == {{}, {<<"peers">>}} \union (IF world.chain = "sol" THEN {AccountCalls} ELSE {})

\* "so a retry gets fresh data" (cacheable): an answer is kept only if the same lookup without
\* a failed call would have given it, but for two failures that make no source fail: the
\* profile's match with the local lists, and Solana's lists of accounts.
KeptIsBest ==
  \A k \in Keys: cache[k] # NoEntry =>
    \E down \in Harmless, prof \in Lasting \union {"skipped"}: cache[k].answer = Answer(k, down, prof)

=============================================================================
