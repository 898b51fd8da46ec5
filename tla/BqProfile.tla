------------------------------ MODULE BqProfile ------------------------------
(***************************************************************************)
(* The BigQuery profile of an address (bqProfiler, address_risk_bqprofile): *)
(* one job per address at a time, which outlives the lookup that asked for  *)
(* it; a cache of lasting answers with a limit; a token bucket for the      *)
(* whole server.  Time is counted in ticks of Hour to the hour.             *)
(*                                                                         *)
(* A Bug... operator is a seeded fault: the definition after it as a       *)
(* plausible mistake would write it, used only to test the properties.     *)
(***************************************************************************)
EXTENDS Integers, FiniteSets

CONSTANTS
  Addresses,
  PerHour,     \* MaxPerHour: what the bucket holds, and gains in an hour
  Hour,        \* ticks of an hour
  ProfileTTL,  \* bqProfileCacheTTL
  ProfileMax,  \* bqProfileCacheMax
  JobTicks     \* bqProfileJobTimeout

ASSUME ProfileAssumption ==
  /\ IsFiniteSet(Addresses)
  /\ PerHour \in Nat \ {0} /\ Hour \in Nat \ {0}
  /\ ProfileTTL \in Nat /\ ProfileMax \in Nat /\ JobTicks \in Nat

\* A lookup's key in the cache: its address, whether it has an Etherscan key, and whether
\* it asks for the profile.
Keys == [addr: Addresses, keyed: BOOLEAN, bq: BOOLEAN]

VARIABLES
  tokens,    \* the bucket, in units of which a job costs Hour
  job,       \* flight: [address -> the job's place and its age]
  profiles,  \* cache: [address -> a lasting answer and its age, or NoProfile]
  told,      \* [key -> what its lookup knows of the profile]
  paid,      \* history: [address -> the last lasting answer's age, and whether it was kept]
  window,    \* history: ticks since a moment chosen at random, or -1
  begun      \* history: jobs begun since that moment

profileVars == <<tokens, job, profiles, told, paid, window, begun>>

Lasting  == {"ok", "over_budget"}
Outcomes == Lasting \union {"error", "timeout"}
ProfileAnswers == Outcomes \union {"rate_limited"}

NoJob     == [pc |-> "none", age |-> 0]
NoProfile == [status |-> "none", age |-> 0]
NotPaid   == [age |-> ProfileTTL + 1, kept |-> FALSE]

FullBucket == PerHour * Hour

ProfileInit ==
  /\ tokens = FullBucket
  /\ job = [a \in Addresses |-> NoJob] /\ profiles = [a \in Addresses |-> NoProfile]
  /\ told = [k \in Keys |-> "no"] /\ paid = [a \in Addresses |-> NotPaid]
  /\ window = -1 /\ begun = 0

-----------------------------------------------------------------------------
(* The cache *)

Stale(entry) == entry.age > ProfileTTL
Entries(p) == {a \in Addresses: p[a] # NoProfile}
Known(a) == profiles[a] # NoProfile /\ ~Stale(profiles[a])

\* store: when the cache is full the expired entries go, and with no room left the answer
\* is not kept.
HasRoom(p) == Cardinality(Entries(p)) < ProfileMax
Swept == IF HasRoom(profiles) THEN profiles
         ELSE [a \in Addresses |-> IF Stale(profiles[a]) THEN NoProfile ELSE profiles[a]]
Stored(a, status) ==
  IF HasRoom(Swept) THEN [Swept EXCEPT ![a] = [status |-> status, age |-> 0]] ELSE Swept

-----------------------------------------------------------------------------
(* A lookup asks (run) *)

\* The answer is known, or not.
AskProfile(k) ==
  /\ told[k] = "no"
  /\ told' = [told EXCEPT ![k] = IF Known(k.addr) THEN profiles[k.addr].status ELSE "missed"]
  /\ UNCHANGED <<tokens, job, profiles, paid, window, begun>>

\* DoChan: the lookup joins the address's flight, or begins it.
JoinProfile(k) ==
  /\ told[k] = "missed" /\ told' = [told EXCEPT ![k] = "waiting"]
  /\ job' = [job EXCEPT ![k.addr] = IF @ = NoJob THEN [NoJob EXCEPT !.pc = "asked"] ELSE @]
  /\ UNCHANGED <<tokens, profiles, paid, window, begun>>

\* A lookup waits for settings.Timeout; the job goes on.
GiveUp(k) ==
  /\ told[k] = "waiting" /\ told' = [told EXCEPT ![k] = "timeout"]
  /\ UNCHANGED <<tokens, job, profiles, paid, window, begun>>

-----------------------------------------------------------------------------
(* The flight of an address *)

\* The flight ends: its address is free and the lookups that still wait are told.
Tell(a, status) ==
  /\ job' = [job EXCEPT ![a] = NoJob]
  /\ told' = [k \in Keys |-> IF k.addr = a /\ told[k] = "waiting" THEN status ELSE told[k]]

\* Another flight answered between this one's look at the cache and its start.
BugKnownAgain(a) == FALSE
KnownAgain(a) == Known(a)

Recheck(a) ==
  /\ job[a].pc = "asked" /\ KnownAgain(a)
  /\ Tell(a, profiles[a].status)
  /\ UNCHANGED <<tokens, profiles, paid, window, begun>>

Refuse(a) ==
  /\ job[a].pc = "asked" /\ ~KnownAgain(a) /\ tokens < Hour
  /\ Tell(a, "rate_limited")
  /\ UNCHANGED <<tokens, profiles, paid, window, begun>>

Taken == tokens - Hour

BeginJob(a) ==
  /\ job[a].pc = "asked" /\ ~KnownAgain(a) /\ tokens >= Hour
  /\ tokens' = Taken
  /\ job' = [job EXCEPT ![a] = [pc |-> "running", age |-> 0]]
  /\ begun' = IF window >= 0 THEN begun + 1 ELSE begun
  /\ UNCHANGED <<profiles, told, paid, window>>

\* The job is done, rejected, fails or is cancelled; only lasting answers are kept.
EndJob(a, status) ==
  /\ job[a].pc = "running" /\ status \in Outcomes
  /\ Tell(a, status)
  /\ IF status \in Lasting
     THEN /\ profiles' = Stored(a, status)
          /\ paid' = [paid EXCEPT ![a] = [age |-> 0, kept |-> HasRoom(Swept)]]
     ELSE UNCHANGED <<profiles, paid>>
  /\ UNCHANGED <<tokens, window, begun>>

-----------------------------------------------------------------------------
(* Time *)

Older(age) == IF age <= ProfileTTL THEN age + 1 ELSE age

\* hourlyBucket.allow adds what the time since its last call is worth.
Refilled == IF tokens + PerHour > FullBucket THEN FullBucket ELSE tokens + PerHour

\* No job is older than its timeout.
ProfileTick ==
  /\ \A a \in Addresses: job[a].pc = "running" => job[a].age < JobTicks
  /\ tokens' = Refilled
  /\ job' = [a \in Addresses |->
              IF job[a].pc = "running" THEN [job[a] EXCEPT !.age = @ + 1] ELSE job[a]]
  /\ profiles' = [a \in Addresses |->
              IF profiles[a] = NoProfile THEN NoProfile
              ELSE [profiles[a] EXCEPT !.age = Older(@)]]
  /\ paid' = [a \in Addresses |-> [paid[a] EXCEPT !.age = Older(@)]]
  /\ window' = IF window \in 0 .. Hour - 1 THEN window + 1 ELSE -1
  /\ begun' = IF window \in 0 .. Hour - 1 THEN begun ELSE 0
  /\ UNCHANGED told

\* An hour in which jobs are counted begins at any moment.
OpenWindow ==
  /\ window = -1 /\ window' = 0
  /\ UNCHANGED <<tokens, job, profiles, told, paid, begun>>

-----------------------------------------------------------------------------
(* Properties *)

ProfileTypeOK ==
  /\ tokens \in 0 .. FullBucket
  /\ job \in [Addresses -> [pc: {"none", "asked", "running"}, age: 0 .. JobTicks]]
  /\ profiles \in [Addresses -> [status: Lasting \union {"none"}, age: 0 .. ProfileTTL + 1]]
  /\ told \in [Keys -> {"no", "missed", "waiting"} \union ProfileAnswers]
  /\ paid \in [Addresses -> [age: 0 .. ProfileTTL + 1, kept: BOOLEAN]]
  /\ window \in -1 .. Hour /\ begun \in Nat

\* "the hard cap ceiling is `max_per_hour x max_bytes_billed`" (README.md:862): an hour, from
\* whatever moment on, sees at most PerHour jobs. A full bucket gains another PerHour in the
\* hour it is emptied in (hourlyBucket.allow), and TLC finds that.
JobsPerHour == begun <= PerHour

\* However lookups repeat, overlap and give up, no hour sees more jobs than the bucket
\* holds at its start and gains in it (hourlyBucket.allow).
BucketCeiling == begun <= 2 * PerHour

\* "repeated or concurrent lookups never bill twice": a job begins only when the address's
\* last lasting answer is older than the cache's lifetime, or found the cache full.
BilledOnce ==
  [][\A a \in Addresses:
       job[a].pc = "asked" /\ job'[a].pc = "running" => paid[a].age > ProfileTTL \/ ~paid[a].kept]_profileVars

=============================================================================
