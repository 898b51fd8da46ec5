------------------------------- MODULE RiskLists -------------------------------
(***************************************************************************)
(* One Address Risk label list (address_risk_lists.go, address_risk_sync.go):*)
(* the hourly job downloads every file of the source, merges them, and      *)
(* replaces the stored list unless the anti-wipe guard says no.  Upstream   *)
(* may change between two files and serve a truncated file at any time.     *)
(***************************************************************************)
EXTENDS Integers, Sequences, FiniteSets

CONSTANTS
  Files,       \* the number of files of the source
  Contents,    \* what a file may hold: sets of addresses
  GuardRows,   \* lists of so many rows are guarded: 20
  Every        \* riskListEvery, in ticks

ASSUME ListsAssumption ==
  /\ Files \in Nat \ {0} /\ GuardRows \in Nat \ {0} /\ Every \in Nat
  /\ \A c \in Contents: IsFiniteSet(c)

Payloads == [1 .. Files -> Contents]
None     == <<>>    \* no hash: not a payload, which has at least one file

VARIABLES
  upstream,     \* what the files hold now
  list,         \* list_entries of the source
  contentHash, pendingHash,
  sinceOk,      \* ticks since last_ok_at, up to Every
  lpc,          \* the job: "idle", "fetch", "decide", "invalidate"
  fetched,      \* the files downloaded so far
  previous      \* history: the last payload that was downloaded and decided on

lists == <<upstream, list, contentHash, pendingHash, sinceOk, lpc, fetched, previous>>

-----------------------------------------------------------------------------
\* mergeListEntries: one row for each address.
Merged(payload) == UNION {payload[i] : i \in DOMAIN payload}

\* decideListUpdate.
TooFew(new) ==
  \/ new = {}
  \/ Cardinality(list) >= GuardRows /\ Cardinality(new) * 2 < Cardinality(list)
BugAccepted(payload) ==
  \/ ~TooFew(Merged(payload))
  \/ Merged(payload) # {} /\ pendingHash # None
Accepted(payload) ==
  \/ ~TooFew(Merged(payload))
  \/ Merged(payload) # {} /\ pendingHash # None /\ pendingHash = payload

\* syncSource stops early when the payload is the stored one and none is pending.
Unchanged(payload) == pendingHash = None /\ contentHash = payload /\ list # {}

BugPendingOf(payload) == None
PendingOf(payload) == payload

-----------------------------------------------------------------------------
UpstreamChanges ==
  /\ \E i \in 1 .. Files, c \in Contents: upstream' = [upstream EXCEPT ![i] = c]
  /\ upstream' # upstream
  /\ UNCHANGED <<list, contentHash, pendingHash, sinceOk, lpc, fetched, previous>>

\* runAddressRiskSync ticks, and syncDue skips a source that was fine Every ticks ago.
ListTick ==
  /\ lpc = "idle"
  /\ IF sinceOk < Every THEN sinceOk' = sinceOk + 1 /\ UNCHANGED lpc
     ELSE lpc' = "fetch" /\ UNCHANGED sinceOk
  /\ fetched' = None
  /\ UNCHANGED <<upstream, list, contentHash, pendingHash, previous>>

FetchFile ==
  /\ lpc = "fetch"
  /\ fetched' = Append(fetched, upstream[Len(fetched) + 1])
  /\ lpc' = IF Len(fetched') = Files THEN "decide" ELSE "fetch"
  /\ UNCHANGED <<upstream, list, contentHash, pendingHash, sinceOk, previous>>

\* A request, a body over the cap or a parse that fails, or a panic (runOne): setSyncError.
FetchFails ==
  /\ lpc = "fetch"
  /\ lpc' = "idle"
  /\ UNCHANGED <<upstream, list, contentHash, pendingHash, sinceOk, fetched, previous>>

\* The rest of syncSource: markListUnchanged, markListRejected or replaceList.
Decide ==
  /\ lpc = "decide"
  /\ CASE Unchanged(fetched) ->
            /\ sinceOk' = 0 /\ lpc' = "idle"
            /\ UNCHANGED <<list, contentHash, pendingHash>>
       [] ~Unchanged(fetched) /\ Accepted(fetched) ->
            /\ list' = Merged(fetched) /\ contentHash' = fetched /\ pendingHash' = None
            /\ sinceOk' = 0 /\ lpc' = "invalidate"
       [] ~Unchanged(fetched) /\ ~Accepted(fetched) ->
            /\ pendingHash' = PendingOf(fetched)
            /\ lpc' = "idle"
            /\ UNCHANGED <<list, contentHash, sinceOk>>
  /\ previous' = fetched
  /\ UNCHANGED <<upstream, fetched>>

\* onChange, once the new list is committed.
ListChanged ==
  /\ lpc = "invalidate"
  /\ lpc' = "idle"
  /\ UNCHANGED <<upstream, list, contentHash, pendingHash, sinceOk, fetched, previous>>

\* A restart; last_ok_at may be long ago by then.
ListCrash ==
  /\ lpc' = "idle" /\ sinceOk' = Every
  /\ UNCHANGED <<upstream, list, contentHash, pendingHash, fetched, previous>>

ListInit ==
  /\ upstream \in Payloads
  /\ list = {} /\ contentHash = None /\ pendingHash = None
  /\ sinceOk = Every /\ lpc = "idle" /\ fetched = None /\ previous = None

ListJob == ListTick \/ FetchFile \/ FetchFails \/ Decide

-----------------------------------------------------------------------------
ListTypeOK ==
  /\ upstream \in Payloads
  /\ list \subseteq UNION Contents /\ IsFiniteSet(list)
  /\ contentHash \in {None} \cup Payloads /\ pendingHash \in {None} \cup Payloads
  /\ sinceOk \in 0 .. Every
  /\ lpc \in {"idle", "fetch", "decide", "invalidate"}
  /\ fetched \in Seq(Contents) /\ Len(fetched) <= Files /\ previous \in {None} \cup Payloads

\* A guarded list never loses more than half of its rows, and no list its last row, unless
\* two downloads in a row gave the same payload: neither a truncated file nor a mixture of
\* an old and a new one ever does it alone, whatever was rejected before.
ShrinkConfirmed ==
  [][list' # list /\ (list' = {} \/ (Cardinality(list) >= GuardRows
                                      /\ Cardinality(list') * 2 < Cardinality(list)))
       => list' # {} /\ previous = fetched]_lists

\* When upstream settles, a real delisting is accepted in the end.
DelistingAccepted == <>[](list = Merged(upstream) \/ Merged(upstream) = {})

-----------------------------------------------------------------------------
\* The inductive invariant: where a download is, and that a pending payload is the last one.
ListInv ==
  /\ ListTypeOK
  /\ lpc = "fetch" => Len(fetched) < Files
  /\ lpc = "decide" => Len(fetched) = Files
  /\ pendingHash # None => pendingHash = previous

=============================================================================
