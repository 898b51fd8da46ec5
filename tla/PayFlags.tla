------------------------------ MODULE PayFlags ------------------------------
(***************************************************************************)
(* What Payment Check says of a list of rows: the hits of the local lists, *)
(* the chronological scan that learns which counterparties the owner       *)
(* trusts and flags the addresses that imitate them, and the alerts.       *)
(***************************************************************************)
EXTENDS PayRows

CONSTANTS Parties,      \* counterparties
          Shape,        \* what a reader sees of an address: its ends
          Sanctioned,   \* counterparties the sanction and freeze lists name
          Poisoners,    \* counterparties the scam corpus names as lookalikes
          Deployers,    \* counterparties that deploy counterfeit tokens
          SerialTokens, \* counterfeit tokens one of those deployers created
          AlertWindow   \* how long a row raises alerts (24 h)

ASSUME FlagsAssumption ==
    /\ AlertWindow \in Nat
    /\ Nobody \notin Parties
    /\ Shape \in [Parties -> STRING]
    /\ Sanctioned \cup Poisoners \cup Deployers \subseteq Parties
    /\ SerialTokens \subseteq {"mimic", "fake"}

Lookalike(a, b) == a # b /\ Shape[a] = Shape[b]

(* The local lists: a token of the corpus is retiered first, on Ethereum;   *)
(* then every counterparty is looked up.  A step that fails ends the pass:  *)
(* the store is "off", its "pool fails" or all is "ok".                     *)
Retiered(r) == IF r.token = "fake" THEN [r EXCEPT !.tier = "counterfeit"] ELSE r
Genuine(r)  == r.tier \in {"native", "bridged"} /\ ~r.failed
Positive(r) == Genuine(r) /\ r.value > 0
HitFlags(r) == {f \in {"counterparty_listed", "counterfeit_deployer", "lookalike_known"} :
                   \/ f = "counterparty_listed" /\ r.party \in Sanctioned
                   \/ f = "counterfeit_deployer" /\ r.party \in Deployers
                   \/ f = "lookalike_known" /\ r.party \in Poisoners}
TokenFlags(r) == IF r.tier = "counterfeit" /\ r.token \in SerialTokens THEN {"counterfeit_deployer"} ELSE {}
Flagged(r, flags) == [row |-> r, flags |-> flags]
LocalHit(r, ethereum, store) ==
    LET tiered == IF ethereum /\ store # "off" THEN Retiered(r) ELSE r
    IN  Flagged(tiered, (IF ethereum /\ store # "off" THEN TokenFlags(tiered) ELSE {})
                        \cup (IF store = "ok" THEN HitFlags(tiered) ELSE {}))
LocalHits(rows, ethereum, store) == [i \in DOMAIN rows |-> LocalHit(rows[i], ethereum, store)]

(* The order of the scan: oldest first, what is in no block last.           *)
ScanBefore(r, s, byBlock) ==
    IF InMempool(r) # InMempool(s) THEN InMempool(s)
    ELSE IF byBlock THEN After(<<s.block, s.time, s.tx>>, <<r.block, r.time, r.tx>>)
                    ELSE After(<<s.time, s.block, s.tx>>, <<r.time, r.block, r.tx>>)
ScanOrder(rows, byBlock) ==
    InOrder(DOMAIN rows, LAMBDA i, j : \/ ScanBefore(rows[i].row, rows[j].row, byBlock)
                                       \/ ~ScanBefore(rows[j].row, rows[i].row, byBlock) /\ i < j)

Known(rows) == {p \in Parties : \E i \in DOMAIN rows : rows[i].row.party = p /\ "lookalike_known" \in rows[i].flags}

(* Trust: 0 none, 1 it sent a real amount, 2 the owner paid it.             *)
NoTrust == [p \in Parties |-> 0]
Resembles(p, trust, level) == p \in Parties /\ \E q \in Parties : trust[q] >= level /\ Lookalike(p, q)
Suspect(r, trust) == r.party \in Parties /\ trust[r.party] # 2 /\ Resembles(r.party, trust, 1)
ByItself(r) ==
    {f \in {"failed", "counterfeit_token", "zero_value", "dust"} :
        \/ f = "failed" /\ r.dir = "out" /\ r.failed
        \/ f = "counterfeit_token" /\ r.tier = "counterfeit"
        \/ f = "zero_value" /\ Genuine(r) /\ r.value = 0
        \/ f = "dust" /\ r.dir = "in" /\ Genuine(r) /\ r.value = Dust}
BySuspicion(r, trust) ==
    IF ~Suspect(r, trust) THEN {}
    ELSE IF r.dir = "in" \/ r.tier = "counterfeit" \/ (Genuine(r) /\ r.value = 0) THEN {"lookalike"}
    ELSE IF Positive(r) THEN {"sent_to_lookalike"} ELSE {}
ByCorpus(r, known) ==
    IF r.party \notin known THEN {}
    ELSE {"lookalike_known"} \cup IF r.dir = "out" /\ Positive(r) THEN {"sent_to_lookalike"} ELSE {}
Kept(flags) == flags \cap {"counterparty_listed", "counterfeit_deployer"}

Trusting(r, known) == Genuine(r) /\ r.value = Real /\ r.party \in Parties /\ r.party \notin known
BugMayTrust(r, trust) == TRUE
MayTrust(r, trust) == ~Resembles(r.party, trust, 2)
Learnt(s, r, tainted, known) ==
    IF Trusting(r, known) /\ r.dir = "in" /\ r.party \notin tainted /\ s.trust[r.party] < 1
    THEN [trust |-> [s.trust EXCEPT ![r.party] = 1], tainted |-> tainted]
    ELSE IF Trusting(r, known) /\ r.dir = "out" /\ MayTrust(r, s.trust)
    THEN [trust |-> [s.trust EXCEPT ![r.party] = 2], tainted |-> tainted \ {r.party}]
    ELSE [trust |-> s.trust, tainted |-> tainted]

(* What a row teaches, and the flags it gets from what was learnt before it. *)
Learn(s, x, known) ==
    LET tainted == IF BySuspicion(x.row, s.trust) = {} THEN s.tainted ELSE s.tainted \cup {x.row.party}
    IN  Learnt(s, x.row, tainted, known)
FlagsOf(x, trust, known) ==
    ByItself(x.row) \cup BySuspicion(x.row, trust) \cup ByCorpus(x.row, known) \cup Kept(x.flags)
Scan(rows, order, known) ==
    LET after[n \in 0..Len(rows)] == IF n = 0 THEN [trust |-> NoTrust, tainted |-> {}]
                                     ELSE Learn(after[n - 1], rows[order[n]], known)
    IN  after

(* applyFlags: the rows stay in their order.                                *)
PlaceOf(order, i) == CHOOSE k \in DOMAIN order : order[k] = i
WithScan(rows, order, known, scan) ==
    [i \in DOMAIN rows |-> Flagged(rows[i].row, FlagsOf(rows[i], scan[PlaceOf(order, i) - 1].trust, known))]
ApplyFlags(rows, byBlock) ==
    LET order == ScanOrder(rows, byBlock)
        known == Known(rows)
    IN  WithScan(rows, order, known, Scan(rows, order, known))

(* The newest genuine payment received, and one alert per transaction.      *)
IsLatest(x) == /\ x.row.dir = "in" /\ Genuine(x.row)
               /\ x.flags \cap {"zero_value", "dust"} = {}
LatestOf(rows) ==
    LET hits == Filter(rows, IsLatest) IN IF hits = <<>> THEN <<>> ELSE <<hits[1].row>>
Priority(flags) ==
    IF "counterfeit_token" \in flags THEN 3
    ELSE IF "sent_to_lookalike" \in flags THEN 2
    ELSE IF flags \cap {"lookalike", "lookalike_known"} # {} THEN 1 ELSE 0
InAlertWindow(r, now) == r.time = 0 \/ now - r.time <= AlertWindow
Alerts(rows, now) ==
    LET fresh == {i \in DOMAIN rows : InAlertWindow(rows[i].row, now) /\ Priority(rows[i].flags) > 0}
        top(x) == CHOOSE p \in 1..3 : /\ \E i \in fresh : rows[i].row.tx = x /\ Priority(rows[i].flags) = p
                                      /\ \A i \in fresh : rows[i].row.tx = x => Priority(rows[i].flags) <= p
    IN  {<<x, top(x)>> : x \in {rows[i].row.tx : i \in fresh}}
=============================================================================
