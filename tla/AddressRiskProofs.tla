--------------------------- MODULE AddressRiskProofs ---------------------------
(***************************************************************************)
(* Address Risk.  AddressRisk, for every list, history, number of requests  *)
(* and bound; and RiskLookup with BqProfile, for every number of addresses, *)
(* requests, tokens and endpoints, every world and every set of calls that  *)
(* fail: the ceiling on the jobs of an hour, that no lasting answer is paid *)
(* for twice, that a clean answer is true, and that what the cache keeps is *)
(* what a lookup without a failure says.                                    *)
(***************************************************************************)
EXTENDS AddressRisk, RiskLookup, FiniteSetTheorems, FunctionTheorems, TLAPS

-----------------------------------------------------------------------------
(* Facts about the operators.                                               *)

\* The days of a history of n days.
LEMMA OneToN ==
  ASSUME NEW n \in Nat
  PROVE  IsFiniteSet(1 .. n) /\ Cardinality(1 .. n) = n
<1>1. 1 \in Int /\ n \in Int OBVIOUS
<1>2. IsFiniteSet(1 .. n) /\ Cardinality(1 .. n) = IF 1 > n THEN 0 ELSE n - 1 + 1
  BY <1>1, FS_Interval
<1>3. (IF 1 > n THEN 0 ELSE n - 1 + 1) = n OBVIOUS
<1> QED BY <1>2, <1>3

LEMMA MinIsSmallest ==
  ASSUME NEW S \in SUBSET Nat, S # {}
  PROVE  Min(S) \in S /\ \A y \in S : Min(S) <= y
<1> DEFINE Upto(n) == S \cap (0 .. n)
<1> DEFINE T == {Upto(n) : n \in S}
<1>1. IsWellFoundedOn(StrictSubsetOrdering(S), FiniteSubsetsOf(S))
  BY FS_StrictSubsetOrderingWellFounded
<1>2. \A n \in S : Upto(n) \in FiniteSubsetsOf(S)
  <2> TAKE n \in S
  <2>1. IsFiniteSet(0 .. n) BY FS_Interval
  <2>2. IsFiniteSet(Upto(n)) BY <2>1, FS_Intersection
  <2> QED BY <2>2 DEF FiniteSubsetsOf
<1>3. T \subseteq FiniteSubsetsOf(S) /\ T # {} BY <1>2
<1>4. PICK U \in T : \A V \in T : ~(<<V, U>> \in StrictSubsetOrdering(S))
  <2> HIDE DEF T
  <2> QED BY <1>1, <1>3, WFMin
<1>5. PICK x \in S : U = Upto(x) OBVIOUS
<1>6. ASSUME NEW y \in S PROVE x =< y
  <2> SUFFICES ASSUME y < x PROVE FALSE OBVIOUS
  <2>1. Upto(y) \in T /\ Upto(y) \subseteq S /\ Upto(x) \subseteq S OBVIOUS
  <2>2. Upto(y) \subseteq Upto(x) /\ x \in Upto(x) /\ x \notin Upto(y) OBVIOUS
  <2>3. <<Upto(y), U>> \in StrictSubsetOrdering(S)
    BY <1>5, <2>1, <2>2 DEF StrictSubsetOrdering
  <2> QED BY <1>4, <2>1, <2>3
<1> QED BY <1>6 DEF Min

LEMMA MaxOfTwo ==
  ASSUME NEW a \in Int, NEW b \in Int
  PROVE  Max({a, b}) = IF a >= b THEN a ELSE b
BY DEF Max

\* A merged payload is a finite set of known addresses.
LEMMA MergedType ==
  ASSUME NEW payload \in Payloads
  PROVE  Merged(payload) \subseteq UNION Contents /\ IsFiniteSet(Merged(payload))
<1>1. IsFiniteSet(1 .. Files) BY ListsAssumption, FS_Interval
<1>2. payload \in [1 .. Files -> Contents] BY DEF Payloads
<1>3. payload \in Surjection(1 .. Files, Range(payload)) BY <1>2, Fun_RangeProperties
<1>4. IsFiniteSet(Range(payload)) BY <1>1, <1>3, FS_Surjection
<1>5. Range(payload) = {payload[i] : i \in DOMAIN payload} BY DEF Range
<1>6. \A T \in Range(payload) : T \in Contents BY <1>2, <1>5
<1>7. \A T \in Range(payload) : IsFiniteSet(T) BY <1>6, ListsAssumption
<1>8. IsFiniteSet(UNION Range(payload)) BY <1>4, <1>7, FS_UNION
<1> QED BY <1>5, <1>6, <1>8 DEF Merged

LEMMA BatchSets ==
  ASSUME NEW bs \in SUBSET (0 .. Years)
  PROVE  /\ IsFiniteSet(bs \cap {0}) /\ IsFiniteSet(bs \ {0})
         /\ Cardinality(bs \cap {0}) \in Nat /\ Cardinality(bs \ {0}) \in Nat
         /\ SizeOf(bs) = Cardinality(bs \cap {0}) + 10 * Cardinality(bs \ {0})
         /\ SizeOf(bs) \in Nat
<1>1. IsFiniteSet(0 .. Years) BY BackfillAssumption, FS_Interval
<1>2. bs \cap {0} \in SUBSET (0 .. Years) /\ bs \ {0} \in SUBSET (0 .. Years) OBVIOUS
<1>3. IsFiniteSet(bs \cap {0}) /\ IsFiniteSet(bs \ {0}) BY <1>1, <1>2, FS_Subset
<1>4. Cardinality(bs \cap {0}) \in Nat /\ Cardinality(bs \ {0}) \in Nat
  BY <1>3, FS_CardinalityType
<1>5. SizeOf(bs) = Cardinality(bs \cap {0}) + 10 * Cardinality(bs \ {0})
  BY <1>4 DEF SizeOf, Bytes
<1> QED BY <1>3, <1>4, <1>5

\* Taking a batch from a set of batches takes its bytes from the size.
LEMMA SizeWithout ==
  ASSUME NEW bs \in SUBSET (0 .. Years), NEW b \in bs
  PROVE  SizeOf(bs \ {b}) = SizeOf(bs) - Bytes(b) /\ Bytes(b) <= SizeOf(bs)
<1> DEFINE rest == bs \ {b}
<1>1. rest \in SUBSET (0 .. Years) OBVIOUS
<1>2. /\ SizeOf(rest) = Cardinality(rest \cap {0}) + 10 * Cardinality(rest \ {0})
      /\ SizeOf(rest) \in Nat /\ Cardinality(rest \ {0}) \in Nat
      /\ Cardinality(rest \cap {0}) \in Nat
  <2> HIDE DEF rest
  <2> QED BY <1>1, BatchSets
<1>0. /\ SizeOf(bs) = Cardinality(bs \cap {0}) + 10 * Cardinality(bs \ {0})
      /\ SizeOf(bs) \in Nat /\ Cardinality(bs \ {0}) \in Nat
      /\ Cardinality(bs \cap {0}) \in Nat
      /\ IsFiniteSet(bs \cap {0}) /\ IsFiniteSet(bs \ {0})
  BY BatchSets
<1>3. CASE b = 0
  <2>1. rest \cap {0} = (bs \cap {0}) \ {0} /\ rest \ {0} = bs \ {0} BY <1>3
  <2>2. Cardinality((bs \cap {0}) \ {0}) = Cardinality(bs \cap {0}) - 1
    BY <1>3, <1>0, FS_RemoveElement
  <2>3. Bytes(b) = 1 BY <1>3 DEF Bytes
  <2>4. /\ Cardinality(rest \cap {0}) = Cardinality((bs \cap {0}) \ {0})
        /\ Cardinality(rest \ {0}) = Cardinality(bs \ {0})
    BY <2>1, Zenon
  <2>5. SizeOf(rest) = SizeOf(bs) - 1
    <3> HIDE DEF rest
    <3> QED BY <1>0, <1>2, <2>2, <2>4
  <2> QED BY <1>0, <1>2, <2>3, <2>5
<1>4. CASE b # 0
  <2>1. rest \cap {0} = bs \cap {0} /\ rest \ {0} = (bs \ {0}) \ {b} BY <1>4
  <2>2. Cardinality((bs \ {0}) \ {b}) = Cardinality(bs \ {0}) - 1
    BY <1>4, <1>0, FS_RemoveElement
  <2>3. Bytes(b) = 10 BY <1>4 DEF Bytes
  <2>4. /\ Cardinality(rest \cap {0}) = Cardinality(bs \cap {0})
        /\ Cardinality(rest \ {0}) = Cardinality((bs \ {0}) \ {b})
    BY <2>1, Zenon
  <2>5. SizeOf(rest) = SizeOf(bs) - 10
    <3> HIDE DEF rest
    <3> QED BY <1>0, <1>2, <2>2, <2>4
  <2> QED BY <1>0, <1>2, <2>3, <2>5
<1> QED BY <1>3, <1>4

LEMMA BatchesType ==
  ASSUME stored \in 0 .. Years, NEW force \in BOOLEAN
  PROVE  Batches(force) \in SUBSET (0 .. Years)
BY BackfillAssumption DEF Batches

-----------------------------------------------------------------------------
(* The label list.                                                          *)

LEMMA ListDecide == ListInv /\ Decide => ListInv'
<1> SUFFICES ASSUME ListInv, Decide PROVE ListInv' OBVIOUS
<1>1. fetched \in Payloads
  BY DEF ListInv, ListTypeOK, Decide, Payloads
<1>2. Merged(fetched) \subseteq UNION Contents /\ IsFiniteSet(Merged(fetched))
  BY <1>1, MergedType
<1>3. list' \subseteq UNION Contents /\ IsFiniteSet(list')
  BY <1>2 DEF ListInv, ListTypeOK, Decide
<1>4. /\ contentHash' \in {None} \cup Payloads /\ pendingHash' \in {None} \cup Payloads
      /\ previous' = fetched /\ pendingHash' \in {None, fetched}
  BY <1>1 DEF ListInv, ListTypeOK, Decide, Unchanged, PendingOf
<1>5. sinceOk' \in {0, sinceOk} /\ lpc' \in {"idle", "invalidate"}
  BY DEF Decide, Unchanged
<1>6. sinceOk' \in 0 .. Every BY <1>5, ListsAssumption DEF ListInv, ListTypeOK
<1> QED BY <1>1, <1>3, <1>4, <1>5, <1>6 DEF ListInv, ListTypeOK, Decide

LEMMA ListFetch == ListInv /\ FetchFile => ListInv'
<1> SUFFICES ASSUME ListInv, FetchFile PROVE ListInv' OBVIOUS
<1>1. upstream \in [1 .. Files -> Contents] /\ fetched \in Seq(Contents)
      /\ Len(fetched) < Files /\ Len(fetched) \in Nat
  BY DEF ListInv, ListTypeOK, FetchFile, Payloads
<1>2. upstream[Len(fetched) + 1] \in Contents BY <1>1, ListsAssumption
<1>3. fetched' \in Seq(Contents) /\ Len(fetched') = Len(fetched) + 1
  BY <1>1, <1>2 DEF FetchFile
<1> QED BY <1>1, <1>3, ListsAssumption DEF ListInv, ListTypeOK, FetchFile

LEMMA ListTicks == ListInv /\ (ListTick \/ FetchFails \/ ListChanged) => ListInv'
<1> SUFFICES ASSUME ListInv, ListTick \/ FetchFails \/ ListChanged PROVE ListInv' OBVIOUS
<1>1. None \in Seq(Contents) /\ Len(None) = 0 BY DEF None
<1>2. CASE ListTick
  <2>1. sinceOk' \in 0 .. Every /\ lpc' \in {"idle", "fetch"}
    BY <1>2, ListsAssumption DEF ListInv, ListTypeOK, ListTick
  <2>2. fetched' \in Seq(Contents) /\ Len(fetched') = 0 BY <1>1, <1>2 DEF ListTick
  <2> QED BY <1>2, <2>1, <2>2, ListsAssumption DEF ListInv, ListTypeOK, ListTick
<1>3. CASE FetchFails \/ ListChanged
  BY <1>3 DEF ListInv, ListTypeOK, FetchFails, ListChanged
<1> QED BY <1>2, <1>3

LEMMA ListOther == ListInv /\ (UpstreamChanges \/ ListCrash) => ListInv'
<1>1. ASSUME ListInv, UpstreamChanges PROVE ListInv'
  <2>1. upstream' \in Payloads
    BY <1>1 DEF ListInv, ListTypeOK, UpstreamChanges, Payloads
  <2> QED BY <1>1, <2>1 DEF ListInv, ListTypeOK, UpstreamChanges
<1>2. ListInv /\ ListCrash => ListInv'
  BY ListsAssumption DEF ListInv, ListTypeOK, ListCrash
<1> QED BY <1>1, <1>2

\* Only an accepted payload changes the list.
LEMMA ListShrinks ==
  ASSUME ListInv, Decide, list' # list,
         list' = {} \/ (Cardinality(list) >= GuardRows /\ Cardinality(list') * 2 < Cardinality(list))
  PROVE  list' # {} /\ previous = fetched
<1>1. list' = Merged(fetched) /\ Accepted(fetched) BY DEF Decide
<1>2. TooFew(Merged(fetched)) BY <1>1 DEF TooFew
<1>3. Merged(fetched) # {} /\ pendingHash # None /\ pendingHash = fetched
  BY <1>1, <1>2 DEF Accepted
<1> QED BY <1>1, <1>3 DEF ListInv

-----------------------------------------------------------------------------
(* The backfill.                                                            *)

LEMMA DefaultsType ==
  NoPlan \in Plans /\ NoRun \in Runs /\ NoReq \in Reqs
<1>1. NoPlan \in Plans BY BackfillAssumption DEF NoPlan, Plans
<1>2. NoRun \in Runs BY DEF NoRun, Runs
<1>3. NoReq \in Reqs BY BackfillAssumption DEF NoReq, Reqs, Metas, Statuses, Answers
<1> QED BY <1>1, <1>2, <1>3

\* What the store says of itself.
LEMMA EventsType ==
  ASSUME BackfillInv
  PROVE  /\ Events \in 0 .. Years /\ Full \in BOOLEAN
         /\ ~everLost => Events = stored
<1>1. stored \in 0 .. Years /\ lost \in SUBSET (1 .. stored) /\ Years \in Nat
  BY BackfillAssumption DEF BackfillInv, BackfillTypeOK
<1>2. IsFiniteSet(1 .. stored) /\ Cardinality(1 .. stored) = stored BY <1>1, OneToN
<1>3. IsFiniteSet(lost) /\ Cardinality(lost) <= stored BY <1>1, <1>2, FS_Subset
<1>4. Cardinality(lost) \in Nat BY <1>3, FS_CardinalityType
<1>5. ~everLost => Cardinality(lost) = 0 BY FS_EmptySet DEF BackfillInv, StatusesTrue
<1> QED BY <1>1, <1>3, <1>4, <1>5 DEF Events, Full

\* A step of one request, to a place and an answer that are true to the store.
LEMMA RequestStep ==
  ASSUME BackfillInv, NEW r \in Requests, NEW q \in Reqs,
         req' = [req EXCEPT ![r] = q],
         q.answer = "corrupted" => everLost,
         q.answer = "completed" => Full,
         q.pc = "counts" => MetaTrue(q.meta),
         UNCHANGED <<stored, gap, lost, everLost, meta, plan, issued, started, running, g, cli>>
  PROVE  BackfillInv'
<1>1. req \in [Requests -> Reqs] BY DEF BackfillInv, BackfillTypeOK
<1>2. req' \in [Requests -> Reqs] /\ req'[r] = q /\ \A s \in Requests \ {r} : req'[s] = req[s]
  BY <1>1
<1>3. BackfillTypeOK' BY <1>2 DEF BackfillInv, BackfillTypeOK
<1>4. TokensNew' /\ WithinMax' /\ BilledWithinConfirmed'
  BY DEF BackfillInv, TokensNew, WithinMax, BilledWithinConfirmed, SizeOf
<1>5. \A mt : MetaTrue(mt) <=> MetaTrue(mt)' BY DEF MetaTrue, Full
<1>6. \A s \in Requests : req'[s].pc = "counts" => MetaTrue(req'[s].meta)
  BY <1>2 DEF BackfillInv, StatusesTrue
<1>7. \A s \in Requests : /\ req'[s].answer = "corrupted" => everLost
                          /\ req'[s].answer = "completed" => Full
  BY <1>2 DEF BackfillInv, StatusTrue
<1>8. StatusTrue' BY <1>7 DEF StatusTrue, Full
<1>9. StatusesTrue'
  BY <1>6 DEF BackfillInv, StatusesTrue, MetaTrue, Full
<1> QED BY <1>3, <1>4, <1>8, <1>9 DEF BackfillInv

\* A step that leaves the requests alone and the store as full as it was.
LEMMA StoreGrows ==
  ASSUME BackfillInv, stored' \in 0 .. Years, stored <= stored',
         everLost => everLost', req' = req
  PROVE  /\ StatusTrue'
         /\ \A r \in Requests : req'[r].pc = "counts" => MetaTrue(req[r].meta)'
<1>1. stored \in 0 .. Years /\ req \in [Requests -> Reqs] /\ Years \in Nat
  BY BackfillAssumption DEF BackfillInv, BackfillTypeOK
<1>2. Full => Full' BY <1>1 DEF Full
<1>3. StatusTrue' BY <1>2 DEF BackfillInv, StatusTrue
<1>4. ASSUME NEW r \in Requests, req[r].pc = "counts" PROVE MetaTrue(req[r].meta)'
  <2>1. MetaTrue(req[r].meta) BY <1>4 DEF BackfillInv, StatusesTrue
  <2>2. req[r].meta.events \in 0 .. Years BY <1>1 DEF Reqs, Metas
  <2> QED BY <1>1, <1>2, <2>1, <2>2 DEF MetaTrue
<1> QED BY <1>3, <1>4

LEMMA AskStep == ASSUME BackfillInv, NEW r \in Requests, AskEstimate(r) PROVE BackfillInv'
<1>1. PICK force \in BOOLEAN :
        req' = [req EXCEPT ![r] = [NoReq EXCEPT !.pc = "estimate", !.force = ForceRepair(force)]]
  BY DEF AskEstimate
<1>2. ForceRepair(force) \in BOOLEAN BY DEF ForceRepair
<1> DEFINE q == [NoReq EXCEPT !.pc = "estimate", !.force = ForceRepair(force)]
<1>3. q \in Reqs /\ q.answer = "none" /\ q.pc = "estimate"
  BY <1>2, DefaultsType DEF NoReq, Reqs
<1> QED BY <1>1, <1>3, RequestStep DEF AskEstimate

LEMMA EstimateStep == ASSUME BackfillInv, NEW r \in Requests, Estimate(r) PROVE BackfillInv'
<1> DEFINE q == [req[r] EXCEPT !.pc = "keep", !.size = SizeOf(Batches(req[r].force))]
<1>1. req \in [Requests -> Reqs] /\ req[r] \in Reqs /\ req[r].force \in BOOLEAN
  BY DEF BackfillInv, BackfillTypeOK, Reqs
<1>2. SizeOf(Batches(req[r].force)) \in Nat
  BY <1>1, BatchesType, BatchSets DEF BackfillInv, BackfillTypeOK
<1>3. q \in Reqs /\ q.pc = "keep" /\ q.answer = req[r].answer
  BY <1>1, <1>2 DEF Reqs
<1>4. req' = [req EXCEPT ![r] = q] BY <1>1 DEF Estimate
<1> QED BY <1>3, <1>4, RequestStep DEF Estimate, BackfillInv, StatusTrue

LEMMA BackToIdle ==
  ASSUME BackfillInv, NEW r \in Requests, EstimateFails(r) \/ GetDone(r) PROVE BackfillInv'
<1>1. NoReq \in Reqs /\ NoReq.answer = "none" /\ NoReq.pc = "idle" BY DefaultsType DEF NoReq
<1> QED BY <1>1, RequestStep DEF EstimateFails, GetDone

LEMMA GetFlagStep == ASSUME BackfillInv, NEW r \in Requests, GetFlag(r) PROVE BackfillInv'
<1> DEFINE q == [NoReq EXCEPT !.pc = "meta", !.flag = running]
<1>1. q \in Reqs /\ q.answer = "none" /\ q.pc = "meta"
  BY DefaultsType DEF NoReq, Reqs, BackfillInv, BackfillTypeOK
<1> QED BY <1>1, RequestStep DEF GetFlag

\* An answer says "corrupted" or "completed" only of metadata that is true.
LEMMA AnswerTrue ==
  ASSUME BackfillInv, NEW mt \in Metas, MetaTrue(mt), NEW flag \in BOOLEAN
  PROVE  /\ StatusOf(mt, Full, Events, flag) \in Answers
         /\ StatusOf(mt, Full, Events, flag) = "corrupted" => everLost
         /\ StatusOf(mt, Full, Events, flag) = "completed" => Full
<1>1. /\ stored \in 0 .. Years /\ Years \in Nat \ {0} /\ everLost \in BOOLEAN
      /\ mt.status \in Statuses /\ mt.events \in 0 .. Years
  BY BackfillAssumption DEF BackfillInv, BackfillTypeOK, Metas
<1>2. Events \in 0 .. Years /\ Full \in BOOLEAN /\ (~everLost => Events = stored)
  BY EventsType
<1>3. (mt.status = "completed" => Full) /\ (~everLost => mt.events <= stored)
      /\ (Full => stored = Years)
  BY DEF MetaTrue, Full
<1>4. CASE flag BY <1>4 DEF StatusOf, Answers, Statuses
<1>5. CASE ~flag /\ mt.status = "idle" BY <1>1, <1>2, <1>3, <1>5 DEF StatusOf, Answers, Statuses
<1>6. CASE ~flag /\ mt.status # "idle"
  BY <1>1, <1>2, <1>3, <1>6 DEF StatusOf, Answers, Statuses
<1> QED BY <1>4, <1>5, <1>6

LEMMA GetReadStep == ASSUME BackfillInv, NEW r \in Requests, GetRead(r) PROVE BackfillInv'
<1>1. req \in [Requests -> Reqs] /\ req[r] \in Reqs /\ meta \in Metas
  BY DEF BackfillInv, BackfillTypeOK
<1>2. Events \in 0 .. Years /\ Full \in BOOLEAN BY EventsType
<1>3. UNCHANGED <<stored, gap, lost, everLost, meta, plan, issued, started, running, g, cli>>
  BY DEF GetRead
<1>4. CASE req[r].pc = "meta"
  <2> DEFINE q == [req[r] EXCEPT !.meta = meta, !.pc = "counts"]
  <2>1. q \in Reqs /\ q.pc = "counts" /\ q.answer = req[r].answer /\ q.meta = meta
    BY <1>1 DEF Reqs
  <2>2. req' = [req EXCEPT ![r] = q] BY <1>1, <1>4 DEF GetRead, ReadBy, Reqs
  <2>3. MetaTrue(meta) BY DEF BackfillInv, StatusesTrue
  <2>4. /\ req[r].answer = "corrupted" => everLost
        /\ req[r].answer = "completed" => Full
    BY DEF BackfillInv, StatusTrue
  <2> HIDE DEF q
  <2>5. /\ q.answer = "corrupted" => everLost
        /\ q.answer = "completed" => Full
        /\ q.pc = "counts" => MetaTrue(q.meta)
    BY <2>1, <2>3, <2>4
  <2> QED BY <2>1, <2>2, <2>5, <1>3, RequestStep
<1>5. CASE req[r].pc = "counts"
  <2> DEFINE a == StatusOf(req[r].meta, Full, Events, req[r].flag)
             q == [NoReq EXCEPT !.pc = "answered", !.answer = a]
  <2>1. req[r].meta \in Metas /\ req[r].flag \in BOOLEAN BY <1>1 DEF Reqs
  <2>2. MetaTrue(req[r].meta) BY <1>5 DEF BackfillInv, StatusesTrue
  <2>3. a \in Answers /\ (a = "corrupted" => everLost) /\ (a = "completed" => Full)
    BY <2>1, <2>2, AnswerTrue
  <2>4. req' = [req EXCEPT ![r] = q] BY <1>1, <1>5 DEF GetRead, ReadBy, Reqs
  <2> HIDE DEF a
  <2>5. q \in Reqs /\ q.pc = "answered" /\ q.answer = a
    BY <2>3, DefaultsType DEF NoReq, Reqs
  <2> HIDE DEF q
  <2>6. /\ q.answer = "corrupted" => everLost
        /\ q.answer = "completed" => Full
        /\ q.pc = "counts" => MetaTrue(q.meta)
    BY <2>3, <2>5
  <2> QED BY <2>4, <2>5, <2>6, <1>3, RequestStep
<1> QED BY <1>4, <1>5 DEF GetRead

\* A step of neither the requests nor the store: the plan, the flag, the runs, the metadata.
LEMMA QuietStep ==
  ASSUME BackfillInv, UNCHANGED <<stored, lost, everLost, req>>,
         gap' \in BOOLEAN, meta' \in Metas, plan' \in Plans, issued' \in Nat,
         plan'.token <= issued', started' \subseteq 1 .. issued', running' \in BOOLEAN,
         g' \in Runs, cli' \in Runs, MetaTrue(meta'),
         TokensNew', WithinMax', BilledWithinConfirmed'
  PROVE  BackfillInv'
<1>1. BackfillTypeOK' BY DEF BackfillInv, BackfillTypeOK
<1>2. StatusTrue' /\ \A r \in Requests : req'[r].pc = "counts" => MetaTrue(req[r].meta)'
  BY StoreGrows, BackfillAssumption DEF BackfillInv, BackfillTypeOK
<1>3. StatusesTrue' BY <1>2 DEF BackfillInv, StatusesTrue, MetaTrue, Full
<1> QED BY <1>1, <1>2, <1>3 DEF BackfillInv

\* The same, when neither run moves.
LEMMA PlanStep ==
  ASSUME BackfillInv, UNCHANGED <<stored, lost, everLost, req, meta, g, cli, running>>,
         gap' \in BOOLEAN, plan' \in Plans, issued' \in Nat, plan'.token <= issued',
         started' \subseteq 1 .. issued', plan'.token \notin started'
  PROVE  BackfillInv'
<1>1. TokensNew' BY DEF BackfillInv, TokensNew
<1>2. WithinMax' /\ BilledWithinConfirmed'
  BY DEF BackfillInv, WithinMax, BilledWithinConfirmed, SizeOf
<1>3. MetaTrue(meta') BY DEF BackfillInv, StatusesTrue
<1> QED BY <1>1, <1>2, <1>3, QuietStep DEF BackfillInv, BackfillTypeOK

LEMMA KeepPlanStep == ASSUME BackfillInv, NEW r \in Requests, KeepPlan(r) PROVE BackfillInv'
<1>1. /\ req \in [Requests -> Reqs] /\ plan \in Plans /\ issued \in Nat /\ plan.token <= issued
      /\ started \subseteq 1 .. issued /\ running \in BOOLEAN /\ gap \in BOOLEAN
  BY DEF BackfillInv, BackfillTypeOK
<1>2. /\ req[r].force \in BOOLEAN /\ req[r].size \in Nat
  BY <1>1 DEF Reqs
<1>3. /\ plan' \in Plans /\ issued' \in Nat /\ plan'.token <= issued'
      /\ started \subseteq 1 .. issued' /\ plan'.token \notin started
  <2>1. CASE running BY <1>1, <2>1 DEF KeepPlan, BackfillInv, TokensNew
  <2>2. CASE ~running
    <3>1. issued' = issued + 1 /\ plan' = [token |-> issued + 1, force |-> req[r].force,
                                           size |-> req[r].size, age |-> 0]
      BY <2>2 DEF KeepPlan
    <3> QED BY <1>1, <1>2, <3>1, BackfillAssumption DEF Plans
  <2> QED BY <2>1, <2>2, <1>1
<1>4. /\ BackfillTypeOK' /\ TokensNew'
  <2>1. req' \in [Requests -> Reqs] BY <1>1, DefaultsType DEF KeepPlan
  <2> QED BY <1>3, <2>1 DEF KeepPlan, BackfillInv, BackfillTypeOK, TokensNew
<1>5. WithinMax' /\ BilledWithinConfirmed'
  BY DEF KeepPlan, BackfillInv, WithinMax, BilledWithinConfirmed, SizeOf
<1>6. \A s \in Requests : /\ req'[s].pc = "counts" => req'[s] = req[s]
                          /\ req'[s].answer # "none" => req'[s] = req[s]
  BY <1>1 DEF KeepPlan, NoReq
<1>7. StatusTrue' BY <1>6 DEF KeepPlan, BackfillInv, StatusTrue, Full
<1>8. StatusesTrue' BY <1>6 DEF KeepPlan, BackfillInv, StatusesTrue, MetaTrue, Full
<1> QED BY <1>4, <1>5, <1>7, <1>8 DEF BackfillInv

LEMMA QuietSteps ==
  ASSUME BackfillInv, PlanAges \/ DayEnds \/ SyncDay PROVE BackfillInv'
<1>1. CASE PlanAges
  <2>1. plan' \in Plans /\ plan'.token = plan.token
    BY <1>1, BackfillAssumption DEF PlanAges, BackfillInv, BackfillTypeOK, Plans
  <2> QED BY <1>1, <2>1, PlanStep DEF PlanAges, BackfillInv, BackfillTypeOK, TokensNew
<1>2. CASE DayEnds \/ SyncDay
  BY <1>2, PlanStep DEF DayEnds, SyncDay, BackfillInv, BackfillTypeOK, TokensNew
<1> QED BY <1>1, <1>2

\* A confirm takes a token that started nothing, while no run is under way.
LEMMA ConfirmStep ==
  ASSUME BackfillInv, NEW r \in Requests, Confirm(r)
  PROVE  /\ BackfillInv'
         /\ g.pc \in {"none", "invalidate"} /\ g'.token \notin started
<1>1. PICK token \in 1 .. issued, force \in BOOLEAN :
        /\ MayStart(token, force)
        /\ g' = [NoRun EXCEPT !.pc = "plan", !.force = ForceRepair(force), !.token = token,
                              !.max = MaxTotal(plan.size)]
        /\ started' = started \cup {token}
  BY DEF Confirm
<1>2. /\ plan \in Plans /\ issued \in Nat /\ started \subseteq 1 .. issued /\ g \in Runs
      /\ meta \in Metas /\ running \in BOOLEAN /\ gap \in BOOLEAN /\ cli \in Runs
  BY DEF BackfillInv, BackfillTypeOK
<1>3. token = plan.token /\ ~running BY <1>1 DEF MayStart
<1>4. token \notin started /\ token # 0 /\ token \in Nat /\ g.pc \in {"none", "invalidate"}
  BY <1>2, <1>3 DEF BackfillInv, TokensNew, Runs
<1>5. MaxTotal(plan.size) \in Nat /\ ForceRepair(force) \in BOOLEAN
  BY <1>2 DEF MaxTotal, Plans, ForceRepair
<1>6. g' \in Runs /\ g'.token = token /\ g'.pc = "plan" /\ g'.billed = 0 /\ g'.max \in Nat
  BY <1>1, <1>4, <1>5, DefaultsType DEF NoRun, Runs
<1>7. plan' = NoPlan /\ NoPlan \in Plans /\ NoPlan.token = 0 /\ running' = TRUE
  BY DefaultsType DEF Confirm, PlanAfter, NoPlan
<1>8. /\ meta' = [status |-> "running", events |-> Events]
      /\ UNCHANGED <<stored, gap, lost, everLost, issued, cli, req>>
  BY DEF Confirm
<1>9. meta' \in Metas /\ MetaTrue(meta')
  BY <1>8, EventsType DEF Metas, Statuses, MetaTrue, BackfillInv, BackfillTypeOK
<1>10. started' \subseteq 1 .. issued /\ 0 \notin started' BY <1>1, <1>2
<1>11. TokensNew' BY <1>6, <1>7, <1>10 DEF TokensNew
<1>12. WithinMax' /\ BilledWithinConfirmed'
  BY <1>4, <1>6, <1>8 DEF WithinMax, BilledWithinConfirmed, BackfillInv
<1>13. BackfillInv'
  BY <1>2, <1>6, <1>7, <1>8, <1>9, <1>10, <1>11, <1>12, QuietStep DEF BackfillInv, BackfillTypeOK
<1> QED BY <1>4, <1>6, <1>13

\* A run that plans: more than was confirmed, and it fails.
LEMMA PlannedRun ==
  ASSUME BackfillInv, NEW run \in Runs, run.billed = 0
  PROVE  /\ Planned(run) \in Runs /\ Planned(run).pc \in {"failed", "finish", "fetch"}
         /\ Planned(run).token = run.token /\ Planned(run).max = run.max
         /\ Planned(run).billed = 0
         /\ Planned(run).pc = "fetch" =>
              /\ Planned(run).todo # {}
              /\ run.token # 0 => SizeOf(Planned(run).todo) <= run.max
         /\ run.token = 0 => Planned(run).pc # "failed"
         /\ MetaPlanned(run) \in Metas /\ MetaTrue(MetaPlanned(run))
<1> DEFINE todo == Batches(run.force)
<1>1. todo \in SUBSET (0 .. Years) /\ SizeOf(todo) \in Nat
  BY BatchesType, BatchSets DEF BackfillInv, BackfillTypeOK, Runs
<1> DEFINE next == IF run.token # 0 /\ SizeOf(todo) > run.max THEN "failed"
                   ELSE IF todo = {} THEN "finish" ELSE "fetch"
<1>2. Planned(run) = [run EXCEPT !.todo = todo, !.pc = next] BY DEF Planned, Grew
<1> HIDE DEF todo
<1>3. /\ Planned(run) \in Runs /\ Planned(run).pc = next /\ Planned(run).todo = todo
      /\ Planned(run).token = run.token /\ Planned(run).max = run.max
      /\ Planned(run).billed = 0
  BY <1>1, <1>2 DEF Runs
<1>4. MetaPlanned(run) \in Metas /\ MetaTrue(MetaPlanned(run))
  BY BackfillAssumption DEF MetaPlanned, BackfillInv, BackfillTypeOK, StatusesTrue, MetaTrue, Metas, Statuses
<1>5. run.max \in Nat BY DEF Runs
<1> QED BY <1>1, <1>3, <1>4, <1>5

\* A run that stores its next batch.
LEMMA FetchedRun ==
  ASSUME BackfillInv, NEW run \in Runs, run.todo # {}
  PROVE  /\ Fetched(run) \in Runs /\ Fetched(run).pc \in {"finish", "fetch"}
         /\ Fetched(run).token = run.token /\ Fetched(run).max = run.max
         /\ Fetched(run).pc = "fetch" => Fetched(run).todo # {}
         /\ Fetched(run).billed + SizeOf(Fetched(run).todo) = run.billed + SizeOf(run.todo)
         /\ Fetched(run).billed <= run.billed + SizeOf(run.todo)
         /\ run.billed + Bytes(BatchOf(run)) <= run.billed + SizeOf(run.todo)
         /\ Bytes(BatchOf(run)) \in Nat
         /\ StoredAfter(run) \in 0 .. Years /\ stored <= StoredAfter(run)
         /\ LostAfter(run) \subseteq 1 .. StoredAfter(run)
         /\ MetaFetched(run) \in Metas /\ MetaFetched(run).status = "running"
         /\ MetaFetched(run).events <= StoredAfter(run)
<1> DEFINE b == BatchOf(run)
<1>1. run.todo \in SUBSET (0 .. Years) /\ run.billed \in Nat /\ Years \in Nat
  BY BackfillAssumption DEF Runs
<1>2. run.todo \in SUBSET Nat BY <1>1
<1>3. b \in run.todo BY <1>2, MinIsSmallest DEF BatchOf
<1>4. b \in 0 .. Years /\ Bytes(b) \in Nat BY <1>1, <1>3 DEF Bytes
<1>5. /\ SizeOf(run.todo \ {b}) = SizeOf(run.todo) - Bytes(b) /\ Bytes(b) <= SizeOf(run.todo)
      /\ SizeOf(run.todo) \in Nat
  BY <1>1, <1>3, SizeWithout, BatchSets
<1>6. Fetched(run) = [run EXCEPT !.todo = run.todo \ {b}, !.billed = run.billed + Bytes(b),
                                 !.pc = IF run.todo = {b} THEN "finish" ELSE "fetch"]
  BY DEF Fetched, Runs
<1>7. stored \in 0 .. Years /\ lost \in SUBSET (1 .. stored) BY DEF BackfillInv, BackfillTypeOK
<1>8. StoredAfter(run) = IF stored >= b THEN stored ELSE b
  BY <1>4, <1>7, MaxOfTwo DEF StoredAfter
<1>9. LostAfter(run) = lost \ {b} BY DEF LostAfter
<1> HIDE DEF b
<1>10. run.todo \ {b} \in SUBSET (0 .. Years) /\ (run.todo # {b} => run.todo \ {b} # {})
  BY <1>1, <1>3
<1>11. /\ Fetched(run) \in Runs /\ Fetched(run).todo = run.todo \ {b}
       /\ Fetched(run).billed = run.billed + Bytes(b)
       /\ Fetched(run).pc = IF run.todo = {b} THEN "finish" ELSE "fetch"
       /\ Fetched(run).token = run.token /\ Fetched(run).max = run.max
  <2> DEFINE next == IF run.todo = {b} THEN "finish" ELSE "fetch"
             rest == run.todo \ {b}
             sum == run.billed + Bytes(b)
  <2>1. next \in {"finish", "fetch"} /\ rest \in SUBSET (0 .. Years) /\ sum \in Nat
    BY <1>1, <1>4, <1>10
  <2>2. Fetched(run) = [run EXCEPT !.todo = rest, !.billed = sum, !.pc = next]
    BY <1>6
  <2> HIDE DEF next, rest, sum
  <2>3. /\ Fetched(run) \in Runs /\ Fetched(run).todo = rest
        /\ Fetched(run).billed = sum /\ Fetched(run).pc = next
        /\ Fetched(run).token = run.token /\ Fetched(run).max = run.max
    BY <2>1, <2>2 DEF Runs
  <2> QED BY <2>3 DEF next, rest, sum
<1>12. /\ StoredAfter(run) \in 0 .. Years /\ stored <= StoredAfter(run)
       /\ LostAfter(run) \in SUBSET (1 .. StoredAfter(run))
  <2>1. PICK n \in 0 .. Years : n = StoredAfter(run) BY <1>4, <1>7, <1>8
  <2>2. PICK m \in 0 .. Years : m = stored BY <1>7
  <2>3. m <= n BY <1>1, <1>4, <1>8, <2>1, <2>2
  <2>4. LostAfter(run) \in SUBSET (1 .. m) BY <1>7, <1>9, <2>2
  <2>5. 1 .. m \in SUBSET (1 .. n) BY <1>1, <2>3
  <2> QED BY <2>1, <2>2, <2>3, <2>4, <2>5
<1>13. Cardinality(LostAfter(run)) \in 0 .. StoredAfter(run)
  <2> DEFINE n == StoredAfter(run)
  <2>0. n \in Nat BY <1>1, <1>12
  <2> HIDE DEF n
  <2>1. n \in Nat /\ IsFiniteSet(1 .. n) /\ Cardinality(1 .. n) = n BY <2>0, OneToN
  <2>2. IsFiniteSet(LostAfter(run)) /\ Cardinality(LostAfter(run)) <= n
    BY <1>12, <2>1, FS_Subset DEF n
  <2> QED BY <2>1, <2>2, FS_CardinalityType DEF n
<1>14. /\ MetaFetched(run) \in Metas /\ MetaFetched(run).status = "running"
       /\ MetaFetched(run).events <= StoredAfter(run)
  BY <1>1, <1>12, <1>13 DEF MetaFetched, Metas, Statuses
<1>15. Fetched(run).billed + SizeOf(Fetched(run).todo) = run.billed + SizeOf(run.todo)
  BY <1>1, <1>4, <1>5, <1>11
<1> QED BY <1>1, <1>4, <1>5, <1>10, <1>11, <1>12, <1>14, <1>15 DEF b

\* What a run's steps leave to show: its own record and the metadata.
LEMMA RunStays ==
  ASSUME BackfillInv, NEW run \in Runs, run.pc = "fetch", run.todo # {},
         run.billed + SizeOf(run.todo) <= run.max
  PROVE  run.billed <= run.max
<1>1. SizeOf(run.todo) \in Nat /\ run.billed \in Nat /\ run.max \in Nat
  BY BatchSets DEF Runs
<1> QED BY <1>1

LEMMA RunPlanStep == ASSUME BackfillInv, RunPlan PROVE BackfillInv'
<1>1. g \in Runs /\ g.pc = "plan" /\ g.billed = 0 /\ g.token # 0 /\ g.max \in Nat
  BY DEF RunPlan, BackfillInv, BackfillTypeOK, WithinMax, Runs
<1>2. /\ Planned(g) \in Runs /\ Planned(g).pc \in {"failed", "finish", "fetch"}
      /\ Planned(g).token = g.token /\ Planned(g).max = g.max /\ Planned(g).billed = 0
      /\ Planned(g).pc = "fetch" =>
           Planned(g).todo # {} /\ SizeOf(Planned(g).todo) <= g.max
      /\ MetaPlanned(g) \in Metas /\ MetaTrue(MetaPlanned(g))
  BY <1>1, PlannedRun
<1>3. /\ g' = Planned(g) /\ meta' = MetaPlanned(g)
      /\ UNCHANGED <<stored, gap, lost, everLost, plan, issued, started, running, cli, req>>
  BY DEF RunPlan
<1>4. SizeOf(Planned(g).todo) \in Nat BY <1>2, BatchSets DEF Runs
<1>5. TokensNew' BY <1>1, <1>2, <1>3 DEF BackfillInv, TokensNew
<1>6. WithinMax' BY <1>1, <1>2, <1>3, <1>4 DEF BackfillInv, WithinMax, SizeOf
<1>7. BilledWithinConfirmed' BY <1>1, <1>2, <1>3 DEF BilledWithinConfirmed
<1> QED BY <1>2, <1>3, <1>5, <1>6, <1>7, QuietStep DEF BackfillInv, BackfillTypeOK

LEMMA RunEnds ==
  ASSUME BackfillInv, RunFails \/ RunSays \/ RunFrees \/ RunInvalidates PROVE BackfillInv'
<1>1. g \in Runs /\ g.max \in Nat /\ g.billed \in Nat /\ meta \in Metas
  BY DEF BackfillInv, BackfillTypeOK, Runs
<1>2. UNCHANGED <<stored, gap, lost, everLost, plan, issued, started, cli, req>>
  BY DEF RunFails, RunSays, RunFrees, RunInvalidates
<1>3. CASE RunFails
  <2> DEFINE more == IF g.pc = "fetch" THEN Bytes(BatchOf(g)) ELSE 0
  <2>1. more \in Nat /\ g.billed + more <= g.max
    <3>1. CASE g.pc = "fetch"
      <4>1. g.todo # {} /\ g.billed + SizeOf(g.todo) <= g.max
        BY <3>1 DEF BackfillInv, WithinMax
      <4>2. SizeOf(g.todo) \in Nat BY <1>1, BatchSets DEF Runs
      <4>3. /\ Bytes(BatchOf(g)) \in Nat
            /\ g.billed + Bytes(BatchOf(g)) <= g.billed + SizeOf(g.todo)
        BY <1>1, <4>1, FetchedRun
      <4> QED BY <1>1, <3>1, <4>1, <4>2, <4>3
    <3>2. CASE g.pc # "fetch" BY <1>1, <3>2 DEF BackfillInv, BilledWithinConfirmed
    <3> QED BY <3>1, <3>2
  <2> DEFINE sum == g.billed + more
  <2>2. g' = [g EXCEPT !.pc = "failed", !.billed = sum] /\ sum \in Nat
    BY <1>1, <1>3, <2>1 DEF RunFails, Runs
  <2> HIDE DEF more, sum
  <2>3. g' \in Runs /\ g'.pc = "failed" /\ g'.billed = sum /\ g'.max = g.max
        /\ g'.token = g.token
    BY <1>1, <2>2 DEF Runs
  <2>4. meta' = meta /\ running' = running /\ g.pc \in {"plan", "fetch"} BY <1>3 DEF RunFails
  <2>5. TokensNew' /\ WithinMax' /\ BilledWithinConfirmed'
    BY <1>2, <2>1, <2>3, <2>4 DEF sum, BackfillInv, TokensNew, WithinMax, BilledWithinConfirmed
  <2> QED BY <1>2, <2>3, <2>4, <2>5, QuietStep
          DEF BackfillInv, BackfillTypeOK, StatusesTrue
<1>4. CASE RunSays
  <2>1. g' = [g EXCEPT !.pc = "free"] /\ running' = running /\ g.pc \in {"failed", "finish"}
    BY <1>4 DEF RunSays
  <2>2. /\ g' \in Runs /\ g'.pc = "free" /\ g'.billed = g.billed /\ g'.max = g.max
        /\ g'.token = g.token
    BY <1>1, <2>1 DEF Runs
  <2>3. meta' \in Metas /\ MetaTrue(meta')
    BY <1>4, EventsType DEF RunSays, MetaFailed, MetaFinished, Metas, Statuses, MetaTrue
  <2>4. TokensNew' /\ WithinMax' /\ BilledWithinConfirmed'
    BY <1>2, <2>1, <2>2 DEF BackfillInv, TokensNew, WithinMax, BilledWithinConfirmed
  <2> QED BY <1>2, <2>1, <2>2, <2>3, <2>4, QuietStep DEF BackfillInv, BackfillTypeOK
<1>5. CASE RunFrees
  <2>1. g' = [g EXCEPT !.pc = "invalidate"] /\ running' = FALSE /\ g.pc = "free" /\ meta' = meta
    BY <1>5 DEF RunFrees
  <2>2. /\ g' \in Runs /\ g'.pc = "invalidate" /\ g'.billed = g.billed /\ g'.max = g.max
        /\ g'.token = g.token
    BY <1>1, <2>1 DEF Runs
  <2>3. TokensNew' /\ WithinMax' /\ BilledWithinConfirmed'
    BY <1>2, <2>1, <2>2 DEF BackfillInv, TokensNew, WithinMax, BilledWithinConfirmed
  <2> QED BY <1>2, <2>1, <2>2, <2>3, QuietStep DEF BackfillInv, BackfillTypeOK, StatusesTrue
<1>6. CASE RunInvalidates
  <2>1. g' = NoRun /\ running' = running /\ meta' = meta /\ g.pc = "invalidate"
    BY <1>6 DEF RunInvalidates
  <2>2. g' \in Runs /\ g'.pc = "none" /\ g'.billed = 0 /\ g'.max = 0
    BY <2>1, DefaultsType DEF NoRun
  <2>3. TokensNew' /\ WithinMax' /\ BilledWithinConfirmed'
    BY <1>2, <2>1, <2>2 DEF BackfillInv, TokensNew, WithinMax, BilledWithinConfirmed
  <2> QED BY <1>2, <2>1, <2>2, <2>3, QuietStep DEF BackfillInv, BackfillTypeOK, StatusesTrue
<1> QED BY <1>3, <1>4, <1>5, <1>6

\* A batch reaches the table, fetched by the server's run or by the CLI's.
LEMMA BatchStep ==
  ASSUME BackfillInv, NEW run \in Runs, run.todo # {},
         stored' = StoredAfter(run), lost' = LostAfter(run), meta' = MetaFetched(run),
         gap' \in BOOLEAN, g' \in Runs, cli' \in Runs, WithinMax', BilledWithinConfirmed',
         running <=> g'.pc \in {"plan", "fetch", "finish", "failed", "free"},
         UNCHANGED <<everLost, plan, issued, started, running, req>>
  PROVE  BackfillInv'
<1>1. /\ stored' \in 0 .. Years /\ stored <= stored' /\ lost' \subseteq 1 .. stored'
      /\ meta' \in Metas /\ meta'.status = "running" /\ meta'.events <= stored'
  BY FetchedRun
<1>2. BackfillTypeOK' BY <1>1 DEF BackfillInv, BackfillTypeOK
<1>3. TokensNew' BY DEF BackfillInv, TokensNew
<1>4. StatusTrue' /\ \A r \in Requests : req'[r].pc = "counts" => MetaTrue(req[r].meta)'
  BY <1>1, StoreGrows
<1>5. StatusesTrue'
  BY <1>1, <1>4 DEF BackfillInv, StatusesTrue, MetaTrue, Full, LostAfter
<1> QED BY <1>2, <1>3, <1>4, <1>5 DEF BackfillInv

LEMMA RunBatchStep == ASSUME BackfillInv, RunBatch PROVE BackfillInv'
<1>1. /\ g \in Runs /\ g.pc = "fetch" /\ g.todo # {} /\ g.token # 0 /\ g.max \in Nat
      /\ g.billed + SizeOf(g.todo) <= g.max /\ gap \in BOOLEAN /\ cli \in Runs
  BY DEF RunBatch, BackfillInv, BackfillTypeOK, WithinMax, Runs
<1>2. /\ Fetched(g) \in Runs /\ Fetched(g).pc \in {"finish", "fetch"}
      /\ Fetched(g).token = g.token /\ Fetched(g).max = g.max
      /\ Fetched(g).pc = "fetch" => Fetched(g).todo # {}
      /\ Fetched(g).billed + SizeOf(Fetched(g).todo) = g.billed + SizeOf(g.todo)
      /\ Fetched(g).billed <= g.billed + SizeOf(g.todo)
  BY <1>1, FetchedRun
<1>3. /\ g' = Fetched(g) /\ meta' = MetaFetched(g) /\ stored' = StoredAfter(g)
      /\ lost' = LostAfter(g) /\ gap' \in BOOLEAN
      /\ UNCHANGED <<everLost, plan, issued, started, running, cli, req>>
  BY <1>1 DEF RunBatch
<1>4. Fetched(g).billed \in Nat /\ g.billed + SizeOf(g.todo) \in Nat
  <2>1. SizeOf(g.todo) \in Nat /\ g.billed \in Nat BY <1>1, BatchSets DEF Runs
  <2>2. Fetched(g).billed \in Nat BY <1>2 DEF Runs
  <2> QED BY <2>1, <2>2
<1>5. WithinMax' BY <1>1, <1>2, <1>3 DEF BackfillInv, WithinMax, SizeOf
<1>6. BilledWithinConfirmed' BY <1>1, <1>2, <1>3, <1>4 DEF BilledWithinConfirmed
<1>7. running <=> g'.pc \in {"plan", "fetch", "finish", "failed", "free"}
  BY <1>1, <1>2, <1>3 DEF BackfillInv, TokensNew
<1> QED BY <1>1, <1>2, <1>3, <1>5, <1>6, <1>7, BatchStep

LEMMA CliSteps ==
  ASSUME BackfillInv, CliStart \/ CliBatch \/ CliSays \/ CliDies PROVE BackfillInv'
<1>1. /\ g \in Runs /\ cli \in Runs /\ gap \in BOOLEAN /\ meta \in Metas
      /\ NoRun \in Runs /\ NoRun.pc = "none" /\ NoRun.billed = 0 /\ NoRun.token = 0
  BY DefaultsType DEF BackfillInv, BackfillTypeOK, NoRun
<1>2. CASE CliBatch
  <2>1. cli.pc = "fetch" /\ cli.todo # {} BY <1>2 DEF CliBatch, BackfillInv, WithinMax
  <2>2. /\ Fetched(cli) \in Runs /\ Fetched(cli).pc \in {"finish", "fetch"}
        /\ Fetched(cli).pc = "fetch" => Fetched(cli).todo # {}
    BY <1>1, <2>1, FetchedRun
  <2>3. /\ cli' = Fetched(cli) /\ meta' = MetaFetched(cli) /\ stored' = StoredAfter(cli)
        /\ lost' = LostAfter(cli) /\ gap' \in BOOLEAN
        /\ UNCHANGED <<everLost, plan, issued, started, running, g, req>>
    BY <1>1, <1>2 DEF CliBatch
  <2>4. WithinMax' /\ BilledWithinConfirmed'
    BY <2>2, <2>3 DEF BackfillInv, WithinMax, BilledWithinConfirmed, SizeOf
  <2> QED BY <1>1, <2>1, <2>2, <2>3, <2>4, BatchStep DEF BackfillInv, TokensNew
<1>3. CASE CliStart \/ CliSays \/ CliDies
  <2>1. UNCHANGED <<stored, gap, lost, everLost, plan, issued, started, running, g, req>>
    BY <1>3 DEF CliStart, CliSays, CliDies
  <2>2. /\ cli' \in Runs /\ cli'.pc \in {"none", "fetch", "finish"}
        /\ cli'.pc = "fetch" => cli'.todo # {}
        /\ meta' \in Metas /\ MetaTrue(meta')
    <3>1. CASE CliStart BY <1>1, <3>1, PlannedRun DEF CliStart
    <3>2. CASE CliSays
      BY <1>1, <3>2, EventsType DEF CliSays, MetaFailed, MetaFinished, Metas, Statuses, MetaTrue
    <3>3. CASE CliDies BY <1>1, <3>3 DEF CliDies, BackfillInv, StatusesTrue
    <3> QED BY <1>3, <3>1, <3>2, <3>3
  <2>3. TokensNew' /\ WithinMax' /\ BilledWithinConfirmed'
    BY <2>1, <2>2 DEF BackfillInv, TokensNew, WithinMax, BilledWithinConfirmed, SizeOf
  <2> QED BY <1>1, <2>1, <2>2, <2>3, QuietStep DEF BackfillInv, BackfillTypeOK
<1> QED BY <1>2, <1>3

LEMMA RowsLostStep == ASSUME BackfillInv, RowsLost PROVE BackfillInv'
<1>1. /\ lost' \subseteq 1 .. stored /\ everLost' = TRUE
      /\ UNCHANGED <<stored, gap, meta, plan, issued, started, running, g, cli, req>>
  BY DEF RowsLost, BackfillInv, BackfillTypeOK
<1>2. BackfillTypeOK' BY <1>1 DEF BackfillInv, BackfillTypeOK
<1>3. TokensNew' /\ WithinMax' /\ BilledWithinConfirmed'
  BY <1>1 DEF BackfillInv, TokensNew, WithinMax, BilledWithinConfirmed, SizeOf
<1>4. StatusTrue' /\ \A r \in Requests : req'[r].pc = "counts" => MetaTrue(req[r].meta)'
  BY <1>1, StoreGrows, BackfillAssumption DEF BackfillInv, BackfillTypeOK
<1>5. StatusesTrue' BY <1>1, <1>4 DEF BackfillInv, StatusesTrue, MetaTrue, Full
<1> QED BY <1>2, <1>3, <1>4, <1>5 DEF BackfillInv

LEMMA BackfillCrashStep == ASSUME BackfillInv, BackfillCrash PROVE BackfillInv'
<1>1. /\ plan' = NoPlan /\ running' = FALSE /\ g' = NoRun
      /\ req' = [r \in Requests |-> NoReq]
      /\ UNCHANGED <<stored, gap, lost, everLost, meta, issued, started, cli>>
  BY DEF BackfillCrash
<1>2. /\ NoPlan.token = 0 /\ NoRun.pc = "none" /\ NoRun.billed = 0 /\ NoRun.max = 0
      /\ NoReq.pc = "idle" /\ NoReq.answer = "none"
  BY DEF NoPlan, NoRun, NoReq
<1>3. BackfillTypeOK'
  <2>1. req' \in [Requests -> Reqs] BY <1>1, DefaultsType
  <2>2. plan' \in Plans /\ g' \in Runs /\ plan'.token = 0 BY <1>1, <1>2, DefaultsType
  <2>3. /\ UNCHANGED <<stored, gap, lost, everLost, meta, issued, started, cli>>
        /\ running' \in BOOLEAN
    BY <1>1
  <2> QED BY <2>1, <2>2, <2>3 DEF BackfillInv, BackfillTypeOK
<1>4. TokensNew' BY <1>1, <1>2 DEF BackfillInv, BackfillTypeOK, TokensNew
<1>5. WithinMax' /\ BilledWithinConfirmed'
  BY <1>1, <1>2 DEF BackfillInv, WithinMax, BilledWithinConfirmed
<1>6. StatusTrue' /\ StatusesTrue'
  BY <1>1, <1>2 DEF BackfillInv, StatusTrue, StatusesTrue, MetaTrue, Full
<1> QED BY <1>3, <1>4, <1>5, <1>6 DEF BackfillInv

LEMMA BackfillInitHolds == BackfillInit => BackfillInv
<1> SUFFICES ASSUME BackfillInit PROVE BackfillInv OBVIOUS
<1>1. /\ NoPlan.token = 0 /\ NoRun.pc = "none" /\ NoRun.billed = 0 /\ NoRun.max = 0
      /\ NoReq.pc = "idle" /\ NoReq.answer = "none"
  BY DEF NoPlan, NoRun, NoReq
<1>2. meta \in Metas BY BackfillAssumption DEF BackfillInit, Metas, Statuses
<1>3. BackfillTypeOK
  <2>1. req \in [Requests -> Reqs] BY DefaultsType DEF BackfillInit
  <2>2. stored \in 0 .. Years BY BackfillAssumption DEF BackfillInit
  <2>3. plan \in Plans /\ g \in Runs /\ cli \in Runs /\ plan.token = 0
    BY <1>1, DefaultsType DEF BackfillInit
  <2>4. /\ lost \subseteq 1 .. stored /\ issued \in Nat /\ issued = 0 /\ gap \in BOOLEAN
        /\ everLost \in BOOLEAN /\ started \subseteq 1 .. issued /\ running \in BOOLEAN
    BY DEF BackfillInit
  <2> QED BY <1>2, <2>1, <2>2, <2>3, <2>4 DEF BackfillTypeOK
<1>4. TokensNew /\ WithinMax /\ BilledWithinConfirmed
  BY <1>1 DEF BackfillInit, TokensNew, WithinMax, BilledWithinConfirmed
<1>5. StatusTrue /\ StatusesTrue
  BY <1>1, BackfillAssumption DEF BackfillInit, StatusTrue, StatusesTrue, MetaTrue
<1> QED BY <1>3, <1>4, <1>5 DEF BackfillInv

-----------------------------------------------------------------------------
(* The service.                                                             *)

ViewTypes ==
  /\ overview \in [view: Views, age: -1 .. TTL + 1]
  /\ reader \in [Readers -> [pc: {"idle", "first", "second", "set"}, view: Views]]

\* What the lists and the overview take from a step of the backfill.
LEMMA BackfillMoves ==
  ASSUME BackfillInv, BackfillStep \/ (SyncDay /\ UNCHANGED <<overview, reader, left>>)
  PROVE  BackfillInv' /\ stored <= stored'
<1>1. stored \in Nat BY DEF BackfillInv, BackfillTypeOK
<1>2. CASE SyncDay
  <2>1. BackfillInv' BY <1>2, QuietSteps
  <2>2. stored' = stored BY <1>2 DEF SyncDay
  <2> QED BY <1>1, <2>1, <2>2
<1>3. ASSUME NEW r \in Requests,
             \/ AskEstimate(r) \/ Confirm(r) \/ GetFlag(r) \/ Estimate(r)
             \/ EstimateFails(r) \/ KeepPlan(r) \/ GetRead(r) \/ GetDone(r)
      PROVE  BackfillInv' /\ stored <= stored'
  <2>1. stored' = stored
    BY <1>3 DEF AskEstimate, Confirm, GetFlag, Estimate, EstimateFails, KeepPlan, GetRead, GetDone
  <2>2. BackfillInv'
    BY <1>3, AskStep, ConfirmStep, GetFlagStep, EstimateStep, BackToIdle, KeepPlanStep,
       GetReadStep
  <2> QED BY <1>1, <2>1, <2>2
<1>4. CASE CliStart \/ DayEnds \/ RowsLost \/ PlanAges \/ RunPlan \/ RunFails \/ RunSays
           \/ RunFrees \/ RunInvalidates \/ CliSays \/ CliDies
  <2>1. stored' = stored
    BY <1>4 DEF CliStart, DayEnds, RowsLost, PlanAges, RunPlan, RunFails, RunSays, RunFrees,
                RunInvalidates, CliSays, CliDies
  <2>2. BackfillInv'
    BY <1>4, CliSteps, QuietSteps, RowsLostStep, RunPlanStep, RunEnds
  <2> QED BY <1>1, <2>1, <2>2
<1>5. CASE RunBatch
  <2>1. g \in Runs /\ g.todo # {} /\ stored' = StoredAfter(g)
    BY <1>5 DEF RunBatch, BackfillInv, BackfillTypeOK, WithinMax
  <2> QED BY <1>5, <2>1, FetchedRun, RunBatchStep
<1>6. CASE CliBatch
  <2>1. cli \in Runs /\ cli.todo # {} /\ stored' = StoredAfter(cli)
    BY <1>6 DEF CliBatch, BackfillInv, BackfillTypeOK, WithinMax
  <2> QED BY <1>6, <2>1, FetchedRun, CliSteps
<1>7. CASE BackfillStep
  <2>1. \/ \E r \in Requests :
             \/ AskEstimate(r) \/ Confirm(r) \/ GetFlag(r) \/ Estimate(r)
             \/ EstimateFails(r) \/ KeepPlan(r) \/ GetRead(r) \/ GetDone(r)
        \/ CliStart \/ DayEnds \/ RowsLost \/ PlanAges \/ RunStep \/ RunInvalidates \/ CliStep
    BY <1>7, Zenon DEF BackfillStep
  <2> QED BY <1>3, <1>4, <1>5, <1>6, <2>1 DEF RunStep, CliStep
<1> QED BY <1>2, <1>7

LEMMA BackfillKept == ASSUME BackfillInv, UNCHANGED backfills PROVE BackfillInv'
BY DEF BackfillInv, BackfillTypeOK, TokensNew, WithinMax, BilledWithinConfirmed,
       StatusesTrue, StatusTrue, MetaTrue, Full, SizeOf, backfills

LEMMA ListKept ==
  ASSUME ListInv, UNCHANGED <<upstream, list, contentHash, pendingHash, sinceOk, fetched, previous>>,
         lpc' = lpc \/ lpc' = "invalidate"
  PROVE  ListInv'
BY DEF ListInv, ListTypeOK

\* The overview is left alone, or dropped, while the store fills up.
LEMMA ViewsKept ==
  ASSUME ViewTypes, ViewsTrue, stored \in Nat, stored' \in Nat, stored <= stored',
         reader' = reader, overview' = overview \/ overview' = NoOverview
  PROVE  ViewTypes' /\ ViewsTrue'
<1>1. NoOverview \in [view: Views, age: -1 .. TTL + 1] /\ NoOverview.view = NoView
  BY OverviewAssumption, BackfillAssumption DEF NoOverview, NoView, Views
<1>2. NoView.claimed <= NoView.events BY DEF NoView
<1>3. ViewTypes' BY <1>1 DEF ViewTypes
<1>4. ASSUME NEW r \in Readers, reader[r].pc = "second" PROVE reader[r].view.claimed <= stored'
  <2>1. reader[r].view.claimed \in Nat BY DEF ViewTypes, Views
  <2> QED BY <1>4, <2>1 DEF ViewsTrue
<1>5. ViewsTrue' BY <1>1, <1>2, <1>4 DEF ViewsTrue
<1> QED BY <1>3, <1>5

\* One request takes a step: the view it holds claims no more than the store has.
LEMMA ReaderStep ==
  ASSUME ViewTypes, ViewsTrue, stored' = stored, NEW r \in Readers,
         NEW q \in [pc: {"idle", "first", "second", "set"}, view: Views],
         reader' = [reader EXCEPT ![r] = q],
         q.pc = "second" => q.view.claimed <= stored,
         q.pc = "set" => q.view.claimed <= q.view.events,
         overview' \in [view: Views, age: -1 .. TTL + 1],
         overview'.view.claimed <= overview'.view.events
  PROVE  ViewTypes' /\ ViewsTrue'
<1>1. reader'[r] = q /\ \A s \in Readers \ {r} : reader'[s] = reader[s] BY DEF ViewTypes
<1>2. ViewTypes' BY DEF ViewTypes
<1> QED BY <1>1, <1>2 DEF ViewsTrue

LEMMA OverviewMoves ==
  ASSUME ViewTypes, ViewsTrue, ListInv, BackfillInv, OverviewStep
  PROVE  ViewTypes' /\ ViewsTrue'
<1> DEFINE Readings == [pc: {"idle", "first", "second", "set"}, view: Views]
           Overviews == [view: Views, age: -1 .. TTL + 1]
<1>1. NoOverview \in Overviews /\ NoOverview.view = NoView
  BY OverviewAssumption, BackfillAssumption DEF NoOverview, NoView, Views
<1>2. NoReader \in Readings /\ NoReader.pc = "idle" /\ NoView \in Views
      /\ NoView.claimed <= NoView.events
  BY BackfillAssumption DEF NoReader, NoView, Views
<1>3. stored \in 0 .. Years /\ Cardinality(list) \in Nat
  BY FS_CardinalityType DEF BackfillInv, BackfillTypeOK, ListInv, ListTypeOK
<1>4. stored' = stored BY DEF OverviewStep, backfills
<1>5. overview \in Overviews /\ overview.view.claimed <= overview.view.events BY DEF ViewTypes, ViewsTrue
<1>6. ASSUME NEW r \in Readers, Lookup(r) PROVE ViewTypes' /\ ViewsTrue'
  <2>1. CASE UNCHANGED <<overview, reader>>
    BY <1>3, <1>4, <2>1, ViewsKept
  <2>2. CASE overview' = NoOverview /\ reader' = [reader EXCEPT ![r] = [NoReader EXCEPT !.pc = "first"]]
    <3>1. [NoReader EXCEPT !.pc = "first"] \in Readings
          /\ [NoReader EXCEPT !.pc = "first"].pc = "first"
      BY <1>2 DEF NoReader
    <3> QED BY <1>1, <1>2, <1>4, <2>2, <3>1, ReaderStep
  <2> QED BY <1>6, <2>1, <2>2 DEF Lookup
<1>7. ASSUME NEW r \in Readers, Read(r) PROVE ViewTypes' /\ ViewsTrue'
  <2>1. reader \in [Readers -> Readings] /\ reader[r].view \in Views BY DEF ViewTypes
  <2>2. CASE reader[r].pc = "first"
    <3> DEFINE n == Cardinality(list)
               v == [reader[r].view EXCEPT !.rows = n, !.claimed = stored]
               q == [pc |-> "second", view |-> v]
    <3>2. reader' = [reader EXCEPT ![r] = q] /\ overview' = overview
      BY <1>7, <2>2 DEF Read, ReadAt
    <3>3. v \in Views /\ v.claimed = stored
      <4>1. n \in Nat BY <1>3
      <4> HIDE DEF n
      <4> QED BY <1>3, <2>1, <4>1 DEF Views
    <3>1. q \in Readings /\ q.pc = "second" /\ q.view.claimed <= stored
      <4> HIDE DEF v
      <4> QED BY <1>3, <3>3
    <3> HIDE DEF q
    <3> QED BY <1>4, <1>5, <3>1, <3>2, ReaderStep
  <2>3. CASE reader[r].pc = "second"
    <3> DEFINE q == [pc |-> "set", view |-> [reader[r].view EXCEPT !.events = stored]]
    <3>1. reader[r].view.claimed <= stored BY <2>3 DEF ViewsTrue
    <3>2. q \in Readings /\ q.pc = "set" /\ q.view.claimed <= q.view.events
      BY <1>3, <2>1, <3>1 DEF Views
    <3>3. reader' = [reader EXCEPT ![r] = q] /\ overview' = overview
      BY <1>7, <2>3 DEF Read, ReadAt
    <3> HIDE DEF q
    <3> QED BY <1>4, <1>5, <3>2, <3>3, ReaderStep
  <2> QED BY <1>7, <2>2, <2>3 DEF Read
<1>8. ASSUME NEW r \in Readers, SetEntry(r) PROVE ViewTypes' /\ ViewsTrue'
  <2>1. reader \in [Readers -> Readings] BY DEF ViewTypes
  <2>2. reader[r].view \in Views /\ reader[r].view.claimed <= reader[r].view.events
    BY <1>8, <2>1 DEF SetEntry, ViewsTrue
  <2>3. overview' = [view |-> reader[r].view, age |-> 0] /\ reader' = [reader EXCEPT ![r] = NoReader]
    BY <1>8 DEF SetEntry
  <2>4. overview' \in Overviews /\ overview'.view.claimed <= overview'.view.events
    BY <2>2, <2>3, OverviewAssumption
  <2> QED BY <1>2, <1>4, <2>3, <2>4, ReaderStep
<1>9. ASSUME NEW r \in Readers, ReadFails(r) PROVE ViewTypes' /\ ViewsTrue'
  <2>1. reader' = [reader EXCEPT ![r] = NoReader] /\ overview' = overview BY <1>9 DEF ReadFails
  <2> QED BY <1>2, <1>4, <1>5, <2>1, ReaderStep
<1>10. ASSUME Ages PROVE ViewTypes' /\ ViewsTrue'
  <2>1. reader' = reader /\ overview' = [overview EXCEPT !.age = @ + 1] /\ overview.age <= TTL
    BY <1>10 DEF Ages
  <2>2. overview' \in Overviews /\ overview'.view = overview.view
    BY <1>5, <2>1, OverviewAssumption
  <2> QED BY <1>4, <1>5, <2>1, <2>2 DEF ViewTypes, ViewsTrue
<1> QED BY <1>6, <1>7, <1>8, <1>9, <1>10 DEF OverviewStep

LEMMA NextHolds == IInv /\ [Next]_vars => IInv'
<1> SUFFICES ASSUME IInv, [Next]_vars PROVE IInv' OBVIOUS
<1>1. ListInv /\ BackfillInv /\ ViewTypes /\ ViewsTrue BY DEF IInv, TypeOK, ViewTypes
<1>2. stored \in Nat BY <1>1 DEF BackfillInv, BackfillTypeOK
<1>3. SUFFICES ListInv' /\ BackfillInv' /\ ViewTypes' /\ ViewsTrue'
  BY DEF IInv, TypeOK, ViewTypes, ListInv, BackfillInv
<1>4. BackfillInv' => stored' \in Nat BY DEF BackfillInv, BackfillTypeOK
<1>5. CASE ListsStep
  <2>1. ListInv'
    BY <1>1, <1>5, ListDecide, ListFetch, ListTicks, ListOther DEF ListsStep, ListJob
  <2>2. /\ UNCHANGED backfills /\ reader' = reader /\ (overview' = overview \/ overview' = NoOverview)
        /\ stored' = stored
    BY <1>5 DEF ListsStep, Invalidate, backfills
  <2> QED BY <1>1, <1>2, <2>1, <2>2, BackfillKept, ViewsKept
<1>6. CASE HourlySync
  <2>1. ListInv' BY <1>1, <1>6, ListKept DEF HourlySync
  <2>2. BackfillInv' /\ stored <= stored' BY <1>1, <1>6, BackfillMoves DEF HourlySync
  <2>3. reader' = reader /\ overview' = overview BY <1>6 DEF HourlySync
  <2> QED BY <1>1, <1>2, <1>4, <2>1, <2>2, <2>3, ViewsKept
<1>7. CASE BackfillStep
  <2>1. ListInv' BY <1>1, <1>7, ListKept DEF BackfillStep, lists
  <2>2. BackfillInv' /\ stored <= stored' BY <1>1, <1>7, BackfillMoves
  <2>3. reader' = reader /\ (overview' = overview \/ overview' = NoOverview)
    BY <1>7 DEF BackfillStep, Invalidate
  <2> QED BY <1>1, <1>2, <1>4, <2>1, <2>2, <2>3, ViewsKept
<1>8. CASE OverviewStep
  <2>1. ListInv' BY <1>1, <1>8, ListKept DEF OverviewStep, lists
  <2>2. BackfillInv' BY <1>1, <1>8, BackfillKept DEF OverviewStep
  <2> QED BY <1>1, <1>8, <2>1, <2>2, OverviewMoves
<1>9. CASE Crash
  <2>1. ListInv' BY <1>1, <1>9, ListOther DEF Crash
  <2>2. BackfillInv' BY <1>1, <1>9, BackfillCrashStep DEF Crash
  <2>3. overview' = NoOverview /\ reader' = [r \in Readers |-> NoReader]
    BY <1>9 DEF Crash, Invalidate
  <2>4. /\ NoOverview \in [view: Views, age: -1 .. TTL + 1]
        /\ NoReader \in [pc: {"idle", "first", "second", "set"}, view: Views]
        /\ NoOverview.view.claimed <= NoOverview.view.events /\ NoReader.pc = "idle"
    BY OverviewAssumption, BackfillAssumption DEF NoOverview, NoReader, NoView, Views
  <2>5. ViewTypes' BY <2>3, <2>4 DEF ViewTypes
  <2>6. ViewsTrue' BY <2>3, <2>4 DEF ViewsTrue
  <2> QED BY <2>1, <2>2, <2>5, <2>6
<1>10. CASE UNCHANGED vars
  <2>1. UNCHANGED lists /\ UNCHANGED backfills /\ overview' = overview /\ reader' = reader
        /\ stored' = stored
    BY <1>10 DEF vars, backfills
  <2>2. ListInv' BY <1>1, <2>1, ListKept DEF lists
  <2> QED BY <1>1, <1>2, <2>1, <2>2, BackfillKept, ViewsKept
<1> QED BY <1>5, <1>6, <1>7, <1>8, <1>9, <1>10 DEF Next

LEMMA InitHolds == Init => IInv
<1> SUFFICES ASSUME Init PROVE IInv OBVIOUS
<1>1. BackfillInv BY BackfillInitHolds DEF Init
<1>2. ListInv
  <2>1. None \in Seq(Contents) /\ Len(None) = 0 BY DEF None
  <2>2. IsFiniteSet({}) BY FS_EmptySet
  <2> QED BY <2>1, <2>2, ListsAssumption DEF Init, ListInit, ListInv, ListTypeOK
<1>3. /\ NoOverview \in [view: Views, age: -1 .. TTL + 1]
      /\ NoReader \in [pc: {"idle", "first", "second", "set"}, view: Views]
      /\ NoOverview.view.claimed <= NoOverview.view.events /\ NoReader.pc = "idle"
  BY OverviewAssumption, BackfillAssumption DEF NoOverview, NoReader, NoView, Views
<1>4. ViewTypes /\ ViewsTrue BY <1>3 DEF Init, ViewTypes, ViewsTrue
<1> QED BY <1>1, <1>2, <1>4 DEF IInv, TypeOK, ViewTypes, ListInv, BackfillInv

LEMMA Invariance == Spec => []IInv
BY InitHolds, NextHolds, PTL DEF Spec

\* Every variable of the service keeps its type, with any number of requests, files, batches.
THEOREM TypeCorrect == Spec => []TypeOK
<1>1. IInv => TypeOK BY DEF IInv
<1> QED BY <1>1, Invariance, PTL

\* One bad download, or a mixture of two versions of a list, never takes away more than half
\* of a guarded list nor the last row of any (decideListUpdate), for every source.
THEOREM ShrinkIsConfirmed == Spec => ShrinkConfirmed
<1>1. IInv /\ [Next]_vars =>
        [list' # list /\ (list' = {} \/ (Cardinality(list) >= GuardRows
                                          /\ Cardinality(list') * 2 < Cardinality(list)))
           => list' # {} /\ previous = fetched]_lists
  <2> SUFFICES ASSUME IInv, [Next]_vars, list' # list,
                      list' = {} \/ (Cardinality(list) >= GuardRows
                                      /\ Cardinality(list') * 2 < Cardinality(list))
               PROVE  list' # {} /\ previous = fetched
    OBVIOUS
  <2>1. Decide
    BY DEF Next, ListsStep, ListJob, ListTick, FetchFile, FetchFails, ListChanged, UpstreamChanges,
           HourlySync, BackfillStep, OverviewStep, Crash, ListCrash, vars, lists
  <2> QED BY <2>1, ListShrinks DEF IInv
<1> QED BY <1>1, Invariance, PTL DEF Spec, ShrinkConfirmed

\* A token of an estimate starts one run, and only when none is under way, whatever requests,
\* restarts and CLI runs come in between (pendingPlan, backfillRunning).
THEOREM TokenStartsOneRun == Spec => OneRunPerToken
<1>1. IInv /\ [Next]_vars =>
        [started' # started \/ (g.pc # "plan" /\ g'.pc = "plan") =>
           g.pc \in {"none", "invalidate"} /\ g'.token \notin started]_backfills
  <2> SUFFICES ASSUME IInv, [Next]_vars, started' # started \/ (g.pc # "plan" /\ g'.pc = "plan")
               PROVE  g.pc \in {"none", "invalidate"} /\ g'.token \notin started
    OBVIOUS
  <2>1. g \in Runs BY DEF IInv, BackfillInv, BackfillTypeOK
  <2>2. RunStep \/ RunInvalidates => started' = started /\ (g.pc # "plan" => g'.pc # "plan")
    <3>1. RunPlan => started' = started /\ g.pc = "plan" BY DEF RunPlan
    <3>2. RunBatch => started' = started /\ g'.pc # "plan" BY <2>1 DEF RunBatch, Fetched, Runs
    <3>3. RunFails \/ RunSays \/ RunFrees => started' = started /\ g'.pc # "plan"
      BY <2>1 DEF RunFails, RunSays, RunFrees, Runs
    <3>4. RunInvalidates => started' = started /\ g'.pc # "plan" BY DEF RunInvalidates, NoRun
    <3> QED BY <3>1, <3>2, <3>3, <3>4 DEF RunStep
  <2>3. BackfillCrash => started' = started /\ g'.pc # "plan" BY DEF BackfillCrash, NoRun
  <2>4. ASSUME UNCHANGED <<started, g>> PROVE FALSE BY <2>4
  <2>5. ~UNCHANGED backfills BY <2>4 DEF backfills
  <2>6. \A r \in Requests : ~(AskEstimate(r) \/ Estimate(r) \/ EstimateFails(r) \/ KeepPlan(r)
                              \/ GetFlag(r) \/ GetRead(r) \/ GetDone(r))
    BY <2>4 DEF AskEstimate, Estimate, EstimateFails, KeepPlan, GetFlag, GetRead, GetDone
  <2>7. ~(CliStart \/ CliStep \/ DayEnds \/ SyncDay \/ RowsLost \/ PlanAges)
    BY <2>4 DEF CliStart, CliStep, CliBatch, CliSays, CliDies, DayEnds, SyncDay, RowsLost, PlanAges
  <2>8. ~ListsStep /\ ~HourlySync /\ ~OverviewStep /\ ~Crash /\ ~UNCHANGED vars
    BY <2>3, <2>5, <2>7 DEF ListsStep, HourlySync, OverviewStep, Crash, vars
  <2>9. BackfillStep BY <2>8 DEF Next
  <2>10. \E r \in Requests : Confirm(r)
    BY <2>2, <2>6, <2>7, <2>9 DEF BackfillStep
  <2> QED BY <2>10, ConfirmStep DEF IInv
<1> QED BY <1>1, Invariance, PTL DEF Spec, OneRunPerToken

\* A run bills at most a tenth more, by its dry runs, than its operator confirmed, however the
\* history changed since the estimate (MaxTotalBytes).
THEOREM BilledAsConfirmed == Spec => []BilledWithinConfirmed
<1>1. IInv => BilledWithinConfirmed BY DEF IInv, BackfillInv
<1> QED BY <1>1, Invariance, PTL

\* No status and no overview says more than is stored, though each is put together from several
\* reads while runs, the CLI, the hourly sync and the label lists write.
THEOREM AnswersAreTrue == Spec => []AnswersTrue
<1>1. IInv => AnswersTrue
  <2> SUFFICES ASSUME IInv PROVE AnswersTrue OBVIOUS
  <2>1. StatusTrue BY DEF IInv, BackfillInv
  <2>2. ASSUME NEW v \in {overview.view} \cup
                         {reader[r].view : r \in {q \in Readers : reader[q].pc = "set"}}
        PROVE  v.claimed <= v.events
    BY <2>2 DEF IInv, ViewsTrue
  <2> QED BY <2>1, <2>2 DEF AnswersTrue
<1> QED BY <1>1, Invariance, PTL

-----------------------------------------------------------------------------
(* The profile's jobs *)

\* Where a lookup stands with its profile.
ToldOK == told \in [Keys -> {"no", "missed", "waiting"} \union ProfileAnswers]

\* The bucket: what a window of jobs cost, and what is left, is what the bucket held and
\* gained since.
BucketInv ==
  /\ tokens \in 0 .. FullBucket /\ window \in -1 .. Hour /\ begun \in Nat
  /\ window = -1 => begun = 0
  /\ window >= 0 => begun * Hour + tokens <= FullBucket + window * PerHour

\* The cache holds every lasting answer that is young and found room.
Remembered(a) ==
  paid[a].kept /\ paid[a].age <= ProfileTTL =>
    profiles[a] # NoProfile /\ profiles[a].age = paid[a].age

CacheInv ==
  /\ job \in [Addresses -> [pc: {"none", "asked", "running"}, age: 0 .. JobTicks]]
  /\ profiles \in [Addresses -> [status: Lasting \union {"none"}, age: 0 .. ProfileTTL + 1]]
  /\ paid \in [Addresses -> [age: 0 .. ProfileTTL + 1, kept: BOOLEAN]]
  /\ \A a \in Addresses: job[a].pc # "running" => job[a].age = 0
  /\ \A a \in Addresses: profiles[a] # NoProfile => profiles[a].status \in Lasting
  /\ \A a \in Addresses: Remembered(a)

ProfileInv == ToldOK /\ BucketInv /\ CacheInv

\* A step of the profile's jobs, or of a lookup that waits for one.
ProfileMove ==
  \/ \E k \in Keys: AskProfile(k) \/ JoinProfile(k) \/ GiveUp(k)
  \/ \E a \in Addresses: \/ Recheck(a) \/ Refuse(a) \/ BeginJob(a)
                         \/ \E status \in Outcomes: EndJob(a, status)
  \/ OpenWindow \/ ProfileTick

\* The end of a lookup, for the profile.
Forget(k) ==
  /\ told' = [told EXCEPT ![k] = "no"]
  /\ UNCHANGED <<tokens, job, profiles, paid, window, begun>>

LEMMA FullIsNat == FullBucket \in Nat /\ FullBucket = PerHour * Hour /\ Hour <= FullBucket
<1>1. PerHour \in Nat /\ Hour \in Nat /\ PerHour >= 1 /\ Hour >= 1 BY ProfileAssumption
<1>2. PerHour * Hour \in Nat BY <1>1
<1>3. ASSUME NEW n \in Nat, NEW m \in Nat, n >= 1 PROVE m <= n * m
  <2>1. n * m = m + (n - 1) * m /\ (n - 1) * m \in Nat BY <1>3
  <2> QED BY <2>1
<1> QED BY <1>1, <1>2, <1>3 DEF FullBucket

\* One more job costs Hour; one more tick is worth PerHour.
LEMMA OneMore == ASSUME NEW n \in Nat, NEW m \in Nat
                 PROVE (n + 1) * m = n * m + m /\ n * m \in Nat /\ 0 * m = 0
OBVIOUS

LEMMA ProfileStarts == ProfileInit => ProfileInv
<1> SUFFICES ASSUME ProfileInit PROVE ProfileInv OBVIOUS
<1>1. ToldOK BY DEF ProfileInit, ToldOK
<1>2. BucketInv BY FullIsNat, ProfileAssumption DEF ProfileInit, BucketInv
<1>3. CacheInv
  BY ProfileAssumption DEF ProfileInit, CacheInv, Remembered, NoJob, NoProfile, NotPaid, Lasting
<1> QED BY <1>1, <1>2, <1>3 DEF ProfileInv

LEMMA ToldKept == ASSUME ToldOK, ProfileInv, ProfileMove \/ (\E k \in Keys: Forget(k)) \/ UNCHANGED profileVars
                  PROVE ToldOK'
<1>1. CASE \E k \in Keys: AskProfile(k) \/ JoinProfile(k) \/ GiveUp(k) \/ Forget(k)
  <2> PICK k \in Keys: AskProfile(k) \/ JoinProfile(k) \/ GiveUp(k) \/ Forget(k) BY <1>1
  <2>1. k.addr \in Addresses BY DEF Keys
  <2>2. Known(k.addr) => profiles[k.addr].status \in ProfileAnswers
    BY <2>1 DEF ProfileInv, CacheInv, Known, ProfileAnswers, Outcomes
  <2> QED BY <2>2 DEF ToldOK, AskProfile, JoinProfile, GiveUp, Forget, ProfileAnswers, Outcomes
<1>2. CASE \E a \in Addresses: \/ Recheck(a) \/ Refuse(a) \/ BeginJob(a)
                               \/ \E status \in Outcomes: EndJob(a, status)
  <2> PICK a \in Addresses: \/ Recheck(a) \/ Refuse(a) \/ BeginJob(a)
                            \/ \E status \in Outcomes: EndJob(a, status) BY <1>2
  <2>1. KnownAgain(a) => profiles[a].status \in ProfileAnswers
    BY DEF ProfileInv, CacheInv, Known, KnownAgain, ProfileAnswers, Outcomes
  <2>2. ASSUME NEW status \in ProfileAnswers, Tell(a, status) PROVE ToldOK'
    BY <2>2 DEF ToldOK, Tell
  <2>3. CASE BeginJob(a) BY <2>3 DEF BeginJob, ToldOK
  <2>4. CASE Recheck(a) BY <2>1, <2>2, <2>4 DEF Recheck
  <2>5. CASE Refuse(a) BY <2>2, <2>5 DEF Refuse, ProfileAnswers
  <2>6. CASE \E status \in Outcomes: EndJob(a, status) BY <2>2, <2>6 DEF EndJob, ProfileAnswers
  <2> QED BY <2>3, <2>4, <2>5, <2>6
<1>3. CASE OpenWindow \/ ProfileTick \/ UNCHANGED profileVars
  BY <1>3 DEF OpenWindow, ProfileTick, profileVars, ToldOK
<1> QED BY <1>1, <1>2, <1>3 DEF ProfileMove

LEMMA BucketKept == ASSUME BucketInv, ProfileMove \/ (\E k \in Keys: Forget(k)) \/ UNCHANGED profileVars
                    PROVE BucketInv'
<1> USE FullIsNat, ProfileAssumption
<1>1. CASE UNCHANGED <<tokens, window, begun>> BY <1>1 DEF BucketInv
<1>2. CASE \E a \in Addresses: BeginJob(a)
  <2> PICK a \in Addresses: BeginJob(a) BY <1>2
  <2>1. tokens' = tokens - Hour /\ tokens >= Hour /\ window' = window BY DEF BeginJob, Taken
  <2>2. begun' = IF window >= 0 THEN begun + 1 ELSE begun BY DEF BeginJob
  <2>3. (begun + 1) * Hour = begun * Hour + Hour /\ begun * Hour \in Nat BY OneMore DEF BucketInv
  <2>4. window >= 0 => window * PerHour \in Nat BY OneMore DEF BucketInv
  <2>5. tokens' \in 0 .. FullBucket /\ begun' \in Nat BY <2>1, <2>2 DEF BucketInv
  <2>6. window >= 0 => begun' * Hour + tokens' <= FullBucket + window * PerHour
    BY <2>1, <2>2, <2>3, <2>4 DEF BucketInv
  <2> QED BY <2>1, <2>2, <2>5, <2>6 DEF BucketInv
<1>3. CASE OpenWindow
  <2>1. window' = 0 /\ begun' = 0 /\ tokens' = tokens BY <1>3 DEF OpenWindow, BucketInv
  <2>2. 0 * Hour = 0 /\ 0 * PerHour = 0 BY OneMore
  <2> QED BY <2>1, <2>2 DEF BucketInv
<1>4. CASE ProfileTick
  <2>1. tokens' = Refilled BY <1>4 DEF ProfileTick
  <2>2. tokens' \in 0 .. FullBucket /\ tokens' <= tokens + PerHour BY <2>1 DEF Refilled, BucketInv
  <2>3. CASE window \in 0 .. Hour - 1
    <3>1. window' = window + 1 /\ begun' = begun BY <1>4, <2>3 DEF ProfileTick
    <3>2. (window + 1) * PerHour = window * PerHour + PerHour /\ window * PerHour \in Nat
      BY <2>3, OneMore
    <3>3. begun * Hour \in Nat /\ window >= 0 /\ begun * Hour + tokens <= FullBucket + window * PerHour
      BY <2>3, OneMore DEF BucketInv
    <3>4. begun * Hour + tokens' <= FullBucket + (window * PerHour + PerHour)
      <4> HIDE FullIsNat
      <4>1. FullBucket \in Nat /\ tokens \in Nat /\ tokens' \in Nat BY <2>2, FullIsNat DEF BucketInv
      <4> QED BY <2>2, <3>2, <3>3, <4>1
    <3>5. begun' * Hour + tokens' <= FullBucket + window' * PerHour BY <3>1, <3>2, <3>4
    <3>6. window' \in -1 .. Hour /\ window' # -1 /\ begun' \in Nat BY <2>3, <3>1 DEF BucketInv
    <3> QED BY <2>2, <3>5, <3>6 DEF BucketInv
  <2>4. CASE window \notin 0 .. Hour - 1
    <3>1. window' = -1 /\ begun' = 0 BY <1>4, <2>4 DEF ProfileTick
    <3> QED BY <2>2, <3>1 DEF BucketInv
  <2> QED BY <2>3, <2>4
<1> QED BY <1>1, <1>2, <1>3, <1>4 DEF ProfileMove, profileVars, Forget, AskProfile, JoinProfile,
           GiveUp, Recheck, Refuse, EndJob

\* Ages grow together, and not beyond the lifetime and one.
LEMMA OlderAges == ASSUME NEW n \in 0 .. ProfileTTL + 1
                   PROVE /\ Older(n) \in 0 .. ProfileTTL + 1
                         /\ Older(n) <= ProfileTTL => n <= ProfileTTL /\ Older(n) = n + 1
BY ProfileAssumption DEF Older

LEMMA SweptEntries ==
  ASSUME CacheInv, NEW a \in Addresses
  PROVE /\ Swept \in [Addresses -> [status: Lasting \union {"none"}, age: 0 .. ProfileTTL + 1]]
        /\ Swept[a] = profiles[a] \/ (Swept[a] = NoProfile /\ profiles[a].age > ProfileTTL)
BY ProfileAssumption DEF Swept, Stale, CacheInv, NoProfile

LEMMA CacheKept == ASSUME CacheInv, ProfileMove \/ (\E k \in Keys: Forget(k)) \/ UNCHANGED profileVars
                   PROVE CacheInv'
<1> DEFINE Jobs == [Addresses -> [pc: {"none", "asked", "running"}, age: 0 .. JobTicks]]
           JobsOK == job \in Jobs /\ \A a \in Addresses: job[a].pc # "running" => job[a].age = 0
           Entry == [status: Lasting \union {"none"}, age: 0 .. ProfileTTL + 1]
           Bill == [age: 0 .. ProfileTTL + 1, kept: BOOLEAN]
<1>1. CASE UNCHANGED <<job, profiles, paid>> BY <1>1 DEF CacheInv, Remembered
<1>2. ASSUME NEW a \in Addresses, NEW status, Tell(a, status) PROVE JobsOK'
  BY <1>2, ProfileAssumption DEF Tell, NoJob, CacheInv
<1>3. CASE \E k \in Keys: JoinProfile(k)
  <2>1. JobsOK' BY <1>3, ProfileAssumption DEF JoinProfile, NoJob, CacheInv, Keys
  <2> QED BY <1>3, <2>1 DEF JoinProfile, CacheInv, Remembered
<1>4. CASE \E a \in Addresses: Recheck(a) \/ Refuse(a)
  <2>1. JobsOK' BY <1>2, <1>4 DEF Recheck, Refuse
  <2> QED BY <1>4, <2>1 DEF Recheck, Refuse, CacheInv, Remembered
<1>5. CASE \E a \in Addresses: BeginJob(a)
  <2>1. JobsOK' BY <1>5, ProfileAssumption DEF BeginJob, CacheInv
  <2> QED BY <1>5, <2>1 DEF BeginJob, CacheInv, Remembered
<1>6. CASE \E a \in Addresses: \E status \in Outcomes: EndJob(a, status)
  <2> PICK a \in Addresses, status \in Outcomes: EndJob(a, status) BY <1>6
  <2>1. JobsOK' BY <1>2 DEF EndJob
  <2>2. CASE status \notin Lasting
    <3>1. UNCHANGED <<profiles, paid>> BY <2>2 DEF EndJob
    <3> QED BY <2>1, <3>1 DEF CacheInv, Remembered
  <2>3. CASE status \in Lasting
    <3>1. profiles' = Stored(a, status) /\ paid' = [paid EXCEPT ![a] = [age |-> 0, kept |-> HasRoom(Swept)]]
      BY <2>3 DEF EndJob
    <3>2. HasRoom(Swept) \in BOOLEAN BY DEF HasRoom
    <3>3. profiles' \in [Addresses -> Entry] /\ paid' \in [Addresses -> Bill]
      BY <2>3, <3>1, <3>2, SweptEntries, ProfileAssumption DEF Stored, CacheInv
    <3>4. ASSUME NEW b \in Addresses, b # a PROVE profiles'[b] = Swept[b] /\ paid'[b] = paid[b]
      BY <3>1, <3>4, SweptEntries DEF Stored, CacheInv
    <3>5. HasRoom(Swept) => profiles'[a] = [status |-> status, age |-> 0]
      BY <3>1, SweptEntries DEF Stored
    <3>6. ~HasRoom(Swept) => profiles'[a] = Swept[a] BY <3>1 DEF Stored
    <3>7. paid'[a] = [age |-> 0, kept |-> HasRoom(Swept)] BY <3>1 DEF CacheInv
    <3>8. ASSUME NEW b \in Addresses PROVE profiles'[b] # NoProfile => profiles'[b].status \in Lasting
      BY <2>3, <3>4, <3>5, <3>6, SweptEntries DEF CacheInv
    <3>9. ASSUME NEW b \in Addresses PROVE Remembered(b)'
      <4>1. CASE b # a
        <5>1. Swept[b] = profiles[b] \/ profiles[b].age > ProfileTTL BY SweptEntries
        <5>2. Remembered(b) /\ profiles[b].age \in Int BY DEF CacheInv
        <5>3. profiles'[b] = Swept[b] /\ paid'[b] = paid[b] BY <4>1, <3>4
        <5> QED BY <5>1, <5>2, <5>3, ProfileAssumption DEF Remembered
      <4>2. CASE b = a
        <5>1. HasRoom(Swept) => profiles'[a] # NoProfile /\ profiles'[a].age = 0
          BY <2>3, <3>5 DEF NoProfile, Lasting
        <5> QED BY <4>2, <3>7, <5>1 DEF Remembered
      <4> QED BY <4>1, <4>2
    <3> QED BY <2>1, <3>3, <3>8, <3>9 DEF CacheInv
  <2> QED BY <2>2, <2>3
<1>7. CASE ProfileTick
  <2>1. JobsOK'
    <3>1. ASSUME NEW a \in Addresses
          PROVE job'[a] \in [pc: {"none", "asked", "running"}, age: 0 .. JobTicks]
                /\ (job'[a].pc # "running" => job'[a].age = 0)
      <4>1. job'[a] = IF job[a].pc = "running" THEN [pc |-> "running", age |-> job[a].age + 1] ELSE job[a]
        BY <1>7 DEF ProfileTick, CacheInv
      <4>2. job[a].pc = "running" => job[a].age < JobTicks BY <1>7 DEF ProfileTick
      <4> QED BY <4>1, <4>2, ProfileAssumption DEF CacheInv
    <3>2. job' = [a \in Addresses |-> job'[a]] BY <1>7 DEF ProfileTick
    <3> QED BY <3>1, <3>2
  <2>2. ASSUME NEW a \in Addresses
        PROVE /\ paid'[a] = [age |-> Older(paid[a].age), kept |-> paid[a].kept]
              /\ profiles'[a] = IF profiles[a] = NoProfile THEN NoProfile
                                ELSE [status |-> profiles[a].status, age |-> Older(profiles[a].age)]
    BY <1>7 DEF ProfileTick, CacheInv
  <2>3. profiles' = [a \in Addresses |-> profiles'[a]] /\ paid' = [a \in Addresses |-> paid'[a]]
    BY <1>7 DEF ProfileTick
  <2>4. ASSUME NEW a \in Addresses
        PROVE profiles'[a] \in Entry /\ paid'[a] \in Bill /\ Remembered(a)'
              /\ (profiles'[a] # NoProfile => profiles'[a].status \in Lasting)
    <3>1. paid[a].age \in 0 .. ProfileTTL + 1 /\ profiles[a].age \in 0 .. ProfileTTL + 1
          /\ paid[a].kept \in BOOLEAN /\ profiles[a] \in Entry BY DEF CacheInv
    <3>7. /\ paid'[a] = [age |-> Older(paid[a].age), kept |-> paid[a].kept]
          /\ profiles'[a] = IF profiles[a] = NoProfile THEN NoProfile
                            ELSE [status |-> profiles[a].status, age |-> Older(profiles[a].age)]
      BY <2>2
    <3>8. /\ Older(paid[a].age) \in 0 .. ProfileTTL + 1
          /\ Older(paid[a].age) <= ProfileTTL => paid[a].age <= ProfileTTL
      BY <3>1, OlderAges
    <3>9. Older(profiles[a].age) \in 0 .. ProfileTTL + 1 BY <3>1, OlderAges
    <3>2. paid'[a] \in Bill BY <3>1, <3>7, <3>8
    <3>3. profiles[a] # NoProfile => /\ profiles[a].status \in Lasting
                                     /\ profiles'[a].status = profiles[a].status
                                     /\ profiles'[a].age = Older(profiles[a].age)
      BY <3>7 DEF CacheInv
    <3>4. profiles'[a] \in Entry BY <3>1, <3>7, <3>9
    <3>5. profiles[a] # NoProfile => profiles'[a] # NoProfile BY <3>3 DEF NoProfile, Lasting
    <3>6. Remembered(a)'
      <4>1. Remembered(a) BY DEF CacheInv
      <4> QED BY <3>1, <3>3, <3>5, <3>7, <3>8, <4>1 DEF Remembered
    <3> QED BY <3>2, <3>3, <3>4, <3>6, <3>7
  <2>5. profiles' \in [Addresses -> Entry] /\ paid' \in [Addresses -> Bill] BY <2>3, <2>4
  <2> QED BY <2>1, <2>4, <2>5 DEF CacheInv
<1> QED BY <1>1, <1>3, <1>4, <1>5, <1>6, <1>7 DEF ProfileMove, profileVars, Forget, AskProfile, GiveUp, OpenWindow

LEMMA ProfileKept == ASSUME ProfileInv, ProfileMove \/ (\E k \in Keys: Forget(k)) \/ UNCHANGED profileVars
                     PROVE ProfileInv'
BY ToldKept, BucketKept, CacheKept DEF ProfileInv

\* What is left and what was paid for make up the ceiling of an hour.
LEMMA BucketBounds == BucketInv => BucketCeiling
<1> SUFFICES ASSUME BucketInv, begun > 2 * PerHour PROVE FALSE
  BY ProfileAssumption DEF BucketCeiling, BucketInv
<1>1. PerHour \in Nat /\ Hour \in Nat /\ Hour >= 1 BY ProfileAssumption
<1>2. window \in Nat /\ window <= Hour /\ begun \in Nat /\ tokens \in Nat
  BY <1>1, FullIsNat DEF BucketInv
<1>3. begun * Hour <= FullBucket + window * PerHour
  <2>1. begun * Hour \in Nat /\ window * PerHour \in Nat /\ FullBucket \in Nat BY <1>1, <1>2, FullIsNat
  <2>2. begun * Hour + tokens <= FullBucket + window * PerHour BY <1>2 DEF BucketInv
  <2> QED BY <1>2, <2>1, <2>2
<1>4. window * PerHour <= Hour * PerHour
  <2>1. PICK d \in Nat: Hour = window + d
    <3>1. Hour - window \in Nat /\ Hour = window + (Hour - window) BY <1>1, <1>2
    <3> QED BY <3>1
  <2>2. Hour * PerHour = window * PerHour + d * PerHour BY <1>1, <1>2, <2>1
  <2>3. d * PerHour \in Nat /\ window * PerHour \in Nat BY <1>1, <1>2, <2>1
  <2> QED BY <2>2, <2>3
<1>5. PICK e \in Nat: begun = 2 * PerHour + (e + 1)
  <2>1. begun - 2 * PerHour - 1 \in Nat /\ begun = 2 * PerHour + ((begun - 2 * PerHour - 1) + 1)
    BY <1>1, <1>2
  <2> QED BY <2>1
<1>6. begun * Hour = 2 * (PerHour * Hour) + (e * Hour + Hour) BY <1>1, <1>5
<1>7. Hour * PerHour = FullBucket /\ PerHour * Hour = FullBucket BY <1>1, FullIsNat
<1>8. begun * Hour = 2 * FullBucket + (e * Hour + Hour) BY <1>6, <1>7
<1>9. e * Hour \in Nat /\ window * PerHour \in Nat /\ FullBucket \in Nat BY <1>1, <1>2, FullIsNat
<1> QED BY <1>1, <1>3, <1>4, <1>7, <1>8, <1>9

-----------------------------------------------------------------------------
(* The answer of a lookup *)

\* What is true does not change, and so an answer's meaning does not.
LEMMA SameStatus ==
  ASSUME world' = world, NEW s, NEW k, NEW down, NEW prof
  PROVE Status(s, k, down, prof)' = Status(s, k, down, prof)
BY DEF Status, LocalStatus, FreezeOk, TokenAnswers, EtherscanStatus, EtherscanOk, FallsBack, KeyFails,
       Failover, ProfileStatus, OkIf

LEMMA SameParts ==
  ASSUME world' = world, NEW k, NEW down
  PROVE /\ Screened(k, down)' = Screened(k, down) /\ ScreenErrors(k, down)' = ScreenErrors(k, down)
        /\ Delegated(down)' = Delegated(down) /\ NoCache(down)' = NoCache(down)
<1>1. EtherscanStatus(k, down)' = EtherscanStatus(k, down)
  BY DEF EtherscanStatus, EtherscanOk, FallsBack, KeyFails, OkIf
<1>2. Delegated(down)' = Delegated(down) BY DEF Delegated, Failover
<1> QED BY <1>1, <1>2 DEF Screened, ScreenErrors, NoCache

LEMMA SameFound ==
  ASSUME world' = world, NEW s, NEW k, NEW down, NEW st
  PROVE Found(s, k, down, st)' = Found(s, k, down, st)
<1>1. ASSUME NEW t PROVE Frozen(t, down)' = Frozen(t, down) BY DEF Frozen, TokenAnswers, Failover
<1>2. ASSUME NEW c PROVE Sees(c, k, down)' = Sees(c, k, down) BY <1>1, SameParts DEF Sees
<1> QED BY <1>2 DEF Found

LEMMA SameAnswer ==
  ASSUME world' = world, NEW k, NEW down, NEW prof
  PROVE Answer(k, down, prof)' = Answer(k, down, prof)
<1>1. Named' = Named BY DEF Named
<1>2. NamedStatuses(k, down, prof)' = NamedStatuses(k, down, prof) BY <1>1, SameStatus DEF NamedStatuses
<1>3. ASSUME NEW s PROVE Found(s, k, down, Status(s, k, down, prof))' = Found(s, k, down, Status(s, k, down, prof))
  BY SameStatus, SameFound
<1>4. AllFound(k, down, prof)' = AllFound(k, down, prof) BY <1>1, <1>3 DEF AllFound
<1> QED BY <1>1, <1>2, <1>4, SameParts DEF Answer

\* What an answer says of a source.
LEMMA AnswerParts ==
  ASSUME NEW k, NEW down, NEW prof
  PROVE /\ DOMAIN Answer(k, down, prof).status = Named
        /\ \A s \in Named: Answer(k, down, prof).status[s] = Status(s, k, down, prof)
        /\ Answer(k, down, prof).clues = AllFound(k, down, prof)
        /\ \A s \in Named: Found(s, k, down, Status(s, k, down, prof)) \subseteq AllFound(k, down, prof)
        /\ Answer(k, down, prof).screen = ("etherscan" \in Named /\ ScreenErrors(k, down))
        /\ Answer(k, down, prof).noCache = ("eip7702" \in Named /\ NoCache(down))
<1>1. \A s \in Named: Found(s, k, down, Status(s, k, down, prof)) \subseteq AllFound(k, down, prof)
  BY DEF AllFound
<1> QED BY <1>1 DEF Answer, NamedStatuses

\* The words for a source, one by one.
Says(s, k, down, prof) ==
  LET st == Status(s, k, down, prof)
  IN  /\ s = "issuer_freeze" => st = OkIf(FreezeOk(down))
      /\ s = "chainalysis_oracle" => st = OkIf(Failover(OracleCalls, down))
      /\ s = "etherscan" => st = EtherscanStatus(k, down)
      /\ s = "eip7702" => st = IF Rpcs = {} THEN "not_configured" ELSE OkIf(Failover(CodeCalls, down))
      /\ s = "bigquery_profile" => st = ProfileStatus(prof, down)
      /\ s \in Local => st = LocalStatus(s, down)
      /\ s \in {"goplus", "blockscout"} => st = OkIf(<<s>> \notin down)

LEMMA Words == ASSUME NEW s, NEW k, NEW down, NEW prof PROVE Says(s, k, down, prof)
BY DEF Says, Status, Local, Lists, Freezes

LEMMA SomeWord ==
  ASSUME NEW s \in Named, NEW k, NEW down, NEW prof \in ProfileAnswers \union {"skipped"}
  PROVE Status(s, k, down, prof) \in Unchecked \union {"ok", "skipped", "not_configured"}
<1>1. LocalStatus(s, down) \in Unchecked \union {"ok"}
  BY DEF LocalStatus, ListStatus, FreezeHistoryStatus, CursorStatus, Unchecked
<1>2. EtherscanStatus(k, down) \in Unchecked \union {"ok", "not_configured"}
  BY DEF EtherscanStatus, OkIf, Unchecked
<1>3. ProfileStatus(prof, down) \in Unchecked \union {"ok", "skipped"}
  BY DEF ProfileStatus, Unchecked, ProfileAnswers, Outcomes, Lasting
<1>4. \A b: OkIf(b) \in Unchecked \union {"ok"} BY DEF OkIf, Unchecked
<1> QED BY <1>1, <1>2, <1>3, <1>4 DEF Status, Local, Lists, Freezes

LEMMA NamedSources ==
  ASSUME world \in Worlds
  PROVE /\ world \in WorldSet
        /\ Named \subseteq Local \union {"issuer_freeze", "chainalysis_oracle", "goplus", "blockscout", "etherscan",
                                    "eip7702", "bigquery_profile"}
        /\ world.chain = "eth" => "bigquery_profile" \in Named
        /\ world.chain = "sol" => Named = {"ofac", "issuer_freeze"}
        /\ "etherscan" \in Named \/ "bigquery_profile" \in Named => world.chain = "eth"
<1>1. world \in WorldSet BY LookupAssumption
<1>2. world.chain \in {"eth", "arb", "op", "base", "tron", "btc", "sol"} BY <1>1 DEF WorldSet, RiskSourcesFor
<1> QED BY <1>1, <1>2 DEF Named, RiskSourcesFor, OnBase, Local, Lists, Freezes

LEMMA CleanIsTrue ==
  ASSUME world \in Worlds, NEW k \in Keys, NEW down, NEW prof \in ProfileAnswers \union {"skipped"},
         Text(Answer(k, down, prof)) = "clean", NEW c \in world.facts
  PROVE \/ c.source \notin DOMAIN Answer(k, down, prof).status
        \/ Answer(k, down, prof).status[c.source] \in {"skipped", "not_configured"}
        \/ c \in Excused(Answer(k, down, prof))
<1> DEFINE a == Answer(k, down, prof)
           st == Status(c.source, k, down, prof)
<1> SUFFICES ASSUME c.source \in Named, st \notin {"skipped", "not_configured"}, c \notin Excused(a)
             PROVE FALSE
  <2>1. DOMAIN a.status = Named /\ (c.source \in Named => a.status[c.source] = st) BY AnswerParts
  <2> HIDE DEF a, st
  <2> QED BY <2>1 DEF a, st
<1>1. a.clues = {} /\ With(a, Unchecked) = {} BY DEF Text
<1>2. st \notin Unchecked
  <2>1. DOMAIN a.status = Named /\ a.status[c.source] = st BY AnswerParts
  <2> HIDE DEF a, st
  <2> QED BY <1>1, <2>1 DEF With
<1>3. st = "ok"
  <2>1. st \in Unchecked \union {"ok", "skipped", "not_configured"} BY SomeWord
  <2> QED BY <1>2, <2>1
<1>19. Says(c.source, k, down, prof) BY Words
<1>4. c \in Clues /\ world \in WorldSet BY LookupAssumption DEF WorldSet
<1>5. \A d \in world.facts: d.source = c.source => ~Sees(d, k, down)
  <2>1. Found(c.source, k, down, st) = {} BY <1>1, AnswerParts
  <2> QED BY <1>3, <2>1 DEF Found
<1>6. ~Sees(c, k, down) BY <1>5
<1>7. CASE c.source = "issuer_freeze"
  <2>1. c.what \in Tokens BY <1>4, <1>7 DEF Clues, Local, Lists, Freezes
  <2>2. FreezeOk(down) BY <1>3, <1>7, <1>19 DEF Says, OkIf
  <2>3. ~Frozen(c.what, down) BY <1>6, <1>7 DEF Sees
  <2>4. world.chain = "sol" /\ c.what \in world.elsewhere BY <2>1, <2>2, <2>3 DEF FreezeOk, Frozen
  <2> QED BY <1>4, <1>7, <2>4 DEF Excused
<1>8. CASE c.source = "etherscan"
  <2>1. c.what # "linked" /\ ~Screened(k, down) BY <1>6, <1>8 DEF Sees
  <2>2. EtherscanStatus(k, down) = "ok" BY <1>3, <1>8, <1>19 DEF Says
  <2>3. a.screen
    <3>1. a.screen = ("etherscan" \in Named /\ ScreenErrors(k, down)) BY AnswerParts
    <3>2. ScreenErrors(k, down) BY <2>1, <2>2 DEF Screened, ScreenErrors
    <3> QED BY <1>8, <3>1, <3>2
  <2>4. c = Clue("etherscan", "suspect")
    BY <1>4, <1>8, <2>1 DEF Clues, Clue, Local, Lists, Freezes
  <2> QED BY <1>4, <2>3, <2>4 DEF Excused
<1>9. CASE c.source = "eip7702"
  <2>1. c.what = "flagged" BY <1>4, <1>6, <1>9 DEF Clues, Local, Lists, Freezes, Sees
  <2>2. c = Clue("eip7702", "flagged") BY <1>4, <1>9, <2>1 DEF Clues, Clue
  <2>3. Clue("eip7702", "delegated") \in world.facts BY <2>2, LookupAssumption
  <2>4. Sees(Clue("eip7702", "delegated"), k, down) BY DEF Sees, Clue
  <2> QED BY <1>5, <1>9, <2>3, <2>4 DEF Clue
<1> QED BY <1>6, <1>7, <1>8, <1>9 DEF Sees

\* An answer as the lookup of k would give it, and as it would give it without a failure.
Given(k, a) ==
  \E down \in Faults \union {{}} \union Harmless, prof \in ProfileAnswers \union {"skipped"}:
    a = Answer(k, down, prof)
Best(k, a) ==
  \E down \in Harmless, prof \in Lasting \union {"skipped"}: a = Answer(k, down, prof)

LEMMA SameGiven ==
  ASSUME world' = world, NEW k, NEW a
  PROVE (Given(k, a) => Given(k, a)') /\ (Best(k, a) => Best(k, a)')
<1>1. Harmless' = Harmless BY DEF Harmless
<1> QED BY <1>1, SameAnswer DEF Given, Best

\* The failures that may be left out of account when an answer is kept.
Left(down) == IF world.chain = "sol" /\ ~AllAccounts(down) THEN AccountCalls
              ELSE IF <<"peers">> \in down THEN {<<"peers">>} ELSE {}

\* h keeps of the failures in down only those that make no source fail.
Milder(h, down) ==
  /\ \A x \in SingleCalls \ {"peers"}: <<x>> \notin h
  /\ OracleCalls \intersect h = {} /\ CodeCalls \intersect h = {} /\ TronCalls \intersect h = {}
  /\ \A t \in Tokens: FreezeCalls(t) \intersect h = {}
  /\ world.chain = "sol" => (AllAccounts(h) <=> AllAccounts(down))
  /\ world.chain # "sol" => (<<"peers">> \in h <=> <<"peers">> \in down)

LEMMA LeftIsHarmless ==
  ASSUME NEW down
  PROVE Left(down) \in Harmless /\ Milder(Left(down), down)
<1>1. Left(down) \in Harmless BY DEF Left, Harmless
<1>2. ASSUME NEW x PROVE <<x>> \notin AccountCalls BY DEF AccountCalls
<1>3. \A x: <<x>> = <<"peers">> => x = "peers" OBVIOUS
<1>4. \A x \in SingleCalls \ {"peers"}: <<x>> \notin Left(down) BY <1>2, <1>3 DEF Left
<1>5. world.chain # "sol" => (<<"peers">> \in Left(down) <=> <<"peers">> \in down) BY DEF Left
<1>6. <<"peers">> \notin AccountCalls BY <1>2
<1>7. world.chain = "sol" => (AllAccounts(Left(down)) <=> AllAccounts(down))
  <2>1. ~AllAccounts(down) => ~AllAccounts(AccountCalls) BY DEF AllAccounts
  <2> QED BY <1>6, <2>1 DEF Left, AllAccounts
<1>8. ASSUME NEW x, x \in OracleCalls \union CodeCalls \union TronCalls \union UNION {FreezeCalls(t): t \in Tokens}
      PROVE x \notin AccountCalls /\ x # <<"peers">>
  <2>1. x[1] \in {"oracle", "code", "tron", "freeze"}
    BY <1>8 DEF OracleCalls, CodeCalls, TronCalls, FreezeCalls
  <2>2. \A y \in AccountCalls: y[1] = "accounts" BY DEF AccountCalls
  <2>3. <<"peers">>[1] = "peers" OBVIOUS
  <2> QED BY <2>1, <2>2, <2>3
<1>9. ASSUME NEW x \in Left(down) PROVE x \in AccountCalls \/ x = <<"peers">> BY DEF Left
<1>10. ASSUME NEW x \in Left(down)
       PROVE x \notin OracleCalls \union CodeCalls \union TronCalls \union UNION {FreezeCalls(t): t \in Tokens}
  BY <1>8, <1>9
<1>11. /\ OracleCalls \intersect Left(down) = {} /\ CodeCalls \intersect Left(down) = {}
       /\ TronCalls \intersect Left(down) = {}
  BY <1>10
<1>12. ASSUME NEW t \in Tokens PROVE FreezeCalls(t) \intersect Left(down) = {} BY <1>10
<1> QED BY <1>1, <1>4, <1>5, <1>7, <1>11, <1>12 DEF Milder

\* Each source of an answer that may be kept would say the same without a failure.
LEMMA KeptStatus ==
  ASSUME world \in Worlds, NEW k \in Keys, k.bq => world.chain = "eth",
         NEW down, NEW h, Milder(h, down), NEW prof \in ProfileAnswers \union {"skipped"},
         NEW s \in Named, Status(s, k, down, prof) # "error"
  PROVE Status(s, k, h, prof) = Status(s, k, down, prof)
<1>1. \A x \in SingleCalls \ {"peers"}: <<x>> \notin h BY DEF Milder
<1>19. Says(s, k, down, prof) BY Words
<1>20. Says(s, k, h, prof) BY Words
<1>2. \A b: OkIf(b) # "error" => b BY DEF OkIf
<1>3. CASE s \in Local
  <2>1. LocalOk(h) BY <1>1 DEF LocalOk, SingleCalls
  <2>2. LocalStatus(s, down) # "error" /\ Status(s, k, down, prof) = LocalStatus(s, down) BY <1>3, <1>19 DEF Says
  <2>3. LocalOk(down) BY <2>2 DEF LocalStatus
  <2>4. LocalStatus(s, h) = LocalStatus(s, down) BY <2>1, <2>3 DEF LocalStatus
  <2>5. Status(s, k, h, prof) = LocalStatus(s, h) BY <1>3, <1>20 DEF Says
  <2> QED BY <2>2, <2>4, <2>5
<1>4. CASE s = "issuer_freeze"
  <2>0. Status(s, k, down, prof) = OkIf(FreezeOk(down)) BY <1>4, <1>19 DEF Says
  <2>1. Status(s, k, h, prof) = OkIf(FreezeOk(h)) BY <1>4, <1>20 DEF Says
  <2>2. FreezeOk(down) BY <1>2, <2>0
  <2>3. CASE world.chain = "sol"
    <3>1. <<"canonical">> \notin h BY <1>1 DEF SingleCalls
    <3> QED BY <2>0, <2>1, <2>2, <2>3, <3>1 DEF FreezeOk, OkIf
  <2>4. CASE world.chain # "sol"
    <3>1. ASSUME NEW t \in Tokens PROVE TokenAnswers(t, h)
      <4>1. TokenAnswers(t, down) BY <2>2, <2>4 DEF FreezeOk
      <4>2. CASE world.chain = "tron"
        <5>1. <<"tron", t>> \in TronCalls BY DEF TronCalls
        <5>2. TronCalls \intersect h = {} BY DEF Milder
        <5> QED BY <4>2, <5>1, <5>2 DEF TokenAnswers
      <4>3. CASE world.chain # "tron"
        <5>1. FreezeCalls(t) \intersect h = {} BY DEF Milder
        <5> QED BY <4>1, <4>3, <5>1 DEF TokenAnswers, Failover
      <4> QED BY <4>2, <4>3
    <3> QED BY <2>0, <2>1, <2>2, <2>4, <3>1 DEF FreezeOk, OkIf
  <2> QED BY <2>3, <2>4
<1>5. CASE s = "chainalysis_oracle"
  <2>0. Status(s, k, down, prof) = OkIf(Failover(OracleCalls, down)) BY <1>5, <1>19 DEF Says
  <2>1. Status(s, k, h, prof) = OkIf(Failover(OracleCalls, h)) BY <1>5, <1>20 DEF Says
  <2>2. OracleCalls \intersect h = {} BY DEF Milder
  <2> QED BY <1>2, <2>0, <2>1, <2>2 DEF Failover
<1>6. CASE s = "etherscan"
  <2>1. Status(s, k, down, prof) = EtherscanStatus(k, down) /\ Status(s, k, h, prof) = EtherscanStatus(k, h)
    BY <1>6, <1>19, <1>20 DEF Says
  <2>2. <<"pool">> \notin h /\ <<"fallback">> \notin h /\ <<"etherscan">> \notin h /\ <<"refused">> \notin h
    BY <1>1 DEF SingleCalls
  <2>3. CASE ~k.keyed /\ ~world.blockscout BY <2>1, <2>3 DEF EtherscanStatus
  <2>4. CASE k.keyed \/ world.blockscout
    <3>1. EtherscanOk(k, down) BY <1>2, <2>1, <2>4 DEF EtherscanStatus
    <3>2. EtherscanOk(k, h) BY <2>2, <3>1 DEF EtherscanOk, FallsBack, KeyFails
    <3> QED BY <2>1, <2>4, <3>1, <3>2 DEF EtherscanStatus, OkIf
  <2> QED BY <2>3, <2>4
<1>7. CASE s = "eip7702"
  <2>1. CASE Rpcs = {}
    <3>1. Status(s, k, down, prof) = "not_configured" BY <1>7, <2>1, <1>19 DEF Says
    <3>2. Status(s, k, h, prof) = "not_configured" BY <1>7, <2>1, <1>20 DEF Says
    <3> QED BY <3>1, <3>2
  <2>2. CASE Rpcs # {}
    <3>0. Status(s, k, down, prof) = OkIf(Failover(CodeCalls, down)) BY <1>7, <2>2, <1>19 DEF Says
    <3>1. Status(s, k, h, prof) = OkIf(Failover(CodeCalls, h)) BY <1>7, <2>2, <1>20 DEF Says
    <3>2. CodeCalls \intersect h = {} BY DEF Milder
    <3> QED BY <1>2, <3>0, <3>1, <3>2 DEF Failover
  <2> QED BY <2>1, <2>2
<1>8. CASE s = "bigquery_profile"
  <2>0. Status(s, k, down, prof) = ProfileStatus(prof, down) BY <1>8, <1>19 DEF Says
  <2>1. Status(s, k, h, prof) = ProfileStatus(prof, h) BY <1>8, <1>20 DEF Says
  <2>2. world.chain # "sol" BY <1>8, NamedSources
  <2> QED BY <2>0, <2>1, <2>2 DEF ProfileStatus, Milder
<1>9. CASE s \in {"goplus", "blockscout"}
  <2>1. Status(s, k, down, prof) = OkIf(<<s>> \notin down) /\ Status(s, k, h, prof) = OkIf(<<s>> \notin h)
    BY <1>9, <1>19, <1>20 DEF Says
  <2>2. <<s>> \notin h BY <1>1, <1>9 DEF SingleCalls
  <2> QED BY <1>2, <2>1, <2>2
<1> QED BY <1>3, <1>4, <1>5, <1>6, <1>7, <1>8, <1>9, NamedSources

\* What an answering source tells of a clue would be the same, too.
LEMMA KeptSees ==
  ASSUME world \in Worlds, NEW k \in Keys, NEW down, NEW prof \in ProfileAnswers \union {"skipped"},
         NEW h, Milder(h, down), NEW c \in world.facts, c.source \in Named, Status(c.source, k, down, prof) \in {"ok", "not_configured"},
         ~NoCache(down) \/ "eip7702" \notin Named, ~ScreenErrors(k, down) \/ "etherscan" \notin Named
  PROVE Status(c.source, k, down, prof) = "ok" => (Sees(c, k, h) <=> Sees(c, k, down))
<1> SUFFICES ASSUME Status(c.source, k, down, prof) = "ok" PROVE Sees(c, k, h) <=> Sees(c, k, down)
  OBVIOUS
<1>1. \A x \in SingleCalls \ {"peers"}: <<x>> \notin h BY DEF Milder
<1>19. Says(c.source, k, down, prof) BY Words
<1>2. c \in Clues BY LookupAssumption DEF WorldSet
<1>3. CASE c.source = "issuer_freeze"
  <2>1. c.what \in Tokens BY <1>2, <1>3 DEF Clues, Local, Lists, Freezes
  <2>2. FreezeOk(down) BY <1>3, <1>19 DEF Says, OkIf
  <2>3. CASE world.chain = "sol"
    <3>1. AllAccounts(h) <=> AllAccounts(down) BY <2>3 DEF Milder
    <3> QED BY <1>3, <2>3, <3>1 DEF Sees, Frozen
  <2>4. CASE world.chain # "sol"
    <3>1. TokenAnswers(c.what, down) BY <2>1, <2>2, <2>4 DEF FreezeOk
    <3>2. FreezeCalls(c.what) \intersect h = {} /\ TronCalls \intersect h = {} BY <2>1 DEF Milder
    <3>3. <<"tron", c.what>> \in TronCalls BY <2>1 DEF TronCalls
    <3>4. TokenAnswers(c.what, h) BY <3>1, <3>2, <3>3 DEF TokenAnswers, Failover
    <3> QED BY <1>3, <2>4, <3>1, <3>4 DEF Sees, Frozen
  <2> QED BY <2>3, <2>4
<1>4. CASE c.source = "etherscan"
  <2>1. EtherscanStatus(k, down) = "ok" BY <1>4, <1>19 DEF Says
  <2>2. Screened(k, down) BY <1>4, <2>1 DEF ScreenErrors, Screened
  <2>3. EtherscanStatus(k, h) = "ok"
    <3>1. EtherscanOk(k, down) /\ (k.keyed \/ world.blockscout) BY <2>1 DEF EtherscanStatus, OkIf
    <3>2. <<"pool">> \notin h /\ <<"fallback">> \notin h /\ <<"etherscan">> \notin h /\ <<"refused">> \notin h
      BY <1>1 DEF SingleCalls
    <3>3. EtherscanOk(k, h) BY <3>1, <3>2 DEF EtherscanOk, FallsBack, KeyFails
    <3> QED BY <3>1, <3>3 DEF EtherscanStatus, OkIf
  <2>5. Screened(k, h) BY <1>1, <2>3 DEF Screened, SingleCalls
  <2> QED BY <1>4, <2>2, <2>5 DEF Sees
<1>5. CASE c.source = "eip7702"
  <2>1. Rpcs # {} /\ Failover(CodeCalls, down) BY <1>5, <1>19 DEF Says, OkIf
  <2>2. CodeCalls \intersect h = {} BY DEF Milder
  <2>3. Failover(CodeCalls, h) BY <2>1, <2>2 DEF Failover
  <2>4. Delegated(h) <=> Delegated(down) BY <2>1, <2>3 DEF Delegated
  <2>5. ~NoCache(h) BY <1>1 DEF NoCache, SingleCalls
  <2>6. ~NoCache(down) BY <1>5
  <2> QED BY <1>5, <2>4, <2>5, <2>6 DEF Sees
<1> QED BY <1>3, <1>4, <1>5 DEF Sees

LEMMA KeptFound ==
  ASSUME world \in Worlds, NEW k \in Keys, NEW down, NEW prof \in ProfileAnswers \union {"skipped"},
         NEW h, Milder(h, down), NEW s \in Named,
         Status(s, k, h, prof) = Status(s, k, down, prof),
         ~NoCache(down) \/ "eip7702" \notin Named, ~ScreenErrors(k, down) \/ "etherscan" \notin Named
  PROVE Found(s, k, h, Status(s, k, h, prof)) = Found(s, k, down, Status(s, k, down, prof))
<1> DEFINE st == Status(s, k, down, prof)
<1>1. ASSUME st = "ok", NEW c \in world.facts, c.source = s PROVE Sees(c, k, h) <=> Sees(c, k, down)
  <2>1. c.source \in Named /\ Status(c.source, k, down, prof) = "ok" BY <1>1
  <2> QED BY <2>1, KeptSees
<1>2. ASSUME s \in Local, NEW c, c.source = s, NEW d PROVE Sees(c, k, d)
  BY <1>2 DEF Sees, Local, Lists, Freezes
<1> HIDE DEF st
<1>3. Status(s, k, h, prof) = st /\ Status(s, k, down, prof) = st BY DEF st
<1> QED BY <1>1, <1>2, <1>3 DEF Found

\* An answer that may be kept is the answer of a lookup without a failure.
LEMMA KeptAnswer ==
  ASSUME world \in Worlds, NEW k \in Keys, k.bq => world.chain = "eth", NEW down,
         NEW prof \in ProfileAnswers \union {"skipped"}, ~k.bq => prof = "skipped",
         Cacheable(Answer(k, down, prof))
  PROVE Best(k, Answer(k, down, prof))
<1> DEFINE a == Answer(k, down, prof)
           h == Left(down)
<1>1. /\ DOMAIN a.status = Named /\ \A s \in Named: a.status[s] = Status(s, k, down, prof)
      /\ a.screen = ("etherscan" \in Named /\ ScreenErrors(k, down))
      /\ a.noCache = ("eip7702" \in Named /\ NoCache(down))
  BY AnswerParts
<1>2. h \in Harmless /\ Milder(h, down) BY LeftIsHarmless
<1> HIDE DEF h
<1>3. ASSUME NEW s \in Named PROVE Status(s, k, down, prof) \notin {"error", "empty", "timeout", "rate_limited"}
  <2>1. With(a, {"error", "empty", "timeout", "rate_limited"}) = {} BY DEF Cacheable
  <2> HIDE DEF a
  <2> QED BY <1>1, <2>1 DEF With
<1>4. ~a.screen /\ ~a.noCache BY DEF Cacheable
<1>5. ~NoCache(down) \/ "eip7702" \notin Named BY <1>1, <1>4
<1>6. ~ScreenErrors(k, down) \/ "etherscan" \notin Named BY <1>1, <1>4
<1>7. prof \in Lasting \union {"skipped"}
  <2>1. CASE k.bq
    <3>1. "bigquery_profile" \in Named BY <2>1, NamedSources
    <3>2. Says("bigquery_profile", k, down, prof) BY Words
    <3>3. ProfileStatus(prof, down) \notin {"error", "empty", "timeout", "rate_limited"}
      BY <1>3, <3>1, <3>2 DEF Says
    <3> QED BY <3>3 DEF ProfileStatus, ProfileAnswers, Outcomes, Lasting
  <2> QED BY <2>1
<1>8. ASSUME NEW s \in Named PROVE Status(s, k, h, prof) = Status(s, k, down, prof)
  <2>1. Status(s, k, down, prof) # "error" BY <1>3
  <2> QED BY <1>2, <2>1, KeptStatus
<1>9. NamedStatuses(k, h, prof) = NamedStatuses(k, down, prof) BY <1>8 DEF NamedStatuses
<1>10. ASSUME NEW s \in Named
       PROVE Found(s, k, h, Status(s, k, h, prof)) = Found(s, k, down, Status(s, k, down, prof))
  BY <1>2, <1>5, <1>6, <1>8, KeptFound
<1>11. AllFound(k, h, prof) = AllFound(k, down, prof) BY <1>10 DEF AllFound
<1>12. ~ScreenErrors(k, h) /\ ~NoCache(h)
  <2>1. <<"screen">> \notin h /\ <<"delegate">> \notin h BY <1>2 DEF Milder, SingleCalls
  <2> QED BY <2>1 DEF ScreenErrors, NoCache
<1>13. Answer(k, h, prof) = Answer(k, down, prof)
  <2>1. ("etherscan" \in Named /\ ScreenErrors(k, h)) = ("etherscan" \in Named /\ ScreenErrors(k, down))
    BY <1>6, <1>12
  <2>2. ("eip7702" \in Named /\ NoCache(h)) = ("eip7702" \in Named /\ NoCache(down)) BY <1>5, <1>12
  <2> QED BY <1>9, <1>11, <2>1, <2>2 DEF Answer
<1> QED BY <1>2, <1>7, <1>13 DEF Best

-----------------------------------------------------------------------------
(* Requests, flights and the cache *)

Asked  == {k \in Keys: k.bq => world.chain = "eth"}
Places == {Idle} \union [pc: {"missed", "waiting"}, key: Asked]

\* An entry of the cache is an answer without a failure, and its age.
EntryOK(k) == cache[k] # NoEntry =>
  Best(k, cache[k].answer) /\ DOMAIN cache[k] = {"answer", "age"}

ServiceInv ==
  /\ world \in Worlds
  /\ asking \in [Lookups -> Places] /\ flight \subseteq Asked
  /\ cache = [k \in Keys |-> cache[k]] /\ \A k \in Keys: EntryOK(k)
  /\ \A s \in given: s.key \in Keys /\ Given(s.key, s.answer)

LookupInv == ProfileInv /\ ServiceInv

LEMMA BestIsGiven == ASSUME NEW k, NEW a, Best(k, a) PROVE Given(k, a)
BY DEF Best, Given, Lasting, ProfileAnswers, Outcomes

LEMMA ServiceStarts == LookupInit => ServiceInv
BY DEF LookupInit, ServiceInv, EntryOK, Places

\* What does not depend on the step: the world, and with it what is asked and said.
LEMMA SameWorld ==
  ASSUME world' = world
  PROVE /\ Asked' = Asked /\ Places' = Places
        /\ \A k \in Keys: cache'[k] = cache[k] /\ EntryOK(k) => EntryOK(k)'
<1>1. Asked' = Asked BY DEF Asked
<1>2. Places' = Places BY <1>1 DEF Places
<1>3. ASSUME NEW k \in Keys, cache'[k] = cache[k], EntryOK(k) PROVE EntryOK(k)'
  <2>1. CASE cache[k] = NoEntry BY <1>3, <2>1 DEF EntryOK
  <2>2. CASE cache[k] # NoEntry
    <3>1. \A a: Best(k, a) => Best(k, a)' BY SameGiven
    <3> QED BY <1>3, <2>2, <3>1 DEF EntryOK
  <2> QED BY <2>1, <2>2
<1> QED BY <1>1, <1>2, <1>3

LEMMA QuietKept ==
  ASSUME ServiceInv, UNCHANGED <<world, asking, flight, cache>>, given' = {} \/ given' = given
  PROVE ServiceInv'
<1>1. \A k \in Keys: EntryOK(k)' BY SameWorld DEF ServiceInv
<1>2. ASSUME NEW s \in given PROVE s.key \in Keys /\ Given(s.key, s.answer)' BY SameGiven DEF ServiceInv
<1> QED BY <1>1, <1>2, SameWorld DEF ServiceInv

LEMMA LookKept == ASSUME ServiceInv, NEW r \in Lookups, NEW k \in Keys, Look(r, k) PROVE ServiceInv'
<1>1. world' = world /\ flight' = flight /\ k \in Asked BY DEF Look, Asked
<1>2. CASE Fresh(cache[k])
  <2>1. given' = {[key |-> k, answer |-> cache[k].answer]} /\ UNCHANGED <<asking, cache>> BY <1>2 DEF Look
  <2>2. Given(k, cache[k].answer) BY <1>2, BestIsGiven DEF ServiceInv, EntryOK, Fresh
  <2>3. \A a: Given(k, a) => Given(k, a)' BY <1>1, SameGiven
  <2>4. \A q \in Keys: EntryOK(q)' BY <1>1, <2>1, SameWorld DEF ServiceInv
  <2> QED BY <1>1, <2>1, <2>2, <2>3, <2>4, SameWorld DEF ServiceInv
<1>3. CASE ~Fresh(cache[k])
  <2>1. /\ cache' = [cache EXCEPT ![k] = NoEntry] /\ given' = {}
        /\ asking' = [asking EXCEPT ![r] = [pc |-> "missed", key |-> k]]
    BY <1>3 DEF Look
  <2>2. asking' \in [Lookups -> Places]' BY <1>1, <2>1, SameWorld DEF ServiceInv, Places
  <2>3. cache' = [q \in Keys |-> cache'[q]] BY <2>1 DEF ServiceInv
  <2>4. ASSUME NEW q \in Keys PROVE EntryOK(q)'
    <3>1. CASE q = k BY <2>1, <3>1 DEF ServiceInv, EntryOK
    <3>2. CASE q # k
      <4>1. cache'[q] = cache[q] BY <2>1, <3>2 DEF ServiceInv
      <4> QED BY <1>1, <4>1, SameWorld DEF ServiceInv
    <3> QED BY <3>1, <3>2
  <2> QED BY <1>1, <2>1, <2>2, <2>3, <2>4, SameWorld DEF ServiceInv
<1> QED BY <1>2, <1>3

LEMMA JoinKept == ASSUME ServiceInv, NEW r \in Lookups, Join(r) PROVE ServiceInv'
<1>1. world' = world /\ cache' = cache /\ given' = {} BY DEF Join
<1>2. asking[r] \in [pc: {"missed", "waiting"}, key: Asked] BY DEF Join, ServiceInv, Places, Idle
<1>3. flight' \subseteq Asked BY <1>2 DEF Join, ServiceInv
<1>4. asking' \in [Lookups -> Places]
  <2>1. [asking[r] EXCEPT !.pc = "waiting"] \in Places BY <1>2 DEF Places
  <2>2. asking' = [asking EXCEPT ![r] = [asking[r] EXCEPT !.pc = "waiting"]] BY DEF Join
  <2> QED BY <2>1, <2>2 DEF ServiceInv
<1>5. \A q \in Keys: EntryOK(q)' BY <1>1, SameWorld DEF ServiceInv
<1> QED BY <1>1, <1>3, <1>4, <1>5, SameWorld DEF ServiceInv

LEMMA FinishKept ==
  ASSUME ServiceInv, ToldOK, NEW k \in Keys, NEW down \in Faults \union {{}}, Finish(k, down)
  PROVE ServiceInv'
<1> DEFINE prof == Profiled(k)
           a == Answer(k, down, prof)
<1>1. world' = world BY DEF Finish
<1>2. k \in Asked BY DEF Finish, ServiceInv
<1>3. prof \in ProfileAnswers \union {"skipped"} /\ (~k.bq => prof = "skipped") BY DEF Finish, Profiled, ToldOK
<1> HIDE DEF prof
<1>4. Given(k, a) BY <1>3 DEF Given
<1>5. Cacheable(a) => Best(k, a) BY <1>2, <1>3, KeptAnswer DEF ServiceInv, Asked
<1>6. /\ cache' = IF Cacheable(a) THEN [cache EXCEPT ![k] = [answer |-> a, age |-> 0]] ELSE cache
      /\ given' = {[key |-> k, answer |-> a]}
      /\ flight' = flight \ {k}
      /\ asking' = [r \in Lookups |-> IF r \in Waiting(k) THEN Idle ELSE asking[r]]
  BY DEF Finish, prof
<1> HIDE DEF a
<1>7. \A x: (Given(k, x) => Given(k, x)') /\ (Best(k, x) => Best(k, x)') BY <1>1, SameGiven
<1>8. flight' \subseteq Asked' BY <1>1, <1>6, SameWorld DEF ServiceInv
<1>9. asking' \in [Lookups -> Places'] BY <1>1, <1>6, SameWorld DEF ServiceInv, Places
<1>10. cache' = [q \in Keys |-> cache'[q]] BY <1>6 DEF ServiceInv
<1>11. ASSUME NEW q \in Keys PROVE EntryOK(q)'
  <2>1. CASE q = k /\ Cacheable(a)
    <3>1. cache'[q] = [answer |-> a, age |-> 0] BY <1>6, <2>1 DEF ServiceInv
    <3> QED BY <1>5, <1>7, <2>1, <3>1 DEF EntryOK
  <2>2. CASE ~(q = k /\ Cacheable(a))
    <3>1. cache'[q] = cache[q] BY <1>6, <2>2 DEF ServiceInv
    <3> QED BY <1>1, <3>1, SameWorld DEF ServiceInv
  <2> QED BY <2>1, <2>2
<1>12. \A s \in given': s.key \in Keys /\ Given(s.key, s.answer)' BY <1>4, <1>6, <1>7
<1> QED BY <1>1, <1>8, <1>9, <1>10, <1>11, <1>12 DEF ServiceInv

LEMMA TickKept == ASSUME ServiceInv, LookupTick PROVE ServiceInv'
<1>1. UNCHANGED <<world, asking, flight>> /\ given' = {} BY DEF LookupTick
<1>2. cache' = [k \in Keys |-> IF Fresh(cache[k]) THEN [cache[k] EXCEPT !.age = @ + 1] ELSE cache[k]]
  BY DEF LookupTick
<1>3. ASSUME NEW k \in Keys PROVE EntryOK(k)'
  <2>1. CASE Fresh(cache[k])
    <3>1. cache'[k] = [cache[k] EXCEPT !.age = cache[k].age + 1] BY <1>2, <2>1
    <3>2. Best(k, cache[k].answer) /\ DOMAIN cache[k] = {"answer", "age"}
      BY <2>1 DEF ServiceInv, EntryOK, Fresh
    <3>3. cache'[k].answer = cache[k].answer /\ DOMAIN cache'[k] = {"answer", "age"} BY <3>1, <3>2
    <3>4. \A x: Best(k, x) => Best(k, x)' BY <1>1, SameGiven
    <3> QED BY <3>2, <3>3, <3>4 DEF EntryOK
  <2>2. CASE ~Fresh(cache[k])
    <3>1. cache'[k] = cache[k] BY <1>2, <2>2
    <3> QED BY <1>1, <3>1, SameWorld DEF ServiceInv
  <2> QED BY <2>1, <2>2
<1> QED BY <1>1, <1>2, <1>3, SameWorld DEF ServiceInv

-----------------------------------------------------------------------------
(* The theorems *)

\* Every step of the service is a step of the profile's jobs, or the end of a lookup.
LEMMA ProfileView ==
  ASSUME [LookupNext]_lookupVars
  PROVE ProfileMove \/ (\E k \in Keys: Forget(k)) \/ UNCHANGED profileVars
<1>1. CASE \E k \in Keys: CallProfile(k) BY <1>1 DEF CallProfile, ProfileMove
<1>2. CASE \E k \in Keys: \E down \in IF world.troubled THEN Faults ELSE {{}}: Finish(k, down)
  BY <1>2 DEF Finish, Forget
<1>3. CASE ProfileStep \/ LookupTick BY <1>3 DEF ProfileStep, LookupTick, ProfileMove
<1>4. CASE \E r \in Lookups: Join(r) \/ \E k \in Keys: Look(r, k) BY <1>4 DEF Join, Look
<1>5. CASE ChangeKey \/ UNCHANGED lookupVars BY <1>5 DEF ChangeKey, lookupVars
<1> QED BY <1>1, <1>2, <1>3, <1>4, <1>5 DEF LookupNext

LEMMA ServiceKept == ASSUME ServiceInv, ToldOK, [LookupNext]_lookupVars PROVE ServiceInv'
<1>1. CASE \E k \in Keys: CallProfile(k) BY <1>1, QuietKept DEF CallProfile
<1>2. CASE \E k \in Keys: \E down \in IF world.troubled THEN Faults ELSE {{}}: Finish(k, down)
  BY <1>2, FinishKept
<1>3. CASE ProfileStep BY <1>3, QuietKept DEF ProfileStep
<1>4. CASE LookupTick BY <1>4, TickKept
<1>5. CASE \E r \in Lookups: Join(r) \/ \E k \in Keys: Look(r, k) BY <1>5, JoinKept, LookKept
<1>6. CASE ChangeKey BY <1>6, QuietKept DEF ChangeKey
<1>7. CASE UNCHANGED lookupVars BY <1>7, QuietKept DEF lookupVars, serviceVars
<1> QED BY <1>1, <1>2, <1>3, <1>4, <1>5, <1>6, <1>7 DEF LookupNext

\* The inductive invariant: the jobs' bucket and cache, and answers that say the truth.
THEOREM Invariant == LookupSpec => []LookupInv
<1>1. LookupInit => LookupInv BY ProfileStarts, ServiceStarts DEF LookupInit, LookupInv
<1>2. LookupInv /\ [LookupNext]_lookupVars => LookupInv'
  <2> SUFFICES ASSUME LookupInv, [LookupNext]_lookupVars PROVE LookupInv' OBVIOUS
  <2>1. ProfileInv' BY ProfileKept, ProfileView DEF LookupInv
  <2>2. ServiceInv' BY ServiceKept DEF LookupInv, ProfileInv
  <2> QED BY <2>1, <2>2 DEF LookupInv
<1> QED BY <1>1, <1>2, PTL DEF LookupSpec

\* The variables of the profile have their types (bqProfiler).
THEOREM ProfileTypeCorrect == LookupSpec => []ProfileTypeOK
<1>1. LookupInv => ProfileTypeOK BY DEF LookupInv, ProfileInv, ToldOK, BucketInv, CacheInv, ProfileTypeOK
<1> QED BY <1>1, Invariant, PTL

\* No hour sees more jobs than the bucket holds and gains, twice PerHour, whatever the lookups do (hourlyBucket.allow).
THEOREM HourlyCeiling == LookupSpec => []BucketCeiling
<1>1. LookupInv => BucketCeiling BY BucketBounds DEF LookupInv, ProfileInv
<1> QED BY <1>1, Invariant, PTL

\* No address is billed again while its last lasting answer is young and was kept (bqProfiler.run).
THEOREM NeverBilledTwice == LookupSpec => BilledOnce
<1> DEFINE Once == \A a \in Addresses:
      job[a].pc = "asked" /\ job'[a].pc = "running" => paid[a].age > ProfileTTL \/ ~paid[a].kept
<1>1. LookupInv /\ [LookupNext]_lookupVars => [Once]_profileVars
  <2> SUFFICES ASSUME LookupInv, [LookupNext]_lookupVars, NEW a \in Addresses,
                      job[a].pc = "asked", job'[a].pc = "running"
               PROVE paid[a].age > ProfileTTL \/ ~paid[a].kept
    OBVIOUS
  <2>1. CacheInv BY DEF LookupInv, ProfileInv
  <2>2. BeginJob(a)
    <3>1. CASE ProfileMove
      <4>1. CASE \E k \in Keys: AskProfile(k) \/ JoinProfile(k) \/ GiveUp(k)
        BY <2>1, <4>1 DEF AskProfile, JoinProfile, GiveUp, CacheInv, NoJob, Keys
      <4>2. CASE \E b \in Addresses: Recheck(b) \/ Refuse(b) \/ \E status \in Outcomes: EndJob(b, status)
        <5> PICK b \in Addresses: Recheck(b) \/ Refuse(b) \/ \E status \in Outcomes: EndJob(b, status) BY <4>2
        <5>1. job' = [job EXCEPT ![b] = NoJob] BY DEF Recheck, Refuse, EndJob, Tell
        <5> QED BY <2>1, <5>1 DEF CacheInv, NoJob
      <4>3. CASE \E b \in Addresses: BeginJob(b) BY <2>1, <4>3 DEF BeginJob, CacheInv
      <4>4. CASE OpenWindow \/ ProfileTick BY <2>1, <4>4 DEF OpenWindow, ProfileTick, CacheInv
      <4> QED BY <3>1, <4>1, <4>2, <4>3, <4>4 DEF ProfileMove
    <3>2. CASE (\E k \in Keys: Forget(k)) \/ UNCHANGED profileVars BY <3>2 DEF Forget, profileVars
    <3> QED BY <3>1, <3>2, ProfileView
  <2>3. ~Known(a) /\ Remembered(a) BY <2>1, <2>2 DEF BeginJob, KnownAgain, CacheInv
  <2>4. paid[a].age \in Int /\ profiles[a].age \in Int /\ ProfileTTL \in Int
    BY <2>1, ProfileAssumption DEF CacheInv
  <2> QED BY <2>1, <2>3, <2>4 DEF Known, Remembered, Stale, CacheInv
<1> QED BY <1>1, Invariant, PTL DEF LookupSpec, BilledOnce

\* "No records in the N sources checked" is said of no address that one of them has something
\* about, for any set of calls that fail (buildRiskSummary).
THEOREM CleanAnswersAreTrue == LookupSpec => []NoFalseClean
<1>1. LookupInv => NoFalseClean
  <2> SUFFICES ASSUME ServiceInv, NEW s \in Shown, Text(s.answer) = "clean", NEW c \in world.facts
               PROVE \/ c.source \notin DOMAIN s.answer.status
                     \/ s.answer.status[c.source] \in {"skipped", "not_configured"}
                     \/ c \in Excused(s.answer)
    BY DEF LookupInv, NoFalseClean
  <2>1. world \in Worlds /\ s.key \in Keys /\ Given(s.key, s.answer)
    <3>1. CASE s \in given BY <3>1 DEF ServiceInv
    <3>2. CASE s \in {[key |-> k, answer |-> cache[k].answer]: k \in {q \in Keys: cache[q] # NoEntry}}
      <4>1. PICK k \in Keys: cache[k] # NoEntry /\ s = [key |-> k, answer |-> cache[k].answer] BY <3>2
      <4> QED BY <4>1, BestIsGiven DEF ServiceInv, EntryOK
    <3> QED BY <3>1, <3>2 DEF Shown, ServiceInv
  <2>2. PICK down \in Faults \union {{}} \union Harmless, prof \in ProfileAnswers \union {"skipped"}:
          s.answer = Answer(s.key, down, prof)
    BY <2>1 DEF Given
  <2>3. Text(Answer(s.key, down, prof)) = "clean" BY <2>2
  <2>4. \/ c.source \notin DOMAIN Answer(s.key, down, prof).status
        \/ Answer(s.key, down, prof).status[c.source] \in {"skipped", "not_configured"}
        \/ c \in Excused(Answer(s.key, down, prof))
    BY <2>1, <2>3, CleanIsTrue
  <2> QED BY <2>2, <2>4
<1> QED BY <1>1, Invariant, PTL

\* The cache holds only what a lookup without a failure would say (cacheable).
THEOREM KeptAnswersAreBest == LookupSpec => []KeptIsBest
<1>1. LookupInv => KeptIsBest BY DEF LookupInv, ServiceInv, EntryOK, Best, KeptIsBest
<1> QED BY <1>1, Invariant, PTL
=============================================================================
