------------------------------ MODULE StableSupply ------------------------------
(***************************************************************************)
(* The supply sampler (opendata_stablecoin_supply.go) for one asset with    *)
(* one chain that it reads: what the issuer reports there is compared with  *)
(* the token's total on the chain, and in sum with the aggregator's figure. *)
(* Amounts are in thousandths of the reported supply.  The series it stores *)
(* are not kept here: S4 reads them, and Worlds stands for what it reads.   *)
(***************************************************************************)
EXTENDS StableRules

CONSTANTS
  TetherEvery,     \* stableTetherEvery, in ticks: 3
  RPCEvery,        \* stableRPCEvery, in ticks: 6
  Aligned,         \* stableAlignWindow, in ticks: 1
  UpdateHistory,   \* stableUpdateHistory: 8
  Reports,         \* the issuer's answers: [listed, age, old, sums], see below
  Figures,         \* the aggregator's
  Totals           \* on-chain totals: [native, bridged]

ASSUME SupplyAssumption ==
  /\ TetherEvery \in Nat \ {0} /\ RPCEvery \in Nat \ {0} /\ Aligned \in Nat
  /\ UpdateHistory \in Nat /\ UpdateHistory >= Confirm

VARIABLES
  tether,       \* the asset is Tether's, whose figures come in numbered updates
  tetherIn, rpcIn,   \* ticks before the next such call
  issuer,       \* the last good answer: does it list the chain, its age in ticks, is it
                \* older than 7 days, do its chains sum up, and its number
  figure,       \* the aggregator's last good figure
  onchain,      \* the reading kept of the chain, and whether the last attempt failed
  hourly, updates,   \* stableReconState
  recon,        \* the last comparison: [compared, confirmed]
  view,         \* stableSupplyState, as the signals read it
  round,        \* history: readings of the chain attempted
  evidence      \* history: since the restart, by update or reading, if it showed an excess

supply == <<tether, tetherIn, rpcIn, issuer, figure, onchain, hourly, updates, recon, view,
            round, evidence>>

NoReport  == [has |-> FALSE, listed |-> FALSE, age |-> 0, old |-> FALSE, sums |-> TRUE, id |-> 0]
NoFigure  == 0
NoReading == [has |-> FALSE, stale |-> TRUE, native |-> 0, bridged |-> 0]
NoRecon   == [compared |-> FALSE, confirmed |-> FALSE]
NoView    == [known |-> FALSE, at |-> -1, level |-> Unknown, compared |-> FALSE, excess |-> FALSE,
              native |-> 0, bridged |-> 0, mismatch |-> FALSE]

-----------------------------------------------------------------------------
\* collect: the calls that are due, each with its last good answer if it fails ({}).
Reported(answers, next) ==
  IF answers = {} THEN [issuer EXCEPT !.age = UpTo(@ + 1, Aligned + 1)]
  ELSE LET a == CHOOSE x \in answers : TRUE
       IN  [has |-> TRUE, listed |-> a.listed, age |-> a.age, old |-> a.old, sums |-> a.sums,
            id |-> IF next \/ issuer.id = 0 THEN issuer.id + 1 ELSE issuer.id]
Read(answers) ==
  IF answers = {} THEN [onchain EXCEPT !.stale = TRUE]
  ELSE LET t == CHOOSE x \in answers : TRUE
       IN  [has |-> TRUE, stale |-> FALSE, native |-> t.native, bridged |-> t.bridged]

\* stableToleranceNative and the excess of an issuer who reports 1000.
Exceeds(reading) == 1000 - reading.native > 1

\* recordUpdate and the run of updates with the excess.
RecordUpdate(us, id, exceeds) ==
  LET again == us # <<>> /\ Last(us).id = id
      all   == Append(IF again THEN Front(us) ELSE us, [id |-> id, exceeds |-> exceeds])
  IN  SubSeq(all, Max({1, Len(all) - UpdateHistory + 1}), Len(all))
Run(us) == Len(us) - Max({0} \cup {i \in DOMAIN us : ~us[i].exceeds})

\* stableOnchainRecon, given the answers at hand: the new counters and the comparison.  A
\* chain that the issuer does not list is passed over.
Compared(rep, read) == rep.has /\ rep.listed /\ read.has
Skipped == [compared |-> FALSE, confirmed |-> FALSE]
Counts(rep, read) == Compared(rep, read) /\ ~read.stale /\ rep.age <= Aligned
Hourly(rep, read) ==
  IF tether \/ ~rep.has \/ ~rep.listed THEN hourly
  ELSE IF Counts(rep, read) /\ Exceeds(read) THEN UpTo(hourly + 1, Confirm) ELSE 0
Updates(rep, read) ==
  IF ~tether \/ ~Compared(rep, read) THEN updates
  ELSE IF rep.old THEN <<>>
  ELSE IF read.stale THEN updates ELSE RecordUpdate(updates, rep.id, Exceeds(read))
ReconOf(rep, read) ==
  IF tether THEN
    IF Compared(rep, read) /\ ~rep.old /\ ~read.stale
    THEN [compared |-> TRUE, confirmed |-> Run(Updates(rep, read)) >= Confirm] ELSE Skipped
  ELSE IF Counts(rep, read)
       THEN [compared |-> TRUE, confirmed |-> Hourly(rep, read) >= Confirm] ELSE Skipped

\* buildStableSupplyAsset, as far as the signals read it.  Neither the aggregator's 0.5% and
\* 2% nor what S10 adds up depends on the comparison.
AggLevel(rep, fig) ==
  IF ~rep.has \/ fig = NoFigure THEN Unknown
  ELSE Max({0} \cup {k \in 1 .. 2 : Mag(fig - 1000) > <<5, 20>>[k]})
ViewOf(rep, fig, read, rec) ==
  [known |-> TRUE, at |-> view.at + 1, level |-> AggLevel(rep, fig),
   compared |-> rec.compared, excess |-> rec.confirmed,
   native |-> IF rep.has /\ rep.listed THEN 1000 ELSE read.native, bridged |-> read.bridged,
   mismatch |-> tether /\ rep.has /\ ~rep.sums]

\* tick: the three calls, the comparison if the chain was asked, and the view.  An update
\* older than 7 days starts the count over.
RPCDue    == rpcIn = 0
TetherDue == tetherIn = 0
WithEntry(f, key, x) == [k \in DOMAIN f \cup {key} |-> IF k = key THEN x ELSE f[k]]
Evidence(rep, read) ==
  LET key == IF tether THEN rep.id ELSE round + 1
  IN  IF tether /\ Compared(rep, read) /\ rep.old THEN <<>>
      ELSE IF ~rep.has \/ ~rep.listed \/ (tether /\ (~read.has \/ read.stale)) THEN evidence
      ELSE WithEntry(evidence, key, (Counts(rep, read) \/ tether) /\ Exceeds(read))
SupplyTick(answers, next, figures, totals) ==
  LET asked == ~tether \/ TetherDue
      rep   == IF asked THEN Reported(answers, next) ELSE issuer
      fig   == IF figures = {} THEN figure ELSE CHOOSE f \in figures : TRUE
      read  == IF rpcIn = 0 THEN Read(totals) ELSE onchain
      rec   == IF RPCDue THEN ReconOf(rep, read) ELSE recon
  IN  /\ (~asked => answers = {} /\ ~next) /\ (rpcIn # 0 => totals = {})
      /\ tetherIn' = IF TetherDue THEN TetherEvery - 1 ELSE tetherIn - 1
      /\ rpcIn' = IF rpcIn = 0 THEN RPCEvery - 1 ELSE rpcIn - 1
      /\ issuer' = rep /\ figure' = fig /\ onchain' = read /\ recon' = rec
      /\ hourly'  = IF RPCDue THEN Hourly(rep, read) ELSE hourly
      /\ updates' = IF RPCDue THEN Updates(rep, read) ELSE updates
      /\ view' = ViewOf(rep, fig, read, rec)
      /\ round' = IF rpcIn = 0 THEN round + 1 ELSE round
      /\ evidence' = IF rpcIn = 0 THEN Evidence(rep, read) ELSE evidence
      /\ tether' = tether

\* The memory is gone; the view's time goes on.
SupplyRestart ==
  /\ tetherIn' = 0 /\ rpcIn' = 0 /\ issuer' = [NoReport EXCEPT !.id = issuer.id]
  /\ figure' = NoFigure /\ onchain' = NoReading /\ hourly' = 0 /\ updates' = <<>>
  /\ recon' = NoRecon /\ view' = [NoView EXCEPT !.at = view.at] /\ evidence' = <<>>
  /\ UNCHANGED <<tether, round>>

SupplyInit ==
  /\ tether \in BOOLEAN /\ tetherIn = 0 /\ rpcIn = 0 /\ issuer = NoReport
  /\ figure = NoFigure /\ onchain = NoReading /\ hourly = 0 /\ updates = <<>>
  /\ recon = NoRecon /\ view = NoView /\ round = 0 /\ evidence = <<>>

-----------------------------------------------------------------------------
SupplyTypeOK ==
  /\ tether \in BOOLEAN /\ tetherIn \in 0 .. TetherEvery - 1 /\ rpcIn \in 0 .. RPCEvery - 1
  /\ issuer.age \in Nat /\ issuer.id \in Nat /\ figure \in Figures \cup {NoFigure}
  /\ hourly \in 0 .. Confirm /\ Len(updates) <= UpdateHistory
  /\ view.level \in Unknown .. 2 /\ round \in Nat /\ DOMAIN evidence \subseteq Nat

\* An issuer is said to report more than exists only on two pieces of evidence, neither of
\* which is the same reading or update looked at twice, and the last two agree.
ExcessEarned ==
  recon.confirmed =>
    LET last == Max(DOMAIN evidence)
    IN  /\ Cardinality(DOMAIN evidence) >= 2 /\ evidence[last]
        /\ evidence[Max(DOMAIN evidence \ {last})]

\* Why: where figures are not numbered, the counter is no more than the run of readings that
\* ends the evidence; Tether's updates are the newest evidence, in the order of their numbers.
CountInv ==
  /\ DOMAIN evidence \subseteq 1 .. round /\ (recon.confirmed => hourly >= Confirm)
  /\ hourly >= 1 => \E k \in DOMAIN evidence :
       /\ evidence[k] /\ \A j \in DOMAIN evidence : j <= k
       /\ hourly >= 2 => \E l \in DOMAIN evidence :
            l < k /\ evidence[l] /\ \A j \in DOMAIN evidence \ {k} : j <= l
UpdatesInv ==
  /\ DOMAIN evidence \subseteq 0 .. issuer.id /\ (recon.confirmed => Run(updates) >= Confirm)
  /\ \A i \in DOMAIN updates :
       updates[i].id \in DOMAIN evidence /\ evidence[updates[i].id] = updates[i].exceeds
  /\ \A i, j \in DOMAIN updates : i < j => updates[i].id < updates[j].id
  /\ \A k \in DOMAIN evidence :
       \/ \E i \in DOMAIN updates : updates[i].id = k
       \/ Len(updates) = UpdateHistory /\ k < updates[1].id
SupplyInv ==
  /\ tether \in BOOLEAN /\ round \in Nat /\ hourly \in 0 .. Confirm
  /\ "id" \in DOMAIN issuer /\ issuer.id \in Nat
  /\ updates \in Seq([id : Nat, exceeds : BOOLEAN]) /\ Len(updates) <= UpdateHistory
  /\ IF tether THEN UpdatesInv ELSE CountInv

================================================================================
