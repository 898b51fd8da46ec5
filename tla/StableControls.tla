----------------------------- MODULE StableControls -----------------------------
(***************************************************************************)
(* The contract controls (opendata_stablecoin_controls.go): every sample    *)
(* reads a monitored field from the chain's RPC endpoints, one of which may *)
(* lie, and a change counts once two endpoints or two samples agree.  One   *)
(* field: the fields of a sample do not depend on each other.               *)
(***************************************************************************)
EXTENDS StableRules

CONSTANTS
  Endpoints,    \* the endpoints of a chain, in the order of the configuration
  Liar,         \* the endpoint that may return what was never on the chain
  FieldsOf,     \* monitored fields: [critical, warns, alone], alone for TronGrid's
  PendingAge,   \* stableControlPendingMaxAge, in samples: 1
  MaxStale      \* stableS8MaxStale, in samples: 3

ASSUME ControlsAssumption ==
  Endpoints \in Seq(STRING) /\ Endpoints # <<>> /\ PendingAge \in Nat \ {0} /\ MaxStale \in Nat

\* A value of the field; "set" is the true of a flag that is critical.
Values == {"unset", "set"}
Unseen == "none"

VARIABLES
  field,        \* the field that is watched
  truth,        \* its value on the chain
  been,         \* history: every value it has had on the chain
  control,      \* stable_control_state: value, pending value and its age, disputed, and
                \* the age of the last sight of the value
  changes,      \* stable_control_events: the changes, oldest first, with "recent" for those
                \* of the last 7 days
  seq,          \* samples taken by this process; rotates the primary endpoint
  quiet,        \* history: no honest endpoint answered in the last sample stored
  gap,          \* intervals until the next sample: 1, but after a restart
  clear         \* history: samples in a row, at most 2 and no further apart than PendingAge,
                \* in which every endpoint asked told the truth as it is now

controls == <<field, truth, been, control, changes, seq, quiet, gap, clear>>

NoControl == [value |-> Unseen, pending |-> Unseen, age |-> 0, disputed |-> FALSE, seen |-> 0]

-----------------------------------------------------------------------------
\* One call: an error code, the value, one from before the last change that a lagging node
\* still returns, or a lie.
NoAnswer == "error"
Honest(e) == e # Liar
Answers(e) == {NoAnswer, truth} \cup been \cup (IF Honest(e) THEN {} ELSE Values)
FaultOf(e, answer) ==
  IF answer = truth THEN "none" ELSE IF answer = NoAnswer THEN "silences"
  ELSE IF answer \in been THEN "lags" ELSE "lies"

\* stableReadDeployment: the endpoints in turn from the primary one, until one answers.
Order == LET n == Len(Endpoints)
         IN  IF field.alone THEN <<Endpoints[1]>>
             ELSE [i \in 1 .. n |-> Endpoints[((seq + i - 1) % n) + 1]]
AskedFirst(said) ==
  LET silent == {i \in DOMAIN Order : \A j \in 1 .. i : said[Order[j]] = NoAnswer}
  IN  {Order[i] : i \in 1 .. Min({Cardinality(silent) + 1, Len(Order)})}
Answered(said) == {e \in AskedFirst(said) : said[e] # NoAnswer}

\* secondRead: the first other endpoint, when the value is not the confirmed one.
Others(e)     == {i \in DOMAIN Endpoints : ~field.alone /\ Endpoints[i] # e}
FirstOther(e) == IF Others(e) = {} THEN {} ELSE {Endpoints[Min(Others(e))]}

\* stableControlStep, given the value read and the second reading, if there is one.  Ages
\* are by the clock, whatever restarts fell in between.
OlderBy(n, age, sight, most) == IF sight = Unseen THEN 0 ELSE UpTo(age + n, most + 1)
AgedBy(n) == [control EXCEPT !.age  = OlderBy(n, @, control.pending, PendingAge),
                             !.seen = OlderBy(n, @, control.value, MaxStale)]
Aged == AgedBy(gap)
Cleared(v) == [value |-> v, pending |-> Unseen, age |-> 0, disputed |-> FALSE, seen |-> 0]
BugFreshPending(v) == control.pending = v /\ Aged.age < PendingAge
FreshPending(v) == control.pending = v /\ Aged.age <= PendingAge
BugDisputes(v, second) == FALSE
Disputes(v, second) == second \notin {NoAnswer, v}
Confirmed(v, second) ==
  \/ second = v
  \/ ~Disputes(v, second) /\ FreshPending(v) /\ ~control.disputed
Pending(v, disputed) ==
  [Aged EXCEPT !.pending = v, !.age = 0,
               !.disputed = disputed \/ (FreshPending(v) /\ control.disputed)]
Stepped(v, second) ==
  IF v = NoAnswer THEN Aged
  ELSE IF v = control.value \/ Confirmed(v, second) THEN Cleared(v)
  ELSE Pending(v, Disputes(v, second))

\* tick: the field is read, stepped and stored with its event in one transaction.  A sample
\* that fails, at the read of the stored state or at the save, leaves the state to age.
Asked(said, second) ==
  LET got == Answered(said)
      v   == IF got = {} THEN NoAnswer ELSE said[CHOOSE e \in got : TRUE]
      other == IF got = {} \/ v = control.value THEN {} ELSE FirstOther(CHOOSE e \in got : TRUE)
  IN  [value |-> v, first |-> AskedFirst(said), other |-> other,
       second |-> IF other = {} THEN NoAnswer ELSE second]
HonestAnswer(said, a) ==
  \/ \E e \in a.first : Honest(e) /\ said[e] # NoAnswer
  \/ a.second # NoAnswer /\ \E e \in a.other : Honest(e)
Sample(said, second) ==
  LET a   == Asked(said, second)
      new == Stepped(a.value, a.second)
  IN  /\ control' = new
      /\ changes' = IF new.value # control.value /\ control.value # Unseen
                    THEN Append(changes, [to |-> new.value, recent |-> TRUE]) ELSE changes
      /\ quiet' = ~HonestAnswer(said, a)
      /\ clear' = IF (\A e \in a.first : said[e] = truth) /\ (a.other # {} => a.second = truth)
                  THEN UpTo(clear + 1, 2) ELSE 0
      /\ gap' = 1 /\ seq' = (seq + 1) % Len(Endpoints) /\ UNCHANGED <<field, truth, been>>
SampleFails ==
  /\ control' = Aged /\ gap' = 1 /\ seq' = (seq + 1) % Len(Endpoints) /\ clear' = 0
  /\ UNCHANGED <<field, truth, been, changes, quiet>>

-----------------------------------------------------------------------------
\* stableS8Raw of the states and the events that were read: the field alone.
S8Raw(state, events) ==
  LET recent == SelectSeq(events, LAMBDA ev : ev.recent)
  IN  IF field.critical /\ state.value = "set" THEN Reading(3)
      ELSE IF state.value = Unseen \/ state.seen > MaxStale THEN UnknownReading
      ELSE IF recent = <<>> THEN Reading(0)
      ELSE IF field.warns THEN Reading(2) ELSE Info

\* The chain changes; an event leaves the 7 days.
ChainChanges ==
  /\ truth' \in Values \ {truth} /\ been' = been \cup {truth'} /\ clear' = 0
  /\ UNCHANGED <<field, control, changes, seq, quiet, gap>>
EventsAge ==
  /\ \E i \in DOMAIN changes : changes[i].recent
  /\ changes' = [i \in DOMAIN changes |-> [changes[i] EXCEPT !.recent = FALSE]]
  /\ UNCHANGED <<field, truth, been, control, seq, quiet, gap, clear>>

\* A restart starts the rotation again, after a time down that is short, as long as a pending
\* value lasts, or longer; the first sample comes two minutes later, in the interval that had
\* begun or in the next one.
ControlsRestart ==
  /\ \E down \in {0, PendingAge, MaxStale + 1} : control' = AgedBy(down)
  /\ seq' = 0 /\ gap' \in {0, 1}
  /\ clear' = IF control'.age + gap' <= PendingAge THEN clear ELSE 0
  /\ UNCHANGED <<field, truth, been, changes, quiet>>

ControlsInit ==
  /\ field \in FieldsOf /\ truth = "unset" /\ been = {"unset"}
  /\ control = NoControl /\ changes = <<>> /\ seq = 0 /\ quiet = FALSE /\ gap = 1 /\ clear = 0

-----------------------------------------------------------------------------
ControlsTypeOK ==
  /\ field \in FieldsOf /\ truth \in been /\ been \subseteq Values
  /\ control \in [value : Values \cup {Unseen}, pending : Values \cup {Unseen},
                  age : 0 .. PendingAge + 1, disputed : BOOLEAN, seen : 0 .. MaxStale + 1]
  /\ quiet \in BOOLEAN
  /\ seq \in 0 .. Len(Endpoints) - 1 /\ gap \in {0, 1} /\ clear \in 0 .. 2

\* A value that was never on the chain is confirmed only if no honest endpoint answered,
\* when asked, in this sample and in the last one stored before it, whatever the lying endpoint
\* says and however the rotation, restarts, quick and slow, and lost samples fall: two samples
\* are not two witnesses, but one honest answer among them is enough.
LieNeedsSilence ==
  [][control'.value # control.value /\ control'.value \notin been => quiet /\ quiet']_controls

\* "A change needs 2 consecutive samples or 2 RPC endpoints agreeing" (README.md:582), and no
\* more: however the field was disputed, pending or out of sight before, two samples in a row
\* of endpoints that tell the truth confirm it, with a quick restart between them or none.
TruthConfirmed == clear = 2 => control.value = truth

\* Why: a value no honest endpoint can have named is pending without a dispute only while
\* honest endpoints keep silent; and one sample of the truth confirms it, or makes it
\* pending without a dispute where there is nobody to ask a second time.
NoWitness == field.alone \/ \A i, j \in DOMAIN Endpoints : Endpoints[i] = Endpoints[j]
ControlsInv ==
  /\ (control.pending \in Values \ been /\ ~control.disputed => quiet)
  /\ (NoWitness => ~control.disputed)
  /\ (clear > 0 /\ control.value # truth =>
        clear = 1 /\ NoWitness /\ control.pending = truth
        /\ control.age + gap <= PendingAge)

================================================================================
