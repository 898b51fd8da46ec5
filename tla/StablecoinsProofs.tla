--------------------------- MODULE StablecoinsProofs ---------------------------
(* Proofs about Stablecoins for every configuration of endpoints, limit and bound. *)
EXTENDS Stablecoins, SumProofs, SequenceTheorems, TLAPS

-----------------------------------------------------------------------------
(* Facts about the operators.                                               *)

LEMMA MinIsSmallest ==
  ASSUME NEW S \in SUBSET Nat, S # {}
  PROVE  Min(S) \in S /\ \A y \in S : Min(S) <= y
<1> DEFINE Upto(n) == S \cap (0 .. n)
           T == {Upto(n) : n \in S}
<1>1. IsWellFoundedOn(StrictSubsetOrdering(S), FiniteSubsetsOf(S))
  BY FS_StrictSubsetOrderingWellFounded
<1>2. \A n \in S : Upto(n) \in FiniteSubsetsOf(S)
  <2> TAKE n \in S
  <2>1. IsFiniteSet(0 .. n) BY FS_Interval
  <2>2. IsFiniteSet(Upto(n)) BY <2>1, FS_Intersection
  <2> QED BY <2>2 DEF FiniteSubsetsOf
<1>3. T \subseteq FiniteSubsetsOf(S) /\ T # {} BY <1>2
<1>4. PICK U \in T : \A V \in T : ~(<<V, U>> \in StrictSubsetOrdering(S))
  <2> HIDE DEF T
  <2> QED BY <1>1, <1>3, WFMin
<1>5. PICK x \in S : U = Upto(x) OBVIOUS
<1>6. ASSUME NEW y \in S PROVE x =< y
  <2> SUFFICES ASSUME y < x PROVE FALSE OBVIOUS
  <2>1. Upto(y) \in T /\ Upto(y) \subseteq S /\ Upto(x) \subseteq S OBVIOUS
  <2>2. Upto(y) \subseteq Upto(x) /\ x \in Upto(x) /\ x \notin Upto(y) OBVIOUS
  <2>3. <<Upto(y), U>> \in StrictSubsetOrdering(S)
    BY <1>5, <2>1, <2>2 DEF StrictSubsetOrdering
  <2> QED BY <1>4, <2>1, <2>3
<1> QED BY <1>6 DEF Min

LEMMA MinOfTwo ==
  ASSUME NEW a \in Int, NEW b \in Int
  PROVE  Min({a, b}) = IF a <= b THEN a ELSE b
BY DEF Min

LEMMA MaxOfTwo ==
  ASSUME NEW a \in Int, NEW b \in Int
  PROVE  Max({a, b}) = IF a >= b THEN a ELSE b
BY DEF Max

-----------------------------------------------------------------------------
(* The contract controls: whom a sample asks and what it hears.             *)

Nodes == ToSet(Endpoints)
Turn  == 0 .. Len(Endpoints) - 1

LEMMA OrderType ==
  ASSUME seq \in Turn
  PROVE  /\ Len(Order) \in Nat \ {0} /\ DOMAIN Order = 1 .. Len(Order)
         /\ \A i \in 1 .. Len(Order) : Order[i] \in Nodes
<1> DEFINE n == Len(Endpoints)
<1>1. n \in Nat \ {0} /\ Endpoints \in Seq(STRING) /\ DOMAIN Endpoints = 1 .. n
  BY ControlsAssumption
<1>2. \A i \in 1 .. n : Endpoints[i] \in Nodes
  BY <1>1 DEF Nodes, ToSet
<1>3. CASE field.alone
  <2>1. Order = <<Endpoints[1]>> BY <1>3 DEF Order
  <2> QED BY <1>1, <1>2, <2>1
<1>4. CASE ~field.alone
  <2>1. Order = [i \in 1 .. n |-> Endpoints[((seq + i - 1) % n) + 1]] BY <1>4 DEF Order
  <2>2. \A i \in 1 .. n : ((seq + i - 1) % n) + 1 \in 1 .. n BY <1>1 DEF Turn
  <2>3. \A i \in 1 .. n : Order[i] \in Nodes BY <1>2, <2>1, <2>2
  <2>4. DOMAIN Order = 1 .. n /\ Len(Order) = n BY <1>1, <2>1
  <2> QED BY <1>1, <2>3, <2>4
<1> QED BY <1>3, <1>4

\* The endpoints asked are those up to the first that answers.
LEMMA AskedIsPrefix ==
  ASSUME seq \in Turn, NEW said
  PROVE  \E n \in 1 .. Len(Order) :
           /\ AskedFirst(said) = {Order[i] : i \in 1 .. n}
           /\ \A i \in 1 .. n - 1 : said[Order[i]] = NoAnswer
<1> DEFINE L == Len(Order)
           silent == {i \in DOMAIN Order : \A j \in 1 .. i : said[Order[j]] = NoAnswer}
           heard  == {i \in 1 .. L : said[Order[i]] # NoAnswer}
<1>1. L \in Nat \ {0} /\ DOMAIN Order = 1 .. L BY OrderType
<1>2. AskedFirst(said) = {Order[i] : i \in 1 .. Min({Cardinality(silent) + 1, L})}
  BY DEF AskedFirst
<1>3. \A n \in 0 .. L :
         silent = 1 .. n => Min({Cardinality(silent) + 1, L}) = IF n = L THEN L ELSE n + 1
  <2> SUFFICES ASSUME NEW n \in 0 .. L, silent = 1 .. n
               PROVE  Min({Cardinality(silent) + 1, L}) = IF n = L THEN L ELSE n + 1
    OBVIOUS
  <2>1. Cardinality(1 .. n) = n BY <1>1, FS_Interval
  <2> HIDE DEF L, silent
  <2>2. Min({n + 1, L}) = IF n + 1 <= L THEN n + 1 ELSE L BY <1>1, MinOfTwo
  <2>3. Cardinality(silent) = n BY <2>1, Zenon
  <2>4. Min({Cardinality(silent) + 1, L}) = Min({n + 1, L}) BY <2>3, Zenon
  <2> QED BY <1>1, <2>2, <2>4
<1>4. CASE heard = {}
  <2>1. silent = 1 .. L BY <1>1, <1>4
  <2> HIDE DEF silent
  <2>2. Min({Cardinality(silent) + 1, L}) = L
    <3>1. L \in 0 .. L BY <1>1
    <3> HIDE DEF L
    <3> QED BY <1>3, <2>1, <3>1, Zenon
  <2>3. \A i \in 1 .. L - 1 : said[Order[i]] = NoAnswer BY <1>1, <1>4
  <2> HIDE DEF L, heard
  <2> QED BY <1>1, <1>2, <2>2, <2>3 DEF L
<1>5. CASE heard # {}
  <2> DEFINE k == Min(heard)
  <2>0. heard \in SUBSET Nat BY <1>1
  <2>1. k \in heard /\ \A y \in heard : k <= y
    <3> HIDE DEF heard
    <3> QED BY <2>0, <1>5, MinIsSmallest
  <2>2. k \in 1 .. L /\ k \in Nat BY <1>1, <2>1
  <2> HIDE DEF k
  <2>3. \A i \in 1 .. k - 1 : said[Order[i]] = NoAnswer
    <3> SUFFICES ASSUME NEW i \in 1 .. k - 1, said[Order[i]] # NoAnswer PROVE FALSE
      OBVIOUS
    <3>1. i \in heard BY <1>1, <2>2
    <3> QED BY <2>1, <2>2, <3>1
  <2>4. silent = 1 .. k - 1 BY <1>1, <2>1, <2>2, <2>3
  <2> HIDE DEF silent, heard
  <2>5. k - 1 \in 0 .. L /\ k - 1 # L /\ (k - 1) + 1 = k BY <1>1, <2>2
  <2>6. Min({Cardinality(silent) + 1, L}) = k
    <3> HIDE DEF L
    <3> QED BY <1>3, <2>4, <2>5
  <2> QED BY <1>2, <2>2, <2>3, <2>6
<1> QED BY <1>4, <1>5

\* The second reading is of another endpoint.
LEMMA OtherIsAnother ==
  ASSUME NEW e \in Nodes
  PROVE  /\ \A o \in FirstOther(e) : o \in Nodes /\ o # e
         /\ FirstOther(e) = {} <=> NoWitness
<1>1. Endpoints \in Seq(STRING) /\ DOMAIN Endpoints \subseteq Nat
  BY ControlsAssumption
<1>2. Others(e) \in SUBSET Nat BY <1>1 DEF Others
<1>3. Others(e) = {} <=> NoWitness
  BY DEF Others, NoWitness, Nodes, ToSet
<1>4. CASE Others(e) = {}
  BY <1>3, <1>4 DEF FirstOther
<1>5. CASE Others(e) # {}
  <2>1. Min(Others(e)) \in Others(e) BY <1>2, <1>5, MinIsSmallest
  <2>2. Endpoints[Min(Others(e))] \in Nodes /\ Endpoints[Min(Others(e))] # e
    BY <2>1 DEF Others, Nodes, ToSet
  <2>3. FirstOther(e) = {Endpoints[Min(Others(e))]} BY <1>5 DEF FirstOther
  <2> QED BY <1>3, <1>5, <2>2, <2>3
<1> QED BY <1>4, <1>5

\* What a sample knows: either nobody answered, or one endpoint did and the ones asked
\* before it did not; another is asked for a value that is not the confirmed one.
Silent(said, a) ==
  /\ a.value = NoAnswer /\ a.other = {} /\ a.second = NoAnswer
  /\ \A f \in a.first : said[f] = NoAnswer
HeardFrom(e, said, second, a) ==
  /\ e \in a.first /\ a.value = said[e] /\ said[e] # NoAnswer
  /\ \A f \in a.first : f # e => said[f] = NoAnswer
  /\ a.other = IF said[e] = control.value THEN {} ELSE FirstOther(e)
  /\ a.second = IF a.other = {} THEN NoAnswer ELSE second

LEMMA WhatIsAsked ==
  ASSUME seq \in Turn, NEW said, NEW second
  PROVE  LET a == Asked(said, second)
         IN  /\ a.first \subseteq Nodes /\ a.first # {}
             /\ Silent(said, a) \/ \E e \in Nodes : HeardFrom(e, said, second, a)
<1> DEFINE a == Asked(said, second)
           got == Answered(said)
           one == CHOOSE e \in got : TRUE
<1>1. PICK n \in 1 .. Len(Order) :
           /\ AskedFirst(said) = {Order[i] : i \in 1 .. n}
           /\ \A i \in 1 .. n - 1 : said[Order[i]] = NoAnswer
  BY AskedIsPrefix
<1>2. a.first = AskedFirst(said) BY DEF Asked
<1>3. a.first \subseteq Nodes /\ a.first # {} BY <1>1, <1>2, OrderType
<1>4. CASE got = {}
  <2>1. Silent(said, a) BY <1>4 DEF Silent, Asked, Answered
  <2> QED BY <1>3, <2>1
<1>5. CASE got # {}
  <2>1. one \in got BY <1>5
  <2>2. one \in a.first /\ said[one] # NoAnswer BY <1>2, <2>1 DEF Answered
  <2>3. \A f \in a.first : said[f] # NoAnswer => f = Order[n]
    BY <1>1, <1>2, OrderType
  <2>4. \A f \in a.first : f # one => said[f] = NoAnswer BY <2>2, <2>3
  <2>5. a.value = said[one] BY <1>5 DEF Asked
  <2>6. a.other = IF said[one] = control.value THEN {} ELSE FirstOther(one)
    BY <1>5 DEF Asked
  <2>7. a.second = IF a.other = {} THEN NoAnswer ELSE second
    BY <1>5 DEF Asked
  <2> HIDE DEF a, one
  <2>8. HeardFrom(one, said, second, a)
    BY <2>2, <2>4, <2>5, <2>6, <2>7 DEF HeardFrom
  <2> QED BY <1>3, <2>2, <2>8 DEF a
<1> QED BY <1>4, <1>5

-----------------------------------------------------------------------------
(* The contract controls: what a sample does to the record.                 *)

ControlRecords ==
  [value : Values \cup {Unseen}, pending : Values \cup {Unseen}, age : 0 .. PendingAge + 1,
   disputed : BOOLEAN, seen : 0 .. MaxStale + 1]

LEMMA AgedIs ==
  ASSUME control \in ControlRecords, NEW n \in Nat
  PROVE  /\ AgedBy(n) \in ControlRecords /\ AgedBy(n).value = control.value
         /\ AgedBy(n).pending = control.pending /\ AgedBy(n).disputed = control.disputed
         /\ control.age + n <= PendingAge => AgedBy(n).age <= control.age + n
         /\ control.pending # Unseen /\ AgedBy(n).age <= PendingAge
              => AgedBy(n).age = control.age + n
<1> DEFINE older == OlderBy(n, control.age, control.pending, PendingAge)
           longer == OlderBy(n, control.seen, control.value, MaxStale)
<1>1. /\ older \in 0 .. PendingAge + 1 /\ longer \in 0 .. MaxStale + 1
      /\ control.age + n <= PendingAge => older <= control.age + n
      /\ control.pending # Unseen /\ older <= PendingAge => older = control.age + n
  BY ControlsAssumption DEF OlderBy, UpTo, ControlRecords
<1>2. AgedBy(n) = [control EXCEPT !.age = older, !.seen = longer] BY DEF AgedBy
<1> HIDE DEF older, longer
<1> QED BY <1>1, <1>2 DEF ControlRecords

LEMMA ClearedIs ==
  ASSUME NEW v \in Values
  PROVE  /\ Cleared(v) \in ControlRecords /\ Cleared(v).value = v
         /\ Cleared(v).pending = Unseen /\ Cleared(v).disputed = FALSE
BY ControlsAssumption DEF Cleared, ControlRecords

LEMMA PendingIs ==
  ASSUME control \in ControlRecords, gap \in {0, 1}, NEW v \in Values, NEW d \in BOOLEAN
  PROVE  /\ Pending(v, d) \in ControlRecords /\ Pending(v, d).value = control.value
         /\ Pending(v, d).pending = v /\ Pending(v, d).age = 0
         /\ Pending(v, d).disputed <=> (d \/ (FreshPending(v) /\ control.disputed))
<1> DEFINE still == d \/ (FreshPending(v) /\ control.disputed)
<1>1. still \in BOOLEAN BY DEF ControlRecords
<1>2. Pending(v, d) = [Aged EXCEPT !.pending = v, !.age = 0, !.disputed = still]
  BY DEF Pending
<1>3. Aged \in ControlRecords /\ Aged.value = control.value BY AgedIs DEF Aged
<1>4. 0 \in 0 .. PendingAge + 1 /\ v \in Values \cup {Unseen} BY ControlsAssumption
<1> HIDE DEF still
<1>5. /\ Pending(v, d) \in ControlRecords /\ Pending(v, d).value = control.value
      /\ Pending(v, d).pending = v /\ Pending(v, d).age = 0 /\ Pending(v, d).disputed = still
  BY <1>1, <1>2, <1>3, <1>4 DEF ControlRecords
<1> QED BY <1>5 DEF still

\* The answers that ControlsSample admits.
Possible(said, second) ==
  LET a == Asked(said, second)
  IN  IF a.other = {} THEN second = NoAnswer ELSE \A e \in a.other : second \in Answers(e)

\* If the value read was never on the chain and the second reading does not dispute it,
\* only the lying endpoint answered.
LEMMA LiarAlone ==
  ASSUME truth \in been, been \subseteq Values, NEW said \in Said, NEW second,
         Possible(said, second), NEW a, a = Asked(said, second),
         NEW e \in Nodes, HeardFrom(e, said, second, a),
         a.value \notin been, ~Disputes(a.value, a.second)
  PROVE  a.second = NoAnswer /\ ~HonestAnswer(said, a)
<1>1. \A f \in Nodes : said[f] \in Answers(f) /\ said[f] \in Values \cup {NoAnswer}
  BY DEF Said, Nodes
<1>2. a.value = said[e] /\ said[e] # NoAnswer BY DEF HeardFrom
<1>3. e = Liar BY <1>1, <1>2 DEF Answers, Honest
<1>4. ASSUME a.second # NoAnswer PROVE FALSE
  <2>1. a.other # {} /\ a.second = second /\ a.other \subseteq FirstOther(e)
    BY <1>4 DEF HeardFrom
  <2>2. PICK o \in a.other : second \in Answers(o) BY <2>1 DEF Possible
  <2>3. o # Liar BY <1>3, <2>1, <2>2, OtherIsAnother
  <2>4. second \in been BY <1>4, <2>1, <2>2, <2>3 DEF Answers, Honest
  <2> QED BY <1>4, <2>1, <2>4 DEF Disputes
<1>5. \A f \in a.first : Honest(f) => said[f] = NoAnswer
  BY <1>3 DEF HeardFrom, Honest
<1> QED BY <1>4, <1>5 DEF HonestAnswer

\* A sample stores a record that is right about what it heard, and confirms a value that was
\* never on the chain only when this sample and the last one heard no honest endpoint.
LEMMA SampleKeeps ==
  ASSUME ControlsTypeOK, ControlsInv, NEW said \in Said, NEW second,
         Possible(said, second), Sample(said, second)
  PROVE  /\ ControlsTypeOK' /\ ControlsInv'
         /\ control'.value # control.value /\ control'.value \notin been => quiet /\ quiet'
<1> DEFINE a == Asked(said, second)
           new == Stepped(a.value, a.second)
           allTrue == (\A f \in a.first : said[f] = truth) /\ (a.other # {} => a.second = truth)
<1>1. /\ seq \in Turn /\ control \in ControlRecords /\ truth \in been /\ been \subseteq Values
      /\ gap \in {0, 1}
  BY DEF ControlsTypeOK, Turn, ControlRecords
<1>2. /\ control' = new /\ quiet' = ~HonestAnswer(said, a)
      /\ clear' = (IF allTrue THEN UpTo(clear + 1, 2) ELSE 0)
      /\ gap' = 1 /\ seq' = (seq + 1) % Len(Endpoints) /\ UNCHANGED <<field, truth, been>>
  BY DEF Sample
<1>3. a.first \subseteq Nodes /\ a.first # {}
  BY <1>1, WhatIsAsked
<1>4. Silent(said, a) \/ \E e \in Nodes : HeardFrom(e, said, second, a)
  BY <1>1, WhatIsAsked
<1>5. NoAnswer \notin Values /\ Unseen \notin Values
  BY DEF NoAnswer, Unseen, Values
<1>6. clear' \in 0 .. 2 /\ seq' \in 0 .. Len(Endpoints) - 1 /\ quiet' \in BOOLEAN
  <2>1. clear' \in 0 .. 2 BY <1>2 DEF ControlsTypeOK, UpTo
  <2>2. Len(Endpoints) \in Nat \ {0} /\ seq \in Nat BY <1>1, ControlsAssumption DEF Turn
  <2>3. seq' \in 0 .. Len(Endpoints) - 1 BY <1>2, <2>2
  <2> QED BY <1>2, <2>1, <2>3
<1>7. SUFFICES /\ new \in ControlRecords
               /\ new.pending \in Values \ been /\ ~new.disputed => quiet'
               /\ NoWitness => ~new.disputed
               /\ clear' > 0 /\ new.value # truth =>
                    clear' = 1 /\ NoWitness /\ new.pending = truth /\ new.age = 0
               /\ new.value # control.value /\ new.value \notin been => quiet /\ quiet'
  <2>1. NoWitness' <=> NoWitness BY <1>2 DEF NoWitness
  <2>2. ControlsTypeOK'
    BY <1>2, <1>6, <1>7 DEF ControlsTypeOK, ControlRecords
  <2>3. ControlsInv'
    <3>1. clear' > 0 /\ new.value # truth => new.age + gap' <= PendingAge
      BY <1>2, <1>7, ControlsAssumption
    <3> QED BY <1>2, <1>7, <2>1, <3>1, Zenon DEF ControlsInv
  <2> QED BY <1>2, <1>7, <2>2, <2>3, Zenon
<1> HIDE DEF a, new
<1>8. CASE Silent(said, a)
  <2>1. new = Aged BY <1>8 DEF new, Silent, Stepped
  <2>2. quiet' BY <1>2, <1>8 DEF HonestAnswer, Silent
  <2>3. clear' = 0 BY <1>1, <1>2, <1>3, <1>5, <1>8 DEF Silent
  <2>4. /\ new \in ControlRecords /\ new.value = control.value
        /\ new.pending = control.pending /\ new.disputed = control.disputed
    BY <1>1, <2>1, AgedIs DEF Aged
  <2>5. NoWitness => ~new.disputed BY <2>4 DEF ControlsInv
  <2> QED BY <2>2, <2>3, <2>4, <2>5
<1>9. ASSUME NEW e \in Nodes, HeardFrom(e, said, second, a)
      PROVE  /\ new \in ControlRecords
             /\ new.pending \in Values \ been /\ ~new.disputed => quiet'
             /\ NoWitness => ~new.disputed
             /\ clear' > 0 /\ new.value # truth =>
                  clear' = 1 /\ NoWitness /\ new.pending = truth /\ new.age = 0
             /\ new.value # control.value /\ new.value \notin been => quiet /\ quiet'
  <2> DEFINE v == a.value
  <2>1. v = said[e] /\ v \in Values /\ e \in a.first
    BY <1>1, <1>9 DEF HeardFrom, Said, Nodes, Answers
  <2>2. clear' > 0 => v = truth /\ (a.other # {} => a.second = truth)
    BY <1>2, <2>1
  <2>3. v \notin been /\ ~Disputes(v, a.second) => a.second = NoAnswer /\ quiet'
    BY <1>1, <1>2, <1>9, LiarAlone DEF a
  <2>4. v # control.value => (a.other = {} <=> NoWitness) /\ (NoWitness => a.second = NoAnswer)
    BY <1>9, <2>1, OtherIsAnother DEF HeardFrom
  <2>5. CASE v = control.value
    <3>1. new = Cleared(v) BY <1>5, <2>1, <2>5 DEF new, Stepped
    <3> QED BY <1>5, <2>1, <2>2, <2>5, <3>1, ClearedIs
  <2>6. CASE v # control.value /\ Confirmed(v, a.second)
    <3>1. new = Cleared(v) BY <1>5, <2>1, <2>6 DEF new, Stepped
    <3>2. v \notin been => quiet /\ quiet'
      <4> SUFFICES ASSUME v \notin been PROVE quiet /\ quiet' OBVIOUS
      <4>1. ~Disputes(v, a.second) BY <2>6 DEF Confirmed, Disputes
      <4>2. a.second = NoAnswer /\ quiet' BY <2>3, <4>1
      <4>3. FreshPending(v) /\ ~control.disputed BY <1>5, <2>1, <2>6, <4>2 DEF Confirmed
      <4> QED BY <2>1, <4>2, <4>3 DEF FreshPending, ControlsInv
    <3> QED BY <1>5, <2>1, <2>2, <3>1, <3>2, ClearedIs
  <2>7. CASE v # control.value /\ ~Confirmed(v, a.second)
    <3> DEFINE d == Disputes(v, a.second)
    <3>1. new = Pending(v, d) BY <1>5, <2>1, <2>7 DEF new, Stepped
    <3>2. d \in BOOLEAN BY DEF Disputes
    <3>3. /\ new \in ControlRecords /\ new.value = control.value /\ new.pending = v /\ new.age = 0
          /\ new.disputed <=> (d \/ (FreshPending(v) /\ control.disputed))
      <4> HIDE DEF d
      <4> QED BY <1>1, <2>1, <3>1, <3>2, PendingIs
    <3>4. v \notin been /\ ~new.disputed => quiet' BY <2>3, <3>3
    <3>5. NoWitness => ~d /\ ~control.disputed
      BY <2>4, <2>7 DEF Disputes, ControlsInv
    <3>6. ASSUME clear' > 0
          PROVE  clear' = 1 /\ NoWitness /\ v = truth
      <4>1. v = truth BY <2>2, <3>6
      <4>2. a.other = {} BY <2>2, <2>7, <3>6, <4>1 DEF Confirmed
      <4>3. NoWitness /\ a.second = NoAnswer /\ ~d BY <2>4, <2>7, <3>5, <4>2
      <4>4. ASSUME clear > 0 PROVE FALSE
        <5>1. control.value # truth /\ control.pending = truth /\ control.age + gap <= PendingAge
          BY <2>7, <4>1, <4>4 DEF ControlsInv
        <5>2. Aged.age <= PendingAge
          <6>1. Aged \in ControlRecords /\ Aged.age <= control.age + gap
            BY <1>1, <5>1, AgedIs DEF Aged
          <6> QED BY <1>1, <5>1, <6>1, ControlsAssumption DEF ControlRecords
        <5>3. FreshPending(v) BY <4>1, <5>1, <5>2 DEF FreshPending
        <5> QED BY <2>7, <3>5, <4>3, <5>3 DEF Confirmed
      <4>5. clear = 0 BY <4>4 DEF ControlsTypeOK
      <4> QED BY <1>2, <3>6, <4>1, <4>3, <4>5 DEF UpTo
    <3>7. new.value \in been \/ new.value = control.value BY <3>3
    <3> QED BY <3>3, <3>4, <3>5, <3>6, <3>7
  <2> QED BY <2>5, <2>6, <2>7
<1> QED BY <1>4, <1>8, <1>9

\* Every other step leaves the record alone or lets it age.
LieStep == control'.value # control.value /\ control'.value \notin been => quiet /\ quiet'

LEMMA ControlsAlone ==
  ASSUME ControlsTypeOK, ControlsInv, UNCHANGED controls
  PROVE  ControlsTypeOK' /\ ControlsInv' /\ LieStep
BY DEF controls, ControlsTypeOK, ControlsInv, NoWitness, LieStep

LEMMA AgingKeeps ==
  ASSUME ControlsTypeOK, ControlsInv, NEW n \in Nat, control' = AgedBy(n), gap' \in {0, 1},
         clear' = 0 \/ (clear' = clear /\ control'.age + gap' <= PendingAge),
         seq' \in Turn, UNCHANGED <<field, truth, been, quiet>>
  PROVE  ControlsTypeOK' /\ ControlsInv' /\ LieStep
<1>1. control \in ControlRecords BY DEF ControlsTypeOK, ControlRecords
<1>2. /\ AgedBy(n) \in ControlRecords /\ AgedBy(n).value = control.value
      /\ AgedBy(n).pending = control.pending /\ AgedBy(n).disputed = control.disputed
  BY <1>1, AgedIs
<1>3. ControlsTypeOK'
  <2>1. clear' \in 0 .. 2 BY DEF ControlsTypeOK
  <2> QED BY <1>2, <2>1 DEF ControlsTypeOK, ControlRecords, Turn
<1>4. ControlsInv' BY <1>2 DEF ControlsInv, NoWitness
<1>5. LieStep BY <1>2 DEF LieStep
<1> QED BY <1>3, <1>4, <1>5

LEMMA NextTurn == (seq \in Turn => (seq + 1) % Len(Endpoints) \in Turn) /\ 0 \in Turn
<1>1. Len(Endpoints) \in Nat \ {0} BY ControlsAssumption
<1> QED BY <1>1 DEF Turn

LEMMA ControlsStep ==
  ASSUME ControlsTypeOK, ControlsInv, [Next]_vars
  PROVE  ControlsTypeOK' /\ ControlsInv' /\ LieStep
<1> DEFINE Goal == ControlsTypeOK' /\ ControlsInv' /\ LieStep
<1>1. seq \in Turn BY DEF ControlsTypeOK, Turn
<1>2. ASSUME ControlsSample PROVE Goal
  <2>1. CASE \E said \in Said, second \in Values \cup {NoAnswer} :
               Possible(said, second) /\ Sample(said, second)
    BY <2>1, SampleKeeps DEF LieStep
  <2>2. CASE SampleFails
    <3>1. /\ control' = AgedBy(gap) /\ gap' = 1 /\ clear' = 0 /\ seq' \in Turn
          /\ UNCHANGED <<field, truth, been, quiet>>
      BY <1>1, <2>2, NextTurn DEF SampleFails, Aged
    <3>2. PICK n \in Nat : control' = AgedBy(n) BY <3>1 DEF ControlsTypeOK
    <3>3. gap' \in {0, 1} BY <3>1
    <3> HIDE DEF Goal
    <3>4. ControlsTypeOK' /\ ControlsInv' /\ LieStep BY <3>1, <3>2, <3>3, AgingKeeps, Zenon
    <3> QED BY <3>4 DEF Goal
  <2> QED BY <1>2, <2>1, <2>2 DEF ControlsSample, Possible
<1>3. ASSUME ChainStep PROVE Goal
  <2>1. CASE ChainChanges
    <3>1. /\ truth' \in been' /\ been' \subseteq Values /\ been \subseteq been' /\ clear' = 0
          /\ UNCHANGED <<field, control, seq, quiet, gap>>
      BY <2>1 DEF ChainChanges, ControlsTypeOK
    <3> QED BY <3>1 DEF ControlsTypeOK, ControlsInv, NoWitness, LieStep
  <2>2. CASE EventsAge
    <3>1. UNCHANGED <<field, truth, been, control, seq, quiet, gap, clear>> BY <2>2 DEF EventsAge
    <3> QED BY <3>1 DEF ControlsTypeOK, ControlsInv, NoWitness, LieStep
  <2> QED BY <1>3, <2>1, <2>2 DEF ChainStep
<1>4. ASSUME Restart PROVE Goal
  <2>0. ControlsRestart \/ UNCHANGED controls BY <1>4, Zenon DEF Restart
  <2> SUFFICES ASSUME ControlsRestart PROVE Goal BY <2>0, ControlsAlone
  <2>1. PICK down \in {0, PendingAge, MaxStale + 1} : control' = AgedBy(down)
    BY DEF ControlsRestart
  <2>2. down \in Nat BY ControlsAssumption
  <2>3. /\ gap' \in {0, 1} /\ seq' \in Turn /\ UNCHANGED <<field, truth, been, quiet>>
        /\ clear' = IF control'.age + gap' <= PendingAge THEN clear ELSE 0
    <3>2. gap' \in {0, 1} /\ seq' = 0 /\ UNCHANGED <<field, truth, been, quiet>>
      BY Zenon DEF ControlsRestart
    <3>3. clear' = IF control'.age + gap' <= PendingAge THEN clear ELSE 0
      BY Zenon DEF ControlsRestart
    <3> QED BY <3>2, <3>3, NextTurn
  <2>4. ControlsTypeOK' /\ ControlsInv' /\ LieStep BY <2>1, <2>2, <2>3, AgingKeeps
  <2> QED BY <2>4
<1>5. ASSUME \/ UNCHANGED vars \/ PegStep \/ SupplySample \/ Tick \/ WorldChanges
             \/ \E p \in Loops : Evaluate(p) \/ Panics(p)
      PROVE  Goal
  <2>1. UNCHANGED controls
    BY <1>5, Zenon DEF vars, PegStep, PegBegins, PegPublishes, PegRecorded, SupplySample, Tick,
       WorldChanges, Evaluate, Gather, ReadEvents, ApplyNext, Panics
  <2> QED BY <2>1, ControlsAlone
<1> HIDE DEF Goal
<1>6. ASSUME Next PROVE Goal
  BY <1>2, <1>3, <1>4, <1>5, <1>6, Zenon DEF Next
<1> QED BY <1>5, <1>6 DEF Goal

LEMMA ControlsInitially == ASSUME Init PROVE ControlsTypeOK /\ ControlsInv
<1>1. /\ field \in FieldsOf /\ truth = "unset" /\ been = {"unset"} /\ control = NoControl
      /\ seq = 0 /\ quiet = FALSE /\ gap = 1 /\ clear = 0
  BY DEF Init, ControlsInit
<1>2. NoControl \in ControlRecords /\ NoControl.pending = Unseen /\ NoControl.disputed = FALSE
  BY ControlsAssumption DEF NoControl, ControlRecords
<1>3. Unseen \notin Values BY DEF Unseen, Values
<1>4. control \in ControlRecords /\ seq \in Turn /\ quiet \in BOOLEAN
  BY <1>1, <1>2, NextTurn
<1> HIDE DEF NoControl
<1>5. truth \in been /\ been \subseteq Values /\ clear \in 0 .. 2 BY <1>1 DEF Values
<1>6. ControlsTypeOK
  BY <1>1, <1>4, <1>5 DEF ControlsTypeOK, ControlRecords, Turn
<1>7. ControlsInv BY <1>1, <1>2, <1>3 DEF ControlsInv
<1> QED BY <1>6, <1>7

\* A change needs two consecutive samples or two endpoints that agree, and no more than that:
\* whatever was disputed, pending or out of sight before, two samples in a row whose
\* endpoints tell the truth make it the confirmed value, with any number of endpoints.
THEOREM TwoSamplesConfirm == Spec => []TruthConfirmed
<1>1. Init => ControlsTypeOK /\ ControlsInv BY ControlsInitially
<1>2. ControlsTypeOK /\ ControlsInv /\ [Next]_vars => ControlsTypeOK' /\ ControlsInv'
  BY ControlsStep
<1>3. ControlsInv => TruthConfirmed BY DEF ControlsInv, TruthConfirmed
<1> QED BY <1>1, <1>2, <1>3, PTL DEF Spec

\* No single lying endpoint makes a value up, with any number of endpoints, retries and
\* restarts: it is confirmed only where no honest endpoint answered in two samples in a row.
THEOREM OneLiarIsNotEnough == Spec => LieNeedsSilence
<1>1. Init => ControlsTypeOK /\ ControlsInv BY ControlsInitially
<1>2. ControlsTypeOK /\ ControlsInv /\ [Next]_vars => ControlsTypeOK' /\ ControlsInv'
  BY ControlsStep
<1>3. ControlsTypeOK /\ ControlsInv /\ [Next]_vars
        => [control'.value # control.value /\ control'.value \notin been
              => quiet /\ quiet']_controls
  BY ControlsStep DEF LieStep
<1> QED BY <1>1, <1>2, <1>3, PTL DEF Spec, LieNeedsSilence

-----------------------------------------------------------------------------
(* The signal engine: what the log says of the records.                     *)

LEMMA BaseIs ==
  ASSUME NEW loads \in BOOLEAN, ~loaded, loads
  PROVE  /\ DOMAIN Base(loads) = DOMAIN saved \cup DOMAIN recs
         /\ \A s \in DOMAIN saved : Base(loads)[s] = saved[s]
BY DEF Base, WithStored

LEMMA ApplyKeepsLog ==
  ASSUME EngineInv, NEW in, NEW loads \in BOOLEAN, NEW saves \in BOOLEAN, loaded => loads,
         NEW out, NEW passed,
         Apply(in, loads, saves, [s \in watched |-> out[s].rec], ChangedBy(Base(loads), out),
               passed)
  PROVE  EngineInv'
<1> DEFINE new == [s \in watched |-> out[s].rec]
           rs  == Base(loads)
           changed == ChangedBy(rs, out)
<1>1. /\ recs' = new /\ (loaded' <=> (loaded \/ loads)) /\ watched' = watched
      /\ DOMAIN new = watched /\ \A s \in watched : new[s] = out[s].rec
  BY DEF Apply
<1>2. DOMAIN saved \subseteq watched BY DEF EngineInv
<1>3. \A s \in watched \ changed : s \in DOMAIN rs => rs[s].state = new[s].state
  <2> SUFFICES ASSUME NEW s \in watched, s \notin changed, s \in DOMAIN rs
               PROVE  rs[s].state = new[s].state
    OBVIOUS
  <2>1. rs[s].state = out[s].first /\ out[s].rec.state = out[s].first
    BY DEF ChangedBy
  <2> QED BY <1>1, <2>1
<1>4. ASSUME loads
      PROVE  \A s \in DOMAIN saved : s \notin gaps => s \in DOMAIN rs /\ rs[s].state = saved[s].state
  <2>1. CASE loaded
    <3>1. rs = recs BY <2>1 DEF Base
    <3> QED BY <2>1, <3>1 DEF EngineInv
  <2>2. CASE ~loaded
    BY <1>4, <2>2, BaseIs
  <2> QED BY <2>1, <2>2
<1> HIDE DEF new, rs, changed
<1>5. CASE Stores(loads, saves)
  <2>1. loads BY <1>5 DEF Stores, MaySave
  <2>2. /\ saved' = new
        /\ told' = [s \in watched |-> IF s \in changed \ passed \/ s \notin DOMAIN saved
                                      THEN new[s].state ELSE told[s]]
        /\ gaps' = (gaps \ changed) \cup (changed \cap passed)
    BY <1>5 DEF Apply, new, changed, rs
  <2>3. \A s \in watched : s \notin gaps' => told'[s] = new[s].state
    <3> SUFFICES ASSUME NEW s \in watched, s \notin gaps',
                        ~(s \in changed \ passed \/ s \notin DOMAIN saved)
                 PROVE  told[s] = new[s].state
      BY <2>2
    <3>1. s \in DOMAIN saved /\ s \notin gaps /\ s \notin changed BY <2>2
    <3>2. told[s] = saved[s].state BY <3>1 DEF EngineInv, LogTellsChanges
    <3>3. s \in DOMAIN rs /\ rs[s].state = saved[s].state BY <1>4, <2>1, <3>1
    <3> QED BY <1>3, <3>1, <3>2, <3>3
  <2>4. DOMAIN saved' = watched' /\ saved' = recs' BY <1>1, <2>2
  <2>5. LogTellsChanges' BY <1>1, <2>2, <2>3 DEF LogTellsChanges
  <2> QED BY <1>1, <2>2, <2>4, <2>5 DEF EngineInv
<1>6. CASE ~Stores(loads, saves)
  <2>1. /\ gaps' = IF MaySave(loads) THEN gaps \cup changed ELSE gaps
        /\ saved' = saved /\ told' = told
    BY <1>6 DEF Apply, new, changed, rs
  <2>2. LogTellsChanges' BY <2>1 DEF EngineInv, LogTellsChanges
  <2>3. ASSUME loaded', NEW s \in DOMAIN saved', s \notin gaps'
        PROVE  s \in DOMAIN recs' /\ recs'[s].state = saved'[s].state
    <3>1. loads BY <1>1, <2>3
    <3>2. s \in DOMAIN saved /\ s \notin gaps /\ s \notin changed
      BY <2>1, <2>3, <3>1 DEF MaySave
    <3>3. s \in DOMAIN rs /\ rs[s].state = saved[s].state BY <1>4, <3>1, <3>2
    <3> QED BY <1>1, <1>2, <1>3, <2>1, <3>2, <3>3
  <2> QED BY <1>1, <1>2, <2>1, <2>2, <2>3 DEF EngineInv
<1> QED BY <1>5, <1>6

LEMMA EngineStep == ASSUME EngineInv, [Next]_vars PROVE EngineInv'
<1>1. ASSUME UNCHANGED engine PROVE EngineInv'
  BY <1>1 DEF engine, EngineInv, LogTellsChanges
<1>2. ASSUME NEW p \in Loops, ApplyNext(p) PROVE EngineInv'
  <2>1. PICK loads \in BOOLEAN, saves \in BOOLEAN :
          /\ loaded => loads
          /\ ApplyTo(p, flight[p], loads, saves, Base(loads), Outcome(Base(loads), flight[p]))
    BY <1>2 DEF ApplyNext
  <2> QED BY <2>1, ApplyKeepsLog DEF ApplyTo, ApplyWith
<1>3. ASSUME Restart PROVE EngineInv'
  <2>1. loaded' = FALSE /\ UNCHANGED <<watched, saved, told, gaps>>
    BY <1>3 DEF Restart, EngineRestart
  <2> QED BY <2>1 DEF EngineInv, LogTellsChanges
<1>4. ASSUME \/ PegStep \/ ControlsSample \/ SupplySample \/ Tick \/ WorldChanges \/ ChainStep
             \/ \E p \in Loops : Gather(p) \/ ReadEvents(p) \/ Panics(p)
      PROVE  EngineInv'
  <2>1. UNCHANGED engine
    BY <1>4, Zenon DEF PegStep, PegBegins, PegPublishes, PegRecorded, ControlsSample, SupplySample,
       Tick, WorldChanges, ChainStep, Gather, ReadEvents, Panics
  <2> QED BY <1>1, <2>1
<1>5. ASSUME Next PROVE EngineInv'
  BY <1>2, <1>3, <1>4, <1>5, Zenon DEF Next, Evaluate
<1>6. CASE UNCHANGED vars
  BY <1>1, <1>6 DEF vars
<1> QED BY <1>5, <1>6

\* The log tells every change: unless the event of a signal's last change was lost with a save
\* or is out of order, the newest event of the signal says what its stored record says,
\* for any samples, restarts, failed loads and evaluations that overtake each other.
THEOREM LogIsComplete == Spec => []LogTellsChanges
<1>1. Init => EngineInv
  BY DEF Init, EngineInit, EngineInv, LogTellsChanges
<1>2. EngineInv /\ [Next]_vars => EngineInv'
  BY EngineStep
<1>3. EngineInv => LogTellsChanges BY DEF EngineInv
<1> QED BY <1>1, <1>2, <1>3, PTL DEF Spec

-----------------------------------------------------------------------------
(* The watchdog: how old a sample that S1 still speaks for may be.          *)

\* What the bounds say of time, which no step but a tick changes.
LeftOK ==
  /\ {"loops", "ticks"} \subseteq DOMAIN left /\ left.ticks \in Nat
  /\ left.ticks > 0 /\ "peg" \in Running => "watchdog" \in Running

LEMMA SpendKeeps ==
  ASSUME LeftOK, NEW what, what # "loops", Spend(what) \/ UNCHANGED left
  PROVE  LeftOK' /\ left'.loops = left.loops
<1>1. CASE UNCHANGED left BY <1>1 DEF LeftOK, Running
<1>2. CASE Spend(what)
  <2>1. left' = [left EXCEPT ![what] = left[what] - 1] /\ left[what] > 0 BY <1>2 DEF Spend
  <2>2. DOMAIN left' = DOMAIN left /\ left'.loops = left.loops BY <2>1 DEF LeftOK
  <2>3. CASE what = "ticks"
    <3>1. left'.ticks = left.ticks - 1 /\ left.ticks > 0 BY <2>1, <2>3 DEF LeftOK
    <3> QED BY <2>2, <3>1 DEF LeftOK, Running
  <2>4. CASE what # "ticks"
    <3>1. left'.ticks = left.ticks BY <2>1, <2>4 DEF LeftOK
    <3> QED BY <2>2, <3>1 DEF LeftOK, Running
  <2> QED BY <2>3, <2>4
<1> QED BY <1>1, <1>2

LEMMA SpareKeeps ==
  ASSUME LeftOK, NEW what, what # "loops", NEW used, Spare(what, used)
  PROVE  LeftOK' /\ left'.loops = left.loops
BY SpendKeeps DEF Spare

LEMMA ChargedKeeps ==
  ASSUME LeftOK, NEW said, NEW a, Charged(said, a)
  PROVE  LeftOK' /\ left'.loops = left.loops
<1>1. DOMAIN left' = DOMAIN left /\ left'.loops = left.loops /\ left'.ticks = left.ticks
  BY DEF Charged, LeftOK
<1> QED BY <1>1 DEF LeftOK, Running

Spendable == {"ticks", "supplies", "changes", "faults", "worlds", "restarts"}
LEMMA LeftMoves ==
  ASSUME [Next]_vars
  PROVE  (\E what \in Spendable : Spend(what) \/ UNCHANGED left) \/ \E said, a : Charged(said, a)
<1> DEFINE Uses(what) == Spend(what) \/ UNCHANGED left
           Goal == (\E what \in Spendable : Uses(what)) \/ \E said, a : Charged(said, a)
<1>1. /\ (Uses("ticks") => Goal) /\ (Uses("supplies") => Goal) /\ (Uses("changes") => Goal)
      /\ (Uses("faults") => Goal) /\ (Uses("worlds") => Goal) /\ (Uses("restarts") => Goal)
  BY Zenon DEF Spendable
<1>2. PegStep => Uses("faults")
  BY DEF PegStep, PegBegins, PegPublishes, PegRecorded, Publish, Spare
<1>3. ControlsSample => Uses("faults") \/ \E said, a : Charged(said, a)
  BY DEF ControlsSample
<1>4. /\ SupplySample => Uses("supplies")
      /\ Tick => Uses("ticks")
      /\ WorldChanges => Uses("worlds")
      /\ ChainStep => Uses("changes")
      /\ Restart => Uses("restarts")
  <2>1. SupplySample => Uses("supplies") BY Zenon DEF SupplySample
  <2>2. Tick => Uses("ticks") BY Zenon DEF Tick
  <2>3. WorldChanges => Uses("worlds") BY Zenon DEF WorldChanges
  <2>4. ChainStep => Uses("changes") BY Zenon DEF ChainStep
  <2>5. Restart => Uses("restarts") BY Zenon DEF Restart
  <2> QED BY <2>1, <2>2, <2>3, <2>4, <2>5
<1>5. \A p \in Loops : Evaluate(p) \/ Panics(p) => Uses("faults")
  <2>1. \A p \in Loops : Gather(p) => Uses("faults") BY Zenon DEF Gather, Spare
  <2>2. \A p \in Loops : ReadEvents(p) => Uses("faults") BY Zenon DEF ReadEvents, Spare
  <2>3. \A p \in Loops : ApplyNext(p) => Uses("faults") BY Zenon DEF ApplyNext, Spare
  <2>4. \A p \in Loops : Panics(p) => Uses("faults") BY Zenon DEF Panics
  <2> HIDE DEF Uses
  <2> QED BY <2>1, <2>2, <2>3, <2>4, Zenon DEF Evaluate
<1>6. UNCHANGED vars => Uses("faults") BY DEF vars
<1>7. (\E said, a : Charged(said, a)) => Goal OBVIOUS
<1> HIDE DEF Goal, Uses
<1>8. Next => Goal BY <1>1, <1>2, <1>3, <1>4, <1>5, <1>7, Zenon DEF Next
<1>9. Goal BY <1>1, <1>6, <1>8
<1> QED BY <1>9 DEF Goal, Uses

LEMMA LeftStep == ASSUME LeftOK, [Next]_vars PROVE LeftOK' /\ left'.loops = left.loops
<1>1. CASE \E what \in Spendable : Spend(what) \/ UNCHANGED left
  <2>1. PICK what \in Spendable : Spend(what) \/ UNCHANGED left BY <1>1
  <2>2. what # "loops" BY DEF Spendable
  <2> QED BY <2>1, <2>2, SpendKeeps
<1>2. CASE \E said, a : Charged(said, a)
  <2>1. PICK said, a : Charged(said, a) BY <1>2
  <2> QED BY <2>1, ChargedKeeps
<1> QED BY <1>1, <1>2, LeftMoves

LEMMA NoClaim == LevelOf("unknown") = -1 /\ LevelOf("n/a") = -1
<1>1. {j \in DOMAIN Names : Names[j] = "unknown"} = {} /\ {j \in DOMAIN Names : Names[j] = "n/a"} = {}
  BY DEF Names
<1>2. Max({-1}) = -1 BY DEF Max
<1> QED BY <1>1, <1>2 DEF LevelOf, Unknown

\* What a step must show: the three parts and what S1 may claim after it.
ClaimInv ==
  ~late /\ S1Claims /\ since # -1 => Timely(now - 1) /\ (WatchdogDone => Timely(now))

LEMMA StaleParts == StaleInv <=> ClockInv /\ ShapeInv /\ FlightInv /\ ClaimInv
BY DEF StaleInv, ClaimInv

LEMMA ClockLeft == ASSUME ClockInv PROVE LeftOK
BY DEF ClockInv, LeftOK

\* Steps of the other samplers, of the chain and of the world, and the reading of events.
LEMMA AsideKeeps ==
  ASSUME StaleInv, LeftOK', left'.loops = left.loops,
         UNCHANGED <<now, latest, begun, lastRun, since, pegSeen, recs, saved, late, watched>>,
         DOMAIN place' = Loops, place'["peg"] = place["peg"],
         place'["watchdog"] = place["watchdog"],
         "watchdog" \in ticked' <=> "watchdog" \in ticked,
         \A p \in Loops : place'[p] = "evaluating" <=> place[p] = "evaluating",
         DOMAIN flight' = DOMAIN flight,
         \A p \in DOMAIN flight : /\ flight'[p].now = flight[p].now
                                  /\ flight'[p].peg = flight[p].peg
                                  /\ flight'[p].stalled = flight[p].stalled
  PROVE  StaleInv'
<1>1. ClockInv' BY StaleParts DEF ClockInv, LeftOK
<1>2. ShapeInv' BY StaleParts DEF ShapeInv
<1>3. WatchdogDone' <=> WatchdogDone BY DEF WatchdogDone
<1>4. FlightInv' BY StaleParts, <1>3 DEF FlightInv, Unconsumed
<1>5. ClaimInv' BY StaleParts, <1>3 DEF ClaimInv, S1Claims, Timely
<1>6. QED BY <1>1, <1>2, <1>4, <1>5 DEF StaleInv, ClaimInv

LEMMA AsideSteps ==
  ASSUME StaleInv, LeftOK', left'.loops = left.loops,
         \/ UNCHANGED vars \/ ControlsSample \/ SupplySample \/ WorldChanges \/ ChainStep
         \/ \E p \in DOMAIN flight : ReadEvents(p)
  PROVE  StaleInv'
<1>0. DOMAIN place = Loops BY DEF StaleInv, ClockInv
<1>1. CASE UNCHANGED vars \/ WorldChanges \/ ChainStep
  <2>1. UNCHANGED <<engine, service, since, late>> \/ WorldChanges
    BY <1>1 DEF vars, history, ChainStep
  <2>2. UNCHANGED <<now, latest, begun, lastRun, since, pegSeen, recs, saved, late, watched, place,
                    ticked, flight>>
    BY <2>1 DEF engine, service, WorldChanges, history
  <2> QED BY <1>0, <2>2, AsideKeeps
<1>2. CASE ControlsSample \/ SupplySample
  <2>1. PICK p \in {"controls", "supply"}, to \in {"waiting", "published"} :
          place[p] = "waiting" /\ Moves(p, to) /\ ticked' = ticked \ {p}
    BY <1>2 DEF ControlsSample, SupplySample
  <2>2. UNCHANGED <<now, latest, begun, lastRun, since, pegSeen, recs, saved, late, watched, flight>>
    BY <1>2 DEF ControlsSample, SupplySample, engine, history
  <2>3. DOMAIN place' = Loops /\ \A q \in Loops : place'[q] = IF q = p THEN to ELSE place[q]
    BY <1>0, <2>1 DEF Moves
  <2> QED BY <2>1, <2>2, <2>3, AsideKeeps DEF Loops
<1>3. ASSUME NEW p \in DOMAIN flight, ReadEvents(p) PROVE StaleInv'
  <2>1. UNCHANGED <<now, latest, begun, lastRun, since, pegSeen, recs, saved, late, watched, place,
                    ticked>>
    BY <1>3 DEF ReadEvents, engine, history
  <2>2. PICK s8 : flight' = [flight EXCEPT ![p].s8 = s8, ![p].state = NoControl, ![p].read = TRUE]
    BY <1>3 DEF ReadEvents
  <2>3. /\ DOMAIN flight' = DOMAIN flight
        /\ \A q \in DOMAIN flight : /\ flight'[q].now = flight[q].now
                                    /\ flight'[q].peg = flight[q].peg
                                    /\ flight'[q].stalled = flight[q].stalled
    BY <2>2
  <2> QED BY <1>0, <2>1, <2>3, AsideKeeps
<1> QED BY <1>1, <1>2, <1>3

\* A run of the peg sampler begins, publishes its sample and is recorded.
LEMMA PegKeeps ==
  ASSUME StaleInv, LeftOK', left'.loops = left.loops, PegStep
  PROVE  StaleInv'
<1>0. ClockInv /\ ShapeInv /\ FlightInv /\ ClaimInv BY StaleParts
<1>1. /\ UNCHANGED <<now, pegSeen, recs, saved, watched, flight, late>>
      /\ DOMAIN flight = {p \in Loops : place[p] = "evaluating"}
      /\ DOMAIN place = Loops
  BY <1>0 DEF PegStep, PegBegins, PegPublishes, PegRecorded, engine, history, FlightInv, ClockInv
<1>2. ShapeInv' BY <1>0, <1>1 DEF ShapeInv
<1>3. ASSUME Moves("peg", "fetching") \/ Moves("peg", "published") \/ Moves("peg", "waiting"),
             place["peg"] # "evaluating", ticked' = ticked \/ ticked' = ticked \ {"peg"}
      PROVE  /\ DOMAIN place' = Loops /\ DOMAIN flight' = {p \in Loops : place'[p] = "evaluating"}
             /\ WatchdogDone' <=> WatchdogDone /\ "peg" \notin DOMAIN flight
  BY <1>1, <1>3 DEF Moves, WatchdogDone, Loops
<1>4. CASE PegBegins
  <2>1. /\ place'["peg"] = "fetching" /\ begun' = now /\ UNCHANGED <<latest, lastRun, since>>
        /\ DOMAIN place' = Loops /\ DOMAIN flight' = {p \in Loops : place'[p] = "evaluating"}
        /\ WatchdogDone' <=> WatchdogDone /\ "peg" \notin DOMAIN flight
    BY <1>1, <1>3, <1>4 DEF PegBegins, Moves, history, Loops
  <2>2. ClockInv' BY <1>0, <1>1, <2>1 DEF ClockInv, LeftOK
  <2>3. FlightInv' BY <1>0, <1>1, <2>1 DEF FlightInv, Unconsumed
  <2>4. ClaimInv' BY <1>0, <1>1, <2>1 DEF ClaimInv, S1Claims, Timely
  <2> QED BY <1>2, <2>2, <2>3, <2>4 DEF StaleInv, ClaimInv
<1>5. CASE PegPublishes
  <2>1. /\ place'["peg"] = "published" /\ latest'.at = begun /\ UNCHANGED <<begun, lastRun, since>>
        /\ DOMAIN place' = Loops /\ DOMAIN flight' = {p \in Loops : place'[p] = "evaluating"}
        /\ WatchdogDone' <=> WatchdogDone /\ "peg" \notin DOMAIN flight
    BY <1>1, <1>3, <1>5 DEF PegPublishes, Publish, Moves, Loops
  <2>2. ClockInv' BY <1>0, <1>1, <2>1 DEF ClockInv, LeftOK
  <2>3. latest.at \in Int /\ latest.at <= begun /\ begun \in Int BY <1>0 DEF ClockInv
  <2>4. FlightInv' BY <1>0, <1>1, <2>1, <2>3 DEF FlightInv, Unconsumed
  <2>5. ClaimInv' BY <1>0, <1>1, <2>1 DEF ClaimInv, S1Claims, Timely
  <2> QED BY <1>2, <2>2, <2>4, <2>5 DEF StaleInv, ClaimInv
<1>6. CASE PegRecorded
  <2>1. /\ place["peg"] = "evaluated" /\ place'["peg"] = "waiting" /\ lastRun' = begun
        /\ since' = (IF since = -1 THEN now ELSE since) /\ UNCHANGED <<begun, latest>>
        /\ DOMAIN place' = Loops /\ DOMAIN flight' = {p \in Loops : place'[p] = "evaluating"}
        /\ WatchdogDone' <=> WatchdogDone /\ "peg" \notin DOMAIN flight
    BY <1>1, <1>3, <1>6 DEF PegRecorded, Moves, Loops
  <2>2. /\ now \in Nat /\ begun \in 0 .. now /\ since \in -1 .. now /\ Stall \in Nat
        /\ pegSeen >= begun /\ pegSeen \in Int /\ latest.at = begun /\ DOMAIN recs = watched
    BY <1>0, <2>1, ServiceAssumption DEF ClockInv
  <2>3. ClockInv' BY <1>0, <1>1, <2>1, <2>2 DEF ClockInv, LeftOK
  <2>4. FlightInv' BY <1>0, <1>1, <2>1, <2>2 DEF FlightInv, Unconsumed
  <2>5. ClaimInv' BY <1>0, <1>1, <2>1, <2>2 DEF ClaimInv, S1Claims, Timely
  <2> QED BY <1>2, <2>3, <2>4, <2>5 DEF StaleInv, ClaimInv
<1> QED BY <1>4, <1>5, <1>6 DEF PegStep

LEMMA OneLater ==
  ASSUME NEW n \in Nat, NEW m \in Nat, m <= n + 1, NEW s \in Nat, NEW x \in Int, x >= n - s
  PROVE  x >= (m - 1) - s
OBVIOUS

\* Time passes only when the watchdog has evaluated what was there.
LEMMA TickKeeps ==
  ASSUME StaleInv, LeftOK', left'.loops = left.loops, Tick
  PROVE  StaleInv'
<1>0. ClockInv /\ ShapeInv /\ FlightInv /\ ClaimInv BY StaleParts
<1>1. /\ WatchdogDone /\ ticked' = ticked \cup Running
      /\ UNCHANGED <<latest, begun, lastRun, since, pegSeen, recs, saved, late, watched, place, flight>>
      /\ now' = now \/ (now' = now + 1 /\ "peg" \in Running /\ left.ticks > 0)
  BY DEF Tick, WatchdogDone, engine, history, Spend
<1>2. now' = now + 1 => ~WatchdogDone'
  BY <1>0, <1>1 DEF ClockInv, WatchdogDone
<1>3. "watchdog" \notin DOMAIN flight
  BY <1>0, <1>1 DEF FlightInv, WatchdogDone
<1>4. now \in Nat /\ now' \in Nat /\ now <= now' /\ now' <= now + 1 /\ (WatchdogDone' => now' = now)
  BY <1>0, <1>1, <1>2 DEF ClockInv
<1>5. ClockInv' BY <1>0, <1>1, <1>4 DEF ClockInv, LeftOK
<1>6. ShapeInv' BY <1>0, <1>1 DEF ShapeInv
<1>7. FlightInv' BY <1>0, <1>1, <1>3, <1>4 DEF FlightInv, Unconsumed
<1>8. ClaimInv'
  <2> SUFFICES ASSUME ~late', S1Claims', since' # -1
               PROVE  Timely(now - 1)' /\ (WatchdogDone' => Timely(now)')
    BY DEF ClaimInv
  <2>1. Timely(now) BY <1>0, <1>1 DEF ClaimInv, S1Claims
  <2>2. pegSeen \in Int /\ since \in Int /\ Stall \in Nat BY <1>0, ServiceAssumption DEF ClockInv
  <2>3. pegSeen >= now - Stall \/ since >= now - Stall BY <2>1 DEF Timely
  <2>4. pegSeen >= (now' - 1) - Stall \/ since >= (now' - 1) - Stall
    <3>1. now \in Nat /\ now' \in Nat /\ now' <= now + 1 BY <1>4
    <3>2. \A x \in Int : x >= now - Stall => x >= (now' - 1) - Stall
      BY <2>2, <3>1, OneLater
    <3> QED BY <2>2, <2>3, <3>2
  <2>5. WatchdogDone' => pegSeen >= now' - Stall \/ since >= now' - Stall
    BY <1>4, <2>3
  <2> QED BY <1>1, <2>4, <2>5 DEF Timely
<1> QED BY <1>5, <1>6, <1>7, <1>8 DEF StaleInv, ClaimInv

\* A restart forgets everything that S1 could claim.
LEMMA RestartKeeps ==
  ASSUME StaleInv, LeftOK', left'.loops = left.loops, Restart
  PROVE  StaleInv'
<1>0. ClockInv /\ ShapeInv BY StaleParts
<1>1. /\ recs' = <<>> /\ pegSeen' = -1 /\ latest' = NoPeg /\ lastRun' = -1 /\ since' = -1
      /\ begun' = now /\ place' = [p \in Loops |-> "waiting"] /\ flight' = <<>>
      /\ UNCHANGED <<now, saved, watched>>
  BY DEF Restart, EngineRestart
<1>2. DOMAIN flight' = {} BY <1>1
<1>3. ClockInv' BY <1>0, <1>1 DEF ClockInv, LeftOK, NoPeg, Loops
<1>4. ShapeInv' BY <1>0, <1>1 DEF ShapeInv
<1>5. FlightInv' BY <1>1, <1>2 DEF FlightInv
<1>6. ClaimInv' BY <1>1 DEF ClaimInv
<1> QED BY <1>3, <1>4, <1>5, <1>6 DEF StaleInv, ClaimInv

\* A panic takes its evaluation with it and records no run.
LEMMA PanicKeeps ==
  ASSUME StaleInv, LeftOK', left'.loops = left.loops, NEW p \in Loops, Panics(p)
  PROVE  StaleInv'
<1>0. ClockInv /\ ShapeInv /\ FlightInv /\ ClaimInv BY StaleParts
<1>1. /\ p # "watchdog" /\ place' = [place EXCEPT ![p] = "waiting"] /\ flight' = Without(p)
      /\ lastRun' = lastRun
      /\ UNCHANGED <<now, latest, begun, ticked, since, pegSeen, recs, saved, late, watched>>
  BY DEF Panics, Moves, engine, history
<1>2. /\ DOMAIN place' = Loops /\ place'[p] = "waiting"
      /\ \A q \in Loops : q # p => place'[q] = place[q]
  BY <1>0, <1>1 DEF ClockInv
<1>3. /\ DOMAIN flight' = DOMAIN flight \ {p}
      /\ \A q \in DOMAIN flight' : /\ flight'[q].now = flight[q].now
                                   /\ flight'[q].peg = flight[q].peg
                                   /\ flight'[q].stalled = flight[q].stalled
  <2>1. flight' = [q \in DOMAIN flight \ {p} |-> [flight[q] EXCEPT !.before = flight[q].before \ {p}]]
    BY <1>1 DEF Without
  <2>2. ASSUME NEW q \in DOMAIN flight \ {p}
        PROVE  /\ flight'[q].now = flight[q].now
               /\ flight'[q].peg = flight[q].peg
               /\ flight'[q].stalled = flight[q].stalled
    <3>1. PICK e : e = flight[q] OBVIOUS
    <3>2. PICK b : b = flight[q].before \ {p} OBVIOUS
    <3>3. flight'[q] = [e EXCEPT !.before = b] BY <2>1, <3>1, <3>2
    <3> QED BY <3>1, <3>3
  <2> QED BY <2>1, <2>2
<1>4. WatchdogDone' <=> WatchdogDone
  BY <1>1, <1>2 DEF WatchdogDone, Loops
<1>5. ClockInv' BY <1>0, <1>1, <1>2 DEF ClockInv, LeftOK, Loops
<1>6. ShapeInv' BY <1>0, <1>1 DEF ShapeInv
<1>7. DOMAIN flight' = {q \in Loops : place'[q] = "evaluating"}
  BY <1>0, <1>2, <1>3 DEF FlightInv
<1>8. FlightInv'
  <2> SUFFICES ASSUME NEW q \in DOMAIN flight'
               PROVE  LET e == flight'[q]
                      IN  /\ e.now \in 0 .. now /\ e.peg.at \in -1 .. latest.at /\ e.stalled \in BOOLEAN
                          /\ q = "peg" => e.peg.at = begun
                          /\ q = "watchdog" =>
                               /\ e.now = now
                               /\ \A o \in DOMAIN flight' :
                                    flight'[o].now < now => flight'[o].peg.at <= e.peg.at
                          /\ e.peg.at > pegSeen => e.now >= now - 1 /\ (WatchdogDone => e.now = now)
                          /\ ~e.stalled => \/ e.peg.at >= e.now - Stall
                                           \/ since = -1 \/ since >= e.now
    BY <1>1, <1>4, <1>7 DEF FlightInv, Unconsumed
  <2>1. /\ q \in DOMAIN flight /\ DOMAIN flight' \subseteq DOMAIN flight
        /\ flight'[q].now = flight[q].now /\ flight'[q].peg = flight[q].peg
        /\ flight'[q].stalled = flight[q].stalled
    BY <1>3
  <2>2. \A o \in DOMAIN flight' : flight'[o].now = flight[o].now /\ flight'[o].peg = flight[o].peg
    BY <1>3
  <2> QED BY <1>0, <2>1, <2>2 DEF FlightInv, Unconsumed
<1>9. ClaimInv' BY <1>0, <1>1, <1>4 DEF ClaimInv, S1Claims, Timely
<1> QED BY <1>5, <1>6, <1>8, <1>9 DEF StaleInv, ClaimInv

\* An evaluation reads the latest sample; if it sees no stall, the sample is within the limit.
LEMMA GatherKeeps ==
  ASSUME StaleInv, LeftOK', left'.loops = left.loops, NEW p \in Loops, Gather(p)
  PROVE  StaleInv'
<1>0. ClockInv /\ ShapeInv /\ FlightInv /\ ClaimInv BY StaleParts
<1>1. PICK state :
        flight' = [q \in DOMAIN flight \cup {p} |->
                     IF q = p THEN Evaluation(state) ELSE flight[q]]
  BY DEF Gather
<1>2. /\ place' = [place EXCEPT ![p] = "evaluating"]
      /\ UNCHANGED <<now, latest, begun, lastRun, since, pegSeen, recs, saved, late, watched>>
      /\ ticked' = ticked \/ ticked' = ticked \ {p}
      /\ (p = "watchdog" \/ (place[p] = "published" /\ ticked' = ticked))
  BY DEF Gather, Evaluates, Moves, engine, history
<1>3. /\ DOMAIN place' = Loops /\ place'[p] = "evaluating"
      /\ \A q \in Loops : q # p => place'[q] = place[q]
  BY <1>0, <1>2 DEF ClockInv
<1>4. /\ DOMAIN flight' = DOMAIN flight \cup {p}
      /\ flight'[p].now = now /\ flight'[p].peg = latest /\ (flight'[p].stalled <=> Stalled)
      /\ flight'[p].stalled \in BOOLEAN
      /\ \A q \in DOMAIN flight : q # p => flight'[q] = flight[q]
  <2>1. Stalled \in BOOLEAN BY DEF Stalled
  <2>2. flight'[p] = Evaluation(state) BY <1>1
  <2>3. flight'[p].now = now /\ flight'[p].peg = latest /\ flight'[p].stalled = Stalled
    BY <2>2 DEF Evaluation
  <2> QED BY <1>1, <2>1, <2>3
<1>5. WatchdogDone' => WatchdogDone /\ p # "watchdog"
  BY <1>2, <1>3 DEF WatchdogDone, Loops
<1>6. ClockInv' BY <1>0, <1>2, <1>3 DEF ClockInv, LeftOK, Loops
<1>7. ShapeInv' BY <1>0, <1>2 DEF ShapeInv
<1>8. DOMAIN flight' = {q \in Loops : place'[q] = "evaluating"}
  BY <1>0, <1>3, <1>4 DEF FlightInv
<1>9. /\ now \in Nat /\ latest.at \in -1 .. now /\ since \in -1 .. now /\ Stall \in Nat
      /\ p = "peg" => latest.at = begun
      /\ ~Stalled => latest.at >= now - Stall \/ since = -1
  BY <1>0, <1>2, ServiceAssumption DEF ClockInv, Stalled
<1>10. \A q \in DOMAIN flight : flight[q].peg.at <= latest.at BY <1>0, <1>9 DEF FlightInv
<1>11. FlightInv'
  <2> SUFFICES ASSUME NEW q \in DOMAIN flight'
               PROVE
         LET e == flight'[q]
         IN  /\ e.now \in 0 .. now' /\ e.peg.at \in -1 .. latest'.at /\ e.stalled \in BOOLEAN
             /\ q = "peg" => e.peg.at = begun'
             /\ q = "watchdog" =>
                  /\ e.now = now'
                  /\ \A r \in DOMAIN flight' : flight'[r].now < now' => flight'[r].peg.at <= e.peg.at
             /\ Unconsumed(q)' => e.now >= now' - 1 /\ (WatchdogDone' => e.now = now')
             /\ ~e.stalled => \/ e.peg.at >= e.now - Stall
                              \/ since' = -1 \/ since' >= e.now
    BY <1>8 DEF FlightInv
  <2>1. CASE q = p
    <3>1. \A r \in DOMAIN flight' : flight'[r].now < now' => flight'[r].peg.at <= latest.at
      BY <1>2, <1>4, <1>9, <1>10
    <3> QED BY <1>2, <1>4, <1>9, <2>1, <3>1
  <2>2. CASE q # p
    <3>1. q \in DOMAIN flight /\ flight'[q] = flight[q] BY <1>4, <2>2
    <3>2. Unconsumed(q)' <=> Unconsumed(q) BY <1>2, <3>1 DEF Unconsumed
    <3>3. q = "watchdog" => \A r \in DOMAIN flight' : flight'[r].now < now' =>
                              flight'[r].peg.at <= flight'[q].peg.at
      BY <1>0, <1>2, <1>4, <1>9, <3>1 DEF FlightInv
    <3> QED BY <1>0, <1>2, <1>5, <3>1, <3>2, <3>3 DEF FlightInv
  <2> QED BY <2>1, <2>2
<1>12. ClaimInv' BY <1>0, <1>2, <1>5 DEF ClaimInv, S1Claims, Timely
<1> QED BY <1>6, <1>7, <1>11, <1>12 DEF StaleInv, ClaimInv

\* What an evaluation makes of S1: a stalled one claims nothing, one with a new sample what the
\* sample says, and any other what the record said before.
LEMMA ShowsS1 ==
  ASSUME NEW rs, NEW e, e.stalled \in BOOLEAN,
         "S1" \in DOMAIN rs => "state" \in DOMAIN rs["S1"], "S1" \in watched
  PROVE  LET rec == Outcome(rs, e)["S1"].rec
         IN  /\ "state" \in DOMAIN rec
             /\ LevelOf(rec.state) >= 0 => /\ ~e.stalled
                                           /\ NewPeg(e) \/ ("S1" \in DOMAIN rs /\ rec = rs["S1"])
<1> DEFINE first == Evaluated(rs, "S1", e)
           rec   == Outcome(rs, e)["S1"].rec
<1>1. rec = StallShown("S1", first, e)
  BY DEF Outcome, EvaluatedWith, Both
<1>2. first = IF NewPeg(e) THEN Sampled(rs, "S1", e)
              ELSE IF "S1" \in DOMAIN rs THEN rs["S1"] ELSE Record("unknown", Fresh)
  BY DEF Evaluated, SampledSignals
<1>3. "state" \in DOMAIN first
  BY <1>2 DEF Sampled, SampledTo, Shown, Record
<1>4. ~NewPeg(e) /\ "S1" \notin DOMAIN rs => first.state = "unknown"
  BY <1>2 DEF Record
<1> HIDE DEF first, rec
<1>5. CASE e.stalled
  <2>1. rec = IF first.state # "n/a" THEN [first EXCEPT !.state = "unknown"] ELSE first
    BY <1>1, <1>5 DEF StallShown
  <2>2. "state" \in DOMAIN rec /\ rec.state \in {"unknown", "n/a"} BY <1>3, <2>1
  <2>3. ~(LevelOf(rec.state) >= 0) BY <2>2, NoClaim
  <2> QED BY <2>2, <2>3 DEF rec
<1>6. CASE ~e.stalled
  <2>1. rec = first BY <1>1, <1>6 DEF StallShown
  <2>2. ~NewPeg(e) /\ "S1" \notin DOMAIN rs => ~(LevelOf(rec.state) >= 0)
    BY <1>4, <2>1, NoClaim
  <2>3. ~NewPeg(e) /\ "S1" \in DOMAIN rs => rec = rs["S1"] BY <1>2, <2>1
  <2> QED BY <1>3, <1>6, <2>1, <2>2, <2>3 DEF rec
<1> QED BY <1>5, <1>6

\* The engine is applied on what an evaluation read, maybe after a later one.
LEMMA ApplyKeeps ==
  ASSUME StaleInv, LeftOK', left'.loops = left.loops, NEW p \in Loops, p \in DOMAIN flight,
         ApplyNext(p)
  PROVE  StaleInv'
<1> DEFINE e == flight[p]
<1>0. ClockInv /\ ShapeInv /\ FlightInv /\ ClaimInv BY StaleParts
<1>1. PICK loads \in BOOLEAN, saves \in BOOLEAN :
        /\ loaded => loads
        /\ ApplyTo(p, e, loads, saves, Base(loads), Outcome(Base(loads), e))
        /\ late' = (p # "watchdog" /\ (late \/ LateLoad(loads)))
  BY DEF ApplyNext
<1> DEFINE rs  == Base(loads)
           out == Outcome(rs, e)
           changed == ChangedBy(rs, out)
           events  == IF Stores(loads, saves) THEN changed ELSE {}
           new == [s \in watched |-> out[s].rec]
<1>2. /\ Moves(p, IF p = "peg" THEN "evaluated" ELSE "waiting")
      /\ UNCHANGED <<now, latest, lastRun, begun, ticked, since>>
  BY DEF ApplyNext
<1>3. /\ Apply(e, loads, saves, new, changed, e.passed)
      /\ flight' = Passed(p, events)
  BY <1>1 DEF ApplyTo, ApplyWith
<1>4. /\ recs' = new /\ pegSeen' = Max({pegSeen, e.peg.at}) /\ watched' = watched
      /\ saved' = new \/ saved' = saved
  BY <1>3 DEF Apply
<1>5. /\ e.now \in 0 .. now /\ e.peg.at \in -1 .. latest.at /\ e.stalled \in BOOLEAN
      /\ p = "peg" => e.peg.at = begun
      /\ p = "watchdog" =>
           /\ e.now = now
           /\ \A q \in DOMAIN flight : flight[q].now < now => flight[q].peg.at <= e.peg.at
      /\ Unconsumed(p) => e.now >= now - 1 /\ (WatchdogDone => e.now = now)
      /\ ~e.stalled => \/ e.peg.at >= e.now - Stall
                       \/ since = -1 \/ since >= e.now
      /\ place[p] = "evaluating"
  BY <1>0 DEF FlightInv
<1>6. /\ now \in Nat /\ latest.at \in Int /\ since \in Int /\ Stall \in Nat /\ pegSeen \in Int
      /\ e.peg.at \in Int
  BY <1>0, <1>5, ServiceAssumption DEF ClockInv
<1>7. pegSeen' \in Int /\ pegSeen' >= pegSeen /\ pegSeen' >= e.peg.at
  <2>1. PICK at : at = e.peg.at OBVIOUS
  <2>2. at \in Int /\ pegSeen' = Max({pegSeen, at}) BY <1>4, <1>6, <2>1
  <2>3. pegSeen' = IF pegSeen >= at THEN pegSeen ELSE at BY <1>6, <2>2, MaxOfTwo
  <2> HIDE DEF e
  <2> QED BY <1>6, <2>1, <2>2, <2>3
<1>8. /\ DOMAIN place' = Loops
      /\ place'[p] = IF p = "peg" THEN "evaluated" ELSE "waiting"
      /\ \A q \in Loops : q # p => place'[q] = place[q]
  BY <1>0, <1>2 DEF ClockInv, Moves
<1>9. /\ DOMAIN flight' = DOMAIN flight \ {p}
      /\ \A q \in DOMAIN flight' : /\ flight'[q].now = flight[q].now
                                   /\ flight'[q].peg = flight[q].peg
                                   /\ flight'[q].stalled = flight[q].stalled
  <2>1. flight' = [q \in DOMAIN flight \ {p} |->
                     [flight[q] EXCEPT !.before = flight[q].before \ {p},
                                       !.passed = IF q \in e.before
                                                  THEN flight[q].passed \cup events
                                                  ELSE flight[q].passed]]
    BY <1>3 DEF Passed
  <2>2. ASSUME NEW q \in DOMAIN flight \ {p}
        PROVE  /\ flight'[q].now = flight[q].now
               /\ flight'[q].peg = flight[q].peg
               /\ flight'[q].stalled = flight[q].stalled
    <3>1. PICK f : f = flight[q] OBVIOUS
    <3>2. PICK b : b = flight[q].before \ {p} OBVIOUS
    <3>3. PICK c : c = IF q \in e.before THEN flight[q].passed \cup events ELSE flight[q].passed
      OBVIOUS
    <3>4. flight'[q] = [f EXCEPT !.before = b, !.passed = c] BY <2>1, <3>1, <3>2, <3>3
    <3> QED BY <3>1, <3>4
  <2> QED BY <2>1, <2>2
<1>10. "S1" \in DOMAIN rs => "state" \in DOMAIN rs["S1"]
  BY <1>0 DEF ShapeInv, Base, WithStored
<1>11. "S1" \in watched =>
         /\ "state" \in DOMAIN new["S1"]
         /\ LevelOf(new["S1"].state) >= 0 =>
              ~e.stalled /\ (NewPeg(e) \/ ("S1" \in DOMAIN rs /\ new["S1"] = rs["S1"]))
  <2> HIDE DEF e, rs
  <2> QED BY <1>5, <1>10, ShowsS1
<1>12. DOMAIN new = watched OBVIOUS
<1> HIDE DEF new, changed, events, out
<1>13. p # "watchdog" => (WatchdogDone' <=> WatchdogDone)
  BY <1>2, <1>8 DEF WatchdogDone, Loops
<1>14. ClockInv'
  BY <1>0, <1>2, <1>4, <1>5, <1>7, <1>8, <1>12 DEF ClockInv, LeftOK, Loops
<1>15. ShapeInv' BY <1>0, <1>4, <1>11, <1>12 DEF ShapeInv
<1>16. DOMAIN flight' = {q \in Loops : place'[q] = "evaluating"}
  BY <1>0, <1>8, <1>9 DEF FlightInv
<1>17. FlightInv'
  <2>1. ASSUME NEW q \in DOMAIN flight', Unconsumed(q)'
        PROVE  flight[q].now >= now - 1 /\ (WatchdogDone' => flight[q].now = now)
    <3>1. q \in DOMAIN flight /\ q # p /\ flight'[q].peg = flight[q].peg
          /\ flight[q].peg.at \in Int /\ flight[q].now \in 0 .. now
      BY <1>0, <1>6, <1>9 DEF FlightInv
    <3>2. Unconsumed(q) /\ flight[q].peg.at > e.peg.at
      BY <1>6, <1>7, <2>1, <3>1 DEF Unconsumed
    <3>3. flight[q].now >= now - 1 /\ (WatchdogDone => flight[q].now = now)
      BY <1>0, <3>1, <3>2 DEF FlightInv
    <3>4. p = "watchdog" => flight[q].now = now
      BY <1>5, <1>6, <3>1, <3>2
    <3> QED BY <1>13, <3>3, <3>4
  <2>2. ASSUME NEW q \in DOMAIN flight'
        PROVE  /\ flight'[q].now \in 0 .. now' /\ flight'[q].peg.at \in -1 .. latest'.at
               /\ flight'[q].stalled \in BOOLEAN
               /\ q = "peg" => flight'[q].peg.at = begun'
               /\ q = "watchdog" =>
                    /\ flight'[q].now = now'
                    /\ \A r \in DOMAIN flight' : flight'[r].now < now' =>
                         flight'[r].peg.at <= flight'[q].peg.at
               /\ ~flight'[q].stalled => \/ flight'[q].peg.at >= flight'[q].now - Stall
                                         \/ since' = -1 \/ since' >= flight'[q].now
    BY <1>0, <1>2, <1>9 DEF FlightInv
  <2> QED BY <1>2, <1>9, <1>16, <2>1, <2>2 DEF FlightInv
<1>18. ClaimInv'
  <2> SUFFICES ASSUME ~late', S1Claims', since # -1
               PROVE  Timely(now - 1)' /\ (WatchdogDone' => Timely(now)')
    BY <1>2 DEF ClaimInv
  <2>1. "S1" \in watched /\ LevelOf(new["S1"].state) >= 0
    BY <1>4, <1>12 DEF S1Claims
  <2>2. ~e.stalled /\ (NewPeg(e) \/ ("S1" \in DOMAIN rs /\ new["S1"] = rs["S1"]))
    BY <1>11, <2>1
  <2>3. e.peg.at >= e.now - Stall \/ since >= e.now
    BY <1>5, <2>2
  <2>4. CASE p = "watchdog"
    <3>1. pegSeen' >= now - Stall \/ since >= now BY <1>5, <1>6, <1>7, <2>3, <2>4
    <3> QED BY <1>2, <1>6, <1>7, <3>1 DEF Timely
  <2>5. CASE p # "watchdog" /\ NewPeg(e)
    <3>1. Unconsumed(p) BY <2>5 DEF Unconsumed, NewPeg
    <3>2. e.now >= now - 1 /\ (WatchdogDone' => e.now = now) BY <1>5, <1>13, <2>5, <3>1
    <3>3. pegSeen' >= e.now - Stall \/ since >= e.now BY <1>5, <1>6, <1>7, <2>3
    <3> QED BY <1>2, <1>5, <1>6, <1>7, <3>2, <3>3 DEF Timely
  <2>6. CASE p # "watchdog" /\ ~NewPeg(e)
    <3>1. ~late /\ ~LateLoad(loads) BY <1>1, <2>6
    <3>2. "S1" \in DOMAIN rs /\ new["S1"] = rs["S1"] BY <2>2, <2>6
    <3>3. DOMAIN recs = watched BY <1>0 DEF ClockInv
    <3>4. rs = recs
      <4>1. CASE loaded \/ ~loads BY <4>1 DEF Base
      <4>2. CASE ~loaded /\ loads
        <5>1. recs = <<>> BY <3>1, <4>2 DEF LateLoad
        <5> QED BY <2>1, <3>3, <5>1
      <4> QED BY <4>1, <4>2
    <3>5. S1Claims BY <2>1, <3>2, <3>4 DEF S1Claims
    <3>6. Timely(now - 1) /\ (WatchdogDone => Timely(now))
      BY <1>0, <3>1, <3>5 DEF ClaimInv
    <3> QED BY <1>2, <1>6, <1>7, <1>13, <2>6, <3>6 DEF Timely
  <2> QED BY <2>4, <2>5, <2>6
<1> QED BY <1>14, <1>15, <1>17, <1>18 DEF StaleInv, ClaimInv

LEMMA StaleStep == ASSUME StaleInv, [Next]_vars PROVE StaleInv'
<1>1. LeftOK' /\ left'.loops = left.loops
  BY StaleParts, ClockLeft, LeftStep
<1>2. ASSUME PegStep PROVE StaleInv' BY <1>1, <1>2, PegKeeps
<1>3. ASSUME Tick PROVE StaleInv' BY <1>1, <1>3, TickKeeps
<1>4. ASSUME Restart PROVE StaleInv' BY <1>1, <1>4, RestartKeeps
<1>5. ASSUME \/ UNCHANGED vars \/ ControlsSample \/ SupplySample \/ WorldChanges \/ ChainStep
             \/ \E p \in DOMAIN flight : ReadEvents(p)
      PROVE  StaleInv'
  BY <1>1, <1>5, AsideSteps
<1>6. ASSUME NEW p \in Loops, Evaluate(p) \/ Panics(p) PROVE StaleInv'
  <2>1. CASE Panics(p) BY <1>1, <2>1, PanicKeeps
  <2>2. CASE Gather(p) BY <1>1, <2>2, GatherKeeps
  <2>3. CASE p \in DOMAIN flight /\ ReadEvents(p) BY <1>5, <2>3
  <2>4. CASE p \in DOMAIN flight /\ ApplyNext(p) BY <1>1, <2>4, ApplyKeeps
  <2> QED BY <1>6, <2>1, <2>2, <2>3, <2>4 DEF Evaluate
<1>7. CASE UNCHANGED vars BY <1>5, <1>7
<1>8. ASSUME Next PROVE StaleInv'
  BY <1>2, <1>3, <1>4, <1>5, <1>6, <1>8, Zenon DEF Next
<1> QED BY <1>7, <1>8

LEMMA StaleInitially == ASSUME Init PROVE StaleInv
<1>1. /\ left \in Limits
      /\ left.ticks > 0 /\ "peg" \in Running => "watchdog" \in Running
  BY ServiceAssumption DEF Init, Running
<1>2. {"loops", "ticks"} \subseteq DOMAIN left /\ left.ticks \in Nat
  BY <1>1 DEF Limits
<1>3. /\ now = 0 /\ latest = NoPeg /\ lastRun = -1 /\ since = -1 /\ begun = 0 /\ pegSeen = -1
      /\ recs = <<>> /\ saved = <<>> /\ flight = <<>>
      /\ place = [p \in Loops |-> "waiting"]
  BY DEF Init, EngineInit
<1>4. ClockInv BY <1>1, <1>2, <1>3 DEF ClockInv, NoPeg, Loops
<1>5. ShapeInv /\ FlightInv BY <1>3 DEF ShapeInv, FlightInv
<1> QED BY <1>3, <1>4, <1>5 DEF StaleInv

\* A sampler that stalls shows: once a run was recorded, S1 claims nothing from a sample
\* older than the limit and one interval, for any limit, venues, faults, restarts and panics,
\* evaluations that overtake each other and loads that fail; only a late load of the stored
\* records brings old claims back, and until the watchdog's next evaluation.
THEOREM StalledSamplerShows == Spec => []StaleSampleShows
<1>1. Init => StaleInv BY StaleInitially
<1>2. StaleInv /\ [Next]_vars => StaleInv' BY StaleStep
<1>3. StaleInv => StaleSampleShows
  <2> SUFFICES ASSUME StaleInv, ~late, "S1" \in DOMAIN recs, since # -1,
                      LevelOf(recs["S1"].state) >= 0
               PROVE  now - Max({pegSeen, since}) <= Stall + 1
    BY DEF StaleSampleShows
  <2>1. Timely(now - 1) BY DEF StaleInv, S1Claims
  <2>2. now \in Nat /\ pegSeen \in Int /\ since \in Int /\ Stall \in Nat
    BY ServiceAssumption DEF StaleInv, ClockInv
  <2>3. Max({pegSeen, since}) = IF pegSeen >= since THEN pegSeen ELSE since
    BY <2>2, MaxOfTwo
  <2> QED BY <2>1, <2>2, <2>3 DEF Timely
<1> QED BY <1>1, <1>2, <1>3, PTL DEF Spec

-----------------------------------------------------------------------------
(* The consensus price: no venue decides it, whatever the quotes.           *)

LEMMA FiniteMinMax ==
  ASSUME NEW S, IsFiniteSet(S), S # {}, \A x \in S : x \in Int
  PROVE  /\ Min(S) \in S /\ \A y \in S : Min(S) <= y
         /\ Max(S) \in S /\ \A y \in S : y <= Max(S)
<1> DEFINE Low(s)  == \E n \in s : \A x \in s : n <= x
           High(s) == \E n \in s : \A x \in s : x <= n
           P == {s \in SUBSET S : s = {} \/ (Low(s) /\ High(s))}
<1>1. {} \in P OBVIOUS
<1>2. ASSUME NEW s \in P, NEW y \in S \ s PROVE s \cup {y} \in P
  <2>1. s \cup {y} \in SUBSET S /\ \A x \in s \cup {y} : x \in Int OBVIOUS
  <2>2. CASE s = {}
    <3>1. Low(s \cup {y}) /\ High(s \cup {y}) BY <2>1, <2>2
    <3> QED BY <2>1, <3>1
  <2>3. CASE s # {}
    <3>1. Low(s) /\ High(s) BY <2>3
    <3>2. Low(s \cup {y})
      <4>1. PICK n \in s : \A x \in s : n <= x BY <3>1
      <4>2. CASE n <= y BY <2>1, <4>1, <4>2
      <4>3. CASE ~(n <= y) BY <2>1, <4>1, <4>3
      <4> QED BY <4>2, <4>3
    <3>3. High(s \cup {y})
      <4>1. PICK n \in s : \A x \in s : x <= n BY <3>1
      <4>2. CASE y <= n BY <2>1, <4>1, <4>2
      <4>3. CASE ~(y <= n) BY <2>1, <4>1, <4>3
      <4> QED BY <4>2, <4>3
    <3> QED BY <2>1, <3>2, <3>3
  <2> QED BY <2>2, <2>3
<1>3. S \in P
  <2>1. P \in SUBSET (SUBSET S) OBVIOUS
  <2> HIDE DEF P
  <2> QED BY <1>1, <1>2, <2>1, FinSetInduct
<1>4. Low(S) /\ High(S) BY <1>3
<1>5. Min(S) \in S /\ \A y \in S : Min(S) <= y BY <1>4 DEF Min
<1>6. Max(S) \in S /\ \A y \in S : y <= Max(S) BY <1>4 DEF Max
<1> QED BY <1>5, <1>6

LEMMA TotalOne == ASSUME NEW f, NEW x, f[x] \in Int PROVE Total(f, {x}) = f[x]
<1>1. IsFiniteSet({x}) BY FS_Singleton
<1>2. Ints(f, {x}) /\ x \in {x} /\ {x} \ {x} = {} BY DEF Ints
<1>3. Total(f, {x}) = f[x] + Total(f, {x} \ {x}) BY <1>1, <1>2, TotalWithout
<1>4. Total(f, {x} \ {x}) = Total(f, {}) BY <1>2
<1>5. Total(f, {}) = 0 BY TotalEmpty
<1> QED BY <1>3, <1>4, <1>5

\* The prices of a finite set of inputs, and what each weighs.
Priced(V, p, w) == IsFiniteSet(V) /\ V # {} /\ \A v \in V : p[v] \in Int /\ w[v] \in Nat
PricesOf(V, p)  == {p[i] : i \in V}

LEMMA ImageFinite ==
  ASSUME NEW V, IsFiniteSet(V), NEW p PROVE IsFiniteSet(PricesOf(V, p))
<1> DEFINE P == {s \in SUBSET V : IsFiniteSet(PricesOf(s, p))}
<1>1. {} \in P
  <2>1. PricesOf({}, p) = {} BY DEF PricesOf
  <2> QED BY <2>1, FS_EmptySet
<1>2. ASSUME NEW s \in P, NEW x \in V \ s PROVE s \cup {x} \in P
  <2>1. PricesOf(s \cup {x}, p) = PricesOf(s, p) \cup {p[x]} BY DEF PricesOf
  <2>2. IsFiniteSet(PricesOf(s, p)) OBVIOUS
  <2>3. IsFiniteSet(PricesOf(s, p) \cup {p[x]}) BY <2>2, FS_AddElement
  <2> QED BY <2>1, <2>3
<1>3. P \in SUBSET (SUBSET V) OBVIOUS
<1>4. V \in P
  <2> HIDE DEF P
  <2> QED BY <1>1, <1>2, <1>3, FinSetInduct
<1> QED BY <1>4

LEMMA PricesFinite ==
  ASSUME NEW V, NEW p, NEW w, Priced(V, p, w), NEW T \in SUBSET PricesOf(V, p)
  PROVE  IsFiniteSet(T) /\ \A x \in T : x \in Int
<1>1. IsFiniteSet(PricesOf(V, p)) BY ImageFinite DEF Priced
<1> QED BY <1>1, FS_Subset DEF Priced, PricesOf

LEMMA WeightToType ==
  ASSUME NEW V, NEW p, NEW w, Priced(V, p, w), NEW d
  PROVE  WeightTo(V, p, w, d) \in Nat
<1>1. IsFiniteSet({i \in V : p[i] <= d}) BY FS_Subset DEF Priced
<1> QED BY <1>1, TotalBounds DEF Priced, WeightTo

LEMMA CrossingIs ==
  ASSUME NEW V, NEW p, NEW w, Priced(V, p, w)
  PROVE  LET all == Total(w, V)
             mid == Crossing(V, p, w, all)
         IN  /\ mid \in PricesOf(V, p) /\ mid \in Int /\ all \in Nat
             /\ 2 * WeightTo(V, p, w, mid) >= all
             /\ \A d \in PricesOf(V, p) : 2 * WeightTo(V, p, w, d) >= all => mid <= d
<1> DEFINE all == Total(w, V)
           Heavy == {d \in {p[i] : i \in V} : 2 * WeightTo(V, p, w, d) >= all}
<1>1. all \in Nat BY TotalBounds DEF Priced
<1>2. Heavy \in SUBSET PricesOf(V, p) BY DEF PricesOf
<1>3. PricesOf(V, p) # {} /\ PricesOf(V, p) \in SUBSET PricesOf(V, p) BY DEF Priced, PricesOf
<1>4. Max(PricesOf(V, p)) \in PricesOf(V, p) /\ \A y \in PricesOf(V, p) : y <= Max(PricesOf(V, p))
  BY <1>3, PricesFinite, FiniteMinMax
<1>5. {i \in V : p[i] <= Max(PricesOf(V, p))} = V BY <1>4 DEF PricesOf
<1>6. WeightTo(V, p, w, Max(PricesOf(V, p))) = all BY <1>5 DEF WeightTo
<1>7. Max(PricesOf(V, p)) \in Heavy BY <1>1, <1>4, <1>6 DEF PricesOf
<1>8. IsFiniteSet(Heavy) /\ \A x \in Heavy : x \in Int BY <1>2, PricesFinite
<1>9. Min(Heavy) \in Heavy /\ \A y \in Heavy : Min(Heavy) <= y
  <2> HIDE DEF Heavy
  <2> QED BY <1>7, <1>8, FiniteMinMax
<1>10. Crossing(V, p, w, all) = Min(Heavy) BY DEF Crossing
<1> QED BY <1>1, <1>8, <1>9, <1>10 DEF PricesOf

\* The price next above the middle one, where exactly half of the weight is below.
Above(V, p, mid) == {p[i] : i \in {j \in V : p[j] > mid}}

LEMMA AboveIs ==
  ASSUME NEW V, NEW p, NEW w, Priced(V, p, w), NEW mid \in Int
  PROVE  /\ \A x \in Above(V, p, mid) : x \in Int /\ x > mid
         /\ Above(V, p, mid) # {} => /\ Min(Above(V, p, mid)) \in Above(V, p, mid)
                                     /\ \A x \in Above(V, p, mid) : Min(Above(V, p, mid)) <= x
<1>1. Above(V, p, mid) \in SUBSET PricesOf(V, p) BY DEF Above, PricesOf
<1>2. \A x \in Above(V, p, mid) : x > mid BY DEF Above
<1> QED BY <1>1, <1>2, PricesFinite, FiniteMinMax

LEMMA WeightedMedianIs ==
  ASSUME NEW V, NEW p, NEW w, Priced(V, p, w)
  PROVE  LET mid  == Crossing(V, p, w, Total(w, V))
             next == Above(V, p, mid)
             tied == 2 * WeightTo(V, p, w, mid) = Total(w, V)
         IN  /\ WeightedMedian(V, p, w) = (IF tied /\ next # {} THEN (mid + Min(next)) \div 2 ELSE mid)
             /\ WeightedMedian(V, p, w) \in Int
<1> DEFINE mid == Crossing(V, p, w, Total(w, V))
<1>1. mid \in Int BY CrossingIs
<1>2. Above(V, p, mid) # {} => Min(Above(V, p, mid)) \in Int BY <1>1, AboveIs
<1>3. WeightedMedian(V, p, w) =
        IF 2 * WeightTo(V, p, w, mid) = Total(w, V) /\ Above(V, p, mid) # {}
        THEN (mid + Min(Above(V, p, mid))) \div 2 ELSE mid
  BY DEF WeightedMedian, MedianAt, AtHalf, Above
<1> HIDE DEF mid
<1>4. WeightedMedian(V, p, w) \in Int BY <1>1, <1>2, <1>3
<1> QED BY <1>3, <1>4 DEF mid

\* One that weighs no more than the others together moves the median at most half way.
LEMMA HalfAtMost ==
  ASSUME NEW V, NEW p, NEW w, Priced(V, p, w), NEW v \in V, V \ {v} # {}, 2 * w[v] <= Total(w, V)
  PROVE  Between(WeightedMedian(V, p, w), p[v], {p[u] : u \in V \ {v}})
<1> DEFINE W == Total(w, V)
           mid == Crossing(V, p, w, W)
           next == Above(V, p, mid)
           tied == 2 * WeightTo(V, p, w, mid) = W
           others == {p[u] : u \in V \ {v}}
           lo == Min(others)
           hi == Max(others)
           res == WeightedMedian(V, p, w)
<1>1. /\ p[v] \in Int /\ w[v] \in Nat /\ IsFiniteSet(V)
      /\ \A u \in V : p[u] \in Int /\ w[u] \in Nat
  BY DEF Priced
<1>2. /\ W \in Nat /\ mid \in Int /\ mid \in PricesOf(V, p) /\ 2 * WeightTo(V, p, w, mid) >= W
      /\ \A d \in PricesOf(V, p) : 2 * WeightTo(V, p, w, d) >= W => mid <= d
  BY CrossingIs
<1>3. /\ lo \in others /\ hi \in others /\ \A x \in others : lo <= x /\ x <= hi
      /\ lo \in Int /\ hi \in Int
  <2>1. others \in SUBSET PricesOf(V, p) /\ others # {} BY DEF PricesOf
  <2>2. IsFiniteSet(others) /\ \A x \in others : x \in Int BY <2>1, PricesFinite
  <2> HIDE DEF others
  <2> QED BY <2>1, <2>2, FiniteMinMax
<1>4. /\ \A x \in next : x \in Int /\ x > mid
      /\ next # {} => Min(next) \in next /\ \A x \in next : Min(next) <= x
  BY <1>2, AboveIs
<1>5. res = (IF tied /\ next # {} THEN (mid + Min(next)) \div 2 ELSE mid) /\ res \in Int
  BY WeightedMedianIs
<1>6. \A x \in PricesOf(V, p) : x \in others \/ x = p[v] BY DEF PricesOf
<1>7. \A u \in V \ {v} : lo <= p[u] /\ p[u] <= hi BY <1>3
<1>8. \A x \in next : x \in PricesOf(V, p) BY DEF Above, PricesOf
<1>9. Total(w, V) = w[v] + Total(w, V \ {v}) /\ Total(w, V \ {v}) \in Int
  <2>1. Ints(w, V) BY <1>1 DEF Ints
  <2>2. IsFiniteSet(V \ {v}) /\ Ints(w, V \ {v}) BY <1>1, <2>1, FS_RemoveElement DEF Ints
  <2> QED BY <1>1, <2>1, <2>2, TotalWithout, TotalInt
<1>10. mid <= hi
  <2> SUFFICES ASSUME mid > hi PROVE FALSE BY <1>2, <1>3
  <2>1. mid = p[v]
    <3>1. mid \notin others
      <4> HIDE DEF mid, others, hi, lo
      <4> QED BY <1>2, <1>3
    <3> QED BY <1>2, <1>6, <3>1
  <2>2. {i \in V : p[i] <= hi} = V \ {v} BY <1>1, <1>3, <1>7, <2>1
  <2>3. WeightTo(V, p, w, hi) = Total(w, V \ {v}) BY <2>2 DEF WeightTo
  <2>4. hi \in PricesOf(V, p) BY <1>3 DEF PricesOf
  <2> HIDE DEF W, mid, hi
  <2>5. 2 * WeightTo(V, p, w, hi) >= W BY <1>1, <1>9, <2>3 DEF W
  <2> QED BY <1>2, <1>3, <2>4, <2>5
<1>11. mid >= lo \/ (mid = p[v] /\ tied /\ lo \in next /\ Min(next) = lo)
  <2> SUFFICES ASSUME mid < lo PROVE mid = p[v] /\ tied /\ lo \in next /\ Min(next) = lo BY <1>2, <1>3
  <2>1. mid = p[v]
    <3>1. mid \notin others
      <4> HIDE DEF mid, others, hi, lo
      <4> QED BY <1>2, <1>3
    <3> QED BY <1>2, <1>6, <3>1
  <2>2. {i \in V : p[i] <= mid} = {v} BY <1>1, <1>2, <1>3, <1>7, <2>1
  <2>3. WeightTo(V, p, w, mid) = w[v]
    <3>4. Total(w, {v}) = w[v] BY <1>1, TotalOne
    <3>5. WeightTo(V, p, w, mid) = Total(w, {v}) BY <2>2 DEF WeightTo
    <3> HIDE DEF mid
    <3> QED BY <3>4, <3>5
  <2>4. tied
    <3> HIDE DEF mid
    <3> QED BY <1>1, <1>2, <2>3
  <2>5. lo \in next
    <3>1. PICK u \in V \ {v} : lo = p[u] BY <1>3
    <3> HIDE DEF mid, lo
    <3> QED BY <3>1 DEF Above
  <2>6. \A x \in next : x \in others
    <3> SUFFICES ASSUME NEW x \in next PROVE x \in others OBVIOUS
    <3>1. x > mid /\ x \in PricesOf(V, p) BY <1>4, <1>8
    <3> HIDE DEF mid, next, others
    <3> QED BY <1>1, <1>6, <2>1, <3>1
  <2>7. Min(next) \in others /\ Min(next) <= lo BY <1>4, <2>5, <2>6
  <2>8. Min(next) = lo
    <3>1. lo \in Int /\ \A x \in others : lo <= x /\ x <= hi BY <1>3
    <3>2. Min(next) \in Int BY <1>4, <2>5
    <3> HIDE DEF next, others, lo, hi
    <3> QED BY <2>7, <3>1, <3>2
  <2> QED BY <2>1, <2>4, <2>5, <2>8
<1>12. res >= lo \/ res >= (lo + p[v]) \div 2
  <2> HIDE DEF W, mid, next, tied, others, lo, hi, res
  <2>1. CASE mid >= lo BY <1>1, <1>2, <1>3, <1>4, <1>5, <2>1
  <2>2. CASE mid < lo BY <1>1, <1>2, <1>3, <1>5, <1>11, <2>2
  <2> QED BY <1>2, <1>3, <2>1, <2>2
<1>13. res <= hi \/ res <= (hi + p[v]) \div 2
  <2>1. tied /\ next # {} => Min(next) \in Int /\ (Min(next) <= hi \/ Min(next) = p[v])
    <3>1. next # {} => Min(next) \in PricesOf(V, p) BY <1>4, <1>8
    <3> HIDE DEF next, others, hi
    <3> QED BY <1>3, <1>4, <1>6, <3>1
  <2> HIDE DEF W, mid, next, tied, others, lo, hi, res
  <2> QED BY <1>1, <1>2, <1>3, <1>5, <1>10, <2>1
<1> HIDE DEF W, mid, next, tied, lo, hi, res
<1>14. /\ Min({lo, (lo + p[v]) \div 2}) <= lo /\ Min({lo, (lo + p[v]) \div 2}) <= (lo + p[v]) \div 2
       /\ Max({hi, (hi + p[v]) \div 2}) >= hi /\ Max({hi, (hi + p[v]) \div 2}) >= (hi + p[v]) \div 2
       /\ Min({lo, (lo + p[v]) \div 2}) \in Int /\ Max({hi, (hi + p[v]) \div 2}) \in Int
  <2>1. \A a, b \in Int : IsFiniteSet({a, b})
    <3> TAKE a, b \in Int
    <3>1. IsFiniteSet({a}) BY FS_EmptySet, FS_AddElement
    <3>2. {a, b} = {a} \cup {b} OBVIOUS
    <3> QED BY <3>1, <3>2, FS_AddElement
  <2>2. \A a, b \in Int : Min({a, b}) \in {a, b} /\ Min({a, b}) <= a /\ Min({a, b}) <= b
    <3> TAKE a, b \in Int
    <3>1. \A x \in {a, b} : x \in Int OBVIOUS
    <3>2. Min({a, b}) \in {a, b} /\ \A y \in {a, b} : Min({a, b}) <= y BY <2>1, <3>1, FiniteMinMax
    <3> QED BY <3>2
  <2>3. \A a, b \in Int : Max({a, b}) \in {a, b} /\ Max({a, b}) >= a /\ Max({a, b}) >= b
    <3> TAKE a, b \in Int
    <3>1. \A x \in {a, b} : x \in Int OBVIOUS
    <3>2. Max({a, b}) \in {a, b} /\ \A y \in {a, b} : y <= Max({a, b}) BY <2>1, <3>1, FiniteMinMax
    <3> QED BY <3>2
  <2>4. (lo + p[v]) \div 2 \in Int /\ (hi + p[v]) \div 2 \in Int BY <1>1, <1>3
  <2> QED BY <1>3, <2>2, <2>3, <2>4
<1>15. res >= Min({lo, (lo + p[v]) \div 2}) BY <1>1, <1>3, <1>5, <1>12, <1>14
<1>16. res <= Max({hi, (hi + p[v]) \div 2}) BY <1>1, <1>3, <1>5, <1>13, <1>14
<1> QED BY <1>15, <1>16 DEF Between, res, lo, hi

\* The quotes of a consensus: what they weigh together, and venue by venue.
IsQuote(q) == q.dev \in Int /\ q.vol \in Nat
Quoted(qs, I) == IsFiniteSet(I) /\ \A i \in I : IsQuote(qs[i])

LEMMA VolumeIs ==
  ASSUME NEW qs, NEW I, Quoted(qs, I)
  PROVE  /\ Volume(qs, I) \in Nat
         /\ I = {} => Volume(qs, I) = 0
         /\ \A x : x \notin I /\ IsQuote(qs[x]) => Volume(qs, I \cup {x}) = Volume(qs, I) + qs[x].vol
<1> DEFINE vol(s) == [i \in s |-> qs[i].vol]
<1>1. Volume(qs, I) = Total(vol(I), I) /\ IsFiniteSet(I) /\ \A i \in I : vol(I)[i] \in Nat
  BY DEF Volume, Quoted, IsQuote
<1>2. Volume(qs, I) \in Nat
  <2> HIDE DEF vol
  <2> QED BY <1>1, TotalBounds
<1>3. I = {} => Volume(qs, I) = 0
  <2> SUFFICES ASSUME I = {} PROVE Total(vol(I), I) = 0 BY <1>1
  <2>1. Total(vol(I), {}) = 0 BY TotalEmpty
  <2> QED BY <2>1
<1>4. ASSUME NEW x, x \notin I, IsQuote(qs[x]) PROVE Volume(qs, I \cup {x}) = Volume(qs, I) + qs[x].vol
  <2> DEFINE f == vol(I \cup {x})
             g == vol(I)
  <2>1. \A i \in I \cup {x} : f[i] = qs[i].vol BY DEF f
  <2>2. \A i \in I : g[i] = qs[i].vol BY DEF g
  <2>3. Volume(qs, I \cup {x}) = Total(f, I \cup {x}) BY DEF Volume
  <2>4. Volume(qs, I) = Total(g, I) BY <1>1
  <2> HIDE DEF f, g
  <2>5. Ints(f, I \cup {x}) /\ Ints(g, I) /\ f[x] = qs[x].vol
    BY <2>1, <2>2, <1>4 DEF Ints, Quoted, IsQuote
  <2>6. Total(f, I \cup {x}) = f[x] + Total(f, I) BY <1>1, <1>4, <2>5, TotalWith
  <2>7. \A i \in I : f[i] = g[i] BY <2>1, <2>2
  <2>8. Total(f, I) = Total(g, I) BY <1>1, <2>5, <2>7, TotalSame
  <2>9. Total(g, I) \in Int /\ f[x] \in Int BY <1>2, <2>4, <2>5 DEF Ints
  <2> QED BY <2>3, <2>4, <2>5, <2>6, <2>8, <2>9
<1> QED BY <1>2, <1>3, <1>4

Volumes(qs, s, V) == [v \in V |-> Volume(qs, Own(qs, s, v))]

LEMMA OwnQuoted ==
  ASSUME NEW qs, NEW I, Quoted(qs, I), NEW s \in SUBSET I, NEW v
  PROVE  /\ Quoted(qs, s) /\ Quoted(qs, Own(qs, s, v))
         /\ Volume(qs, s) \in Nat /\ Volume(qs, Own(qs, s, v)) \in Nat
<1>1. Quoted(qs, s) BY FS_Subset DEF Quoted
<1>2. Own(qs, s, v) \in SUBSET s BY DEF Own
<1>3. Quoted(qs, Own(qs, s, v)) BY <1>1, <1>2, FS_Subset DEF Quoted
<1> QED BY <1>1, <1>3, VolumeIs

LEMMA VolumeByVenue ==
  ASSUME NEW qs, NEW I, Quoted(qs, I)
  PROVE  /\ IsFiniteSet(VenuesOf(qs, I))
         /\ Volume(qs, I) = Total(Volumes(qs, I, VenuesOf(qs, I)), VenuesOf(qs, I))
<1> DEFINE V == VenuesOf(qs, I)
           Zero == [v \in V |-> 0]
           P == {s \in SUBSET I : Volume(qs, s) = Total(Volumes(qs, s, V), V)}
<1>1. IsFiniteSet(V)
  <2>1. V = PricesOf(I, [i \in I |-> qs[i].venue]) BY DEF VenuesOf, PricesOf
  <2>2. IsFiniteSet(PricesOf(I, [i \in I |-> qs[i].venue])) BY ImageFinite DEF Quoted
  <2> QED BY <2>1, <2>2
<1>2. \A i \in I : qs[i].venue \in V BY DEF VenuesOf
<1>3. \A v \in V : Zero[v] = 0 OBVIOUS
<1> HIDE DEF V, Zero
<1>4. Total(Zero, V) = 0 BY <1>1, <1>3, TotalZero
<1>5. {} \in P
  <2>1. Quoted(qs, {}) BY FS_EmptySet DEF Quoted
  <2>2. \A v : Own(qs, {}, v) = {} BY DEF Own
  <2>3. Volume(qs, {}) = 0 BY <2>1, VolumeIs
  <2>4. \A v \in V : Volumes(qs, {}, V)[v] = 0 BY <2>2, <2>3 DEF Volumes
  <2>5. Total(Volumes(qs, {}, V), V) = 0 BY <1>1, <2>4, TotalZero
  <2> QED BY <2>3, <2>5
<1>6. ASSUME NEW s \in P, NEW x \in I \ s PROVE s \cup {x} \in P
  <2> DEFINE a == Volumes(qs, s \cup {x}, V)
             b == Volumes(qs, s, V)
             d == qs[x].venue
             n == qs[x].vol
  <2>1. IsQuote(qs[x]) /\ n \in Int /\ d \in V BY <1>2 DEF Quoted, IsQuote
  <2>2. /\ Quoted(qs, s) /\ Volume(qs, s) \in Nat
        /\ \A v : Quoted(qs, Own(qs, s, v)) /\ Volume(qs, Own(qs, s, v)) \in Nat
    BY OwnQuoted
  <2>3. Volume(qs, s \cup {x}) = Volume(qs, s) + n BY <2>1, <2>2, VolumeIs
  <2>4. \A v \in V : b[v] = Volume(qs, Own(qs, s, v)) /\ b[v] \in Int BY <2>2 DEF Volumes
  <2>5. \A v \in V : a[v] = Volume(qs, Own(qs, s \cup {x}, v)) BY DEF Volumes
  <2>6. ASSUME NEW v \in V PROVE a[v] = b[v] - Zero[v] + (IF v = d THEN n ELSE 0)
    <3>1. CASE v = d
      <4>1. Own(qs, s \cup {x}, v) = Own(qs, s, v) \cup {x} /\ x \notin Own(qs, s, v)
        BY <3>1 DEF Own
      <4>2. Quoted(qs, Own(qs, s, v)) BY <2>2
      <4>3. Volume(qs, Own(qs, s, v) \cup {x}) = Volume(qs, Own(qs, s, v)) + n
        BY <2>1, <4>1, <4>2, VolumeIs
      <4>4. a[v] = b[v] + n BY <2>4, <2>5, <4>1, <4>3
      <4> HIDE DEF a, b, n, d
      <4> QED BY <1>3, <2>1, <2>4, <3>1, <4>4
    <3>2. CASE v # d
      <4>1. Own(qs, s \cup {x}, v) = Own(qs, s, v) BY <3>2 DEF Own
      <4>2. a[v] = b[v] BY <2>4, <2>5, <4>1
      <4> HIDE DEF a, b, n, d
      <4> QED BY <1>3, <2>4, <3>2, <4>2
    <3> QED BY <3>1, <3>2
  <2> HIDE DEF a, b, d, n
  <2>7. Shifted(a, b, Zero, d, n, V) BY <2>6 DEF Shifted
  <2>8. Ints(b, V) /\ Ints(Zero, V) BY <1>3, <2>4 DEF Ints
  <2>9. Total(a, V) = Total(b, V) - Total(Zero, V) + (IF d \in V THEN n ELSE 0)
    BY <1>1, <2>1, <2>7, <2>8, TotalMoved
  <2>10. Total(b, V) = Volume(qs, s) BY DEF b
  <2>11. Total(a, V) = Volume(qs, s \cup {x}) BY <1>4, <2>1, <2>2, <2>3, <2>9, <2>10
  <2> QED BY <2>11 DEF a
<1>7. I \in P
  <2>1. P \in SUBSET (SUBSET I) /\ IsFiniteSet(I) BY DEF Quoted
  <2> HIDE DEF P
  <2> QED BY <1>5, <1>6, <2>1, FinSetInduct
<1> QED BY <1>1, <1>7 DEF V

\* With the cap, none weighs more than the others together.
LEMMA CapIsHalf ==
  ASSUME NEW V, IsFiniteSet(V), NEW sum, DOMAIN sum = V, \A u \in V : sum[u] \in Nat, NEW v \in V
  PROVE  LET w == Capping(sum, Total(sum, V))
         IN  (\A u \in V : w[u] \in Nat) /\ 2 * w[v] <= Total(w, V)
<1> DEFINE all == Total(sum, V)
           w == Capping(sum, all)
           rest == Total(w, V \ {v})
<1>1. all \in Nat /\ \A u \in V : sum[u] <= all BY TotalBounds
<1>2. \A u \in V : w[u] = IF sum[u] > all - sum[u] THEN all - sum[u] ELSE sum[u]
  BY DEF Capping, Capped
<1>3. IsFiniteSet(V \ {v}) BY FS_RemoveElement
<1>4. Ints(sum, V) BY DEF Ints
<1>5. all = sum[v] + Total(sum, V \ {v}) BY <1>4, TotalWithout
<1>6. Total(sum, V \ {v}) \in Nat BY <1>3, TotalBounds
<1> HIDE DEF all, w
<1>7. \A u \in V : w[u] \in Nat /\ w[u] <= all - sum[u] /\ w[u] <= sum[u] BY <1>1, <1>2
<1>8. Ints(w, V) BY <1>7 DEF Ints
<1>9. Total(w, V) = w[v] + Total(w, V \ {v}) BY <1>8, TotalWithout
<1>10. /\ Total(w, V \ {v}) \in Nat
       /\ \A u \in V \ {v} : w[u] <= Total(w, V \ {v}) BY <1>3, <1>7, TotalBounds
<1>11. w[v] <= rest
  <2>1. CASE \E u \in V \ {v} : sum[u] > all - sum[u]
    <3>1. PICK u \in V \ {v} : sum[u] > all - sum[u] BY <2>1
    <3>2. IsFiniteSet(V \ {u}) /\ v \in V \ {u} BY FS_RemoveElement
    <3>3. all = sum[u] + Total(sum, V \ {u}) BY <1>4, TotalWithout DEF all
    <3>4. Total(sum, V \ {u}) \in Nat /\ sum[v] <= Total(sum, V \ {u}) BY <3>2, TotalBounds
    <3>5. w[u] >= sum[v] BY <1>1, <1>2, <3>1, <3>3, <3>4
    <3>6. w[u] <= rest /\ rest \in Nat BY <1>10, <3>1
    <3>7. w[u] \in Nat /\ w[v] \in Nat /\ w[v] <= sum[v] BY <1>7, <3>1
    <3> HIDE DEF rest
    <3> QED BY <3>5, <3>6, <3>7
  <2>2. CASE \A u \in V \ {v} : ~(sum[u] > all - sum[u])
    <3>1. \A u \in V \ {v} : w[u] = sum[u] BY <1>2, <2>2
    <3>2. Ints(sum, V \ {v}) BY DEF Ints
    <3>3. Total(w, V \ {v}) = Total(sum, V \ {v}) BY <1>3, <3>1, <3>2, TotalSame
    <3> QED BY <1>1, <1>5, <1>6, <1>7, <3>3
  <2> QED BY <2>1, <2>2
<1>12. 2 * w[v] <= Total(w, V)
  <2>1. w[v] \in Nat /\ Total(w, V) = w[v] + rest BY <1>7, <1>9
  <2>2. rest \in Nat BY <1>10
  <2> HIDE DEF rest
  <2> QED BY <1>11, <2>1, <2>2
<1> QED BY <1>7, <1>12 DEF all, w

LEMMA PriceType ==
  ASSUME NEW qs, NEW I, Quoted(qs, I), NEW v \in VenuesOf(qs, I)
  PROVE  PriceOf(qs, I, v) \in Int
<1> DEFINE own == Own(qs, I, v)
<1>1. Quoted(qs, own) BY OwnQuoted
<1>2. own # {} BY DEF Own, VenuesOf
<1> HIDE DEF own
<1>3. Priced(own, [i \in own |-> qs[i].dev], [i \in own |-> qs[i].vol])
  BY <1>1, <1>2 DEF Priced, Quoted, IsQuote
<1> QED BY <1>3, WeightedMedianIs DEF PriceOf, PriceIn, own

LEMMA AggregateIs ==
  ASSUME NEW qs, NEW I, Quoted(qs, I)
  PROVE  /\ Aggregate(qs, I).dev \in Int
         /\ Cardinality(VenuesOf(qs, I)) >= 3 => \A v \in VenuesOf(qs, I) :
              Between(Aggregate(qs, I).dev, PriceOf(qs, I, v),
                      {PriceOf(qs, I, u) : u \in VenuesOf(qs, I) \ {v}})
<1> DEFINE V == VenuesOf(qs, I)
           price == [v \in V |-> PriceOf(qs, I, v)]
           sum == Volumes(qs, I, V)
           w == Capping(sum, Total(sum, V))
<1>1. IsFiniteSet(V) /\ Volume(qs, I) = Total(sum, V) BY VolumeByVenue
<1>2. \A v \in V : price[v] = PriceOf(qs, I, v) /\ price[v] \in Int BY PriceType
<1>3. DOMAIN sum = V /\ \A v \in V : sum[v] \in Nat BY OwnQuoted DEF Volumes
<1>4. Aggregate(qs, I) = Aggregated(V, price, sum, Total(sum, V))
  BY <1>1 DEF Aggregate, Volumes
<1>5. DOMAIN price = V OBVIOUS
<1> HIDE DEF price, sum
<1>6. \A v \in V : w[v] \in Nat /\ 2 * w[v] <= Total(w, V) BY <1>1, <1>3, CapIsHalf DEF V
<1>7. Cardinality(V) \in Nat /\ (V = {} => Cardinality(V) = 0)
      /\ \A v : (V = {v} => Cardinality(V) = 1)
  BY <1>1, FS_CardinalityType, FS_EmptySet, FS_Singleton
<1> HIDE DEF w, V
<1>8. CASE V = {} BY <1>4, <1>7, <1>8 DEF Aggregated, V
<1>9. CASE V # {} /\ Cardinality(V) = 1
  <2>1. Aggregate(qs, I).dev = Max(Range(price)) BY <1>4, <1>9 DEF Aggregated
  <2>2. Range(price) = PricesOf(V, price) BY <1>5 DEF Range, PricesOf
  <2>3. IsFiniteSet(PricesOf(V, price)) BY <1>1, ImageFinite
  <2>4. PricesOf(V, price) # {} /\ \A x \in PricesOf(V, price) : x \in Int BY <1>2, <1>9 DEF PricesOf
  <2>5. Max(PricesOf(V, price)) \in Int BY <2>3, <2>4, FiniteMinMax
  <2> QED BY <1>9, <2>1, <2>2, <2>5 DEF V
<1>10. CASE V # {} /\ Cardinality(V) = 2
  <2>1. Aggregate(qs, I).dev = Total(price, V) \div 2 BY <1>4, <1>10 DEF Aggregated
  <2>2. Total(price, V) \in Int BY <1>1, <1>2, TotalInt DEF Ints
  <2> QED BY <1>10, <2>1, <2>2 DEF V
<1>11. CASE V # {} /\ Cardinality(V) \notin {1, 2}
  <2>1. Aggregate(qs, I).dev = WeightedMedian(V, price, w) BY <1>4, <1>11 DEF Aggregated, w
  <2>2. Priced(V, price, w) BY <1>1, <1>2, <1>6, <1>11 DEF Priced
  <2>3. Aggregate(qs, I).dev \in Int BY <2>1, <2>2, WeightedMedianIs
  <2>4. ASSUME NEW v \in V
        PROVE  Between(Aggregate(qs, I).dev, PriceOf(qs, I, v), {PriceOf(qs, I, u) : u \in V \ {v}})
    <3>1. V \ {v} # {}
      <4>1. V # {v} BY <1>7, <1>11
      <4> QED BY <2>4, <4>1
    <3>2. Between(WeightedMedian(V, price, w), price[v], {price[u] : u \in V \ {v}})
      BY <1>6, <2>2, <2>4, <3>1, HalfAtMost
    <3>3. {price[u] : u \in V \ {v}} = {PriceOf(qs, I, u) : u \in V \ {v}} BY <1>2
    <3> QED BY <1>2, <2>1, <2>4, <3>2, <3>3
  <2> QED BY <2>3, <2>4 DEF V
<1> QED BY <1>7, <1>8, <1>9, <1>10, <1>11

\* The consensus made of some quotes.
LEMMA FinishIs ==
  ASSUME NEW qs, Quoted(qs, DOMAIN qs)
  PROVE  NoVenueDecides(Finish(qs)) /\ Finish(qs).dev \in Int /\ Finish(qs).quotes = qs
<1> DEFINE I == IncludedIn(qs)
           peg == Finish(qs)
<1>1. Quoted(qs, I) BY OwnQuoted DEF IncludedIn
<1>2. /\ peg.quotes = qs /\ peg.dev = Aggregate(qs, I).dev /\ peg.venues = VenuesOf(qs, I)
  BY DEF Finish, FinishedWith, FinishedAs
<1> HIDE DEF peg
<1>3. IncludedIn(peg.quotes) = I BY <1>2
<1>4. Aggregate(qs, I).dev \in Int
      /\ (Cardinality(VenuesOf(qs, I)) >= 3 => \A v \in VenuesOf(qs, I) :
            Between(Aggregate(qs, I).dev, PriceOf(qs, I, v),
                    {PriceOf(qs, I, u) : u \in VenuesOf(qs, I) \ {v}}))
  BY <1>1, AggregateIs
<1> HIDE DEF I
<1>5. NoVenueDecides(peg) BY <1>2, <1>3, <1>4 DEF NoVenueDecides, BoundedBy
<1> QED BY <1>2, <1>4, <1>5 DEF peg

LEMMA RankedType ==
  ASSUME NEW I, IsFiniteSet(I), I # {}, NEW devs, \A i \in I : devs[i] \in Int,
         NEW k \in Nat, k <= Cardinality(I)
  PROVE  Ranked(I, devs, k) \in Int
<1> DEFINE J == {j \in I : UpToIt(I, devs, j) >= k}
           top == Max(PricesOf(I, devs))
<1>1. IsFiniteSet(PricesOf(I, devs)) BY ImageFinite
<1>2. PricesOf(I, devs) # {} /\ \A x \in PricesOf(I, devs) : x \in Int BY DEF PricesOf
<1>3. top \in PricesOf(I, devs) /\ \A x \in PricesOf(I, devs) : x <= top
  BY <1>1, <1>2, FiniteMinMax
<1> HIDE DEF top
<1>4. PICK i \in I : devs[i] = top BY <1>3 DEF PricesOf
<1>5. {j \in I : devs[j] <= devs[i]} = I BY <1>3, <1>4 DEF PricesOf
<1>6. UpToIt(I, devs, i) = Cardinality(I) BY <1>5 DEF UpToIt
<1>7. J \in SUBSET I OBVIOUS
<1>8. J # {} BY <1>6
<1> HIDE DEF J
<1>9. IsFiniteSet(J) BY <1>7, FS_Subset
<1>10. IsFiniteSet(PricesOf(J, devs)) BY <1>9, ImageFinite
<1>11. PricesOf(J, devs) # {} /\ \A x \in PricesOf(J, devs) : x \in Int BY <1>7, <1>8 DEF PricesOf
<1>12. Min(PricesOf(J, devs)) \in Int BY <1>10, <1>11, FiniteMinMax
<1> QED BY <1>12 DEF Ranked, PricesOf, J

LEMMA MedianType ==
  ASSUME NEW I, IsFiniteSet(I), I # {}, NEW devs, \A i \in I : devs[i] \in Int
  PROVE  Median(I, devs) \in Int
<1> DEFINE n == Cardinality(I)
<1>1. n \in Nat /\ n # 0 BY FS_CardinalityType, FS_EmptySet
<1> HIDE DEF n
<1>3. n \div 2 \in Nat /\ n \div 2 + 1 \in Nat /\ n \div 2 <= n /\ n \div 2 + 1 <= n BY <1>1
<1>4. Ranked(I, devs, n \div 2) \in Int /\ Ranked(I, devs, n \div 2 + 1) \in Int
  BY <1>3, RankedType DEF n
<1> QED BY <1>4 DEF Median, Middle, n

\* Every quote that a consensus is made of has a price and a volume.
LEMMA MarketTyped ==
  ASSUME NEW s, IsSample(s), NEW venue, NEW pair, NEW kind, NEW rate
  PROVE  IsQuote(MarketWith(s, venue, pair, kind, rate))
<1>1. Answer(s, venue, pair).dev \in Int /\ Answer(s, venue, pair).vol \in Nat
  BY DEF Answer, NoTicker, IsSample, IsTicker
<1> QED BY <1>1 DEF MarketWith, MarketQuote, Quote, IsQuote

LEMMA DeriveTyped ==
  ASSUME NEW num, NEW den, IsQuote(num), IsQuote(den), NEW wide
  PROVE  IsQuote(Derive(num, den, wide))
<1>1. Min({num.vol, den.vol}) \in Nat
  <2>1. \A x \in {num.vol, den.vol} : x \in Nat BY DEF IsQuote
  <2>2. IsFiniteSet({num.vol} \cup {den.vol}) BY FS_Singleton, FS_AddElement
  <2>3. {num.vol} \cup {den.vol} = {num.vol, den.vol} OBVIOUS
  <2>4. Min({num.vol, den.vol}) \in {num.vol, den.vol} BY <2>1, <2>2, <2>3, FiniteMinMax
  <2> QED BY <2>1, <2>4
<1>2. num.dev - den.dev \in Int BY DEF IsQuote
<1> QED BY <1>1, <1>2 DEF Derive, Quote, IsQuote

LEMMA ShortQuoted ==
  ASSUME NEW n \in Nat, NEW qs, DOMAIN qs = 1 .. n, \A i \in 1 .. n : IsQuote(qs[i])
  PROVE  Quoted(qs, DOMAIN qs)
BY FS_Interval DEF Quoted

LEMMA PegBounded ==
  ASSUME NEW s, IsSample(s), NEW a \in {"usdt", "usdc", "eurc"}
  PROVE  NoVenueDecides(Peg(s)[a])
<1>1. \A venue, pair : IsQuote(Market(s, venue, pair)) BY MarketTyped DEF Market
<1>3. NoVenueDecides(Usdt(s))
  <2> DEFINE qs == <<Market(s, "coinbase", "USDT-USD"), Market(s, "kraken", "USDTZUSD"),
                     Market(s, "bitstamp", "usdtusd")>>
  <2>1. DOMAIN qs = 1 .. 3 /\ \A i \in 1 .. 3 : IsQuote(qs[i]) BY <1>1
  <2> HIDE DEF qs
  <2>2. Quoted(qs, DOMAIN qs) BY <2>1, ShortQuoted
  <2> QED BY <2>2, FinishIs DEF Usdt, qs
<1>4. NoVenueDecides(Usdc(s)) /\ Usdc(s).dev \in Int
  <2> DEFINE qs == <<Market(s, "kraken", "USDCUSD"), Market(s, "bitstamp", "usdcusd"),
                     Derive(Market(s, "coinbase", "USDT-USD"), Market(s, "coinbase", "USDT-USDC"), s.wide)>>
  <2>1. IsQuote(Derive(Market(s, "coinbase", "USDT-USD"), Market(s, "coinbase", "USDT-USDC"), s.wide))
    BY <1>1, DeriveTyped
  <2>2. DOMAIN qs = 1 .. 3 /\ \A i \in 1 .. 3 : IsQuote(qs[i]) BY <1>1, <2>1
  <2> HIDE DEF qs
  <2>3. Quoted(qs, DOMAIN qs) BY <2>2, ShortQuoted
  <2> QED BY <2>3, FinishIs DEF Usdc, qs
<1>5. ASSUME NEW leg, IsQuote(leg) PROVE IsQuote(CrossQuote(leg, Usdc(s), Euro(s)))
  <2> DEFINE euro == Euro(s)
             I == IncludedIn(euro)
  <2>1. DOMAIN euro = 1 .. 2 /\ \A i \in 1 .. 2 : IsQuote(euro[i])
    <3> DEFINE k == MarketWith(s, "kraken", "ZEURZUSD", "direct", FALSE)
               b == MarketWith(s, "bitstamp", "eurusd", "direct", FALSE)
    <3>1. IsQuote(k) /\ IsQuote(b) BY MarketTyped
    <3>2. euro = <<k, b>> BY DEF Euro
    <3> HIDE DEF k, b, euro
    <3> QED BY <3>1, <3>2
  <2> HIDE DEF euro
  <2>2. I \in SUBSET DOMAIN euro BY DEF IncludedIn
  <2>3. IsFiniteSet(DOMAIN euro) BY <2>1, ShortQuoted DEF Quoted
  <2>4. IsFiniteSet(I) BY <2>2, <2>3, FS_Subset
  <2>5. \A i \in I : DevsOf(euro)[i] \in Int BY <2>1, <2>2 DEF DevsOf, IsQuote
  <2> HIDE DEF I
  <2>6. I # {} => Median(I, DevsOf(euro)) \in Int BY <2>4, <2>5, MedianType
  <2>7. I # {} => leg.dev + Usdc(s).dev - Median(I, DevsOf(euro)) \in Int BY <1>4, <1>5, <2>6 DEF IsQuote
  <2> QED BY <1>5, <2>7 DEF CrossQuote, Quote, IsQuote, I, euro
<1>6. NoVenueDecides(Eurc(s))
  <2> DEFINE derived == Derive(Market(s, "kraken", "EURCUSD"), Market(s, "kraken", "ZEURZUSD"), s.wide)
             cross == CrossQuote(Market(s, "coinbase", "EURC-USDC"), Usdc(s), Euro(s))
             qs == <<Market(s, "kraken", "EURCEUR"), Market(s, "bitstamp", "eurceur"), derived, cross>>
  <2>1. IsQuote(derived) /\ IsQuote(cross) BY <1>1, <1>5, DeriveTyped
  <2> HIDE DEF derived, cross
  <2>2. DOMAIN qs = 1 .. 4 /\ \A i \in 1 .. 4 : IsQuote(qs[i]) BY <1>1, <2>1
  <2> HIDE DEF qs
  <2>3. Quoted(qs, DOMAIN qs) BY <2>2, ShortQuoted
  <2>4. NoVenueDecides(Finish(qs)) BY <2>3, FinishIs
  <2> QED BY <2>4 DEF Eurc, qs, derived, cross
<1>7. Peg(s).usdt = Usdt(s) /\ Peg(s).usdc = Usdc(s) /\ Peg(s).eurc = Eurc(s) BY DEF Peg
<1> QED BY <1>3, <1>4, <1>6, <1>7

\* Samples are taken of what the bounds allow, and published for one asset.
SamplesOK == asset \in Assets /\ "samples" \in DOMAIN left /\ left.samples \subseteq DOMAIN Samples

LEMMA SamplesStep == ASSUME SamplesOK, [Next]_vars PROVE SamplesOK'
<1>1. "samples" \in DOMAIN left' /\ left'.samples = left.samples
  <2>1. CASE \E what \in Spendable : Spend(what) \/ UNCHANGED left
    <3>1. PICK what \in Spendable : Spend(what) \/ UNCHANGED left BY <2>1
    <3>2. what # "samples" BY DEF Spendable
    <3> QED BY <3>1, <3>2 DEF SamplesOK, Spend
  <2>2. CASE \E said, a : Charged(said, a) BY <2>2 DEF SamplesOK, Charged
  <2> QED BY <2>1, <2>2, LeftMoves
<1>2. asset' = asset
  <2>1. ASSUME NEW p \in Loops, ApplyNext(p) PROVE asset' = asset
    <3>1. PICK loads \in BOOLEAN, saves \in BOOLEAN :
            ApplyTo(p, flight[p], loads, saves, Base(loads), Outcome(Base(loads), flight[p]))
      BY <2>1, Zenon DEF ApplyNext
    <3> QED BY <3>1 DEF ApplyTo, ApplyWith, Apply
  <2>2. Restart => asset' = asset BY DEF Restart, EngineRestart
  <2>3. \/ PegStep \/ ControlsSample \/ SupplySample \/ Tick \/ WorldChanges \/ ChainStep
        \/ \E p \in Loops : Gather(p) \/ ReadEvents(p) \/ Panics(p)
        => asset' = asset
    BY Zenon DEF engine, PegStep, PegBegins, PegPublishes, PegRecorded, ControlsSample, SupplySample, Tick,
       WorldChanges, ChainStep, Gather, ReadEvents, Panics
  <2>4. Next => asset' = asset BY <2>1, <2>2, <2>3, Zenon DEF Next, Evaluate
  <2>5. UNCHANGED vars => asset' = asset BY DEF vars, engine
  <2> QED BY <2>4, <2>5
<1> QED BY <1>1, <1>2 DEF SamplesOK

LEMMA LatestMoves ==
  ASSUME [Next]_vars
  PROVE  UNCHANGED latest \/ latest' = NoPeg \/ \E k \in left.samples : latest'.of = Taken(k)
<1> DEFINE Goal == UNCHANGED latest \/ latest' = NoPeg \/ \E k \in left.samples : latest'.of = Taken(k)
<1>1. PegPublishes => Goal
  <2> SUFFICES ASSUME PegPublishes PROVE Goal OBVIOUS
  <2>1. PICK k \in left.samples, err \in BOOLEAN : Publish(Taken(k), err) BY Zenon DEF PegPublishes
  <2>2. latest'.of = Taken(k)
    <3>1. latest' = [of |-> Taken(k), at |-> begun] BY <2>1, Zenon DEF Publish
    <3> QED BY <3>1
  <2> QED BY <2>2
<1>2. Restart => Goal BY DEF Restart
<1>3. \/ PegBegins \/ PegRecorded \/ ControlsSample \/ SupplySample \/ Tick \/ WorldChanges \/ ChainStep
      \/ \E p \in Loops : Evaluate(p) \/ Panics(p)
      => UNCHANGED latest
  BY Zenon DEF service, PegBegins, PegRecorded, ControlsSample, SupplySample, Tick,
     WorldChanges, ChainStep, Evaluate, Gather, ReadEvents, ApplyNext, Panics
<1>4. UNCHANGED vars => UNCHANGED latest BY DEF vars, service
<1>5. UNCHANGED latest => Goal OBVIOUS
<1> HIDE DEF Goal
<1>6. Next => Goal BY <1>1, <1>2, <1>3, <1>5, Zenon DEF Next, PegStep
<1>7. Goal BY <1>4, <1>5, <1>6
<1> QED BY <1>7 DEF Goal

\* No venue decides a price that is published: where three venues or more take part, whatever
\* one of them quotes and at whatever volume, the consensus leaves the range of the others'
\* prices by at most half of the way to its own (stableAggregate, stableWeightedMedian).  The
\* samples are arbitrary: any prices, volumes, faults and absent venues.
THEOREM NoVenueDecidesAPrice == Spec => NoVenueDecidesPrices
<1>1. Init => SamplesOK
  <2> SUFFICES ASSUME Init PROVE SamplesOK OBVIOUS
  <2>1. left \in Limits /\ asset \in left.assets BY ServiceAssumption DEF Init
  <2>2. asset \in Assets BY <2>1 DEF Init, EngineInit
  <2> QED BY <2>1, <2>2 DEF SamplesOK, Limits
<1>2. SamplesOK /\ [Next]_vars => SamplesOK' BY SamplesStep
<1>3. SamplesOK /\ [Next]_vars => [latest' \notin {latest, NoPeg} => NoVenueDecides(latest'.of.peg)]_latest
  <2> SUFFICES ASSUME SamplesOK, [Next]_vars, latest' \notin {latest, NoPeg}
               PROVE  NoVenueDecides(latest'.of.peg)
    OBVIOUS
  <2>1. PICK k \in left.samples : latest'.of = Taken(k) BY LatestMoves
  <2>2. k \in DOMAIN Samples /\ IsSample(Samples[k]) BY SampleAssumption DEF SamplesOK
  <2>3. latest'.of.peg = Peg(Samples[k])[asset] BY <2>1, <2>2 DEF Taken, TakenOf, Pegs
  <2>4. asset \in {"usdt", "usdc", "eurc"} BY DEF SamplesOK, Assets
  <2>5. NoVenueDecides(Peg(Samples[k])[asset]) BY <2>2, <2>4, PegBounded
  <2> QED BY <2>3, <2>5
<1> QED BY <1>1, <1>2, <1>3, PTL DEF Spec, NoVenueDecidesPrices

-----------------------------------------------------------------------------
(* The supply comparison: an excess rests on two pieces of evidence.        *)

LEMMA TopTwo ==
  ASSUME NEW D \in SUBSET Int, IsFiniteSet(D), NEW k \in D, NEW l \in D, l < k,
         \A j \in D : j <= k, \A j \in D \ {k} : j <= l
  PROVE  Max(D) = k /\ Max(D \ {k}) = l /\ Cardinality(D) >= 2
<1>1. IsFiniteSet(D \ {k}) /\ Cardinality(D \ {k}) = Cardinality(D) - 1 BY FS_RemoveElement
<1>2. IsFiniteSet((D \ {k}) \ {l}) /\ Cardinality((D \ {k}) \ {l}) = Cardinality(D \ {k}) - 1
  BY <1>1, FS_RemoveElement
<1>3. Cardinality((D \ {k}) \ {l}) \in Nat /\ Cardinality(D) \in Nat /\ Cardinality(D \ {k}) \in Nat
  BY <1>1, <1>2, FS_CardinalityType
<1>4. Cardinality(D) >= 2 BY <1>1, <1>2, <1>3
<1>5. Max(D) \in D /\ \A y \in D : y <= Max(D)
  <2>1. D # {} /\ \A x \in D : x \in Int OBVIOUS
  <2> QED BY <2>1, FiniteMinMax
<1>6. Max(D \ {k}) \in D \ {k} /\ \A y \in D \ {k} : y <= Max(D \ {k})
  <2>1. D \ {k} # {} /\ \A x \in D \ {k} : x \in Int OBVIOUS
  <2> QED BY <1>1, <2>1, FiniteMinMax
<1>7. k \in Int /\ l \in Int /\ Max(D) \in Int /\ Max(D \ {k}) \in Int BY <1>5, <1>6
<1>8. l \in D \ {k} BY <1>7
<1>9. Max(D) = k
  <2>1. k <= Max(D) /\ Max(D) <= k BY <1>5
  <2> QED BY <1>7, <2>1
<1>10. Max(D \ {k}) = l
  <2>1. l <= Max(D \ {k}) /\ Max(D \ {k}) <= l BY <1>6, <1>8
  <2> QED BY <1>7, <2>1
<1> QED BY <1>4, <1>9, <1>10

Same == UNCHANGED <<hourly, updates, recon, round, evidence>>
Asks(rep, read) ==
  /\ hourly' = Hourly(rep, read) /\ updates' = Updates(rep, read) /\ recon' = ReconOf(rep, read)
  /\ round' = round + 1 /\ evidence' = Evidence(rep, read)

LEMMA TickIs ==
  ASSUME SupplyInv, NEW answers, NEW next, NEW figures, NEW totals,
         SupplyTick(answers, next, figures, totals)
  PROVE  /\ tether' = tether /\ "id" \in DOMAIN issuer' /\ issuer'.id \in Nat /\ issuer'.id >= issuer.id
         /\ Same \/ \E read : Asks(issuer', read)
<1>1. "id" \in DOMAIN issuer /\ issuer.id \in Nat BY DEF SupplyInv
<1>2. /\ "id" \in DOMAIN Reported(answers, next)
      /\ Reported(answers, next).id \in Nat /\ Reported(answers, next).id >= issuer.id
  <2>1. CASE answers = {} BY <1>1, <2>1 DEF Reported
  <2>2. CASE answers # {} BY <1>1, <2>2 DEF Reported
  <2> QED BY <2>1, <2>2
<1>3. issuer' = Reported(answers, next) \/ issuer' = issuer BY DEF SupplyTick
<1>4. tether' = tether BY DEF SupplyTick
<1>5. CASE rpcIn = 0
  <2>1. Asks(issuer', Read(totals)) BY <1>5 DEF SupplyTick, Asks, RPCDue
  <2> QED BY <1>1, <1>2, <1>3, <1>4, <2>1
<1>6. CASE rpcIn # 0
  <2>1. Same BY <1>6 DEF SupplyTick, Same, RPCDue
  <2> QED BY <1>1, <1>2, <1>3, <1>4, <2>1
<1> QED BY <1>5, <1>6

\* Where figures are not numbered: a reading that counts and exceeds goes on with the run.
LEMMA CountKeeps ==
  ASSUME SupplyInv, ~tether, tether' = tether, NEW rep, NEW read, Asks(rep, read)
  PROVE  /\ round' \in Nat /\ hourly' \in 0 .. Confirm /\ UNCHANGED updates /\ CountInv'
<1>0. CountInv /\ round \in Nat /\ hourly \in 0 .. Confirm /\ Confirm \in Nat \ {0}
  BY RulesAssumption DEF SupplyInv
<1> DEFINE shows == Counts(rep, read) /\ Exceeds(read)
<1>1. updates' = updates /\ round' = round + 1 BY DEF Asks, Updates
<1>2. recon'.confirmed => hourly' >= Confirm BY DEF Asks, ReconOf, Skipped
<1>3. CASE ~rep.has \/ ~rep.listed
  <2>1. hourly' = hourly /\ evidence' = evidence BY <1>3 DEF Asks, Hourly, Evidence
  <2>2. ~recon'.confirmed BY <1>3 DEF Asks, ReconOf, Counts, Compared, Skipped
  <2> QED BY <1>0, <1>1, <2>1, <2>2 DEF CountInv
<1>4. CASE rep.has /\ rep.listed
  <2>1. hourly' = IF shows THEN UpTo(hourly + 1, Confirm) ELSE 0 BY <1>4 DEF Asks, Hourly
  <2>2. evidence' = WithEntry(evidence, round + 1, shows) BY <1>4 DEF Asks, Evidence
  <2> HIDE DEF shows
  <2>3. /\ DOMAIN evidence' = DOMAIN evidence \cup {round + 1}
        /\ evidence'[round + 1] = shows
        /\ \A k \in DOMAIN evidence : k # round + 1 => evidence'[k] = evidence[k]
    BY <2>2 DEF WithEntry
  <2>4. \A k \in DOMAIN evidence : k \in Nat /\ k < round + 1 BY <1>0 DEF CountInv
  <2>5. DOMAIN evidence' \subseteq 1 .. round' BY <1>0, <1>1, <2>3, <2>4 DEF CountInv
  <2>6. hourly' \in 0 .. Confirm /\ (hourly' >= 1 => shows) /\ (hourly' >= 2 => hourly >= 1)
    BY <1>0, <2>1 DEF UpTo
  <2>7. hourly' >= 2 => \E l \in DOMAIN evidence' :
          l < round + 1 /\ evidence'[l] /\ \A j \in DOMAIN evidence' \ {round + 1} : j <= l
    <3> SUFFICES ASSUME hourly' >= 2
                 PROVE  \E l \in DOMAIN evidence' :
                          l < round + 1 /\ evidence'[l] /\ \A j \in DOMAIN evidence' \ {round + 1} : j <= l
      OBVIOUS
    <3>1. PICK l \in DOMAIN evidence : evidence[l] /\ \A j \in DOMAIN evidence : j <= l
      BY <1>0, <2>6 DEF CountInv
    <3> QED BY <2>3, <2>4, <3>1
  <2>8. hourly' >= 1 => \A j \in DOMAIN evidence' : j <= round + 1
    BY <1>0, <2>3, <2>4
  <2> QED BY <1>0, <1>1, <1>2, <2>3, <2>5, <2>6, <2>7, <2>8 DEF CountInv
<1> QED BY <1>3, <1>4

\* Where they are: recordUpdate replaces the newest update or adds one, and drops the oldest.
UpdateRecord == [id : Nat, exceeds : BOOLEAN]
InOrder(us)  == \A i, j \in DOMAIN us : i < j => us[i].id < us[j].id
Recorded(us) == us \in Seq(UpdateRecord) /\ Len(us) <= UpdateHistory
AtMost(us, id) == \A i \in DOMAIN us : us[i].id <= id

LEMMA NewestIs ==
  ASSUME NEW T, NEW s \in Seq(T), NEW n \in Nat \ {0}
  PROVE  LET new == SubSeq(s, Max({1, Len(s) - n + 1}), Len(s))
             old == IF Len(s) > n THEN Len(s) - n ELSE 0
         IN  /\ new \in Seq(T) /\ old \in Nat /\ Len(new) = Len(s) - old
             /\ DOMAIN new = 1 .. Len(s) - old
             /\ \A i \in 1 .. Len(s) - old : new[i] = s[i + old]
<1> DEFINE old == IF Len(s) > n THEN Len(s) - n ELSE 0
           new == SubSeq(s, old + 1, Len(s))
<1>1. Len(s) \in Nat /\ \A i \in 1 .. Len(s) : s[i] \in T BY ElementOfSeq
<1>2. Max({1, Len(s) - n + 1}) = old + 1
  <2>1. Len(s) - n + 1 \in Int BY <1>1
  <2> QED BY <1>1, <2>1, MaxOfTwo
<1>3. old \in Nat /\ old <= Len(s) BY <1>1
<1> HIDE DEF old
<1>4. \A i \in old + 1 .. Len(s) : s[i] \in T BY <1>1, <1>3
<1>5. /\ new \in Seq(T)
      /\ Len(new) = IF old + 1 <= Len(s) THEN Len(s) - (old + 1) + 1 ELSE 0
      /\ \A i \in 1 .. Len(s) - (old + 1) + 1 : new[i] = s[old + 1 + i - 1]
  BY <1>1, <1>3, <1>4, SubSeqProperties
<1>6. Len(new) = Len(s) - old BY <1>1, <1>3, <1>5
<1>7. \A i \in 1 .. Len(s) - old : new[i] = s[i + old] BY <1>1, <1>3, <1>5
<1>8. DOMAIN new = 1 .. Len(s) - old BY <1>5, <1>6, LenProperties
<1> HIDE DEF new
<1>9. new \in Seq(T) BY <1>5
<1> QED BY <1>2, <1>3, <1>6, <1>7, <1>8, <1>9 DEF new, old

LEMMA RecordedIs ==
  ASSUME NEW us, Recorded(us)
  PROVE  /\ Len(us) \in Nat /\ DOMAIN us = 1 .. Len(us) /\ (us # <<>> => Len(us) >= 1)
         /\ \A i \in 1 .. Len(us) : us[i] \in UpdateRecord /\ us[i].id \in Nat
<1>1. us \in Seq(UpdateRecord) BY DEF Recorded
<1>2. Len(us) \in Nat /\ DOMAIN us = 1 .. Len(us) BY <1>1, LenProperties
<1>3. us # <<>> => Len(us) \in Nat \ {0} BY <1>1, EmptySeq
<1>4. \A i \in 1 .. Len(us) : us[i] \in UpdateRecord BY <1>1, ElementOfSeq
<1> QED BY <1>2, <1>3, <1>4 DEF UpdateRecord

\* The updates that stay before the newest one.
Older(us, id) == IF us # <<>> /\ Last(us).id = id THEN Front(us) ELSE us

LEMMA OlderIs ==
  ASSUME NEW us, Recorded(us), InOrder(us), NEW id \in Nat, AtMost(us, id)
  PROVE  LET base == Older(us, id)
         IN  /\ base \in Seq(UpdateRecord) /\ Len(base) \in Nat
             /\ Len(base) \in {Len(us), Len(us) - 1}
             /\ \A i \in 1 .. Len(base) : i \in DOMAIN us /\ base[i] = us[i] /\ us[i].id < id
             /\ \A i \in DOMAIN us : us[i].id = id \/ i \in 1 .. Len(base)
<1> DEFINE n == Len(us)
           base == Older(us, id)
<1>1. /\ n \in Nat /\ DOMAIN us = 1 .. n /\ (us # <<>> => n >= 1)
      /\ \A i \in 1 .. n : us[i] \in UpdateRecord /\ us[i].id \in Nat
  BY RecordedIs
<1>2. us \in Seq(UpdateRecord) BY DEF Recorded
<1>3. \A i \in 1 .. n : us[i].id <= id BY <1>1 DEF AtMost
<1>4. \A i, j \in 1 .. n : i < j => us[i].id < us[j].id BY <1>1 DEF InOrder
<1>5. CASE us # <<>> /\ us[n].id = id
  <2>1. base = SubSeq(us, 1, n - 1) BY <1>5 DEF Older, Front, Last
  <2>2. n \in 1 .. n BY <1>1, <1>5
  <2> HIDE DEF n, base
  <2>3. /\ base \in Seq(UpdateRecord) /\ Len(base) = n - 1
        /\ \A i \in 1 .. n - 1 : base[i] = us[i]
    <3>1. n - 1 \in Int /\ \A i \in 1 .. n - 1 : us[i] \in UpdateRecord BY <1>1
    <3>2. /\ base \in Seq(UpdateRecord)
          /\ Len(base) = IF 1 <= n - 1 THEN n - 1 - 1 + 1 ELSE 0
          /\ \A i \in 1 .. n - 1 - 1 + 1 : base[i] = us[1 + i - 1]
      BY <2>1, <3>1, SubSeqProperties
    <3> QED BY <1>1, <2>2, <3>2
  <2>4. \A i \in 1 .. n - 1 : us[i].id < id BY <1>1, <1>4, <1>5, <2>2
  <2>5. \A i \in 1 .. n : us[i].id = id \/ i \in 1 .. n - 1 BY <1>1, <1>5
  <2> QED BY <1>1, <2>2, <2>3, <2>4, <2>5 DEF n, base
<1>6. CASE us = <<>> \/ us[n].id # id
  <2>1. base = us BY <1>6 DEF Older, Last
  <2>2. us = <<>> => n = 0 BY EmptySeq
  <2> HIDE DEF n, base
  <2>3. \A i \in 1 .. n : us[i].id < id
    <3> SUFFICES ASSUME NEW i \in 1 .. n PROVE us[i].id < id OBVIOUS
    <3>1. n \in 1 .. n /\ us[n].id # id BY <1>1, <1>6, <2>2
    <3>2. us[i].id \in Nat /\ us[n].id \in Nat /\ us[i].id <= id /\ us[n].id <= id
      BY <1>1, <1>3, <3>1
    <3>3. i = n \/ us[i].id < us[n].id BY <1>1, <1>4, <3>1
    <3> QED BY <3>1, <3>2, <3>3
  <2> QED BY <1>1, <1>2, <2>1, <2>3 DEF n, base
<1> QED BY <1>5, <1>6

LEMMA DropsOldest ==
  ASSUME NEW h \in Nat \ {0}, NEW u \in Nat, u <= h, NEW b \in Nat, b \in {u, u - 1}, NEW m, m = b + 1,
         NEW old, old = IF m > h THEN m - h ELSE 0
  PROVE  old <= b /\ b + 1 - old \in 1 .. h /\ (old > 0 \/ u = h => b + 1 - old = h)
OBVIOUS

\* The old first of us are dropped, and those that stay come before the newest.
WithoutOldest(new, us, id, old) ==
  /\ \A i \in 1 .. Len(new) - 1 :
       i + old \in DOMAIN us /\ new[i] = us[i + old] /\ us[i + old].id < id
  /\ \A i \in DOMAIN us : us[i].id = id \/ i - old \in 1 .. Len(new) - 1 \/ i <= old
  /\ old > 0 \/ Len(us) = UpdateHistory => Len(new) = UpdateHistory

LEMMA RecordIs ==
  ASSUME NEW us, Recorded(us), InOrder(us), NEW id \in Nat, AtMost(us, id), NEW exceeds \in BOOLEAN
  PROVE  LET new == RecordUpdate(us, id, exceeds)
         IN  /\ new \in Seq(UpdateRecord) /\ Len(new) \in 1 .. UpdateHistory
             /\ new[Len(new)] = [id |-> id, exceeds |-> exceeds]
             /\ \E old \in Nat : WithoutOldest(new, us, id, old)
<1> DEFINE base == Older(us, id)
           one  == [id |-> id, exceeds |-> exceeds]
           all  == Append(base, one)
           new  == RecordUpdate(us, id, exceeds)
           old  == IF Len(all) > UpdateHistory THEN Len(all) - UpdateHistory ELSE 0
<1>1. UpdateHistory \in Nat \ {0} BY RulesAssumption, SupplyAssumption
<1>2. Len(us) \in Nat /\ DOMAIN us = 1 .. Len(us) /\ Len(us) <= UpdateHistory
  BY RecordedIs DEF Recorded
<1>3. base \in Seq(UpdateRecord) /\ Len(base) \in Nat /\ Len(base) \in {Len(us), Len(us) - 1}
  BY OlderIs
<1>4. \A i \in 1 .. Len(base) : i \in DOMAIN us /\ base[i] = us[i] /\ us[i].id < id BY OlderIs
<1>5. \A i \in DOMAIN us : us[i].id = id \/ i \in 1 .. Len(base) BY OlderIs
<1> HIDE DEF base
<1>6. one \in UpdateRecord BY DEF UpdateRecord
<1> HIDE DEF one
<1>7. /\ all \in Seq(UpdateRecord) /\ Len(all) = Len(base) + 1
      /\ \A i \in 1 .. Len(base) : all[i] = base[i]
      /\ all[Len(base) + 1] = one
  BY <1>3, <1>6
<1>8. new = SubSeq(all, Max({1, Len(all) - UpdateHistory + 1}), Len(all))
  BY DEF RecordUpdate, Older, base, one
<1> HIDE DEF all, new
<1>9. /\ new \in Seq(UpdateRecord) /\ old \in Nat /\ Len(new) = Len(all) - old
      /\ \A i \in 1 .. Len(all) - old : new[i] = all[i + old]
  BY <1>1, <1>7, <1>8, NewestIs
<1> HIDE DEF old
<1>10. /\ old <= Len(base) /\ Len(new) = Len(base) + 1 - old /\ Len(new) \in 1 .. UpdateHistory
       /\ old > 0 \/ Len(us) = UpdateHistory => Len(new) = UpdateHistory
  <2>1. old = IF Len(all) > UpdateHistory THEN Len(all) - UpdateHistory ELSE 0 BY DEF old
  <2>6. Len(all) = Len(base) + 1 BY <1>7
  <2>2. Len(new) = Len(base) + 1 - old BY <1>7, <1>9
  <2>3. Len(base) \in Nat /\ Len(base) \in {Len(us), Len(us) - 1} BY <1>3
  <2>4. Len(us) \in Nat /\ Len(us) <= UpdateHistory BY <1>2
  <2>5. /\ old <= Len(base) /\ Len(base) + 1 - old \in 1 .. UpdateHistory
        /\ old > 0 \/ Len(us) = UpdateHistory => Len(base) + 1 - old = UpdateHistory
    BY <1>1, <2>1, <2>3, <2>4, <2>6, DropsOldest
  <2> QED BY <2>2, <2>5
<1>11. new[Len(new)] = one
  <2>1. Len(new) \in 1 .. Len(all) - old /\ Len(new) + old = Len(base) + 1
    BY <1>3, <1>7, <1>9, <1>10
  <2> QED BY <1>7, <1>9, <2>1
<1>12. \A i \in 1 .. Len(new) - 1 : i + old \in DOMAIN us /\ new[i] = us[i + old] /\ us[i + old].id < id
  <2> SUFFICES ASSUME NEW i \in 1 .. Len(new) - 1
               PROVE  i + old \in DOMAIN us /\ new[i] = us[i + old] /\ us[i + old].id < id
    OBVIOUS
  <2>1. i + old \in 1 .. Len(base) /\ i \in 1 .. Len(all) - old BY <1>3, <1>7, <1>9, <1>10
  <2>2. new[i] = base[i + old] BY <1>7, <1>9, <2>1
  <2> QED BY <1>4, <2>1, <2>2
<1>13. \A i \in DOMAIN us : us[i].id = id \/ i - old \in 1 .. Len(new) - 1 \/ i <= old
  <2> SUFFICES ASSUME NEW i \in DOMAIN us, us[i].id # id, ~(i <= old)
               PROVE  i - old \in 1 .. Len(new) - 1
    OBVIOUS
  <2>1. i \in 1 .. Len(base) BY <1>5
  <2> QED BY <1>3, <1>9, <1>10, <2>1
<1>14. old \in Nat /\ WithoutOldest(new, us, id, old)
  BY <1>9, <1>10, <1>12, <1>13 DEF WithoutOldest
<1> QED BY <1>9, <1>10, <1>11, <1>14 DEF new, one

\* Where they are: a comparison records the update, unless it is old or cannot be made.
LEMMA UpdatesKeep ==
  ASSUME SupplyInv, tether, tether' = tether, issuer'.id \in Nat, issuer'.id >= issuer.id,
         NEW read, Asks(issuer', read)
  PROVE  /\ round' \in Nat /\ UNCHANGED hourly /\ Recorded(updates') /\ UpdatesInv'
<1> DEFINE rep == issuer'
           shows == Exceeds(read)
<1>0. UpdatesInv /\ Recorded(updates) /\ round \in Nat /\ issuer.id \in Nat
  BY DEF SupplyInv, Recorded, UpdateRecord
<1>1. hourly' = hourly /\ round' \in Nat BY <1>0 DEF Asks, Hourly
<1>2. DOMAIN evidence \subseteq 0 .. rep.id BY <1>0 DEF UpdatesInv
<1>3. CASE ~Compared(rep, read) \/ (~rep.old /\ read.stale)
  <2>1. updates' = updates BY <1>3 DEF Asks, Updates
  <2>2. evidence' = evidence BY <1>3 DEF Asks, Evidence, Compared
  <2>3. ~recon'.confirmed BY <1>3 DEF Asks, ReconOf, Skipped
  <2> QED BY <1>0, <1>1, <1>2, <2>1, <2>2, <2>3 DEF UpdatesInv
<1>4. CASE Compared(rep, read) /\ rep.old
  <2>1. updates' = <<>> BY <1>4 DEF Asks, Updates
  <2>2. evidence' = <<>> BY <1>4 DEF Asks, Evidence
  <2>3. ~recon'.confirmed BY <1>4 DEF Asks, ReconOf, Skipped
  <2>4. Recorded(updates') BY <2>1, SupplyAssumption, EmptySeq DEF Recorded
  <2>5. UpdatesInv' BY <2>1, <2>2, <2>3 DEF UpdatesInv
  <2> QED BY <1>1, <2>4, <2>5
<1>5. CASE Compared(rep, read) /\ ~rep.old /\ ~read.stale
  <2>1. updates' = RecordUpdate(updates, rep.id, shows) BY <1>5 DEF Asks, Updates
  <2>2. evidence' = WithEntry(evidence, rep.id, shows)
    <3>1. evidence' = WithEntry(evidence, rep.id, (Counts(rep, read) \/ tether) /\ Exceeds(read))
      BY <1>5 DEF Asks, Evidence, Compared
    <3>2. ((Counts(rep, read) \/ tether) /\ Exceeds(read)) = shows BY DEF Exceeds
    <3> QED BY <3>1, <3>2
  <2>3. shows \in BOOLEAN BY DEF Exceeds
  <2> HIDE DEF shows
  <2>4. recon'.confirmed => Run(updates') >= Confirm BY <1>5 DEF Asks, ReconOf
  <2>5. /\ Len(updates) \in Nat /\ DOMAIN updates = 1 .. Len(updates)
        /\ \A i \in 1 .. Len(updates) : updates[i].id \in Nat
    BY <1>0, RecordedIs
  <2>6. InOrder(updates) /\ AtMost(updates, rep.id)
    <3>1. InOrder(updates) BY <1>0 DEF UpdatesInv, InOrder
    <3>2. \A i \in DOMAIN updates : updates[i].id \in 0 .. rep.id BY <1>0, <1>2 DEF UpdatesInv
    <3> QED BY <3>1, <3>2 DEF AtMost
  <2> DEFINE new == updates'
             n == Len(new)
  <2>7. new \in Seq(UpdateRecord) /\ n \in 1 .. UpdateHistory
        /\ new[n] = [id |-> rep.id, exceeds |-> shows]
    BY <1>0, <2>1, <2>3, <2>6, RecordIs
  <2>20. PICK old \in Nat : WithoutOldest(new, updates, rep.id, old)
    BY <1>0, <2>1, <2>3, <2>6, RecordIs
  <2>8. /\ \A i \in 1 .. n - 1 :
             i + old \in DOMAIN updates /\ new[i] = updates[i + old] /\ updates[i + old].id < rep.id
        /\ \A i \in DOMAIN updates : updates[i].id = rep.id \/ i - old \in 1 .. n - 1 \/ i <= old
        /\ old > 0 \/ Len(updates) = UpdateHistory => n = UpdateHistory
    BY <2>20 DEF WithoutOldest
  <2>9. DOMAIN new = 1 .. n /\ n \in Nat BY <2>7, LenProperties
  <2>10. /\ DOMAIN evidence' = DOMAIN evidence \cup {rep.id} /\ evidence'[rep.id] = shows
         /\ \A k \in DOMAIN evidence : k # rep.id => evidence'[k] = evidence[k]
    BY <2>2 DEF WithEntry
  <2>11. Recorded(new)
    <3>1. UpdateHistory \in Nat BY SupplyAssumption
    <3> QED BY <2>7, <3>1 DEF Recorded
  <2> HIDE DEF n, new
  <2>12. new[n].id = rep.id /\ new[n].exceeds = shows BY <2>7
  <2>13. \A i \in 1 .. n - 1 :
           /\ new[i].id \in DOMAIN evidence /\ evidence[new[i].id] = new[i].exceeds
           /\ new[i].id < rep.id
    BY <1>0, <2>8 DEF UpdatesInv
  <2>14. \A i \in 1 .. n : i = n \/ i \in 1 .. n - 1 BY <2>9
  <2>15. \A i \in DOMAIN new :
           new[i].id \in DOMAIN evidence' /\ evidence'[new[i].id] = new[i].exceeds
    <3> SUFFICES ASSUME NEW i \in DOMAIN new
                 PROVE  new[i].id \in DOMAIN evidence' /\ evidence'[new[i].id] = new[i].exceeds
      OBVIOUS
    <3>1. CASE i = n BY <2>10, <2>12, <3>1
    <3>2. CASE i \in 1 .. n - 1
      <4>1. new[i].id # rep.id BY <1>2, <2>13, <3>2
      <4> QED BY <2>10, <2>13, <3>2, <4>1
    <3> QED BY <2>9, <2>14, <3>1, <3>2
  <2>16. \A i, j \in DOMAIN new : i < j => new[i].id < new[j].id
    <3> SUFFICES ASSUME NEW i \in DOMAIN new, NEW j \in DOMAIN new, i < j
                 PROVE  new[i].id < new[j].id
      OBVIOUS
    <3>1. i \in 1 .. n - 1 BY <2>9
    <3>2. CASE j = n BY <2>12, <2>13, <3>1, <3>2
    <3>3. CASE j \in 1 .. n - 1
      <4>1. i + old \in DOMAIN updates /\ j + old \in DOMAIN updates BY <2>8, <3>1, <3>3
      <4>3. i + old < j + old
        <5>1. i \in Nat /\ j \in Nat /\ i < j BY <2>9
        <5> QED BY <5>1
      <4>2. new[i] = updates[i + old] /\ new[j] = updates[j + old] BY <2>8, <3>1, <3>3
      <4> QED BY <2>6, <4>1, <4>2, <4>3 DEF InOrder
    <3> QED BY <2>9, <2>14, <3>2, <3>3
  <2>17. \A k \in DOMAIN evidence' :
           \/ \E i \in DOMAIN new : new[i].id = k
           \/ n = UpdateHistory /\ k < new[1].id
    <3> SUFFICES ASSUME NEW k \in DOMAIN evidence', \A i \in DOMAIN new : new[i].id # k
                 PROVE  n = UpdateHistory /\ k < new[1].id
      OBVIOUS
    <3>1. n \in DOMAIN new /\ 1 \in DOMAIN new BY <2>7, <2>9
    <3>2. k # rep.id /\ k \in DOMAIN evidence /\ k \in Nat /\ k < rep.id
      <4>1. k # rep.id /\ k \in DOMAIN evidence BY <2>10, <2>12, <3>1
      <4> QED BY <1>2, <4>1
    <3>3. new[1].id = rep.id \/ (1 + old \in DOMAIN updates /\ new[1] = updates[1 + old])
      <4>1. CASE n = 1 BY <2>12, <4>1
      <4>2. CASE n # 1
        <5>1. 1 \in 1 .. n - 1 BY <2>9, <3>1, <4>2
        <5> QED BY <2>8, <5>1
      <4> QED BY <4>1, <4>2
    <3>4. CASE \E i \in DOMAIN updates : updates[i].id = k
      <4>1. PICK i \in DOMAIN updates : updates[i].id = k BY <3>4
      <4>2. i - old \notin 1 .. n - 1
        <5> SUFFICES ASSUME i - old \in 1 .. n - 1 PROVE FALSE OBVIOUS
        <5>1. (i - old) + old = i BY <2>5, <4>1
        <5>2. new[i - old] = updates[i] BY <2>8, <5>1
        <5>3. i - old \in DOMAIN new BY <2>9
        <5> QED BY <4>1, <5>2, <5>3
      <4>3. i <= old /\ i \in Nat /\ i >= 1 BY <2>5, <2>8, <3>2, <4>1, <4>2
      <4>4. n = UpdateHistory BY <2>8, <4>3
      <4>5. 1 + old \in DOMAIN updates => k < updates[1 + old].id
        <5> SUFFICES ASSUME 1 + old \in DOMAIN updates PROVE k < updates[1 + old].id OBVIOUS
        <5>1. i < 1 + old BY <4>3
        <5> QED BY <2>6, <4>1, <5>1 DEF InOrder
      <4> QED BY <3>2, <3>3, <4>4, <4>5
    <3>5. CASE Len(updates) = UpdateHistory /\ k < updates[1].id
      <4>1. n = UpdateHistory BY <2>8, <3>5
      <4>2. 1 + old \in DOMAIN updates => updates[1].id <= updates[1 + old].id
        <5> SUFFICES ASSUME 1 + old \in DOMAIN updates PROVE updates[1].id <= updates[1 + old].id OBVIOUS
        <5>1. 1 \in DOMAIN updates BY <2>5
        <5>2. updates[1].id \in Nat /\ updates[1 + old].id \in Nat BY <2>5, <5>1
        <5>3. old = 0 \/ 1 < 1 + old OBVIOUS
        <5>4. CASE old = 0 BY <5>2, <5>4
        <5>5. CASE 1 < 1 + old BY <2>6, <5>1, <5>2, <5>5 DEF InOrder
        <5> QED BY <5>3, <5>4, <5>5
      <4>3. 1 + old \in DOMAIN updates => k < updates[1 + old].id
        <5> SUFFICES ASSUME 1 + old \in DOMAIN updates PROVE k < updates[1 + old].id OBVIOUS
        <5>1. 1 \in DOMAIN updates BY <2>5
        <5>2. updates[1].id \in Nat /\ updates[1 + old].id \in Nat BY <2>5, <5>1
        <5> QED BY <3>2, <3>5, <4>2, <5>2
      <4> QED BY <3>2, <3>3, <4>1, <4>3
    <3> QED BY <1>0, <3>2, <3>4, <3>5 DEF UpdatesInv
  <2>18. DOMAIN evidence' \subseteq 0 .. rep.id BY <1>2, <2>10
  <2>19. UpdatesInv' BY <2>4, <2>15, <2>16, <2>17, <2>18 DEF UpdatesInv, n, new
  <2> QED BY <1>1, <2>11, <2>19 DEF new
<1> QED BY <1>3, <1>4, <1>5

LEMMA SupplyKeeps == ASSUME SupplyInv, [Next]_vars PROVE SupplyInv'
<1>1. CASE SupplySample
  <2>1. PICK answers, next, figures, totals : SupplyTick(answers, next, figures, totals)
    BY <1>1, Zenon DEF SupplySample
  <2>2. /\ tether' = tether /\ "id" \in DOMAIN issuer' /\ issuer'.id \in Nat /\ issuer'.id >= issuer.id
        /\ Same \/ \E read : Asks(issuer', read)
    BY <2>1, TickIs
  <2>3. CASE Same
    <3>1. UNCHANGED <<hourly, updates, recon, round, evidence>> BY <2>3 DEF Same
    <3>2. tether => UpdatesInv'
      <4>1. tether => UpdatesInv BY DEF SupplyInv
      <4>2. 0 .. issuer.id \subseteq 0 .. issuer'.id BY <2>2 DEF SupplyInv
      <4> QED BY <3>1, <4>1, <4>2 DEF UpdatesInv
    <3>3. ~tether => CountInv' BY <3>1 DEF SupplyInv, CountInv
    <3> QED BY <2>2, <3>1, <3>2, <3>3 DEF SupplyInv
  <2>4. ASSUME NEW read, Asks(issuer', read) PROVE SupplyInv'
    <3>1. CASE tether
      <4>1. round' \in Nat /\ UNCHANGED hourly /\ Recorded(updates') /\ UpdatesInv'
        BY <2>2, <2>4, <3>1, UpdatesKeep
      <4> QED BY <2>2, <3>1, <4>1 DEF SupplyInv, Recorded, UpdateRecord
    <3>2. CASE ~tether
      <4>1. round' \in Nat /\ hourly' \in 0 .. Confirm /\ UNCHANGED updates /\ CountInv'
        BY <2>2, <2>4, <3>2, CountKeeps
      <4> QED BY <2>2, <3>2, <4>1 DEF SupplyInv
    <3> QED BY <3>1, <3>2
  <2> QED BY <2>2, <2>3, <2>4
<1>2. CASE Restart
  <2>1. /\ tether' = tether /\ round' = round /\ hourly' = 0 /\ updates' = <<>> /\ evidence' = <<>>
        /\ recon' = NoRecon /\ issuer' = [NoReport EXCEPT !.id = issuer.id]
    BY <1>2 DEF Restart, SupplyRestart
  <2>2. "id" \in DOMAIN issuer' /\ issuer'.id \in Nat BY <2>1 DEF SupplyInv, NoReport
  <2>3. ~recon'.confirmed BY <2>1 DEF NoRecon
  <2>4. Confirm \in Nat /\ UpdateHistory \in Nat BY RulesAssumption, SupplyAssumption
  <2>5. updates' \in Seq([id : Nat, exceeds : BOOLEAN]) /\ Len(updates') = 0 BY <2>1, EmptySeq
  <2>6. UpdatesInv' BY <2>1, <2>3 DEF UpdatesInv
  <2>7. CountInv' BY <2>1, <2>3 DEF CountInv
  <2> QED BY <2>1, <2>2, <2>4, <2>5, <2>6, <2>7 DEF SupplyInv
<1>3. CASE UNCHANGED supply
  BY <1>3 DEF supply, SupplyInv, UpdatesInv, CountInv
<1>4. \/ PegStep \/ ControlsSample \/ Tick \/ WorldChanges \/ ChainStep
      \/ \E p \in Loops : Evaluate(p) \/ Panics(p)
      => UNCHANGED supply
  BY Zenon DEF PegStep, PegBegins, PegPublishes, PegRecorded, ControlsSample, Tick,
     WorldChanges, ChainStep, Evaluate, Gather, ReadEvents, ApplyNext, Panics
<1>5. UNCHANGED vars => UNCHANGED supply BY DEF vars
<1>6. SupplySample \/ Restart \/ UNCHANGED supply BY <1>4, <1>5, Zenon DEF Next
<1> QED BY <1>1, <1>2, <1>3, <1>6

LEMMA SupplyStarts == ASSUME Init PROVE SupplyInv
<1>1. /\ tether \in BOOLEAN /\ issuer = NoReport /\ hourly = 0 /\ updates = <<>> /\ recon = NoRecon
      /\ round = 0 /\ evidence = <<>>
  BY DEF Init, SupplyInit
<1>2. "id" \in DOMAIN issuer /\ issuer.id \in Nat /\ ~recon.confirmed BY <1>1 DEF NoReport, NoRecon
<1>3. Confirm \in Nat /\ UpdateHistory \in Nat BY RulesAssumption, SupplyAssumption
<1>4. updates \in Seq([id : Nat, exceeds : BOOLEAN]) /\ Len(updates) = 0 BY <1>1, EmptySeq
<1>5. UpdatesInv /\ CountInv BY <1>1, <1>2 DEF UpdatesInv, CountInv
<1> QED BY <1>1, <1>2, <1>3, <1>4, <1>5 DEF SupplyInv

\* With two pieces of evidence asked for, those that a confirmed excess rests on are the last.
LastTwo(k, l) ==
  /\ k \in DOMAIN evidence /\ l \in DOMAIN evidence /\ evidence[k] /\ evidence[l] /\ l < k
  /\ IsFiniteSet(DOMAIN evidence) /\ DOMAIN evidence \subseteq Int
  /\ \A j \in DOMAIN evidence : j <= k
  /\ \A j \in DOMAIN evidence \ {k} : j <= l

LEMMA ShownByTwo == ASSUME NEW k, NEW l, LastTwo(k, l) PROVE ExcessEarned
<1>1. Max(DOMAIN evidence) = k /\ Max(DOMAIN evidence \ {k}) = l /\ Cardinality(DOMAIN evidence) >= 2
  BY TopTwo DEF LastTwo
<1> QED BY <1>1 DEF ExcessEarned, LastTwo

LEMMA ExcessIsEarned == ASSUME SupplyInv, Confirm >= 2 PROVE ExcessEarned
<1> SUFFICES ASSUME recon.confirmed PROVE \E k, l : LastTwo(k, l)
  <2>1. CASE ~recon.confirmed BY <2>1 DEF ExcessEarned
  <2>2. CASE recon.confirmed
    <3>1. PICK k, l : LastTwo(k, l) BY <2>2
    <3> QED BY <3>1, ShownByTwo
  <2> QED BY <2>1, <2>2
<1>1. Confirm \in Nat BY RulesAssumption
<1>2. CASE ~tether
  <2>1. CountInv /\ hourly \in 0 .. Confirm /\ round \in Nat BY <1>2 DEF SupplyInv
  <2>2. hourly >= 2 /\ hourly >= 1 BY <1>1, <2>1 DEF CountInv
  <2>3. IsFiniteSet(DOMAIN evidence) /\ DOMAIN evidence \subseteq Int
    <3>1. IsFiniteSet(1 .. round) BY <2>1, FS_Interval
    <3> QED BY <2>1, <3>1, FS_Subset DEF CountInv
  <2>4. PICK k \in DOMAIN evidence :
          /\ evidence[k] /\ \A j \in DOMAIN evidence : j <= k
          /\ \E l \in DOMAIN evidence :
               l < k /\ evidence[l] /\ \A j \in DOMAIN evidence \ {k} : j <= l
    BY <2>1, <2>2 DEF CountInv
  <2>5. PICK l \in DOMAIN evidence : l < k /\ evidence[l] /\ \A j \in DOMAIN evidence \ {k} : j <= l
    BY <2>4
  <2>6. LastTwo(k, l) BY <2>3, <2>4, <2>5 DEF LastTwo
  <2> QED BY <2>6
<1>3. CASE tether
  <2>1. UpdatesInv /\ Recorded(updates) /\ issuer.id \in Nat
    BY <1>3 DEF SupplyInv, Recorded, UpdateRecord
  <2> DEFINE n == Len(updates)
             bad == {0} \cup {i \in DOMAIN updates : ~updates[i].exceeds}
  <2>2. /\ n \in Nat /\ DOMAIN updates = 1 .. n /\ \A i \in 1 .. n : updates[i].id \in Nat
    BY <2>1, RecordedIs
  <2>3. IsFiniteSet(bad)
    <3>1. IsFiniteSet(0 .. n) BY <2>2, FS_Interval
    <3>2. bad \subseteq 0 .. n BY <2>2
    <3> QED BY <3>1, <3>2, FS_Subset
  <2>4. bad # {} /\ 0 \in bad /\ \A x \in bad : x \in Int BY <2>2
  <2>5. Max(bad) \in bad /\ \A x \in bad : x <= Max(bad) BY <2>3, <2>4, FiniteMinMax
  <2>6. n - Max(bad) >= 2
    <3>1. Run(updates) = n - Max(bad) BY DEF Run
    <3>2. Run(updates) >= Confirm BY <2>1 DEF UpdatesInv
    <3>3. Max(bad) \in Int BY <2>4, <2>5
    <3> QED BY <1>1, <2>2, <3>1, <3>2, <3>3
  <2>7. n >= 2 /\ \A i \in 1 .. n : i >= n - 1 => updates[i].exceeds
    <3>1. Max(bad) \in Int /\ Max(bad) >= 0 BY <2>4, <2>5
    <3>2. n >= 2 BY <2>2, <2>6, <3>1
    <3>3. ASSUME NEW i \in 1 .. n, i >= n - 1, ~updates[i].exceeds PROVE FALSE
      <4>1. i \in bad BY <2>2, <3>3
      <4>2. i <= Max(bad) BY <2>5, <4>1
      <4> QED BY <2>2, <2>6, <3>1, <3>3, <4>2
    <3> QED BY <3>2, <3>3
  <2> HIDE DEF bad, n
  <2> DEFINE k == updates[n].id
             l == updates[n - 1].id
  <2>8. n \in 1 .. n /\ n - 1 \in 1 .. n /\ n - 1 < n BY <2>2, <2>7
  <2>9. \A i, j \in 1 .. n : i < j => updates[i].id < updates[j].id BY <2>1, <2>2 DEF UpdatesInv
  <2>10. k \in DOMAIN evidence /\ l \in DOMAIN evidence /\ evidence[k] /\ evidence[l] /\ l < k
    <3>1. \A i \in 1 .. n : updates[i].id \in DOMAIN evidence /\ evidence[updates[i].id] = updates[i].exceeds
      BY <2>1, <2>2 DEF UpdatesInv
    <3>2. k \in DOMAIN evidence /\ evidence[k] = updates[n].exceeds /\ updates[n].exceeds
      BY <2>2, <2>7, <2>8, <3>1
    <3>3. l \in DOMAIN evidence /\ evidence[l] = updates[n - 1].exceeds /\ updates[n - 1].exceeds
      BY <2>2, <2>7, <2>8, <3>1
    <3> QED BY <2>8, <2>9, <3>2, <3>3
  <2>11. \A j \in DOMAIN evidence : j = k \/ j <= l
    <3> SUFFICES ASSUME NEW j \in DOMAIN evidence, j # k PROVE j <= l OBVIOUS
    <3>1. j \in Nat /\ l \in Nat /\ 1 \in 1 .. n BY <2>1, <2>2, <2>8 DEF UpdatesInv
    <3>2. CASE \E i \in 1 .. n : updates[i].id = j
      <4>1. PICK i \in 1 .. n : updates[i].id = j BY <3>2
      <4>2. i = n - 1 \/ i < n - 1 BY <2>2, <2>8, <4>1
      <4>3. i < n - 1 => updates[i].id < l BY <2>8, <2>9
      <4> QED BY <3>1, <4>1, <4>2, <4>3
    <3>3. CASE j < updates[1].id
      <4>1. updates[1].id \in Nat BY <2>2, <3>1
      <4>2. 1 = n - 1 \/ 1 < n - 1 BY <2>2, <2>7
      <4>3. 1 < n - 1 => updates[1].id < l BY <2>8, <2>9, <3>1
      <4> QED BY <3>1, <3>3, <4>1, <4>2, <4>3
    <3> QED BY <2>1, <2>2, <3>2, <3>3 DEF UpdatesInv
  <2>12. IsFiniteSet(DOMAIN evidence) /\ DOMAIN evidence \subseteq Int
    <3>1. IsFiniteSet(0 .. issuer.id) BY <2>1, FS_Interval
    <3> QED BY <2>1, <3>1, FS_Subset DEF UpdatesInv
  <2> HIDE DEF k, l
  <2>13. \A j \in DOMAIN evidence : j <= k
    <3>1. k \in Int /\ l \in Int BY <2>10, <2>12
    <3> QED BY <2>10, <2>11, <2>12, <3>1
  <2>14. LastTwo(k, l) BY <2>10, <2>11, <2>12, <2>13 DEF LastTwo
  <2> QED BY <2>14
<1> QED BY <1>2, <1>3

-----------------------------------------------------------------------------
(* S1: what a reading and one step of the policy do.                        *)

S1Reading(r) == r.level \in -1 .. 3 /\ r.immediate \in BOOLEAN /\ r.cap \in 2 .. 3

LEMMA UpToThree == ASSUME NEW S, S \subseteq 0 .. 3 PROVE IsFiniteSet(S)
<1>1. \A n \in Nat : IsFiniteSet(0 .. n) BY FS_Interval
<1>2. IsFiniteSet(0 .. 3)
  <2>1. 3 \in Nat OBVIOUS
  <2> QED BY <1>1, <2>1, Zenon
<1> QED BY <1>2, FS_Subset

LEMMA S1OfIs ==
  ASSUME NEW T, NEW r \in [level : -1 .. 3, value : T, immediate : BOOLEAN, cap : Int, info : BOOLEAN,
                          na : BOOLEAN],
         NEW cap \in 2 .. 3, NEW b \in BOOLEAN
  PROVE  S1Reading(S1Of(r, cap, b))
<1> DEFINE m == UpTo(r.level, cap)
<1>1. m \in -1 .. 3
  <2>1. r.level \in -1 .. 3 OBVIOUS
  <2> QED BY <2>1 DEF UpTo
<1>2. S1Of(r, cap, b) = [r EXCEPT !.cap = cap, !.level = m, !.immediate = b] BY DEF S1Of
<1> HIDE DEF m
<1>3. S1Of(r, cap, b).level = m /\ S1Of(r, cap, b).immediate = b /\ S1Of(r, cap, b).cap = cap
  BY <1>2
<1> QED BY <1>1, <1>3 DEF S1Reading

Reads(T) == [level : -1 .. 3, value : T, immediate : BOOLEAN, cap : Int, info : BOOLEAN, na : BOOLEAN]

LEMMA MeasuredIs ==
  ASSUME NEW n \in -1 .. 3, NEW v
  PROVE  Reading(n) \in Reads({0, v}) /\ [Reading(n) EXCEPT !.value = v] \in Reads({0, v})
<1>1. Reading(n) \in Reads({0, v}) BY DEF Reading, Reads
<1> QED BY <1>1 DEF Reads

LEMMA S1RawIs == ASSUME NEW a, NEW peg PROVE S1Reading(S1Raw(a, peg))
<1> DEFINE cap == S1Cap(a, peg)
           lev == LevelFor(Mag(peg.dev), S1Thr)
           over == {k \in DOMAIN S1Thr : S1Thr[k] > 0 /\ Mag(peg.dev) >= S1Thr[k]}
<1>1. cap \in 2 .. 3 BY DEF S1Cap
<1>2. Crashed(peg) \in BOOLEAN BY DEF Crashed
<1>3. lev \in 0 .. 3
  <2>1. DOMAIN S1Thr = 1 .. 3 BY DEF S1Thr
  <2>2. {0} \cup over \subseteq 0 .. 3 BY <2>1
  <2>3. lev = Max({0} \cup over) BY DEF LevelFor
  <2> HIDE DEF over, lev
  <2>5. IsFiniteSet({0} \cup over) BY <2>2, UpToThree
  <2>6. \A x \in {0} \cup over : x \in Int BY <2>2
  <2>7. Max({0} \cup over) \in {0} \cup over BY <2>5, <2>6, FiniteMinMax
  <2> QED BY <2>2, <2>3, <2>7
<1> HIDE DEF cap, lev
<1>5. S1Reading(S1Of(UnknownReading, cap, FALSE))
  <2>1. -1 \in -1 .. 3 OBVIOUS
  <2>2. UnknownReading \in Reads({0, 0}) BY <2>1, MeasuredIs DEF UnknownReading, Unknown
  <2> QED BY <1>1, <2>2, S1OfIs DEF Reads
<1>6. S1Reading(S1Of(Measured(Mag(peg.dev), S1Thr), cap, Crashed(peg)))
  <2>1. Measured(Mag(peg.dev), S1Thr) = [Reading(lev) EXCEPT !.value = Mag(peg.dev)]
    BY DEF Measured, lev
  <2>2. lev \in -1 .. 3 BY <1>3
  <2>3. Measured(Mag(peg.dev), S1Thr) \in Reads({0, Mag(peg.dev)}) BY <2>1, <2>2, MeasuredIs
  <2> QED BY <1>1, <1>2, <2>3, S1OfIs DEF Reads
<1> QED BY <1>5, <1>6 DEF S1Raw, cap

LEMMA FreshIs == HystOK(Fresh) /\ Fresh.level = 0 /\ \A k \in 1 .. 3 : Fresh.up[k] = 0
<1>1. <<0, 0, 0>> \in [1 .. 3 -> 0 .. Enter] BY RulesAssumption
<1> QED BY <1>1 DEF HystOK, Fresh, Unknown

LEMMA RestartedIs ==
  ASSUME NEW h, HystOK(h), NEW at
  PROVE  LET g == Restarted(h, at)
         IN  /\ HystOK(g) /\ g.level <= h.level
             /\ \A k \in 1 .. 3 : g.up[k] \in 0 .. h.up[k]
<1>1. h.level \in 0 .. 3 /\ \A k \in 1 .. 3 : h.up[k] \in 0 .. Enter BY DEF HystOK
<1>2. CASE Restarted(h, at) = h BY <1>1, <1>2, RulesAssumption
<1>3. CASE Restarted(h, at) = Fresh BY <1>1, <1>3, FreshIs, RulesAssumption
<1> QED BY <1>2, <1>3 DEF Restarted

LEMMA CountedIs ==
  ASSUME NEW g, HystOK(g), NEW r, S1Reading(r), NEW at \in Int
  PROVE  LET c == Counted(g, r, at)
         IN  /\ HystOK(c) /\ c.level = g.level
             /\ \A k \in 1 .. 3 : c.up[k] = IF r.level >= k THEN UpTo(g.up[k] + 1, Enter) ELSE 0
<1> DEFINE ups == [k \in 1 .. 3 |-> IF r.level >= k THEN UpTo(g.up[k] + 1, Enter) ELSE 0]
           n == UpTo(g.samples + 1, Enter)
<1>1. ups \in [1 .. 3 -> 0 .. Enter]
  <2>1. \A k \in 1 .. 3 : g.up[k] \in 0 .. Enter BY DEF HystOK
  <2> QED BY <2>1, RulesAssumption DEF UpTo
<1>2. n \in Nat BY RulesAssumption DEF HystOK, UpTo
<1>3. Counted(g, r, at) = [g EXCEPT !.last = at, !.samples = n, !.up = ups] BY DEF Counted
<1>4. \A k \in 1 .. 3 : ups[k] = IF r.level >= k THEN UpTo(g.up[k] + 1, Enter) ELSE 0 OBVIOUS
<1> HIDE DEF ups, n
<1>5. HystOK(Counted(g, r, at)) /\ Counted(g, r, at).up = ups /\ Counted(g, r, at).level = g.level
  BY <1>1, <1>2, <1>3 DEF HystOK
<1> QED BY <1>4, <1>5

LEMMA ReachedIs ==
  ASSUME NEW c, HystOK(c), NEW r, S1Reading(r)
  PROVE  LET n == Reached(c, r)
         IN  n \in 0 .. 3 /\ (n > c.level => r.immediate \/ (n \in 1 .. 3 /\ c.up[n] >= Enter))
<1> DEFINE first == IF r.immediate THEN 3 ELSE c.level
           ups == {k \in c.level + 1 .. 3 : c.up[k] >= Enter}
           S == {first} \cup ups
<1>1. c.level \in 0 .. 3 BY DEF HystOK
<1>2. S \subseteq 0 .. 3 BY <1>1
<1>3. IsFiniteSet(S) /\ S # {} /\ \A x \in S : x \in Int BY <1>2, UpToThree
<1>4. Reached(c, r) = Max(S) BY DEF Reached
<1> HIDE DEF S
<1>5. Max(S) \in S BY <1>3, FiniteMinMax
<1> QED BY <1>1, <1>2, <1>4, <1>5 DEF S

WithLevel(m, y, z) == [m EXCEPT !.level = y, !.down = z]

Levelled(n, m, y) == HystOK(n) /\ n.up = m.up /\ n.level = y

LEMMA LevelSet ==
  ASSUME NEW m, HystOK(m), NEW y, y \in 0 .. 3, NEW z, z \in Nat
  PROVE  Levelled(WithLevel(m, y, z), m, y)
BY DEF HystOK, WithLevel, Levelled

LEMMA SteppedIs ==
  ASSUME NEW c, HystOK(c), NEW r, S1Reading(r), NEW thr
  PROVE  LET s == Stepping(c, r, thr)
         IN  /\ HystOK(s) /\ s.up = c.up
             /\ s.level > c.level => r.immediate \/ \E k \in s.level .. 3 : k >= 1 /\ c.up[k] >= Enter
<1> DEFINE n == Reached(c, r)
           x == UpTo(n, r.cap)
           d == Downs(c, r, thr, n, x)
           m == WithLevel(c, x, d)
<1>1. n \in 0 .. 3 /\ (n > c.level => r.immediate \/ (n \in 1 .. 3 /\ c.up[n] >= Enter)) BY ReachedIs
<1> HIDE DEF n
<1>2. x \in 0 .. 3 /\ x <= n BY <1>1 DEF S1Reading, UpTo
<1>3. d \in Nat BY DEF Downs, HystOK
<1>4. Stepping(c, r, thr) = Leaving(m, n > c.level) BY DEF Stepping, Moved, Settled, WithLevel, n
<1> HIDE DEF x, d
<1>5. HystOK(m) /\ m.up = c.up /\ m.level = x BY <1>2, <1>3, LevelSet DEF Levelled
<1> HIDE DEF m
<1>6. CASE ~(n > c.level) /\ m.level > 0 /\ m.down >= Exit
  <2>1. Stepping(c, r, thr) = WithLevel(m, m.level - 1, 0)
    BY <1>4, <1>6 DEF Leaving, Leave, WithLevel
  <2>2. m.level - 1 \in 0 .. 3 BY <1>2, <1>5, <1>6
  <2>3. /\ HystOK(Stepping(c, r, thr)) /\ Stepping(c, r, thr).up = c.up
        /\ Stepping(c, r, thr).level = x - 1
    <3> DEFINE y == m.level - 1
               z == 0
    <3>1. Stepping(c, r, thr) = WithLevel(m, y, z) /\ y \in 0 .. 3 /\ z \in Nat BY <2>1, <2>2
    <3>2. y = x - 1 BY <1>5
    <3> HIDE DEF y, z
    <3>3. Levelled(WithLevel(m, y, z), m, y) BY <1>5, <3>1, LevelSet, Zenon
    <3> QED BY <1>5, <3>1, <3>2, <3>3 DEF Levelled
  <2>4. c.level \in 0 .. 3 BY DEF HystOK
  <2> QED BY <1>1, <1>2, <1>6, <2>3, <2>4
<1>7. CASE ~(~(n > c.level) /\ m.level > 0 /\ m.down >= Exit)
  <2>1. Stepping(c, r, thr) = m BY <1>4, <1>7 DEF Leaving
  <2>2. c.level \in 0 .. 3 BY DEF HystOK
  <2> QED BY <1>1, <1>2, <1>5, <2>1, <2>2
<1> QED BY <1>6, <1>7

\* One step of the policy: the level rises only at once or where a counter is full, and each
\* counter is one more than it was, or is cleared.
LEMMA StepIs ==
  ASSUME NEW h, HystOK(h), NEW r, S1Reading(r), NEW thr, NEW at \in Int
  PROVE  LET s == SampledStep(h, r, thr, at)
         IN  /\ HystOK(s)
             /\ r.level < 0 => s.level <= h.level /\ \A k \in 1 .. 3 : s.up[k] \in 0 .. h.up[k]
             /\ r.level >= 0 => \A k \in 1 .. 3 : s.up[k] = 0 \/ (r.level >= k /\ s.up[k] \in 1 .. h.up[k] + 1)
             /\ s.level > h.level =>
                  r.level >= 0 /\ (r.immediate \/ \E k \in s.level .. 3 : k >= 1 /\ s.up[k] >= Enter)
<1> DEFINE g == Restarted(h, at)
           c == Counted(g, r, at)
           s == SampledStep(h, r, thr, at)
<1>1. HystOK(g) /\ g.level <= h.level /\ \A k \in 1 .. 3 : g.up[k] \in 0 .. h.up[k] BY RestartedIs
<1> HIDE DEF g
<1>2. HystOK(c) /\ c.level = g.level
      /\ \A k \in 1 .. 3 : c.up[k] = IF r.level >= k THEN UpTo(g.up[k] + 1, Enter) ELSE 0
  <2> HIDE DEF s
  <2>1. HystOK(g) BY <1>1
  <2> QED BY <2>1, CountedIs, Zenon
<1>3. h.level \in 0 .. 3 /\ g.level \in 0 .. 3 /\ \A k \in 1 .. 3 : h.up[k] \in 0 .. Enter
  BY <1>1 DEF HystOK
<1>4. r.level \in -1 .. 3 BY DEF S1Reading
<1> HIDE DEF c
<1>5. CASE r.level < 0
  <2>1. s = g BY <1>5 DEF SampledStep, g
  <2> HIDE DEF s
  <2> QED BY <1>1, <1>3, <1>4, <1>5, <2>1 DEF s
<1>6. CASE r.level >= 0
  <2>1. s = Stepping(c, r, thr) BY <1>4, <1>6 DEF SampledStep, c, g
  <2> HIDE DEF s
  <2>2. HystOK(s) /\ s.up = c.up
        /\ (s.level > c.level => r.immediate \/ \E k \in s.level .. 3 : k >= 1 /\ c.up[k] >= Enter)
    BY <1>2, <2>1, SteppedIs
  <2>3. ASSUME NEW k \in 1 .. 3
        PROVE  s.up[k] = 0 \/ (r.level >= k /\ s.up[k] \in 1 .. h.up[k] + 1)
    <3>1. s.up[k] = IF r.level >= k THEN UpTo(g.up[k] + 1, Enter) ELSE 0 BY <1>2, <2>2
    <3>2. g.up[k] \in 0 .. h.up[k] /\ h.up[k] \in 0 .. Enter BY <1>1, <1>3
    <3> QED BY <3>1, <3>2, RulesAssumption DEF UpTo
  <2>4. s.level \in 0 .. 3 BY <2>2 DEF HystOK
  <2>5. s.level > h.level => s.level > c.level BY <1>1, <1>2, <1>3, <2>4
  <2> QED BY <1>4, <1>6, <2>2, <2>3, <2>5 DEF s
<1> QED BY <1>4, <1>5, <1>6

-----------------------------------------------------------------------------
(* S1: what an evaluation makes of its record.                              *)

LEMMA S1After ==
  ASSUME "S1" \in watched, NEW rs, S1Shape(rs), NEW e
  PROVE  LET rec == Outcome(rs, e)["S1"].rec
         IN  /\ {"state", "hyst"} \subseteq DOMAIN rec
             /\ rec.hyst = IF NewPeg(e)
                           THEN SampledStep(HystOf(rs, "S1"), S1Raw(asset, e.peg.of.peg), S1Thr, e.peg.at)
                           ELSE HystOf(rs, "S1")
<1> DEFINE first == Evaluated(rs, "S1", e)
           rec   == Outcome(rs, e)["S1"].rec
           h     == HystOf(rs, "S1")
           new   == SampledStep(h, S1Raw(asset, e.peg.of.peg), S1Thr, e.peg.at)
<1>1. rec = StallShown("S1", first, e) BY DEF Outcome, EvaluatedWith, Both
<1>2. first = IF NewPeg(e) THEN Sampled(rs, "S1", e)
              ELSE IF "S1" \in DOMAIN rs THEN rs["S1"] ELSE Record("unknown", Fresh)
  BY DEF Evaluated, SampledSignals
<1>3. Sampled(rs, "S1", e) = Record(SampledState(new, S1Raw(asset, e.peg.of.peg)), new)
  BY DEF Sampled, SampledTo, Shown, ReadingOf, Thresholds
<1> HIDE DEF first, rec, new
<1>4. {"state", "hyst"} \subseteq DOMAIN first /\ first.hyst = IF NewPeg(e) THEN new ELSE h
  <2>1. CASE NewPeg(e) BY <1>2, <1>3, <2>1 DEF Record
  <2>2. CASE ~NewPeg(e) /\ "S1" \in DOMAIN rs BY <1>2, <2>2 DEF S1Shape, HystOf
  <2>3. CASE ~NewPeg(e) /\ "S1" \notin DOMAIN rs BY <1>2, <2>3 DEF Record, HystOf
  <2> QED BY <2>1, <2>2, <2>3
<1>5. rec = first \/ rec = [first EXCEPT !.state = "unknown"] BY <1>1 DEF StallShown
<1>6. DOMAIN rec = DOMAIN first /\ rec.hyst = first.hyst
  <2>1. CASE rec = [first EXCEPT !.state = "unknown"] BY <1>4, <2>1
  <2> QED BY <1>5, <2>1
<1> QED BY <1>4, <1>6 DEF rec, new

LEMMA HystIs == ASSUME NEW rs, S1Shape(rs) PROVE HystOK(HystOf(rs, "S1"))
BY FreshIs DEF S1Shape, HystOf

LEMMA BaseHyst ==
  ASSUME RecordsInv, NEW loads
  PROVE  LET rs == Base(loads)
         IN  /\ S1Shape(rs)
             /\ HystOf(rs, "S1") \in {HystOf(recs, "S1"), HystOf(saved, "S1")}
             /\ HystOf(rs, "S1") = HystOf(recs, "S1") \/ (~loaded /\ loads)
<1>1. S1Shape(recs) /\ S1Shape(saved) BY DEF RecordsInv
<1>2. CASE ~(~loaded /\ loads) BY <1>1, <1>2 DEF Base
<1>3. CASE ~loaded /\ loads
  <2>1. Base(loads) = WithStored BY <1>3 DEF Base
  <2>2. DOMAIN WithStored = DOMAIN saved \cup DOMAIN recs
        /\ \A s \in DOMAIN WithStored : WithStored[s] = IF s \in DOMAIN saved THEN saved[s] ELSE recs[s]
    BY DEF WithStored
  <2>3. S1Shape(WithStored) BY <1>1, <2>2 DEF S1Shape
  <2>4. HystOf(WithStored, "S1") \in {HystOf(recs, "S1"), HystOf(saved, "S1")}
    <3>1. CASE "S1" \in DOMAIN saved BY <2>2, <3>1 DEF HystOf
    <3>2. CASE "S1" \notin DOMAIN saved BY <2>2, <3>2 DEF HystOf
    <3> QED BY <3>1, <3>2
  <2> QED BY <1>3, <2>1, <2>3, <2>4
<1> QED BY <1>2, <1>3

-----------------------------------------------------------------------------
(* S1: the readings published and the counters.                             *)

ReadingSet == [level : 0 .. 3, immediate : BOOLEAN]
\* The last n readings but upto are at level k or above.
RunIn(readings, upto, n, k) ==
  /\ Len(readings) >= UpTo(upto + n, Enter)
  /\ \A i \in DOMAIN readings :
       i \in Len(readings) - upto - n + 1 .. Len(readings) - upto => readings[i].level >= k

LEMMA RunIs == \A upto, n, k : RunOf(upto, n, k) <=> RunIn(recent, upto, n, k)
BY DEF RunOf, RunIn

\* A shorter run is one as well.
LEMMA ShorterRun ==
  ASSUME NEW s \in Seq(ReadingSet), NEW upto \in 0 .. 1, NEW k \in 1 .. 3, NEW n \in 0 .. Enter,
         RunIn(s, upto, n, k), NEW m \in 0 .. n
  PROVE  RunIn(s, upto, m, k)
<1>1. Len(s) \in Nat /\ DOMAIN s = 1 .. Len(s) BY LenProperties
<1>2. Enter \in Nat \ {0} BY RulesAssumption
<1>3. Len(s) >= UpTo(upto + m, Enter)
  <2>1. UpTo(upto + m, Enter) <= UpTo(upto + n, Enter) BY <1>2 DEF UpTo
  <2>2. UpTo(upto + m, Enter) \in Nat /\ UpTo(upto + n, Enter) \in Nat BY <1>2 DEF UpTo
  <2> QED BY <1>1, <2>1, <2>2 DEF RunIn
<1>4. ASSUME NEW i \in DOMAIN s, i \in Len(s) - upto - m + 1 .. Len(s) - upto PROVE s[i].level >= k
  <2>1. i \in Len(s) - upto - n + 1 .. Len(s) - upto BY <1>1, <1>4
  <2> QED BY <2>1 DEF RunIn
<1> QED BY <1>3, <1>4 DEF RunIn

\* Counting the last reading makes a run longer by it.
LEMMA CountedRun ==
  ASSUME NEW s \in Seq(ReadingSet), NEW k \in 1 .. 3, NEW n \in 0 .. Enter, RunIn(s, 1, n, k),
         Len(s) >= 1, s[Len(s)].level >= k, NEW m \in 0 .. n + 1, m <= Enter
  PROVE  RunIn(s, 0, m, k)
<1>1. Len(s) \in Nat /\ DOMAIN s = 1 .. Len(s) BY LenProperties
<1>2. Enter \in Nat \ {0} BY RulesAssumption
<1>3. Len(s) >= UpTo(0 + m, Enter)
  <2>1. UpTo(0 + m, Enter) <= UpTo(1 + n, Enter) BY <1>2 DEF UpTo
  <2>2. UpTo(0 + m, Enter) \in Nat /\ UpTo(1 + n, Enter) \in Nat BY <1>2 DEF UpTo
  <2> QED BY <1>1, <2>1, <2>2 DEF RunIn
<1>4. ASSUME NEW i \in DOMAIN s, i \in Len(s) - 0 - m + 1 .. Len(s) - 0 PROVE s[i].level >= k
  <2>1. CASE i = Len(s) BY <2>1
  <2>2. CASE i # Len(s)
    <3>1. i \in Len(s) - 1 - n + 1 .. Len(s) - 1 BY <1>1, <1>4, <2>2
    <3> QED BY <3>1 DEF RunIn
  <2> QED BY <2>1, <2>2
<1> QED BY <1>3, <1>4 DEF RunIn

\* Of u readings and one more, old are dropped.
Kept(u, old) ==
  /\ old \in 0 .. 1 /\ (old = 1 => u = Enter) /\ (old = 0 => u < Enter) /\ u + 1 - old \in 1 .. Enter

LEMMA KeepsLast ==
  ASSUME NEW u \in Nat, u <= Enter, NEW m, m = u + 1, NEW old,
         m > Enter => old = m - Enter, ~(m > Enter) => old = 0
  PROVE  Kept(u, old)
BY RulesAssumption DEF Kept

LEMMA LongEnough ==
  ASSUME NEW u \in Nat, NEW old, Kept(u, old), NEW n \in 0 .. Enter, u >= n
  PROVE  u + 1 - old >= UpTo(1 + n, Enter)
BY RulesAssumption DEF UpTo, Kept

\* Publishing a reading leaves the runs before it.
LEMMA PublishedRun ==
  ASSUME NEW s \in Seq(ReadingSet), Len(s) <= Enter, NEW one \in ReadingSet
  PROVE  LET new == Newest(Append(s, one))
         IN  /\ new \in Seq(ReadingSet) /\ Len(new) \in 1 .. Enter /\ new[Len(new)] = one
             /\ \A k \in 1 .. 3, n \in 0 .. Enter : RunIn(s, 0, n, k) => RunIn(new, 1, n, k)
<1> DEFINE all == Append(s, one)
           new == Newest(all)
           old == IF Len(all) > Enter THEN Len(all) - Enter ELSE 0
<1>1. Len(s) \in Nat /\ DOMAIN s = 1 .. Len(s) BY LenProperties
<1>2. Enter \in Nat \ {0} BY RulesAssumption
<1>3. /\ all \in Seq(ReadingSet) /\ Len(all) = Len(s) + 1
      /\ \A i \in 1 .. Len(s) : all[i] = s[i]
      /\ all[Len(s) + 1] = one
  BY <1>1
<1> HIDE DEF all
<1>4. /\ new \in Seq(ReadingSet) /\ old \in Nat /\ Len(new) = Len(all) - old
      /\ \A i \in 1 .. Len(all) - old : new[i] = all[i + old]
  BY <1>2, <1>3, NewestIs DEF Newest
<1> HIDE DEF new, old
<1>10. Kept(Len(s), old)
  <2>1. (Len(all) > Enter => old = Len(all) - Enter) /\ (~(Len(all) > Enter) => old = 0) BY DEF old
  <2>2. Len(all) = Len(s) + 1 BY <1>3
  <2> QED BY <1>1, <2>1, <2>2, KeepsLast
<1>5. /\ old \in 0 .. 1 /\ (old = 1 => Len(s) = Enter) /\ (old = 0 => Len(s) < Enter)
      /\ Len(s) + 1 - old \in 1 .. Enter
  BY <1>10 DEF Kept
<1>6. Len(new) = Len(s) + 1 - old /\ Len(new) \in 1 .. Enter
  <2>1. Len(new) = Len(s) + 1 - old BY <1>3, <1>4
  <2> QED BY <1>5, <2>1
<1>7. new[Len(new)] = one
  <2>1. Len(new) \in 1 .. Len(all) - old /\ Len(new) + old = Len(s) + 1 BY <1>1, <1>3, <1>4, <1>5, <1>6
  <2> QED BY <1>3, <1>4, <2>1
<1>8. DOMAIN new = 1 .. Len(new) BY <1>4, LenProperties
<1>9. ASSUME NEW k \in 1 .. 3, NEW n \in 0 .. Enter, RunIn(s, 0, n, k) PROVE RunIn(new, 1, n, k)
  <2>1. Len(s) >= n
    <3>1. UpTo(0 + n, Enter) = n BY <1>2 DEF UpTo
    <3> QED BY <1>9, <3>1 DEF RunIn
  <2>2. Len(new) >= UpTo(1 + n, Enter)
    <3>1. Len(s) + 1 - old >= UpTo(1 + n, Enter) BY <1>1, <1>10, <2>1, LongEnough
    <3> QED BY <1>6, <3>1
  <2>3. ASSUME NEW i \in DOMAIN new, i \in Len(new) - 1 - n + 1 .. Len(new) - 1
        PROVE  new[i].level >= k
    <3>1. i + old \in 1 .. Len(s) /\ i + old \in Len(s) - 0 - n + 1 .. Len(s) - 0
      BY <1>1, <1>5, <1>6, <1>8, <2>3
    <3>2. i \in 1 .. Len(all) - old BY <1>1, <1>3, <1>5, <3>1, <1>8
    <3>3. new[i] = s[i + old] BY <1>3, <1>4, <3>1, <3>2
    <3> QED BY <1>1, <1>9, <3>1, <3>3 DEF RunIn
  <2> QED BY <2>2, <2>3 DEF RunIn
<1> QED BY <1>4, <1>6, <1>7, <1>9 DEF new, all

-----------------------------------------------------------------------------
(* S1: the steps that neither publish a sample nor apply the engine.        *)

Held == {"published", "evaluating"}
Quiet ==
  /\ UNCHANGED <<engine, latest, recent>>
  /\ missed' \in BOOLEAN /\ (missed => missed')
  /\ place'["peg"] \notin Held => missed' \/ place["peg"] \notin Held
  /\ \A p \in DOMAIN flight' :
       flight'[p].peg = latest \/ (p \in DOMAIN flight /\ flight'[p].peg = flight[p].peg)

LEMMA QuietKeeps ==
  ASSUME RecordsInv, ReadingsInv, Quiet
  PROVE  RecordsInv' /\ ReadingsInv'
<1>1. /\ UNCHANGED <<recs, saved, loaded, pegSeen, asset, watched, latest, recent>>
      /\ missed' \in BOOLEAN /\ (missed => missed')
      /\ place'["peg"] \notin Held => missed' \/ place["peg"] \notin Held
      /\ \A p \in DOMAIN flight' :
           flight'[p].peg = latest \/ (p \in DOMAIN flight /\ flight'[p].peg = flight[p].peg)
  BY DEF Quiet, engine
<1>2. RecordsInv' BY <1>1 DEF RecordsInv, S1Shape
<1>3. Ahead' = Ahead /\ (Owed' <=> Owed) BY <1>1 DEF Ahead, Owed
<1>4. ReadingsInv'
  <2>1. recent' \in Seq([level : 0 .. 3, immediate : BOOLEAN]) /\ Len(recent') <= Enter
    BY <1>1 DEF ReadingsInv
  <2>2. ASSUME ~missed'
        PROVE  /\ place'["peg"] \notin {"published", "evaluating"} => ~Owed'
               /\ \A p \in DOMAIN flight' : Unconsumed(p)' => flight'[p].peg = latest'
               /\ Ahead' = 1 => /\ recent' # <<>>
                                /\ Last(recent') = LastRead(S1Raw(asset', latest'.of.peg))
               /\ Matches(HystOf(recs, "S1"))'
               /\ ~loaded' /\ recs' = <<>> => Matches(HystOf(saved, "S1"))'
    <3>1. ~missed BY <1>1, <2>2
    <3>2. place'["peg"] \notin {"published", "evaluating"} => ~Owed'
      BY <1>1, <1>3, <2>2, <3>1 DEF ReadingsInv, Held
    <3>3. \A p \in DOMAIN flight' : Unconsumed(p)' => flight'[p].peg = latest'
      BY <1>1, <3>1 DEF ReadingsInv, Unconsumed
    <3>4. Ahead' = 1 => recent' # <<>> /\ Last(recent') = LastRead(S1Raw(asset', latest'.of.peg))
      BY <1>1, <1>3, <3>1 DEF ReadingsInv
    <3>6. Matches(HystOf(recs, "S1"))'
      <4>1. Matches(HystOf(recs, "S1")) BY <3>1 DEF ReadingsInv
      <4> QED BY <1>1, <1>3, <4>1 DEF Matches, RunOf
    <3>7. ~loaded' /\ recs' = <<>> => Matches(HystOf(saved, "S1"))'
      <4>1. ~loaded /\ recs = <<>> => Matches(HystOf(saved, "S1")) BY <3>1 DEF ReadingsInv
      <4> QED BY <1>1, <1>3, <4>1 DEF Matches, RunOf
    <3> QED BY <3>2, <3>3, <3>4, <3>6, <3>7
  <2> QED BY <2>1, <2>2 DEF ReadingsInv
<1> QED BY <1>2, <1>4

LEMMA QuietSteps ==
  ASSUME StaleInv, RecordsInv,
         \/ PegBegins \/ PegRecorded \/ ControlsSample \/ SupplySample \/ Tick \/ WorldChanges \/ ChainStep
         \/ \E p \in Loops : Gather(p) \/ Panics(p)
         \/ \E p \in DOMAIN flight : ReadEvents(p)
         \/ UNCHANGED vars
  PROVE  Quiet
<1>0. DOMAIN place = Loops /\ missed \in BOOLEAN /\ "peg" \in Loops
      /\ DOMAIN flight = {p \in Loops : place[p] = "evaluating"}
  BY DEF StaleInv, ClockInv, FlightInv, RecordsInv, Loops
<1>1. ASSUME UNCHANGED <<engine, latest, recent, missed, flight>>,
             UNCHANGED place \/ \E p \in Loops : \E to : Moves(p, to) /\ (p = "peg" => place["peg"] \notin Held)
      PROVE  Quiet
  <2>1. place'["peg"] \notin Held => place["peg"] \notin Held BY <1>0, <1>1 DEF Moves
  <2> QED BY <1>0, <1>1, <2>1 DEF Quiet
<1>2. CASE PegBegins
  <2>1. Moves("peg", "fetching") /\ place["peg"] \notin Held BY <1>2 DEF PegBegins, Held
  <2>2. UNCHANGED <<engine, latest, recent, missed, flight>> BY <1>2 DEF PegBegins, history
  <2> QED BY <1>0, <1>1, <2>1, <2>2
<1>3. CASE PegRecorded
  <2>1. Moves("peg", "waiting") /\ place["peg"] \notin Held BY <1>3 DEF PegRecorded, Held
  <2>2. UNCHANGED <<engine, latest, recent, missed, flight>> BY <1>3 DEF PegRecorded
  <2> QED BY <1>0, <1>1, <2>1, <2>2
<1>4. CASE ControlsSample \/ SupplySample
  <2>1. PICK p \in {"controls", "supply"}, to \in {"waiting", "published"} : Moves(p, to)
    BY <1>4 DEF ControlsSample, SupplySample
  <2>2. UNCHANGED <<engine, latest, recent, missed, flight>>
    BY <1>4 DEF ControlsSample, SupplySample, history
  <2>3. p \in Loops /\ p # "peg" BY <2>1 DEF Loops
  <2> QED BY <1>1, <2>1, <2>2, <2>3
<1>5. CASE Tick \/ WorldChanges \/ ChainStep \/ UNCHANGED vars
  <2>1. UNCHANGED <<engine, latest, recent, missed, flight, place>>
    BY <1>5 DEF Tick, WorldChanges, ChainStep, vars, history, service
  <2> QED BY <1>1, <2>1
<1>6. ASSUME NEW p \in Loops, Gather(p) PROVE Quiet
  <2>1. /\ UNCHANGED <<engine, latest, recent, missed>> /\ Moves(p, "evaluating")
    BY <1>6 DEF Gather, Evaluates, history
  <2>2. PICK state : flight' = [q \in DOMAIN flight \cup {p} |-> IF q = p THEN Evaluation(state) ELSE flight[q]]
    BY <1>6 DEF Gather
  <2>3. place'["peg"] \notin Held => place["peg"] \notin Held BY <1>0, <2>1 DEF Moves, Held
  <2>4. \A q \in DOMAIN flight' :
          flight'[q].peg = latest \/ (q \in DOMAIN flight /\ flight'[q].peg = flight[q].peg)
    <3>1. Evaluation(state).peg = latest BY DEF Evaluation
    <3> QED BY <2>2, <3>1
  <2> QED BY <1>0, <2>1, <2>3, <2>4 DEF Quiet
<1>7. ASSUME NEW p \in Loops, Panics(p) PROVE Quiet
  <2>1. /\ UNCHANGED <<engine, latest, recent>> /\ Moves(p, "waiting") /\ flight' = Without(p)
        /\ place[p] # "waiting"
        /\ missed' = (missed \/ (p = "peg" /\ place[p] \in {"published", "evaluating"}))
    BY <1>7 DEF Panics
  <2>2. place'["peg"] \notin Held => missed' \/ place["peg"] \notin Held
    <3>1. CASE p # "peg" BY <1>0, <2>1, <3>1 DEF Moves
    <3>2. CASE p = "peg" BY <2>1, <3>2 DEF Held
    <3> QED BY <3>1, <3>2
  <2>3. \A q \in DOMAIN flight' : q \in DOMAIN flight /\ flight'[q].peg = flight[q].peg
    <3>1. flight' = [q \in DOMAIN flight \ {p} |-> [flight[q] EXCEPT !.before = flight[q].before \ {p}]]
      BY <2>1 DEF Without
    <3>2. ASSUME NEW q \in DOMAIN flight \ {p} PROVE flight'[q].peg = flight[q].peg
      <4>1. PICK f : f = flight[q] OBVIOUS
      <4>2. PICK b : b = flight[q].before \ {p} OBVIOUS
      <4>3. flight'[q] = [f EXCEPT !.before = b] BY <3>1, <4>1, <4>2
      <4> QED BY <4>1, <4>3
    <3> QED BY <3>1, <3>2
  <2>4. missed' \in BOOLEAN /\ (missed => missed') BY <1>0, <2>1
  <2>5. UNCHANGED <<engine, latest, recent>> BY <2>1
  <2> QED BY <2>2, <2>3, <2>4, <2>5 DEF Quiet
<1>8. ASSUME NEW p \in DOMAIN flight, ReadEvents(p) PROVE Quiet
  <2>1. UNCHANGED <<engine, latest, recent, missed, place>>
    BY <1>8 DEF ReadEvents, history
  <2>2. PICK s8 : flight' = [flight EXCEPT ![p].s8 = s8, ![p].state = NoControl, ![p].read = TRUE]
    BY <1>8 DEF ReadEvents
  <2>3. DOMAIN flight' = DOMAIN flight /\ \A q \in DOMAIN flight : flight'[q].peg = flight[q].peg
    BY <2>2
  <2> QED BY <1>0, <2>1, <2>3 DEF Quiet
<1> QED BY <1>2, <1>3, <1>4, <1>5, <1>6, <1>7, <1>8, Zenon

\* Time: a run of the peg sampler begins after the sample before it was begun, and at most one
\* tick later than it was asked to.
LEMMA FreshStays ==
  ASSUME FreshInv, left'.loops = left.loops, UNCHANGED <<now, latest, begun, pegSeen>>,
         "peg" \in ticked' => "peg" \in ticked,
         place'["peg"] = "fetching" => place["peg"] = "fetching"
  PROVE  FreshInv'
BY DEF FreshInv, Running

LEMMA FreshStep == ASSUME StaleInv, FreshInv, [Next]_vars PROVE FreshInv'
<1>0. ClockInv /\ FlightInv BY StaleParts
<1>1. left'.loops = left.loops BY <1>0, ClockLeft, LeftStep
<1>2. DOMAIN place = Loops /\ "peg" \in Loops BY <1>0 DEF ClockInv, Loops
<1>3. /\ now \in Nat /\ begun \in 0 .. now /\ latest.at \in -1 .. begun /\ pegSeen \in Int
  BY <1>0 DEF ClockInv
<1>4. CASE UNCHANGED vars BY <1>1, <1>4, FreshStays DEF vars, service, engine
<1>5. CASE PegBegins
  <2>1. /\ "peg" \in ticked /\ Moves("peg", "fetching") /\ ticked' = ticked \ {"peg"} /\ begun' = now
        /\ UNCHANGED <<now, latest, pegSeen>>
    BY <1>5 DEF PegBegins, engine
  <2> QED BY <1>3, <2>1 DEF FreshInv
<1>6. CASE PegPublishes
  <2>1. /\ place["peg"] = "fetching" /\ latest'.at = begun /\ Moves("peg", "published")
        /\ UNCHANGED <<now, begun, ticked, pegSeen>>
    BY <1>6 DEF PegPublishes, Publish, engine
  <2>2. place'["peg"] = "published" BY <1>2, <2>1 DEF Moves
  <2> QED BY <1>1, <1>3, <2>1, <2>2 DEF FreshInv, Running
<1>7. CASE PegRecorded
  <2>1. Moves("peg", "waiting") /\ UNCHANGED <<now, latest, begun, ticked, pegSeen>>
    BY <1>7 DEF PegRecorded, engine
  <2>2. place'["peg"] = "waiting" BY <1>2, <2>1 DEF Moves
  <2> QED BY <1>1, <2>1, <2>2, FreshStays
<1>8. CASE ControlsSample \/ SupplySample
  <2>1. PICK p \in {"controls", "supply"}, to \in {"waiting", "published"} :
          Moves(p, to) /\ ticked' = ticked \ {p}
    BY <1>8 DEF ControlsSample, SupplySample
  <2>2. UNCHANGED <<now, latest, begun, pegSeen>>
    BY <1>8 DEF ControlsSample, SupplySample, engine
  <2>3. place'["peg"] = place["peg"] BY <1>2, <2>1 DEF Moves
  <2> QED BY <1>1, <2>1, <2>2, <2>3, FreshStays
<1>9. CASE Tick
  <2>1. /\ ticked' = ticked \cup Running /\ UNCHANGED <<latest, begun, place, pegSeen>>
        /\ ("peg" \in Running => now' = now + 1) /\ ("peg" \notin Running => now' = now)
    BY <1>9 DEF Tick, engine
  <2> QED BY <1>1, <1>3, <2>1 DEF FreshInv, Running
<1>10. CASE WorldChanges \/ ChainStep
  <2>1. UNCHANGED <<now, latest, begun, ticked, place, pegSeen>>
    BY <1>10 DEF WorldChanges, ChainStep, service, engine
  <2> QED BY <1>1, <2>1, FreshStays
<1>11. CASE Restart
  <2>1. /\ latest' = NoPeg /\ begun' = now /\ ticked' = Running \cap {"peg", "supply"}
        /\ place' = [p \in Loops |-> "waiting"] /\ pegSeen' = -1 /\ now' = now
    BY <1>11 DEF Restart, EngineRestart
  <2>2. latest'.at = -1 BY <2>1 DEF NoPeg
  <2>3. place'["peg"] = "waiting" BY <1>2, <2>1
  <2> QED BY <1>1, <1>3, <2>1, <2>2, <2>3 DEF FreshInv, Running
<1>12. ASSUME NEW p \in Loops, Gather(p) \/ Panics(p) \/ ReadEvents(p) PROVE FreshInv'
  <2>1. UNCHANGED <<now, latest, begun, pegSeen>> /\ ticked' \subseteq ticked
    BY <1>12 DEF Gather, Evaluates, Panics, ReadEvents, engine
  <2>2. UNCHANGED place \/ Moves(p, "evaluating") \/ Moves(p, "waiting")
    BY <1>12 DEF Gather, Evaluates, Panics, ReadEvents
  <2>3. place'["peg"] = "fetching" => place["peg"] = "fetching" BY <1>2, <2>2 DEF Moves
  <2> QED BY <1>1, <2>1, <2>3, FreshStays
<1>13. ASSUME NEW p \in DOMAIN flight, ApplyNext(p) PROVE FreshInv'
  <2>1. UNCHANGED <<now, latest, begun, ticked>> /\ Moves(p, IF p = "peg" THEN "evaluated" ELSE "waiting")
    BY <1>13 DEF ApplyNext
  <2>2. pegSeen' = Max({pegSeen, flight[p].peg.at})
    BY <1>13 DEF ApplyNext, ApplyTo, ApplyWith, Apply
  <2>3. flight[p].peg.at \in -1 .. latest.at BY <1>0 DEF FlightInv
  <2>4. place'["peg"] = "fetching" => place["peg"] = "fetching" BY <1>2, <2>1 DEF Moves
  <2>5. pegSeen' <= latest.at
    <3>1. PICK at \in Int : at = flight[p].peg.at BY <1>3, <2>3
    <3>2. pegSeen' = IF pegSeen >= at THEN pegSeen ELSE at BY <1>3, <2>2, <3>1, MaxOfTwo
    <3> QED BY <1>3, <2>3, <3>1, <3>2 DEF FreshInv
  <2> QED BY <1>1, <2>1, <2>4, <2>5 DEF FreshInv, Running
<1>14. ASSUME Next PROVE FreshInv'
  <2>1. ASSUME NEW p \in Loops, Evaluate(p) \/ Panics(p) PROVE FreshInv'
    BY <1>12, <1>13, <2>1, Zenon DEF Evaluate
  <2> QED BY <1>5, <1>6, <1>7, <1>8, <1>9, <1>10, <1>11, <1>14, <2>1, Zenon DEF Next, PegStep
<1> QED BY <1>4, <1>14

-----------------------------------------------------------------------------
(* S1: a run publishes its sample.                                          *)

\* What a hysteresis must be told by: upto readings are still to be counted.
AreRuns(readings, upto, h) == \A k \in 1 .. 3 : RunIn(readings, upto, h.up[k], k)

LEMMA MatchesIs ==
  /\ Matches(HystOf(recs, "S1")) <=> AreRuns(recent, Ahead, HystOf(recs, "S1"))
  /\ Matches(HystOf(saved, "S1")) <=> AreRuns(recent, Ahead, HystOf(saved, "S1"))
  /\ Matches(HystOf(recs, "S1"))' <=> AreRuns(recent', Ahead', HystOf(recs', "S1"))
  /\ Matches(HystOf(saved, "S1"))' <=> AreRuns(recent', Ahead', HystOf(saved', "S1"))
BY DEF Matches, RunOf, RunIn, AreRuns

LEMMA AheadIs == Ahead \in 0 .. 1 /\ (~Owed => Ahead = 0) /\ Ahead' \in 0 .. 1 /\ (~Owed' => Ahead' = 0)
BY DEF Ahead

LEMMA PublishedRuns ==
  ASSUME NEW s \in Seq(ReadingSet), Len(s) <= Enter, NEW one \in ReadingSet, NEW h, HystOK(h),
         AreRuns(s, 0, h)
  PROVE  AreRuns(Newest(Append(s, one)), 1, h)
<1>1. \A k \in 1 .. 3 : h.up[k] \in 0 .. Enter BY DEF HystOK
<1>2. \A k \in 1 .. 3, n \in 0 .. Enter : RunIn(s, 0, n, k) => RunIn(Newest(Append(s, one)), 1, n, k)
  BY PublishedRun
<1> QED BY <1>1, <1>2 DEF AreRuns

LEMMA PublishKeeps ==
  ASSUME StaleInv, FreshInv, RecordsInv, ReadingsInv, PegPublishes
  PROVE  RecordsInv' /\ ReadingsInv'
<1>1. PICK k, err : Publish(Taken(k), err) BY DEF PegPublishes
<1> DEFINE r == S1Raw(asset, Taken(k).peg)
           new == Newest(Append(recent, LastRead(r)))
<1>2. /\ place["peg"] = "fetching" /\ Moves("peg", "published") /\ missed' = missed
      /\ UNCHANGED <<recs, saved, loaded, pegSeen, asset, watched, flight>>
  BY DEF PegPublishes, engine
<1>3. latest' = [of |-> Taken(k), at |-> begun] /\ recent' = Published(r)
  BY <1>1 DEF Publish
<1>4. S1Raw(asset', latest'.of.peg) = r /\ latest'.at = begun BY <1>2, <1>3
<1>5. r.level \in -1 .. 3 /\ (r.level # -1 => LastRead(r) \in ReadingSet)
  <2>1. S1Reading(r) BY S1RawIs
  <2> HIDE DEF r
  <2> QED BY <2>1 DEF S1Reading, LastRead, ReadingSet
<1>6. /\ DOMAIN place = Loops /\ "peg" \in Loops /\ begun \in Int /\ latest.at \in Int /\ pegSeen \in Int
      /\ \A p \in DOMAIN flight : flight[p].peg.at \in -1 .. latest.at
  BY DEF StaleInv, ClockInv, FlightInv, Loops
<1>7. pegSeen <= latest.at /\ latest.at < begun BY <1>2 DEF FreshInv
<1>8. recent \in Seq(ReadingSet) /\ Len(recent) <= Enter BY DEF ReadingsInv, ReadingSet
<1> HIDE DEF r
<1>9. /\ r.level = -1 => recent' = recent /\ Ahead' = 0
      /\ r.level # -1 => recent' = new /\ Ahead' = 1
  <2>1. Owed' BY <1>2, <1>4, <1>6, <1>7 DEF Owed
  <2> QED BY <1>3, <1>4, <2>1 DEF Published, Ahead, Unknown
<1>10. r.level # -1 => /\ new \in Seq(ReadingSet) /\ Len(new) \in 1 .. Enter /\ new[Len(new)] = LastRead(r)
  BY <1>5, <1>8, PublishedRun
<1>11. RecordsInv' BY <1>2 DEF RecordsInv, S1Shape
<1>12. recent' \in Seq(ReadingSet) /\ Len(recent') <= Enter
  BY <1>8, <1>9, <1>10, RulesAssumption
<1>13. HystOK(HystOf(recs, "S1")) /\ HystOK(HystOf(saved, "S1")) BY HystIs DEF RecordsInv
<1>14. ASSUME ~missed'
       PROVE  /\ place'["peg"] \notin {"published", "evaluating"} => ~Owed'
              /\ \A p \in DOMAIN flight' : Unconsumed(p)' => flight'[p].peg = latest'
              /\ Ahead' = 1 => /\ recent' # <<>>
                               /\ Last(recent') = LastRead(S1Raw(asset', latest'.of.peg))
              /\ Matches(HystOf(recs, "S1"))'
              /\ ~loaded' /\ recs' = <<>> => Matches(HystOf(saved, "S1"))'
  <2>1. ~missed /\ ~Owed /\ Ahead = 0 BY <1>2, <1>14, AheadIs DEF ReadingsInv
  <2>2. place'["peg"] = "published" BY <1>2, <1>6 DEF Moves
  <2>3. latest.at = pegSeen BY <1>6, <1>7, <2>1 DEF Owed
  <2>4. \A p \in DOMAIN flight' : ~Unconsumed(p)' BY <1>2, <1>6, <2>3 DEF Unconsumed
  <2>5. Ahead' = 1 => recent' # <<>> /\ Last(recent') = LastRead(r)
    <3>1. CASE r.level = -1 BY <1>9, <3>1
    <3>2. CASE r.level # -1
      <4>1. recent' = new /\ Len(new) \in 1 .. Enter /\ new[Len(new)] = LastRead(r)
        BY <1>9, <1>10, <3>2
      <4> HIDE DEF new
      <4>2. Last(recent') = new[Len(new)] BY <4>1 DEF Last
      <4>3. recent' # <<>> BY <4>1
      <4> QED BY <4>1, <4>2, <4>3
    <3> QED BY <3>1, <3>2
  <2>6. ASSUME NEW h, HystOK(h), AreRuns(recent, Ahead, h) PROVE AreRuns(recent', Ahead', h)
    <3>1. CASE r.level = -1 BY <1>9, <2>1, <2>6, <3>1
    <3>2. CASE r.level # -1
      <4>1. AreRuns(recent, 0, h) BY <2>1, <2>6
      <4>2. AreRuns(new, 1, h) BY <1>5, <1>8, <2>6, <3>2, <4>1, PublishedRuns
      <4> QED BY <1>9, <3>2, <4>2
    <3> QED BY <3>1, <3>2
  <2>7. Matches(HystOf(recs, "S1"))'
    <3>1. AreRuns(recent, Ahead, HystOf(recs, "S1")) BY <2>1, MatchesIs DEF ReadingsInv
    <3>2. AreRuns(recent', Ahead', HystOf(recs', "S1")) BY <1>2, <1>13, <2>6, <3>1
    <3> QED BY <3>2, MatchesIs
  <2>8. ~loaded' /\ recs' = <<>> => Matches(HystOf(saved, "S1"))'
    <3> SUFFICES ASSUME ~loaded, recs = <<>> PROVE Matches(HystOf(saved, "S1"))' BY <1>2
    <3>1. AreRuns(recent, Ahead, HystOf(saved, "S1")) BY <2>1, MatchesIs DEF ReadingsInv
    <3>2. AreRuns(recent', Ahead', HystOf(saved', "S1")) BY <1>2, <1>13, <2>6, <3>1
    <3> QED BY <3>2, MatchesIs
  <2> QED BY <1>4, <2>2, <2>4, <2>5, <2>7, <2>8
<1> QED BY <1>11, <1>12, <1>14 DEF ReadingsInv, ReadingSet

-----------------------------------------------------------------------------
(* S1: an evaluation is applied.                                            *)

LEMMA FreshRuns ==
  ASSUME NEW s \in Seq(ReadingSet), NEW upto \in 0 .. 1, upto = 1 => s # <<>>
  PROVE  AreRuns(s, upto, Fresh)
<1>1. Len(s) \in Nat /\ DOMAIN s = 1 .. Len(s) BY LenProperties
<1>2. upto = 1 => Len(s) >= 1 BY <1>1
<1>3. ASSUME NEW k \in 1 .. 3 PROVE RunIn(s, upto, 0, k)
  <2>1. UpTo(upto + 0, Enter) <= upto BY RulesAssumption DEF UpTo
  <2>2. UpTo(upto + 0, Enter) \in Nat BY RulesAssumption DEF UpTo
  <2>3. Len(s) >= UpTo(upto + 0, Enter) BY <1>1, <1>2, <2>1, <2>2
  <2>4. Len(s) - upto - 0 + 1 .. Len(s) - upto = {} BY <1>1
  <2> QED BY <2>3, <2>4 DEF RunIn
<1>4. \A k \in 1 .. 3 : Fresh.up[k] = 0 BY FreshIs
<1> QED BY <1>3, <1>4 DEF AreRuns

\* A reading that says nothing, and one that is counted, leave counters that are runs.
LEMMA StepRuns ==
  ASSUME NEW s \in Seq(ReadingSet), Len(s) <= Enter, NEW h, HystOK(h), NEW r, S1Reading(r),
         NEW thr, NEW at \in Int,
         r.level < 0 => AreRuns(s, 0, h),
         r.level >= 0 => AreRuns(s, 1, h) /\ Len(s) >= 1 /\ s[Len(s)] = LastRead(r)
  PROVE  AreRuns(s, 0, SampledStep(h, r, thr, at))
<1> DEFINE new == SampledStep(h, r, thr, at)
<1>1. /\ HystOK(new)
      /\ r.level < 0 => \A k \in 1 .. 3 : new.up[k] \in 0 .. h.up[k]
      /\ r.level >= 0 => \A k \in 1 .. 3 : new.up[k] = 0 \/ (r.level >= k /\ new.up[k] \in 1 .. h.up[k] + 1)
  BY StepIs
<1> HIDE DEF new
<1>2. \A k \in 1 .. 3 : h.up[k] \in 0 .. Enter /\ new.up[k] \in 0 .. Enter BY <1>1 DEF HystOK
<1>3. Len(s) \in Nat BY LenProperties
<1>4. ASSUME NEW k \in 1 .. 3 PROVE RunIn(s, 0, new.up[k], k)
  <2>1. CASE r.level < 0
    <3>1. RunIn(s, 0, h.up[k], k) BY <2>1 DEF AreRuns
    <3>2. h.up[k] \in 0 .. Enter /\ new.up[k] \in 0 .. h.up[k] BY <1>1, <1>2, <2>1
    <3> QED BY <3>1, <3>2, ShorterRun
  <2>2. CASE r.level >= 0
    <3>1. RunIn(s, 1, h.up[k], k) /\ Len(s) >= 1 /\ s[Len(s)].level = r.level
      BY <2>2 DEF AreRuns, LastRead
    <3>2. CASE new.up[k] = 0
      <4>1. UpTo(0 + 0, Enter) = 0 BY RulesAssumption DEF UpTo
      <4>2. Len(s) - 0 - 0 + 1 .. Len(s) - 0 = {} BY <1>3
      <4> QED BY <1>3, <3>2, <4>1, <4>2 DEF RunIn
    <3>3. CASE r.level >= k /\ new.up[k] \in 1 .. h.up[k] + 1
      <4>1. new.up[k] \in 0 .. h.up[k] + 1 /\ new.up[k] <= Enter /\ s[Len(s)].level >= k
        BY <1>2, <3>1, <3>3, RulesAssumption
      <4> QED BY <1>2, <3>1, <4>1, CountedRun
    <3> QED BY <1>1, <2>2, <3>2, <3>3
  <2>3. r.level \in Int BY DEF S1Reading
  <2> QED BY <2>1, <2>2, <2>3
<1> QED BY <1>4 DEF AreRuns, new

\* A level that rises was earned by the readings.
EarnedBy(s, level) ==
  Len(s) >= 1 /\ (s[Len(s)].immediate \/ (Len(s) = Enter /\ \A i \in DOMAIN s : s[i].level >= level))

LEMMA AtTheTop == ASSUME NEW n \in Nat, NEW x \in 0 .. n, x >= n PROVE x = n
OBVIOUS

LEMMA StepEarned ==
  ASSUME NEW s \in Seq(ReadingSet), Len(s) <= Enter, NEW h, HystOK(h), NEW r, S1Reading(r),
         NEW thr, NEW at \in Int,
         r.level < 0 => AreRuns(s, 0, h),
         r.level >= 0 => AreRuns(s, 1, h) /\ Len(s) >= 1 /\ s[Len(s)] = LastRead(r),
         SampledStep(h, r, thr, at).level > h.level
  PROVE  EarnedBy(s, SampledStep(h, r, thr, at).level)
<1> DEFINE new == SampledStep(h, r, thr, at)
<1>1. AreRuns(s, 0, new) BY StepRuns
<1>2. /\ HystOK(new)
      /\ r.level >= 0 /\ (r.immediate \/ \E k \in new.level .. 3 : k >= 1 /\ new.up[k] >= Enter)
  BY StepIs
<1> HIDE DEF new
<1>3. Len(s) \in Nat /\ DOMAIN s = 1 .. Len(s) BY LenProperties
<1>4. Len(s) >= 1 /\ s[Len(s)].immediate = r.immediate BY <1>2 DEF LastRead
<1>5. ASSUME NEW k \in new.level .. 3, k >= 1, new.up[k] >= Enter
      PROVE  Len(s) = Enter /\ \A i \in DOMAIN s : s[i].level >= new.level
  <2>1. new.level \in 0 .. 3 /\ k \in 1 .. 3 /\ k >= new.level BY <1>2, <1>5 DEF HystOK
  <2>2. new.up[k] = Enter
    <3>1. new.up[k] \in 0 .. Enter BY <1>2, <2>1 DEF HystOK
    <3> QED BY <1>5, <3>1, AtTheTop, RulesAssumption
  <2>3. RunIn(s, 0, Enter, k) BY <1>1, <2>1, <2>2 DEF AreRuns
  <2>4. Len(s) = Enter
    <3>1. UpTo(0 + Enter, Enter) = Enter BY RulesAssumption DEF UpTo
    <3>2. Len(s) >= Enter BY <2>3, <3>1 DEF RunIn
    <3>3. Len(s) \in 0 .. Enter BY <1>3
    <3> QED BY <3>2, <3>3, AtTheTop, RulesAssumption
  <2>5. ASSUME NEW i \in DOMAIN s PROVE s[i].level >= new.level
    <3>1. i \in Len(s) - 0 - Enter + 1 .. Len(s) - 0 BY <1>3, <2>4, RulesAssumption
    <3>2. s[i].level >= k BY <2>3, <3>1 DEF RunIn
    <3>3. s[i] \in ReadingSet BY <1>3, ElementOfSeq
    <3>4. s[i].level \in Int BY <3>3 DEF ReadingSet
    <3> QED BY <2>1, <3>2, <3>4
  <2> QED BY <2>4, <2>5
<1> QED BY <1>2, <1>4, <1>5 DEF EarnedBy, new

\* What an application does to the record of S1 and to what is told of the readings.
After(e, h) == IF NewPeg(e) THEN SampledStep(h, S1Raw(asset, e.peg.of.peg), S1Thr, e.peg.at) ELSE h
Applied(p, loads) ==
  LET e == flight[p]
      h == HystOf(Base(loads), "S1")
  IN  /\ DOMAIN recs' = watched /\ S1Shape(recs') /\ saved' \in {recs', saved}
      /\ HystOf(recs', "S1") = IF "S1" \in watched THEN After(e, h) ELSE Fresh
      /\ loaded' = (loaded \/ loads) /\ (~loaded' => saved' = saved)
      /\ missed' = (missed \/ LateLoad(loads))
      /\ UNCHANGED <<latest, recent, asset, watched>>
      /\ pegSeen' \in {pegSeen, e.peg.at} /\ pegSeen' >= pegSeen /\ pegSeen' >= e.peg.at
      /\ \A q \in DOMAIN flight' : q \in DOMAIN flight /\ flight'[q].peg = flight[q].peg

LEMMA AppliedIs ==
  ASSUME StaleInv, RecordsInv, NEW p \in DOMAIN flight, ApplyNext(p)
  PROVE  \E loads \in BOOLEAN : Applied(p, loads)
<1> DEFINE e == flight[p]
<1>1. PICK loads \in BOOLEAN, saves \in BOOLEAN :
        /\ ApplyTo(p, e, loads, saves, Base(loads), Outcome(Base(loads), e))
        /\ missed' = (missed \/ LateLoad(loads))
  BY Zenon DEF ApplyNext
<1> DEFINE rs  == Base(loads)
           out == Outcome(rs, e)
           changed == ChangedBy(rs, out)
           events  == IF Stores(loads, saves) THEN changed ELSE {}
           new == [s \in watched |-> out[s].rec]
<1>2. /\ Apply(e, loads, saves, new, changed, e.passed)
      /\ flight' = Passed(p, events)
  BY <1>1 DEF ApplyTo, ApplyWith
<1>3. /\ recs' = new /\ loaded' = (loaded \/ loads) /\ pegSeen' = Max({pegSeen, e.peg.at})
      /\ UNCHANGED <<asset, watched>>
      /\ Stores(loads, saves) => saved' = new
      /\ ~Stores(loads, saves) => saved' = saved
  BY <1>2, Zenon DEF Apply
<1>4. saved' \in {recs', saved} /\ (~loaded' => saved' = saved)
  BY <1>3 DEF Stores, MaySave
<1>5. UNCHANGED <<latest, recent>> BY DEF ApplyNext
<1>6. pegSeen' \in {pegSeen, e.peg.at} /\ pegSeen' >= pegSeen /\ pegSeen' >= e.peg.at
  <2>1. PICK at : at = e.peg.at OBVIOUS
  <2>2. at \in Int /\ pegSeen \in Int
    <3>1. at \in -1 .. latest.at /\ latest.at \in Int /\ pegSeen \in Int
      BY <2>1 DEF StaleInv, ClockInv, FlightInv
    <3> QED BY <3>1
  <2>3. pegSeen' = IF pegSeen >= at THEN pegSeen ELSE at BY <1>3, <2>1, <2>2, MaxOfTwo
  <2> HIDE DEF e
  <2> QED BY <2>1, <2>2, <2>3
<1>7. \A q \in DOMAIN flight' : q \in DOMAIN flight /\ flight'[q].peg = flight[q].peg
  <2>1. flight' = [q \in DOMAIN flight \ {p} |->
                     [flight[q] EXCEPT !.before = flight[q].before \ {p},
                                       !.passed = IF q \in e.before
                                                  THEN flight[q].passed \cup events
                                                  ELSE flight[q].passed]]
    BY <1>2 DEF Passed
  <2>2. ASSUME NEW q \in DOMAIN flight \ {p} PROVE flight'[q].peg = flight[q].peg
    <3>1. PICK f : f = flight[q] OBVIOUS
    <3>2. PICK b : b = flight[q].before \ {p} OBVIOUS
    <3>3. PICK c : c = IF q \in e.before THEN flight[q].passed \cup events ELSE flight[q].passed
      OBVIOUS
    <3>4. flight'[q] = [f EXCEPT !.before = b, !.passed = c] BY <2>1, <3>1, <3>2, <3>3
    <3> QED BY <3>1, <3>4
  <2> QED BY <2>1, <2>2
<1>8. S1Shape(rs) BY BaseHyst
<1>9. HystOK(HystOf(rs, "S1")) BY <1>8, HystIs
<1>10. "S1" \in watched =>
         /\ {"state", "hyst"} \subseteq DOMAIN new["S1"]
         /\ new["S1"].hyst = After(e, HystOf(rs, "S1"))
  <2> HIDE DEF rs, e
  <2> QED BY <1>8, S1After DEF After
<1>11. HystOK(After(e, HystOf(rs, "S1")))
  <2>1. e.peg.at \in -1 .. latest.at /\ latest.at \in Int
    BY DEF StaleInv, ClockInv, FlightInv
  <2>2. e.peg.at \in Int BY <2>1
  <2>3. S1Reading(S1Raw(asset, e.peg.of.peg)) BY S1RawIs
  <2> HIDE DEF rs, e
  <2>4. HystOK(SampledStep(HystOf(rs, "S1"), S1Raw(asset, e.peg.of.peg), S1Thr, e.peg.at))
    BY <1>9, <2>2, <2>3, StepIs
  <2> QED BY <1>9, <2>4 DEF After
<1>12. DOMAIN new = watched OBVIOUS
<1> HIDE DEF new, out, changed, events
<1>13. S1Shape(recs') BY <1>3, <1>10, <1>11, <1>12 DEF S1Shape
<1>14. HystOf(recs', "S1") = IF "S1" \in watched THEN After(e, HystOf(rs, "S1")) ELSE Fresh
  <2> HIDE DEF rs, e
  <2> QED BY <1>3, <1>10, <1>12 DEF HystOf
<1>15. Applied(p, loads)
  BY <1>1, <1>3, <1>4, <1>5, <1>6, <1>7, <1>12, <1>13, <1>14, Zenon DEF Applied
<1> QED BY <1>15

\* What an application that loses no reading finds: the counters are runs, and a sample that
\* is new is the latest, with its reading the last that was published.
S1Base(loads) == HystOf(Base(loads), "S1")
Unmissed(p, loads) ==
  LET e == flight[p]
      r == S1Raw(asset, e.peg.of.peg)
  IN  /\ HystOK(S1Base(loads)) /\ AreRuns(recent, Ahead, S1Base(loads))
      /\ NewPeg(e) => /\ e.peg = latest /\ Owed
                      /\ r.level < 0 => Ahead = 0
                      /\ r.level >= 0 => Ahead = 1 /\ Len(recent) >= 1 /\ recent[Len(recent)] = LastRead(r)

LEMMA UnmissedIs ==
  ASSUME StaleInv, RecordsInv, ReadingsInv, NEW p \in DOMAIN flight, NEW loads \in BOOLEAN,
         ~missed, ~LateLoad(loads)
  PROVE  Unmissed(p, loads)
<1> DEFINE e == flight[p]
           r == S1Raw(asset, e.peg.of.peg)
<1>1. HystOK(S1Base(loads))
  <2>1. S1Shape(Base(loads)) BY BaseHyst
  <2> QED BY <2>1, HystIs DEF S1Base
<1>2. AreRuns(recent, Ahead, S1Base(loads))
  <2>1. AreRuns(recent, Ahead, HystOf(recs, "S1")) BY MatchesIs DEF ReadingsInv
  <2>2. ~loaded /\ recs = <<>> => AreRuns(recent, Ahead, HystOf(saved, "S1"))
    BY MatchesIs DEF ReadingsInv
  <2>3. ~loaded /\ loads => recs = <<>> BY DEF LateLoad
  <2>4. /\ S1Base(loads) \in {HystOf(recs, "S1"), HystOf(saved, "S1")}
        /\ S1Base(loads) = HystOf(recs, "S1") \/ (~loaded /\ loads)
    BY BaseHyst DEF S1Base
  <2> QED BY <2>1, <2>2, <2>3, <2>4
<1>3. ASSUME NewPeg(e)
      PROVE  /\ e.peg = latest /\ Owed
             /\ r.level < 0 => Ahead = 0
             /\ r.level >= 0 => Ahead = 1 /\ Len(recent) >= 1 /\ recent[Len(recent)] = LastRead(r)
  <2>1. Unconsumed(p) BY <1>3 DEF NewPeg, Unconsumed
  <2>2. e.peg = latest /\ Owed BY <2>1 DEF ReadingsInv, Unconsumed, Owed
  <2>3. S1Raw(asset, latest.of.peg) = r BY <2>2
  <2>4. r.level \in -1 .. 3
    <3>1. S1Reading(r) BY S1RawIs
    <3> HIDE DEF r
    <3> QED BY <3>1 DEF S1Reading
  <2> HIDE DEF r, e
  <2>5. (r.level < 0 => Ahead = 0) /\ (r.level >= 0 => Ahead = 1)
    BY <2>2, <2>3, <2>4 DEF Ahead, Unknown
  <2>6. Ahead = 1 => recent # <<>> /\ Last(recent) = LastRead(r) BY <2>3 DEF ReadingsInv
  <2>7. recent \in Seq(ReadingSet) BY DEF ReadingsInv, ReadingSet
  <2>8. recent # <<>> => Len(recent) >= 1 BY <2>7
  <2> QED BY <2>2, <2>5, <2>6, <2>8 DEF Last
<1> QED BY <1>1, <1>2, <1>3 DEF Unmissed

LEMMA AfterRuns ==
  ASSUME StaleInv, ReadingsInv, NEW p \in DOMAIN flight, NEW loads \in BOOLEAN, Unmissed(p, loads),
         NewPeg(flight[p])
  PROVE  LET new == After(flight[p], S1Base(loads))
         IN  /\ AreRuns(recent, 0, new)
             /\ new.level > S1Base(loads).level => EarnedBy(recent, new.level)
<1> DEFINE e == flight[p]
           r == S1Raw(asset, e.peg.of.peg)
           h == S1Base(loads)
<1>1. recent \in Seq(ReadingSet) /\ Len(recent) <= Enter BY DEF ReadingsInv, ReadingSet
<1>2. S1Reading(r) BY S1RawIs
<1>3. e.peg.at \in Int
  <2>1. e.peg.at \in -1 .. latest.at /\ latest.at \in Int BY DEF StaleInv, ClockInv, FlightInv
  <2> QED BY <2>1
<1>4. /\ HystOK(h)
      /\ r.level < 0 => AreRuns(recent, 0, h)
      /\ r.level >= 0 => AreRuns(recent, 1, h) /\ Len(recent) >= 1 /\ recent[Len(recent)] = LastRead(r)
  <2>1. HystOK(h) /\ AreRuns(recent, Ahead, h) BY DEF Unmissed
  <2>2. /\ r.level < 0 => Ahead = 0
        /\ r.level >= 0 => Ahead = 1 /\ Len(recent) >= 1 /\ recent[Len(recent)] = LastRead(r)
    BY DEF Unmissed
  <2> HIDE DEF h, r
  <2> QED BY <2>1, <2>2
<1>5. After(e, h) = SampledStep(h, r, S1Thr, e.peg.at) BY DEF After
<1>6. PICK at \in Int : at = e.peg.at BY <1>3
<1> HIDE DEF h, r, e
<1>7. AreRuns(recent, 0, SampledStep(h, r, S1Thr, at)) BY <1>1, <1>2, <1>4, StepRuns
<1>8. SampledStep(h, r, S1Thr, at).level > h.level =>
        EarnedBy(recent, SampledStep(h, r, S1Thr, at).level)
  BY <1>1, <1>2, <1>4, StepEarned
<1> QED BY <1>5, <1>6, <1>7, <1>8 DEF h, e

LEMMA AppliedKeeps ==
  ASSUME StaleInv, FreshInv, RecordsInv, ReadingsInv, NEW p \in DOMAIN flight, ApplyNext(p)
  PROVE  RecordsInv' /\ ReadingsInv'
<1>1. PICK loads \in BOOLEAN : Applied(p, loads) BY AppliedIs
<1> DEFINE e == flight[p]
           h == S1Base(loads)
<1>2. /\ DOMAIN recs' = watched /\ S1Shape(recs') /\ saved' \in {recs', saved}
      /\ HystOf(recs', "S1") = IF "S1" \in watched THEN After(e, h) ELSE Fresh
      /\ loaded' = (loaded \/ loads) /\ (~loaded' => saved' = saved)
      /\ missed' = (missed \/ LateLoad(loads))
      /\ UNCHANGED <<latest, recent, asset, watched>>
      /\ pegSeen' \in {pegSeen, e.peg.at} /\ pegSeen' >= pegSeen /\ pegSeen' >= e.peg.at
      /\ \A q \in DOMAIN flight' : q \in DOMAIN flight /\ flight'[q].peg = flight[q].peg
  BY <1>1, Zenon DEF Applied, S1Base
<1>3. /\ pegSeen \in Int /\ latest.at \in Int /\ begun \in Int /\ pegSeen' \in Int /\ e.peg.at \in Int
      /\ DOMAIN flight = {q \in Loops : place[q] = "evaluating"} /\ DOMAIN place = Loops
      /\ p = "peg" => e.peg.at = latest.at
      /\ \A q \in DOMAIN flight : flight[q].peg.at \in Int
  <2>1. /\ pegSeen \in Int /\ begun \in 0 .. now /\ latest.at \in -1 .. begun /\ now \in Nat
        /\ \A q \in DOMAIN flight : flight[q].peg.at \in -1 .. latest.at
        /\ p = "peg" => e.peg.at = begun
        /\ place["peg"] = "evaluating" => latest.at = begun
        /\ DOMAIN flight = {q \in Loops : place[q] = "evaluating"} /\ DOMAIN place = Loops
    BY DEF StaleInv, ClockInv, FlightInv
  <2>2. latest.at \in Int /\ begun \in Int BY <2>1
  <2>3. \A q \in DOMAIN flight : flight[q].peg.at \in Int BY <2>1, <2>2
  <2>4. pegSeen' \in Int BY <1>2, <2>1, <2>3
  <2> QED BY <2>1, <2>2, <2>3, <2>4
<1> HIDE DEF e, h
<1>4. RecordsInv'
  <2>1. S1Shape(saved') /\ DOMAIN saved' \subseteq watched BY <1>2 DEF RecordsInv, S1Shape
  <2>2. missed' \in BOOLEAN BY <1>2 DEF RecordsInv
  <2>3. "S1" \in watched => recs' # <<>> BY <1>2
  <2>4. S1Shape(recs)' /\ S1Shape(saved)' BY <1>2, <2>1 DEF S1Shape
  <2> QED BY <1>2, <2>1, <2>2, <2>3, <2>4 DEF RecordsInv
<1>5. recent \in Seq(ReadingSet) /\ Len(recent) <= Enter BY DEF ReadingsInv, ReadingSet
<1>6. ASSUME ~missed'
      PROVE  /\ place'["peg"] \notin {"published", "evaluating"} => ~Owed'
             /\ \A q \in DOMAIN flight' : Unconsumed(q)' => flight'[q].peg = latest'
             /\ Ahead' = 1 => /\ recent' # <<>>
                              /\ Last(recent') = LastRead(S1Raw(asset', latest'.of.peg))
             /\ Matches(HystOf(recs, "S1"))'
             /\ ~loaded' /\ recs' = <<>> => Matches(HystOf(saved, "S1"))'
  <2>1. ~missed /\ ~LateLoad(loads) BY <1>2, <1>6
  <2>2. Unmissed(p, loads) BY <2>1, UnmissedIs
  <2>3. Owed' => Owed BY <1>2, <1>3 DEF Owed
  <2>4. Ahead' = 1 => Ahead = 1 BY <1>2, <2>3 DEF Ahead
  <2>5. place'["peg"] \notin {"published", "evaluating"} => ~Owed'
    <3>1. Moves(p, IF p = "peg" THEN "evaluated" ELSE "waiting") BY DEF ApplyNext
    <3>2. CASE p = "peg" BY <1>2, <1>3, <3>2 DEF Owed
    <3>3. CASE p # "peg"
      <4>1. place'["peg"] = place["peg"] BY <1>3, <3>1, <3>3 DEF Moves
      <4> QED BY <2>1, <2>3, <4>1 DEF ReadingsInv
    <3> QED BY <3>2, <3>3
  <2>6. \A q \in DOMAIN flight' : Unconsumed(q)' => flight'[q].peg = latest'
    <3>1. ASSUME NEW q \in DOMAIN flight', Unconsumed(q)' PROVE flight'[q].peg = latest'
      <4>1. q \in DOMAIN flight /\ flight'[q].peg = flight[q].peg BY <1>2
      <4>2. flight[q].peg.at > pegSeen BY <1>2, <1>3, <3>1, <4>1 DEF Unconsumed
      <4> QED BY <1>2, <2>1, <4>1, <4>2 DEF ReadingsInv, Unconsumed
    <3> QED BY <3>1
  <2>7. Ahead' = 1 => recent' # <<>> /\ Last(recent') = LastRead(S1Raw(asset', latest'.of.peg))
    BY <1>2, <2>1, <2>4 DEF ReadingsInv
  <2>8. AreRuns(recent, Ahead', Fresh) BY <1>2, <1>5, <2>7, AheadIs, FreshRuns
  <2>9. Matches(HystOf(recs, "S1"))'
    <3>1. CASE "S1" \notin watched BY <1>2, <2>8, <3>1, MatchesIs
    <3>2. CASE "S1" \in watched /\ NewPeg(e)
      <4>1. AreRuns(recent, 0, After(e, h)) BY <2>2, <3>2, AfterRuns DEF e, h
      <4>2. e.peg = latest BY <2>2, <3>2 DEF Unmissed, e
      <4>3. ~Owed'
        <5>1. pegSeen' >= latest.at BY <1>2, <4>2
        <5> QED BY <1>2, <1>3, <5>1 DEF Owed
      <4>4. Ahead' = 0 BY <4>3, AheadIs
      <4> QED BY <1>2, <3>2, <4>1, <4>4, MatchesIs
    <3>3. CASE "S1" \in watched /\ ~NewPeg(e)
      <4>1. After(e, h) = h BY <3>3 DEF After
      <4>2. pegSeen' = pegSeen BY <1>2, <1>3, <3>3 DEF NewPeg
      <4>3. Ahead' = Ahead BY <1>2, <4>2 DEF Ahead, Owed
      <4>4. AreRuns(recent, Ahead, h) BY <2>2 DEF Unmissed, h
      <4> QED BY <1>2, <3>3, <4>1, <4>3, <4>4, MatchesIs
    <3> QED BY <3>1, <3>2, <3>3
  <2>10. ~loaded' /\ recs' = <<>> => Matches(HystOf(saved, "S1"))'
    <3> SUFFICES ASSUME recs' = <<>> PROVE Matches(HystOf(saved, "S1"))' OBVIOUS
    <3>1. "S1" \notin watched BY <1>2
    <3>2. "S1" \notin DOMAIN saved' BY <1>2, <3>1 DEF RecordsInv
    <3>3. HystOf(saved', "S1") = Fresh BY <3>2 DEF HystOf
    <3> QED BY <1>2, <2>8, <3>3, MatchesIs
  <2> QED BY <2>5, <2>6, <2>7, <2>9, <2>10
<1>7. recent' \in Seq(ReadingSet) /\ Len(recent') <= Enter BY <1>2, <1>5
<1> QED BY <1>4, <1>6, <1>7 DEF ReadingsInv, ReadingSet

\* A restart forgets the counters; the stored ones are runs if nothing was lost.
LEMMA RestartReadings ==
  ASSUME StaleInv, RecordsInv, ReadingsInv, Restart
  PROVE  RecordsInv' /\ ReadingsInv'
<1>1. /\ recs' = <<>> /\ pegSeen' = -1 /\ latest'.at = -1 /\ flight' = <<>> /\ ~loaded'
      /\ UNCHANGED <<saved, recent, watched>>
      /\ missed' = (missed \/ pegSeen < latest.at \/ (recs # <<>> /\ recs # saved))
  BY DEF Restart, EngineRestart, NoPeg
<1>2. DOMAIN recs' = {} /\ DOMAIN flight' = {} BY <1>1
<1>3. RecordsInv' BY <1>1, <1>2 DEF RecordsInv, S1Shape
<1>4. recent \in Seq(ReadingSet) /\ Len(recent) <= Enter BY DEF ReadingsInv, ReadingSet
<1>5. ~Owed' /\ Ahead' = 0
  <2>1. ~Owed' BY <1>1 DEF Owed
  <2> QED BY <2>1, AheadIs
<1>6. AreRuns(recent, 0, Fresh) BY <1>4, FreshRuns
<1>7. HystOf(recs', "S1") = Fresh BY <1>2 DEF HystOf
<1>8. Matches(HystOf(recs, "S1"))' BY <1>1, <1>5, <1>6, <1>7, MatchesIs
<1>9. ASSUME ~missed' PROVE Matches(HystOf(saved, "S1"))'
  <2>1. ~missed /\ ~(pegSeen < latest.at) /\ (recs = <<>> \/ recs = saved) BY <1>1, <1>9
  <2>2. ~Owed
    <3>1. pegSeen \in Int /\ begun \in 0 .. now /\ latest.at \in -1 .. begun /\ now \in Nat
      BY DEF StaleInv, ClockInv
    <3> QED BY <2>1, <3>1 DEF Owed
  <2>3. Ahead = 0 BY <2>2, AheadIs
  <2>4. AreRuns(recent, 0, HystOf(saved, "S1"))
    <3>1. CASE recs = saved
      <4>1. Matches(HystOf(recs, "S1")) BY <2>1 DEF ReadingsInv
      <4> QED BY <2>3, <3>1, <4>1, MatchesIs
    <3>2. CASE recs = <<>> /\ "S1" \in watched
      <4>1. ~loaded BY <3>2 DEF RecordsInv
      <4>2. Matches(HystOf(saved, "S1")) BY <2>1, <3>2, <4>1 DEF ReadingsInv
      <4> QED BY <2>3, <4>2, MatchesIs
    <3>3. CASE "S1" \notin watched
      <4>1. "S1" \notin DOMAIN saved BY <3>3 DEF RecordsInv
      <4> QED BY <1>6, <4>1 DEF HystOf
    <3> QED BY <2>1, <3>1, <3>2, <3>3
  <2> QED BY <1>1, <1>5, <2>4, MatchesIs
<1>10. \A q \in DOMAIN flight' : Unconsumed(q)' => flight'[q].peg = latest' BY <1>2
<1>11. recent' \in Seq(ReadingSet) /\ Len(recent') <= Enter BY <1>1, <1>4
<1> QED BY <1>3, <1>5, <1>8, <1>9, <1>10, <1>11 DEF ReadingsInv, ReadingSet

LEMMA AlarmStep == ASSUME StaleInv, AlarmInv, [Next]_vars PROVE AlarmInv'
<1>1. FreshInv /\ RecordsInv /\ ReadingsInv BY DEF AlarmInv
<1>2. FreshInv' BY <1>1, FreshStep
<1>3. Quiet => RecordsInv' /\ ReadingsInv' BY <1>1, QuietKeeps
<1>4. UNCHANGED vars => Quiet BY <1>1, QuietSteps
<1>5. PegStep => RecordsInv' /\ ReadingsInv'
  <2>1. PegBegins \/ PegRecorded => Quiet BY <1>1, QuietSteps
  <2>2. PegPublishes => RecordsInv' /\ ReadingsInv' BY <1>1, PublishKeeps
  <2> QED BY <1>3, <2>1, <2>2, Zenon DEF PegStep
<1>6. ControlsSample \/ SupplySample \/ Tick \/ WorldChanges \/ ChainStep => Quiet
  BY <1>1, QuietSteps
<1>7. Restart => RecordsInv' /\ ReadingsInv' BY <1>1, RestartReadings
<1>8. ASSUME NEW p \in Loops PROVE Evaluate(p) \/ Panics(p) => RecordsInv' /\ ReadingsInv'
  <2>1. Gather(p) \/ Panics(p) => Quiet BY <1>1, QuietSteps
  <2>2. p \in DOMAIN flight /\ ReadEvents(p) => Quiet BY <1>1, QuietSteps
  <2>3. p \in DOMAIN flight /\ ApplyNext(p) => RecordsInv' /\ ReadingsInv' BY <1>1, AppliedKeeps
  <2> QED BY <1>3, <2>1, <2>2, <2>3, Zenon DEF Evaluate
<1>9. Next => RecordsInv' /\ ReadingsInv'
  BY <1>3, <1>5, <1>6, <1>7, <1>8, Zenon DEF Next
<1> QED BY <1>2, <1>3, <1>4, <1>9 DEF AlarmInv

LEMMA AlarmStarts == ASSUME Init PROVE AlarmInv
<1>1. /\ recs = <<>> /\ saved = <<>> /\ pegSeen = -1 /\ latest.at = -1 /\ now = 0 /\ ~loaded
      /\ flight = <<>> /\ recent = <<>> /\ missed = FALSE
      /\ ticked = Running \cap {"peg", "supply"} /\ place = [p \in Loops |-> "waiting"]
  BY DEF Init, EngineInit, NoPeg
<1>2. FreshInv
  <2>1. place["peg"] = "waiting" BY <1>1 DEF Loops
  <2> QED BY <1>1, <2>1 DEF FreshInv
<1>3. DOMAIN recs = {} /\ DOMAIN saved = {} /\ DOMAIN flight = {} BY <1>1
<1>4. RecordsInv BY <1>1, <1>3 DEF RecordsInv, S1Shape
<1>5. recent \in Seq(ReadingSet) /\ Len(recent) <= Enter
  <2>1. <<>> \in Seq(ReadingSet) /\ Len(<<>>) = 0 BY EmptySeq
  <2> QED BY <1>1, <2>1, RulesAssumption
<1>6. ~Owed /\ Ahead = 0
  <2>1. ~Owed BY <1>1 DEF Owed
  <2> QED BY <2>1, AheadIs
<1>7. HystOf(recs, "S1") = Fresh /\ HystOf(saved, "S1") = Fresh BY <1>3 DEF HystOf
<1>8. AreRuns(recent, 0, Fresh) BY <1>5, FreshRuns
<1>9. Matches(HystOf(recs, "S1")) /\ Matches(HystOf(saved, "S1")) BY <1>6, <1>7, <1>8, MatchesIs
<1>10. ReadingsInv BY <1>3, <1>5, <1>6, <1>9 DEF ReadingsInv, ReadingSet
<1> QED BY <1>2, <1>4, <1>10 DEF AlarmInv

-----------------------------------------------------------------------------
(* S1: what a rise of the level rests on.                                   *)

LEMMA LevelBeforeIs ==
  ASSUME RecordsInv
  PROVE  /\ LevelBefore \in 0 .. 3 /\ LevelBefore >= HystOf(recs, "S1").level
         /\ ~loaded => LevelBefore >= HystOf(saved, "S1").level
<1>1. HystOf(recs, "S1").level \in 0 .. 3 /\ HystOf(saved, "S1").level \in 0 .. 3
  BY HystIs DEF RecordsInv, HystOK
<1> DEFINE a == HystOf(recs, "S1").level
           b == HystOf(saved, "S1").level
<1>2. LevelBefore = IF loaded THEN a ELSE Max({a, b}) BY DEF LevelBefore
<1> HIDE DEF a, b
<1>3. a \in 0 .. 3 /\ b \in 0 .. 3 BY <1>1 DEF a, b
<1>4. Max({a, b}) = IF a >= b THEN a ELSE b BY <1>3, MaxOfTwo
<1> QED BY <1>2, <1>3, <1>4 DEF a, b

LEMMA RiseIsEarned ==
  ASSUME StaleInv, AlarmInv, [Next]_vars, ~missed', HystOf(recs', "S1").level > LevelBefore
  PROVE  Earned(HystOf(recs', "S1").level)
<1>1. FreshInv /\ RecordsInv /\ ReadingsInv BY DEF AlarmInv
<1>2. /\ LevelBefore \in 0 .. 3 /\ LevelBefore >= HystOf(recs, "S1").level
      /\ ~loaded => LevelBefore >= HystOf(saved, "S1").level
  BY <1>1, LevelBeforeIs
<1>3. HystOf(recs, "S1").level \in 0 .. 3 /\ HystOf(saved, "S1").level \in 0 .. 3
  BY <1>1, HystIs DEF RecordsInv, HystOK
<1>4. recs' # recs BY <1>2, <1>3
<1>5. recs' # <<>>
  <2>1. recs' = <<>> => HystOf(recs', "S1") = Fresh BY DEF HystOf
  <2> QED BY <1>2, <2>1, FreshIs
<1>6. PICK p \in DOMAIN flight : ApplyNext(p)
  <2>1. UNCHANGED vars => recs' = recs BY DEF vars, engine
  <2>2. PegStep => recs' = recs BY DEF PegStep, PegBegins, PegPublishes, PegRecorded, engine
  <2>3. ControlsSample \/ SupplySample \/ Tick \/ WorldChanges \/ ChainStep => recs' = recs
    <3>1. ControlsSample \/ SupplySample => UNCHANGED engine BY Zenon DEF ControlsSample, SupplySample
    <3>2. Tick \/ WorldChanges \/ ChainStep => UNCHANGED engine BY Zenon DEF Tick, WorldChanges, ChainStep
    <3> QED BY <3>1, <3>2 DEF engine
  <2>4. Restart => recs' = <<>> BY DEF Restart, EngineRestart
  <2>5. \A q \in Loops : Gather(q) \/ Panics(q) \/ ReadEvents(q) => recs' = recs
    BY DEF Gather, Panics, ReadEvents, engine
  <2> QED BY <1>4, <1>5, <2>1, <2>2, <2>3, <2>4, <2>5, Zenon DEF Next, Evaluate
<1>7. PICK loads \in BOOLEAN : Applied(p, loads) BY <1>1, <1>6, AppliedIs
<1> DEFINE h == S1Base(loads)
           new == After(flight[p], h)
<1>8. /\ HystOf(recs', "S1") = IF "S1" \in watched THEN new ELSE Fresh
      /\ missed' = (missed \/ LateLoad(loads))
  BY <1>7, Zenon DEF Applied, S1Base
<1>9. h.level \in 0 .. 3 /\ h.level <= LevelBefore
  <2>1. h \in {HystOf(recs, "S1"), HystOf(saved, "S1")}
        /\ (h = HystOf(recs, "S1") \/ (~loaded /\ loads))
    BY <1>1, BaseHyst DEF S1Base
  <2> HIDE DEF h
  <2> QED BY <1>2, <1>3, <2>1
<1>10. Unmissed(p, loads) BY <1>1, <1>8, UnmissedIs
<1> HIDE DEF h, new
<1>11. "S1" \in watched
  <2>1. "S1" \notin watched => HystOf(recs', "S1").level = 0 BY <1>8, FreshIs
  <2> QED BY <1>2, <2>1
<1>12. NewPeg(flight[p])
  <2>1. ~NewPeg(flight[p]) => new = h BY DEF After, new
  <2> QED BY <1>2, <1>8, <1>9, <1>11, <2>1
<1>13. new.level > h.level
  <2>1. HystOf(recs', "S1") = new BY <1>8, <1>11
  <2>2. AreRuns(recent, 0, new) BY <1>1, <1>10, <1>12, AfterRuns DEF new, h
  <2>3. HystOK(HystOf(recs', "S1"))
    <3>1. S1Shape(recs') BY <1>7, Zenon DEF Applied
    <3> QED BY <3>1, HystIs
  <2>4. new.level \in 0 .. 3 BY <2>1, <2>3 DEF HystOK
  <2>5. new.level > LevelBefore BY <2>1
  <2> QED BY <1>2, <1>9, <2>4, <2>5
<1>14. EarnedBy(recent, new.level) BY <1>1, <1>10, <1>12, <1>13, AfterRuns DEF new, h
<1>15. recent # <<>>
  <2>1. Len(recent) >= 1 BY <1>14 DEF EarnedBy
  <2> QED BY <2>1, EmptySeq
<1>16. Earned(new.level) BY <1>14, <1>15 DEF EarnedBy, Earned, Last
<1> QED BY <1>8, <1>11, <1>16

\* S1 rises only when the last samples in a row call for the new level or more, or at once on
\* a crash two venues agree on, and S12 shows an excess only on two pieces of evidence: for
\* any thresholds, worlds, faults, restarts and evaluations that overtake each other, while no
\* sample was lost.  The comparison is confirmed twice at least (stableConfirmSamples is 2).
THEOREM AlarmsAreEarned == ASSUME Confirm >= 2 PROVE Spec => AlarmsEarned
<1> DEFINE Inv == StaleInv /\ AlarmInv /\ SupplyInv
<1>1. Init => Inv BY StaleInitially, AlarmStarts, SupplyStarts
<1>2. Inv /\ [Next]_vars => Inv' BY StaleStep, AlarmStep, SupplyKeeps
<1>3. Inv => ExcessEarned BY ExcessIsEarned
<1>4. Inv /\ [Next]_vars =>
        (~missed' /\ HystOf(recs', "S1").level > LevelBefore => Earned(HystOf(recs', "S1").level))
  BY RiseIsEarned
<1> HIDE DEF Inv
<1> QED BY <1>1, <1>2, <1>3, <1>4, PTL DEF Spec, AlarmsEarned

================================================================================
