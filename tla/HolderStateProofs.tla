--------------------------- MODULE HolderStateProofs ---------------------------
(***************************************************************************)
(* What is proved of HolderState for every chain, retention, feed and       *)
(* number of baselines: the rows of a baseline that a pass may still need   *)
(* survive every pruning, and the stored state is exact.  The second is an  *)
(* induction over the days of a roll-forward and of a reconstruction.       *)
(***************************************************************************)
EXTENDS HolderState, SumProofs, TLAPS

\* NewGen is one more than the newest generation, which meta names.
LEMMA NewGenIsNext ==
  ASSUME BaselineInv
  PROVE  NewGen = meta + 1
<1>1. CASE kept = {}
  BY <1>1 DEF BaselineInv, NewGen
<1>2. CASE kept # {}
  <2>0. meta \in Nat /\ \A g \in kept: g \in 1 .. meta
    BY Zenon DEF BaselineInv
  <2>1. \A g \in kept: g \in Int /\ meta >= g
    BY <2>0
  <2>2. meta # 0
    BY <1>2, <2>0
  <2>3. meta \in kept
    BY <2>2 DEF BaselineInv
  <2>4. Max(kept) \in kept /\ \A g \in kept: Max(kept) >= g
    BY <2>1, <2>3 DEF Max
  <2>5. Max(kept) = meta
    BY <2>1, <2>3, <2>4
  <2>. QED  BY <1>2, <2>5 DEF NewGen
<1>. QED  BY <1>1, <1>2

\* m is a record with the fields of NoPass.
IsPass(r) == DOMAIN r = DOMAIN NoPass
MShape    == IsPass(m)

\* The record of a pass that is not under way.
LEMMA IdlePend == NoPass.pend = 0
BY DEF NoPass

LEMMA AfterPend == ASSUME NEW day PROVE After(day).pend = m.pend
BY DEF After, NoPass

\* Each step keeps BaselineInv: a new generation is above all others, what is read is the
\* newest or none, and pruning keeps whatever is not older than what was read.
LEMMA BaselineInductive ==
  ASSUME BaselineInv, MShape, [HolderNext]_holderVars
  PROVE  BaselineInv' /\ MShape'
<1>. USE DEF At, MShape, IsPass
<1>. DEFINE Rest == UNCHANGED <<kept, pending, meta>>
            MGood == m'.pend \in 0 .. meta /\ MShape'
<1>0. ASSUME Rest, MGood PROVE BaselineInv' /\ MShape'
  BY <1>0 DEF BaselineInv
<1>00. 0 \in 0 .. meta /\ m.pend \in 0 .. meta
  BY DEF BaselineInv
<1>01. "pend" \in DOMAIN m
  BY DEF NoPass
<1>1. CASE UNCHANGED holderVars \/ NewDay \/ PricesArrive \/ StoreRollup \/ StoreCoinage \/ Prune
  <2>1. Rest /\ m' = m
    BY <1>1 DEF holderVars, base, NewDay, PricesArrive, StoreRollup, StoreCoinage, Prune
  <2>. QED  BY <2>1, <1>0, <1>00
<1>2. CASE PlanBaseline
  <2>1. Rest
    BY <1>2 DEF PlanBaseline
  <2>2. MGood
    BY <1>2, <1>00, <1>01 DEF PlanBaseline
  <2>. QED  BY <2>1, <2>2, <1>0
<1>3. CASE CommitBaseline
  <2>1. /\ NewGen = meta + 1 /\ meta' = NewGen /\ pending' = NewGen /\ m' = m
        /\ kept' = kept \cup {NewGen}
    BY <1>3, NewGenIsNext DEF CommitBaseline
  <2>. QED  BY <2>1 DEF BaselineInv
<1>4. ASSUME NEW caller \in {"loop", "job"}, Start(caller)
      PROVE  BaselineInv' /\ MShape'
  <2>1. Rest
    BY <1>4 DEF Start, Others, base
  <2>2. m' = [NoPass EXCEPT !.pc = "stored", !.caller = caller, !.closes = priced]
    BY <1>4 DEF Start
  <2>3. MGood
    BY <2>2, <1>00 DEF NoPass
  <2>. QED  BY <2>1, <2>3, <1>0
<1>5. CASE ReadStored
  <2>1. Rest /\ m'.pend = m.pend /\ DOMAIN m' = DOMAIN m
    BY <1>5, <1>01 DEF ReadStored, Others, base
  <2>. QED  BY <2>1, <1>0, <1>00
<1>6. CASE ReadPending
  <2>1. Rest /\ m'.pend = pending /\ DOMAIN m' = DOMAIN m
    BY <1>6, <1>01 DEF ReadPending, Others, base
  <2>2. pending \in 0 .. meta
    BY DEF BaselineInv
  <2>. QED  BY <2>1, <2>2, <1>0
<1>7. CASE ReadBlocked
  <2>1. Rest /\ m'.pend \in {0, meta} /\ DOMAIN m' = DOMAIN m
    BY <1>7, <1>01 DEF ReadBlocked, Others, base, ActiveBaseline
  <2>2. meta \in 0 .. meta
    BY DEF BaselineInv
  <2>. QED  BY <2>1, <2>2, <1>0, <1>00
<1>8. CASE ApplyBaseline
  <2>1. PICK day : m' = After(day)
    BY <1>8 DEF ApplyBaseline
  <2>2. MGood
    BY <2>1, AfterPend, <1>00 DEF After, NoPass
  <2>3. kept' = kept /\ meta' = meta /\ pending' = 0
    BY <1>8 DEF ApplyBaseline, PendingAfter
  <2>. QED  BY <2>2, <2>3 DEF BaselineInv
<1>9. CASE RollExisting
  <2>1. Rest
    BY <1>9 DEF RollExisting, base
  <2>2. m' = NoPass \/ \E day : m' = After(day)
    BY <1>9 DEF RollExisting
  <2>3. MGood
    BY <2>2, AfterPend, IdlePend, <1>00 DEF After, NoPass
  <2>. QED  BY <2>1, <2>3, <1>0
<1>10. CASE Finish
  <2>1. pending' = pending /\ meta' = meta /\ m' = NoPass
    BY <1>10 DEF Finish
  <2>2. kept' \subseteq kept /\ (meta \in kept => meta \in kept')
    <3>1. kept' = (IF m.pend = 0 THEN kept ELSE Surviving)
      BY <1>10 DEF Finish
    <3>2. meta \in Nat /\ m.pend \in 0 .. meta
      BY DEF BaselineInv
    <3>. QED  BY <3>1, <3>2 DEF Surviving
  <2>3. m'.pend = 0 /\ MShape'
    BY <2>1, IdlePend
  <2>. QED  BY <2>1, <2>2, <2>3 DEF BaselineInv
<1>11. CASE Abort \/ Restart
  <2>1. Rest /\ m' = NoPass
    BY <1>11 DEF Abort, Restart, Others, base
  <2>. QED  BY <2>1, IdlePend, <1>0, <1>00
<1>. QED
  BY <1>1, <1>2, <1>3, <1>4, <1>5, <1>6, <1>7, <1>8, <1>9, <1>10, <1>11 DEF HolderNext, Pass

LEMMA BaselineInitially == ASSUME HolderInit PROVE BaselineInv /\ MShape
<1>1. gen \in Nat /\ meta = gen /\ pending = 0 /\ kept = {g \in 1 .. gen: g >= gen - 1} /\ m = NoPass
  BY HolderAssumption DEF HolderInit
<1>2. m.pend = 0
  BY <1>1, IdlePend
<1>. QED  BY <1>1, <1>2 DEF BaselineInv, MShape, IsPass

\* The rows of a staged baseline, and of the one that a price recomputation would go back
\* to, are there whenever a pass looks for them: pruneBtcBaselineGenerations, which runs
\* outside the transaction and after a pass that may have been overtaken by a new baseline,
\* never deletes them.
THEOREM BaselinesSurvive == HolderSpec => []BaselineKept
<1>1. HolderInit => BaselineInv /\ MShape
  BY BaselineInitially
<1>2. BaselineInv /\ MShape /\ [HolderNext]_holderVars => BaselineInv' /\ MShape'
  BY BaselineInductive
<1>3. BaselineInv => BaselineKept
  BY DEF BaselineInv, BaselineKept
<1>. QED  BY <1>1, <1>2, <1>3, PTL DEF HolderSpec


-----------------------------------------------------------------------------
(* What the days add up to *)

LEMMA BucketFacts ==
  /\ IsFiniteSet(Buckets) /\ Dates \subseteq Buckets /\ (\A c \in Buckets: c \in Int /\ 0 <= c) /\ FinalDay \in Nat
  /\ \A d: d \in Dates <=> d \in Int /\ 0 <= d /\ d <= FinalDay
BY FS_Interval, HolderAssumption DEF Buckets, Dates

\* Sums over days of numbers that the days have.
Daily(f) == \A d \in Dates: f[d] \in Int

LEMMA ByDay ==
  ASSUME NEW f, Daily(f), NEW a \in Int, NEW b \in Int, 0 <= a, b <= FinalDay
  PROVE  /\ Total(f, a .. b) \in Int
         /\ b < a => Total(f, a .. b) = 0
         /\ a <= b => /\ Total(f, a .. b) = f[b] + Total(f, a .. b - 1)
                      /\ Total(f, a .. b) = f[a] + Total(f, a + 1 .. b)
<1>1. Ints(f, a .. b) BY BucketFacts DEF Ints, Daily
<1>. QED  BY <1>1, TotalUpTo, Zenon

\* The spent matrix has whole numbers, stored or not.
LEMMA SpentType ==
  /\ \A c \in Buckets: \A d \in Dates: SpentFrom(c)[d] = Spent[d][c] /\ Spent[d][c] \in Nat
  /\ \A mat: \A d \in Dates: SpentIn(mat, d) \in [Buckets -> Nat]
  /\ \A mat: \A c \in Buckets: \A d \in Dates: Known(mat, c)[d] = SpentIn(mat, d)[c] /\ SpentIn(mat, d)[c] \in Nat
  /\ NothingSpent \in [Buckets -> Nat]
BY HolderAssumption DEF SpentFrom, Known, SpentIn, NothingSpent

\* What has been spent of a bucket through day d is a number, and a day adds its spends to it.
LEMMA SpentBy ==
  ASSUME NEW c \in Buckets, NEW d \in NoDay .. FinalDay
  PROVE  /\ Total(SpentFrom(c), 0 .. d) \in Int
         /\ d = NoDay => Total(SpentFrom(c), 0 .. d) = 0
         /\ d \in Dates => Total(SpentFrom(c), 0 .. d) = Spent[d][c] + Total(SpentFrom(c), 0 .. d - 1)
<1>1. \A e \in Dates: SpentFrom(c)[e] \in Int /\ SpentFrom(c)[e] = Spent[e][c] BY SpentType
<1>2. d \in Int /\ d <= FinalDay /\ Daily(SpentFrom(c)) BY <1>1, BucketFacts DEF NoDay, Daily
<1>3. /\ Total(SpentFrom(c), 0 .. d) \in Int
      /\ d < 0 => Total(SpentFrom(c), 0 .. d) = 0
      /\ 0 <= d => Total(SpentFrom(c), 0 .. d) = SpentFrom(c)[d] + Total(SpentFrom(c), 0 .. d - 1)
  BY <1>2, ByDay
<1>. QED  BY <1>1, <1>2, <1>3, BucketFacts DEF NoDay

\* The days of the chain add up: day by day, what it created comes in and what it spent goes.
LEMMA UnspentIs ==
  /\ \A d \in NoDay .. FinalDay: Unspent(d) \in [Buckets -> Int]
  /\ \A d \in Dates, c \in Buckets:
       Unspent(d)[c] = Unspent(d - 1)[c] - Spent[d][c] + (IF c = d THEN Created[d] ELSE 0)
<1>1. ASSUME NEW d \in NoDay .. FinalDay, NEW c \in Buckets
      PROVE  /\ Unspent(d)[c] = (IF c <= d /\ c \in Dates THEN Created[c] ELSE 0) - Total(SpentFrom(c), 0 .. d)
             /\ (IF c <= d /\ c \in Dates THEN Created[c] ELSE 0) \in Int
             /\ Unspent(d)[c] \in Int
  <2>1. Unspent(d)[c] = (IF c <= d /\ c \in Dates THEN Created[c] ELSE 0) - Total(SpentFrom(c), 0 .. d)
    BY DEF Unspent
  <2>2. c \in Dates => Created[c] \in Int BY HolderAssumption
  <2>3. Total(SpentFrom(c), 0 .. d) \in Int BY SpentBy
  <2>. QED  BY <2>1, <2>2, <2>3
<1>2. ASSUME NEW d \in NoDay .. FinalDay PROVE Unspent(d) \in [Buckets -> Int]
  <2>1. Unspent(d) = [c \in Buckets |-> Unspent(d)[c]] BY DEF Unspent
  <2>. QED  BY <1>1, <2>1
<1>3. ASSUME NEW d \in Dates, NEW c \in Buckets
      PROVE  Unspent(d)[c] = Unspent(d - 1)[c] - Spent[d][c] + (IF c = d THEN Created[d] ELSE 0)
  <2>1. d \in NoDay .. FinalDay /\ d - 1 \in NoDay .. FinalDay /\ d \in Int /\ c \in Int
    BY BucketFacts DEF NoDay
  <2>. DEFINE made(n) == IF c <= n /\ c \in Dates THEN Created[c] ELSE 0
  <2>2. Created[d] \in Int /\ (c \in Dates => Created[c] \in Int) BY HolderAssumption
  <2>3. made(d) = made(d - 1) + (IF c = d THEN Created[d] ELSE 0) /\ made(d - 1) \in Int
    BY <2>1, <2>2
  <2>4. /\ Unspent(d)[c] = made(d) - Total(SpentFrom(c), 0 .. d)
        /\ Unspent(d - 1)[c] = made(d - 1) - Total(SpentFrom(c), 0 .. d - 1)
    BY <1>1, <2>1
  <2>5. /\ Total(SpentFrom(c), 0 .. d) = Spent[d][c] + Total(SpentFrom(c), 0 .. d - 1)
        /\ Total(SpentFrom(c), 0 .. d - 1) \in Int /\ Spent[d][c] \in Int
    BY <2>1, SpentBy, SpentType
  <2>. HIDE DEF made
  <2>. QED  BY <2>2, <2>3, <2>4, <2>5
<1>. QED  BY <1>2, <1>3

\* What the on-chain row of day d brings into a bucket.
Comes(kind, d, c) == IF c = d THEN CreatedIn(kind, d) ELSE 0

\* A day of the engine, as read: its spends go and what its row says was created comes in.
DayMoves(before, after, d, see) ==
  \A c \in Buckets: after[c] = before[c] - SpentIn(see.matrix, d)[c] + Comes(see.onchain[d], d, c)

\* What the identity check means: a day whose sum is right was right in every bucket, because
\* its spends are the chain's or none at all, and its row says what was created or one more.
LEMMA IdentityMeans ==
  ASSUME NEW d \in Dates, NEW see, NEW before \in [Buckets -> Int], NEW after \in [Buckets -> Int],
         DayMoves(before, after, d, see), IdentityHolds(before, after, d)
  PROVE  /\ CreatedIn(see.onchain[d], d) = Created[d]
         /\ \A c \in Buckets: SpentIn(see.matrix, d)[c] = Spent[d][c]
<1>. DEFINE sp == SpentIn(see.matrix, d)
            n == CreatedIn(see.onchain[d], d)
<1>1. n \in {Created[d], Created[d] + 1} /\ Created[d] \in Nat /\ n \in Int
  BY HolderAssumption DEF CreatedIn
<1>2. sp \in [Buckets -> Nat] /\ Spent[d] \in [Buckets -> Nat]
  <2>1. Spent[d] \in [Buckets -> Nat] BY HolderAssumption
  <2>. QED  BY <2>1, SpentType, Zenon
<1>3. Ints(before, Buckets) /\ Ints(sp, Buckets) BY <1>2 DEF Ints
<1>4. d \in Buckets /\ IsFiniteSet(Buckets) BY BucketFacts
<1>5. Total(after, Buckets) = Total(before, Buckets) - Total(sp, Buckets) + n
  <2>. HIDE DEF sp, n
  <2>1. Shifted(after, before, sp, d, n, Buckets) BY DEF sp, n, Shifted, Comes, DayMoves
  <2>2. n \in Int BY <1>1
  <2>3. Total(after, Buckets) = Total(before, Buckets) - Total(sp, Buckets) + (IF d \in Buckets THEN n ELSE 0)
    BY <1>3, <1>4, <2>1, <2>2, TotalMoved
  <2>. QED  BY <1>4, <2>3
<1>6. Total(after, Buckets) - Total(before, Buckets) = Created[d] - Total(Spent[d], Buckets)
  BY <1>2 DEF IdentityHolds, SumOf, Issued
<1>7. Total(before, Buckets) \in Int /\ Total(sp, Buckets) \in Nat /\ Total(Spent[d], Buckets) \in Nat
  BY <1>2, <1>3, <1>4, TotalInt, TotalBounds 
<1>8. Total(sp, Buckets) - n = Total(Spent[d], Buckets) - Created[d] BY <1>1, <1>5, <1>6, <1>7
<1>9. CASE d \in see.matrix
  <2>1. sp = Spent[d] BY <1>9 DEF SpentIn
  <2>. QED  BY <1>1, <1>7, <1>8, <2>1
<1>10. CASE d \notin see.matrix
  <2>1. sp = NothingSpent BY <1>10 DEF SpentIn
  <2>2. \A c \in Buckets: sp[c] = 0 BY <2>1 DEF NothingSpent
  <2>4. Total(sp, Buckets) = 0 BY <1>4, <2>2, TotalZero, Zenon
  <2>5. Total(Spent[d], Buckets) = 0 /\ n = Created[d] BY <1>1, <1>7, <1>8, <2>4
  <2>6. \A c \in Buckets: Spent[d][c] <= 0 /\ Spent[d][c] \in Nat
    BY <1>2, <1>4, <2>5, TotalBounds 
  <2>. QED  BY <2>2, <2>5, <2>6
<1>. QED  BY <1>9, <1>10

-----------------------------------------------------------------------------
(* The engine's loops *)

\* One more day of rolling forward takes the day's spends as read and adds its row's number.
LEMMA ForwardStep ==
  ASSUME NEW u \in [Buckets -> Int], NEW d0 \in NoDay .. FinalDay, NEW see, NEW d \in d0 .. FinalDay
  PROVE  /\ Forward(u, d0 + 1 .. d, see) \in [Buckets -> Int]
         /\ d = d0 => Forward(u, d0 + 1 .. d, see) = u
         /\ d > d0 => DayMoves(Forward(u, d0 + 1 .. d - 1, see), Forward(u, d0 + 1 .. d, see), d, see)
<1>1. d \in Int /\ d0 \in Int /\ 0 <= d0 + 1 /\ d0 <= d /\ d <= FinalDay /\ FinalDay \in Int
  BY BucketFacts DEF NoDay
<1>. DEFINE gone(c, n) == Total(Known(see.matrix, c), d0 + 1 .. n)
            made(c, n) == IF c \in d0 + 1 .. n THEN CreatedIn(see.onchain[c], c) ELSE 0
<1>2. ASSUME NEW c \in Buckets
      PROVE  /\ gone(c, d) \in Int
             /\ d = d0 => gone(c, d) = 0
             /\ d > d0 => gone(c, d) = SpentIn(see.matrix, d)[c] + gone(c, d - 1)
             /\ u[c] \in Int /\ made(c, d) \in Int
             /\ d = d0 => made(c, d) = 0
             /\ d > d0 => /\ made(c, d) = made(c, d - 1) + Comes(see.onchain[d], d, c)
                          /\ made(c, d - 1) \in Int /\ gone(c, d - 1) \in Int
                          /\ SpentIn(see.matrix, d)[c] \in Int
  <2>1. Daily(Known(see.matrix, c)) BY SpentType DEF Daily
  <2>2. d0 + 1 \in Int /\ d - 1 \in Int /\ d - 1 <= FinalDay BY <1>1
  <2>3. /\ gone(c, d) \in Int
        /\ d < d0 + 1 => gone(c, d) = 0
        /\ d0 + 1 <= d => gone(c, d) = Known(see.matrix, c)[d] + gone(c, d - 1)
    BY <1>1, <2>1, <2>2, ByDay
  <2>4. gone(c, d - 1) \in Int BY <1>1, <2>1, <2>2, ByDay
  <2>5. d > d0 => /\ d \in Dates /\ Known(see.matrix, c)[d] = SpentIn(see.matrix, d)[c]
                  /\ SpentIn(see.matrix, d)[c] \in Nat
    BY <1>1, BucketFacts, SpentType
  <2>6. \A e \in Dates: \A kind: CreatedIn(kind, e) \in Int BY HolderAssumption DEF CreatedIn
  <2>7. c \in Int /\ (c \in d0 + 1 .. d => c \in Dates) BY <1>1, BucketFacts
  <2>. HIDE DEF gone
  <2>. QED  BY <1>1, <2>3, <2>4, <2>5, <2>6, <2>7 DEF Comes
<1>3. \A c \in Buckets: /\ Forward(u, d0 + 1 .. d, see)[c] = u[c] - gone(c, d) + made(c, d)
                        /\ Forward(u, d0 + 1 .. d - 1, see)[c] = u[c] - gone(c, d - 1) + made(c, d - 1)
  BY DEF Forward
<1>4. Forward(u, d0 + 1 .. d, see) = [c \in Buckets |-> Forward(u, d0 + 1 .. d, see)[c]]
  BY DEF Forward
<1>. HIDE DEF gone, made
<1>5. Forward(u, d0 + 1 .. d, see) \in [Buckets -> Int] BY <1>2, <1>3, <1>4
<1>6. ASSUME d = d0 PROVE Forward(u, d0 + 1 .. d, see) = u
  <2>1. \A c \in Buckets: Forward(u, d0 + 1 .. d, see)[c] = u[c] BY <1>2, <1>3, <1>6
  <2>. QED  BY <1>4, <2>1
<1>7. ASSUME d > d0, NEW c \in Buckets
      PROVE  Forward(u, d0 + 1 .. d, see)[c] =
               Forward(u, d0 + 1 .. d - 1, see)[c] - SpentIn(see.matrix, d)[c]
                 + Comes(see.onchain[d], d, c)
  <2>1. Comes(see.onchain[d], d, c) \in Int
    BY <1>1, <1>7, BucketFacts, HolderAssumption DEF CreatedIn, Comes
  <2>2. /\ gone(c, d) = SpentIn(see.matrix, d)[c] + gone(c, d - 1)
        /\ made(c, d) = made(c, d - 1) + Comes(see.onchain[d], d, c)
    BY <1>2, <1>7
  <2>3. /\ gone(c, d - 1) \in Int /\ made(c, d - 1) \in Int /\ SpentIn(see.matrix, d)[c] \in Int
        /\ u[c] \in Int
    BY <1>2, <1>7
  <2>4. /\ Forward(u, d0 + 1 .. d, see)[c] = u[c] - gone(c, d) + made(c, d)
        /\ Forward(u, d0 + 1 .. d - 1, see)[c] = u[c] - gone(c, d - 1) + made(c, d - 1)
    BY <1>3
  <2>. QED  BY <1>1, <2>1, <2>2, <2>3, <2>4
<1>. QED  BY <1>5, <1>6, <1>7 DEF DayMoves

\* One more day back returns the day's spends and takes out its row's number.
LEMMA BackwardStep ==
  ASSUME NEW u \in [Buckets -> Int], NEW d0 \in NoDay .. FinalDay, NEW see, NEW d \in NoDay .. d0
  PROVE  /\ Backward(u, d + 1 .. d0, see) \in [Buckets -> Int]
         /\ d = d0 => Backward(u, d + 1 .. d0, see) = u
         /\ d \in Dates => DayMoves(Backward(u, d .. d0, see), Backward(u, d + 1 .. d0, see), d, see)
<1>1. d \in Int /\ d0 \in Int /\ 0 <= d + 1 /\ d <= d0 /\ d0 <= FinalDay /\ FinalDay \in Int
  BY BucketFacts DEF NoDay
<1>. DEFINE gone(c, n) == Total(Known(see.matrix, c), n .. d0)
            made(c, n) == IF c \in n .. d0 THEN CreatedIn(see.onchain[c], c) ELSE 0
<1>2. ASSUME NEW c \in Buckets
      PROVE  /\ gone(c, d + 1) \in Int
             /\ d = d0 => gone(c, d + 1) = 0
             /\ u[c] \in Int /\ made(c, d + 1) \in Int
             /\ d = d0 => made(c, d + 1) = 0
             /\ d \in Dates => /\ gone(c, d) = SpentIn(see.matrix, d)[c] + gone(c, d + 1)
                              /\ made(c, d) = made(c, d + 1) + Comes(see.onchain[d], d, c)
                              /\ made(c, d) \in Int /\ gone(c, d) \in Int
                              /\ SpentIn(see.matrix, d)[c] \in Int
  <2>1. Daily(Known(see.matrix, c)) BY SpentType DEF Daily
  <2>2. d + 1 \in Int BY <1>1
  <2>3. gone(c, d + 1) \in Int /\ (d0 < d + 1 => gone(c, d + 1) = 0)
    BY <1>1, <2>1, <2>2, ByDay
  <2>4. 0 <= d => gone(c, d) \in Int /\ gone(c, d) = Known(see.matrix, c)[d] + gone(c, d + 1)
    BY <1>1, <2>1, ByDay
  <2>5. d \in Dates => /\ 0 <= d /\ Known(see.matrix, c)[d] = SpentIn(see.matrix, d)[c]
                      /\ SpentIn(see.matrix, d)[c] \in Nat
    BY BucketFacts, SpentType
  <2>6. \A e \in Dates: \A kind: CreatedIn(kind, e) \in Int BY HolderAssumption DEF CreatedIn
  <2>7. c \in Int /\ (c \in d .. d0 => c \in Dates) /\ (d \in Dates => d >= 0) /\ 0 <= c
    BY <1>1, BucketFacts
  <2>. HIDE DEF gone
  <2>. QED  BY <1>1, <2>3, <2>4, <2>5, <2>6, <2>7 DEF Comes
<1>3. \A c \in Buckets: /\ Backward(u, d + 1 .. d0, see)[c] = u[c] + gone(c, d + 1) - made(c, d + 1)
                        /\ Backward(u, d .. d0, see)[c] = u[c] + gone(c, d) - made(c, d)
  BY DEF Backward
<1>4. Backward(u, d + 1 .. d0, see) = [c \in Buckets |-> Backward(u, d + 1 .. d0, see)[c]]
  BY DEF Backward
<1>. HIDE DEF gone, made
<1>5. Backward(u, d + 1 .. d0, see) \in [Buckets -> Int] BY <1>2, <1>3, <1>4
<1>6. ASSUME d = d0 PROVE Backward(u, d + 1 .. d0, see) = u
  <2>1. \A c \in Buckets: Backward(u, d + 1 .. d0, see)[c] = u[c] BY <1>2, <1>3, <1>6
  <2>. QED  BY <1>4, <2>1
<1>7. ASSUME d \in Dates, NEW c \in Buckets
      PROVE  Backward(u, d + 1 .. d0, see)[c] =
               Backward(u, d .. d0, see)[c] - SpentIn(see.matrix, d)[c]
                 + Comes(see.onchain[d], d, c)
  <2>1. Comes(see.onchain[d], d, c) \in Int
    BY <1>7, HolderAssumption DEF CreatedIn, Comes
  <2>2. /\ gone(c, d) = SpentIn(see.matrix, d)[c] + gone(c, d + 1)
        /\ made(c, d) = made(c, d + 1) + Comes(see.onchain[d], d, c)
    BY <1>2, <1>7
  <2>3. /\ gone(c, d + 1) \in Int /\ made(c, d + 1) \in Int /\ gone(c, d) \in Int /\ made(c, d) \in Int
        /\ SpentIn(see.matrix, d)[c] \in Int
        /\ u[c] \in Int
    BY <1>2, <1>7
  <2>4. /\ Backward(u, d + 1 .. d0, see)[c] = u[c] + gone(c, d + 1) - made(c, d + 1)
        /\ Backward(u, d .. d0, see)[c] = u[c] + gone(c, d) - made(c, d)
    BY <1>3
  <2>. DEFINE x == Backward(u, d + 1 .. d0, see)[c]
              y == Backward(u, d .. d0, see)[c]
              e == SpentIn(see.matrix, d)[c]
              k == Comes(see.onchain[d], d, c)
              n == u[c]
  <2>5. /\ x = n + gone(c, d + 1) - made(c, d + 1) /\ y = n + gone(c, d) - made(c, d)
        /\ gone(c, d) = e + gone(c, d + 1) /\ made(c, d) = made(c, d + 1) + k
        /\ n \in Int /\ e \in Int /\ k \in Int
    BY <2>1, <2>2, <2>3, <2>4
  <2>6. gone(c, d + 1) \in Int /\ made(c, d + 1) \in Int
    BY <2>3
  <2>. HIDE DEF x, y, e, k, n
  <2>7. x = y - e + k
    BY <2>5, <2>6
  <2>. QED  BY <2>7 DEF x, y, e, k
<1>. QED  BY <1>5, <1>6, <1>7 DEF DayMoves

\* The query's baseline with the correction is the unspent coins of the day before it, if the
\* pass has read that day's spends, or no block spends from a parent of the next day.
LEMMA BaselineExact ==
  ASSUME NEW t0 \in Dates, NEW mat, t0 - 1 \in mat => t0 - 1 \in Dates,
         t0 - 1 \in mat \/ NoBoundarySpend
  PROVE  InitFromBaseline(BaselineOf(t0), t0, SpentIn(mat, t0 - 1)) = Unspent(t0 - 1)
<1>. DEFINE sp == SpentIn(mat, t0 - 1)
            day == t0 - 1
<1>0. t0 \in Int /\ day \in NoDay .. FinalDay /\ (day \notin Dates => day = NoDay) /\ 0 <= t0 /\ day \in Int
      /\ day = t0 - 1 /\ t0 <= FinalDay /\ FinalDay \in Int /\ 0 <= t0 /\ t0 = day + 1
  BY BucketFacts DEF NoDay
<1>1. ASSUME NEW c \in Buckets, c >= t0 PROVE Unspent(day)[c] = 0 - sp[c]
  <2>0. c \in Int /\ 0 <= c BY BucketFacts
  <2>1. Unspent(day)[c] = 0 - Total(SpentFrom(c), 0 .. day)
    <3>1. ~(c <= day) BY <1>0, <1>1, <2>0
    <3>2. Unspent(day)[c] = (IF c <= day /\ c \in Dates THEN Created[c] ELSE 0) - Total(SpentFrom(c), 0 .. day)
      BY DEF Unspent
    <3>. QED  BY <3>1, <3>2
  <2>2. CASE day \notin Dates
    <3>1. Total(SpentFrom(c), 0 .. day) = 0 BY <1>0, <2>2, SpentBy
    <3>2. sp = NothingSpent BY <2>2 DEF SpentIn
    <3>. QED  BY <2>1, <3>1, <3>2 DEF NothingSpent
  <2>3. CASE day \in Dates
    <3>1. Total(SpentFrom(c), 0 .. day) = Spent[day][c] + Total(SpentFrom(c), 0 .. day - 1)
      BY <1>0, <2>3, SpentBy
    <3>2. Total(SpentFrom(c), 0 .. day - 1) = 0
      <4>1. IsFiniteSet(0 .. day - 1) BY <1>0, FS_Interval
      <4>2. \A e \in 0 .. day - 1: SpentFrom(c)[e] = 0
        <5>1. SUFFICES ASSUME NEW e \in 0 .. day - 1 PROVE SpentFrom(c)[e] = 0
          OBVIOUS
        <5>2. e \in Dates /\ c > e + 1 BY <1>0, <1>1, <2>0, BucketFacts
        <5>. QED  BY <5>2, HolderAssumption, SpentType
      <4>. QED  BY <4>1, <4>2, TotalZero
    <3>3. sp[c] = Spent[day][c]
      <4>1. CASE day \in mat BY <4>1 DEF SpentIn
      <4>2. CASE day \notin mat
        <5>1. sp[c] = 0 BY <4>2 DEF SpentIn, NothingSpent
        <5>2. Spent[day][day + 1] = 0 BY <4>2, <2>3 DEF NoBoundarySpend
        <5>3. c > day + 1 => Spent[day][c] = 0 BY <2>3, HolderAssumption
        <5>4. c > day + 1 \/ c = day + 1 BY <1>0, <1>1, <2>0
        <5>. QED  BY <5>1, <5>2, <5>3, <5>4
      <4>. QED  BY <4>1, <4>2
    <3>4. Spent[day][c] \in Int BY <2>3, SpentType
    <3>. QED  BY <2>1, <3>1, <3>2, <3>3, <3>4
  <2>. QED  BY <2>2, <2>3
<1>2. ASSUME NEW c \in Buckets
      PROVE  InitFromBaseline(BaselineOf(t0), t0, sp)[c] = Unspent(day)[c]
  <2>0. c \in Int BY BucketFacts
  <2>1. BaselineOf(t0)[c] = (IF c < t0 THEN Unspent(day)[c] ELSE 0) BY DEF BaselineOf
  <2>2. InitFromBaseline(BaselineOf(t0), t0, sp)[c] =
          IF c >= t0 THEN BaselineOf(t0)[c] - sp[c] ELSE BaselineOf(t0)[c]
    BY DEF InitFromBaseline
  <2>3. CASE c >= t0
    <3>1. BaselineOf(t0)[c] = 0 BY <1>0, <2>0, <2>1, <2>3
    <3>. QED  BY <1>1, <2>2, <2>3, <3>1
  <2>4. CASE ~(c >= t0)
    <3>1. c < t0 BY <1>0, <2>0, <2>4
    <3>. QED  BY <2>1, <2>2, <2>4, <3>1
  <2>. QED  BY <2>3, <2>4
<1>3. Unspent(day) = [c \in Buckets |-> Unspent(day)[c]] BY DEF Unspent
<1>4. InitFromBaseline(BaselineOf(t0), t0, sp) =
        [c \in Buckets |-> InitFromBaseline(BaselineOf(t0), t0, sp)[c]]
  BY DEF InitFromBaseline
<1>. HIDE DEF sp, day
<1>5. InitFromBaseline(BaselineOf(t0), t0, sp) = Unspent(day) BY <1>2, <1>3, <1>4
<1>. QED  BY <1>5 DEF sp, day

\* A published row is the state of its day, unless its check metrics are blocked.
RowFits(row, d) == row \in HolderRow /\ (row.blocked \in {"no", "price"} => row.u = Unspent(d))
RowsOf(r)       == \A d \in Dates: RowFits(r[d], d)

LEMMA NoRowFits == ASSUME NEW d PROVE RowFits(NoRow, d)
BY SpentType DEF HolderRow, NoRow, RowFits

LEMMA FailedRowFits ==
  ASSUME NEW d, NEW see, NEW u, u \in [Buckets -> Int]
  PROVE  RowFits(Checked(Row(d, u, see), FALSE), d)
BY DEF HolderRow, Checked, Row, RowFits

LEMMA PassedRowFits ==
  ASSUME NEW d, NEW see, NEW u, u \in [Buckets -> Int], u = Unspent(d)
  PROVE  RowFits(Checked(Row(d, u, see), TRUE), d)
BY DEF HolderRow, Checked, Row, RowFits

LEMMA UpsertExact ==
  ASSUME NEW old, NEW new, RowsOf(old), RowsOf(new)
  PROVE  RowsOf(Upsert(old, new))
BY DEF RowsOf, Upsert

\* A checked day that starts right ends right.
LEMMA DayExact ==
  ASSUME NEW d \in Dates, NEW see, NEW before \in [Buckets -> Int], NEW after \in [Buckets -> Int],
         DayMoves(before, after, d, see), IdentityHolds(before, after, d)
  PROVE  before = Unspent(d - 1) <=> after = Unspent(d)
<1>1. \A c \in Buckets: after[c] = before[c] - Spent[d][c] + (IF c = d THEN Created[d] ELSE 0)
  BY IdentityMeans DEF Comes, DayMoves
<1>2. \A c \in Buckets:
        Unspent(d)[c] = Unspent(d - 1)[c] - Spent[d][c] + (IF c = d THEN Created[d] ELSE 0)
  BY UnspentIs
<1>3. Unspent(d) \in [Buckets -> Int] /\ Unspent(d - 1) \in [Buckets -> Int]
  BY UnspentIs, BucketFacts DEF NoDay
<1>4. \A c \in Buckets: Spent[d][c] \in Int /\ (IF c = d THEN Created[d] ELSE 0) \in Int
  BY SpentType, HolderAssumption
<1>5. ASSUME before = Unspent(d - 1) PROVE after = Unspent(d)
  <2>1. \A c \in Buckets: after[c] = Unspent(d)[c] BY <1>1, <1>2, <1>5
  <2>. QED  BY <1>3, <2>1
<1>6. ASSUME after = Unspent(d) PROVE before = Unspent(d - 1)
  <2>1. \A c \in Buckets: before[c] = Unspent(d - 1)[c]
    <3>1. SUFFICES ASSUME NEW c \in Buckets PROVE before[c] = Unspent(d - 1)[c]
      OBVIOUS
    <3>2. before[c] - Spent[d][c] + (IF c = d THEN Created[d] ELSE 0) =
            Unspent(d - 1)[c] - Spent[d][c] + (IF c = d THEN Created[d] ELSE 0)
      BY <1>1, <1>2, <1>6
    <3>3. before[c] \in Int /\ Unspent(d - 1)[c] \in Int BY <1>3
    <3>. QED  BY <1>4, <3>2, <3>3
  <2>. QED  BY <1>3, <2>1
<1>. QED  BY <1>5, <1>6

\* Rolling an exact state forward ends in an exact state, and so does each of its days.
LEMMA RollForwardExact ==
  ASSUME NEW u, NEW d0 \in NoDay .. FinalDay, u = Unspent(d0), NEW target \in NoDay .. FinalDay, NEW see,
         NEW r, r = RollForward(u, d0, target, see)
  PROVE  /\ r.asOf \in d0 .. FinalDay /\ r.u = Unspent(r.asOf)
         /\ r.halted \in {NoDay} \cup Dates
         /\ RowsOf(r.rows)
<1>. DEFINE after(d) == Forward(u, d0 + 1 .. d, see)
            missing == {d \in d0 + 1 .. target: see.onchain[d] = "none"}
            failing == {d \in d0 + 1 .. target:
                          ~ /\ IdentityHolds(after(d - 1), after(d), d)
                            /\ see.onchain[d] # "overclaim"
                            /\ SignsHold(after(d), d)}
            last == IF missing \cup failing # {} THEN Min(missing \cup failing) - 1
                    ELSE IF target > d0 THEN target ELSE d0
            halt == IF last + 1 \in failing \ missing THEN last + 1 ELSE NoDay
<1>0. /\ r.u = after(last) /\ r.asOf = last /\ r.halted = halt
      /\ r.rows = [d \in Dates |->
                     IF d \in d0 + 1 .. last \/ d = halt
                     THEN Checked(Row(d, after(d), see), d # halt) ELSE NoRow]
  BY DEF RollForward
<1>. HIDE DEF after, missing, failing, last, halt
<1>1. d0 \in Int /\ target \in Int /\ FinalDay \in Int /\ -1 <= d0 /\ d0 <= FinalDay /\ target <= FinalDay /\ NoDay = -1
  BY BucketFacts DEF NoDay
<1>2. /\ last \in Int /\ d0 <= last /\ last <= FinalDay
      /\ \A d \in d0 + 1 .. last: d \notin failing /\ d \in d0 + 1 .. target
  <2>1. CASE missing \cup failing = {}
    <3>1. last = IF target > d0 THEN target ELSE d0 BY <2>1 DEF last
    <3>. QED  BY <1>1, <2>1, <3>1
  <2>2. CASE missing \cup failing # {}
    <3>1. last = Min(missing \cup failing) - 1 BY <2>2 DEF last
    <3>2. \A x \in missing \cup failing: x \in Int /\ d0 + 1 <= x /\ x <= target
      BY <1>1 DEF missing, failing
    <3>3. Min(missing \cup failing) \in missing \cup failing /\ \A y \in missing \cup failing: Min(missing \cup failing) <= y
      BY <1>1, <2>2, <3>2, MinIs
    <3>. QED  BY <1>1, <3>1, <3>2, <3>3
  <2>. QED  BY <2>1, <2>2
<1>3. halt \in {NoDay} \cup (d0 + 1 .. FinalDay)
  <2>1. \A d \in failing: d \in d0 + 1 .. FinalDay BY <1>1 DEF failing
  <2>. QED  BY <2>1 DEF halt
<1>4. ASSUME NEW d \in d0 + 1 .. last
      PROVE  d \in Dates /\ IdentityHolds(after(d - 1), after(d), d)
  <2>1. d \notin failing /\ d \in d0 + 1 .. target BY <1>2
  <2>2. d \in Dates BY <1>1, <2>1, BucketFacts
  <2>. QED  BY <2>1, <2>2 DEF failing
<1>5. u \in [Buckets -> Int] BY UnspentIs
<1>6. ASSUME NEW d \in d0 .. FinalDay PROVE after(d) \in [Buckets -> Int]
  BY <1>5, ForwardStep DEF after
<1>. DEFINE T == {n \in Nat: d0 + n <= last => after(d0 + n) = Unspent(d0 + n)}
<1>7. 0 \in T
  <2>1. d0 + 0 = d0 /\ d0 \in d0 .. FinalDay BY <1>1
  <2>2. after(d0) = u BY <1>5, <2>1, ForwardStep DEF after
  <2>. QED  BY <2>1, <2>2
<1>7a. ASSUME NEW d \in d0 + 1 .. last, after(d - 1) = Unspent(d - 1) PROVE after(d) = Unspent(d)
  <2>1. d \in d0 .. FinalDay /\ d - 1 \in d0 .. FinalDay /\ d > d0
    BY <1>1, <1>2
  <2>2. d \in Dates /\ IdentityHolds(after(d - 1), after(d), d)
    BY <1>4
  <2>3. after(d - 1) \in [Buckets -> Int] /\ after(d) \in [Buckets -> Int]
    BY <1>6, <2>1
  <2>4. DayMoves(after(d - 1), after(d), d, see)
    BY <1>5, <2>1, ForwardStep DEF after
  <2>. QED  BY <1>7a, <2>2, <2>3, <2>4, DayExact
<1>8. ASSUME NEW n \in T PROVE n + 1 \in T
  <2>1. SUFFICES ASSUME d0 + (n + 1) <= last PROVE after(d0 + (n + 1)) = Unspent(d0 + (n + 1))
    OBVIOUS
  <2>2. PICK d : d = d0 + (n + 1)
    OBVIOUS
  <2>3. n \in Nat /\ d - 1 = d0 + n /\ d0 + n <= last /\ d \in d0 + 1 .. last
    BY <1>1, <1>2, <2>1, <2>2
  <2>4. after(d - 1) = Unspent(d - 1)
    BY <2>3
  <2>. QED  BY <1>7a, <2>2, <2>3, <2>4
<1>9. T = Nat
  <2>. HIDE DEF T
  <2>1. T \in SUBSET Nat BY DEF T
  <2>. QED  BY <1>7, <1>8, <2>1, NatInduct
<1>10. ASSUME NEW d \in d0 .. last PROVE after(d) = Unspent(d)
  <2>1. d - d0 \in Nat /\ d0 + (d - d0) = d /\ d <= last
    BY <1>1, <1>2
  <2>2. d - d0 \in T BY <1>9, <2>1
  <2>. QED  BY <2>1, <2>2
<1>11. RowsOf(r.rows)
  <2>1. SUFFICES ASSUME NEW d \in Dates PROVE RowFits(r.rows[d], d)
    BY DEF RowsOf
  <2>2. CASE ~(d \in d0 + 1 .. last \/ d = halt)
    <3>1. r.rows[d] = NoRow BY <1>0, <2>2
    <3>. QED  BY <3>1, NoRowFits
  <2>3. CASE d = halt
    <3>1. d \in d0 .. FinalDay BY <1>1, <1>3, <2>3, BucketFacts
    <3>2. r.rows[d] = Checked(Row(d, after(d), see), FALSE) BY <1>0, <2>3
    <3>3. after(d) \in [Buckets -> Int] BY <1>6, <3>1
    <3>. QED  BY <3>2, <3>3, FailedRowFits, Zenon
  <2>4. CASE d \in d0 + 1 .. last /\ d # halt
    <3>1. d \in d0 .. last /\ d \in d0 .. FinalDay BY <1>1, <1>2, <2>4
    <3>2. r.rows[d] = Checked(Row(d, after(d), see), TRUE) BY <1>0, <2>4
    <3>3. after(d) \in [Buckets -> Int] /\ after(d) = Unspent(d) BY <1>6, <1>10, <3>1
    <3>. QED  BY <3>2, <3>3, PassedRowFits, Zenon
  <2>. QED  BY <2>2, <2>3, <2>4
<1>12. last \in d0 .. FinalDay /\ last \in d0 .. last
  <2>. QED  BY <1>1, <1>2
<1>13. halt \in {NoDay} \cup Dates
  BY <1>1, <1>3, BucketFacts
<1>. QED  BY <1>0, <1>10, <1>11, <1>12, <1>13

\* The reconstruction goes back through sound days only, so that each day it reaches is exact,
\* the one that fails its own checks included.
LEMMA ReconstructExact ==
  ASSUME NEW u, NEW d0 \in NoDay .. FinalDay, u = Unspent(d0), NEW see,
         NEW r, r = Reconstruct(u, d0, see)
  PROVE  RowsOf(r)
<1>. DEFINE after(d) == Backward(u, d + 1 .. d0, see)
            known(d) == see.onchain[d] # "none" /\ d \in see.matrix
            identity(d) == ~known(d) \/ IdentityHolds(after(d - 1), after(d), d)
            ends == {d \in 0 .. d0: ~known(d) \/ ~identity(d)}
            first == IF ends = {} THEN 0 ELSE Max(ends)
            ok(d) == identity(d) /\ see.onchain[d] # "overclaim" /\ SignsHold(after(d), d)
<1>0. r = [d \in Dates |-> IF d \in first .. d0 THEN Checked(Row(d, after(d), see), ok(d)) ELSE NoRow]
  BY DEF Reconstruct
<1>. HIDE DEF after, known, identity, ends, first, ok
<1>1. d0 \in Int /\ FinalDay \in Int /\ -1 <= d0 /\ d0 <= FinalDay /\ NoDay = -1
  BY BucketFacts DEF NoDay
<1>2. first \in Int /\ 0 <= first /\ \A d \in first + 1 .. d0: d \notin ends
  <2>1. CASE ends = {}
    BY <2>1 DEF first
  <2>2. CASE ends # {}
    <3>1. first = Max(ends)
      BY <2>2 DEF first
    <3>2. \A x \in ends: x \in Int /\ 0 <= x /\ x <= d0
      BY <1>1 DEF ends
    <3>3. Max(ends) \in ends /\ \A y \in ends: Max(ends) >= y
      BY <1>1, <2>2, <3>2, MaxIs
    <3>. QED  BY <1>1, <3>1, <3>2, <3>3
  <2>. QED  BY <2>1, <2>2
<1>3. ASSUME NEW d \in first + 1 .. d0
      PROVE  d \in Dates /\ IdentityHolds(after(d - 1), after(d), d)
  <2>1. d \notin ends /\ d \in 0 .. d0
    BY <1>1, <1>2
  <2>2. d \in Dates
    BY <1>1, <2>1, BucketFacts
  <2>. QED  BY <2>1, <2>2 DEF ends, identity
<1>4. u \in [Buckets -> Int]
  BY UnspentIs
<1>5. ASSUME NEW d \in NoDay .. d0 PROVE after(d) \in [Buckets -> Int]
  BY <1>4, BackwardStep DEF after
<1>6. ASSUME NEW d \in first + 1 .. d0, after(d) = Unspent(d) PROVE after(d - 1) = Unspent(d - 1)
  <2>1. d \in NoDay .. d0 /\ d - 1 \in NoDay .. d0 /\ d - 1 + 1 = d
    BY <1>1, <1>2
  <2>2. d \in Dates /\ IdentityHolds(after(d - 1), after(d), d)
    BY <1>3
  <2>3. after(d - 1) \in [Buckets -> Int] /\ after(d) \in [Buckets -> Int]
    BY <1>5, <2>1
  <2>4. DayMoves(after(d - 1), after(d), d, see)
    BY <1>4, <2>1, <2>2, BackwardStep DEF after
  <2>. QED  BY <1>6, <2>2, <2>3, <2>4, DayExact
<1>. DEFINE T == {n \in Nat: first <= d0 - n => after(d0 - n) = Unspent(d0 - n)}
<1>7. 0 \in T
  <2>1. d0 - 0 = d0 /\ d0 \in NoDay .. d0
    BY <1>1
  <2>2. after(d0) = u
    BY <1>4, <2>1, BackwardStep DEF after
  <2>. QED  BY <2>1, <2>2
<1>8. ASSUME NEW n \in T PROVE n + 1 \in T
  <2>1. SUFFICES ASSUME first <= d0 - (n + 1) PROVE after(d0 - (n + 1)) = Unspent(d0 - (n + 1))
    OBVIOUS
  <2>2. PICK d : d = d0 - n
    OBVIOUS
  <2>3. n \in Nat /\ d - 1 = d0 - (n + 1) /\ first <= d0 - n /\ d \in first + 1 .. d0
    BY <1>1, <1>2, <2>1, <2>2
  <2>4. after(d) = Unspent(d)
    BY <2>2, <2>3
  <2>. QED  BY <1>6, <2>3, <2>4
<1>9. T = Nat
  <2>. HIDE DEF T
  <2>1. T \in SUBSET Nat
    BY DEF T
  <2>. QED  BY <1>7, <1>8, <2>1, NatInduct
<1>10. ASSUME NEW d \in first .. d0 PROVE after(d) = Unspent(d)
  <2>1. d0 - d \in Nat /\ d0 - (d0 - d) = d /\ first <= d
    BY <1>1, <1>2
  <2>2. d0 - d \in T
    BY <1>9, <2>1
  <2>. QED  BY <2>1, <2>2
<1>11. ASSUME NEW d \in Dates PROVE RowFits(r[d], d)
  <2>1. CASE d \notin first .. d0
    <3>1. r[d] = NoRow
      BY <1>0, <2>1
    <3>. QED  BY <3>1, NoRowFits
  <2>2. CASE d \in first .. d0
    <3>1. after(d) \in [Buckets -> Int] /\ after(d) = Unspent(d)
      BY <1>1, <1>2, <1>5, <1>10, <2>2
    <3>2. CASE ok(d)
      <4>1. r[d] = Checked(Row(d, after(d), see), TRUE)
        BY <1>0, <2>2, <3>2 DEF Checked
      <4>. QED  BY <3>1, <4>1, PassedRowFits, Zenon
    <3>3. CASE ~ok(d)
      <4>1. r[d] = Checked(Row(d, after(d), see), FALSE)
        BY <1>0, <2>2, <3>3 DEF Checked
      <4>. QED  BY <3>1, <4>1, FailedRowFits, Zenon
    <3>. QED  BY <3>2, <3>3
  <2>. QED  BY <2>1, <2>2
<1>. QED  BY <1>11 DEF RowsOf

-----------------------------------------------------------------------------
(* The state is exact *)

InputsOK ==
  /\ dayNow \in Dates /\ priced \subseteq 0 .. dayNow - 1
  /\ onchain \in [Dates -> {"none", "ok", "created", "overclaim"}]
  /\ rollupCursor \in {NoDay} \cup Dates /\ rollupCursor < dayNow
  /\ coinageCursor \in {NoDay} \cup Dates /\ coinageCursor < dayNow
  /\ matrix \subseteq Dates /\ coinage \in [Dates -> {"none", "blocked", "priced"}]
BaseOK ==
  /\ planned \in {NoDay} \cup Dates /\ baseAsOf \in [Gens -> {NoDay} \cup Dates]
  /\ kept \subseteq Gens /\ pending \in {0} \cup Gens /\ meta \in {0} \cup Gens
  /\ GensInv
StateOK ==
  /\ utxo \in [Buckets -> Int] /\ asOf \in {NoDay} \cup Dates /\ gen \in {0} \cup Gens
  /\ RowsOf(rows) /\ (asOf # NoDay => utxo = Unspent(asOf))
PassOK ==
  /\ halted \in {NoDay} \cup Dates /\ m \in Passes
  /\ job \in {"idle", "pass", "prune"} /\ restarts \in 0 .. MaxRestarts

LEMMA ExactInvIs ==
  ExactInv <=> InputsOK /\ BaseOK /\ StateOK /\ PassOK /\ BaselineInv /\ BoundaryInv
BY DEF ExactInv, HolderTypeOK, InputsOK, BaseOK, StateOK, PassOK, StateExact, RowsOf, RowFits

\* The tables of the two jobs and the price feed.
LEMMA InputsInductive ==
  ASSUME InputsOK, PassOK, [HolderNext]_holderVars
  PROVE  InputsOK'
<1>. USE DEF InputsOK
<1>0. FinalDay \in Nat /\ dayNow \in 0 .. FinalDay /\ Dates \subseteq Int /\ NoDay = -1
      /\ rollupCursor \in Int /\ coinageCursor \in Int
  BY BucketFacts DEF NoDay
<1>1. ASSUME UNCHANGED <<inputs, coinage>> PROVE InputsOK'
  BY <1>1 DEF inputs
<1>2. CASE NewDay
  <2>1. dayNow' = dayNow + 1 /\ dayNow' \in Dates /\ priced' \subseteq 0 .. dayNow' - 1
    BY <1>0, <1>2, BucketFacts DEF NewDay
  <2>2. UNCHANGED <<onchain, rollupCursor, coinageCursor, matrix, coinage>>
    BY <1>2 DEF NewDay
  <2>. QED  BY <1>0, <2>1, <2>2
<1>3. CASE PricesArrive
  BY <1>3 DEF PricesArrive
<1>4. CASE StoreRollup
  <2>1. PICK to \in rollupCursor + 1 .. dayNow - 1, kind \in {"ok"} \cup BadKinds:
          /\ onchain' = [d \in Dates |-> IF d \in rollupCursor + 1 .. to - 1 THEN "ok"
                                        ELSE IF d = to THEN kind ELSE onchain[d]]
          /\ rollupCursor' = to
    BY <1>4 DEF StoreRollup
  <2>2. UNCHANGED <<dayNow, priced, coinageCursor, matrix, coinage>>
    BY <1>4 DEF StoreRollup
  <2>3. kind \in {"none", "ok", "created", "overclaim"}
    BY HolderAssumption
  <2>4. onchain' \in [Dates -> {"none", "ok", "created", "overclaim"}]
    BY <2>1, <2>3
  <2>5. to \in Dates /\ to < dayNow
    BY <1>0, BucketFacts
  <2>. QED  BY <2>1, <2>2, <2>4, <2>5
<1>5. CASE StoreCoinage
  <2>1. PICK to \in coinageCursor + 1 .. dayNow - 1:
          /\ matrix' = matrix \cup (coinageCursor + 1 .. to)
          /\ coinage' = [d \in Dates |-> IF d \in coinageCursor + 1 .. to THEN "blocked" ELSE coinage[d]]
          /\ coinageCursor' = to
    BY <1>5 DEF StoreCoinage
  <2>2. UNCHANGED <<dayNow, priced, onchain, rollupCursor>>
    BY <1>5 DEF StoreCoinage
  <2>3. to \in Dates /\ to < dayNow /\ coinageCursor + 1 .. to \subseteq Dates
    BY <1>0, BucketFacts
  <2>. QED  BY <2>1, <2>2, <2>3
<1>6. CASE Prune
  BY <1>6 DEF Prune
<1>7. CASE PlanBaseline \/ CommitBaseline
  BY <1>1, <1>7 DEF PlanBaseline, CommitBaseline
<1>8. ASSUME NEW caller \in {"loop", "job"}, Start(caller) PROVE InputsOK'
  BY <1>1, <1>8 DEF Start, Others
<1>9. CASE ReadStored \/ ReadPending \/ ReadBlocked \/ Finish \/ Abort \/ Restart
  BY <1>1, <1>9 DEF ReadStored, ReadPending, ReadBlocked, Finish, Abort, Restart, Others
<1>10. CASE ApplyBaseline \/ RollExisting
  <2>1. coinage' = Recomputed /\ UNCHANGED inputs
    BY <1>10 DEF ApplyBaseline, RollExisting
  <2>2. Recomputed \in [Dates -> {"none", "blocked", "priced"}]
    BY DEF Recomputed
  <2>. QED  BY <2>1, <2>2 DEF inputs
<1>11. CASE UNCHANGED holderVars
  BY <1>1, <1>11 DEF holderVars
<1>. QED
  BY <1>2, <1>3, <1>4, <1>5, <1>6, <1>7, <1>8, <1>9, <1>10, <1>11 DEF HolderNext, Pass

\* There are as many generations as may have been built.
LEMMA GensAre == Max(FirstGens) \in Nat /\ Gens = 1 .. Max(FirstGens) + MaxBuilt /\ MaxBuilt \in Nat
  /\ \A g \in FirstGens: g <= Max(FirstGens)
<1>1. IsFiniteSet(FirstGens) /\ (\A x \in FirstGens: x \in Int) /\ FirstGens # {} /\ MaxBuilt \in Nat
  BY HolderAssumption
<1>2. PICK hi \in Int: \A x \in FirstGens: x <= hi
  BY <1>1, FiniteIsBounded
<1>3. Max(FirstGens) \in FirstGens /\ \A y \in FirstGens: Max(FirstGens) >= y
  BY <1>1, <1>2, MaxIs
<1>. QED  BY <1>1, <1>3, HolderAssumption DEF Gens

LEMMA BaseInductive ==
  ASSUME InputsOK, BaseOK, BaselineInv, [HolderNext]_holderVars
  PROVE  BaseOK'
<1>. DEFINE gens == <<planned, built, baseAsOf, kept, meta>>
<1>0. ASSUME UNCHANGED gens, pending' \in {0, pending} PROVE BaseOK'
  BY <1>0 DEF BaseOK, GensInv
<1>1. CASE UNCHANGED holderVars \/ NewDay \/ PricesArrive \/ StoreRollup \/ StoreCoinage \/ Prune
           \/ ReadStored \/ ReadPending \/ ReadBlocked \/ RollExisting \/ Abort \/ Restart
           \/ \E caller \in {"loop", "job"}: Start(caller)
  <2>1. UNCHANGED base
    BY <1>1 DEF holderVars, NewDay, PricesArrive, StoreRollup, StoreCoinage, Prune, ReadStored, ReadPending,
                ReadBlocked, RollExisting, Abort, Restart, Start, Others
  <2>. QED  BY <1>0, <2>1 DEF base
<1>2. CASE ApplyBaseline
  BY <1>0, <1>2 DEF ApplyBaseline, PendingAfter
<1>3. CASE PlanBaseline
  <2>1. built < MaxBuilt /\ planned' = EndDate /\ UNCHANGED <<built, baseAsOf, kept, pending, meta>>
    BY <1>3 DEF PlanBaseline
  <2>2. EndDate \in Dates
    BY BucketFacts DEF EndDate, InputsOK, NoDay
  <2>. QED  BY <2>1, <2>2 DEF BaseOK, GensInv
<1>4. CASE CommitBaseline
  <2>1. NewGen = meta + 1
    BY NewGenIsNext
  <2>2. /\ planned # NoDay /\ planned' = NoDay /\ built' = built + 1 /\ pending' = NewGen /\ meta' = NewGen
        /\ kept' = kept \cup {NewGen} /\ baseAsOf' = [baseAsOf EXCEPT ![NewGen] = planned]
    BY <1>4 DEF CommitBaseline
  <2>3. /\ built \in Int /\ 0 <= built /\ built < MaxBuilt /\ meta <= Max(FirstGens) + built /\ meta \in Nat
        /\ Max(FirstGens) \in Int /\ MaxBuilt \in Int
    BY <2>2, GensAre DEF BaseOK, GensInv, BaselineInv
  <2>4. NewGen \in Gens /\ NewGen <= Max(FirstGens) + built' /\ built' \in 0 .. MaxBuilt
    BY <2>1, <2>2, <2>3, GensAre
  <2>5. baseAsOf' \in [Gens -> {NoDay} \cup Dates] /\ \A g \in kept': g \in Gens /\ baseAsOf'[g] # NoDay
    BY <2>2, <2>4 DEF BaseOK, GensInv
  <2>. QED  BY <2>2, <2>4, <2>5 DEF BaseOK, GensInv
<1>5. CASE Finish
  <2>1. UNCHANGED <<planned, built, baseAsOf, pending, meta>> /\ kept' \subseteq kept
    BY <1>5 DEF Finish, Surviving
  <2>. QED  BY <2>1 DEF BaseOK, GensInv
<1>. QED
  BY <1>1, <1>2, <1>3, <1>4, <1>5 DEF HolderNext, Pass

\* The two transactions leave an exact state, and name no day that is not one.
LEMMA ApplyExact ==
  ASSUME InputsOK, BaseOK, StateOK, PassOK, BoundaryInv, BoundaryStays \/ NoBoundarySpend, ApplyBaseline
  PROVE  StateOK' /\ \E day \in {NoDay} \cup Dates: m' = After(day)
<1>. DEFINE t0 == baseAsOf[m.pend]
            u0 == InitFromBaseline(BaselineOf(t0), t0, SpentIn(m.matrix, t0 - 1))
            fwd == RollForward(u0, t0 - 1, Target, m)
            back == Reconstruct(u0, t0 - 1, m)
<1>1. /\ m.pc = "commit" /\ m.pend # 0 /\ m.pend \in kept /\ gen' = m.pend
      /\ utxo' = fwd.u /\ asOf' = fwd.asOf
      /\ rows' = Upsert(rows, Upsert(back, fwd.rows))
      /\ m' = After(fwd.halted)
  BY DEF ApplyBaseline, At
<1>2. m.pend \in Gens /\ t0 \in Dates
  BY <1>1 DEF BaseOK, GensInv
<1>3. t0 - 1 \in NoDay .. FinalDay /\ t0 - 1 \in Int /\ Target \in NoDay .. FinalDay
  BY <1>2, BucketFacts DEF NoDay, InputsOK, Target
<1>4. m.matrix \subseteq Dates
  BY DEF PassOK, Passes
<1>5. t0 - 1 \in m.matrix \/ NoBoundarySpend
  BY <1>1 DEF BoundaryInv
<1>6. u0 = Unspent(t0 - 1)
  BY <1>2, <1>4, <1>5, BaselineExact
<1>. HIDE DEF t0, u0
<1>7. /\ fwd.asOf \in t0 - 1 .. FinalDay /\ fwd.u = Unspent(fwd.asOf)
      /\ fwd.halted \in {NoDay} \cup Dates /\ RowsOf(fwd.rows)
  BY <1>3, <1>6, RollForwardExact
<1>8. RowsOf(back)
  BY <1>3, <1>6, ReconstructExact
<1>. HIDE DEF fwd, back
<1>9. RowsOf(rows')
  <2>1. RowsOf(Upsert(back, fwd.rows))
    BY <1>7, <1>8, UpsertExact
  <2>. QED  BY <1>1, <2>1, UpsertExact DEF StateOK
<1>10. asOf' \in {NoDay} \cup Dates /\ asOf' \in NoDay .. FinalDay
  BY <1>1, <1>3, <1>7, BucketFacts DEF NoDay
<1>11. utxo' = Unspent(asOf') /\ utxo' \in [Buckets -> Int]
  BY <1>1, <1>7, <1>10, UnspentIs
<1>. QED  BY <1>1, <1>2, <1>7, <1>9, <1>10, <1>11 DEF StateOK

LEMMA RollExact ==
  ASSUME InputsOK, StateOK, RollExisting
  PROVE  StateOK' /\ (m' = NoPass \/ \E day \in {NoDay} \cup Dates: m' = After(day))
<1>1. CASE NothingToRoll
  <2>1. UNCHANGED <<utxo, asOf, gen, rows>> /\ m' = NoPass
    BY <1>1 DEF RollExisting
  <2>. QED  BY <2>1 DEF StateOK
<1>2. CASE ~NothingToRoll
  <2>. DEFINE fwd == RollForward(utxo, asOf, Target, m)
  <2>1. /\ utxo' = fwd.u /\ asOf' = fwd.asOf /\ rows' = Upsert(rows, fwd.rows) /\ gen' = gen
        /\ m' = After(fwd.halted) \/ m' = NoPass
    BY <1>2 DEF RollExisting
  <2>2. asOf # NoDay /\ asOf \in NoDay .. FinalDay /\ Target \in NoDay .. FinalDay
    BY <1>2, BucketFacts DEF NoDay, InputsOK, StateOK, Target, NothingToRoll
  <2>3. /\ fwd.asOf \in asOf .. FinalDay /\ fwd.u = Unspent(fwd.asOf)
        /\ fwd.halted \in {NoDay} \cup Dates /\ RowsOf(fwd.rows)
    BY <2>2, RollForwardExact DEF StateOK
  <2>. HIDE DEF fwd
  <2>4. RowsOf(rows')
    BY <2>1, <2>3, UpsertExact DEF StateOK
  <2>5. asOf' \in {NoDay} \cup Dates /\ asOf' \in NoDay .. FinalDay
    BY <2>1, <2>2, <2>3, BucketFacts DEF NoDay
  <2>6. utxo' = Unspent(asOf') /\ utxo' \in [Buckets -> Int]
    BY <2>1, <2>3, <2>5, UnspentIs
  <2>. QED  BY <2>1, <2>3, <2>4, <2>5, <2>6 DEF StateOK
<1>. QED  BY <1>1, <1>2

\* Everything else leaves the state alone.
LEMMA StateInductive ==
  ASSUME InputsOK, BaseOK, StateOK, PassOK, BoundaryInv, BoundaryStays \/ NoBoundarySpend, [HolderNext]_holderVars
  PROVE  StateOK'
<1>1. ASSUME UNCHANGED <<utxo, asOf, gen, rows>> PROVE StateOK'
  BY <1>1 DEF StateOK
<1>2. CASE UNCHANGED holderVars \/ NewDay \/ PricesArrive \/ StoreRollup \/ StoreCoinage \/ Prune
           \/ PlanBaseline \/ CommitBaseline
           \/ ReadStored \/ ReadPending \/ ReadBlocked \/ Finish \/ Abort \/ Restart
           \/ \E caller \in {"loop", "job"}: Start(caller)
  BY <1>1, <1>2 DEF holderVars, NewDay, PricesArrive, StoreRollup, StoreCoinage, Prune, PlanBaseline,
                    CommitBaseline, ReadStored, ReadPending, ReadBlocked, Finish, Abort, Restart, Start,
                    Others, state
<1>3. CASE ApplyBaseline
  BY <1>3, ApplyExact
<1>4. CASE RollExisting
  BY <1>4, RollExact
<1>. QED  BY <1>2, <1>3, <1>4 DEF HolderNext, Pass

\* The maintenance pass itself.
LEMMA IdleIs == NoPass \in Passes /\ NoPass.pc = "idle"
BY DEF NoPass, Passes

LEMMA AfterIs ==
  ASSUME m \in Passes, NEW day \in {NoDay} \cup Dates
  PROVE  After(day) \in Passes /\ After(day).pc = "after"
BY DEF After, NoPass, Passes

LEMMA PassInductive ==
  ASSUME InputsOK, BaseOK, StateOK, PassOK, BoundaryInv, BoundaryStays \/ NoBoundarySpend, [HolderNext]_holderVars
  PROVE  PassOK'
<1>. USE DEF PassOK
<1>0. ASSUME m' \in Passes, halted' \in {halted, m.halted}, restarts' \in 0 .. MaxRestarts,
             job' \in {job, "idle", "pass", "prune"}
      PROVE  PassOK'
  BY <1>0 DEF Passes
<1>00. Ended \in {job, "prune"}
  BY DEF Ended
<1>1. CASE UNCHANGED holderVars \/ NewDay \/ PricesArrive \/ StoreRollup \/ StoreCoinage \/ Prune \/ CommitBaseline
  BY <1>0, <1>1 DEF holderVars, NewDay, PricesArrive, StoreRollup, StoreCoinage, Prune, CommitBaseline, state
<1>2. CASE PlanBaseline
  <2>1. m' \in Passes
    BY <1>2 DEF PlanBaseline, Passes
  <2>. QED  BY <1>0, <1>2, <2>1 DEF PlanBaseline, state
<1>3. ASSUME NEW caller \in {"loop", "job"}, Start(caller) PROVE PassOK'
  <2>1. priced \subseteq Dates
    BY BucketFacts DEF InputsOK
  <2>2. m' \in Passes
    BY <1>3, <2>1, IdleIs DEF Start, Passes
  <2>. QED  BY <1>0, <1>3, <2>2 DEF Start, Others, state
<1>4. CASE ReadStored
  <2>1. m' \in Passes
    BY <1>4 DEF ReadStored, Passes, InputsOK, Complete
  <2>. QED  BY <1>0, <1>4, <2>1 DEF ReadStored, Others, state
<1>5. CASE ReadPending
  <2>1. m' \in Passes
    BY <1>5 DEF ReadPending, Passes, BaseOK
  <2>. QED  BY <1>0, <1>5, <2>1 DEF ReadPending, Others, state
<1>6. CASE ReadBlocked
  <2>1. m' \in Passes
    BY <1>6 DEF ReadBlocked, Passes, BaseOK, ActiveBaseline
  <2>. QED  BY <1>0, <1>6, <2>1 DEF ReadBlocked, Others, state
<1>7. CASE ApplyBaseline
  <2>1. m' \in Passes
    BY <1>7, ApplyExact, AfterIs
  <2>. QED  BY <1>0, <1>7, <2>1 DEF ApplyBaseline
<1>8. CASE RollExisting
  <2>1. m' \in Passes
    BY <1>8, RollExact, AfterIs, IdleIs
  <2>2. job' \in {job, Ended} /\ UNCHANGED <<halted, restarts>>
    BY <1>8 DEF RollExisting
  <2>. QED  BY <1>0, <1>00, <2>1, <2>2
<1>9. CASE Finish \/ Abort
  BY <1>0, <1>00, <1>9, IdleIs DEF Finish, Abort, Others, state
<1>10. CASE Restart
  <2>1. restarts' \in 0 .. MaxRestarts
    BY <1>10, HolderAssumption DEF Restart
  <2>. QED  BY <1>0, <1>10, <2>1, IdleIs DEF Restart, state
<1>. QED
  BY <1>1, <1>2, <1>3, <1>4, <1>5, <1>6, <1>7, <1>8, <1>9, <1>10 DEF HolderNext, Pass

\* What a baseline's boundary needs is there: planned at the cursor, its day's spends are stored,
\* not pruned for as long as the model runs, and read by every pass that may see it.
Reads == m.pc \in {"pending", "blocked", "commit"}

LEMMA BoundaryInductive ==
  ASSUME InputsOK, BaseOK, PassOK, BaselineInv, BoundaryInv, [HolderNext]_holderVars
  PROVE  BoundaryInv'
<1>. DEFINE First == FirstStored .. coinageCursor
            Stored == FirstStored <= coinageCursor /\ First \subseteq matrix
            Asked == /\ \A g \in kept: baseAsOf[g] - 1 \in First
                     /\ planned # NoDay => planned - 1 \in First
            Read == Reads => /\ \A g \in kept: baseAsOf[g] - 1 \in m.matrix
                             /\ planned # NoDay /\ ~m.older => planned - 1 \in m.matrix
<1>0. SUFFICES ASSUME BoundaryStays PROVE Stored' /\ Asked' /\ Read'
  BY DEF BoundaryInv, Reads
<1>1. Stored /\ Asked /\ Read
  BY <1>0 DEF BoundaryInv, Reads
<1>2. /\ FirstStored \in Int /\ coinageCursor \in Int /\ NoDay = -1 /\ FinalDay \in Int /\ Retain \in Int
      /\ dayNow <= FinalDay /\ coinageCursor < dayNow /\ FirstStored # NoDay /\ dayNow \in Int
      /\ FinalDay - FirstStored <= Retain /\ coinageCursor # NoDay /\ 0 <= FirstStored
  BY <1>0, <1>1, BucketFacts, HolderAssumption DEF BoundaryStays, InputsOK, NoDay
<1>3. Reads => m.pc # "idle" /\ m # NoPass
  BY IdleIs DEF Reads
<1>. DEFINE data == <<coinageCursor, matrix, baseAsOf, kept, planned>>
<1>4. ASSUME UNCHANGED data, Reads' => Reads /\ m'.matrix = m.matrix /\ m'.older = m.older
      PROVE  Stored' /\ Asked' /\ Read'
  BY <1>1, <1>4
<1>5. CASE UNCHANGED holderVars \/ NewDay \/ PricesArrive \/ StoreRollup
  BY <1>4, <1>5 DEF holderVars, base, inputs, NewDay, PricesArrive, StoreRollup, Reads
<1>6. CASE StoreCoinage
  <2>1. PICK to \in coinageCursor + 1 .. dayNow - 1:
          matrix' = matrix \cup (coinageCursor + 1 .. to) /\ coinageCursor' = to
    BY <1>6 DEF StoreCoinage
  <2>2. UNCHANGED <<baseAsOf, kept, planned, m>>
    BY <1>6 DEF StoreCoinage, base
  <2>3. FirstStored <= coinageCursor' /\ First \subseteq First'
    BY <1>1, <1>2, <2>1
  <2>4. First' \subseteq matrix'
    BY <1>1, <1>2, <2>1
  <2>. QED  BY <1>1, <2>2, <2>3, <2>4 DEF Reads
<1>7. CASE Prune
  <2>1. /\ UNCHANGED <<coinageCursor, baseAsOf, kept, planned, m>>
        /\ matrix' = {d \in matrix: ~(/\ d < coinageCursor + 1 - Retain
                                      /\ (asOf = NoDay \/ d <= asOf))}
    BY <1>7 DEF Prune, base
  <2>2. \A d \in First: ~(d < coinageCursor + 1 - Retain)
    BY <1>2
  <2>3. First \subseteq matrix'
    BY <1>1, <2>1, <2>2
  <2>. QED  BY <1>1, <2>1, <2>3 DEF Reads
<1>8. CASE PlanBaseline
  <2>1. /\ UNCHANGED <<coinageCursor, matrix, baseAsOf, kept>> /\ planned' = coinageCursor + 1
        /\ m' = IF m.pc = "idle" THEN m ELSE [m EXCEPT !.older = TRUE]
    BY <1>2, <1>8 DEF PlanBaseline, EndDate, inputs
  <2>2. planned' - 1 \in First
    BY <1>1, <1>2, <2>1
  <2>3. m'.pc = m.pc /\ m'.matrix = m.matrix /\ (m.pc # "idle" => m'.older)
    BY <2>1 DEF PassOK, Passes
  <2>. QED  BY <1>1, <1>3, <2>1, <2>2, <2>3 DEF Reads
<1>9. CASE CommitBaseline
  <2>1. /\ planned # NoDay /\ ~m.older /\ planned' = NoDay
        /\ kept' = kept \cup {NewGen} /\ baseAsOf' = [baseAsOf EXCEPT ![NewGen] = planned]
        /\ UNCHANGED <<coinageCursor, matrix, m>>
    BY <1>9 DEF CommitBaseline, inputs
  <2>2. NewGen \in Gens /\ kept \subseteq Gens /\ DOMAIN baseAsOf = Gens
    BY <2>1, BaseInductive DEF BaseOK
  <2>3. \A g \in kept': baseAsOf'[g] = planned \/ (g \in kept /\ baseAsOf'[g] = baseAsOf[g])
    BY <2>1, <2>2
  <2>. QED  BY <1>1, <2>1, <2>3 DEF Reads
<1>10. ASSUME NEW caller \in {"loop", "job"}, Start(caller) PROVE Stored' /\ Asked' /\ Read'
  <2>1. m'.pc = "stored"
    BY <1>10 DEF Start, NoPass
  <2>2. UNCHANGED data
    BY <1>10 DEF Start, Others, inputs, base
  <2>. QED  BY <1>4, <2>1, <2>2 DEF Reads
<1>11. CASE ReadStored
  <2>1. UNCHANGED data /\ m'.matrix = matrix
    BY <1>11 DEF ReadStored, Others, inputs, base, PassOK, Passes
  <2>. QED  BY <1>1, <2>1
<1>12. CASE ReadPending \/ ReadBlocked
  <2>1. UNCHANGED data /\ m'.matrix = m.matrix /\ m'.older = m.older /\ Reads
    BY <1>12 DEF ReadPending, ReadBlocked, Others, inputs, base, PassOK, Passes, Reads, At
  <2>. QED  BY <1>4, <2>1
<1>13. CASE ApplyBaseline \/ RollExisting
  <2>1. UNCHANGED data
    BY <1>13 DEF ApplyBaseline, RollExisting, inputs, base
  <2>2. m' = NoPass \/ \E day : m' = After(day)
    BY <1>13 DEF ApplyBaseline, RollExisting
  <2>3. ~Reads'
    BY <2>2, IdleIs DEF Reads, After, NoPass
  <2>. QED  BY <1>4, <2>1, <2>3
<1>14. CASE Finish
  <2>1. UNCHANGED <<coinageCursor, matrix, baseAsOf, planned>> /\ kept' \subseteq kept /\ m' = NoPass
    BY <1>14 DEF Finish, inputs, Surviving
  <2>. QED  BY <1>1, <2>1, IdleIs DEF Reads
<1>15. CASE Abort \/ Restart
  <2>1. UNCHANGED data /\ m' = NoPass
    BY <1>15 DEF Abort, Restart, Others, inputs, base
  <2>. QED  BY <1>4, <2>1, IdleIs DEF Reads
<1>. QED
  BY <1>5, <1>6, <1>7, <1>8, <1>9, <1>10, <1>11, <1>12, <1>13, <1>14, <1>15 DEF HolderNext, Pass

LEMMA ExactInductive ==
  ASSUME ExactInv, BoundaryStays \/ NoBoundarySpend, [HolderNext]_holderVars
  PROVE  ExactInv'
<1>1. InputsOK /\ BaseOK /\ StateOK /\ PassOK /\ BaselineInv /\ BoundaryInv
  BY ExactInvIs
<1>2. MShape
  BY <1>1, IdleIs DEF MShape, IsPass, PassOK, Passes
<1>3. InputsOK' /\ BaseOK' /\ StateOK' /\ PassOK' /\ BaselineInv' /\ BoundaryInv'
  BY <1>1, <1>2, InputsInductive, BaseInductive, StateInductive, PassInductive, BaselineInductive,
     BoundaryInductive
<1>. QED  BY <1>3, ExactInvIs, PTL

LEMMA ExactInitially == ASSUME HolderInit PROVE ExactInv
<1>0. /\ FirstStored \in Int /\ FinalDay \in Int /\ NoDay = -1 /\ NoDay <= FirstStored /\ FirstStored < FinalDay
      /\ FirstStored + 1 \in Dates /\ FirstStored \in {NoDay} \cup Dates
      /\ FirstStored \in NoDay .. FinalDay /\ 0 .. FirstStored \subseteq Dates
  BY HolderAssumption, BucketFacts DEF NoDay
<1>1. InputsOK
  BY <1>0 DEF HolderInit, InputsOK
<1>2. BaselineInv
  BY BaselineInitially
<1>3. gen \in Nat /\ gen <= Max(FirstGens) /\ meta = gen /\ pending = 0 /\ planned = NoDay /\ built = 0
  BY GensAre, HolderAssumption DEF HolderInit
<1>4. kept = {g \in 1 .. gen: g >= gen - 1}
  BY DEF HolderInit
<1>5. kept \subseteq Gens /\ gen \in {0} \cup Gens
  BY <1>3, <1>4, GensAre
<1>6. baseAsOf = [g \in Gens |-> IF g \in kept THEN FirstStored + 1 ELSE NoDay]
  BY DEF HolderInit
<1>7. BaseOK
  <2>1. GensInv
    BY <1>0, <1>3, <1>5, <1>6, GensAre DEF GensInv
  <2>. QED  BY <1>0, <1>3, <1>5, <1>6, <2>1 DEF BaseOK
<1>8. StateOK
  <2>1. Unspent(FirstStored) \in [Buckets -> Int] /\ NothingSpent \in [Buckets -> Int]
    BY <1>0, UnspentIs, SpentType
  <2>2. RowsOf(rows)
    <3>1. CASE gen = 0
      <4>1. rows = [d \in Dates |-> NoRow]
        BY <3>1 DEF HolderInit
      <4>. QED  BY <4>1, NoRowFits DEF RowsOf
    <3>2. CASE gen # 0
      <4>1. rows = [d \in Dates |-> IF d = FirstStored
                                   THEN [u |-> Unspent(d), blocked |-> IF Prices THEN "price" ELSE "no"]
                                   ELSE NoRow]
        BY <3>2 DEF HolderInit
      <4>2. RowFits([u |-> Unspent(FirstStored), blocked |-> IF Prices THEN "price" ELSE "no"], FirstStored)
        BY <2>1 DEF RowFits, HolderRow
      <4>. QED  BY <4>1, <4>2, NoRowFits DEF RowsOf
    <3>. QED  BY <3>1, <3>2
  <2>3. /\ asOf = IF gen = 0 THEN NoDay ELSE FirstStored
        /\ utxo = IF gen = 0 THEN NothingSpent ELSE Unspent(FirstStored)
    BY DEF HolderInit
  <2>. QED  BY <1>0, <1>5, <2>1, <2>2, <2>3 DEF StateOK
<1>9. PassOK
  BY IdleIs, HolderAssumption DEF HolderInit, PassOK
<1>10. BoundaryInv
  <2>1. coinageCursor = FirstStored /\ matrix = 0 .. FirstStored /\ m = NoPass
    BY DEF HolderInit
  <2>2. \A g \in kept: baseAsOf[g] - 1 = FirstStored
    BY <1>0, <1>5, <1>6
  <2>. QED  BY <1>0, <1>3, <2>1, <2>2, IdleIs DEF BoundaryInv, BoundaryStays
<1>. QED  BY <1>1, <1>2, <1>7, <1>8, <1>9, <1>10, ExactInvIs

\* The stored state is the set of unspent coins of its day to the last sat, and so is every
\* published row whose checks passed, for every chain and every interleaving of the jobs, the
\* baselines, the pruning, the price feed and the starts again, as long as the spends of the day
\* before a baseline are not pruned while it may be applied or no block spends ahead of its date.
THEOREM StateIsExact ==
  BoundaryStays \/ NoBoundarySpend => (HolderSpec => []StateExact)
<1>. SUFFICES ASSUME BoundaryStays \/ NoBoundarySpend PROVE HolderSpec => []StateExact
  OBVIOUS
<1>1. HolderInit => ExactInv
  BY ExactInitially
<1>2. ExactInv /\ [HolderNext]_holderVars => ExactInv'
  BY ExactInductive
<1>3. ExactInv => StateExact
  BY DEF ExactInv
<1>. QED  BY <1>1, <1>2, <1>3, PTL DEF HolderSpec

\* The variables keep their types, which the sums and rows of the engine need the exact
\* state for.
THEOREM HolderTypes ==
  BoundaryStays \/ NoBoundarySpend => (HolderSpec => []HolderTypeOK)
<1>. SUFFICES ASSUME BoundaryStays \/ NoBoundarySpend PROVE HolderSpec => []HolderTypeOK
  OBVIOUS
<1>1. HolderInit => ExactInv
  BY ExactInitially
<1>2. ExactInv /\ [HolderNext]_holderVars => ExactInv'
  BY ExactInductive
<1>3. ExactInv => HolderTypeOK
  BY DEF ExactInv
<1>. QED  BY <1>1, <1>2, <1>3, PTL DEF HolderSpec

================================================================================
