------------------------------- MODULE SumProofs -------------------------------
(***************************************************************************)
(* Induction over numbers and finite sets, sums, minima and maxima, for the *)
(* proofs about data.  The induction theorems of the library have operator *)
(* parameters; that the naturals are well-founded has none, and gives       *)
(* induction over a set of naturals and over a set of subsets.              *)
(***************************************************************************)
EXTENDS Sums, TLAPS, WellFoundedInduction, FiniteSetTheorems

-----------------------------------------------------------------------------
(* Induction *)

\* Every set of naturals that is not empty has a least element.
LEMMA LeastNatural == ASSUME NEW T \in SUBSET Nat, T # {} PROVE \E n \in T: \A k \in T: n <= k
<1> DEFINE R == {ss \in Nat \X Nat: ss[1] < ss[2]}
<1>1. IsWellFoundedOn(R, Nat) BY NatLessThanWellFounded DEF OpToRel
<1>2. \A k \in Nat, n \in Nat: <<k, n>> \in R <=> k < n OBVIOUS
<1> HIDE DEF R
<1>3. PICK n \in T: \A k \in T: ~(<<k, n>> \in R) BY <1>1, WFMin
<1>4. \A k \in T: ~(k < n) BY <1>2, <1>3
<1> QED BY <1>3, <1>4

\* Induction over the naturals, for a set instead of a predicate.
LEMMA NatInduct == ASSUME NEW T \in SUBSET Nat, 0 \in T, \A n \in T: n + 1 \in T PROVE T = Nat
<1>1. SUFFICES ASSUME Nat \ T # {} PROVE FALSE OBVIOUS
<1>2. PICK n \in Nat \ T: \A k \in Nat \ T: n <= k BY <1>1, LeastNatural
<1>3. n # 0 /\ n - 1 \in Nat BY <1>2
<1>4. n - 1 \in T BY <1>2, <1>3
<1>5. (n - 1) + 1 \in T BY <1>4
<1> QED BY <1>2, <1>5

\* one step of the fold
AnElement(s) == CHOOSE x \in s: TRUE
FoldStep(f, g, s) == IF s = {} THEN 0 ELSE f[AnElement(s)] + g[s \ {AnElement(s)}]
IsFold(f, g, S) == g = [s \in SUBSET S |-> FoldStep(f, g, s)]

\* The sum is the value at S of a function that folds one element at a time.
LEMMA TotalDef == ASSUME NEW f, NEW S PROVE Total(f, S) = (CHOOSE g: IsFold(f, g, S))[S]
BY DEF Total, MapThenSumSet, MapThenFoldSet, IsFold, FoldStep, AnElement


Ints(f, S) == \A x \in S: f[x] \in Int

\* The element that the fold takes next is one of the set.
LEMMA PickIn == ASSUME NEW s, s # {} PROVE AnElement(s) \in s
BY DEF AnElement

\* Subsets of a finite set are finite, and smaller without an element.
LEMMA Subsets == ASSUME NEW S, IsFiniteSet(S), NEW s \in SUBSET S
  PROVE /\ IsFiniteSet(s) /\ Cardinality(s) \in Nat /\ Cardinality(s) <= Cardinality(S)
        /\ Cardinality(s) = 0 <=> s = {}
        /\ \A x \in s: Cardinality(s \ {x}) = Cardinality(s) - 1
BY FS_Subset, FS_CardinalityType, FS_RemoveElement, FS_EmptySet

\* That function exists: it is built up by the size of the subsets.
LEMMA FoldExists ==
  ASSUME NEW f, NEW S, IsFiniteSet(S), Ints(f, S)
  PROVE \E g \in [SUBSET S -> Int]: IsFold(f, g, S)
<1> DEFINE Upto(n, g) == \A s \in SUBSET S: Cardinality(s) <= n => g[s] = FoldStep(f, g, s)
           T == {n \in Nat: \E g \in [SUBSET S -> Int]: Upto(n, g)}
<1>1. 0 \in T
  <2>1. Upto(0, [s \in SUBSET S |-> 0]) BY Subsets DEF FoldStep
  <2>2. [s \in SUBSET S |-> 0] \in [SUBSET S -> Int] OBVIOUS
  <2> HIDE DEF Upto
  <2> QED BY <2>1, <2>2
<1>2. ASSUME NEW n \in T PROVE n + 1 \in T
  <2>1. PICK g \in [SUBSET S -> Int]: Upto(n, g) OBVIOUS
  <2> DEFINE h == [s \in SUBSET S |-> IF Cardinality(s) = n + 1 THEN FoldStep(f, g, s) ELSE g[s]]
  <2>2. \A s \in SUBSET S: FoldStep(f, g, s) \in Int BY PickIn DEF FoldStep, Ints
  <2>3. h \in [SUBSET S -> Int] BY <2>2
  <2>4. ASSUME NEW s \in SUBSET S, Cardinality(s) <= n + 1 PROVE h[s] = FoldStep(f, h, s)
    <3>1. FoldStep(f, h, s) = FoldStep(f, g, s)
      <4>1. CASE s = {} BY <4>1 DEF FoldStep
      <4>2. CASE s # {}
        <5>1. AnElement(s) \in s BY <4>2, PickIn
        <5>2. Cardinality(s \ {AnElement(s)}) # n + 1 BY <5>1, <2>4, Subsets
        <5>3. h[s \ {AnElement(s)}] = g[s \ {AnElement(s)}] BY <5>2
        <5> QED BY <5>3 DEF FoldStep
      <4> QED BY <4>1, <4>2
    <3>2. CASE Cardinality(s) = n + 1 BY <3>1, <3>2
    <3>3. CASE Cardinality(s) # n + 1
      <4>1. Cardinality(s) <= n BY <3>3, <2>4, Subsets
      <4> QED BY <3>1, <3>3, <4>1, <2>1
    <3> QED BY <3>2, <3>3
  <2>5. Upto(n + 1, h) BY <2>4
  <2>6. n + 1 \in Nat OBVIOUS
  <2> HIDE DEF Upto, h
  <2> QED BY Zenon, <2>3, <2>5, <2>6
<1>3. T = Nat
  <2> HIDE DEF T
  <2>1. T \in SUBSET Nat BY DEF T
  <2> QED BY <1>1, <1>2, <2>1, NatInduct
<1>4. Cardinality(S) \in Nat BY FS_CardinalityType
<1>5. PICK g \in [SUBSET S -> Int]: Upto(Cardinality(S), g) BY <1>3, <1>4
<1>6. \A s \in SUBSET S: g[s] = FoldStep(f, g, s) BY <1>5, Subsets
<1>7. g = [s \in SUBSET S |-> FoldStep(f, g, s)] BY <1>6
<1> QED BY <1>7 DEF IsFold

\* And there is one only, also when it folds a smaller set.
LEMMA FoldUnique ==
  ASSUME NEW f, NEW S, IsFiniteSet(S), NEW U \in SUBSET S, NEW g, NEW h, IsFold(f, g, S), IsFold(f, h, U)
  PROVE \A s \in SUBSET U: g[s] = h[s]
<1> DEFINE T == {n \in Nat: \A s \in SUBSET U: Cardinality(s) <= n => g[s] = h[s]}
<1>0. \A s \in SUBSET U: g[s] = FoldStep(f, g, s) /\ h[s] = FoldStep(f, h, s) BY DEF IsFold
<1>1. 0 \in T
  <2>1. ASSUME NEW s \in SUBSET U, Cardinality(s) <= 0 PROVE s = {} BY <2>1, Subsets
  <2>2. g[{}] = h[{}] BY <1>0 DEF FoldStep
  <2> QED BY <2>1, <2>2
<1>2. ASSUME NEW n \in T PROVE n + 1 \in T
  <2>1. ASSUME NEW s \in SUBSET U, Cardinality(s) <= n + 1, s # {} PROVE g[s] = h[s]
    <3>1. AnElement(s) \in s BY <2>1, PickIn
    <3>2. Cardinality(s \ {AnElement(s)}) <= n BY <3>1, <2>1, Subsets
    <3>3. g[s \ {AnElement(s)}] = h[s \ {AnElement(s)}] BY <3>2, <1>2
    <3> QED BY <3>3, <1>0 DEF FoldStep
  <2>2. g[{}] = h[{}] BY <1>0 DEF FoldStep
  <2> QED BY <2>1, <2>2
<1>3. T = Nat
  <2> HIDE DEF T
  <2>1. T \in SUBSET Nat BY DEF T
  <2> QED BY <1>1, <1>2, <2>1, NatInduct
<1>4. \A s \in SUBSET U: Cardinality(s) \in Nat BY Subsets
<1> QED BY <1>3, <1>4

\* What the sum is: nothing of nothing, and otherwise any element and the sum of the others.
LEMMA TotalStep ==
  ASSUME NEW f, NEW S, IsFiniteSet(S), Ints(f, S), NEW s \in SUBSET S
  PROVE Total(f, s) \in Int /\ Total(f, s) = (IF s = {} THEN 0 ELSE f[AnElement(s)] + Total(f, s \ {AnElement(s)}))
<1>1. PICK g \in [SUBSET S -> Int]: IsFold(f, g, S) BY FoldExists
<1>2. ASSUME NEW u \in SUBSET S PROVE Total(f, u) = g[u]
  <2>1. IsFiniteSet(u) /\ Ints(f, u) BY Subsets DEF Ints
  <2>2. \E h: IsFold(f, h, u) BY <2>1, FoldExists
  <2>3. IsFold(f, CHOOSE h: IsFold(f, h, u), u) BY <2>2
  <2> DEFINE h == CHOOSE h: IsFold(f, h, u)
  <2> HIDE DEF h
  <2>4. IsFold(f, h, u) BY <2>3 DEF h
  <2>5. g[u] = h[u] BY <1>1, <2>4, FoldUnique
  <2>6. Total(f, u) = h[u] BY TotalDef DEF h
  <2> QED BY <2>5, <2>6
<1>3. g[s] = FoldStep(f, g, s) BY <1>1 DEF IsFold
<1>4. CASE s = {} BY <1>2, <1>3, <1>4 DEF FoldStep
<1>5. CASE s # {}
  <2>1. AnElement(s) \in s BY <1>5, PickIn
  <2>2. Total(f, s \ {AnElement(s)}) = g[s \ {AnElement(s)}] BY <1>2
  <2> QED BY <1>2, <1>3, <1>5, <2>2 DEF FoldStep
<1> QED BY <1>4, <1>5

\* A sum is any of its terms and the sum of the others.
LEMMA TotalWithout ==
  ASSUME NEW f, NEW S, IsFiniteSet(S), Ints(f, S), NEW x \in S
  PROVE Total(f, S) = f[x] + Total(f, S \ {x})
<1> DEFINE T == {n \in Nat: \A s \in SUBSET S: \A y \in s: Cardinality(s) <= n => Total(f, s) = f[y] + Total(f, s \ {y})}
<1>1. 0 \in T BY Subsets
<1>2. ASSUME NEW n \in T PROVE n + 1 \in T
  <2>1. ASSUME NEW s \in SUBSET S, NEW y \in s, Cardinality(s) <= n + 1 PROVE Total(f, s) = f[y] + Total(f, s \ {y})
    <3> DEFINE p == AnElement(s)
    <3>1. p \in s BY PickIn
    <3>2. Total(f, s) = f[p] + Total(f, s \ {p}) BY TotalStep
    <3> HIDE DEF p
    <3>3. CASE p = y BY <3>2, <3>3
    <3>4. CASE p # y
      <4>1. Cardinality(s \ {p}) <= n /\ Cardinality(s \ {y}) <= n BY <3>1, <2>1, Subsets
      <4>2. y \in s \ {p} /\ p \in s \ {y} BY <3>1, <3>4
      <4>3. Total(f, s \ {p}) = f[y] + Total(f, (s \ {p}) \ {y}) BY <4>1, <4>2, <1>2
      <4>4. Total(f, s \ {y}) = f[p] + Total(f, (s \ {y}) \ {p}) BY <4>1, <4>2, <1>2
      <4>5. (s \ {p}) \ {y} = (s \ {y}) \ {p} OBVIOUS
      <4>6. f[p] \in Int /\ f[y] \in Int /\ Total(f, (s \ {y}) \ {p}) \in Int BY <3>1, TotalStep DEF Ints
      <4> DEFINE rest == Total(f, (s \ {y}) \ {p})
      <4>7. Total(f, s) = f[p] + (f[y] + rest) BY <3>2, <4>3, <4>5
      <4>8. f[y] + Total(f, s \ {y}) = f[y] + (f[p] + rest) BY <4>4
      <4> HIDE DEF rest, T
      <4>9. rest \in Int BY <4>6 DEF rest
      <4> QED BY <4>6, <4>7, <4>8, <4>9
    <3> QED BY <3>3, <3>4
  <2> QED BY <2>1
<1>3. T = Nat
  <2> HIDE DEF T
  <2>1. T \in SUBSET Nat BY DEF T
  <2> QED BY <1>1, <1>2, <2>1, NatInduct
<1>4. Cardinality(S) \in Nat BY FS_CardinalityType
<1> QED BY <1>3, <1>4

\* The sum of nothing.
LEMMA TotalEmpty == ASSUME NEW f PROVE Total(f, {}) = 0
<1>1. IsFiniteSet({}) /\ Ints(f, {}) BY FS_EmptySet DEF Ints
<1> QED BY <1>1, TotalStep

\* One more term.
LEMMA TotalWith ==
  ASSUME NEW f, NEW S, IsFiniteSet(S), NEW x, x \notin S, Ints(f, S \cup {x})
  PROVE Total(f, S \cup {x}) = f[x] + Total(f, S)
<1>1. IsFiniteSet(S \cup {x}) BY FS_AddElement
<1>2. (S \cup {x}) \ {x} = S OBVIOUS
<1> QED BY <1>1, <1>2, TotalWithout

\* A sum of integers is one.
LEMMA TotalInt == ASSUME NEW f, NEW S, IsFiniteSet(S), Ints(f, S) PROVE Total(f, S) \in Int
BY TotalStep

\* Induction over a finite set, for a set of its subsets instead of a predicate.
LEMMA FinSetInduct ==
  ASSUME NEW S, IsFiniteSet(S), NEW P \in SUBSET (SUBSET S), {} \in P,
         \A s \in P: \A x \in S \ s: s \cup {x} \in P
  PROVE S \in P
<1> DEFINE T == {n \in Nat: \A s \in SUBSET S: Cardinality(s) <= n => s \in P}
<1>1. 0 \in T
  <2>1. ASSUME NEW s \in SUBSET S, Cardinality(s) <= 0 PROVE s = {} BY <2>1, Subsets
  <2> QED BY <2>1
<1>2. ASSUME NEW n \in T PROVE n + 1 \in T
  <2>1. ASSUME NEW s \in SUBSET S, Cardinality(s) <= n + 1, s # {} PROVE s \in P
    <3>1. PICK x \in s: TRUE BY <2>1
    <3>2. Cardinality(s \ {x}) <= n BY <2>1, <3>1, Subsets
    <3>3. s \ {x} \in P BY <3>2, <1>2
    <3>4. (s \ {x}) \cup {x} = s BY <3>1
    <3>5. (s \ {x}) \cup {x} \in P BY <3>3
    <3> QED BY <3>4, <3>5
  <2> QED BY <2>1
<1>3. T = Nat
  <2> HIDE DEF T
  <2>1. T \in SUBSET Nat BY DEF T
  <2> QED BY <1>1, <1>2, <2>1, NatInduct
<1>4. Cardinality(S) \in Nat BY FS_CardinalityType
<1> QED BY <1>3, <1>4

\* A function moved by e and, at d, by n.
Shifted(a, b, e, d, n, S) == \A x \in S: a[x] = b[x] - e[x] + (IF x = d THEN n ELSE 0)

LEMMA TotalMoved ==
  ASSUME NEW S, IsFiniteSet(S), NEW a, NEW b, NEW e, Ints(b, S), Ints(e, S), NEW d, NEW n, n \in Int,
         Shifted(a, b, e, d, n, S)
  PROVE Total(a, S) = Total(b, S) - Total(e, S) + (IF d \in S THEN n ELSE 0)
<1> USE DEF Shifted
<1>0. Ints(a, S) BY DEF Ints
<1> DEFINE Holds(s) == Total(a, s) = Total(b, s) - Total(e, s) + (IF d \in s THEN n ELSE 0)
           P == {s \in SUBSET S: Holds(s)}
<1>1. {} \in P BY TotalEmpty
<1>2. ASSUME NEW s \in P, NEW x \in S \ s PROVE s \cup {x} \in P
  <2>0. s \in SUBSET S /\ s \cup {x} \in SUBSET S OBVIOUS
  <2>1. IsFiniteSet(s) BY Subsets
  <2>2. Ints(a, s \cup {x}) /\ Ints(b, s \cup {x}) /\ Ints(e, s \cup {x}) BY <1>0 DEF Ints
  <2>3. /\ Total(a, s \cup {x}) = a[x] + Total(a, s)
        /\ Total(b, s \cup {x}) = b[x] + Total(b, s)
        /\ Total(e, s \cup {x}) = e[x] + Total(e, s)
    BY <2>1, <2>2, TotalWith
  <2>4. Total(b, s) \in Int /\ Total(e, s) \in Int BY <2>1, <2>2, TotalInt DEF Ints
  <2>5. b[x] \in Int /\ e[x] \in Int BY DEF Ints
  <2>6. Holds(s) OBVIOUS
  <2>7. Holds(s \cup {x}) BY <2>3, <2>4, <2>5, <2>6
  <2> HIDE DEF Holds
  <2> QED BY <2>0, <2>7
<1>3. S \in P
  <2> HIDE DEF P
  <2>1. P \in SUBSET (SUBSET S) BY DEF P
  <2> QED BY <1>1, <1>2, <2>1, FinSetInduct
<1> QED BY <1>3

\* The sum depends only on the terms.
LEMMA TotalSame ==
  ASSUME NEW S, IsFiniteSet(S), NEW a, NEW b, Ints(b, S), \A x \in S: a[x] = b[x]
  PROVE Total(a, S) = Total(b, S)
<1> DEFINE P == {s \in SUBSET S: Total(a, s) = Total(b, s)}
<1>0. Ints(a, S) BY DEF Ints
<1>1. {} \in P BY TotalEmpty
<1>2. ASSUME NEW s \in P, NEW x \in S \ s PROVE s \cup {x} \in P
  <2>1. IsFiniteSet(s) BY Subsets
  <2>2. Ints(a, s \cup {x}) /\ Ints(b, s \cup {x}) BY <1>0 DEF Ints
  <2>3. /\ Total(a, s \cup {x}) = a[x] + Total(a, s)
        /\ Total(b, s \cup {x}) = b[x] + Total(b, s)
    BY <2>1, <2>2, TotalWith
  <2> QED BY <2>3
<1>3. S \in P
  <2> HIDE DEF P
  <2>1. P \in SUBSET (SUBSET S) BY DEF P
  <2> QED BY <1>1, <1>2, <2>1, FinSetInduct
<1> QED BY <1>3

\* A sum of naturals is one, and no term is more than the sum.
LEMMA TotalBounds ==
  ASSUME NEW S, IsFiniteSet(S), NEW f, \A x \in S: f[x] \in Nat
  PROVE Total(f, S) \in Nat /\ \A x \in S: f[x] <= Total(f, S)
<1> DEFINE P == {s \in SUBSET S: Total(f, s) \in Nat}
<1>0. Ints(f, S) BY DEF Ints
<1>1. {} \in P BY TotalEmpty
<1>2. ASSUME NEW s \in P, NEW x \in S \ s PROVE s \cup {x} \in P
  <2>1. IsFiniteSet(s) BY Subsets
  <2>2. Ints(f, s \cup {x}) BY <1>0 DEF Ints
  <2>3. Total(f, s \cup {x}) = f[x] + Total(f, s) BY <2>1, <2>2, TotalWith
  <2> QED BY <2>3
<1>3. ASSUME NEW s \in SUBSET S PROVE s \in P
  <2>1. IsFiniteSet(s) BY Subsets
  <2> DEFINE Q == {t \in SUBSET s: t \in P}
  <2>2. {} \in Q BY <1>1
  <2>3. \A t \in Q: \A x \in s \ t: t \cup {x} \in Q BY <1>2
  <2> HIDE DEF P
  <2>4. s \in Q
    <3> HIDE DEF Q
    <3>1. Q \in SUBSET (SUBSET s) BY DEF Q
    <3> QED BY <2>1, <2>2, <2>3, <3>1, FinSetInduct
  <2> QED BY <2>4
<1>4. ASSUME NEW x \in S PROVE f[x] <= Total(f, S)
  <2>1. Total(f, S) = f[x] + Total(f, S \ {x}) BY <1>0, TotalWithout
  <2>2. S \ {x} \in P BY <1>3
  <2>3. Total(f, S \ {x}) \in Nat /\ f[x] \in Nat BY <2>2
  <2> QED BY <2>1, <2>3
<1>5. S \in P BY <1>3
<1> QED BY <1>4, <1>5

\* A sum of zeros is zero.
LEMMA TotalZero ==
  ASSUME NEW S, IsFiniteSet(S), NEW f, \A x \in S: f[x] = 0
  PROVE  Total(f, S) = 0
<1>1. Ints(f, S) BY DEF Ints
<1>2. Shifted(f, f, f, 0, 0, S) BY DEF Shifted
<1>3. Total(f, S) = Total(f, S) - Total(f, S) + (IF 0 \in S THEN 0 ELSE 0)
  BY <1>1, <1>2, TotalMoved
<1>4. Total(f, S) \in Int BY <1>1, TotalInt
<1> QED BY <1>3, <1>4

\* The sum over an interval, from either end.
LEMMA TotalUpTo ==
  ASSUME NEW a \in Int, NEW b \in Int, NEW f, Ints(f, a .. b)
  PROVE /\ Total(f, a .. b) \in Int
        /\ b < a => Total(f, a .. b) = 0
        /\ a <= b => /\ Total(f, a .. b) = f[b] + Total(f, a .. b - 1)
                     /\ Total(f, a .. b) = f[a] + Total(f, a + 1 .. b)
<1>1. IsFiniteSet(a .. b) BY FS_Interval
<1>2. Total(f, a .. b) \in Int BY <1>1, TotalInt
<1>3. CASE b < a
  <2>1. a .. b = {} BY <1>3
  <2>2. Total(f, a .. b) = 0 BY <2>1, TotalEmpty, Zenon
  <2> QED BY <1>2, <1>3, <2>2
<1>4. CASE a <= b
  <2>2. (a .. b) \ {b} = a .. b - 1 /\ (a .. b) \ {a} = a + 1 .. b BY <1>4
  <2>3. a \in a .. b /\ b \in a .. b BY <1>4
  <2> QED BY <1>1, <1>2, <1>4, <2>2, <2>3, TotalWithout
<1> QED BY <1>3, <1>4

\* A set of integers that is bounded from below has its minimum.
LEMMA MinIs ==
  ASSUME NEW S, NEW lo \in Int, \A x \in S: x \in Int /\ lo <= x, S # {}
  PROVE Min(S) \in S /\ \A y \in S: Min(S) <= y
<1> DEFINE T == {n \in Nat: lo + n \in S}
<1>1. \A x \in S: x - lo \in Nat /\ lo + (x - lo) = x OBVIOUS
<1>2. \A x \in S: x - lo \in T
  <2> SUFFICES ASSUME NEW x \in S PROVE x - lo \in T OBVIOUS
  <2>1. lo + (x - lo) \in S BY <1>1
  <2> QED BY <1>1, <2>1
<1>3. T # {} BY <1>2
<1>4. PICK n \in T: \A k \in T: n <= k
  <2> HIDE DEF T
  <2>1. T \in SUBSET Nat BY DEF T
  <2> QED BY <1>3, <2>1, LeastNatural
<1>5. lo + n \in S OBVIOUS
<1>6. \A y \in S: lo + n <= y
  <2> SUFFICES ASSUME NEW y \in S PROVE lo + n <= y OBVIOUS
  <2>1. n <= y - lo BY <1>2, <1>4
  <2> QED BY <2>1
<1>7. \E x \in S: \A y \in S: x <= y BY <1>5, <1>6
<1> QED BY <1>7 DEF Min

\* A set of integers that is bounded from above has its maximum.
LEMMA MaxIs ==
  ASSUME NEW S, NEW hi \in Int, \A x \in S: x \in Int /\ x <= hi, S # {}
  PROVE Max(S) \in S /\ \A y \in S: Max(S) >= y
<1> DEFINE T == {n \in Nat: hi - n \in S}
<1>1. \A x \in S: hi - x \in Nat /\ hi - (hi - x) = x OBVIOUS
<1>2. \A x \in S: hi - x \in T
  <2> SUFFICES ASSUME NEW x \in S PROVE hi - x \in T OBVIOUS
  <2>1. hi - (hi - x) \in S BY <1>1
  <2> QED BY <1>1, <2>1
<1>3. T # {} BY <1>2
<1>4. PICK n \in T: \A k \in T: n <= k
  <2> HIDE DEF T
  <2>1. T \in SUBSET Nat BY DEF T
  <2> QED BY <1>3, <2>1, LeastNatural
<1>5. hi - n \in S OBVIOUS
<1>6. \A y \in S: hi - n >= y
  <2> SUFFICES ASSUME NEW y \in S PROVE hi - n >= y OBVIOUS
  <2>1. n <= hi - y BY <1>2, <1>4
  <2> QED BY <2>1
<1>7. \E x \in S: \A y \in S: x >= y BY <1>5, <1>6
<1> QED BY <1>7 DEF Max

\* A finite set of integers is bounded.
LEMMA FiniteIsBounded ==
  ASSUME NEW S, IsFiniteSet(S), \A x \in S: x \in Int
  PROVE \E n \in Int: \A x \in S: x <= n
<1> DEFINE P == {s \in SUBSET S: \E n \in Int: \A x \in s: x <= n}
<1>1. {} \in P OBVIOUS
<1>2. ASSUME NEW s \in P, NEW y \in S \ s PROVE s \cup {y} \in P
  <2>1. PICK n \in Int: \A x \in s: x <= n OBVIOUS
  <2>2. \A x \in s \cup {y}: x <= (IF n < y THEN y ELSE n) BY <2>1
  <2>3. (IF n < y THEN y ELSE n) \in Int OBVIOUS
  <2> QED BY <2>2, <2>3
<1>3. S \in P
  <2> HIDE DEF P
  <2>1. P \in SUBSET (SUBSET S) BY DEF P
  <2> QED BY <1>1, <1>2, <2>1, FinSetInduct
<1> QED BY <1>3

================================================================================
