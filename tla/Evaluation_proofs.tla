-------------------------- MODULE Evaluation_proofs --------------------------
(***************************************************************************)
(* Why an evaluation looks at no later data, scores every feature set on   *)
(* the same rows, reports one snapshot and applies the step-up rule, for   *)
(* any universe, history of the sources, fold sizes, horizon and p-values. *)
(***************************************************************************)
EXTENDS Evaluation, FiniteSetTheorems, SequenceTheorems, WellFoundedInduction, TLAPS

-----------------------------------------------------------------------------
(***************************************************************************)
(* The fold schedule, for every number of rows, window, refit interval and *)
(* horizon.                                                                *)
(***************************************************************************)
\* Blocks of the same size that start later end later.
LEMMA BlocksOrdered ==
    ASSUME NEW j \in Nat, NEW k \in Nat, NEW b \in Nat, j < k
    PROVE  j * b + b <= k * b
<1>1. PICK m \in Nat : k = j + 1 + m
    <2>1. k - j - 1 \in Nat /\ k = j + 1 + (k - j - 1)
        OBVIOUS
    <2> QED BY <2>1
<1>2. m * b \in Nat
    OBVIOUS
<1>3. k * b = j * b + b + m * b
    BY <1>1
<1> QED BY <1>2, <1>3

\* The two forms a fold of the schedule takes.
LEMMA FoldForm ==
    ASSUME NEW n \in Nat, NEW train \in Nat, NEW refit \in Nat, NEW steps \in Nat,
           NEW k \in DOMAIN FoldSchedule(n, train, refit, steps)
    PROVE  /\ k \in Nat
           /\ k * refit \in Nat
           /\ \E end \in Int :
                /\ FoldSchedule(n, train, refit, steps)[k] = Fold(k * refit, train, steps, end)
                /\ \/ end = k * refit + train + steps + refit - 1
                   \/ end = n - 1 /\ k * refit + train + steps + refit > n
                /\ end < n
<1> DEFINE regular == PurgedWalkForward(n, train, refit, refit, steps)
           start == k * refit
<1>1. k \in 0 .. n /\ start + train + steps < n
    BY DEF FoldSchedule
<1>2. k \in Nat /\ start \in Nat
    BY <1>1
<1>3. DOMAIN regular = Starts(n, train, refit, refit, steps)
    BY DEF PurgedWalkForward
<1>4. CASE k \in DOMAIN regular
    <2>1. start + train + steps + refit <= n
        BY <1>3, <1>4, <1>2 DEF Starts
    <2>2. regular[k] = Fold(start, train, steps, start + train + steps + refit - 1)
        BY <1>3, <1>4 DEF PurgedWalkForward
    <2>3. FoldSchedule(n, train, refit, steps)[k] = regular[k]
        BY <1>4 DEF FoldSchedule
    <2> QED BY <2>1, <2>2, <2>3, <1>2
<1>5. CASE k \notin DOMAIN regular
    <2>1. ~(start + train + steps + refit <= n)
        BY <1>1, <1>3, <1>5 DEF Starts
    <2>2. FoldSchedule(n, train, refit, steps)[k] = Fold(start, train, steps, n - 1)
        BY <1>5 DEF FoldSchedule
    <2> QED BY <2>1, <2>2, <1>2
<1> QED BY <1>4, <1>5

\* eval/splits.py and pooled.py: a label of a training row ends steps rows
\* later, and the embargo keeps that end before the first test row of the fold,
\* in the regular folds and in the last partial one.
THEOREM LabelsEndBeforeTest ==
    ASSUME NEW n \in Nat, NEW train \in Nat, NEW refit \in Nat, NEW steps \in Nat,
           NEW k \in DOMAIN FoldSchedule(n, train, refit, steps),
           NEW i \in FoldSchedule(n, train, refit, steps)[k].train,
           NEW j \in FoldSchedule(n, train, refit, steps)[k].test
    PROVE  i \in Nat /\ i + steps < j /\ j < n
<1>1. k * refit \in Nat
    BY FoldForm
<1>2. PICK end \in Int :
        /\ FoldSchedule(n, train, refit, steps)[k] = Fold(k * refit, train, steps, end)
        /\ end < n
    BY FoldForm
<1>3. i \in (k * refit) .. (k * refit + train - 1)
    BY <1>2 DEF Fold
<1>4. j \in (k * refit + train + steps) .. end
    BY <1>2 DEF Fold
<1> QED BY <1>1, <1>2, <1>3, <1>4

\* eval/pooled.py: the test blocks follow one another, so no row is scored in
\* two folds.
THEOREM TestsDoNotOverlap ==
    ASSUME NEW n \in Nat, NEW train \in Nat, NEW refit \in Nat, NEW steps \in Nat,
           NEW k \in DOMAIN FoldSchedule(n, train, refit, steps),
           NEW l \in DOMAIN FoldSchedule(n, train, refit, steps), k < l,
           NEW i \in FoldSchedule(n, train, refit, steps)[k].test,
           NEW j \in FoldSchedule(n, train, refit, steps)[l].test
    PROVE  i < j
<1>1. k \in Nat /\ l \in Nat /\ k * refit \in Nat /\ l * refit \in Nat
    BY FoldForm
<1>2. PICK e \in Int :
        /\ FoldSchedule(n, train, refit, steps)[k] = Fold(k * refit, train, steps, e)
        /\ \/ e = k * refit + train + steps + refit - 1
           \/ e = n - 1 /\ k * refit + train + steps + refit > n
    BY FoldForm
<1>3. PICK f \in Int : FoldSchedule(n, train, refit, steps)[l] = Fold(l * refit, train, steps, f)
    BY FoldForm
<1>4. i \in (k * refit + train + steps) .. e
    BY <1>2 DEF Fold
<1>5. j \in (l * refit + train + steps) .. f
    BY <1>3 DEF Fold
<1>6. k * refit + refit <= l * refit
    BY <1>1, BlocksOrdered
<1> QED BY <1>1, <1>2, <1>4, <1>5, <1>6

\* eval/pooled.py, fold_schedule: "so the newest dates are scored too".  When
\* there is a fold at all, every row after the first training window and its
\* embargo is tested by some fold, the newest row included.
THEOREM EveryRowIsTested ==
    ASSUME NEW n \in Nat, NEW train \in Nat, NEW refit \in Nat \ {0}, NEW steps \in Nat,
           DOMAIN FoldSchedule(n, train, refit, steps) # {},
           NEW i \in (train + steps) .. (n - 1)
    PROVE  \E k \in DOMAIN FoldSchedule(n, train, refit, steps) :
              i \in FoldSchedule(n, train, refit, steps)[k].test
<1> DEFINE folds == FoldSchedule(n, train, refit, steps)
           regular == PurgedWalkForward(n, train, refit, refit, steps)
           offset == i - train - steps
           k == offset \div refit
           start == k * refit
<1>1. offset \in Nat /\ offset < n
    OBVIOUS
<1>2. /\ k \in Int /\ offset = refit * k + (offset % refit)
      /\ offset % refit \in 0 .. (refit - 1)
    BY <1>1
<1>3. start \in Int /\ start <= offset /\ offset < start + refit
    BY <1>1, <1>2
<1>4. k \in Nat /\ k <= offset
    BY <1>1, <1>2
<1>5. k \in 0 .. n /\ start + train + steps < n
    BY <1>1, <1>3, <1>4
<1>6. DOMAIN regular # {}
    BY DEF FoldSchedule
<1>7. k \in DOMAIN folds
    BY <1>5, <1>6 DEF FoldSchedule
<1>8. CASE k \in DOMAIN regular
    <2>1. regular[k] = Fold(start, train, steps, start + train + steps + refit - 1)
        BY <1>8 DEF PurgedWalkForward
    <2>2. folds[k] = regular[k]
        BY <1>7, <1>8 DEF FoldSchedule
    <2>3. i \in (start + train + steps) .. (start + train + steps + refit - 1)
        BY <1>3
    <2> QED BY <1>7, <2>1, <2>2, <2>3 DEF Fold
<1>9. CASE k \notin DOMAIN regular
    <2>1. folds[k] = Fold(start, train, steps, n - 1)
        BY <1>7, <1>9 DEF FoldSchedule
    <2>2. i \in (start + train + steps) .. (n - 1)
        BY <1>3
    <2> QED BY <1>7, <2>1, <2>2 DEF Fold
<1> QED BY <1>8, <1>9

-----------------------------------------------------------------------------
(***************************************************************************)
(* Least and greatest numbers, and the positions of days among others.     *)
(***************************************************************************)
\* A non-empty set of naturals has a least member, and Min is it.
LEMMA MinIsLeast ==
    ASSUME NEW S \in SUBSET Nat, S # {}
    PROVE  Min(S) \in S /\ \A y \in S : Min(S) <= y
<1>1. PICK x \in S : \A y \in S : ~(<<y, x>> \in OpToRel(<, Nat))
    BY NatLessThanWellFounded, WFMin
<1>2. \A y \in S : ~(y < x)
    BY <1>1 DEF OpToRel
<1>3. \A y \in S : x <= y
    BY <1>2
<1> QED
    BY <1>3 DEF Min

\* A non-empty set of naturals with a bound has a greatest member, and Max is it.
LEMMA MaxIsGreatest ==
    ASSUME NEW S \in SUBSET Nat, S # {}, NEW b \in Nat, \A y \in S : y <= b
    PROVE  Max(S) \in S /\ \A y \in S : y <= Max(S)
<1> DEFINE bounds == {n \in Nat : \A y \in S : y <= n}
<1>1. bounds \in SUBSET Nat /\ bounds # {}
    OBVIOUS
<1>2. PICK n \in bounds : \A c \in bounds : n <= c
    BY <1>1, MinIsLeast
<1>3. n \in S
  <2>1. SUFFICES ASSUME n \notin S PROVE FALSE
      OBVIOUS
  <2>2. \A y \in S : y < n
      BY <1>2, <2>1
  <2>3. n \in Nat /\ n # 0 /\ \A y \in S : y \in Nat
    <3>1. PICK y \in S : TRUE
        OBVIOUS
    <3>2. y < n /\ y \in Nat /\ n \in Nat
        BY <1>2, <2>2
    <3> QED
        BY <3>2
  <2>4. n - 1 \in Nat /\ \A y \in S : y <= n - 1
      BY <2>2, <2>3
  <2>5. n - 1 \in bounds /\ ~(n <= n - 1)
      BY <2>3, <2>4
  <2> QED
      BY <1>2, <2>5
<1>4. \A y \in S : n >= y
    BY <1>2
<1>5. Max(S) \in S /\ \A y \in S : Max(S) >= y
    BY <1>3, <1>4 DEF Max
<1> QED
    BY <1>5

\* The days from a to before b are those before b without those before a.
LEMMA PositionsCount ==
    ASSUME NEW S \in SUBSET Nat, IsFiniteSet(S), NEW a \in Nat, NEW b \in Nat, a <= b
    PROVE  /\ Position(a, S) \in Nat /\ Position(b, S) \in Nat
           /\ IsFiniteSet({e \in S : a <= e /\ e < b})
           /\ Cardinality({e \in S : a <= e /\ e < b}) \in Nat
           /\ Position(b, S) = Position(a, S) + Cardinality({e \in S : a <= e /\ e < b})
<1> DEFINE before(c) == {e \in S : e < c}
           between == {e \in S : a <= e /\ e < b}
<1>1. \A c : IsFiniteSet(before(c)) /\ Cardinality(before(c)) \in Nat
    BY FS_Subset, FS_CardinalityType
<1>2. IsFiniteSet(between) /\ Cardinality(between) \in Nat
    BY FS_Subset, FS_CardinalityType
<1>3. before(b) = before(a) \cup between /\ before(a) \cap between = {}
  <2>1. ASSUME NEW e \in S
        PROVE  (e < b <=> (e < a \/ (a <= e /\ e < b))) /\ ~(e < a /\ a <= e)
      OBVIOUS
  <2> QED
      BY <2>1
<1>4. Cardinality(before(b)) = Cardinality(before(a)) + Cardinality(between)
  <2> HIDE DEF before, between
  <2>1. Cardinality(before(a) \cup between)
            = Cardinality(before(a)) + Cardinality(between) - Cardinality(before(a) \cap between)
      BY <1>1, <1>2, FS_Union
  <2> QED
      BY <1>1, <1>2, <1>3, <2>1, FS_EmptySet
<1> QED
    BY <1>1, <1>2, <1>4 DEF Position

\* Among days, each has a position of its own, from none before it on.
LEMMA PositionsNumber ==
    ASSUME NEW S \in SUBSET Nat, IsFiniteSet(S)
    PROVE  /\ Cardinality(S) \in Nat
           /\ \A d \in S : Position(d, S) \in 0 .. (Cardinality(S) - 1)
           /\ \A d, e \in S : d < e => Position(d, S) < Position(e, S)
           /\ \A d, e \in S : Position(d, S) = Position(e, S) => d = e
           /\ \A n \in 0 .. (Cardinality(S) - 1) : \E d \in S : Position(d, S) = n
<1>1. Cardinality(S) \in Nat
    BY FS_CardinalityType
<1>2. \A d \in S : Position(d, S) \in 0 .. (Cardinality(S) - 1)
  <2> SUFFICES ASSUME NEW d \in S PROVE Position(d, S) \in 0 .. (Cardinality(S) - 1)
      OBVIOUS
  <2>1. /\ IsFiniteSet({e \in S : e < d}) /\ Cardinality({e \in S : e < d}) \in Nat
        /\ Cardinality({e \in S : e < d}) <= Cardinality(S)
        /\ (Cardinality(S) = Cardinality({e \in S : e < d}) => S = {e \in S : e < d})
      BY FS_Subset, FS_CardinalityType
  <2>2. d \notin {e \in S : e < d}
      OBVIOUS
  <2> QED
      BY <1>1, <2>1, <2>2 DEF Position
<1>3. \A d, e \in S : d < e => Position(d, S) < Position(e, S)
  <2> SUFFICES ASSUME NEW d \in S, NEW e \in S, d < e PROVE Position(d, S) < Position(e, S)
      OBVIOUS
  <2> DEFINE between == {c \in S : d <= c /\ c < e}
  <2>1. /\ Position(e, S) = Position(d, S) + Cardinality(between)
        /\ IsFiniteSet(between) /\ Cardinality(between) \in Nat /\ Position(d, S) \in Nat
      BY PositionsCount
  <2>2. d \in between
      OBVIOUS
  <2>3. Cardinality(between) # 0
      BY <2>1, <2>2, FS_EmptySet
  <2> QED
      BY <2>1, <2>3
<1>4. \A d, e \in S : Position(d, S) = Position(e, S) => d = e
  <2> SUFFICES ASSUME NEW d \in S, NEW e \in S, d # e PROVE Position(d, S) # Position(e, S)
      OBVIOUS
  <2>1. d < e \/ e < d
      OBVIOUS
  <2>2. Position(d, S) \in Nat /\ Position(e, S) \in Nat
      BY <1>1, <1>2
  <2> QED
      BY <1>3, <2>1, <2>2
<1> DEFINE f == [d \in S |-> Position(d, S)]
<1>5. f \in Injection(S, 0 .. (Cardinality(S) - 1))
    BY <1>2, <1>4 DEF Injection, IsInjective
<1>6. /\ IsFiniteSet(0 .. (Cardinality(S) - 1))
      /\ Cardinality(0 .. (Cardinality(S) - 1)) = Cardinality(S)
  <2> DEFINE n == Cardinality(S)
  <2> HIDE DEF n
  <2>1. n \in Nat
      BY <1>1 DEF n
  <2>2. IsFiniteSet(0 .. (n - 1)) /\ Cardinality(0 .. (n - 1)) = IF 0 > n - 1 THEN 0 ELSE n - 1 - 0 + 1
      BY <2>1, FS_Interval
  <2>3. IsFiniteSet(0 .. (n - 1)) /\ Cardinality(0 .. (n - 1)) = n
      BY <2>1, <2>2
  <2> QED
      BY <2>3 DEF n
<1>7. f \in Surjection(S, 0 .. (Cardinality(S) - 1))
    BY <1>5, <1>6, FS_Injection
<1>8. \A n \in 0 .. (Cardinality(S) - 1) : \E d \in S : Position(d, S) = n
    BY <1>7 DEF Surjection
<1> QED
    BY <1>1, <1>2, <1>3, <1>4, <1>8

\* Days in order are a list of those days by position.
LEMMA InOrderLists ==
    ASSUME NEW S \in SUBSET Nat, IsFiniteSet(S)
    PROVE  /\ Cardinality(S) \in Nat
           /\ InOrder(S) \in Seq(S) /\ Len(InOrder(S)) = Cardinality(S)
           /\ \A d \in S, i \in 1 .. Cardinality(S) : Position(d, S) = i - 1 => InOrder(S)[i] = d
           /\ \A i \in 1 .. Cardinality(S) :
                  InOrder(S)[i] \in S /\ Position(InOrder(S)[i], S) = i - 1
<1> DEFINE pick(i) == CHOOSE d \in S : Position(d, S) = i - 1
           n == Cardinality(S)
<1>1. n \in Nat
    BY PositionsNumber
<1>2. \A i \in 1 .. n : pick(i) \in S /\ Position(pick(i), S) = i - 1
  <2> SUFFICES ASSUME NEW i \in 1 .. n PROVE \E d \in S : Position(d, S) = i - 1
      OBVIOUS
  <2>1. i - 1 \in 0 .. (n - 1)
      BY <1>1
  <2> QED
      BY <2>1, PositionsNumber
<1>3. InOrder(S) = [i \in 1 .. n |-> pick(i)]
    BY DEF InOrder
<1>4. InOrder(S) \in [1 .. n -> S]
  <2> HIDE DEF pick, n
  <2> QED
      BY <1>2, <1>3
<1>5. InOrder(S) \in Seq(S) /\ Len(InOrder(S)) = n
    BY <1>1, <1>4
<1>6. \A d \in S, i \in 1 .. n : Position(d, S) = i - 1 => InOrder(S)[i] = d
    BY <1>2, <1>3, PositionsNumber
<1>7. \A i \in 1 .. n : InOrder(S)[i] \in S /\ Position(InOrder(S)[i], S) = i - 1
    BY <1>2, <1>3
<1> QED
    BY <1>1, <1>5, <1>6, <1>7

\* Days up to today are finitely many naturals.
LEMMA DaysAreFinite ==
    ASSUME NEW S \in SUBSET (0 .. Today)
    PROVE  S \in SUBSET Nat /\ IsFiniteSet(S) /\ Cardinality(S) \in Nat /\ Cardinality(S) <= Today + 1
<1>1. Today \in Nat
    BY EvaluationAssumption
<1>2. IsFiniteSet(0 .. Today) /\ Cardinality(0 .. Today) = Today + 1
    BY <1>1, FS_Interval
<1>3. IsFiniteSet(S) /\ Cardinality(S) <= Today + 1
    BY <1>2, FS_Subset
<1>4. Cardinality(S) \in Nat
    BY <1>3, FS_CardinalityType
<1> QED
    BY <1>3, <1>4

\* The sizes of disjoint sets add up.
LEMMA DisjointSizes ==
    ASSUME NEW A, NEW B, IsFiniteSet(A), IsFiniteSet(B), A \cap B = {}
    PROVE  IsFiniteSet(A \cup B) /\ Cardinality(A \cup B) = Cardinality(A) + Cardinality(B)
<1>1. /\ IsFiniteSet(A \cup B)
      /\ Cardinality(A \cup B) = Cardinality(A) + Cardinality(B) - Cardinality(A \cap B)
    BY FS_Union
<1>2. Cardinality(A \cap B) = 0 /\ Cardinality(A) \in Nat /\ Cardinality(B) \in Nat
    BY FS_EmptySet, FS_CardinalityType
<1> QED
    BY <1>1, <1>2

\* A list of members of a set is one of members of a larger set.
LEMMA ListOfMore ==
    ASSUME NEW S, NEW A \in SUBSET S, NEW s \in Seq(A)
    PROVE  s \in Seq(S)
<1>1. s \in [1 .. Len(s) -> A] /\ Len(s) \in Nat
    BY LenProperties
<1>2. s \in [1 .. Len(s) -> S]
    BY <1>1
<1> QED
    BY <1>1, <1>2

\* The list of some days and of later ones is one list after the other.
LEMMA InOrderJoins ==
    ASSUME NEW A \in SUBSET (0 .. Today), NEW B \in SUBSET (0 .. Today), \A a \in A, b \in B : a < b
    PROVE  InOrder(A \cup B) = InOrder(A) \o InOrder(B)
<1> DEFINE S == A \cup B
           n == Cardinality(A)
           m == Cardinality(B)
<1>1. /\ A \in SUBSET Nat /\ IsFiniteSet(A) /\ B \in SUBSET Nat /\ IsFiniteSet(B)
      /\ n \in Nat /\ m \in Nat
    BY DaysAreFinite
<1>2. A \cap B = {}
  <2>1. \A a \in A : a \in Nat
      BY <1>1
  <2> QED
      BY <2>1
<1>3. Cardinality(S) = n + m /\ IsFiniteSet(S) /\ S \in SUBSET Nat
  <2>1. S \in SUBSET Nat
      BY <1>1
  <2> QED
      BY <1>1, <1>2, <2>1, DisjointSizes
<1>4. \A a \in A : Position(a, S) = Position(a, A)
  <2> SUFFICES ASSUME NEW a \in A PROVE Position(a, S) = Position(a, A)
      OBVIOUS
  <2>1. \A b \in B : ~(b < a)
    <3>1. \A b \in B : a \in Nat /\ b \in Nat /\ a < b
        BY <1>1
    <3> QED
        BY <3>1
  <2>2. {e \in S : e < a} = {e \in A : e < a}
      BY <2>1
  <2> QED
      BY <2>2 DEF Position
<1>5. \A b \in B : Position(b, S) = n + Position(b, B)
  <2> SUFFICES ASSUME NEW b \in B PROVE Position(b, S) = n + Position(b, B)
      OBVIOUS
  <2> DEFINE before == {e \in B : e < b}
  <2>1. {e \in S : e < b} = A \cup before
      OBVIOUS
  <2>2. IsFiniteSet(before) /\ Cardinality(before) \in Nat
      BY <1>1, FS_Subset, FS_CardinalityType
  <2>3. A \cap before = {}
      BY <1>2
  <2> HIDE DEF before
  <2>4. Cardinality(A \cup before) = n + Cardinality(before)
      BY <1>1, <2>2, <2>3, DisjointSizes
  <2> QED
      BY <2>1, <2>4 DEF Position, before
<1>10. A \subseteq S /\ B \subseteq S
    OBVIOUS
<1> HIDE DEF S
<1>6. /\ InOrder(S) \in Seq(S) /\ Len(InOrder(S)) = n + m
      /\ InOrder(A) \in Seq(S) /\ Len(InOrder(A)) = n
      /\ InOrder(B) \in Seq(S) /\ Len(InOrder(B)) = m
  <2>1. InOrder(S) \in Seq(S) /\ Len(InOrder(S)) = n + m
      BY <1>3, InOrderLists
  <2>2. InOrder(A) \in Seq(A) /\ Len(InOrder(A)) = n
      BY <1>1, InOrderLists
  <2>3. InOrder(B) \in Seq(B) /\ Len(InOrder(B)) = m
      BY <1>1, InOrderLists
  <2> HIDE DEF n, m
  <2>4. InOrder(A) \in Seq(S) /\ InOrder(B) \in Seq(S)
      BY <1>10, <2>2, <2>3, ListOfMore
  <2> QED
      BY <2>1, <2>2, <2>3, <2>4
<1>11. /\ \A i \in 1 .. n : InOrder(A)[i] \in A /\ Position(InOrder(A)[i], A) = i - 1
       /\ \A i \in 1 .. m : InOrder(B)[i] \in B /\ Position(InOrder(B)[i], B) = i - 1
       /\ \A d \in S, i \in 1 .. n + m : Position(d, S) = i - 1 => InOrder(S)[i] = d
  <2>1. \A i \in 1 .. n : InOrder(A)[i] \in A /\ Position(InOrder(A)[i], A) = i - 1
      BY <1>1, InOrderLists
  <2>2. \A i \in 1 .. m : InOrder(B)[i] \in B /\ Position(InOrder(B)[i], B) = i - 1
      BY <1>1, InOrderLists
  <2>3. \A d \in S, i \in 1 .. Cardinality(S) : Position(d, S) = i - 1 => InOrder(S)[i] = d
      BY <1>3, InOrderLists
  <2> QED
      BY <1>3, <2>1, <2>2, <2>3
<1> HIDE DEF n, m
<1>7. \A i \in 1 .. n + m : InOrder(S)[i] = (InOrder(A) \o InOrder(B))[i]
  <2> SUFFICES ASSUME NEW i \in 1 .. n + m
               PROVE  InOrder(S)[i] = (InOrder(A) \o InOrder(B))[i]
      OBVIOUS
  <2>1. (InOrder(A) \o InOrder(B))[i] = IF i <= n THEN InOrder(A)[i] ELSE InOrder(B)[i - n]
      BY <1>6, ConcatProperties
  <2>2. CASE i <= n
    <3>1. i \in 1 .. n
        BY <1>1, <2>2
    <3>2. InOrder(A)[i] \in A /\ Position(InOrder(A)[i], A) = i - 1
        BY <1>11, <3>1
    <3>3. InOrder(A)[i] \in S /\ Position(InOrder(A)[i], S) = i - 1
        BY <1>4, <1>10, <3>2
    <3>4. InOrder(S)[i] = InOrder(A)[i]
        BY <1>11, <3>3
    <3> QED
        BY <2>1, <2>2, <3>4
  <2>3. CASE ~(i <= n)
    <3>1. i - n \in 1 .. m
        BY <1>1, <2>3
    <3>2. InOrder(B)[i - n] \in B /\ Position(InOrder(B)[i - n], B) = i - n - 1
        BY <1>11, <3>1
    <3>3. InOrder(B)[i - n] \in S /\ Position(InOrder(B)[i - n], S) = i - 1
      <4>1. Position(InOrder(B)[i - n], S) = n + (i - n - 1)
          BY <1>5, <3>2
      <4>2. n + (i - n - 1) = i - 1
          BY <1>1
      <4> QED
          BY <1>10, <3>2, <4>1, <4>2
    <3>4. InOrder(S)[i] = InOrder(B)[i - n]
        BY <1>11, <3>3
    <3> QED
        BY <2>1, <2>3, <3>4
  <2> QED
      BY <2>2, <2>3
<1>8. /\ InOrder(A) \o InOrder(B) \in Seq(S)
      /\ Len(InOrder(A) \o InOrder(B)) = n + m
    BY <1>6, ConcatProperties
<1>9. InOrder(S) = InOrder(A) \o InOrder(B)
    BY <1>6, <1>7, <1>8, SeqEqual
<1> QED
    BY <1>9 DEF S

-----------------------------------------------------------------------------
(***************************************************************************)
(* The step-up rule.                                                       *)
(***************************************************************************)
\* A product grows with its factors.
LEMMA TimesMonotone ==
    ASSUME NEW a \in Nat, NEW b \in Nat, NEW c \in Nat, a <= b
    PROVE  c * a <= c * b /\ a * c <= b * c /\ c * a \in Nat /\ a * c = c * a /\ b * c = c * b
<1>1. PICK k \in Nat : b = a + k
  <2>1. b - a \in Nat /\ b = a + (b - a)
      OBVIOUS
  <2> QED
      BY <2>1
<1>2. c * k \in Nat /\ c * a \in Nat
    OBVIOUS
<1>3. c * b = c * a + c * k
    BY <1>1
<1> QED
    BY <1>2, <1>3

\* Scaled by no less than the divisor, a quotient rounded down is within a whole
\* bound exactly when the quotient is.
LEMMA RoundingIsExact ==
    ASSUME NEW x \in Nat, NEW r \in Nat \ {0}, NEW scale \in Nat, r <= scale, NEW bound \in Nat
    PROVE  (scale * x) \div r <= scale * bound <=> x <= r * bound
<1> DEFINE y == scale * x
           q == y \div r
           limit == scale * bound
           rb == r * bound
<1>1. y \in Nat /\ limit \in Nat /\ rb \in Nat /\ scale * rb \in Nat
    OBVIOUS
<1> HIDE DEF y
<1>2. q \in Nat /\ y = r * q + (y % r) /\ (y % r) \in 0 .. (r - 1)
    BY <1>1
<1>3. scale * rb = r * limit
    OBVIOUS
<1> HIDE DEF q, limit, rb
<1>4. r * q \in Nat /\ r * q <= y /\ y < r * q + r /\ r * limit \in Nat
    BY <1>1, <1>2
<1>5. CASE x <= rb
  <2>1. y <= r * limit
      BY <1>1, <1>3, <1>5, TimesMonotone DEF y
  <2>2. SUFFICES ASSUME ~(q <= limit) PROVE FALSE
      BY <1>5 DEF q, y, limit, rb
  <2>3. r * (limit + 1) <= r * q
      BY <1>1, <1>2, <2>2, TimesMonotone
  <2>4. r * (limit + 1) = r * limit + r
      BY <1>1
  <2> QED
      BY <1>1, <1>4, <2>1, <2>3, <2>4
<1>6. CASE ~(x <= rb)
  <2>1. scale * (rb + 1) <= y /\ scale * (rb + 1) = scale * rb + scale
      BY <1>1, <1>6, TimesMonotone DEF y
  <2>2. r * limit + r <= y
      BY <1>1, <1>3, <1>4, <2>1
  <2>3. SUFFICES ASSUME q <= limit PROVE FALSE
      BY <1>6 DEF q, y, limit, rb
  <2>4. r * q <= r * limit
      BY <1>1, <1>2, <2>3, TimesMonotone
  <2> QED
      BY <1>1, <1>4, <2>2, <2>4
<1> QED
    BY <1>5, <1>6

\* A p-value is a percentage, and so is the rate, which is below the lower loss.
LEMMA PercentagesOfTests ==
    /\ \A U, p, u : p \in [U -> PValues] /\ u \in U => p[u] \in Nat /\ p[u] <= 100
    /\ MaxFdr \in Nat /\ LowerLoss \in Nat /\ MaxFdr < LowerLoss /\ MaxFdr < 100
<1>1. /\ \A v \in PValues : v \in 0 .. 100
      /\ MaxFdr \in Nat /\ LowerLoss \in 0 .. 100 /\ MaxFdr < LowerLoss
    BY EvaluationAssumption
<1>2. \A U, p, u : p \in [U -> PValues] /\ u \in U => p[u] \in PValues
    OBVIOUS
<1> QED
    BY <1>1, <1>2

\* A universe is a list, so its tickers are finitely many, and there is one.
LEMMA TickersAreFinite == IsFiniteSet(Tickers) /\ Tickers # {} /\ Cardinality(Tickers) \in Nat \ {0}
<1>1. /\ DOMAIN Universe = 1 .. Len(Universe) /\ Len(Universe) \in Nat \ {0}
      /\ Universe \in [1 .. Len(Universe) -> Tickers]
    BY EvaluationAssumption, LenProperties, EmptySeq
<1>2. Universe \in Surjection(1 .. Len(Universe), Tickers)
    BY <1>1 DEF Surjection, Tickers, Range
<1>3. IsFiniteSet(Tickers)
    BY <1>1, <1>2, FS_Interval, FS_Surjection
<1>4. Universe[1] \in Tickers
    BY <1>1
<1>5. Cardinality(Tickers) # 0 /\ Cardinality(Tickers) \in Nat
    BY <1>3, <1>4, FS_EmptySet, FS_CardinalityType
<1> QED
    BY <1>3, <1>4, <1>5

RankIn(p, t) == Cardinality({u \in DOMAIN p : p[u] <= p[t]})
RankedIn(p, t) == (Exact * p[t] * Cardinality(DOMAIN p)) \div RankIn(p, t)

\* A p-value is adjusted to no more than the rate exactly when one as large passes
\* at its own rank.
LEMMA AdjustedWithinRate ==
    ASSUME NEW U \in SUBSET Tickers, NEW p \in [U -> PValues], NEW t \in U
    PROVE  BenjaminiHochberg(p)[t] <= Exact * MaxFdr
             <=> \E u \in U : p[u] >= p[t] /\ p[u] * Cardinality(U) <= RankIn(p, u) * MaxFdr
<1> DEFINE m == Cardinality(U)
           larger == {v \in U : p[v] >= p[t]}
           values == {100 * Exact} \cup {RankedIn(p, u) : u \in larger}
<1>1. IsFiniteSet(U) /\ m \in Nat /\ m <= Exact /\ Exact \in Nat \ {0}
    BY TickersAreFinite, FS_Subset, FS_CardinalityType DEF Exact
<1>2. \A u \in U : p[u] \in Nat /\ p[u] <= 100
    BY PercentagesOfTests
<1>3. \A u \in U : RankIn(p, u) \in Nat \ {0} /\ RankIn(p, u) <= Exact
  <2> SUFFICES ASSUME NEW u \in U PROVE RankIn(p, u) \in Nat \ {0} /\ RankIn(p, u) <= Exact
      OBVIOUS
  <2> DEFINE upTo == {v \in U : p[v] <= p[u]}
  <2>1. u \in upTo
      BY <1>2
  <2>2. IsFiniteSet(upTo) /\ Cardinality(upTo) <= m
      BY <1>1, FS_Subset
  <2>3. Cardinality(upTo) \in Nat /\ Cardinality(upTo) # 0
      BY <2>1, <2>2, FS_EmptySet, FS_CardinalityType
  <2>4. RankIn(p, u) = Cardinality(upTo)
      BY DEF RankIn
  <2> QED
      BY <1>1, <2>2, <2>3, <2>4
<1>4. MaxFdr \in Nat /\ MaxFdr < 100
    BY PercentagesOfTests
<1>5. \A u \in U : /\ RankedIn(p, u) \in Nat
                   /\ RankedIn(p, u) <= Exact * MaxFdr <=> p[u] * m <= RankIn(p, u) * MaxFdr
  <2> SUFFICES ASSUME NEW u \in U
               PROVE  /\ RankedIn(p, u) \in Nat
                      /\ RankedIn(p, u) <= Exact * MaxFdr <=> p[u] * m <= RankIn(p, u) * MaxFdr
      OBVIOUS
  <2>1. PICK x \in Nat : x = p[u] * m
    <3>1. p[u] * m \in Nat
        BY <1>1, <1>2
    <3> QED
        BY <3>1
  <2>2. Exact * p[u] * m = Exact * x
      BY <1>1, <1>2, <2>1
  <2>3. RankedIn(p, u) = (Exact * x) \div RankIn(p, u)
      BY <2>2 DEF RankedIn
  <2>4. RankedIn(p, u) \in Nat
    <3>1. Exact * x \in Nat
        BY <1>1
    <3> QED
        BY <1>3, <2>3, <3>1
  <2> QED
      BY <1>1, <1>3, <1>4, <2>1, <2>3, <2>4, RoundingIsExact
<1>6. BenjaminiHochberg(p)[t] = Min(values)
  <2>1. DOMAIN p = U
      OBVIOUS
  <2> QED
      BY <2>1 DEF BenjaminiHochberg, RankedIn, RankIn
<1>7. 100 * Exact \in Nat /\ ~(100 * Exact <= Exact * MaxFdr) /\ Exact * MaxFdr \in Nat
  <2>1. Exact * (MaxFdr + 1) <= Exact * 100
      BY <1>1, <1>4, TimesMonotone
  <2>2. Exact * (MaxFdr + 1) = Exact * MaxFdr + Exact /\ Exact * MaxFdr \in Nat
      BY <1>1, <1>4
  <2> QED
      BY <1>1, <2>1, <2>2
<1>8. Min(values) \in values /\ \A v \in values : Min(values) <= v
  <2>1. values \in SUBSET Nat /\ values # {}
      BY <1>5, <1>7
  <2> QED
      BY <2>1, MinIsLeast
<1>9. ASSUME Min(values) <= Exact * MaxFdr
      PROVE  \E u \in U : p[u] >= p[t] /\ p[u] * m <= RankIn(p, u) * MaxFdr
  <2>1. PICK u \in larger : Min(values) = RankedIn(p, u)
      BY <1>7, <1>8, <1>9
  <2> QED
      BY <1>5, <1>9, <2>1
<1>10. ASSUME NEW u \in U, p[u] >= p[t], p[u] * m <= RankIn(p, u) * MaxFdr
       PROVE  Min(values) <= Exact * MaxFdr
  <2>1. RankedIn(p, u) \in values /\ RankedIn(p, u) <= Exact * MaxFdr
      BY <1>5, <1>10
  <2>2. Min(values) <= RankedIn(p, u) /\ Min(values) \in Nat
    <3>1. values \in SUBSET Nat
        BY <1>5, <1>7
    <3> QED
        BY <1>8, <2>1, <3>1
  <2> QED
      BY <1>5, <1>7, <2>1, <2>2
<1> QED
    BY <1>6, <1>9, <1>10

\* The adjusted p-values find what the step-up rule finds, and nothing that is no
\* lower loss: a p-value within the rate is below one half.
LEMMA AdjustmentIsStepUp ==
    ASSUME NEW U \in SUBSET Tickers, NEW p \in [U -> PValues]
    PROVE  {t \in U : p[t] < LowerLoss /\ BenjaminiHochberg(p)[t] <= Exact * MaxFdr} = StepUp(p)
<1> DEFINE m == Cardinality(U)
           AtMost(k) == {t \in U : p[t] * m <= k * MaxFdr}
           ks == {k \in 0 .. m : Cardinality(AtMost(k)) >= k}
           K == Max(ks)
<1>1. IsFiniteSet(U) /\ m \in Nat
    BY TickersAreFinite, FS_Subset, FS_CardinalityType
<1>2. \A u \in U : p[u] \in Nat /\ p[u] <= 100 /\ p[u] * m \in Nat
  <2>1. \A u \in U : p[u] \in Nat /\ p[u] <= 100
      BY PercentagesOfTests
  <2> QED
      BY <1>1, <2>1
<1>3. MaxFdr \in Nat /\ LowerLoss \in Nat /\ MaxFdr < LowerLoss
    BY PercentagesOfTests
<1>4. \A S \in SUBSET U : IsFiniteSet(S) /\ Cardinality(S) \in Nat /\ Cardinality(S) <= m
    BY <1>1, FS_Subset, FS_CardinalityType
<1>5. StepUp(p) = AtMost(K)
  <2>1. DOMAIN p = U
      OBVIOUS
  <2> QED
      BY <2>1 DEF StepUp
<1>6. K \in 0 .. m /\ Cardinality(AtMost(K)) >= K /\ \A k \in ks : k <= K
  <2>1. AtMost(0) \in SUBSET U
      OBVIOUS
  <2>2. 0 \in ks
      BY <1>1, <1>4, <2>1
  <2>3. ks \in SUBSET Nat /\ ks # {} /\ \A k \in ks : k <= m
    <3>1. ks \subseteq 0 .. m
        OBVIOUS
    <3> HIDE DEF ks
    <3> QED
        BY <1>1, <2>2, <3>1
  <2>4. K \in ks /\ \A k \in ks : k <= K
      BY <1>1, <2>3, MaxIsGreatest
  <2> QED
      BY <2>4
<1> HIDE DEF K
<1>7. \A S, T : S \subseteq T /\ T \subseteq U => Cardinality(S) <= Cardinality(T)
    BY <1>4, FS_Subset
<1>8. \A u \in U : RankIn(p, u) = Cardinality({v \in U : p[v] <= p[u]})
    BY DEF RankIn
<1>9. ASSUME NEW t \in U, NEW u \in U, p[u] >= p[t], p[u] * m <= RankIn(p, u) * MaxFdr
      PROVE  t \in AtMost(K)
  <2> DEFINE r == RankIn(p, u)
             upTo == {v \in U : p[v] <= p[u]}
  <2>1. r = Cardinality(upTo) /\ r \in 0 .. m
      BY <1>1, <1>4, <1>8
  <2>2. upTo \subseteq AtMost(r)
    <3> SUFFICES ASSUME NEW v \in U, p[v] <= p[u] PROVE p[v] * m <= r * MaxFdr
        OBVIOUS
    <3>1. p[v] * m <= p[u] * m /\ p[v] * m \in Nat /\ p[u] * m \in Nat
        BY <1>1, <1>2, TimesMonotone
    <3>2. r * MaxFdr \in Nat
        BY <1>3, <2>1
    <3> QED
        BY <1>9, <3>1, <3>2
  <2>3. AtMost(r) \subseteq U
      OBVIOUS
  <2>4. Cardinality(AtMost(r)) \in Nat /\ Cardinality(upTo) <= Cardinality(AtMost(r))
      BY <1>4, <1>7, <2>2, <2>3
  <2>5. r <= K
      BY <1>6, <2>1, <2>4
  <2> HIDE DEF r
  <2>6. r * MaxFdr <= K * MaxFdr /\ r * MaxFdr \in Nat /\ K * MaxFdr \in Nat
      BY <1>1, <1>3, <1>6, <2>1, <2>5, TimesMonotone
  <2>7. p[t] * m <= p[u] * m
      BY <1>1, <1>2, <1>9, TimesMonotone
  <2>8. p[u] * m <= r * MaxFdr
      BY <1>9 DEF r
  <2> QED
      BY <1>2, <2>6, <2>7, <2>8
<1>10. ASSUME NEW t \in U, t \in AtMost(K)
       PROVE  /\ p[t] < LowerLoss
              /\ \E u \in U : p[u] >= p[t] /\ p[u] * m <= RankIn(p, u) * MaxFdr
  <2>1. p[t] < LowerLoss
    <3>1. m # 0
        BY <1>1, FS_EmptySet
    <3>2. K * MaxFdr <= m * MaxFdr /\ K * MaxFdr \in Nat /\ m * MaxFdr \in Nat /\ m * MaxFdr = MaxFdr * m
        BY <1>1, <1>3, <1>6, TimesMonotone
    <3>3. p[t] * m <= MaxFdr * m
        BY <1>2, <1>10, <3>2
    <3>4. SUFFICES ASSUME ~(p[t] <= MaxFdr) PROVE FALSE
        BY <1>2, <1>3
    <3>5. (MaxFdr + 1) * m <= p[t] * m
        BY <1>1, <1>2, <1>3, <3>4, TimesMonotone
    <3>6. (MaxFdr + 1) * m = MaxFdr * m + m
        BY <1>1, <1>3
    <3> QED
        BY <1>1, <1>2, <1>3, <3>1, <3>2, <3>3, <3>5, <3>6
  <2> DEFINE ps == {p[v] : v \in AtMost(K)}
  <2>2. Max(ps) \in ps /\ \A x \in ps : x <= Max(ps)
    <3>1. ps \in SUBSET Nat /\ ps # {} /\ \A x \in ps : x <= 100
        BY <1>2, <1>10
    <3> QED
        BY <3>1, MaxIsGreatest
  <2>3. PICK u \in AtMost(K) : p[u] = Max(ps)
      BY <2>2
  <2>4. \A v \in AtMost(K) : p[v] <= p[u]
      BY <2>2, <2>3
  <2>5. p[u] >= p[t]
      BY <1>2, <1>10, <2>4
  <2>6. AtMost(K) \subseteq {v \in U : p[v] <= p[u]} /\ {v \in U : p[v] <= p[u]} \subseteq U
      BY <2>4
  <2>7. K <= RankIn(p, u) /\ RankIn(p, u) \in Nat
    <3>1. /\ Cardinality(AtMost(K)) <= Cardinality({v \in U : p[v] <= p[u]})
          /\ Cardinality({v \in U : p[v] <= p[u]}) \in Nat
          /\ Cardinality(AtMost(K)) \in Nat
        BY <1>4, <1>7, <2>6
    <3> QED
        BY <1>1, <1>6, <1>8, <3>1
  <2>8. K * MaxFdr <= RankIn(p, u) * MaxFdr /\ K * MaxFdr \in Nat /\ RankIn(p, u) * MaxFdr \in Nat
      BY <1>1, <1>3, <1>6, <2>7, TimesMonotone
  <2>9. p[u] * m <= RankIn(p, u) * MaxFdr
      BY <1>2, <2>8
  <2> QED
      BY <2>1, <2>5, <2>9
<1>11. \A t \in U : BenjaminiHochberg(p)[t] <= Exact * MaxFdr
                     <=> \E u \in U : p[u] >= p[t] /\ p[u] * m <= RankIn(p, u) * MaxFdr
    BY AdjustedWithinRate
<1>12. \A t \in U : p[t] < LowerLoss /\ BenjaminiHochberg(p)[t] <= Exact * MaxFdr <=> t \in AtMost(K)
    BY <1>9, <1>10, <1>11
<1> QED
    BY <1>5, <1>12

-----------------------------------------------------------------------------
(***************************************************************************)
(* The tasks of a run and the snapshots its prices come from.              *)
(***************************************************************************)
FeatureSets == {"none", "price", "news"}

Task == {<<"load", t>> : t \in Tickers}
            \cup {<<"snapshot">>}
            \cup {<<"walk", f, pool>> : f \in FeatureSets, pool \in SUBSET Tickers}

\* The three forms of a task.
LEMMA FormsOfTasks ==
    /\ \A t \in Tickers : <<"load", t>> \in Task
    /\ <<"snapshot">> \in Task
    /\ \A f \in FeatureSets, pool \in SUBSET Tickers : <<"walk", f, pool>> \in Task
BY DEF Task

\* What a task names is told from its first word.
LEMMA TasksAreTold ==
    ASSUME NEW x \in Task
    PROVE  /\ x[1] \in {"load", "snapshot", "walk"}
           /\ x[1] = "load" => x[2] \in Tickers /\ x = <<"load", x[2]>>
           /\ x[1] = "snapshot" => x = <<"snapshot">>
           /\ x[1] = "walk" => x[2] \in FeatureSets /\ x[3] \in SUBSET Tickers
<1>1. CASE x \in {<<"load", t>> : t \in Tickers}
  <2>1. PICK t \in Tickers : x = <<"load", t>>
      BY <1>1
  <2>2. x[1] = "load" /\ x[2] = t
      BY <2>1
  <2> QED
      BY <2>1, <2>2
<1>2. CASE x = <<"snapshot">>
    BY <1>2
<1>3. CASE x \in {<<"walk", f, pool>> : f \in FeatureSets, pool \in SUBSET Tickers}
  <2>1. PICK f \in FeatureSets, pool \in SUBSET Tickers : x = <<"walk", f, pool>>
      BY <1>3
  <2>2. x[1] = "walk" /\ x[2] = f /\ x[3] = pool
      BY <2>1
  <2> QED
      BY <2>1, <2>2
<1> QED
    BY <1>1, <1>2, <1>3 DEF Task

\* Every ticker is loaded, or will be.
EachLoads(queue, loaded) ==
    \A t \in Tickers : t \in loaded \/ \E q \in DOMAIN queue : queue[q] = <<"load", t>>

\* A walk comes after the loads of its pool.
LoadsFirst(queue, loaded) ==
    \A p \in DOMAIN queue : queue[p][1] = "walk" =>
        \A t \in queue[p][3] : t \in loaded \/ \E q \in 1 .. (p - 1) : queue[q] = <<"load", t>>

\* The snapshot is still to be asked for, and nothing is loaded after that.
AsksLast(queue) ==
    /\ \E p \in DOMAIN queue : queue[p][1] = "snapshot"
    /\ \A p, q \in DOMAIN queue : queue[p][1] = "snapshot" /\ queue[q][1] = "load" => q < p

NoLoads(queue) == \A q \in DOMAIN queue : queue[q][1] # "load"

\* What a walk pools: all tickers, or one.
PoolsRight(queue) ==
    \A p \in DOMAIN queue : queue[p][1] = "walk" =>
        IF Pooled THEN queue[p][3] = Tickers ELSE \E t \in Tickers : queue[p][3] = {t}

\* The tasks after the first, by position.
LEMMA TasksLeft ==
    ASSUME NEW queue \in Seq(Task), queue # <<>>
    PROVE  /\ Tail(queue) \in Seq(Task) /\ queue[1] = Head(queue) /\ Head(queue) \in Task
           /\ DOMAIN queue = 1 .. Len(queue) /\ 1 \in DOMAIN queue
           /\ \A p \in DOMAIN Tail(queue) : p \in Nat \ {0} /\ p + 1 \in DOMAIN queue /\ Tail(queue)[p] = queue[p + 1]
           /\ \A p \in DOMAIN queue : p # 1 => p - 1 \in DOMAIN Tail(queue) /\ Tail(queue)[p - 1] = queue[p]
<1>1. /\ Len(queue) \in Nat \ {0} /\ DOMAIN queue = 1 .. Len(queue)
      /\ Tail(queue) \in Seq(Task) /\ Len(Tail(queue)) = Len(queue) - 1
      /\ Head(queue) \in Task
      /\ \A i \in 1 .. (Len(queue) - 1) : Tail(queue)[i] = queue[i + 1]
    BY EmptySeq, LenProperties, HeadTailProperties
<1>2. DOMAIN Tail(queue) = 1 .. (Len(queue) - 1)
    BY <1>1, LenProperties
<1>3. queue[1] = Head(queue)
    BY <1>1
<1>4. \A p \in DOMAIN queue : p # 1 => p - 1 \in DOMAIN Tail(queue) /\ Tail(queue)[p - 1] = queue[p]
  <2> SUFFICES ASSUME NEW p \in DOMAIN queue, p # 1
               PROVE  p - 1 \in DOMAIN Tail(queue) /\ Tail(queue)[p - 1] = queue[p]
      OBVIOUS
  <2>1. p - 1 \in 1 .. (Len(queue) - 1) /\ p - 1 + 1 = p
      BY <1>1
  <2>2. Tail(queue)[p - 1] = queue[p - 1 + 1]
      BY <1>1, <2>1
  <2> QED
      BY <1>2, <2>1, <2>2
<1> QED
    BY <1>1, <1>2, <1>3, <1>4

\* Doing the first task keeps the order of the others, if what it loads is loaded.
LEMMA TasksGoOn ==
    ASSUME NEW queue \in Seq(Task), queue # <<>>, NEW loaded, NEW now, loaded \subseteq now,
           Head(queue)[1] = "load" => Head(queue)[2] \in now
    PROVE  /\ EachLoads(queue, loaded) => EachLoads(Tail(queue), now)
           /\ LoadsFirst(queue, loaded) => LoadsFirst(Tail(queue), now)
           /\ Head(queue)[1] # "snapshot" /\ AsksLast(queue) => AsksLast(Tail(queue))
           /\ Head(queue)[1] = "snapshot" /\ AsksLast(queue) => NoLoads(Tail(queue))
           /\ NoLoads(queue) => NoLoads(Tail(queue))
           /\ PoolsRight(queue) => PoolsRight(Tail(queue))
<1>1. /\ queue[1] = Head(queue)
      /\ DOMAIN queue = 1 .. Len(queue) /\ 1 \in DOMAIN queue
      /\ \A p \in DOMAIN Tail(queue) : p \in Nat \ {0} /\ p + 1 \in DOMAIN queue /\ Tail(queue)[p] = queue[p + 1]
      /\ \A p \in DOMAIN queue : p # 1 => p - 1 \in DOMAIN Tail(queue) /\ Tail(queue)[p - 1] = queue[p]
    BY TasksLeft
<1>2. \A t : queue[1] = <<"load", t>> => t \in now
    BY <1>1
<1>3. ASSUME EachLoads(queue, loaded) PROVE EachLoads(Tail(queue), now)
  <2> SUFFICES ASSUME NEW t \in Tickers, t \notin now
               PROVE  \E q \in DOMAIN Tail(queue) : Tail(queue)[q] = <<"load", t>>
      BY DEF EachLoads
  <2>1. PICK q \in DOMAIN queue : queue[q] = <<"load", t>>
      BY <1>3 DEF EachLoads
  <2>2. q # 1
      BY <1>2, <2>1
  <2> QED
      BY <1>1, <2>1, <2>2
<1>4. ASSUME LoadsFirst(queue, loaded) PROVE LoadsFirst(Tail(queue), now)
  <2> SUFFICES ASSUME NEW p \in DOMAIN Tail(queue), Tail(queue)[p][1] = "walk",
                      NEW t \in Tail(queue)[p][3], t \notin now
               PROVE  \E q \in 1 .. (p - 1) : Tail(queue)[q] = <<"load", t>>
      BY DEF LoadsFirst
  <2>1. p \in Nat /\ p + 1 \in DOMAIN queue /\ Tail(queue)[p] = queue[p + 1]
      BY <1>1
  <2>2. PICK q \in 1 .. p : queue[q] = <<"load", t>>
    <3>1. PICK k \in DOMAIN queue : k = p + 1
        BY <2>1
    <3>2. queue[k][1] = "walk" /\ t \in queue[k][3] /\ t \notin loaded /\ k - 1 = p
        BY <2>1, <3>1
    <3>3. \E q \in 1 .. (k - 1) : queue[q] = <<"load", t>>
        BY <1>4, <3>2 DEF LoadsFirst
    <3> QED
        BY <3>2, <3>3
  <2>3. q # 1
      BY <1>2, <2>2
  <2>4. q \in DOMAIN queue
      BY <1>1, <2>1
  <2>5. q - 1 \in 1 .. (p - 1) /\ Tail(queue)[q - 1] = queue[q]
      BY <1>1, <2>1, <2>3, <2>4
  <2> QED
      BY <2>2, <2>5
<1>5. ASSUME Head(queue)[1] # "snapshot", AsksLast(queue) PROVE AsksLast(Tail(queue))
  <2>1. PICK p \in DOMAIN queue : queue[p][1] = "snapshot"
      BY <1>5 DEF AsksLast
  <2>2. p # 1
      BY <1>1, <1>5, <2>1
  <2>3. p - 1 \in DOMAIN Tail(queue) /\ Tail(queue)[p - 1][1] = "snapshot"
      BY <1>1, <2>1, <2>2
  <2>4. ASSUME NEW k \in DOMAIN Tail(queue), NEW q \in DOMAIN Tail(queue),
               Tail(queue)[k][1] = "snapshot", Tail(queue)[q][1] = "load"
        PROVE  q < k
    <3>1. /\ k + 1 \in DOMAIN queue /\ queue[k + 1][1] = "snapshot" /\ k \in Nat
          /\ q + 1 \in DOMAIN queue /\ queue[q + 1][1] = "load" /\ q \in Nat
        BY <1>1, <2>4
    <3>2. q + 1 < k + 1
        BY <1>5, <3>1 DEF AsksLast
    <3> QED
        BY <3>1, <3>2
  <2> QED
      BY <2>3, <2>4 DEF AsksLast
<1>6. ASSUME Head(queue)[1] = "snapshot", AsksLast(queue) PROVE NoLoads(Tail(queue))
  <2> SUFFICES ASSUME NEW q \in DOMAIN Tail(queue), Tail(queue)[q][1] = "load" PROVE FALSE
      BY DEF NoLoads
  <2>1. q \in Nat \ {0} /\ q + 1 \in DOMAIN queue /\ queue[q + 1][1] = "load"
      BY <1>1
  <2>2. q + 1 < 1
      BY <1>1, <1>6, <2>1 DEF AsksLast
  <2> QED
      BY <2>1, <2>2
<1>7. NoLoads(queue) => NoLoads(Tail(queue))
    BY <1>1 DEF NoLoads
<1>8. PoolsRight(queue) => PoolsRight(Tail(queue))
    BY <1>1 DEF PoolsRight
<1> QED
    BY <1>3, <1>4, <1>5, <1>6, <1>7, <1>8

\* The tasks every kind of run starts with.
RightTasks(queue) ==
    /\ queue \in Seq(Task)
    /\ kind # "backtest" => EachLoads(queue, {})
    /\ LoadsFirst(queue, {})
    /\ Pooled => AsksLast(queue)
    /\ PoolsRight(queue)

\* The universe as a list of tickers.
LEMMA UniverseLists ==
    /\ DOMAIN Universe = 1 .. Len(Universe) /\ Len(Universe) \in Nat \ {0}
    /\ \A i \in 1 .. Len(Universe) : Universe[i] \in Tickers
    /\ \A t \in Tickers : \E i \in 1 .. Len(Universe) : Universe[i] = t
<1>1. /\ DOMAIN Universe = 1 .. Len(Universe) /\ Len(Universe) \in Nat \ {0}
    BY EvaluationAssumption, LenProperties, EmptySeq
<1> QED
    BY <1>1 DEF Tickers, Range

\* The pooled runs: all loads, the snapshot, then walks over all tickers.
LEMMA PooledTasksRight ==
    ASSUME Pooled, NEW rest \in Seq(Task), Len(rest) # 0, rest[1] = <<"snapshot">>,
           \A p \in 2 .. Len(rest) : rest[p][1] = "walk" /\ rest[p][3] = Tickers
    PROVE  RightTasks(Loads \o rest)
<1> DEFINE n == Len(Universe)
           queue == Loads \o rest
<1>1. n \in Nat \ {0} /\ Len(rest) \in Nat \ {0}
    BY UniverseLists, LenProperties
<1>2. Loads \in Seq(Task) /\ Len(Loads) = n /\ \A i \in 1 .. n : Loads[i] = <<"load", Universe[i]>>
  <2>1. Loads = [i \in 1 .. n |-> <<"load", Universe[i]>>]
      BY UniverseLists DEF Loads
  <2>2. \A i \in 1 .. n : <<"load", Universe[i]>> \in Task
      BY UniverseLists DEF Task
  <2> HIDE DEF n
  <2>3. Loads \in [1 .. n -> Task]
      BY <2>1, <2>2
  <2> QED
      BY <1>1, <2>1, <2>3
<1> HIDE DEF n
<1>3. /\ queue \in Seq(Task) /\ DOMAIN queue = 1 .. (n + Len(rest))
      /\ \A p \in 1 .. n : queue[p] = <<"load", Universe[p]>>
      /\ \A p \in DOMAIN queue : p > n => queue[p] = rest[p - n]
  <2>1. /\ queue \in Seq(Task) /\ Len(queue) = n + Len(rest)
        /\ \A p \in 1 .. n + Len(rest) : queue[p] = IF p <= n THEN Loads[p] ELSE rest[p - n]
      BY <1>2, ConcatProperties
  <2>2. DOMAIN queue = 1 .. (n + Len(rest))
      BY <2>1, LenProperties
  <2> HIDE DEF queue
  <2>3. ASSUME NEW p \in 1 .. n PROVE queue[p] = <<"load", Universe[p]>>
    <3>1. p \in 1 .. n + Len(rest) /\ p <= n
        BY <1>1
    <3> QED
        BY <1>2, <2>1, <3>1
  <2>4. ASSUME NEW p \in DOMAIN queue, p > n PROVE queue[p] = rest[p - n]
    <3>1. p \in 1 .. n + Len(rest) /\ ~(p <= n)
        BY <1>1, <2>2, <2>4
    <3> QED
        BY <2>1, <3>1
  <2> QED
      BY <2>1, <2>2, <2>3, <2>4
<1>4. /\ n + 1 \in DOMAIN queue /\ queue[n + 1] = <<"snapshot">>
      /\ \A p \in DOMAIN queue : p > n + 1 => queue[p][1] = "walk" /\ queue[p][3] = Tickers
  <2> HIDE DEF queue
  <2>1. n + 1 \in DOMAIN queue /\ n + 1 > n /\ n + 1 - n = 1
      BY <1>1, <1>3
  <2>2. queue[n + 1] = <<"snapshot">>
    <3>1. PICK p \in DOMAIN queue : p = n + 1
        BY <2>1
    <3>2. p > n /\ p - n = 1
        BY <1>1, <2>1, <3>1
    <3>3. queue[p] = rest[p - n]
        BY <1>3, <3>2
    <3> QED
        BY <3>1, <3>2, <3>3
  <2>3. ASSUME NEW p \in DOMAIN queue, p > n + 1
        PROVE  queue[p][1] = "walk" /\ queue[p][3] = Tickers
    <3>1. p > n /\ p - n \in 2 .. Len(rest)
        BY <1>1, <1>3, <2>3
    <3> QED
        BY <1>3, <3>1
  <2> QED
      BY <2>1, <2>2, <2>3
<1> HIDE DEF queue
<1>5. \A p \in DOMAIN queue : p \in Nat \ {0} /\ (p \in 1 .. n \/ p = n + 1 \/ p > n + 1)
    BY <1>1, <1>3
<1>6. \A t \in Tickers : \E q \in 1 .. n : q \in DOMAIN queue /\ queue[q] = <<"load", t>>
  <2>1. \A q \in 1 .. n : q \in DOMAIN queue
      BY <1>1, <1>3
  <2> QED
      BY <1>3, <2>1, UniverseLists DEF n
<1>7. EachLoads(queue, {})
    BY <1>6 DEF EachLoads
<1>8. \A p \in DOMAIN queue : queue[p][1] = "walk" => p > n + 1
    BY <1>3, <1>4, <1>5
<1>9. LoadsFirst(queue, {})
  <2> SUFFICES ASSUME NEW p \in DOMAIN queue, queue[p][1] = "walk", NEW t \in queue[p][3]
               PROVE  \E q \in 1 .. (p - 1) : queue[q] = <<"load", t>>
      BY DEF LoadsFirst
  <2>1. p > n + 1 /\ t \in Tickers
      BY <1>4, <1>8
  <2>2. PICK q \in 1 .. n : queue[q] = <<"load", t>>
      BY <1>6, <2>1
  <2>3. q \in 1 .. (p - 1)
      BY <1>1, <1>5, <2>1
  <2> QED
      BY <2>2, <2>3
<1>10. AsksLast(queue)
  <2>1. \A p \in DOMAIN queue : queue[p][1] = "snapshot" => p = n + 1
      BY <1>3, <1>4, <1>5
  <2>2. \A p \in DOMAIN queue : queue[p][1] = "load" => p < n + 1
      BY <1>1, <1>4, <1>5
  <2> QED
      BY <1>4, <2>1, <2>2 DEF AsksLast
<1>11. PoolsRight(queue)
    BY <1>4, <1>8 DEF PoolsRight
<1> QED
    BY <1>3, <1>7, <1>9, <1>10, <1>11 DEF RightTasks, queue

\* One ticker after the other: its load and its two walks.
LEMMA OneByOneRight ==
    ASSUME ~Pooled
    PROVE  RightTasks(OneByOne(<<"price", "news">>))
<1> DEFINE n == Len(Universe)
           queue == OneByOne(<<"price", "news">>)
           sets == <<"price", "news">>
           task(k) == IF (k - 1) % 3 = 0 THEN <<"load", Universe[(k - 1) \div 3 + 1]>>
                      ELSE <<"walk", sets[(k - 1) % 3], {Universe[(k - 1) \div 3 + 1]}>>
<1>1. n \in Nat \ {0}
    BY UniverseLists
<1>2. queue = [k \in 1 .. (n * 3) |-> task(k)]
  <2>1. Len(<<"price", "news">>) + 1 = 3
      OBVIOUS
  <2> QED
      BY <2>1 DEF OneByOne
<1>3. \A k \in 1 .. (n * 3) : /\ (k - 1) \div 3 + 1 \in 1 .. n /\ (k - 1) % 3 \in 0 .. 2
                              /\ k - 1 = 3 * ((k - 1) \div 3) + ((k - 1) % 3)
    BY <1>1
<1> HIDE DEF n
<1>4. \A k \in 1 .. (n * 3) : Universe[(k - 1) \div 3 + 1] \in Tickers
    BY <1>3, UniverseLists DEF n
<1>5. \A k \in 1 .. (n * 3) : task(k) \in Task
  <2> SUFFICES ASSUME NEW k \in 1 .. (n * 3) PROVE task(k) \in Task
      OBVIOUS
  <2>1. PICK t \in Tickers : t = Universe[(k - 1) \div 3 + 1]
      BY <1>4
  <2>2. CASE (k - 1) % 3 = 0
      BY <2>1, <2>2 DEF Task
  <2>3. CASE (k - 1) % 3 # 0
    <3>1. sets[(k - 1) % 3] \in FeatureSets
      <4>1. (k - 1) % 3 \in {1, 2}
          BY <1>3, <2>3
      <4> QED
          BY <4>1 DEF FeatureSets
    <3> HIDE DEF sets
    <3> QED
      <4>1. PICK f \in FeatureSets : f = sets[(k - 1) % 3]
          BY <3>1
      <4>2. task(k) = <<"walk", f, {t}>>
          BY <2>1, <2>3, <4>1
      <4> HIDE DEF task
      <4> QED
          BY <4>1, <4>2, FormsOfTasks
  <2> QED
      BY <2>2, <2>3
<1>6. queue \in Seq(Task) /\ DOMAIN queue = 1 .. (n * 3)
  <2> HIDE DEF task, queue
  <2>1. queue \in [1 .. (n * 3) -> Task] /\ n * 3 \in Nat
      BY <1>1, <1>2, <1>5
  <2> QED
      BY <2>1
<1>7. EachLoads(queue, {})
  <2> SUFFICES ASSUME NEW t \in Tickers PROVE \E q \in DOMAIN queue : queue[q] = <<"load", t>>
      BY DEF EachLoads
  <2>1. PICK i \in 1 .. n : Universe[i] = t
      BY UniverseLists DEF n
  <2>2. PICK q \in 1 .. (n * 3) : q = (i - 1) * 3 + 1
      BY <1>1
  <2>3. (q - 1) % 3 = 0 /\ (q - 1) \div 3 + 1 = i
      BY <1>1, <2>2
  <2>4. queue[q] = <<"load", t>>
      BY <1>2, <2>1, <2>3
  <2> QED
      BY <1>6, <2>4
<1>8. \A k \in 1 .. (n * 3) : queue[k][1] = "walk" =>
          (k - 1) % 3 # 0 /\ queue[k][3] = {Universe[(k - 1) \div 3 + 1]}
    BY <1>2
<1>9. LoadsFirst(queue, {})
  <2> SUFFICES ASSUME NEW k \in 1 .. (n * 3), queue[k][1] = "walk", NEW t \in queue[k][3]
               PROVE  \E q \in 1 .. (k - 1) : queue[q] = <<"load", t>>
      BY <1>6 DEF LoadsFirst
  <2>1. (k - 1) % 3 # 0 /\ t = Universe[(k - 1) \div 3 + 1]
      BY <1>8
  <2>2. PICK q \in 1 .. (k - 1) : q = k - ((k - 1) % 3)
      BY <1>1, <1>3, <2>1
  <2>3. (q - 1) % 3 = 0 /\ (q - 1) \div 3 = (k - 1) \div 3
      BY <1>1, <1>3, <2>2
  <2>4. q \in 1 .. (n * 3)
      BY <1>1, <2>2
  <2>5. queue[q] = <<"load", t>>
      BY <1>2, <2>1, <2>3, <2>4
  <2> QED
      BY <2>5
<1>10. PoolsRight(queue)
    BY <1>4, <1>6, <1>8 DEF PoolsRight
<1> QED
    BY <1>6, <1>7, <1>9, <1>10 DEF RightTasks

\* Every kind of run starts with tasks in the right order.
LEMMA TasksStartRight ==
    ASSUME kind \in Kinds
    PROVE  RightTasks(Tasks(kind))
<1>1. kind \in {"dev", "holdout", "live", "backtest"}
    BY EvaluationAssumption
<1>2. CASE kind = "dev"
  <2> DEFINE rest == <<<<"snapshot">>, <<"walk", "none", Tickers>>,
                       <<"walk", "price", Tickers>>, <<"walk", "news", Tickers>>>>
  <2>1. /\ <<"snapshot">> \in Task
        /\ \A f \in FeatureSets : <<"walk", f, Tickers>> \in Task
      BY DEF Task
  <2>2. rest \in Seq(Task)
      BY <2>1 DEF FeatureSets
  <2>3. /\ Len(rest) = 4 /\ rest[1] = <<"snapshot">>
        /\ \A p \in 2 .. 4 : rest[p][1] = "walk" /\ rest[p][3] = Tickers
    <3>1. \A p \in 2 .. 4 : p = 2 \/ p = 3 \/ p = 4
        OBVIOUS
    <3> QED
        BY <3>1
  <2>4. Tasks(kind) = Loads \o rest
      BY <1>2 DEF Tasks
  <2> HIDE DEF rest
  <2>5. Pooled /\ Len(rest) # 0 /\ \A p \in 2 .. Len(rest) : rest[p][1] = "walk" /\ rest[p][3] = Tickers
      BY <1>2, <2>3 DEF Pooled
  <2>6. RightTasks(Loads \o rest)
      BY <2>2, <2>3, <2>5, PooledTasksRight
  <2> QED
      BY <2>4, <2>6
<1>3. CASE kind = "holdout"
  <2> DEFINE rest == <<<<"snapshot">>, <<"walk", "news", Tickers>>, <<"walk", "price", Tickers>>>>
  <2>1. /\ <<"snapshot">> \in Task
        /\ \A f \in FeatureSets : <<"walk", f, Tickers>> \in Task
      BY DEF Task
  <2>2. rest \in Seq(Task)
      BY <2>1 DEF FeatureSets
  <2>3. /\ Len(rest) = 3 /\ rest[1] = <<"snapshot">>
        /\ \A p \in 2 .. 3 : rest[p][1] = "walk" /\ rest[p][3] = Tickers
    <3>1. \A p \in 2 .. 3 : p = 2 \/ p = 3
        OBVIOUS
    <3> QED
        BY <3>1
  <2>4. Tasks(kind) = Loads \o rest
      BY <1>3 DEF Tasks
  <2> HIDE DEF rest
  <2>5. Pooled /\ Len(rest) # 0 /\ \A p \in 2 .. Len(rest) : rest[p][1] = "walk" /\ rest[p][3] = Tickers
      BY <1>3, <2>3 DEF Pooled
  <2>6. RightTasks(Loads \o rest)
      BY <2>2, <2>3, <2>5, PooledTasksRight
  <2> QED
      BY <2>4, <2>6
<1>4. CASE kind = "live"
    BY <1>4, OneByOneRight DEF Tasks, Pooled
<1>5. CASE kind = "backtest"
  <2> DEFINE queue == <<<<"load", Universe[1]>>, <<"walk", "news", {Universe[1]}>>>>
  <2>1. PICK t \in Tickers : t = Universe[1]
      BY UniverseLists
  <2>2. Tasks(kind) = <<<<"load", t>>, <<"walk", "news", {t}>>>>
      BY <1>5, <2>1 DEF Tasks
  <2>3. PICK q : q = <<<<"load", t>>, <<"walk", "news", {t}>>>>
      OBVIOUS
  <2>4. <<"load", t>> \in Task /\ <<"walk", "news", {t}>> \in Task
    <3>1. "news" \in FeatureSets /\ {t} \in SUBSET Tickers
        BY DEF FeatureSets
    <3> QED
        BY <3>1, FormsOfTasks
  <2>5. q \in Seq(Task) /\ DOMAIN q = {1, 2} /\ q[1] = <<"load", t>> /\ q[2] = <<"walk", "news", {t}>>
      BY <2>3, <2>4
  <2>6. LoadsFirst(q, {})
    <3> SUFFICES ASSUME NEW p \in DOMAIN q, q[p][1] = "walk", NEW u \in q[p][3]
                 PROVE  \E k \in 1 .. (p - 1) : q[k] = <<"load", u>>
        BY DEF LoadsFirst
    <3>1. p = 2 /\ u = t
        BY <2>5
    <3>2. 1 \in 1 .. (p - 1) /\ q[1] = <<"load", u>>
        BY <2>5, <3>1
    <3> QED
        BY <3>2
  <2>7. PoolsRight(q)
      BY <1>5, <2>5 DEF PoolsRight, Pooled
  <2> QED
      BY <1>5, <2>2, <2>3, <2>5, <2>6, <2>7 DEF RightTasks, Pooled
<1> QED
    BY <1>1, <1>2, <1>3, <1>4, <1>5

\* The states of a run: its tasks, the snapshots it used, and what it may report.
RunInv ==
    /\ kind \in Kinds
    /\ pc \in {"next", "fold", "select", "judge", "done"}
    /\ day \in 0 .. 1
    /\ verdict \in {"none", "refused", "mixed", "unsound", "short", "norows", "reported",
                    "proceed", "passed", "rejected"}
    /\ todo \in Seq(Task)
    /\ DOMAIN from \subseteq Tickers
    /\ kind # "backtest" =>
         /\ \A t \in DOMAIN from : from[t] \in SUBSET (0 .. 1) /\ from[t] # {}
         /\ EachLoads(todo, DOMAIN from)
    /\ Pooled => AsksLast(todo) \/ (NoLoads(todo) /\ ~Mixed)
    /\ pc = "fold" => todo # <<>> /\ Head(todo)[1] = "walk"
    /\ pc = "select" => kind = "dev" /\ todo = <<>>
    /\ pc = "judge" => kind \in {"holdout", "live"} /\ todo = <<>>
    /\ verdict \in {"proceed", "passed", "rejected"} =>
         pc = "done" /\ todo = <<>> /\ kind # "backtest" /\ ~Mixed

\* Nothing else was decided, and nothing decided is taken back.
LEMMA RunStays ==
    ASSUME RunInv, UNCHANGED <<kind, day, todo, from>>,
           pc' \in {"next", "fold", "select", "judge", "done"},
           pc' = "fold" => todo # <<>> /\ Head(todo)[1] = "walk",
           pc' = "select" => kind = "dev" /\ todo = <<>>,
           pc' = "judge" => kind \in {"holdout", "live"} /\ todo = <<>>,
           verdict' \in {"none", "refused", "mixed", "unsound", "short", "norows", "reported",
                         "proceed", "passed", "rejected"},
           verdict' \in {"proceed", "passed", "rejected"} =>
               pc' = "done" /\ todo = <<>> /\ kind # "backtest" /\ ~Mixed
    PROVE  RunInv'
BY DEF RunInv, EachLoads, AsksLast, NoLoads, Pooled, Mixed

\* A price source that was asked for is of one day or two.
LEMMA LoadKeepsRun ==
    ASSUME RunInv, Load
    PROVE  RunInv'
<1> DEFINE t == Head(todo)[2]
<1>1. /\ pc = "next" /\ todo # <<>> /\ Head(todo)[1] = "load" /\ kind' = kind
      /\ todo \in Seq(Task) /\ day \in 0 .. 1
    BY DEF Load, Doing, RunInv
<1>2. Head(todo) \in Task /\ Tail(todo) \in Seq(Task) /\ 1 \in DOMAIN todo /\ todo[1] = Head(todo)
    BY <1>1, TasksLeft
<1>3. t \in Tickers
    BY <1>1, <1>2, TasksAreTold
<1>4. PICK began \in day .. 1, ended \in day .. 1 :
          began <= ended /\ day' = ended /\ from' = Put(from, t, FetchedFrom({began, ended}))
    BY DEF Load
<1>5. /\ (pc' = "done" /\ verdict' = "refused" /\ todo' = todo)
         \/ (todo' = Tail(todo) /\ pc' = pc /\ verdict' = verdict)
    BY DEF Load, Fail
<1>6. day' \in 0 .. 1
    BY <1>1, <1>4
<1>7. DOMAIN from' = DOMAIN from \cup {t}
    BY <1>4 DEF Put
<1>8. kind # "backtest" => \A u \in DOMAIN from' : from'[u] \in SUBSET (0 .. 1) /\ from'[u] # {}
  <2> SUFFICES ASSUME kind # "backtest", NEW u \in DOMAIN from'
               PROVE  from'[u] \in SUBSET (0 .. 1) /\ from'[u] # {}
      OBVIOUS
  <2>1. \A days : FetchedFrom(days) = {0} \/ FetchedFrom(days) = days
      BY DEF FetchedFrom
  <2>2. began \in 0 .. 1 /\ ended \in 0 .. 1
      BY <1>1
  <2>3. from'[u] = IF u = t THEN FetchedFrom({began, ended}) ELSE from[u]
      BY <1>4, <1>7 DEF Put
  <2>4. u # t => from[u] \in SUBSET (0 .. 1) /\ from[u] # {}
      BY <1>7 DEF RunInv
  <2>5. FetchedFrom({began, ended}) \in SUBSET (0 .. 1) /\ FetchedFrom({began, ended}) # {}
      BY <2>1, <2>2
  <2> QED
      BY <2>3, <2>4, <2>5
<1>9. Pooled => AsksLast(todo)
  <2>1. ~NoLoads(todo)
      BY <1>1, <1>2 DEF NoLoads
  <2> QED
      BY <2>1 DEF RunInv
<1>10. kind # "backtest" => EachLoads(todo, DOMAIN from)
    BY DEF RunInv
<1>11. verdict \notin {"proceed", "passed", "rejected"}
    BY <1>1 DEF RunInv
<1>12. CASE pc' = "done" /\ verdict' = "refused" /\ todo' = todo
  <2>1. kind # "backtest" => EachLoads(todo, DOMAIN from')
      BY <1>7, <1>10 DEF EachLoads
  <2> QED
      BY <1>1, <1>3, <1>6, <1>7, <1>8, <1>9, <1>12, <2>1 DEF RunInv, EachLoads, AsksLast, Pooled
<1>13. CASE todo' = Tail(todo) /\ pc' = pc /\ verdict' = verdict
  <2> DEFINE now == DOMAIN from'
  <2>1. DOMAIN from \subseteq now /\ t \in now
      BY <1>7
  <2> HIDE DEF now
  <2>2. /\ EachLoads(todo, DOMAIN from) => EachLoads(Tail(todo), now)
        /\ Head(todo)[1] # "snapshot" /\ AsksLast(todo) => AsksLast(Tail(todo))
      BY <1>1, <2>1, TasksGoOn
  <2>3. Head(todo)[1] # "snapshot"
      BY <1>1
  <2>4. Pooled => AsksLast(todo')
      BY <1>9, <1>13, <2>2, <2>3
  <2>5. kind # "backtest" => EachLoads(todo', DOMAIN from')
      BY <1>10, <1>13, <2>2 DEF now
  <2> QED
      BY <1>1, <1>2, <1>3, <1>6, <1>7, <1>8, <1>11, <1>13, <2>4, <2>5
         DEF RunInv, EachLoads, AsksLast, Pooled
<1> QED
    BY <1>5, <1>12, <1>13

\* The snapshot is asked for when everything is loaded, and stops a run that mixed two.
LEMMA SnapshotKeepsRun ==
    ASSUME RunInv, SnapshotUsed
    PROVE  RunInv'
<1>1. /\ pc = "next" /\ todo # <<>> /\ Head(todo)[1] = "snapshot" /\ todo \in Seq(Task)
      /\ UNCHANGED <<kind, day, from>>
    BY DEF SnapshotUsed, Doing, RunInv
<1>2. CASE Mixed
    BY <1>1, <1>2, RunStays DEF SnapshotUsed, Fail
<1>3. CASE ~Mixed
  <2>1. todo' = Tail(todo) /\ pc' = pc /\ verdict' = verdict
      BY <1>3 DEF SnapshotUsed
  <2>2. /\ EachLoads(todo, DOMAIN from) => EachLoads(Tail(todo), DOMAIN from)
        /\ AsksLast(todo) => NoLoads(Tail(todo))
        /\ NoLoads(todo) => NoLoads(Tail(todo))
      BY <1>1, TasksGoOn
  <2>3. kind # "backtest" => EachLoads(todo', DOMAIN from')
      BY <1>1, <2>1, <2>2 DEF RunInv
  <2>4. Pooled => NoLoads(todo') /\ ~Mixed'
      BY <1>1, <1>3, <2>1, <2>2 DEF RunInv, Mixed
  <2>5. todo' \in Seq(Task)
      BY <1>1, <2>1, TasksLeft
  <2>6. /\ kind # "backtest" => \A t \in DOMAIN from : from[t] \in SUBSET (0 .. 1) /\ from[t] # {}
        /\ verdict \notin {"proceed", "passed", "rejected"}
      BY <1>1 DEF RunInv
  <2> QED
      BY <1>1, <2>1, <2>3, <2>4, <2>5, <2>6 DEF RunInv, EachLoads, NoLoads, Pooled
<1> QED
    BY <1>2, <1>3

\* The end of a walk.
LEMMA FinishKeepsRun ==
    ASSUME RunInv, Finish
    PROVE  RunInv'
<1>1. /\ pc = "fold" /\ todo # <<>> /\ Head(todo)[1] = "walk" /\ todo \in Seq(Task)
      /\ UNCHANGED <<kind, day, from>>
    BY DEF Finish, RunInv
<1>2. \/ Fail("norows") \/ Fail("short")
      \/ todo' = Tail(todo) /\ pc' = "next" /\ verdict' = verdict
    BY DEF Finish, judging
<1>3. verdict \notin {"proceed", "passed", "rejected"}
    BY <1>1 DEF RunInv
<1>4. CASE Fail("norows") \/ Fail("short")
    BY <1>1, <1>4, RunStays DEF Fail
<1>5. CASE todo' = Tail(todo) /\ pc' = "next" /\ verdict' = verdict
  <2>1. /\ EachLoads(todo, DOMAIN from) => EachLoads(Tail(todo), DOMAIN from)
        /\ AsksLast(todo) => AsksLast(Tail(todo))
        /\ NoLoads(todo) => NoLoads(Tail(todo))
      BY <1>1, TasksGoOn
  <2>2. kind # "backtest" => EachLoads(todo', DOMAIN from')
      BY <1>1, <1>5, <2>1 DEF RunInv
  <2>3. Pooled => AsksLast(todo') \/ (NoLoads(todo') /\ ~Mixed')
      BY <1>1, <1>5, <2>1 DEF RunInv, Mixed
  <2>4. todo' \in Seq(Task)
      BY <1>1, <1>5, TasksLeft
  <2>5. kind # "backtest" => \A t \in DOMAIN from : from[t] \in SUBSET (0 .. 1) /\ from[t] # {}
      BY DEF RunInv
  <2> QED
      BY <1>1, <1>3, <1>5, <2>2, <2>3, <2>4, <2>5 DEF RunInv, EachLoads, AsksLast, NoLoads, Pooled
<1> QED
    BY <1>2, <1>4, <1>5

\* Every step of a run.
LEMMA RunStep == RunInv /\ [Next]_vars => RunInv'
<1> SUFFICES ASSUME RunInv, [Next]_vars PROVE RunInv'
    OBVIOUS
<1>1. kind \in {"dev", "holdout", "live", "backtest"}
    BY EvaluationAssumption DEF RunInv
<1>2. pc # "done" => verdict \notin {"proceed", "passed", "rejected"}
    BY DEF RunInv
<1>3. /\ pc \in {"next", "fold", "select", "judge", "done"}
      /\ verdict \in {"none", "refused", "mixed", "unsound", "short", "norows", "reported",
                      "proceed", "passed", "rejected"}
    BY DEF RunInv
<1>4. CASE Begin
  <2>1. UNCHANGED <<kind, day, from, todo>> /\ todo # <<>> /\ Head(todo)[1] = "walk" /\ pc = "next"
      BY <1>4 DEF Begin, Doing, Fail
  <2>2. (pc' = "done" /\ verdict' = "unsound") \/ (pc' = "fold" /\ verdict' = verdict)
      BY <1>4 DEF Begin, Fail
  <2> QED
      BY <1>2, <1>3, <2>1, <2>2, RunStays
<1>5. CASE FitAndForecast
  <2>1. UNCHANGED <<kind, day, from, todo>> /\ pc = "fold"
      BY <1>5 DEF FitAndForecast, Fail
  <2>2. (pc' = "done" /\ verdict' = "short") \/ (pc' = pc /\ verdict' = verdict)
      BY <1>5 DEF FitAndForecast, Fail
  <2>3. todo # <<>> /\ Head(todo)[1] = "walk"
      BY <2>1 DEF RunInv
  <2> QED
      BY <1>2, <1>3, <2>1, <2>2, <2>3, RunStays
<1>6. CASE EndWalks
  <2>1. UNCHANGED <<kind, day, from, todo>> /\ todo = <<>> /\ pc = "next"
      BY <1>6 DEF EndWalks
  <2>2. \/ kind = "backtest" /\ pc' = "done" /\ verdict' = "reported"
        \/ kind = "dev" /\ pc' = "select" /\ verdict' = verdict
        \/ kind \in {"holdout", "live"} /\ pc' = "judge" /\ verdict' = verdict
      BY <1>1, <1>6 DEF EndWalks
  <2> QED
      BY <1>2, <1>3, <2>1, <2>2, RunStays
<1>7. Pooled /\ todo = <<>> => ~Mixed
    BY DEF RunInv, AsksLast
<1>8. CASE Select
  <2>1. UNCHANGED <<kind, day, from, todo>> /\ pc' = "done" /\ verdict' \in {"proceed", "rejected"}
      BY <1>8 DEF Select
  <2>2. kind = "dev" /\ todo = <<>>
      BY <1>8 DEF Select, RunInv
  <2> QED
      BY <1>7, <2>1, <2>2, RunStays DEF Pooled
<1>9. CASE Reject
  <2>1. /\ UNCHANGED <<kind, day, from, todo>> /\ pc' = "done"
        /\ verdict' = IF kind = "holdout" THEN "rejected" ELSE "norows"
      BY <1>9 DEF Reject
  <2>2. kind \in {"holdout", "live"} /\ todo = <<>>
      BY <1>9 DEF Reject, RunInv
  <2> QED
      BY <1>7, <2>1, <2>2, RunStays DEF Pooled
<1>10. CASE Compare
  <2>1. UNCHANGED <<kind, day, from, todo, pc, verdict>> /\ pc = "judge"
      BY <1>10 DEF Compare
  <2>2. kind \in {"holdout", "live"} /\ todo = <<>>
      BY <2>1 DEF RunInv
  <2> QED
      BY <1>2, <1>3, <2>1, <2>2, RunStays
<1>11. CASE Conclude
  <2>1. /\ UNCHANGED <<kind, day, from, todo>> /\ pc' = "done"
        /\ verdict' \in {"mixed", "passed", "rejected"} /\ (verdict' # "mixed" => ~Mixed)
      BY <1>11 DEF Conclude
  <2>2. kind \in {"holdout", "live"} /\ todo = <<>>
      BY <1>11 DEF Conclude, RunInv
  <2> QED
      BY <2>1, <2>2, RunStays
<1>12. CASE UNCHANGED vars
  <2>1. UNCHANGED <<kind, day, from, todo, pc, verdict>>
      BY <1>12 DEF vars
  <2> QED
      BY <2>1 DEF RunInv, EachLoads, AsksLast, NoLoads, Pooled, Mixed
<1> QED
    BY <1>4, <1>5, <1>6, <1>8, <1>9, <1>10, <1>11, <1>12, LoadKeepsRun, SnapshotKeepsRun, FinishKeepsRun
       DEF Next

\* Every run starts so.
LEMMA RunInit == Init => RunInv
<1> SUFFICES ASSUME Init PROVE RunInv
    OBVIOUS
<1>1. kind \in Kinds /\ pc = "next" /\ day = 0 /\ verdict = "none" /\ todo = Tasks(kind) /\ DOMAIN from = {}
    BY DEF Init
<1>2. RightTasks(todo)
    BY <1>1, TasksStartRight
<1> QED
    BY <1>1, <1>2 DEF RunInv, RightTasks

\* Always.
LEMMA RunInductive == Spec => []RunInv
<1> QED
    BY RunInit, RunStep, PTL DEF Spec

\* eval/run.py and eval/h2.py: a run that reports a result took the prices of every
\* ticker from the same snapshot, whatever midnights passed while it loaded them.
THEOREM ReportsOneSnapshot == Spec => []OneSnapshot
<1>1. RunInv => OneSnapshot
  <2> SUFFICES ASSUME RunInv, verdict \in {"proceed", "passed", "rejected"}
               PROVE  \E d \in 0 .. 1 : \A t \in Tickers : from[t] = {d}
      BY DEF OneSnapshot
  <2> DEFINE all == UNION Range(from)
  <2>1. /\ todo = <<>> /\ kind # "backtest" /\ ~(Cardinality(all) > 1)
        /\ EachLoads(todo, DOMAIN from)
      BY DEF RunInv, Mixed
  <2>2. \A t \in Tickers : t \in DOMAIN from /\ from[t] \in SUBSET (0 .. 1) /\ from[t] # {} /\ from[t] \subseteq all
    <3>1. \A t \in Tickers : t \in DOMAIN from
        BY <2>1 DEF EachLoads
    <3> QED
        BY <2>1, <3>1 DEF RunInv, Range
  <2>3. all \in SUBSET (0 .. 1)
      BY <2>1 DEF RunInv, Range
  <2>4. IsFiniteSet(all) /\ Cardinality(all) \in Nat
    <3> HIDE DEF all
    <3>1. all \in SUBSET Nat /\ \A d \in all : d <= 1
        BY <2>3
    <3>2. IsFiniteSet(all)
        BY <3>1, FS_BoundedSetOfNaturals
    <3> QED
        BY <3>2, FS_CardinalityType
  <2>5. all # {}
      BY <2>2, TickersAreFinite
  <2> HIDE DEF all
  <2>6. Cardinality(all) = 1
      BY <2>1, <2>4, <2>5, FS_EmptySet
  <2>7. PICK d : all = {d}
      BY <2>4, <2>6, FS_Singleton
  <2>8. d \in 0 .. 1 /\ \A t \in Tickers : from[t] = {d}
      BY <2>2, <2>3, <2>7
  <2> QED
      BY <2>8
<1> QED
    BY <1>1, RunInductive, PTL

-----------------------------------------------------------------------------
(***************************************************************************)
(* The verdict.                                                            *)
(***************************************************************************)
\* What the comparisons made so far have left.
GateInv ==
    /\ DOMAIN rows \subseteq Tickers
    /\ kind = "holdout" => DOMAIN edges \in {{}, {"garch"}, {"garch", "fhs"}}
    /\ kind = "live" => DOMAIN edges \in {{}, {"empirical_quantile"}}
    /\ kind \notin {"holdout", "live"} \/ pc \in {"next", "fold", "select"} => DOMAIN edges = {}
    /\ \A ref \in DOMAIN edges : edges[ref] \subseteq Tickers
    /\ DOMAIN edges = {} => DOMAIN stats = {}
    /\ DOMAIN edges # {} =>
         /\ stats \in [Usable -> PValues]
         /\ edges[References[Cardinality(DOMAIN edges)]] = StepUp(stats)
    /\ verdict = "passed" =>
         /\ kind \in {"holdout", "live"}
         /\ Cardinality(DOMAIN edges) = Len(References)
         /\ Cardinality(Passing) >= MinPassing

\* The sizes of the sets of references that were compared.
LEMMA ReferencesCompared ==
    /\ Cardinality({}) = 0 /\ Cardinality({"garch"}) = 1 /\ Cardinality({"empirical_quantile"}) = 1
    /\ Cardinality({"garch", "fhs"}) = 2
    /\ kind = "holdout" => References = <<"garch", "fhs">> /\ Len(References) = 2
    /\ kind # "holdout" => References = <<"empirical_quantile">> /\ Len(References) = 1
<1>1. \A x : Cardinality({x}) = 1 /\ IsFiniteSet({x})
    BY FS_Singleton
<1>2. \A x, y : x # y => Cardinality({x, y}) = 2
  <2> SUFFICES ASSUME NEW x, NEW y, x # y PROVE Cardinality({x, y}) = 2
      OBVIOUS
  <2>1. Cardinality({x} \cup {y}) = Cardinality({x}) + 1
      BY <1>1, FS_AddElement
  <2>2. {x} \cup {y} = {x, y}
      OBVIOUS
  <2> QED
      BY <1>1, <2>1, <2>2
<1>3. "garch" # "fhs"
    OBVIOUS
<1>4. Cardinality({}) = 0
    BY FS_EmptySet
<1>5. Cardinality({"garch", "fhs"}) = 2
    BY <1>2, <1>3
<1>6. Cardinality({"garch"}) = 1 /\ Cardinality({"empirical_quantile"}) = 1
    BY <1>1
<1>7. /\ kind = "holdout" => References = <<"garch", "fhs">> /\ Len(References) = 2
      /\ kind # "holdout" => References = <<"empirical_quantile">> /\ Len(References) = 1
    BY DEF References
<1> QED
    BY <1>4, <1>5, <1>6, <1>7

\* One comparison adds the discoveries of the step-up rule under its reference.
LEMMA CompareKeepsGate ==
    ASSUME RunInv, GateInv, Compare
    PROVE  GateInv'
<1> DEFINE ref == References[Cardinality(DOMAIN edges) + 1]
<1>1. /\ UNCHANGED <<kind, pc, rows, verdict>> /\ pc = "judge" /\ kind \in {"holdout", "live"}
      /\ Cardinality(DOMAIN edges) < Len(References)
    BY DEF Compare, RunInv
<1>2. PICK p \in [Usable -> PValues] :
          /\ stats' = p
          /\ edges' = Put(edges, ref, {t \in Usable : p[t] < LowerLoss /\ BenjaminiHochberg(p)[t] <= Exact * MaxFdr})
    BY DEF Compare
<1>3. Usable \in SUBSET Tickers
    BY DEF Usable
<1>4. edges' = Put(edges, ref, StepUp(p))
    BY <1>2, <1>3, AdjustmentIsStepUp
<1>5. Usable' = Usable /\ References' = References
    BY <1>1 DEF Usable, References
<1>6. DOMAIN edges' = DOMAIN edges \cup {ref} /\ edges'[ref] = StepUp(p)
      /\ \A r \in DOMAIN edges : r # ref => edges'[r] = edges[r]
    BY <1>4 DEF Put
<1>7. StepUp(p) \subseteq Tickers
    BY <1>3 DEF StepUp
<1>8. /\ kind = "holdout" => DOMAIN edges' \in {{"garch"}, {"garch", "fhs"}}
      /\ kind = "live" => DOMAIN edges' = {"empirical_quantile"}
      /\ ref = References[Cardinality(DOMAIN edges')]
  <2>1. CASE kind = "holdout"
    <3>1. References = <<"garch", "fhs">> /\ DOMAIN edges \in {{}, {"garch"}}
      <4>1. DOMAIN edges \in {{}, {"garch"}, {"garch", "fhs"}}
          BY <2>1 DEF GateInv
      <4>2. /\ References = <<"garch", "fhs">> /\ Len(References) = 2
            /\ Cardinality({"garch", "fhs"}) = 2
          BY <2>1, ReferencesCompared
      <4>3. DOMAIN edges # {"garch", "fhs"}
          BY <1>1, <4>2
      <4> QED
          BY <4>1, <4>2, <4>3
    <3>2. CASE DOMAIN edges = {}
      <4>1. ref = "garch" /\ DOMAIN edges' = {"garch"}
          BY <1>6, <3>1, <3>2, ReferencesCompared
      <4> QED
          BY <2>1, <3>1, <4>1, ReferencesCompared
    <3>3. CASE DOMAIN edges = {"garch"}
      <4>1. ref = "fhs"
          BY <3>1, <3>3, ReferencesCompared
      <4>2. DOMAIN edges' = {"garch", "fhs"}
          BY <1>6, <3>3, <4>1
      <4> QED
          BY <2>1, <3>1, <4>1, <4>2, ReferencesCompared
    <3> QED
        BY <3>1, <3>2, <3>3
  <2>2. CASE kind = "live"
    <3>1. References = <<"empirical_quantile">> /\ DOMAIN edges = {}
      <4>1. DOMAIN edges \in {{}, {"empirical_quantile"}}
          BY <2>2 DEF GateInv
      <4>2. /\ References = <<"empirical_quantile">> /\ Len(References) = 1
            /\ Cardinality({"empirical_quantile"}) = 1
          BY <2>2, ReferencesCompared
      <4>3. DOMAIN edges # {"empirical_quantile"}
          BY <1>1, <4>2
      <4> QED
          BY <4>1, <4>2, <4>3
    <3>2. ref = "empirical_quantile"
        BY <3>1, ReferencesCompared
    <3>3. DOMAIN edges' = {"empirical_quantile"}
        BY <1>6, <3>1, <3>2
    <3> QED
        BY <2>2, <3>1, <3>2, <3>3, ReferencesCompared
  <2> QED
      BY <1>1, <2>1, <2>2
<1> HIDE DEF ref
<1>9. stats' \in [Usable' -> PValues] /\ edges'[References'[Cardinality(DOMAIN edges')]] = StepUp(stats')
    BY <1>2, <1>5, <1>6, <1>8
<1>10. verdict' # "passed"
  <2>1. verdict # "passed"
      BY <1>1 DEF RunInv
  <2> QED
      BY <1>1, <2>1
<1>11. \A r \in DOMAIN edges' : edges'[r] \subseteq Tickers
    BY <1>6, <1>7 DEF GateInv
<1>12. DOMAIN edges' # {}
    BY <1>6
<1>13. DOMAIN rows' \subseteq Tickers
    BY <1>1 DEF GateInv
<1> QED
    BY <1>1, <1>8, <1>9, <1>10, <1>11, <1>12, <1>13 DEF GateInv

\* Steps that compare nothing.
LEMMA GateStays ==
    ASSUME GateInv, UNCHANGED <<kind, rows, edges, stats>>,
           pc' \in {"next", "fold", "select"} => DOMAIN edges = {},
           verdict' = "passed" => verdict = "passed"
    PROVE  GateInv'
<1>1. Usable' = Usable /\ References' = References /\ Passing' = Passing
    BY DEF Usable, References, Passing
<1> QED
    BY <1>1 DEF GateInv

\* Every step of a run.
LEMMA GateStep == RunInv /\ GateInv /\ [Next]_vars => GateInv'
<1> SUFFICES ASSUME RunInv, GateInv, [Next]_vars PROVE GateInv'
    OBVIOUS
<1>1. /\ pc \in {"next", "fold", "select"} => DOMAIN edges = {}
      /\ DOMAIN edges = {} => DOMAIN stats = {}
      /\ pc # "done" => verdict # "passed"
    BY DEF RunInv, GateInv
<1>2. \A why : Fail(why) => UNCHANGED <<rows, edges, stats>> /\ pc' = "done" /\ verdict' = why
    BY DEF Fail, judging
<1>3. CASE Load
  <2>1. UNCHANGED <<kind, rows, edges, stats>> /\ pc = "next"
      BY <1>2, <1>3 DEF Load, Doing, judging
  <2>2. verdict' \in {verdict, "refused"}
      BY <1>2, <1>3 DEF Load
  <2> QED
      BY <1>1, <2>1, <2>2, GateStays
<1>4. CASE SnapshotUsed
  <2>1. UNCHANGED <<kind, rows, edges, stats>> /\ pc = "next" /\ verdict' \in {verdict, "mixed"}
      BY <1>2, <1>4 DEF SnapshotUsed, Doing, judging
  <2> QED
      BY <1>1, <2>1, GateStays
<1>5. CASE Begin
  <2>1. UNCHANGED <<kind, rows, edges, stats>> /\ pc = "next" /\ verdict' \in {verdict, "unsound"}
      BY <1>2, <1>5 DEF Begin, Doing, judging
  <2> QED
      BY <1>1, <2>1, GateStays
<1>6. CASE FitAndForecast
  <2>1. UNCHANGED <<kind, rows, edges, stats>> /\ pc = "fold"
      BY <1>2, <1>6 DEF FitAndForecast, judging
  <2>2. verdict' \in {verdict, "short"}
      BY <1>2, <1>6 DEF FitAndForecast
  <2> QED
      BY <1>1, <2>1, <2>2, GateStays
<1>7. CASE Finish
  <2>1. UNCHANGED <<kind, rows, edges, stats>> /\ pc = "fold" /\ verdict' \in {verdict, "short", "norows"}
      BY <1>2, <1>7 DEF Finish, judging
  <2> QED
      BY <1>1, <2>1, GateStays
<1>8. CASE EndWalks
  <2>1. /\ UNCHANGED <<kind, edges, stats>> /\ pc = "next" /\ verdict' \in {verdict, "reported"}
        /\ DOMAIN rows' \subseteq DOMAIN rows \cup Tickers
      BY <1>8 DEF EndWalks
  <2> QED
      BY <1>1, <2>1 DEF GateInv
<1>9. CASE Select
  <2>1. UNCHANGED <<kind, rows, edges, stats>> /\ pc' = "done" /\ verdict' \in {"proceed", "rejected"}
      BY <1>9 DEF Select, judging
  <2> QED
      BY <1>1, <2>1, GateStays
<1>10. CASE Reject
  <2>1. UNCHANGED <<kind, rows, edges, stats>> /\ pc' = "done" /\ verdict' \in {"rejected", "norows"}
      BY <1>10 DEF Reject, judging
  <2> QED
      BY <1>1, <2>1, GateStays
<1>11. CASE Conclude
  <2>1. /\ UNCHANGED <<kind, rows, edges, stats>> /\ pc = "judge" /\ pc' = "done"
        /\ Cardinality(DOMAIN edges) = Len(References)
      BY <1>11 DEF Conclude, judging
  <2>2. verdict' = "passed" => Cardinality(Passing) >= MinPassing
      BY <1>11 DEF Conclude, Passes
  <2>3. kind \in {"holdout", "live"}
      BY <2>1 DEF RunInv
  <2>4. Usable' = Usable /\ References' = References /\ Passing' = Passing
      BY <2>1 DEF Usable, References, Passing
  <2> QED
      BY <2>1, <2>2, <2>3, <2>4 DEF GateInv
<1>12. CASE UNCHANGED vars
  <2>1. UNCHANGED <<kind, rows, edges, stats, pc, verdict>>
      BY <1>12 DEF vars, judging
  <2> QED
      BY <1>1, <2>1, GateStays
<1> QED
    BY <1>3, <1>4, <1>5, <1>6, <1>7, <1>8, <1>9, <1>10, <1>11, <1>12, CompareKeepsGate DEF Next

\* Before anything was compared.
LEMMA GateInit == Init => GateInv
BY DEF Init, GateInv

\* Always.
LEMMA GateInductive == Spec => []GateInv
<1>1. Init => GateInv
    BY GateInit
<1>2. RunInv /\ GateInv /\ [Next]_vars => GateInv'
    BY GateStep
<1> QED
    BY <1>1, <1>2, RunInductive, PTL DEF Spec

\* eval/gate.py and eval/h2_gate.py: the tickers with an edge in the last comparison are
\* the discoveries of the step-up rule among those with enough scored rows, and a run
\* that passed has enough tickers with an edge over every reference.
THEOREM GateAppliesTheRule == Spec => []GateJudges
<1>1. GateInv => GateJudges
  <2> SUFFICES ASSUME GateInv PROVE GateJudges
      OBVIOUS
  <2> DEFINE enough == {u \in Tickers : rows[u] >= MinPredictions}
  <2>1. enough = Usable
      BY DEF Usable
  <2>2. ASSUME DOMAIN stats # {}
        PROVE  edges[References[Cardinality(DOMAIN edges)]] = StepUp([t \in enough |-> stats[t]])
    <3>1. stats \in [Usable -> PValues] /\ edges[References[Cardinality(DOMAIN edges)]] = StepUp(stats)
        BY <2>2 DEF GateInv
    <3>2. [t \in enough |-> stats[t]] = stats
        BY <2>1, <3>1
    <3> QED
        BY <3>1, <3>2
  <2>3. ASSUME verdict = "passed"
        PROVE  Cardinality({t \in Tickers : /\ rows[t] >= MinPredictions
                                            /\ \A ref \in Range(References) : t \in edges[ref]}) >= MinPassing
    <3>1. /\ kind \in {"holdout", "live"} /\ Cardinality(DOMAIN edges) = Len(References)
          /\ Cardinality(Passing) >= MinPassing
        BY <2>3 DEF GateInv
    <3>2. DOMAIN edges = Range(References)
      <4>1. CASE kind = "holdout"
        <5>1. DOMAIN edges \in {{}, {"garch"}, {"garch", "fhs"}}
            BY <4>1 DEF GateInv
        <5>2. References = <<"garch", "fhs">> /\ DOMAIN edges = {"garch", "fhs"}
            BY <3>1, <4>1, <5>1, ReferencesCompared
        <5>3. Range(<<"garch", "fhs">>) = {"garch", "fhs"}
            BY DEF Range
        <5> QED
            BY <5>2, <5>3
      <4>2. CASE kind = "live"
        <5>1. DOMAIN edges \in {{}, {"empirical_quantile"}}
            BY <4>2 DEF GateInv
        <5>2. References = <<"empirical_quantile">> /\ DOMAIN edges = {"empirical_quantile"}
            BY <3>1, <4>2, <5>1, ReferencesCompared
        <5>3. Range(<<"empirical_quantile">>) = {"empirical_quantile"}
            BY DEF Range
        <5> QED
            BY <5>2, <5>3
      <4> QED
          BY <3>1, <4>1, <4>2
    <3>3. Passing = {t \in Tickers : /\ rows[t] >= MinPredictions
                                     /\ \A ref \in Range(References) : t \in edges[ref]}
        BY <3>2 DEF Passing, Usable
    <3> QED
        BY <3>1, <3>3
  <2> QED
      BY <2>2, <2>3 DEF GateJudges
<1> QED
    BY <1>1, GateInductive, PTL

-----------------------------------------------------------------------------
(***************************************************************************)
(* The folds of every kind of walk: the pooled schedule and the one of     *)
(* whole blocks.                                                           *)
(***************************************************************************)
\* What a walk relies on: fold k trains on positions at least gap before those it
\* tests, and the folds test the positions first .. last - 1 in order, leaving none out.
Covers(F, n, gap, first, last) ==
    /\ DOMAIN F \subseteq Nat
    /\ \A k \in DOMAIN F : k + 1 < n /\ \A j \in 0 .. k : j \in DOMAIN F
    /\ \A k \in DOMAIN F :
          /\ F[k].test # {}
          /\ \A q \in F[k].test : q \in Nat /\ first <= q /\ q < last /\ q < n
          /\ \A p \in F[k].train, q \in F[k].test : p \in Nat /\ p + gap < q
    /\ \A j, k \in DOMAIN F : j < k => \A p \in F[j].test, q \in F[k].test : p < q
    /\ DOMAIN F # {} => \A q \in first .. (last - 1) : \E k \in DOMAIN F : q \in F[k].test

\* A block begins with its first position, holds what lies within its size of that, and
\* lies the gap beyond the positions before it.
LEMMA BlockPositions ==
    ASSUME NEW a \in Nat, NEW train \in Nat, NEW gap \in Nat, NEW end \in Int
    PROVE  /\ a <= end => a \in a .. end
           /\ \A p \in a .. (a + train - 1), q \in (a + train + gap) .. end : p \in Nat /\ p + gap < q
           /\ \A refit, q \in Nat : a <= q - gap /\ q - gap < a + refit
                                    => q \in (a + gap) .. (a + gap + refit - 1)
OBVIOUS

\* The pooled schedule.
LEMMA PooledFolds ==
    ASSUME NEW n \in Nat, NEW train \in Nat \ {0}, NEW refit \in Nat \ {0}, NEW steps \in Nat
    PROVE  Covers(FoldSchedule(n, train, refit, steps), n, steps, train + steps, n)
<1> DEFINE F == FoldSchedule(n, train, refit, steps)
           regular == PurgedWalkForward(n, train, refit, refit, steps)
<1>1. DOMAIN F = {j \in 0 .. n : DOMAIN regular # {} /\ j * refit + train + steps < n}
    BY DEF FoldSchedule
<1>2. ASSUME NEW k \in DOMAIN F, NEW j \in 0 .. k
      PROVE  j \in DOMAIN F
  <2>1. j \in Nat /\ k \in Nat /\ j <= k /\ k <= n /\ k * refit + train + steps < n
      BY <1>1
  <2>2. j * refit <= k * refit /\ j * refit \in Nat /\ k * refit \in Nat
      BY <2>1, TimesMonotone
  <2> QED
      BY <1>1, <2>1, <2>2
<1>3. ASSUME NEW k \in DOMAIN F PROVE k \in Nat /\ k + 1 < n
  <2>1. k \in Nat /\ k * refit + train + steps < n
      BY <1>1
  <2>2. k * 1 <= k * refit /\ k * refit \in Nat
      BY <2>1, TimesMonotone
  <2> QED
      BY <2>1, <2>2
<1>4. ASSUME NEW k \in DOMAIN F
      PROVE  /\ F[k].test # {}
             /\ \A q \in F[k].test : q \in Nat /\ train + steps <= q /\ q < n
             /\ \A p \in F[k].train, q \in F[k].test : p \in Nat /\ p + steps < q
  <2>1. k \in Nat /\ k * refit \in Nat /\ k * refit + train + steps < n
      BY <1>1, FoldForm
  <2>2. PICK end \in Int :
          /\ F[k] = Fold(k * refit, train, steps, end)
          /\ end = k * refit + train + steps + refit - 1 \/ end = n - 1
          /\ end < n
      BY FoldForm
  <2>3. F[k].test = (k * refit + train + steps) .. end /\ F[k].train = (k * refit) .. (k * refit + train - 1)
      BY <2>2 DEF Fold
  <2>4. k * refit + train + steps \in F[k].test
    <3> DEFINE kr == k * refit
               a == kr + train + steps
               test == F[k].test
    <3>1. test = a .. end
        BY <2>3
    <3>2. kr \in Nat /\ a < n /\ (end = a + refit - 1 \/ end = n - 1) /\ end \in Int
        BY <2>1, <2>2
    <3> HIDE DEF kr, test, F
    <3>3. a \in Nat /\ a <= end
        BY <3>2
    <3> HIDE DEF a
    <3>4. a \in test
        BY <3>1, <3>2, <3>3, BlockPositions
    <3> QED
        BY <3>4 DEF a, kr, test
  <2>5. ASSUME NEW q \in F[k].test PROVE q \in Nat /\ train + steps <= q /\ q < n
    <3> DEFINE kr == k * refit
    <3>1. q \in (kr + train + steps) .. end
        BY <2>3, <2>5
    <3>2. kr \in Nat /\ end < n /\ end \in Int
        BY <2>1, <2>2
    <3> HIDE DEF F, kr
    <3> QED
        BY <3>1, <3>2
  <2>6. ASSUME NEW p \in F[k].train, NEW q \in F[k].test PROVE p \in Nat /\ p + steps < q
    <3> DEFINE a == k * refit
    <3>1. a \in Nat /\ p \in a .. (a + train - 1) /\ q \in (a + train + steps) .. end
        BY <2>1, <2>3, <2>6
    <3> HIDE DEF F, a
    <3> QED
        BY <3>1, BlockPositions
  <2> QED
      BY <2>4, <2>5, <2>6
<1>5. \A j, k \in DOMAIN F : j < k => \A p \in F[j].test, q \in F[k].test : p < q
    BY TestsDoNotOverlap
<1>6. DOMAIN F # {} => \A q \in (train + steps) .. (n - 1) : \E k \in DOMAIN F : q \in F[k].test
    BY EveryRowIsTested
<1>7. DOMAIN F \subseteq Nat /\ \A k \in DOMAIN F : k + 1 < n
    BY <1>3
<1> HIDE DEF F
<1>8. Covers(F, n, steps, train + steps, n)
    BY <1>2, <1>4, <1>5, <1>6, <1>7 DEF Covers
<1> QED
    BY <1>8 DEF F

\* The schedule of whole blocks: what is left over is not tested.
LEMMA PurgedFolds ==
    ASSUME NEW n \in Nat, NEW train \in Nat \ {0}, NEW refit \in Nat \ {0}, NEW gap \in Nat
    PROVE  Covers(PurgedWalkForward(n, train, refit, refit, gap), n, gap, train + gap,
                  train + gap + refit * ((n - (train + gap)) \div refit))
<1> DEFINE F == PurgedWalkForward(n, train, refit, refit, gap)
           first == train + gap
           blocks == (n - first) \div refit
           last == first + refit * blocks
<1>1. DOMAIN F = {k \in 0 .. n : k * refit + train + gap + refit <= n}
      /\ \A k \in DOMAIN F : F[k] = Fold(k * refit, train, gap, k * refit + train + gap + refit - 1)
    BY DEF PurgedWalkForward, Starts
<1>2. /\ blocks \in Int /\ n - first = refit * blocks + ((n - first) % refit)
      /\ (n - first) % refit \in 0 .. (refit - 1)
    OBVIOUS
<1>3. refit * blocks \in Int /\ refit * blocks <= n - first /\ n - first < refit * blocks + refit
    BY <1>2
<1>4. ASSUME NEW k \in DOMAIN F
      PROVE  k \in Nat /\ k * refit \in Nat /\ k * refit + first + refit <= n /\ k <= k * refit
  <2>1. k \in Nat /\ k * refit + train + gap + refit <= n
      BY <1>1
  <2>2. k * 1 <= k * refit /\ k * refit \in Nat
      BY <2>1, TimesMonotone
  <2> QED
      BY <2>1, <2>2
<1>5. ASSUME NEW k \in DOMAIN F PROVE k * refit + refit <= refit * blocks
  <2>1. CASE blocks < k + 1
    <3>1. n - first >= refit
        BY <1>4
    <3>2. blocks \in Nat
        BY <1>2, <1>3, <3>1
    <3>3. refit * blocks <= refit * k
        BY <1>4, <2>1, <3>2, TimesMonotone
    <3>4. refit * k = k * refit
        BY <1>4, TimesMonotone
    <3> QED
        BY <1>3, <1>4, <3>3, <3>4
  <2>2. CASE k + 1 <= blocks
    <3>1. k + 1 \in Nat /\ blocks \in Nat
        BY <1>2, <1>4, <2>2
    <3>2. refit * (k + 1) <= refit * blocks
        BY <2>2, <3>1, TimesMonotone
    <3>3. refit * (k + 1) = k * refit + refit
        BY <1>4
    <3> QED
        BY <3>2, <3>3
  <2> QED
      BY <1>2, <1>4, <2>1, <2>2
<1>6. ASSUME NEW k \in DOMAIN F, NEW j \in 0 .. k
      PROVE  j \in DOMAIN F
  <2>1. j * refit <= k * refit /\ j * refit \in Nat /\ j \in Nat /\ j <= n
      BY <1>1, <1>4, TimesMonotone
  <2> QED
      BY <1>1, <1>4, <2>1
<1>7. ASSUME NEW k \in DOMAIN F
      PROVE  /\ F[k].test = (k * refit + first) .. (k * refit + first + refit - 1)
             /\ F[k].train = (k * refit) .. (k * refit + train - 1)
             /\ F[k].test # {}
             /\ \A q \in F[k].test : q \in Nat /\ first <= q /\ q < last /\ q < n
             /\ \A p \in F[k].train, q \in F[k].test : p \in Nat /\ p + gap < q
  <2>1. /\ F[k].test = (k * refit + first) .. (k * refit + first + refit - 1)
        /\ F[k].train = (k * refit) .. (k * refit + train - 1)
    <3> DEFINE a == k * refit
               block == F[k]
    <3>1. block = Fold(a, train, gap, a + train + gap + refit - 1) /\ a \in Nat
        BY <1>1, <1>4
    <3> HIDE DEF F, a, block
    <3>2. block.test = (a + first) .. (a + first + refit - 1) /\ block.train = a .. (a + train - 1)
        BY <3>1 DEF Fold
    <3> QED
        BY <3>2 DEF a, block
  <2>2. k * refit + first \in F[k].test
    <3> DEFINE kr == k * refit
               a == kr + first
               test == F[k].test
    <3>1. kr \in Nat /\ test = a .. (a + refit - 1)
        BY <1>4, <2>1
    <3> HIDE DEF kr, test, F
    <3>2. a \in Nat /\ a + refit - 1 \in Int /\ a <= a + refit - 1
        BY <3>1
    <3> HIDE DEF a
    <3>3. a \in test
        BY <3>1, <3>2, BlockPositions
    <3> QED
        BY <3>3 DEF a, kr, test
  <2>3. ASSUME NEW q \in F[k].test PROVE q \in Nat /\ first <= q /\ q < last /\ q < n
    <3>1. q \in (k * refit + first) .. (k * refit + first + refit - 1)
        BY <2>1
    <3>2. k * refit + refit <= refit * blocks /\ refit * blocks \in Int
        BY <1>3, <1>5
    <3>3. k * refit \in Nat /\ k * refit + first + refit <= n
        BY <1>4
    <3> HIDE DEF F, blocks
    <3> QED
        BY <3>1, <3>2, <3>3
  <2>4. ASSUME NEW p \in F[k].train, NEW q \in F[k].test PROVE p \in Nat /\ p + gap < q
    <3> DEFINE a == k * refit
               end == a + first + refit - 1
    <3>1. a \in Nat /\ p \in a .. (a + train - 1) /\ q \in (a + first) .. end
        BY <1>4, <2>1, <2>4
    <3> HIDE DEF F, a
    <3>2. end \in Int
        BY <3>1
    <3> HIDE DEF end
    <3> QED
        BY <3>1, <3>2, BlockPositions
  <2> QED
      BY <2>1, <2>2, <2>3, <2>4
<1>8. ASSUME NEW j \in DOMAIN F, NEW k \in DOMAIN F, j < k, NEW p \in F[j].test, NEW q \in F[k].test
      PROVE  p < q
  <2>1. j * refit + refit <= k * refit
      BY <1>4, <1>8, BlocksOrdered
  <2>2. p \in (j * refit + first) .. (j * refit + first + refit - 1)
      BY <1>7
  <2>3. q \in (k * refit + first) .. (k * refit + first + refit - 1)
      BY <1>7
  <2> HIDE DEF F
  <2> QED
      BY <1>4, <2>1, <2>2, <2>3
<1>9. ASSUME NEW q \in first .. (last - 1)
      PROVE  \E k \in DOMAIN F : q \in F[k].test
  <2> DEFINE k == (q - first) \div refit
  <2>1. q - first \in Nat /\ q - first < refit * blocks
      BY <1>3
  <2>2. /\ k \in Nat /\ q - first = refit * k + ((q - first) % refit)
        /\ (q - first) % refit \in 0 .. (refit - 1)
      BY <2>1
  <2>3. refit * k \in Nat /\ refit * k = k * refit
      BY <2>2, TimesMonotone
  <2>4. refit * k <= q - first /\ q - first < refit * k + refit
      BY <2>2, <2>3
  <2> HIDE DEF k
  <2>5. refit * k + refit <= refit * blocks
    <3>1. CASE blocks <= k
      <4>1. blocks \in Nat
        <5>1. refit * blocks > 0
            BY <1>3, <2>1
        <5> QED
            BY <1>2, <1>3, <5>1
      <4>2. refit * blocks <= refit * k
          BY <2>2, <3>1, <4>1, TimesMonotone
      <4> QED
          BY <1>3, <2>1, <2>3, <2>4, <4>2
    <3>2. CASE k + 1 <= blocks
      <4>1. refit * (k + 1) <= refit * blocks
          BY <1>2, <2>2, <3>2, TimesMonotone
      <4>2. refit * (k + 1) = refit * k + refit
          BY <2>2
      <4> QED
          BY <4>1, <4>2
    <3> QED
        BY <1>2, <2>2, <3>1, <3>2
  <2>6. k * 1 <= k * refit
      BY <2>2, TimesMonotone
  <2>7. k \in DOMAIN F
      BY <1>1, <1>3, <2>2, <2>3, <2>5, <2>6
  <2>8. q \in F[k].test
    <3> DEFINE a == k * refit
    <3>1. F[k].test = (a + first) .. (a + first + refit - 1)
        BY <1>7, <2>7
    <3>2. a \in Nat /\ q \in Nat /\ first \in Nat /\ a <= q - first /\ q - first < a + refit
        BY <2>1, <2>3, <2>4
    <3> HIDE DEF F, a, first
    <3> QED
        BY <3>1, <3>2, BlockPositions
  <2> QED
      BY <2>7, <2>8
<1>10. DOMAIN F \subseteq Nat /\ \A k \in DOMAIN F : k + 1 < n
    BY <1>4
<1> HIDE DEF F, last
<1>11. Covers(F, n, gap, first, last)
    BY <1>6, <1>7, <1>8, <1>9, <1>10 DEF Covers
<1> QED
    BY <1>11 DEF F, last

\* The embargo, the first position tested and the end of those tested.
Gap == IF kind = "backtest" THEN 0 ELSE Steps
LastOf(n) == IF Pooled THEN n ELSE TrainDates + Gap + RefitEvery * ((n - (TrainDates + Gap)) \div RefitEvery)

\* The sizes are counts.
LEMMA SizesAreCounts ==
    /\ Steps \in Nat \ {0} /\ TrainDates \in Nat \ {0} /\ RefitEvery \in Nat \ {0} /\ Today \in Nat \ {0}
    /\ BaselineWindow \in Nat /\ Week \in Nat /\ TrendsLag \in Nat /\ TrendsLag >= Week
BY EvaluationAssumption

\* The folds of every kind of run.
LEMMA FoldsCover ==
    ASSUME kind \in Kinds, NEW n \in Nat
    PROVE  Covers(FoldsOf(n), n, Gap, TrainDates + Gap, LastOf(n))
<1>1. CASE Pooled
  <2>1. FoldsOf(n) = FoldSchedule(n, TrainDates, RefitEvery, Steps) /\ Gap = Steps /\ LastOf(n) = n
      BY <1>1 DEF FoldsOf, Pooled, Gap, LastOf
  <2> QED
      BY <2>1, PooledFolds, SizesAreCounts
<1>2. CASE ~Pooled
  <2>1. FoldsOf(n) = PurgedWalkForward(n, TrainDates, RefitEvery, RefitEvery, IF kind = "live" THEN Steps ELSE 0)
      BY <1>2 DEF FoldsOf
  <2>2. kind = "live" <=> kind # "backtest"
      BY <1>2, EvaluationAssumption DEF Pooled
  <2>3. FoldsOf(n) = PurgedWalkForward(n, TrainDates, RefitEvery, RefitEvery, Gap)
      BY <2>1, <2>2 DEF Gap
  <2>4. Gap \in Nat
      BY SizesAreCounts DEF Gap
  <2>5. Covers(FoldsOf(n), n, Gap, TrainDates + Gap, TrainDates + Gap + RefitEvery * ((n - (TrainDates + Gap)) \div RefitEvery))
      BY <2>3, <2>4, PurgedFolds, SizesAreCounts
  <2> QED
      BY <1>2, <2>5 DEF LastOf
<1> QED
    BY <1>1, <1>2

-----------------------------------------------------------------------------
(***************************************************************************)
(* What a row of a frame reads: nothing that is not known by the close of  *)
(* its bar.                                                                *)
(***************************************************************************)
\* What the sources of a world hold.
LEMMA DaysOfWorld ==
    ASSUME held \in Worlds, NEW t \in Tickers
    PROVE  /\ held.hist[t].bars \in SUBSET (0 .. Today) /\ held.news[t] \in SUBSET Nat
           /\ held.vix \in SUBSET (0 .. Today)
           /\ held.trends = NoSource \/ held.trends \in SUBSET (0 .. Today)
BY EvaluationAssumption

\* Observations that are known by a moment, and the latest of them.
KnownBy(observations, moment) == \A o \in observations : o.known \in Nat /\ o.known <= moment

\* The latest of observations known by a moment is itself known by then.
LEMMA LatestIsKnown ==
    ASSUME NEW c \in Nat, NEW S, KnownBy(S, c)
    PROVE  Latest(S) \in Nat /\ Latest(S) <= c
<1> DEFINE moments == {o.known : o \in S} \cup {0}
<1>1. moments \in SUBSET Nat /\ moments # {} /\ \A y \in moments : y <= c
    BY DEF KnownBy
<1> HIDE DEF moments
<1>2. Max(moments) \in moments
    BY <1>1, MaxIsGreatest
<1>3. Max(moments) \in Nat /\ Max(moments) <= c
    BY <1>1, <1>2
<1> QED
    BY <1>3 DEF Latest, moments

\* A complete row has no unfilled window, and a filled one reads its series.
LEMMA FilledReads ==
    ASSUME NEW S, NEW n, Trailing(S, n) # NaN
    PROVE  Trailing(S, n) \subseteq S
BY DEF Trailing, Newest

\* Price bars up to a close: each is stamped and complete by that close.
LEMMA BarsKnown ==
    ASSUME NEW S, NEW A \in SUBSET (0 .. Today), NEW d \in Nat, NEW name,
           S \subseteq {Seen(name, Stamp(e), Close(e)) : e \in A}
    PROVE  KnownBy(UpTo(S, Close(d)), Close(d))
<1> SUFFICES ASSUME NEW o \in S, o.at <= Close(d) PROVE o.known \in Nat /\ o.known <= Close(d)
    BY DEF KnownBy, UpTo
<1>1. PICK e \in A : o = Seen(name, Stamp(e), Close(e))
    OBVIOUS
<1>2. o.at = 3 * e /\ o.known = 3 * e + 1 /\ e \in Nat
    BY <1>1 DEF Seen, Stamp, Close
<1> QED
    BY <1>2 DEF Close

\* features.py, dataset.py: every column of a complete row is known by the close of its
\* bar; the trends are read TrendsLag days late because a week is published when it ends.
LEMMA ColumnsKnown ==
    ASSUME kind # "backtest", held \in Worlds, NEW t \in Tickers, NEW d \in Nat,
           Complete(Vector(t, d)), NEW c \in FeatureNames
    PROVE  KnownBy(Vector(t, d)[c], Close(d))
<1> DEFINE rets == UpTo(Prices(t).ret, Close(d))
           vols == UpTo(Prices(t).vol, Close(d))
           trends == TrendsSeries(held.trends)
           sector == UpTo(SectorReturns(t), Close(d))
<1>1. AsOf(d) = Close(d) /\ Regime(d) = {}
    BY DEF AsOf, Regime
<1>2. /\ Vector(t, d).sentiment_agg = Articles(t, Close(d))
      /\ Vector(t, d).estimated_lag_hours = Articles(t, Close(d))
      /\ Vector(t, d).sector_proximity = SectorProximity(SectorReturns(t), Close(d))
      /\ Vector(t, d).momentum_5d = Trailing(rets, MomShort)
      /\ Vector(t, d).momentum_20d = Trailing(rets, MomLong)
      /\ Vector(t, d).realized_vol_20d = Trailing(rets, VolWindow)
      /\ Vector(t, d).volume_zscore = Trailing(vols, VolWindow)
      /\ Vector(t, d).search_interest_zscore = SearchInterest(trends, Close(d))
      /\ Vector(t, d).insider_flow_npr = {}
      /\ Vector(t, d).return_lag_1 = Trailing(rets, 1)
      /\ Vector(t, d).regime_label = {}
    BY <1>1 DEF Vector, FeatureVector, Technical, OriginFrom, InsiderFlow
<1>3. KnownBy(rets, Close(d)) /\ KnownBy(vols, Close(d))
  <2>1. /\ held.hist[t].bars \ {Min(held.hist[t].bars)} \in SUBSET (0 .. Today)
        /\ held.hist[t].bars \ held.hist[t].holes \in SUBSET (0 .. Today)
      BY DaysOfWorld
  <2>2. /\ Prices(t).ret = {Seen(<<"ret", t>>, Stamp(e), Close(e)) : e \in held.hist[t].bars \ {Min(held.hist[t].bars)}}
        /\ Prices(t).vol = {Seen(<<"vol", t>>, Stamp(e), Close(e)) : e \in held.hist[t].bars \ held.hist[t].holes}
      BY DEF Prices
  <2> QED
      BY <2>1, <2>2, BarsKnown
<1>4. KnownBy(sector, Close(d))
  <2> SUFFICES ASSUME NEW o \in SectorReturns(t), o.at <= Close(d) PROVE o.known \in Nat /\ o.known <= Close(d)
      BY DEF KnownBy, UpTo
  <2>1. PICK u \in Tickers : o \in Prices(u).ret
      BY DEF SectorReturns
  <2>2. /\ held.hist[u].bars \ {Min(held.hist[u].bars)} \in SUBSET (0 .. Today)
        /\ Prices(u).ret = {Seen(<<"ret", u>>, Stamp(e), Close(e)) : e \in held.hist[u].bars \ {Min(held.hist[u].bars)}}
      BY DaysOfWorld DEF Prices
  <2>3. KnownBy(UpTo(Prices(u).ret, Close(d)), Close(d))
      BY <2>2, BarsKnown
  <2> QED
      BY <2>1, <2>3 DEF KnownBy, UpTo
<1>5. KnownBy(Articles(t, Close(d)), Close(d))
  <2> SUFFICES ASSUME NEW o \in Articles(t, Close(d)) PROVE o.known \in Nat /\ o.known <= Close(d)
      BY DEF KnownBy
  <2>1. PICK a \in held.news[t] : a <= Close(d) /\ o = Seen(<<"news", t>>, a, a)
      BY DEF Articles
  <2> QED
      BY <2>1, DaysOfWorld DEF Seen
<1>6. ASSUME trends # NoSource PROVE KnownBy(UpTo(trends, Close(d)), Close(d))
  <2> SUFFICES ASSUME NEW o \in trends, o.at <= Close(d) PROVE o.known \in Nat /\ o.known <= Close(d)
      BY DEF KnownBy, UpTo
  <2>1. held.trends # NoSource /\ trends = {[x EXCEPT !.at = @ + TrendsLag] : x \in RawTrends(held.trends)}
      BY <1>6 DEF TrendsSeries, RawTrends
  <2>2. PICK x \in RawTrends(held.trends) : o = [x EXCEPT !.at = @ + TrendsLag]
      BY <2>1
  <2>3. PICK w \in held.trends : x = Seen(<<"trends">>, Stamp(w), Stamp(w) + Week)
      BY <2>1, <2>2 DEF RawTrends
  <2>4. w \in Nat
      BY <2>1, <2>3, DaysOfWorld
  <2>5. o.at = 3 * w + TrendsLag /\ o.known = 3 * w + Week
      BY <2>2, <2>3 DEF Seen, Stamp
  <2> QED
      BY <2>4, <2>5, SizesAreCounts DEF Close
<1>7. \A f \in FeatureNames : Vector(t, d)[f] # NaN
    BY DEF Complete
<1>8. \A S, m : KnownBy(S, Close(d)) /\ Trailing(S, m) # NaN => KnownBy(Trailing(S, m), Close(d))
    BY FilledReads DEF KnownBy
<1>9. KnownBy({}, Close(d))
    BY DEF KnownBy
<1> HIDE DEF rets, vols, sector, trends
<1>10. c \in {"momentum_5d", "momentum_20d", "realized_vol_20d", "return_lag_1"} => KnownBy(Vector(t, d)[c], Close(d))
    BY <1>2, <1>3, <1>7, <1>8
<1>11. c = "volume_zscore" => KnownBy(Vector(t, d)[c], Close(d))
    BY <1>2, <1>3, <1>7, <1>8
<1>12. c \in {"sentiment_agg", "estimated_lag_hours", "insider_flow_npr", "regime_label"}
         => KnownBy(Vector(t, d)[c], Close(d))
    BY <1>2, <1>5, <1>9
<1>13. c = "sector_proximity" => KnownBy(Vector(t, d)[c], Close(d))
  <2>1. SectorProximity(SectorReturns(t), Close(d)) \subseteq sector
      BY DEF SectorProximity, Newest, sector
  <2> QED
      BY <1>2, <1>4, <2>1 DEF KnownBy
<1>14. c = "search_interest_zscore" => KnownBy(Vector(t, d)[c], Close(d))
  <2>1. CASE trends = NoSource
      BY <1>2, <1>9, <2>1 DEF SearchInterest
  <2>2. CASE trends # NoSource
    <3>1. SearchInterest(trends, Close(d)) = Trailing(UpTo(trends, Close(d)), TrendsWindow)
        BY <2>2 DEF SearchInterest
    <3> QED
        BY <1>2, <1>6, <1>7, <1>8, <2>2, <3>1
  <2> QED
      BY <2>1, <2>2
<1> QED
    BY <1>10, <1>11, <1>12, <1>13, <1>14 DEF FeatureNames

\* The complete rows of a ticker are bars of it, and read nothing after their close.
LEMMA FramesKnown ==
    ASSUME held \in Worlds, NEW t \in Tickers
    PROVE  /\ DOMAIN Frame(t) \subseteq held.hist[t].bars
           /\ kind # "backtest" => \A d \in DOMAIN Frame(t), f \in FeatureSets :
                  Frame(t)[d][f] \in Nat /\ Frame(t)[d][f] <= Close(d)
<1> DEFINE raw == [d \in held.hist[t].bars |-> Vector(t, d)]
<1>1. /\ DOMAIN Frame(t) = {e \in held.hist[t].bars : Complete(Vector(t, e))}
      /\ \A d \in DOMAIN Frame(t) :
            Frame(t)[d] = [none  |-> 0,
                           price |-> Latest(UNION {Vector(t, d)[c] : c \in PriceColumns}),
                           news  |-> Latest(Reads(Vector(t, d)))]
    BY DEF Frame
<1>2. ASSUME kind # "backtest", NEW d \in DOMAIN Frame(t)
      PROVE  \A f \in FeatureSets : Frame(t)[d][f] \in Nat /\ Frame(t)[d][f] <= Close(d)
  <2>1. d \in Nat /\ Complete(Vector(t, d))
      BY <1>1, DaysOfWorld
  <2>2. Close(d) \in Nat
      BY <2>1 DEF Close
  <2>3. \A c \in FeatureNames : KnownBy(Vector(t, d)[c], Close(d))
      BY <1>2, <2>1, ColumnsKnown
  <2>4. KnownBy(Reads(Vector(t, d)), Close(d))
      BY <2>3 DEF KnownBy, Reads
  <2>5. PriceColumns \subseteq FeatureNames
      BY DEF PriceColumns, FeatureNames
  <2>6. KnownBy(UNION {Vector(t, d)[c] : c \in PriceColumns}, Close(d))
      BY <2>3, <2>5 DEF KnownBy
  <2>7. /\ Frame(t)[d].none = 0
        /\ Frame(t)[d].price = Latest(UNION {Vector(t, d)[c] : c \in PriceColumns})
        /\ Frame(t)[d].news = Latest(Reads(Vector(t, d)))
    <3>1. \A x, y, z : [none |-> x, price |-> y, news |-> z].none = x
                       /\ [none |-> x, price |-> y, news |-> z].price = y
                       /\ [none |-> x, price |-> y, news |-> z].news = z
        OBVIOUS
    <3>2. PICK y, z : /\ Frame(t)[d] = [none |-> 0, price |-> y, news |-> z]
                      /\ y = Latest(UNION {Vector(t, d)[c] : c \in PriceColumns})
                      /\ z = Latest(Reads(Vector(t, d)))
        BY <1>1, Zenon
    <3> QED
        BY <3>1, <3>2
  <2>8. /\ Frame(t)[d].price \in Nat /\ Frame(t)[d].price <= Close(d)
        /\ Frame(t)[d].news \in Nat /\ Frame(t)[d].news <= Close(d)
      BY <2>2, <2>4, <2>6, <2>7, LatestIsKnown
  <2>9. Frame(t)[d].none \in Nat /\ Frame(t)[d].none <= Close(d)
      BY <2>2, <2>7
  <2> QED
      BY <2>8, <2>9 DEF FeatureSets
<1> QED
    BY <1>1, <1>2

-----------------------------------------------------------------------------
(***************************************************************************)
(* What the walks keep.                                                    *)
(***************************************************************************)
\* The tickers a ticker is walked with, and the rows of it that are due.
Peers(t) == IF Pooled THEN Tickers ELSE {t}
Due(t) == InOrder(MustScore(t, Peers(t)))

\* The rows that the folds so far have scored.
Done(t) == {d \in Rows(t) : InWindow(t, d) /\ \E j \in DOMAIN Folds : j < fold /\ d \in Dates(Folds[j].test)}

Loaded ==
    /\ DOMAIN frames \subseteq Tickers
    /\ \A t \in DOMAIN frames : frames[t] = Frame(t) /\ (kind # "backtest" => ~Refused(t, Frame(t)))
    /\ LoadsFirst(todo, DOMAIN frames) /\ PoolsRight(todo)

RightRows(scores, kept) ==
    /\ \A f \in DOMAIN scores : \A t \in DOMAIN scores[f] :
          /\ t \in Tickers /\ Peers(t) \subseteq DOMAIN frames
          /\ scores[f][t] = [days |-> Due(t), base |-> Baselines(t, Due(t))]
    /\ \A key \in DOMAIN kept : \E t \in Tickers :
          /\ Pooled /\ Tickers \subseteq DOMAIN frames
          /\ key = CacheKey(t, Due(t)) /\ kept[key] = Baselines(t, Due(t))

Scored == RightRows(results, cache)

Walking ==
    /\ ~Unsound
    /\ DOMAIN scored = Pool
    /\ \A t \in Pool : scored[t] = InOrder(Done(t))

WalkInv ==
    /\ DOMAIN results \subseteq FeatureSets
    /\ DOMAIN frames \subseteq Tickers
    /\ \A t \in DOMAIN frames : DOMAIN frames[t] \subseteq 0 .. Today
    /\ fold \in 0 .. Today
    /\ pc \in {"next", "fold"} => held \in Worlds /\ Loaded /\ Scored
    /\ pc = "fold" => Walking

\* What is read off the bars of the loaded world does not move while the world stays.
LEMMA SameBars ==
    ASSUME UNCHANGED <<kind, held>>
    PROVE  /\ Pooled' = Pooled /\ Cut' = Cut /\ Gap' = Gap
           /\ \A n : LastOf(n)' = LastOf(n) /\ FoldsOf(n)' = FoldsOf(n)
           /\ \A t : Bars(t)' = Bars(t)
           /\ \A t, d : /\ Ahead(t, d)' = Ahead(t, d)
                        /\ Labelled(t, d)' = Labelled(t, d)
                        /\ LabelEnd(t, d)' = LabelEnd(t, d)
                        /\ InWindow(t, d)' = InWindow(t, d)
                        /\ Realised(t, d)' = Realised(t, d)
           /\ \A t, days : Baselines(t, days)' = Baselines(t, days)
<1>1. Pooled' = Pooled /\ Cut' = Cut /\ Gap' = Gap
    BY DEF Pooled, Cut, Gap
<1>2. \A n : LastOf(n)' = LastOf(n) /\ FoldsOf(n)' = FoldsOf(n)
    BY DEF LastOf, FoldsOf, Pooled, Gap
<1>3. \A t : Bars(t)' = Bars(t)
    BY DEF Bars, Cut
<1>4. \A t, d : Ahead(t, d)' = Ahead(t, d)
    BY <1>3 DEF Ahead
<1>5. \A t, d : Labelled(t, d)' = Labelled(t, d) /\ LabelEnd(t, d)' = LabelEnd(t, d)
    BY <1>4 DEF Labelled, LabelEnd
<1>6. \A t, d : InWindow(t, d)' = InWindow(t, d)
    BY <1>5 DEF InWindow
<1>7. \A t, d : Realised(t, d)' = Realised(t, d)
    BY <1>3, <1>5 DEF Realised
<1>8. \A t, days : Baselines(t, days)' = Baselines(t, days)
    BY <1>5, <1>7 DEF Baselines
<1> QED
    BY <1>1, <1>2, <1>3, <1>4, <1>5, <1>6, <1>7, <1>8

\* Nor does the frame a ticker would load, or the refusal of one.
LEMMA SameFrames ==
    ASSUME UNCHANGED <<kind, held>>
    PROVE  \A t : Frame(t)' = Frame(t) /\ \A frame : Refused(t, frame)' = Refused(t, frame)
<1>1. \A t, d : Vector(t, d)' = Vector(t, d)
    BY DEF Vector, AsOf, Prices, SectorReturns, VixSeries, Regime, Articles, TrendsSeries, RawTrends
<1>2. \A t : Frame(t)' = Frame(t)
    BY <1>1 DEF Frame
<1>3. \A t, frame : Refused(t, frame)' = Refused(t, frame)
    BY DEF Refused, Articles
<1> QED
    BY <1>2, <1>3

-----------------------------------------------------------------------------
(***************************************************************************)
(* Labels and baselines, counted in bars of the ticker and in dates of the *)
(* calendar.                                                               *)
(***************************************************************************)
\* Places and counts.
LEMMA PositionsGrow ==
    ASSUME NEW S \in SUBSET Nat, IsFiniteSet(S), NEW a \in Nat, NEW b \in Nat, a <= b
    PROVE  Position(a, S) \in Nat /\ Position(b, S) \in Nat /\ Position(a, S) <= Position(b, S)
<1> DEFINE A == {e \in S : a <= e /\ e < b}
<1>1. /\ Position(a, S) \in Nat /\ Position(b, S) \in Nat /\ Cardinality(A) \in Nat
      /\ Position(b, S) = Position(a, S) + Cardinality(A)
    BY PositionsCount
<1> QED
    BY <1>1

\* Members counted between two places: strictly inside, and up to the second place.
LEMMA BetweenCounts ==
    ASSUME NEW S \in SUBSET Nat, IsFiniteSet(S), NEW a \in S, NEW b \in Nat, a < b
    PROVE  LET open == {e \in S : a < e /\ e < b}
               upTo == {e \in S : a < e /\ e <= b}
           IN  /\ Cardinality(open) \in Nat /\ Position(b, S) = Position(a, S) + Cardinality(open) + 1
               /\ Cardinality(upTo) \in Nat
               /\ b \in S => Position(b, S) = Position(a, S) + Cardinality(upTo)
               /\ Position(a, S) \in Nat /\ Position(b, S) \in Nat
<1> DEFINE A == {e \in S : a <= e /\ e < b}
           open == {e \in S : a < e /\ e < b}
           upTo == {e \in S : a < e /\ e <= b}
<1>1. a \in Nat /\ a <= b
    OBVIOUS
<1>2. /\ Position(a, S) \in Nat /\ Position(b, S) \in Nat /\ IsFiniteSet(A) /\ Cardinality(A) \in Nat
      /\ Position(b, S) = Position(a, S) + Cardinality(A)
    BY <1>1, PositionsCount
<1>3. A = open \cup {a} /\ a \notin open
  <2>1. \A e \in S : a <= e /\ e < b <=> (a < e /\ e < b) \/ e = a
      BY <1>1
  <2>2. \A e : e \in A <=> e \in open \cup {a}
      BY <2>1
  <2>3. a \notin open
      BY <1>1
  <2> HIDE DEF A, open
  <2> QED
      BY <2>2, <2>3
<1>4. b \in S => upTo = open \cup {b} /\ b \notin open
  <2>1. \A e \in S : a < e /\ e <= b <=> (a < e /\ e < b) \/ e = b
      BY <1>1
  <2>2. b \in S => \A e : e \in upTo <=> e \in open \cup {b}
      BY <2>1
  <2>3. b \notin open
      BY <1>1
  <2> HIDE DEF upTo, open
  <2> QED
      BY <2>2, <2>3
<1>5. IsFiniteSet(open) /\ IsFiniteSet(upTo)
  <2>1. open \subseteq S /\ upTo \subseteq S
      OBVIOUS
  <2> HIDE DEF open, upTo
  <2> QED
      BY <2>1, FS_Subset
<1> HIDE DEF A, open, upTo
<1>6. Cardinality(open) \in Nat /\ Cardinality(upTo) \in Nat
    BY <1>5, FS_CardinalityType
<1>7. Cardinality(A) = Cardinality(open) + 1
    BY <1>3, <1>5, FS_AddElement
<1>8. b \in S => Cardinality(upTo) = Cardinality(open) + 1
    BY <1>4, <1>5, FS_AddElement
<1>9. /\ Cardinality(open) \in Nat /\ Position(b, S) = Position(a, S) + Cardinality(open) + 1
      /\ Cardinality(upTo) \in Nat
      /\ b \in S => Position(b, S) = Position(a, S) + Cardinality(upTo)
      /\ Position(a, S) \in Nat /\ Position(b, S) \in Nat
    BY <1>2, <1>6, <1>7, <1>8
<1> QED
    BY <1>9 DEF open, upTo

\* Days of a ticker.
LEMMA BarsAreDays ==
    ASSUME held \in Worlds, NEW t \in Tickers
    PROVE  Bars(t) \in SUBSET (0 .. Today) /\ Bars(t) \in SUBSET Nat /\ IsFiniteSet(Bars(t))
<1>1. Bars(t) \in SUBSET (0 .. Today)
    BY DaysOfWorld DEF Bars
<1> QED
    BY <1>1, DaysAreFinite

\* The rows of a loaded frame are days that have a bar.
LEMMA RowsAreDays ==
    ASSUME held \in Worlds, Loaded, NEW t \in DOMAIN frames
    PROVE  t \in Tickers /\ Rows(t) \subseteq Bars(t) /\ Rows(t) \in SUBSET (0 .. Today)
<1>1. t \in Tickers /\ frames[t] = Frame(t)
    BY DEF Loaded
<1>2. DOMAIN Frame(t) \subseteq held.hist[t].bars
    BY <1>1, FramesKnown
<1>3. Rows(t) \subseteq Bars(t)
    BY <1>1, <1>2 DEF Rows, Bars
<1> QED
    BY <1>1, <1>3, BarsAreDays

\* The calendar of loaded tickers holds days, and every row of each of them.
LEMMA CalendarsAreDays ==
    ASSUME held \in Worlds, Loaded, NEW pool \in SUBSET DOMAIN frames
    PROVE  CalendarOf(pool) \in SUBSET (0 .. Today) /\ \A t \in pool : Rows(t) \subseteq CalendarOf(pool)
BY RowsAreDays DEF CalendarOf

\* dataset.py refuses a frame with a row missing, so the bars from a row on are rows.
LEMMA BarsFromARow ==
    ASSUME held \in Worlds, Loaded, kind # "backtest", NEW t \in DOMAIN frames,
           NEW d \in Rows(t), NEW b \in Bars(t), d <= b
    PROVE  b \in Rows(t)
<1> DEFINE first == Min(DOMAIN frames[t])
<1>1. /\ t \in Tickers /\ frames[t] = Frame(t)
      /\ DOMAIN frames[t] = {e \in held.hist[t].bars : e >= first}
    BY DEF Loaded, Refused
<1>2. DOMAIN frames[t] \in SUBSET Nat /\ d \in DOMAIN frames[t]
  <2>1. DOMAIN Frame(t) \subseteq held.hist[t].bars /\ held.hist[t].bars \in SUBSET (0 .. Today)
      BY <1>1, FramesKnown, DaysOfWorld
  <2>2. DOMAIN frames[t] \subseteq 0 .. Today
      BY <1>1, <2>1
  <2>3. DOMAIN frames[t] \in SUBSET Nat
      BY <2>2
  <2> QED
      BY <2>3 DEF Rows
<1>3. first \in Nat /\ first <= d
    BY <1>2, MinIsLeast
<1>4. b \in Nat /\ d \in Nat
    BY <1>1, <1>2, BarsAreDays
<1>5. b \in held.hist[t].bars /\ b <= Cut
    BY DEF Bars
<1>6. b \in DOMAIN frames[t]
  <2>1. b >= first
      BY <1>3, <1>4
  <2> QED
      BY <1>1, <1>5, <2>1, Zenon
<1>7. Pooled => PoolStart <= d /\ PoolStart \in Nat
    BY EvaluationAssumption DEF Rows
<1> QED
    BY <1>4, <1>5, <1>6, <1>7 DEF Rows

\* A label ends at the last of the Steps bars after its row.
LEMMA LabelsCount ==
    ASSUME held \in Worlds, NEW t \in Tickers, NEW d \in Nat, Labelled(t, d)
    PROVE  /\ LabelEnd(t, d) \in Bars(t) /\ LabelEnd(t, d) \in Nat /\ d < LabelEnd(t, d)
           /\ \A S \in SUBSET Bars(t) :
                 (\A c \in S : d < c /\ c < LabelEnd(t, d)) => Cardinality(S) \in Nat /\ Cardinality(S) < Steps
<1> DEFINE end == LabelEnd(t, d)
           upTo == {c \in Bars(t) : d < c /\ c <= end}
<1>1. Ahead(t, d) \subseteq Bars(t) /\ Ahead(t, d) \in SUBSET (0 .. Today)
    BY BarsAreDays DEF Ahead
<1>2. Ahead(t, d) # {}
    BY SizesAreCounts, FS_EmptySet DEF Labelled
<1>3. end \in Ahead(t, d)
    BY <1>1, <1>2, MaxIsGreatest, SizesAreCounts DEF LabelEnd
<1>4. end \in Bars(t) /\ d < end /\ Cardinality(upTo) <= Steps
    BY <1>3 DEF Ahead
<1>5. end \in Nat
    BY <1>4, BarsAreDays
<1>6. ASSUME NEW S \in SUBSET Bars(t), \A c \in S : d < c /\ c < end
      PROVE  Cardinality(S) \in Nat /\ Cardinality(S) < Steps
  <2>1. IsFiniteSet(S) /\ IsFiniteSet(upTo) /\ S \in SUBSET Nat
      BY BarsAreDays, FS_Subset
  <2>2. end \notin S
      BY <1>5, <1>6, <2>1
  <2>3. IsFiniteSet(S \cup {end}) /\ Cardinality(S \cup {end}) = Cardinality(S) + 1
      BY <2>1, <2>2, FS_AddElement
  <2>4. S \cup {end} \subseteq upTo
    <3>1. end \in upTo
        BY <1>4, <1>5
    <3>2. ASSUME NEW c \in S PROVE c \in upTo
        BY <1>5, <1>6, <2>1
    <3> QED
        BY <3>1, <3>2
  <2>5. Cardinality(S \cup {end}) <= Cardinality(upTo) /\ Cardinality(S) \in Nat /\ Cardinality(upTo) \in Nat
      BY <2>1, <2>4, FS_Subset, FS_CardinalityType
  <2> QED
      BY <1>4, <2>3, <2>5, SizesAreCounts
<1> QED
    BY <1>4, <1>5, <1>6

\* A label is complete at a bar that is Steps bars later.
LEMMA LabelsEndBy ==
    ASSUME held \in Worlds, NEW t \in Tickers, NEW d \in Nat, Labelled(t, d),
           NEW m \in Nat, NEW S \in SUBSET Bars(t), Cardinality(S) >= Steps,
           \A c \in S : d < c /\ c <= m
    PROVE  LabelEnd(t, d) <= m
<1>1. SUFFICES ASSUME m < LabelEnd(t, d) PROVE FALSE
    BY LabelsCount
<1>2. \A c \in S : d < c /\ c < LabelEnd(t, d)
    BY <1>1, BarsAreDays, LabelsCount
<1> QED
    BY <1>2, LabelsCount, SizesAreCounts

\* pooled.py and splits.py: the label of a training row ends before the first test row
\* that is more than Steps places after it, whichever rows other tickers have.
LEMMA LabelsEndBeforeRow ==
    ASSUME held \in Worlds, Loaded, kind # "backtest", Pool \subseteq DOMAIN frames, ~Unsound,
           PoolsRight(todo), todo # <<>>, Head(todo)[1] = "walk", todo \in Seq(Task),
           NEW t \in Pool, NEW d \in Rows(t), Labelled(t, d), NEW m \in Calendar,
           Position(d, Calendar) + Steps < Position(m, Calendar)
    PROVE  LabelEnd(t, d) < m /\ d < m
<1>1. /\ t \in Tickers /\ Rows(t) \subseteq Bars(t) /\ Rows(t) \subseteq Calendar
      /\ Calendar \in SUBSET (0 .. Today) /\ Calendar \in SUBSET Nat /\ IsFiniteSet(Calendar)
    BY RowsAreDays, CalendarsAreDays, DaysAreFinite DEF Calendar
<1>2. d \in Nat /\ m \in Nat /\ d \in Calendar
    BY <1>1
<1>3. d < m
  <2>1. SUFFICES ASSUME m <= d PROVE FALSE
      BY <1>2
  <2>2. Position(m, Calendar) <= Position(d, Calendar) /\ Position(m, Calendar) \in Nat /\ Position(d, Calendar) \in Nat
      BY <1>1, <1>2, <2>1, PositionsGrow
  <2> QED
      BY <2>2, SizesAreCounts
<1> DEFINE end == LabelEnd(t, d)
<1>4. end \in Bars(t) /\ end \in Nat /\ d < end
    BY <1>1, <1>2, LabelsCount
<1>5. SUFFICES ASSUME m <= end PROVE FALSE
    BY <1>2, <1>3, <1>4
<1>6. end \in Rows(t)
    BY <1>2, <1>4, BarsFromARow
<1> DEFINE S == {e \in Calendar : d < e /\ e < m}
<1>7. S \subseteq Rows(t)
  <2>1. CASE Pooled
    <3>1. Rows(t) = {e \in Calendar : Min(Rows(t)) <= e /\ e <= Max(Rows(t))}
        BY <2>1 DEF Unsound
    <3>2. Rows(t) \in SUBSET Nat /\ Rows(t) # {} /\ \A e \in Rows(t) : e <= Today
      <4>1. Rows(t) \in SUBSET (0 .. Today)
          BY <1>1
      <4> QED
          BY <4>1
    <3>3. Min(Rows(t)) <= d /\ Min(Rows(t)) \in Nat
        BY <3>2, MinIsLeast
    <3>4. end <= Max(Rows(t)) /\ Max(Rows(t)) \in Nat
        BY <1>6, <3>2, MaxIsGreatest, SizesAreCounts
    <3>5. ASSUME NEW e \in S PROVE e \in Rows(t)
      <4>1. e \in Calendar /\ e \in Nat /\ d < e /\ e < m
          BY <1>1
      <4>2. Min(Rows(t)) <= e /\ e <= Max(Rows(t))
          BY <1>2, <1>4, <1>5, <3>3, <3>4, <4>1
      <4> QED
          BY <3>1, <4>1, <4>2
    <3> QED
        BY <3>5
  <2>2. CASE ~Pooled
    <3>1. \E u \in Tickers : Pool = {u}
        BY <2>2, TasksLeft DEF PoolsRight, Pool
    <3>2. Calendar = Rows(t)
        BY <3>1 DEF Calendar, CalendarOf
    <3> QED
        BY <3>2
  <2> QED
      BY <2>1, <2>2
<1>8. /\ Position(m, Calendar) = Position(d, Calendar) + Cardinality(S) + 1
      /\ Cardinality(S) \in Nat /\ Position(d, Calendar) \in Nat
    BY <1>1, <1>2, <1>3, BetweenCounts
<1>10. IsFiniteSet(S) /\ S \in SUBSET Bars(t)
    BY <1>1, <1>7, FS_Subset
<1>11. Cardinality(S) >= Steps
    BY <1>8, SizesAreCounts
<1>12. \A c \in S : d < c /\ c < end
    BY <1>1, <1>2, <1>4, <1>5
<1> HIDE DEF S
<1>13. Cardinality(S) < Steps
    BY <1>1, <1>2, <1>10, <1>12, LabelsCount
<1> QED
    BY <1>8, <1>11, <1>13, SizesAreCounts

\* baselines.py: the horizons of the rows a baseline samples are over at the row's close.
LEMMA BaselinesKnown ==
    ASSUME kind # "backtest", held \in Worlds, NEW t \in Tickers, NEW days \in Seq(Bars(t)),
           NEW i \in DOMAIN days
    PROVE  Baselines(t, days)[i].known <= Close(days[i])
<1> DEFINE d == days[i]
           known == {Close(d)} \cup {Close(LabelEnd(t, b)) : b \in Realised(t, d)}
<1>1. d \in Bars(t) /\ d \in Nat
    BY BarsAreDays
<1>2. Baselines(t, days)[i].known = Max(known)
    BY DEF Baselines
<1>3. ASSUME NEW b \in Realised(t, d)
      PROVE  LabelEnd(t, b) \in Nat /\ LabelEnd(t, b) <= d
  <2>1. /\ b \in Bars(t) /\ Labelled(t, b) /\ b \in Nat
        /\ Position(b, Bars(t)) <= Position(d, Bars(t)) - Steps
    <3> DEFINE over == Position(d, Bars(t)) - Steps + 1
    <3>1. /\ b \in Bars(t) /\ Labelled(t, b)
          /\ Position(b, Bars(t)) \in (over - BaselineWindow) .. (over - 1)
        BY DEF Realised
    <3>2. Position(d, Bars(t)) \in Nat
        BY <1>1, PositionsGrow, BarsAreDays
    <3>3. Position(b, Bars(t)) <= over - 1
        BY <3>1
    <3> QED
        BY <3>1, <3>2, <3>3, BarsAreDays, SizesAreCounts
  <2>2. Position(b, Bars(t)) \in Nat /\ Position(d, Bars(t)) \in Nat
      BY <1>1, <2>1, PositionsGrow, BarsAreDays
  <2>3. b < d
    <3>1. SUFFICES ASSUME d <= b PROVE FALSE
        BY <1>1, <2>1
    <3>2. Position(d, Bars(t)) <= Position(b, Bars(t))
        BY <1>1, <2>1, <3>1, PositionsGrow, BarsAreDays
    <3> QED
        BY <2>1, <2>2, <3>2, SizesAreCounts
  <2> DEFINE S == {e \in Bars(t) : b < e /\ e <= d}
  <2>4. Cardinality(S) \in Nat /\ Position(d, Bars(t)) = Position(b, Bars(t)) + Cardinality(S)
    <3>1. /\ Bars(t) \in SUBSET Nat /\ IsFiniteSet(Bars(t)) /\ b \in Bars(t) /\ d \in Bars(t)
          /\ d \in Nat /\ b < d
        BY <1>1, <2>1, <2>3, BarsAreDays
    <3> HIDE DEF d
    <3> QED
        BY <3>1, BetweenCounts
  <2>5. Cardinality(S) >= Steps
      BY <2>1, <2>2, <2>4, SizesAreCounts
  <2>9. LabelEnd(t, b) <= d
      BY <1>1, <2>1, <2>5, LabelsEndBy
  <2> QED
      BY <2>1, <2>9, LabelsCount
<1>4. known \in SUBSET Nat /\ known # {} /\ \A y \in known : y <= Close(d)
    BY <1>1, <1>3 DEF Close
<1> HIDE DEF known
<1>5. Close(d) \in Nat
    BY <1>1 DEF Close
<1>6. Max(known) \in known
    BY <1>4, <1>5, MaxIsGreatest
<1> QED
    BY <1>2, <1>4, <1>6

-----------------------------------------------------------------------------
(***************************************************************************)
(* One walk: what its folds score and what they read.                      *)
(***************************************************************************)
\* Whatever walk is at the head of the queue has the tickers it needs.
Ready ==
    /\ kind \in Kinds /\ held \in Worlds /\ Loaded
    /\ todo \in Seq(Task) /\ todo # <<>> /\ Head(todo)[1] = "walk"

\* The walk at the head of the work has its frames loaded, one feature set and a calendar.
LEMMA PoolIsLoaded ==
    ASSUME Ready
    PROVE  /\ Feats \in FeatureSets
           /\ Pool \in SUBSET DOMAIN frames /\ Pool # {} /\ Pool \in SUBSET Tickers
           /\ \A t \in Pool : Peers(t) = Pool
           /\ Calendar \in SUBSET (0 .. Today) /\ Calendar \in SUBSET Nat
           /\ IsFiniteSet(Calendar) /\ Cardinality(Calendar) \in Nat /\ Cardinality(Calendar) <= Today + 1
           /\ \A t \in Pool : Rows(t) \subseteq Calendar
<1>1. /\ todo[1] = Head(todo) /\ 1 \in DOMAIN todo /\ Head(todo) \in Task
    BY TasksLeft DEF Ready
<1>2. Feats \in FeatureSets /\ Pool \in SUBSET Tickers
    BY <1>1, TasksAreTold DEF Feats, Pool, Ready
<1>3. \A t \in Pool : t \in DOMAIN frames
  <2>1. \A t \in Pool : t \in DOMAIN frames \/ \E q \in 1 .. (1 - 1) : todo[q] = <<"load", t>>
      BY <1>1 DEF Ready, Loaded, LoadsFirst, Pool
  <2>2. ~ \E q \in 1 .. (1 - 1) : TRUE
      OBVIOUS
  <2> QED
      BY <2>1, <2>2
<1>4. IF Pooled THEN Pool = Tickers ELSE \E t \in Tickers : Pool = {t}
    BY <1>1 DEF Ready, Loaded, PoolsRight, Pool
<1>5. Pool # {} /\ \A t \in Pool : Peers(t) = Pool
    BY <1>4, TickersAreFinite DEF Peers
<1>6. Calendar \in SUBSET (0 .. Today) /\ \A t \in Pool : Rows(t) \subseteq Calendar
    BY <1>3, CalendarsAreDays DEF Ready, Calendar
<1> QED
    BY <1>2, <1>3, <1>5, <1>6, DaysAreFinite

\* Where a schedule begins and ends are numbers.
LEMMA EndIsAPosition ==
    ASSUME NEW n \in Nat
    PROVE  LastOf(n) \in Int /\ TrainDates + Gap \in Nat
BY SizesAreCounts DEF LastOf, Gap

\* The folds of this walk.
LEMMA WalkCovers ==
    ASSUME Ready
    PROVE  Covers(Folds, Cardinality(Calendar), Gap, TrainDates + Gap, LastOf(Cardinality(Calendar)))
BY PoolIsLoaded, FoldsCover DEF Ready, Folds

\* What is due, by the places in this calendar.
LEMMA DueByPlace ==
    ASSUME Ready, NEW t \in Pool
    PROVE  MustScore(t, Peers(t)) =
             {d \in Rows(t) : /\ Position(d, Calendar) \in (TrainDates + Gap) .. (LastOf(Cardinality(Calendar)) - 1)
                              /\ InWindow(t, d)}
<1>1. CalendarOf(Peers(t)) = Calendar
    BY PoolIsLoaded DEF Calendar
<1> QED
    BY <1>1 DEF MustScore, Gap, LastOf

\* A walk that is over has scored what was due.
LEMMA OverScoresAll ==
    ASSUME Ready, ~Unsound, fold \in Nat, fold \notin DOMAIN Folds, NEW t \in Pool
    PROVE  Done(t) = MustScore(t, Peers(t))
<1> DEFINE n == Cardinality(Calendar)
           first == TrainDates + Gap
           last == LastOf(n)
<1>1. Covers(Folds, n, Gap, first, last)
    BY WalkCovers
<1>2. last \in Int /\ first \in Nat /\ n \in Nat
    BY EndIsAPosition, PoolIsLoaded
<1>3. Rows(t) \subseteq Calendar
    BY PoolIsLoaded
<1> HIDE DEF n, first, last
<1>4. \A k \in DOMAIN Folds : k < fold
  <2> SUFFICES ASSUME NEW k \in DOMAIN Folds, fold <= k PROVE FALSE
      BY <1>1 DEF Covers
  <2>1. k \in Nat /\ fold \in 0 .. k
      BY <1>1 DEF Covers
  <2> QED
      BY <1>1, <2>1 DEF Covers
<1>5. ASSUME NEW d \in Rows(t)
      PROVE  (\E j \in DOMAIN Folds : j < fold /\ d \in Dates(Folds[j].test)) <=> Position(d, Calendar) \in first .. (last - 1)
  <2>1. d \in Calendar /\ \A j : d \in Dates(Folds[j].test) <=> Position(d, Calendar) \in Folds[j].test
      BY <1>3 DEF Dates
  <2>2. ASSUME NEW j \in DOMAIN Folds, Position(d, Calendar) \in Folds[j].test
        PROVE  Position(d, Calendar) \in first .. (last - 1)
    <3>1. Position(d, Calendar) \in Nat /\ first <= Position(d, Calendar) /\ Position(d, Calendar) < last
        BY <1>1, <2>2 DEF Covers
    <3> QED
        BY <1>2, <3>1
  <2>3. ASSUME Position(d, Calendar) \in first .. (last - 1)
        PROVE  \E j \in DOMAIN Folds : j < fold /\ Position(d, Calendar) \in Folds[j].test
    <3>1. DOMAIN Folds # {}
        BY DEF Unsound
    <3> QED
        BY <1>1, <1>4, <2>3, <3>1 DEF Covers
  <2> QED
      BY <2>1, <2>2, <2>3
<1>6. MustScore(t, Peers(t)) = {d \in Rows(t) : Position(d, Calendar) \in first .. (last - 1) /\ InWindow(t, d)}
    BY DueByPlace DEF n, first, last
<1> QED
    BY <1>5, <1>6 DEF Done

\* A fold scores rows that are later than all those scored before.
LEMMA FoldScoresMore ==
    ASSUME Ready, fold \in DOMAIN Folds, NEW t \in Pool
    PROVE  LET now == {d \in Dates(Folds[fold].test) \cap Rows(t) : InWindow(t, d)}
               done == {d \in Rows(t) : InWindow(t, d) /\ \E j \in DOMAIN Folds : j < fold + 1 /\ d \in Dates(Folds[j].test)}
           IN  InOrder(done) = InOrder(Done(t)) \o InOrder(now)
<1> DEFINE now == {d \in Dates(Folds[fold].test) \cap Rows(t) : InWindow(t, d)}
           done == {d \in Rows(t) : InWindow(t, d) /\ \E j \in DOMAIN Folds : j < fold + 1 /\ d \in Dates(Folds[j].test)}
<1>1. Covers(Folds, Cardinality(Calendar), Gap, TrainDates + Gap, LastOf(Cardinality(Calendar)))
    BY WalkCovers
<1>2. DOMAIN Folds \subseteq Nat /\ fold \in Nat
    BY <1>1 DEF Covers
<1>3. \A j \in DOMAIN Folds : j < fold + 1 <=> j < fold \/ j = fold
    BY <1>2
<1>4. done = Done(t) \cup now
    BY <1>3 DEF Done
<1>5. now \in SUBSET (0 .. Today) /\ Done(t) \in SUBSET (0 .. Today)
  <2>1. Rows(t) \in SUBSET (0 .. Today)
      BY PoolIsLoaded
  <2> QED
      BY <2>1 DEF Done
<1>6. ASSUME NEW a \in Done(t), NEW b \in now PROVE a < b
  <2>1. PICK j \in DOMAIN Folds : j < fold /\ a \in Dates(Folds[j].test)
      BY DEF Done
  <2>2. a \in Calendar /\ Position(a, Calendar) \in Folds[j].test
      BY <2>1 DEF Dates
  <2>3. b \in Calendar /\ Position(b, Calendar) \in Folds[fold].test
      BY DEF Dates
  <2>4. Position(a, Calendar) < Position(b, Calendar)
      BY <1>1, <2>1, <2>2, <2>3 DEF Covers
  <2>5. a \in Nat /\ b \in Nat
      BY <2>2, <2>3, PoolIsLoaded
  <2>6. SUFFICES ASSUME b <= a PROVE FALSE
      BY <2>5
  <2>7. /\ Position(b, Calendar) <= Position(a, Calendar)
        /\ Position(b, Calendar) \in Nat /\ Position(a, Calendar) \in Nat
      BY <2>5, <2>6, PoolIsLoaded, PositionsGrow
  <2> QED
      BY <2>4, <2>7
<1> HIDE DEF now, done
<1>7. InOrder(done) = InOrder(Done(t)) \o InOrder(now)
    BY <1>4, <1>5, <1>6, InOrderJoins
<1> QED
    BY <1>7 DEF now, done

\* The inputs of a row are known by its close.
LEMMA RegimeKnown ==
    ASSUME Ready, ~Unsound, NEW d \in Calendar
    PROVE  \A x \in VixRead(d) : x \in Nat /\ x <= Close(d)
<1> SUFFICES ASSUME RefitsRegime PROVE Close(Max(VixUpTo(d))) \in Nat /\ Close(Max(VixUpTo(d))) <= Close(d)
    BY DEF VixRead
<1>1. VixUpTo(d) # {} /\ d \in Nat
    BY PoolIsLoaded DEF Unsound
<1>2. VixUpTo(d) \in SUBSET Nat /\ \A v \in VixUpTo(d) : v <= d
  <2>1. held.vix \in SUBSET (0 .. Today)
      BY TickersAreFinite, DaysOfWorld DEF Ready
  <2> QED
      BY <2>1 DEF VixUpTo
<1>3. Max(VixUpTo(d)) \in VixUpTo(d)
    BY <1>1, <1>2, MaxIsGreatest
<1>4. Max(VixUpTo(d)) \in Nat /\ Max(VixUpTo(d)) <= d
    BY <1>2, <1>3
<1> QED
    BY <1>1, <1>4 DEF Close

\* What a forecast of a row reads is known by the close of that row.
LEMMA InputsKnown ==
    ASSUME Ready, ~Unsound, kind # "backtest", NEW t \in Pool, NEW d \in Rows(t)
    PROVE  \A x \in Inputs(t, d) : x \in Nat /\ x <= Close(d)
<1>1. t \in DOMAIN frames /\ frames[t] = Frame(t) /\ t \in Tickers /\ d \in DOMAIN frames[t]
    BY PoolIsLoaded DEF Ready, Loaded, Rows
<1>2. frames[t][d][Feats] \in Nat /\ frames[t][d][Feats] <= Close(d)
    BY <1>1, PoolIsLoaded, FramesKnown DEF Ready
<1>3. d \in Calendar /\ d \in Nat
    BY PoolIsLoaded
<1>4. Close(d) \in Nat /\ Close(d) <= Close(d)
    BY <1>3 DEF Close
<1>5. \A x \in VixRead(d) : x \in Nat /\ x <= Close(d)
    BY <1>3, RegimeKnown
<1> QED
    BY <1>2, <1>4, <1>5 DEF Inputs

\* A fold tests some date, and all it learned from was complete before the first one.
LEMMA TestsSomeDate ==
    ASSUME Ready, fold \in DOMAIN Folds
    PROVE  LET test == Dates(Folds[fold].test)
           IN  test \in SUBSET Calendar /\ Min(test) \in test /\ Min(test) \in Nat
               /\ \A d \in test : d \in Nat /\ Min(test) <= d
<1> DEFINE test == Dates(Folds[fold].test)
<1>1. Covers(Folds, Cardinality(Calendar), Gap, TrainDates + Gap, LastOf(Cardinality(Calendar)))
    BY WalkCovers
<1>2. PICK q \in Folds[fold].test : q \in Nat /\ q < Cardinality(Calendar)
    BY <1>1 DEF Covers
<1>3. \E d \in Calendar : Position(d, Calendar) = q
  <2>1. q \in 0 .. (Cardinality(Calendar) - 1)
      BY <1>2, PoolIsLoaded
  <2> QED
      BY <2>1, PoolIsLoaded, PositionsNumber
<1>4. test \in SUBSET Calendar /\ test # {} /\ test \in SUBSET Nat
    BY <1>2, <1>3, PoolIsLoaded DEF Dates
<1> HIDE DEF test
<1>5. Min(test) \in test /\ \A d \in test : Min(test) <= d
    BY <1>4, MinIsLeast
<1>6. test \in SUBSET Calendar /\ Min(test) \in test /\ Min(test) \in Nat
      /\ \A d \in test : d \in Nat /\ Min(test) <= d
    BY <1>4, <1>5
<1> QED
    BY <1>6 DEF test

TaughtBy(train) ==
    (UNION {UNION {{Close(LabelEnd(t, d))} \cup Inputs(t, d) :
                    d \in {e \in train \cap Rows(t) : Labelled(t, e)}} : t \in Pool})
    \cup (UNION {VixRead(d) : d \in train})

\* What a fold learns from is complete before the stamp of its first test row.
LEMMA TaughtBeforeTests ==
    ASSUME Ready, ~Unsound, kind # "backtest", fold \in DOMAIN Folds,
           NEW x \in TaughtBy(Dates(Folds[fold].train))
    PROVE  x \in Nat /\ x < Stamp(Min(Dates(Folds[fold].test)))
<1> DEFINE train == Dates(Folds[fold].train)
           m == Min(Dates(Folds[fold].test))
<1>1. /\ m \in Calendar /\ m \in Nat /\ Position(m, Calendar) \in Folds[fold].test
    BY TestsSomeDate DEF Dates
<1>2. \A d \in train : d \in Calendar /\ d \in Nat /\ Position(d, Calendar) \in Folds[fold].train
    BY PoolIsLoaded DEF Dates
<1>3. \A d \in train : Position(d, Calendar) + Steps < Position(m, Calendar)
  <2>1. Covers(Folds, Cardinality(Calendar), Gap, TrainDates + Gap, LastOf(Cardinality(Calendar)))
      BY WalkCovers
  <2>2. Gap = Steps
      BY DEF Gap
  <2> HIDE DEF m, train
  <2> QED
      BY <1>1, <1>2, <2>1, <2>2 DEF Covers
<1>4. \A d \in train : d < m
  <2> SUFFICES ASSUME NEW d \in train, m <= d PROVE FALSE
      BY <1>1, <1>2
  <2>1. /\ Position(m, Calendar) <= Position(d, Calendar)
        /\ Position(m, Calendar) \in Nat /\ Position(d, Calendar) \in Nat
    <3>1. d \in Nat /\ m \in Nat
        BY <1>1, <1>2
    <3> HIDE DEF m, train
    <3> QED
        BY <3>1, PoolIsLoaded, PositionsGrow
  <2>2. Position(d, Calendar) + Steps < Position(m, Calendar)
      BY <1>3
  <2> HIDE DEF m, train
  <2> QED
      BY <2>1, <2>2, SizesAreCounts
<1> HIDE DEF m, train
<1>5. ASSUME NEW d \in train, x \in Nat, x <= Close(d)
      PROVE  x \in Nat /\ x < Stamp(m)
    BY <1>1, <1>2, <1>4, <1>5 DEF Close, Stamp
<1>6. CASE x \in UNION {VixRead(d) : d \in train}
  <2>1. PICK d \in train : x \in VixRead(d)
      BY <1>6
  <2> QED
      BY <1>2, <1>5, <2>1, RegimeKnown DEF m
<1>7. CASE x \notin UNION {VixRead(d) : d \in train}
  <2>1. PICK t \in Pool : x \in UNION {{Close(LabelEnd(t, d))} \cup Inputs(t, d) :
                                        d \in {e \in train \cap Rows(t) : Labelled(t, e)}}
    <3>1. x \in TaughtBy(train)
        BY DEF train
    <3> DEFINE of(t) == UNION {{Close(LabelEnd(t, d))} \cup Inputs(t, d) :
                                d \in {e \in train \cap Rows(t) : Labelled(t, e)}}
    <3>2. x \in (UNION {of(t) : t \in Pool}) \cup (UNION {VixRead(d) : d \in train})
        BY <3>1 DEF TaughtBy
    <3> HIDE DEF of
    <3>3. x \in UNION {of(t) : t \in Pool}
        BY <1>7, <3>2
    <3>4. \E t \in Pool : x \in of(t)
        BY <3>3
    <3> QED
        BY <3>4 DEF of
  <2>2. PICK d \in train \cap Rows(t) : Labelled(t, d) /\ x \in {Close(LabelEnd(t, d))} \cup Inputs(t, d)
      BY <2>1
  <2>3. CASE x \in Inputs(t, d)
      BY <1>5, <2>2, <2>3, InputsKnown DEF m
  <2>4. CASE x = Close(LabelEnd(t, d))
    <3>1. LabelEnd(t, d) < m
        BY <1>1, <1>3, <2>2, PoolIsLoaded, LabelsEndBeforeRow DEF Ready, Loaded
    <3>2. LabelEnd(t, d) \in Nat
        BY <1>2, <2>2, PoolIsLoaded, LabelsCount DEF Ready
    <3> QED
        BY <1>1, <2>4, <3>1, <3>2 DEF Close, Stamp, m
  <2> QED
      BY <2>2, <2>3, <2>4
<1> QED
    BY <1>6, <1>7

\* What was due stays due while frames are only added.
FramesKept ==
    /\ UNCHANGED <<kind, held>>
    /\ \A t \in DOMAIN frames : t \in DOMAIN frames' /\ frames'[t] = frames[t]

\* Loading another ticker leaves the rows and calendars of those loaded as they are.
LEMMA RowsStay ==
    ASSUME FramesKept
    PROVE  /\ \A t : Peers(t)' = Peers(t)
           /\ \A t \in DOMAIN frames : Rows(t)' = Rows(t)
           /\ \A pool \in SUBSET DOMAIN frames : CalendarOf(pool)' = CalendarOf(pool)
<1>1. Pooled' = Pooled /\ Cut' = Cut
    BY DEF FramesKept, Pooled, Cut
<1>2. \A t : Peers(t)' = Peers(t)
    BY <1>1 DEF Peers
<1>3. \A t \in DOMAIN frames : Rows(t)' = Rows(t)
    BY <1>1 DEF FramesKept, Rows
<1>4. \A pool \in SUBSET DOMAIN frames : CalendarOf(pool)' = CalendarOf(pool)
    BY <1>3 DEF CalendarOf
<1> QED
    BY <1>2, <1>3, <1>4

\* Nor does it change the rows due to a ticker whose pool is loaded.
LEMMA DueStays ==
    ASSUME FramesKept, NEW t \in Tickers, Peers(t) \subseteq DOMAIN frames
    PROVE  Due(t)' = Due(t)
<1>1. /\ Peers(t)' = Peers(t) /\ Rows(t)' = Rows(t) /\ CalendarOf(Peers(t))' = CalendarOf(Peers(t))
  <2>1. t \in Peers(t)
      BY DEF Peers
  <2> QED
      BY <2>1, RowsStay
<1>2. \A d : InWindow(t, d)' = InWindow(t, d)
    BY SameBars DEF FramesKept
<1>3. Pooled' = Pooled /\ kind' = kind
    BY DEF FramesKept, Pooled
<1>4. MustScore(t, Peers(t))' = MustScore(t, Peers(t))
    BY <1>1, <1>2, <1>3 DEF MustScore
<1> QED
    BY <1>4 DEF Due, InOrder, Position

\* Results right in a world stay right while the frames they were scored from stay.
LEMMA ScoredStays ==
    ASSUME FramesKept, RightRows(results', cache')
    PROVE  Scored'
<1>1. Pooled' = Pooled /\ DOMAIN frames \subseteq DOMAIN frames'
    BY DEF FramesKept, Pooled
<1>2. \A t \in Tickers : Peers(t) \subseteq DOMAIN frames =>
          /\ Peers(t)' = Peers(t) /\ Due(t)' = Due(t)
          /\ Baselines(t, Due(t))' = Baselines(t, Due(t)) /\ CacheKey(t, Due(t))' = CacheKey(t, Due(t))
  <2> SUFFICES ASSUME NEW t \in Tickers, Peers(t) \subseteq DOMAIN frames
               PROVE  /\ Peers(t)' = Peers(t) /\ Due(t)' = Due(t)
                      /\ Baselines(t, Due(t))' = Baselines(t, Due(t)) /\ CacheKey(t, Due(t))' = CacheKey(t, Due(t))
      OBVIOUS
  <2>1. Peers(t)' = Peers(t) /\ Due(t)' = Due(t)
      BY RowsStay, DueStays
  <2>2. \A days : Baselines(t, days)' = Baselines(t, days)
      BY SameBars DEF FramesKept
  <2> QED
      BY <2>1, <2>2 DEF CacheKey, Baselines
<1>3. \A f \in DOMAIN results' : \A t \in DOMAIN results'[f] :
          /\ t \in Tickers /\ Peers(t)' \subseteq DOMAIN frames'
          /\ results'[f][t] = [days |-> Due(t)', base |-> Baselines(t, Due(t))']
    BY <1>1, <1>2 DEF RightRows
<1>4. \A key \in DOMAIN cache' : \E t \in Tickers :
          /\ Pooled' /\ Tickers \subseteq DOMAIN frames'
          /\ key = CacheKey(t, Due(t))' /\ cache'[key] = Baselines(t, Due(t))'
  <2> SUFFICES ASSUME NEW key \in DOMAIN cache'
               PROVE  \E t \in Tickers : /\ Pooled' /\ Tickers \subseteq DOMAIN frames'
                                         /\ key = CacheKey(t, Due(t))' /\ cache'[key] = Baselines(t, Due(t))'
      OBVIOUS
  <2>1. PICK t \in Tickers : /\ Pooled /\ Tickers \subseteq DOMAIN frames
                             /\ key = CacheKey(t, Due(t)) /\ cache'[key] = Baselines(t, Due(t))
      BY DEF RightRows
  <2>2. Peers(t) \subseteq DOMAIN frames
      BY <2>1 DEF Peers
  <2> QED
      BY <1>1, <1>2, <2>1, <2>2
<1> QED
    BY <1>3, <1>4 DEF Scored, RightRows

-----------------------------------------------------------------------------
(***************************************************************************)
(* Every step of a run keeps what the walks rely on.                       *)
(***************************************************************************)
\* What the walks keep, with what they may look at.
LookInv == WalkInv /\ NoLookAhead

\* Steps after the walks, and steps that end the run.
LEMMA WalkEnds ==
    ASSUME LookInv, pc' \notin {"next", "fold"}, UNCHANGED <<kind, walk, results, frames, fold>>
    PROVE  LookInv'
BY DEF LookInv, WalkInv, NoLookAhead

\* Steps that go on with the next task, and look at nothing.
LEMMA WalkGoesOn ==
    ASSUME LookInv, pc = "next", pc' = "next", UNCHANGED <<kind, held, walk, fold, results, cache>>,
           FramesKept, Loaded', DOMAIN frames' \subseteq Tickers,
           \A t \in DOMAIN frames' : DOMAIN frames'[t] \subseteq 0 .. Today
    PROVE  LookInv'
<1>1. Scored'
    BY ScoredStays DEF LookInv, WalkInv, Scored
<1>2. WalkInv'
    BY <1>1 DEF LookInv, WalkInv
<1>3. NoLookAhead'
    BY DEF LookInv, NoLookAhead
<1> QED
    BY <1>2, <1>3 DEF LookInv

\* The queue goes on.
LEMMA LoadedGoesOn ==
    ASSUME Loaded, UNCHANGED <<kind, held>>, todo \in Seq(Task), todo # <<>>, todo' = Tail(todo),
           DOMAIN frames \subseteq DOMAIN frames', Head(todo)[1] = "load" => Head(todo)[2] \in DOMAIN frames',
           \A t \in DOMAIN frames' : /\ t \in Tickers /\ frames'[t] = Frame(t)
                                     /\ kind # "backtest" => ~Refused(t, Frame(t))
    PROVE  Loaded'
<1>1. LoadsFirst(todo', DOMAIN frames') /\ PoolsRight(todo')
    BY TasksGoOn DEF Loaded
<1>2. PoolsRight(todo)'
    BY <1>1 DEF PoolsRight, Pooled
<1>3. \A t \in DOMAIN frames' : /\ frames'[t] = Frame(t)'
                                /\ kind' # "backtest" => ~Refused(t, Frame(t))'
  <2> SUFFICES ASSUME NEW t \in DOMAIN frames'
               PROVE  frames'[t] = Frame(t)' /\ (kind' # "backtest" => ~Refused(t, Frame(t))')
      OBVIOUS
  <2>1. Frame(t)' = Frame(t) /\ \A frame : Refused(t, frame)' = Refused(t, frame)
      BY SameFrames
  <2>2. Refused(t, Frame(t))' <=> Refused(t, Frame(t))
      BY <2>1 DEF Refused, Articles
  <2> QED
      BY <2>1, <2>2
<1> QED
    BY <1>1, <1>2, <1>3 DEF Loaded

\* dataset.py: loading a ticker either ends the run or adds the frame of that ticker.
LEMMA LoadKeepsLook ==
    ASSUME RunInv, LookInv, Load
    PROVE  LookInv'
<1> DEFINE t == Head(todo)[2]
<1>1. /\ pc = "next" /\ todo # <<>> /\ Head(todo) = <<"load", t>> /\ t \in Tickers /\ todo \in Seq(Task)
      /\ UNCHANGED <<kind, held>> /\ held \in Worlds /\ Loaded
    BY TasksLeft, TasksAreTold DEF Load, Doing, RunInv, LookInv, WalkInv
<1>2. CASE kind # "backtest" /\ Refused(t, Frame(t))
  <2>1. pc' = "done" /\ UNCHANGED <<walk, results, frames, fold>>
      BY <1>2 DEF Load, Fail, walking
  <2> QED
      BY <1>1, <2>1, WalkEnds
<1>3. CASE ~(kind # "backtest" /\ Refused(t, Frame(t)))
  <2>1. /\ frames' = Put(frames, t, Frame(t)) /\ todo' = Tail(todo)
        /\ UNCHANGED <<pc, walk, fold, results, cache>>
      BY <1>3 DEF Load, walking
  <2> HIDE DEF t
  <2>2. DOMAIN frames' = DOMAIN frames \cup {t} /\ frames'[t] = Frame(t)
        /\ \A u \in DOMAIN frames : u # t => frames'[u] = frames[u]
      BY <2>1 DEF Put
  <2>3. \A u \in DOMAIN frames : frames'[u] = frames[u]
      BY <1>1, <2>2 DEF Loaded
  <2>4. \A u \in DOMAIN frames' : /\ u \in Tickers /\ frames'[u] = Frame(u)
                                  /\ kind # "backtest" => ~Refused(u, Frame(u))
      BY <1>1, <1>3, <2>2, <2>3 DEF Loaded
  <2>5. Loaded'
      BY <1>1, <2>1, <2>2, <2>4, LoadedGoesOn DEF t
  <2>6. FramesKept
      BY <1>1, <2>2, <2>3 DEF FramesKept
  <2>7. \A u \in DOMAIN frames' : DOMAIN frames'[u] \subseteq 0 .. Today
    <3> SUFFICES ASSUME NEW u \in DOMAIN frames' PROVE DOMAIN frames'[u] \subseteq 0 .. Today
        OBVIOUS
    <3>1. u \in Tickers /\ frames'[u] = Frame(u)
        BY <2>4
    <3>2. DOMAIN Frame(u) \subseteq held.hist[u].bars /\ held.hist[u].bars \in SUBSET (0 .. Today)
        BY <1>1, <3>1, FramesKnown, DaysOfWorld
    <3> QED
        BY <3>1, <3>2
  <2> QED
      BY <1>1, <2>1, <2>4, <2>5, <2>6, <2>7, WalkGoesOn
<1> QED
    BY <1>2, <1>3

\* Checking the snapshot ends the run or leaves every frame alone.
LEMMA SnapshotKeepsLook ==
    ASSUME RunInv, LookInv, SnapshotUsed
    PROVE  LookInv'
<1>1. /\ pc = "next" /\ todo # <<>> /\ Head(todo)[1] = "snapshot" /\ todo \in Seq(Task)
      /\ UNCHANGED <<kind, held>> /\ Loaded
    BY DEF SnapshotUsed, Doing, RunInv, LookInv, WalkInv
<1>2. CASE Mixed
  <2>1. pc' = "done" /\ UNCHANGED <<walk, results, frames, fold>>
      BY <1>2 DEF SnapshotUsed, Fail, walking
  <2> QED
      BY <1>1, <2>1, WalkEnds
<1>3. CASE ~Mixed
  <2>1. todo' = Tail(todo) /\ UNCHANGED <<pc, walk, fold, results, cache, frames>>
      BY <1>3 DEF SnapshotUsed, walking
  <2>2. Loaded'
      BY <1>1, <2>1, LoadedGoesOn DEF Loaded
  <2>3. FramesKept
      BY <1>1, <2>1 DEF FramesKept
  <2>4. DOMAIN frames' \subseteq Tickers /\ \A t \in DOMAIN frames' : DOMAIN frames'[t] \subseteq 0 .. Today
      BY <2>1 DEF LookInv, WalkInv
  <2> QED
      BY <1>1, <2>1, <2>2, <2>3, <2>4, WalkGoesOn
<1> QED
    BY <1>2, <1>3

\* A walk begins, and goes on, over the same frames.
LEMMA SameWalk ==
    ASSUME UNCHANGED <<kind, held, frames, todo>>
    PROVE  /\ Pool' = Pool /\ Feats' = Feats /\ Calendar' = Calendar /\ Folds' = Folds /\ Unsound' = Unsound
           /\ \A positions : Dates(positions)' = Dates(positions)
           /\ \A t : Rows(t)' = Rows(t) /\ \A d : InWindow(t, d)' = InWindow(t, d)
<1>1. Pool' = Pool /\ Feats' = Feats /\ Pooled' = Pooled /\ Cut' = Cut
    BY DEF Pool, Feats, Pooled, Cut
<1>2. \A t : Rows(t)' = Rows(t)
    BY <1>1 DEF Rows
<1>3. Calendar' = Calendar
    BY <1>1, <1>2 DEF Calendar, CalendarOf
<1>4. \A n : FoldsOf(n)' = FoldsOf(n)
    BY SameBars
<1>5. Folds' = Folds
    BY <1>3, <1>4 DEF Folds, FoldsOf, Pooled
<1>6. \A t : Bars(t)' = Bars(t)
    BY SameBars
<1>7. \A t, d : HasSigma(t, d)' = HasSigma(t, d)
    BY <1>6 DEF HasSigma, Returns
<1>8. RefitsRegime' = RefitsRegime /\ \A d : VixUpTo(d)' = VixUpTo(d)
    BY <1>1 DEF RefitsRegime, VixUpTo
<1>9. Unsound' = Unsound
    BY <1>1, <1>2, <1>3, <1>5, <1>7, <1>8 DEF Unsound
<1>10. \A positions : Dates(positions)' = Dates(positions)
    BY <1>3 DEF Dates, Position
<1>11. \A t, d : InWindow(t, d)' = InWindow(t, d)
    BY SameBars
<1> QED
    BY <1>1, <1>2, <1>3, <1>5, <1>9, <1>10, <1>11

\* Frames that are right stay right when neither they nor the world change.
LEMMA LoadedStays ==
    ASSUME Loaded, UNCHANGED <<kind, held, frames, todo>>
    PROVE  Loaded' /\ FramesKept
<1>1. FramesKept
    BY DEF FramesKept
<1>2. \A t \in DOMAIN frames' : /\ frames'[t] = Frame(t)'
                                /\ kind' # "backtest" => ~Refused(t, Frame(t))'
  <2> SUFFICES ASSUME NEW t \in DOMAIN frames'
               PROVE  frames'[t] = Frame(t)' /\ (kind' # "backtest" => ~Refused(t, Frame(t))')
      OBVIOUS
  <2>1. Frame(t)' = Frame(t) /\ \A frame : Refused(t, frame)' = Refused(t, frame)
      BY SameFrames
  <2>2. Refused(t, Frame(t))' <=> Refused(t, Frame(t))
      BY <2>1 DEF Refused, Articles
  <2> QED
      BY <2>1, <2>2 DEF Loaded
<1> QED
    BY <1>1, <1>2 DEF Loaded, LoadsFirst, PoolsRight, Pooled

\* A walk that begins has scored nothing and stands before its first fold.
LEMMA BeginKeepsLook ==
    ASSUME RunInv, LookInv, Begin
    PROVE  LookInv'
<1>1. /\ pc = "next" /\ todo # <<>> /\ Head(todo)[1] = "walk" /\ todo \in Seq(Task) /\ kind \in Kinds
      /\ UNCHANGED <<kind, held>> /\ held \in Worlds /\ Loaded /\ Scored
    BY DEF Begin, Doing, RunInv, LookInv, WalkInv
<1>2. CASE Unsound
  <2>1. pc' = "done" /\ UNCHANGED <<walk, results, frames, fold>>
      BY <1>2 DEF Begin, Fail, walking
  <2> QED
      BY <1>1, <2>1, WalkEnds
<1>3. CASE ~Unsound
  <2>1. /\ pc' = "fold" /\ fold' = 0 /\ scored' = [t \in Pool |-> <<>>]
        /\ UNCHANGED <<todo, frames, walk, results, cache>>
      BY <1>3 DEF Begin
  <2>2. Loaded' /\ FramesKept
      BY <1>1, <2>1, LoadedStays
  <2>3. Scored'
      BY <1>1, <2>1, <2>2, ScoredStays DEF Scored
  <2>4. /\ Pool' = Pool /\ Folds' = Folds /\ Unsound' = Unsound
      BY <1>1, <2>1, SameWalk
  <2>5. DOMAIN Folds \subseteq Nat
      BY <1>1, WalkCovers DEF Ready, Covers
  <2>6. \A t : Done(t)' = {}
      BY <2>1, <2>4, <2>5 DEF Done
  <2>7. InOrder({}) = <<>>
    <3>1. Cardinality({}) = 0
        BY FS_EmptySet
    <3> QED
        BY <3>1 DEF InOrder
  <2>8. \A t \in Pool : scored'[t] = InOrder(Done(t))'
    <3> SUFFICES ASSUME NEW t \in Pool PROVE scored'[t] = InOrder(Done(t))'
        OBVIOUS
    <3>1. InOrder(Done(t))' = InOrder(Done(t)')
        BY DEF InOrder, Position
    <3> QED
        BY <2>1, <2>6, <2>7, <3>1
  <2>9. Walking'
      BY <1>3, <2>1, <2>4, <2>8 DEF Walking
  <2>10. WalkInv'
      BY <1>1, <2>1, <2>2, <2>3, <2>9, SizesAreCounts DEF LookInv, WalkInv
  <2>11. NoLookAhead'
      BY <1>1, <2>1 DEF LookInv, NoLookAhead
  <2> QED
      BY <2>10, <2>11 DEF LookInv
<1> QED
    BY <1>2, <1>3

\* What a fold forecasts, from what was taught before it and from its own rows.
LEMMA ForecastsKnown ==
    ASSUME Ready, ~Unsound, kind # "backtest", fold \in DOMAIN Folds, NEW top \in Nat,
           top < Stamp(Min(Dates(Folds[fold].test))),
           NEW t \in Pool, NEW d \in Dates(Folds[fold].test) \cap Rows(t)
    PROVE  Max({top} \cup Inputs(t, d)) <= Close(d)
<1> DEFINE known == {top} \cup Inputs(t, d)
<1>1. d \in Nat /\ top < Close(d)
    BY TestsSomeDate DEF Stamp, Close
<1>2. known \in SUBSET Nat /\ \A y \in known : y <= Close(d)
  <2>1. \A x \in Inputs(t, d) : x \in Nat /\ x <= Close(d)
      BY InputsKnown
  <2>2. top <= Close(d)
      BY <1>1 DEF Close
  <2> QED
      BY <2>1, <2>2
<1>3. known # {} /\ Close(d) \in Nat
    BY <1>1 DEF Close
<1> HIDE DEF known
<1>4. Max(known) \in known
    BY <1>2, <1>3, MaxIsGreatest
<1>5. Max(known) <= Close(d)
    BY <1>2, <1>4
<1> QED
    BY <1>5 DEF known

\* A fold learns from what came before it and adds its rows, each once, in order.
LEMMA FitKeepsLook ==
    ASSUME RunInv, LookInv, FitAndForecast
    PROVE  LookInv'
<1> DEFINE train == Dates(Folds[fold].train)
           test == Dates(Folds[fold].test)
           taught == TaughtBy(train)
           Kept(t) == {d \in test \cap Rows(t) : InWindow(t, d)}
           short == \/ \A t \in Pool : \A d \in train \cap Rows(t) : ~Labelled(t, d)
                    \/ kind = "live" /\ \E t \in Pool : \E d \in Kept(t) : Short(t, d)
<1>1. /\ pc = "fold" /\ fold \in DOMAIN Folds /\ Ready /\ ~Unsound
      /\ UNCHANGED <<kind, held>> /\ Loaded /\ Scored /\ Walking
    BY DEF FitAndForecast, RunInv, LookInv, WalkInv, Walking, Ready
<1>2. CASE short
  <2>1. pc' = "done" /\ UNCHANGED <<walk, results, frames, fold>>
      BY <1>2 DEF FitAndForecast, Fail, walking
  <2> QED
      BY <1>1, <2>1, WalkEnds
<1>3. CASE ~short
  <2>1. /\ walk' = [first |-> Min(test), taught |-> Max(taught),
                    forecasts |-> UNION {{[day |-> d, known |-> Max({Max(taught)} \cup Inputs(t, d))] :
                                          d \in Kept(t)} : t \in Pool}]
        /\ scored' = [t \in Pool |-> scored[t] \o InOrder(Kept(t))]
        /\ fold' = fold + 1
        /\ UNCHANGED <<todo, pc, frames, results, cache>>
      BY <1>3 DEF FitAndForecast, TaughtBy
  <2>2. Loaded' /\ FramesKept
      BY <1>1, <2>1, LoadedStays
  <2>3. Scored'
      BY <1>1, <2>1, <2>2, ScoredStays DEF Scored
  <2>4. /\ Pool' = Pool /\ Folds' = Folds /\ Unsound' = Unsound
        /\ \A positions : Dates(positions)' = Dates(positions)
        /\ \A t : Rows(t)' = Rows(t) /\ \A d : InWindow(t, d)' = InWindow(t, d)
      BY <1>1, <2>1, SameWalk
  <2>5. ASSUME NEW t \in Pool PROVE scored'[t] = InOrder(Done(t))'
    <3> DEFINE done == {d \in Rows(t) : InWindow(t, d) /\ \E j \in DOMAIN Folds : j < fold + 1 /\ d \in Dates(Folds[j].test)}
    <3>1. Done(t)' = done
        BY <2>1, <2>4 DEF Done
    <3>2. InOrder(done) = InOrder(Done(t)) \o InOrder(Kept(t))
        BY <1>1, FoldScoresMore
    <3>3. InOrder(Done(t))' = InOrder(Done(t)')
        BY DEF InOrder, Position
    <3>4. scored[t] = InOrder(Done(t))
        BY <1>1 DEF Walking
    <3> HIDE DEF done, Kept
    <3> QED
        BY <2>1, <3>1, <3>2, <3>3, <3>4
  <2>6. Walking'
      BY <1>1, <2>1, <2>4, <2>5 DEF Walking
  <2>7. fold' \in 0 .. Today
    <3>1. fold \in Nat /\ fold + 1 < Cardinality(Calendar)
        BY <1>1, WalkCovers DEF Covers
    <3> QED
        BY <1>1, <2>1, <3>1, PoolIsLoaded, SizesAreCounts
  <2>8. WalkInv'
      BY <1>1, <2>1, <2>2, <2>3, <2>6, <2>7 DEF LookInv, WalkInv
  <2>9. ASSUME kind # "backtest"
        PROVE  walk'.taught < Stamp(walk'.first) /\ \A r \in walk'.forecasts : r.known <= Close(r.day)
    <3>1. \A x \in taught : x \in Nat /\ x < Stamp(Min(test))
        BY <1>1, <2>9, TaughtBeforeTests
    <3>2. taught # {}
      <4>1. PICK t \in Pool : \E d \in train \cap Rows(t) : Labelled(t, d)
          BY <1>3
      <4>2. PICK d \in train \cap Rows(t) : Labelled(t, d)
          BY <4>1
      <4> DEFINE of(u) == UNION {{Close(LabelEnd(u, e))} \cup Inputs(u, e) :
                                  e \in {c \in train \cap Rows(u) : Labelled(u, c)}}
      <4>3. Close(LabelEnd(t, d)) \in of(t)
          BY <4>2
      <4>4. taught = (UNION {of(u) : u \in Pool}) \cup (UNION {VixRead(e) : e \in train})
          BY DEF TaughtBy
      <4> HIDE DEF of, taught
      <4>5. Close(LabelEnd(t, d)) \in UNION {of(u) : u \in Pool}
          BY <4>3
      <4> QED
          BY <4>4, <4>5
    <3>3. Stamp(Min(test)) \in Nat
        BY <1>1, TestsSomeDate DEF Stamp
    <3>4. Max(taught) \in taught
      <4>1. taught \in SUBSET Nat /\ \A x \in taught : x <= Stamp(Min(test))
          BY <3>1, <3>3
      <4> HIDE DEF taught
      <4> QED
          BY <3>2, <3>3, <4>1, MaxIsGreatest
    <3>5. Max(taught) \in Nat /\ Max(taught) < Stamp(Min(test))
        BY <3>1, <3>4
    <3>6. walk'.first = Min(test) /\ walk'.taught = Max(taught)
          /\ walk'.forecasts = UNION {{[day |-> d, known |-> Max({Max(taught)} \cup Inputs(t, d))] :
                                        d \in Kept(t)} : t \in Pool}
        BY <2>1
    <3>7. ASSUME NEW r \in walk'.forecasts PROVE r.known <= Close(r.day)
      <4>1. PICK t \in Pool : \E d \in Kept(t) : r = [day |-> d, known |-> Max({Max(taught)} \cup Inputs(t, d))]
          BY <3>6
      <4>2. PICK d \in Kept(t) : r = [day |-> d, known |-> Max({Max(taught)} \cup Inputs(t, d))]
          BY <4>1
      <4>3. Max({Max(taught)} \cup Inputs(t, d)) <= Close(d)
          BY <1>1, <2>9, <3>5, ForecastsKnown
      <4>4. r.known = Max({Max(taught)} \cup Inputs(t, d)) /\ r.day = d
          BY <4>2
      <4> QED
          BY <4>3, <4>4
    <3> QED
        BY <3>5, <3>6, <3>7
  <2>10. NoLookAhead'
      BY <1>1, <2>1, <2>9 DEF LookInv, NoLookAhead
  <2> QED
      BY <2>8, <2>10 DEF LookInv
<1> QED
    BY <1>2, <1>3

\* The rows that are due are days of the ticker.
LEMMA DueAreBars ==
    ASSUME held \in Worlds, Loaded, NEW t \in Tickers, Peers(t) \subseteq DOMAIN frames
    PROVE  Due(t) \in Seq(Bars(t))
<1> DEFINE S == MustScore(t, Peers(t))
<1>1. S \subseteq Rows(t)
    BY DEF MustScore
<1>2. Rows(t) \subseteq Bars(t)
  <2>1. t \in DOMAIN frames
      BY DEF Peers
  <2> QED
      BY <2>1, RowsAreDays
<1>3. S \in SUBSET Bars(t) /\ S \in SUBSET Nat /\ IsFiniteSet(S)
  <2>1. S \in SUBSET Bars(t)
      BY <1>1, <1>2
  <2> HIDE DEF S
  <2> QED
      BY <2>1, BarsAreDays, FS_Subset
<1> HIDE DEF S
<1>4. InOrder(S) \in Seq(S)
    BY <1>3, InOrderLists
<1>5. InOrder(S) \in Seq(Bars(t))
    BY <1>3, <1>4, ListOfMore
<1> QED
    BY <1>5 DEF Due, S

\* A key names its ticker.
LEMMA KeysNameTickers ==
    ASSUME NEW t, NEW u, NEW a, NEW b, CacheKey(t, a) = CacheKey(u, b)
    PROVE  t = u
BY DEF CacheKey

\* The end of a walk adds the rows that were due, with the ticker's own baselines.
LEMMA FinishScores ==
    ASSUME Ready, Scored, Walking, fold \in Nat, Finish, pc' = "next"
    PROVE  /\ RightRows(results', cache') /\ DOMAIN results' \subseteq DOMAIN results \cup {Feats}
           /\ todo' = Tail(todo) /\ walk' = NoWalk /\ fold' = 0 /\ UNCHANGED <<kind, held, frames>>
<1> DEFINE fresh == [key \in {CacheKey(t, scored[t]) : t \in Pool} |->
                       LET t == CHOOSE u \in Pool : CacheKey(u, scored[u]) = key
                       IN  Baselines(t, scored[t])]
           known == Over(cache, fresh)
           mine == [t \in Pool |-> [days |-> scored[t], base |-> known[CacheKey(t, scored[t])]]]
<1>1. /\ results' = Put(results, Feats, IF Feats \in DOMAIN results THEN Over(mine, results[Feats]) ELSE mine)
      /\ cache' = IF Pooled THEN known ELSE cache
      /\ todo' = Tail(todo) /\ walk' = NoWalk /\ fold' = 0 /\ UNCHANGED <<kind, held, frames>>
      /\ fold \notin DOMAIN Folds
    BY DEF Finish, Fail
<1>2. \A t \in Pool : /\ t \in Tickers /\ Peers(t) = Pool /\ Pool \subseteq DOMAIN frames
                      /\ scored[t] = Due(t)
  <2> SUFFICES ASSUME NEW t \in Pool
               PROVE  t \in Tickers /\ Peers(t) = Pool /\ Pool \subseteq DOMAIN frames /\ scored[t] = Due(t)
      OBVIOUS
  <2>1. Done(t) = MustScore(t, Peers(t))
      BY <1>1, OverScoresAll DEF Walking
  <2> QED
      BY <2>1, PoolIsLoaded DEF Walking, Due
<1>3. ASSUME NEW t \in Pool
      PROVE  CacheKey(t, Due(t)) \in DOMAIN fresh /\ fresh[CacheKey(t, Due(t))] = Baselines(t, Due(t))
  <2> DEFINE key == CacheKey(t, Due(t))
             found == CHOOSE u \in Pool : CacheKey(u, scored[u]) = key
  <2>1. CacheKey(t, scored[t]) = key
      BY <1>2
  <2>2. found \in Pool /\ CacheKey(found, scored[found]) = key
      BY <2>1
  <2>3. found = t
      BY <2>2, KeysNameTickers
  <2>4. key \in DOMAIN fresh
      BY <2>1
  <2>5. fresh[key] = Baselines(found, scored[found])
      BY <2>4
  <2> HIDE DEF fresh, found
  <2> QED
      BY <1>2, <2>3, <2>4, <2>5
<1>4. \A key \in DOMAIN fresh : \E t \in Pool : key = CacheKey(t, Due(t))
    BY <1>2
<1> HIDE DEF fresh
<1>5. \A key \in DOMAIN cache \cup DOMAIN fresh : known[key] = IF key \in DOMAIN cache THEN cache[key] ELSE fresh[key]
    BY DEF Over
<1>6. DOMAIN known = DOMAIN cache \cup DOMAIN fresh
    BY DEF Over
<1> HIDE DEF known
<1>7. ASSUME NEW t \in Pool PROVE known[CacheKey(t, Due(t))] = Baselines(t, Due(t))
  <2>1. CASE CacheKey(t, Due(t)) \notin DOMAIN cache
      BY <1>3, <1>5, <2>1
  <2>2. CASE CacheKey(t, Due(t)) \in DOMAIN cache
    <3>1. PICK u \in Tickers : /\ CacheKey(t, Due(t)) = CacheKey(u, Due(u))
                               /\ cache[CacheKey(t, Due(t))] = Baselines(u, Due(u))
        BY <2>2 DEF Scored, RightRows
    <3>2. t = u
        BY <3>1, KeysNameTickers
    <3> QED
        BY <1>5, <2>2, <3>1, <3>2
  <2> QED
      BY <2>1, <2>2
<1>8. /\ DOMAIN mine = Pool
      /\ \A t \in Pool : mine[t] = [days |-> Due(t), base |-> Baselines(t, Due(t))]
    BY <1>2, <1>7
<1> HIDE DEF mine
<1> DEFINE new == IF Feats \in DOMAIN results THEN Over(mine, results[Feats]) ELSE mine
<1>9. \A t \in DOMAIN new : \/ t \in Pool /\ new[t] = mine[t]
                            \/ Feats \in DOMAIN results /\ t \in DOMAIN results[Feats] /\ new[t] = results[Feats][t]
    BY <1>8 DEF Over
<1>10. \A t \in DOMAIN new : /\ t \in Tickers /\ Peers(t) \subseteq DOMAIN frames
                             /\ new[t] = [days |-> Due(t), base |-> Baselines(t, Due(t))]
    BY <1>2, <1>8, <1>9 DEF Scored, RightRows
<1> HIDE DEF new
<1>11. /\ DOMAIN results' = DOMAIN results \cup {Feats} /\ results'[Feats] = new
       /\ \A f \in DOMAIN results : f # Feats => results'[f] = results[f]
    BY <1>1 DEF Put, new
<1>12. \A f \in DOMAIN results' : \A t \in DOMAIN results'[f] :
          /\ t \in Tickers /\ Peers(t) \subseteq DOMAIN frames
          /\ results'[f][t] = [days |-> Due(t), base |-> Baselines(t, Due(t))]
    BY <1>10, <1>11 DEF Scored, RightRows
<1>13. \A key \in DOMAIN cache' : \E t \in Tickers :
          /\ Pooled /\ Tickers \subseteq DOMAIN frames
          /\ key = CacheKey(t, Due(t)) /\ cache'[key] = Baselines(t, Due(t))
  <2> SUFFICES ASSUME NEW key \in DOMAIN cache', key \notin DOMAIN cache
               PROVE  \E t \in Tickers : /\ Pooled /\ Tickers \subseteq DOMAIN frames
                                         /\ key = CacheKey(t, Due(t)) /\ cache'[key] = Baselines(t, Due(t))
    <3>1. \A key \in DOMAIN cache : cache'[key] = cache[key]
        BY <1>1, <1>5
    <3> QED
        BY <3>1 DEF Scored, RightRows
  <2>1. Pooled /\ cache' = known /\ key \in DOMAIN fresh
      BY <1>1, <1>6
  <2>2. PICK t \in Pool : key = CacheKey(t, Due(t))
      BY <1>4, <2>1
  <2>3. cache'[key] = Baselines(t, Due(t))
      BY <1>7, <2>1, <2>2
  <2>4. t \in Tickers /\ Tickers \subseteq DOMAIN frames
      BY <1>2, <2>1 DEF Peers
  <2> QED
      BY <2>1, <2>2, <2>3, <2>4
<1>14. RightRows(results', cache')
    BY <1>12, <1>13 DEF RightRows
<1> QED
    BY <1>1, <1>11, <1>14

\* A walk that ends has scored all rows due, and its baselines are those of the rows.
LEMMA FinishKeepsLook ==
    ASSUME RunInv, LookInv, Finish
    PROVE  LookInv'
<1>1. /\ pc = "fold" /\ Ready /\ Loaded /\ Scored /\ Walking /\ fold \in Nat
    BY DEF Finish, RunInv, LookInv, WalkInv, Ready
<1>2. UNCHANGED kind /\ ((pc' = "done" /\ UNCHANGED <<walk, results, frames, fold>>) \/ pc' = "next")
    BY DEF Finish, Fail, walking
<1>3. CASE pc' = "done"
  <2>1. UNCHANGED <<walk, results, frames, fold>>
      BY <1>2, <1>3
  <2> QED
      BY <1>2, <1>3, <2>1, WalkEnds
<1>4. CASE pc' = "next"
  <2>1. /\ RightRows(results', cache') /\ DOMAIN results' \subseteq DOMAIN results \cup {Feats}
        /\ todo' = Tail(todo) /\ walk' = NoWalk /\ fold' = 0 /\ UNCHANGED <<kind, held, frames>>
      BY <1>1, <1>4, FinishScores
  <2>2. FramesKept
      BY <2>1 DEF FramesKept
  <2>3. Scored'
      BY <2>1, <2>2, ScoredStays
  <2>4. Loaded'
    <3>1. todo \in Seq(Task) /\ todo # <<>> /\ Head(todo)[1] # "load"
        BY <1>1 DEF Ready
    <3> QED
        BY <1>1, <2>1, <3>1, LoadedGoesOn DEF Loaded
  <2>5. WalkInv'
      BY <1>1, <1>4, <2>1, <2>3, <2>4, PoolIsLoaded, SizesAreCounts DEF LookInv, WalkInv
  <2>6. ASSUME kind # "backtest", NEW f \in DOMAIN results', NEW t \in DOMAIN results'[f],
               NEW i \in DOMAIN results'[f][t].days
        PROVE  results'[f][t].base[i].known <= Close(results'[f][t].days[i])
    <3>1. /\ t \in Tickers /\ Peers(t) \subseteq DOMAIN frames
          /\ results'[f][t].days = Due(t) /\ results'[f][t].base = Baselines(t, Due(t))
        BY <2>1 DEF RightRows
    <3>2. Due(t) \in Seq(Bars(t)) /\ i \in DOMAIN Due(t)
        BY <1>1, <3>1, DueAreBars DEF Ready
    <3>3. Baselines(t, Due(t))[i].known <= Close(Due(t)[i])
        BY <1>1, <2>6, <3>1, <3>2, BaselinesKnown DEF Ready
    <3> QED
        BY <3>1, <3>3
  <2>7. walk'.taught < Stamp(walk'.first) /\ walk'.forecasts = {}
      BY <2>1, SizesAreCounts DEF NoWalk, Stamp
  <2>8. NoLookAhead'
      BY <2>1, <2>6, <2>7 DEF NoLookAhead
  <2> QED
      BY <2>5, <2>8 DEF LookInv
<1> QED
    BY <1>2, <1>3, <1>4

\* Every step of a run.
LEMMA LookStep == RunInv /\ LookInv /\ [Next]_vars => LookInv'
<1> SUFFICES ASSUME RunInv, LookInv, [Next]_vars PROVE LookInv'
    OBVIOUS
<1>1. CASE EndWalks
  <2>1. /\ pc' \notin {"next", "fold"} /\ UNCHANGED <<kind, walk, fold>>
        /\ frames' = [t \in {} |-> <<>>] /\ results' = [f \in {} |-> <<>>]
      BY <1>1 DEF EndWalks, walking
  <2> QED
      BY <2>1 DEF LookInv, WalkInv, NoLookAhead
<1>2. CASE Select \/ Reject \/ Conclude
  <2>1. pc' \notin {"next", "fold"} /\ UNCHANGED <<kind, walk, results, frames, fold>>
      BY <1>2 DEF Select, Reject, Conclude, walking
  <2> QED
      BY <2>1, WalkEnds
<1>3. CASE Compare
  <2>1. pc' \notin {"next", "fold"} /\ UNCHANGED <<kind, walk, results, frames, fold>>
      BY <1>3 DEF Compare, walking
  <2> QED
      BY <2>1, WalkEnds
<1>4. CASE UNCHANGED vars
  <2>1. UNCHANGED <<kind, held, todo, pc, frames, fold, walk, scored, results, cache>>
      BY <1>4 DEF vars
  <2>2. NoLookAhead'
      BY <2>1 DEF LookInv, NoLookAhead
  <2>3. pc \in {"next", "fold"} => Loaded' /\ Scored'
    <3>1. pc \in {"next", "fold"} => Loaded' /\ FramesKept
        BY <2>1, LoadedStays DEF LookInv, WalkInv
    <3> QED
        BY <2>1, <3>1, ScoredStays DEF LookInv, WalkInv, Scored
  <2>4. pc = "fold" => Walking'
    <3> SUFFICES ASSUME pc = "fold" PROVE Walking'
        OBVIOUS
    <3>1. /\ Pool' = Pool /\ Folds' = Folds /\ Unsound' = Unsound
          /\ \A positions : Dates(positions)' = Dates(positions)
          /\ \A t : Rows(t)' = Rows(t) /\ \A d : InWindow(t, d)' = InWindow(t, d)
        BY <2>1, SameWalk
    <3>2. \A t : Done(t)' = Done(t)
        BY <2>1, <3>1 DEF Done
    <3>3. \A t : InOrder(Done(t))' = InOrder(Done(t))
      <4>1. \A t : InOrder(Done(t))' = InOrder(Done(t)')
          BY DEF InOrder, Position
      <4> QED
          BY <3>2, <4>1
    <3> QED
        BY <2>1, <3>1, <3>3 DEF Walking, LookInv, WalkInv
  <2> QED
      BY <2>1, <2>2, <2>3, <2>4 DEF LookInv, WalkInv
<1> QED
    BY <1>1, <1>2, <1>3, <1>4, LoadKeepsLook, SnapshotKeepsLook, BeginKeepsLook, FitKeepsLook, FinishKeepsLook
       DEF Next

\* Nothing is loaded or scored at first.
LEMMA LookInit == Init => LookInv
<1> SUFFICES ASSUME Init PROVE LookInv
    OBVIOUS
<1>1. /\ kind \in Kinds /\ held \in Worlds /\ todo = Tasks(kind) /\ pc = "next" /\ fold = 0 /\ walk = NoWalk
      /\ DOMAIN frames = {} /\ DOMAIN results = {} /\ DOMAIN cache = {}
    BY DEF Init
<1>2. Loaded
    BY <1>1, TasksStartRight DEF Loaded, RightTasks
<1>3. Scored
    BY <1>1 DEF Scored, RightRows
<1>4. NoLookAhead
  <2>1. walk.taught < Stamp(walk.first) /\ walk.forecasts = {}
      BY <1>1, SizesAreCounts DEF NoWalk, Stamp
  <2> QED
      BY <1>1, <2>1 DEF NoLookAhead
<1> QED
    BY <1>1, <1>2, <1>3, <1>4, SizesAreCounts DEF LookInv, WalkInv

\* The walks keep all of this in every run.
LEMMA LookInductive == Spec => []LookInv
<1>1. Init => LookInv
    BY LookInit
<1>2. RunInv /\ LookInv /\ [Next]_vars => LookInv'
    BY LookStep
<1> QED
    BY <1>1, <1>2, RunInductive, PTL DEF Spec

\* dataset.py, pooled.py, splits.py, baselines.py: in a development, holdout or live run
\* every label and input a fold learns from is complete before its first test row, and
\* no forecast or baseline of a row reads past the row's close.
THEOREM NothingLooksAhead == Spec => []NoLookAhead
<1>1. LookInv => NoLookAhead
    BY DEF LookInv
<1> QED
    BY <1>1, LookInductive, PTL

\* pooled.py, splits.py and the baseline cache of h2.py: every feature set is scored on
\* the rows that are due, once and in order, against the ticker's own baselines.
THEOREM EverySetScoredAlike == Spec => []ScoredAlike
<1>1. LookInv => ScoredAlike
  <2> SUFFICES ASSUME LookInv, pc = "next", todo = <<>>, NEW f \in DOMAIN results, NEW t \in DOMAIN results[f]
               PROVE  /\ results[f][t].days = InOrder(MustScore(t, IF Pooled THEN Tickers ELSE {t}))
                      /\ results[f][t].base = Baselines(t, results[f][t].days)
      BY DEF ScoredAlike
  <2>1. results[f][t] = [days |-> Due(t), base |-> Baselines(t, Due(t))]
      BY DEF LookInv, WalkInv, Scored, RightRows
  <2>2. results[f][t].days = Due(t) /\ results[f][t].base = Baselines(t, Due(t))
      BY <2>1
  <2> QED
      BY <2>2 DEF Due, Peers
<1> QED
    BY <1>1, LookInductive, PTL

\* Every structure of a run has the values its code can give it; among others there is
\* a fold for every number of rows, and no fold beyond them.
THEOREM EvaluationTypeCorrect == Spec => []TypeOK
<1>1. RunInv /\ GateInv /\ LookInv => TypeOK
  <2> SUFFICES ASSUME RunInv, GateInv, LookInv PROVE TypeOK
      OBVIOUS
  <2>1. DOMAIN stats \subseteq Tickers
    <3>1. Usable \subseteq Tickers
        BY DEF Usable
    <3> QED
        BY <3>1 DEF GateInv
  <2> QED
      BY <2>1 DEF TypeOK, RunInv, GateInv, LookInv, WalkInv, FeatureSets
<1> QED
    BY <1>1, RunInductive, GateInductive, LookInductive, PTL
=============================================================================
