--------------------------- MODULE TradePlan_proofs ---------------------------
(***************************************************************************)
(* Facts about the pure part of the trading code, for every account, price *)
(* and configuration that the assumptions of TradePlan admit, and about    *)
(* the sums it is built from.                                              *)
(*                                                                         *)
(* The models add up shares, cash and exposure with MapThenSumSet, which   *)
(* folds over a set in an order that CHOOSE fixes.  The first part shows   *)
(* that the order does not matter, and what follows from that.  Each fact  *)
(* about every finite set is proved from a smallest counterexample: a set  *)
(* none of whose strict subsets is one.                                    *)
(***************************************************************************)
EXTENDS TradePlan, FiniteSetTheorems, WellFoundedInduction, TLAPS

-----------------------------------------------------------------------------
(***************************************************************************)
(* Sums over finite sets.                                                  *)
(***************************************************************************)
\* An element is added to the sum g of the others.
Plus(F, g, s) == LET x == CHOOSE y \in s : TRUE IN F[x] + g[s \ {x}]

\* g gives each subset of S its sum.
IsSum(F, g, S) == g = [s \in SUBSET S |-> IF s = {} THEN 0 ELSE Plus(F, g, s)]

SumOver(F, S) == (CHOOSE g : IsSum(F, g, S))[S]

-----------------------------------------------------------------------------
(***************************************************************************)
(* The sum is well defined.                                                *)
(***************************************************************************)
\* A set of finite sets has a member none of whose strict subsets is in it.
LEMMA SmallestMember ==
    ASSUME NEW S, IsFiniteSet(S), NEW T, T \subseteq SUBSET S, T # {}
    PROVE  \E m \in T : \A s \in T : s \subseteq m => s = m
<1>1. IsWellFoundedOn(StrictSubsetOrdering(S), SUBSET S)
    BY FS_StrictSubsetOrderingWellFounded, FS_FiniteSubsetsOfFinite
<1>2. \E m \in T : \A s \in T : ~ (<<s, m>> \in StrictSubsetOrdering(S))
    BY <1>1, WFMin
<1> QED
    BY <1>2 DEF StrictSubsetOrdering

\* The sum over a set and the sum over a larger one agree on every common subset:
\* `sum` in the code has one value, whatever order its items come in.
LEMMA SumsAgree ==
    ASSUME NEW S, IsFiniteSet(S), NEW F, NEW g, NEW h, IsSum(F, g, S),
           NEW R \in SUBSET S, IsSum(F, h, R)
    PROVE  \A s \in SUBSET R : g[s] = h[s]
<1> DEFINE T == {s \in SUBSET R : g[s] # h[s]}
<1> SUFFICES ASSUME T # {} PROVE FALSE
    OBVIOUS
<1>1. PICK m \in T : \A s \in T : s \subseteq m => s = m
  <2>1. IsFiniteSet(R)
      BY FS_Subset
  <2> HIDE DEF T
  <2>2. T \subseteq SUBSET R
      BY DEF T
  <2> QED
      BY <2>1, <2>2, SmallestMember
<1>2. m # {}
    BY DEF IsSum
<1> DEFINE x == CHOOSE y \in m : TRUE
<1>3. x \in m
    BY <1>2
<1>4. g[m \ {x}] = h[m \ {x}]
    BY <1>1, <1>3
<1>5. g[m] = F[x] + g[m \ {x}] /\ h[m] = F[x] + h[m \ {x}]
    BY <1>2 DEF IsSum, Plus
<1> QED
    BY <1>4, <1>5

\* Every finite set has a sum.
LEMMA SumExists ==
    ASSUME NEW S, IsFiniteSet(S), NEW F
    PROVE  \E g : IsSum(F, g, S)
<1> DEFINE T == {s \in SUBSET S : ~ \E g : IsSum(F, g, s)}
<1> SUFFICES ASSUME T # {} PROVE FALSE
    BY DEF T
<1>1. PICK m \in T : \A s \in T : s \subseteq m => s = m
  <2> HIDE DEF T
  <2>1. T \subseteq SUBSET S
      BY DEF T
  <2> QED
      BY <2>1, SmallestMember
<1>2. IsFiniteSet(m)
    BY FS_Subset
<1> DEFINE h(s) == CHOOSE g : IsSum(F, g, s)
<1>3. \A s \in SUBSET m : s # m => IsSum(F, h(s), s)
  <2> TAKE s \in SUBSET m
  <2> HAVE s # m
  <2>1. \E g : IsSum(F, g, s)
      BY <1>1
  <2> QED
      BY <2>1
<1> HIDE DEF h
<1> DEFINE below == [s \in SUBSET m |-> h(s)[s]]
           g == [s \in SUBSET m |-> IF s = {} THEN 0 ELSE Plus(F, below, s)]
<1>4. \A s \in SUBSET m : s # m => g[s] = below[s]
  <2> TAKE s \in SUBSET m
  <2> HAVE s # m
  <2>1. CASE s = {}
      BY <1>3, <2>1 DEF IsSum
  <2>2. CASE s # {}
    <3> DEFINE x == CHOOSE y \in s : TRUE
               r == s \ {x}
    <3>1. x \in s
        BY <2>2
    <3>2. r \in SUBSET m /\ r # m /\ r \in SUBSET s
        BY <3>1
    <3>3. IsSum(F, h(s), s) /\ IsSum(F, h(r), r) /\ IsFiniteSet(s)
        BY <1>2, <1>3, <3>2, FS_Subset
    <3>4. h(s)[r] = h(r)[r]
        BY <3>2, <3>3, SumsAgree
    <3>5. h(s)[s] = F[x] + h(s)[r]
        BY <2>2, <3>3 DEF IsSum, Plus
    <3>6. g[s] = F[x] + below[r]
        BY <2>2 DEF Plus
    <3> QED
        BY <3>2, <3>4, <3>5, <3>6
  <2> QED
      BY <2>1, <2>2
<1>5. \A s \in SUBSET m : s # {} => Plus(F, below, s) = Plus(F, g, s)
  <2> TAKE s \in SUBSET m
  <2> HAVE s # {}
  <2> DEFINE x == CHOOSE y \in s : TRUE
  <2>1. x \in s /\ s \ {x} \in SUBSET m /\ s \ {x} # m
      OBVIOUS
  <2>2. below[s \ {x}] = g[s \ {x}]
      BY <1>4, <2>1
  <2> HIDE DEF below, g
  <2> QED
      BY <2>2 DEF Plus
<1>6. IsSum(F, g, m)
    BY <1>5 DEF IsSum
<1> QED
    BY <1>6

\* The sum that CHOOSE picks is one.
LEMMA SumIsSum ==
    ASSUME NEW S, IsFiniteSet(S), NEW F
    PROVE  IsSum(F, CHOOSE g : IsSum(F, g, S), S)
BY SumExists

\* Nothing adds up to 0.
LEMMA SumEmpty == \A F : SumOver(F, {}) = 0
<1> TAKE F
<1>1. IsSum(F, CHOOSE g : IsSum(F, g, {}), {})
    BY SumIsSum, FS_EmptySet
<1> QED
    BY <1>1 DEF SumOver, IsSum

\* The sum over S takes the sum over a subset from the same function.
LEMMA SumUnfold ==
    ASSUME NEW S, IsFiniteSet(S), NEW F, S # {}
    PROVE  LET x == CHOOSE y \in S : TRUE
           IN  x \in S /\ SumOver(F, S) = F[x] + SumOver(F, S \ {x})
<1> DEFINE x == CHOOSE y \in S : TRUE
           R == S \ {x}
           g == CHOOSE f : IsSum(F, f, S)
           h == CHOOSE f : IsSum(F, f, R)
<1>1. x \in S /\ R \in SUBSET S
    OBVIOUS
<1>2. IsSum(F, g, S) /\ IsSum(F, h, R)
    BY SumIsSum, <1>1, FS_Subset
<1>3. g[R] = h[R]
  <2> HIDE DEF g, h, R
  <2> QED
      BY <1>1, <1>2, SumsAgree
<1>4. g[S] = F[x] + g[R]
  <2> HIDE DEF g
  <2> QED
    BY <1>2 DEF IsSum, Plus
<1> QED
    BY <1>1, <1>3, <1>4 DEF SumOver

-----------------------------------------------------------------------------
(***************************************************************************)
(* Sums of integers.                                                       *)
(***************************************************************************)
\* Integers add up to an integer.
LEMMA SumType ==
    ASSUME NEW S, IsFiniteSet(S), NEW F, \A x \in S : F[x] \in Int
    PROVE  SumOver(F, S) \in Int
<1> DEFINE T == {s \in SUBSET S : SumOver(F, s) \notin Int}
<1> SUFFICES ASSUME T # {} PROVE FALSE
    BY DEF T
<1>1. PICK m \in T : \A s \in T : s \subseteq m => s = m
  <2> HIDE DEF T
  <2>1. T \subseteq SUBSET S
      BY DEF T
  <2> QED
      BY <2>1, SmallestMember
<1>2. m # {} /\ IsFiniteSet(m)
  <2>1. SumOver(F, {}) = 0
      BY SumEmpty
  <2>2. IsFiniteSet(m)
      BY FS_Subset
  <2> QED
      BY <2>1, <2>2
<1>3. PICK x \in m : SumOver(F, m) = F[x] + SumOver(F, m \ {x})
    BY <1>2, SumUnfold
<1>4. SumOver(F, m \ {x}) \in Int
    BY <1>1
<1> QED
    BY <1>3, <1>4

\* Any element may be added last.
LEMMA SumRemove ==
    ASSUME NEW S, IsFiniteSet(S), NEW F, \A y \in S : F[y] \in Int, NEW x \in S
    PROVE  SumOver(F, S) = F[x] + SumOver(F, S \ {x})
<1> DEFINE Bad(s) == \E y \in s : SumOver(F, s) # F[y] + SumOver(F, s \ {y})
           T == {s \in SUBSET S : Bad(s)}
<1> SUFFICES ASSUME T # {} PROVE FALSE
    BY DEF T
<1>1. PICK m \in T : \A s \in T : s \subseteq m => s = m
  <2> HIDE DEF T
  <2>1. T \subseteq SUBSET S
      BY DEF T
  <2> QED
      BY <2>1, SmallestMember
<1>2. PICK y \in m : SumOver(F, m) # F[y] + SumOver(F, m \ {y})
    OBVIOUS
<1>3. IsFiniteSet(m)
    BY FS_Subset
<1>4. PICK c \in m : SumOver(F, m) = F[c] + SumOver(F, m \ {c})
    BY <1>3, SumUnfold
<1>5. c # y
    BY <1>2, <1>4
<1> DEFINE rest == (m \ {c}) \ {y}
<1>6. SumOver(F, m \ {c}) = F[y] + SumOver(F, rest)
  <2>1. m \ {c} \notin T
      BY <1>1
  <2> QED
      BY <1>5, <2>1
<1>7. SumOver(F, m \ {y}) = F[c] + SumOver(F, rest)
  <2>1. m \ {y} \notin T
      BY <1>1
  <2>2. (m \ {y}) \ {c} = rest
      OBVIOUS
  <2> QED
      BY <1>5, <2>1, <2>2
<1>8. SumOver(F, rest) \in Int /\ F[c] \in Int /\ F[y] \in Int
  <2>1. IsFiniteSet(rest) /\ \A z \in rest : F[z] \in Int
      BY <1>3, FS_Subset
  <2> QED
      BY <2>1, SumType
<1> QED
    BY <1>2, <1>4, <1>6, <1>7, <1>8

\* Only the values in the set count.
LEMMA SumSame ==
    ASSUME NEW S, IsFiniteSet(S), NEW F, NEW G, \A x \in S : F[x] \in Int /\ G[x] = F[x]
    PROVE  SumOver(G, S) = SumOver(F, S)
<1> DEFINE T == {s \in SUBSET S : SumOver(G, s) # SumOver(F, s)}
<1> SUFFICES ASSUME T # {} PROVE FALSE
    BY DEF T
<1>1. PICK m \in T : \A s \in T : s \subseteq m => s = m
  <2> HIDE DEF T
  <2>1. T \subseteq SUBSET S
      BY DEF T
  <2> QED
      BY <2>1, SmallestMember
<1>2. m # {}
  <2>1. SumOver(F, {}) = 0 /\ SumOver(G, {}) = 0
      BY SumEmpty
  <2> QED
      BY <2>1
<1>3. PICK x \in m : TRUE
    BY <1>2
<1>4. SumOver(F, m) = F[x] + SumOver(F, m \ {x}) /\ SumOver(G, m) = G[x] + SumOver(G, m \ {x})
  <2>1. IsFiniteSet(m) /\ \A y \in m : F[y] \in Int /\ G[y] \in Int
      BY FS_Subset
  <2> QED
      BY <2>1, SumRemove
<1>5. SumOver(F, m \ {x}) = SumOver(G, m \ {x})
    BY <1>1
<1> QED
    BY <1>4, <1>5

\* One value changes.
LEMMA SumUpdate ==
    ASSUME NEW S, IsFiniteSet(S), NEW F, NEW G, NEW x \in S,
           \A y \in S : F[y] \in Int /\ G[y] \in Int,
           \A y \in S : y # x => G[y] = F[y]
    PROVE  SumOver(G, S) = SumOver(F, S) - F[x] + G[x]
<1>1. SumOver(F, S) = F[x] + SumOver(F, S \ {x})
    BY SumRemove
<1>2. SumOver(G, S) = G[x] + SumOver(G, S \ {x})
    BY SumRemove
<1>3. IsFiniteSet(S \ {x})
    BY FS_Subset
<1>4. SumOver(G, S \ {x}) = SumOver(F, S \ {x}) /\ SumOver(F, S \ {x}) \in Int
    BY <1>3, SumSame, SumType
<1> QED
    BY <1>1, <1>2, <1>4

\* A sum of values that are nowhere above another sum's.
LEMMA SumAtMost ==
    ASSUME NEW S, IsFiniteSet(S), NEW F, NEW G,
           \A x \in S : F[x] \in Int /\ G[x] \in Int /\ F[x] <= G[x]
    PROVE  SumOver(F, S) <= SumOver(G, S)
<1> DEFINE T == {s \in SUBSET S : ~(SumOver(F, s) <= SumOver(G, s))}
<1> SUFFICES ASSUME T # {} PROVE FALSE
    BY DEF T
<1>1. PICK m \in T : \A s \in T : s \subseteq m => s = m
  <2> HIDE DEF T
  <2>1. T \subseteq SUBSET S
      BY DEF T
  <2> QED
      BY <2>1, SmallestMember
<1>2. m # {}
  <2>1. SumOver(F, {}) = 0 /\ SumOver(G, {}) = 0
      BY SumEmpty
  <2> QED
      BY <2>1
<1>3. PICK x \in m : TRUE
    BY <1>2
<1>4. IsFiniteSet(m) /\ \A y \in m : F[y] \in Int /\ G[y] \in Int
    BY FS_Subset
<1>5. SumOver(F, m) = F[x] + SumOver(F, m \ {x}) /\ SumOver(G, m) = G[x] + SumOver(G, m \ {x})
    BY <1>4, SumRemove
<1>6. SumOver(F, m \ {x}) <= SumOver(G, m \ {x})
    BY <1>1
<1>7. SumOver(F, m \ {x}) \in Int /\ SumOver(G, m \ {x}) \in Int
  <2>1. IsFiniteSet(m \ {x})
      BY <1>4, FS_Subset
  <2> QED
      BY <1>4, <2>1, SumType
<1> QED
    BY <1>4, <1>5, <1>6, <1>7

\* A sum of equal values.
LEMMA SumConstant ==
    ASSUME NEW S, IsFiniteSet(S), NEW F, NEW c \in Int, \A x \in S : F[x] = c
    PROVE  SumOver(F, S) = Cardinality(S) * c
<1> DEFINE T == {s \in SUBSET S : SumOver(F, s) # Cardinality(s) * c}
<1> SUFFICES ASSUME T # {} PROVE FALSE
    BY DEF T
<1>1. PICK m \in T : \A s \in T : s \subseteq m => s = m
  <2> HIDE DEF T
  <2>1. T \subseteq SUBSET S
      BY DEF T
  <2> QED
      BY <2>1, SmallestMember
<1>2. m # {}
  <2>1. SumOver(F, {}) = 0 /\ Cardinality({}) = 0
      BY SumEmpty, FS_EmptySet
  <2> QED
      BY <2>1
<1>3. PICK x \in m : TRUE
    BY <1>2
<1>4. IsFiniteSet(m) /\ \A y \in m : F[y] = c /\ F[y] \in Int
    BY FS_Subset
<1>5. SumOver(F, m) = c + SumOver(F, m \ {x})
    BY <1>4, SumRemove
<1>6. SumOver(F, m \ {x}) = Cardinality(m \ {x}) * c
    BY <1>1
<1>7. Cardinality(m) \in Nat /\ Cardinality(m \ {x}) = Cardinality(m) - 1
    BY <1>4, FS_RemoveElement, FS_CardinalityType
<1>8. (Cardinality(m) - 1) * c = Cardinality(m) * c - c
    BY <1>7
<1> QED
    BY <1>5, <1>6, <1>7, <1>8

\* A sum of one value.
LEMMA SumSingle ==
    ASSUME NEW F, NEW x, F[x] \in Int
    PROVE  SumOver(F, {x}) = F[x]
<1>1. SumOver(F, {x}) = F[x] + SumOver(F, {x} \ {x})
    BY FS_Singleton, SumRemove
<1>2. {x} \ {x} = {} /\ SumOver(F, {}) = 0
    BY SumEmpty
<1> QED
    BY <1>1, <1>2

\* A bound on every value, in parts of d, bounds the sum.
LEMMA SumAtLeast ==
    ASSUME NEW S, IsFiniteSet(S), NEW F, NEW c \in Int, NEW d \in Int,
           \A x \in S : F[x] \in Int /\ F[x] * d >= c
    PROVE  SumOver(F, S) * d >= Cardinality(S) * c
<1> DEFINE T == {s \in SUBSET S : ~(SumOver(F, s) * d >= Cardinality(s) * c)}
<1> SUFFICES ASSUME T # {} PROVE FALSE
    BY DEF T
<1>1. PICK m \in T : \A s \in T : s \subseteq m => s = m
  <2> HIDE DEF T
  <2>1. T \subseteq SUBSET S
      BY DEF T
  <2> QED
      BY <2>1, SmallestMember
<1>2. m # {}
  <2>1. SumOver(F, {}) = 0 /\ Cardinality({}) = 0
      BY SumEmpty, FS_EmptySet
  <2>2. 0 * d = 0 /\ 0 * c = 0
      OBVIOUS
  <2> QED
      BY <2>1, <2>2
<1>3. PICK x \in m : TRUE
    BY <1>2
<1>4. IsFiniteSet(m) /\ IsFiniteSet(m \ {x}) /\ \A y \in m : F[y] \in Int
    BY FS_Subset
<1> DEFINE a == SumOver(F, m)
           b == SumOver(F, m \ {x})
           k == Cardinality(m)
<1>5. a = F[x] + b /\ b \in Int /\ F[x] \in Int /\ F[x] * d >= c
    BY <1>4, SumRemove, SumType
<1>6. b * d >= Cardinality(m \ {x}) * c
    BY <1>1
<1>7. k \in Nat /\ Cardinality(m \ {x}) = k - 1
    BY <1>4, FS_RemoveElement, FS_CardinalityType
<1>8. ~(a * d >= k * c)
    OBVIOUS
<1> HIDE DEF a, b, k, T
<1>9. a * d = F[x] * d + b * d /\ (k - 1) * c = k * c - c
    BY <1>5, <1>7
<1> QED
  <2>1. b * d >= k * c - c
      BY <1>6, <1>7, <1>9
  <2> QED
      BY <1>5, <1>7, <1>8, <1>9, <2>1

\* A function's values on a finite set are no more than its elements.
LEMMA ImageFinite ==
    ASSUME NEW S, IsFiniteSet(S), NEW h
    PROVE  /\ IsFiniteSet({h[x] : x \in S})
           /\ Cardinality({h[x] : x \in S}) <= Cardinality(S)
<1> DEFINE f == [x \in S |-> h[x]]
<1>1. f \in Surjection(S, {h[x] : x \in S})
    BY DEF Surjection
<1> QED
    BY <1>1, FS_Surjection

\* A finite set of integers has a largest one.
LEMMA LargestExists ==
    ASSUME NEW S, IsFiniteSet(S), S # {}, S \subseteq Int
    PROVE  \E x \in S : \A y \in S : x >= y
<1> DEFINE T == {s \in SUBSET S : s # {} /\ ~\E x \in s : \A y \in s : x >= y}
<1> SUFFICES ASSUME T # {} PROVE FALSE
    OBVIOUS
<1>1. PICK m \in T : \A s \in T : s \subseteq m => s = m
  <2> HIDE DEF T
  <2>1. T \subseteq SUBSET S
      BY DEF T
  <2>2. IsFiniteSet(S) /\ T # {}
      OBVIOUS
  <2> QED
      BY ONLY <2>1, <2>2, SmallestMember
<1>2. PICK x \in m : TRUE
    BY <1>1
<1>3. CASE m \ {x} = {}
    BY <1>1, <1>2, <1>3
<1>4. CASE m \ {x} # {}
  <2>1. m \ {x} \in SUBSET S /\ m \ {x} \notin T
    <3> HIDE DEF T
    <3>1. m \ {x} \notin T
        BY <1>1, <1>2
    <3> QED
        BY <1>1, <3>1 DEF T
  <2>2. PICK y \in m \ {x} : \A z \in m \ {x} : y >= z
      BY <1>4, <2>1
  <2>3. \A z \in m : z \in Int
      BY <1>1
  <2>4. CASE x >= y
      BY <1>1, <1>2, <2>2, <2>3, <2>4
  <2>5. CASE y >= x
      BY <1>1, <1>2, <2>2, <2>3, <2>5
  <2> QED
      BY <1>2, <2>2, <2>3, <2>4, <2>5
<1> QED
    BY <1>3, <1>4

\* The largest element of a finite set of integers.
LEMMA LargestIsMax ==
    ASSUME NEW S, IsFiniteSet(S), S # {}, S \subseteq Int
    PROVE  Max(S) \in S /\ \A x \in S : x <= Max(S)
<1>1. \E x \in S : \A y \in S : x >= y
    BY LargestExists
<1>2. Max(S) \in S /\ \A y \in S : Max(S) >= y
    BY <1>1 DEF Max
<1> QED
    BY <1>2

\* A sum over the images of an injection.
LEMMA SumImage ==
    ASSUME NEW S, IsFiniteSet(S), NEW h, NEW F, NEW G,
           \A x \in S : F[x] \in Int /\ G[h[x]] = F[x],
           \A x, y \in S : h[x] = h[y] => x = y
    PROVE  SumOver(G, {h[x] : x \in S}) = SumOver(F, S)
<1> DEFINE Im(s) == {h[x] : x \in s}
           T == {s \in SUBSET S : SumOver(G, Im(s)) # SumOver(F, s)}
<1> SUFFICES ASSUME T # {} PROVE FALSE
    BY DEF T
<1>1. PICK m \in T : \A s \in T : s \subseteq m => s = m
  <2> HIDE DEF T
  <2>1. T \subseteq SUBSET S
      BY DEF T
  <2> QED
      BY <2>1, SmallestMember
<1>2. m # {}
  <2>1. SumOver(F, {}) = 0 /\ SumOver(G, {}) = 0 /\ Im({}) = {}
      BY SumEmpty
  <2> QED
      BY <2>1
<1>3. PICK x \in m : TRUE
    BY <1>2
<1>4. IsFiniteSet(m) /\ IsFiniteSet(Im(m))
  <2>1. IsFiniteSet(m)
      BY FS_Subset
  <2> QED
      BY <2>1, ImageFinite
<1>5. h[x] \in Im(m) /\ Im(m \ {x}) = Im(m) \ {h[x]} /\ \A y \in Im(m) : G[y] \in Int
    BY <1>3
<1>6. SumOver(F, m) = F[x] + SumOver(F, m \ {x})
    BY <1>4, SumRemove
<1>7. SumOver(G, Im(m)) = G[h[x]] + SumOver(G, Im(m) \ {h[x]})
  <2> HIDE DEF Im
  <2> QED
    BY <1>4, <1>5, SumRemove
<1>8. SumOver(G, Im(m \ {x})) = SumOver(F, m \ {x})
    BY <1>1
<1> HIDE DEF Im
<1> QED
    BY <1>5, <1>6, <1>7, <1>8

\* A sum over a subset, of values that are nowhere negative.
LEMMA SumSubset ==
    ASSUME NEW S, IsFiniteSet(S), NEW F, \A x \in S : F[x] \in Nat, NEW R \in SUBSET S
    PROVE  SumOver(F, R) <= SumOver(F, S)
<1> DEFINE T == {s \in SUBSET S : R \subseteq s /\ ~(SumOver(F, R) <= SumOver(F, s))}
<1> SUFFICES ASSUME T # {} PROVE FALSE
    BY DEF T
<1>1. PICK m \in T : \A s \in T : s \subseteq m => s = m
  <2> HIDE DEF T
  <2>1. T \subseteq SUBSET S
      BY DEF T
  <2> QED
      BY <2>1, SmallestMember
<1>2. IsFiniteSet(m) /\ IsFiniteSet(R)
    BY FS_Subset
<1>3. SumOver(F, R) \in Int /\ SumOver(F, m) \in Int
    BY <1>2, SumType
<1>4. PICK x \in m \ R : TRUE
    BY <1>3
<1>5. SumOver(F, m) = F[x] + SumOver(F, m \ {x})
    BY <1>2, SumRemove
<1>6. SumOver(F, R) <= SumOver(F, m \ {x})
    BY <1>1, <1>4
<1>7. SumOver(F, m \ {x}) \in Int
  <2>1. IsFiniteSet(m \ {x})
      BY <1>2, FS_Subset
  <2> QED
      BY <2>1, SumType
<1> QED
    BY <1>3, <1>5, <1>6, <1>7

-----------------------------------------------------------------------------
(***************************************************************************)
(* The sums of the models, as SumOver.                                     *)
(***************************************************************************)
\* mark-to-market in check_plan and FakeBroker._equity: cash plus every holding at its bar.
LEMMA MarkedValueIsSum ==
    ASSUME NEW cash, NEW positions, NEW bars
    PROVE  MarkedValue(cash, positions, bars)
             = cash + SumOver([t \in Tickers |-> positions[t] * bars[t].price], Tickers)
<1> DEFINE F == [t \in Tickers |-> positions[t] * bars[t].price]
           Next(g, s) == LET x == CHOOSE y \in s : TRUE
                         IN  positions[x] * bars[x].price + g[s \ {x}]
           Folds(g) == g = [s \in SUBSET Tickers |-> IF s = {} THEN 0 ELSE Next(g, s)]
<1>1. MarkedValue(cash, positions, bars) = cash + (CHOOSE g : Folds(g))[Tickers]
    BY DEF MarkedValue, MapThenSumSet, MapThenFoldSet
<1>2. ASSUME NEW g PROVE IsSum(F, g, Tickers) <=> Folds(g)
  <2>1. ASSUME NEW s \in SUBSET Tickers, s # {} PROVE Plus(F, g, s) = Next(g, s)
    <3>1. (CHOOSE y \in s : TRUE) \in Tickers
        BY <2>1
    <3> QED
        BY <3>1 DEF Plus
  <2> HIDE DEF Next, F
  <2> QED
      BY <2>1 DEF IsSum
<1> HIDE DEF Folds, F
<1>3. (CHOOSE g : IsSum(F, g, Tickers)) = (CHOOSE g : Folds(g))
    BY <1>2
<1> QED
    BY <1>1, <1>3 DEF SumOver, F

\* What filling one order does to the cash of ScaledCashAfter.
CashEffect(o, bars) ==
    IF o.side = "sell"
    THEN o.qty * bars[o.ticker].price * Scale
    ELSE -(o.qty * bars[o.ticker].price * (Scale + SlippageBuffer))

\* cash_after in check_plan: cash plus the effect of every order.
LEMMA ScaledCashIsSum ==
    ASSUME NEW orders, NEW cash, NEW bars
    PROVE  ScaledCashAfter(orders, cash, bars)
             = cash * Scale + SumOver([o \in orders |-> CashEffect(o, bars)], orders)
<1> DEFINE F == [o \in orders |-> CashEffect(o, bars)]
           Next(g, s) == LET x == CHOOSE y \in s : TRUE IN CashEffect(x, bars) + g[s \ {x}]
           Folds(g) == g = [s \in SUBSET orders |-> IF s = {} THEN 0 ELSE Next(g, s)]
<1>1. ScaledCashAfter(orders, cash, bars) = cash * Scale + (CHOOSE g : Folds(g))[orders]
    BY DEF ScaledCashAfter, MapThenSumSet, MapThenFoldSet, CashEffect
<1>2. ASSUME NEW g PROVE IsSum(F, g, orders) <=> Folds(g)
  <2>1. ASSUME NEW s \in SUBSET orders, s # {} PROVE Plus(F, g, s) = Next(g, s)
    <3>1. (CHOOSE y \in s : TRUE) \in orders
        BY <2>1
    <3> QED
        BY <3>1 DEF Plus
  <2> HIDE DEF Next, F
  <2> QED
      BY <2>1 DEF IsSum
<1> HIDE DEF Folds, F
<1>3. (CHOOSE g : IsSum(F, g, orders)) = (CHOOSE g : Folds(g))
    BY <1>2
<1> QED
    BY <1>1, <1>3 DEF SumOver, F

-----------------------------------------------------------------------------
(***************************************************************************)
(* Sizes and orders.                                                       *)
(***************************************************************************)
\* A positive factor common to both sides may go.
LEMMA Cancel ==
    ASSUME NEW a \in Int, NEW b \in Int, NEW n \in Nat \ {0}, a * n <= b * n
    PROVE  a <= b
OBVIOUS

\* The weight is a fraction.
LEMMA WeightType ==
    ASSUME NEW n \in Nat \ {0}
    PROVE  /\ EqualWeight(n).num \in Nat \ {0}
           /\ EqualWeight(n).den \in Nat \ {0}
BY ConfigAssumption DEF EqualWeight

\* Equal weights leave cash for the slippage of every name.
LEMMA WeightsLeaveSlippage ==
    ASSUME NEW n \in Nat \ {0}
    PROVE  n * EqualWeight(n).num * (Scale + SlippageBuffer) <= EqualWeight(n).den * Scale
<1> DEFINE m == Scale + SlippageBuffer
<1>1. /\ m \in Nat \ {0} /\ Scale \in Nat \ {0} /\ MaxPositionWeight \in Nat
      /\ MaxGrossExposure \in Nat /\ MaxGrossExposure <= Scale
    BY ConfigAssumption
<1>2. MaxGrossExposure * Scale <= Scale * Scale
    BY <1>1
<1>3. CASE MaxPositionWeight * m * n <= MaxGrossExposure * Scale
  <2>1. n * MaxPositionWeight * m = MaxPositionWeight * m * n
      BY <1>1
  <2> QED
      BY <1>1, <1>2, <1>3, <2>1 DEF EqualWeight
<1>4. CASE ~(MaxPositionWeight * m * n <= MaxGrossExposure * Scale)
  <2>1. n * MaxGrossExposure * m = MaxGrossExposure * (m * n)
      BY <1>1
  <2>2. MaxGrossExposure * (m * n) <= Scale * (m * n)
      BY <1>1
  <2>3. Scale * (m * n) = m * n * Scale
      BY <1>1
  <2>4. EqualWeight(n).num = MaxGrossExposure /\ EqualWeight(n).den = m * n
      BY <1>4 DEF EqualWeight
  <2> HIDE DEF m
  <2> QED
      BY <1>1, <2>1, <2>2, <2>3, <2>4 DEF m
<1> QED
    BY <1>3, <1>4

\* Whole-share division has an integer result: the target of a name is whole
\* shares, whatever the account's equity reading.
LEMMA TargetQtyType ==
    ASSUME NEW selected \in SUBSET Universe, NEW t, NEW equity \in Int, NEW price \in Nat \ {0}
    PROVE  t \in selected => TargetQty(selected, t, equity, price) \in Int
<1> SUFFICES ASSUME t \in selected
             PROVE  TargetQty(selected, t, equity, price) \in Int
    OBVIOUS
<1> DEFINE n == Cardinality(selected)
           w == EqualWeight(n)
<1>1. IsFiniteSet(selected) /\ n \in Nat /\ n # 0
    BY TickersAssumption, FS_Subset, FS_CardinalityType, FS_EmptySet
<1>2. w.num \in Int /\ w.den \in Nat /\ w.den > 0
    BY <1>1, ConfigAssumption DEF EqualWeight
<1>3. w.num * equity \in Int /\ w.den * price \in Nat /\ w.den * price > 0
    BY <1>2
<1>4. (w.num * equity) \div (w.den * price) \in Int
    BY <1>3
<1> QED
    BY <1>4 DEF TargetQty

\* From a positive account no target is negative, and none costs more than its weight.
LEMMA TargetWithinWeight ==
    ASSUME NEW selected \in SUBSET Universe, NEW t \in selected, NEW equity \in Nat,
           NEW price \in Nat \ {0}
    PROVE  LET w == EqualWeight(Cardinality(selected))
               q == TargetQty(selected, t, equity, price)
           IN  q \in Nat /\ q * price * w.den <= w.num * equity
<1> DEFINE n == Cardinality(selected)
           num == EqualWeight(n).num
           den == EqualWeight(n).den
           q == TargetQty(selected, t, equity, price)
<1>1. n \in Nat \ {0}
    BY TickersAssumption, FS_Subset, FS_CardinalityType, FS_EmptySet
<1>2. num \in Nat \ {0} /\ den \in Nat \ {0}
    BY <1>1, WeightType
<1>3. q = (num * equity) \div (den * price)
    BY DEF TargetQty
<1> HIDE DEF num, den, q
<1> DEFINE a == num * equity
           b == den * price
<1>4. a \in Nat /\ b \in Nat \ {0}
    BY <1>2
<1> HIDE DEF a, b
<1>5. q \in Nat /\ q * b <= a
    BY <1>3, <1>4 DEF a, b
<1>6. q * b = q * price * den
    BY <1>2, <1>5 DEF b
<1> QED
    BY <1>5, <1>6 DEF a, q, num, den, n

Shortfall(selected, positions, equity, prices, t) ==
    TargetQty(selected, t, equity, prices[t]) - positions[t]

\* The names plan_orders trades, and its order for one.
Traded(selected, positions, equity, prices) ==
    {t \in Universe :
        LET missing == Shortfall(selected, positions, equity, prices, t)
        IN  /\ t \in selected \/ positions[t] > 0
            /\ ~InsideBand(selected, t, missing, equity, prices[t])
            /\ missing # 0}

OrderFor(selected, positions, equity, prices, day, t) ==
    LET missing == Shortfall(selected, positions, equity, prices, t)
    IN  [day |-> day, ticker |-> t, side |-> IF missing < 0 THEN "sell" ELSE "buy",
         qty |-> Magnitude(missing)]

\* A plan is the set of the orders of the tickers traded.
LEMMA PlanIsOrders ==
    ASSUME NEW selected, NEW positions, NEW equity, NEW prices, NEW day
    PROVE  PlanOrders(selected, positions, equity, prices, day)
             = {OrderFor(selected, positions, equity, prices, day, t) :
                   t \in Traded(selected, positions, equity, prices)}
BY Zenon DEF PlanOrders, OrderFor, Traded, Shortfall

\* What is missing to a target is whole shares.
LEMMA ShortfallType ==
    ASSUME NEW selected \in SUBSET Universe, NEW positions \in [Tickers -> Int],
           NEW equity \in Int, NEW prices \in [Tickers -> Nat \ {0}], NEW t \in Universe
    PROVE  Shortfall(selected, positions, equity, prices, t) \in Int
<1>1. t \in Tickers /\ positions[t] \in Int /\ prices[t] \in Nat \ {0}
    BY TickersAssumption
<1>2. TargetQty(selected, t, equity, prices[t]) \in Int
    BY <1>1, TargetQtyType DEF TargetQty
<1> QED
    BY <1>1, <1>2 DEF Shortfall

\* Orders are whole positive quantities, one order per name.
LEMMA OrdersType ==
    ASSUME NEW selected \in SUBSET Universe, NEW positions \in [Tickers -> Int],
           NEW equity \in Int, NEW prices \in [Tickers -> Nat \ {0}], NEW day,
           NEW o \in PlanOrders(selected, positions, equity, prices, day)
    PROVE  /\ o = OrderFor(selected, positions, equity, prices, day, o.ticker)
           /\ o.ticker \in Traded(selected, positions, equity, prices)
           /\ o.ticker \in Tickers
           /\ o.qty \in Nat \ {0}
           /\ o.side \in Sides
           /\ o.day = day
<1>1. PICK t \in Traded(selected, positions, equity, prices) :
        o = OrderFor(selected, positions, equity, prices, day, t)
    BY PlanIsOrders
<1> DEFINE missing == Shortfall(selected, positions, equity, prices, t)
<1>2. t \in Universe /\ missing # 0
    BY DEF Traded
<1>3. missing \in Int
    BY <1>2, ShortfallType
<1> HIDE DEF missing
<1>4. /\ o.ticker = t /\ o.day = day /\ o.qty = Magnitude(missing)
      /\ o.side = IF missing < 0 THEN "sell" ELSE "buy"
    BY <1>1 DEF OrderFor, missing
<1>5. o.qty \in Nat \ {0}
    BY <1>2, <1>3, <1>4 DEF Magnitude
<1> QED
    BY <1>1, <1>2, <1>4, <1>5, TickersAssumption DEF Sides

\* plan_orders makes at most one order of a name.
LEMMA OneOrderPerName ==
    ASSUME NEW selected \in SUBSET Universe, NEW positions \in [Tickers -> Int],
           NEW equity \in Int, NEW prices \in [Tickers -> Nat \ {0}], NEW day,
           NEW o \in PlanOrders(selected, positions, equity, prices, day),
           NEW p \in PlanOrders(selected, positions, equity, prices, day),
           o.ticker = p.ticker
    PROVE  o = p
BY OrdersType

\* A plan has finitely many orders.
LEMMA PlanIsFinite ==
    ASSUME NEW selected, NEW positions, NEW equity, NEW prices, NEW day
    PROVE  IsFiniteSet(PlanOrders(selected, positions, equity, prices, day))
<1> DEFINE T == Traded(selected, positions, equity, prices)
           h == [t \in T |-> OrderFor(selected, positions, equity, prices, day, t)]
<1>1. T \in SUBSET Universe /\ Universe \in SUBSET Tickers
    BY TickersAssumption DEF Traded
<1>2. IsFiniteSet(T)
    BY <1>1, TickersAssumption, FS_Subset
<1>3. PlanOrders(selected, positions, equity, prices, day) = {h[t] : t \in T}
    BY PlanIsOrders
<1> HIDE DEF h, T
<1> QED
    BY <1>2, <1>3, ImageFinite

\* Shares an order adds.
Bought(o) == IF o.side = "buy" THEN o.qty ELSE -o.qty

\* Once an order of a plan has filled, the plan from the new holdings is the rest of it.
LEMMA FillLeavesTheRest ==
    ASSUME NEW selected \in SUBSET Universe, NEW positions \in [Tickers -> Int],
           NEW equity \in Int, NEW prices \in [Tickers -> Nat \ {0}], NEW day,
           NEW o \in PlanOrders(selected, positions, equity, prices, day),
           NEW after, after[o.ticker] = positions[o.ticker] + Bought(o),
           \A t \in Tickers \ {o.ticker} : after[t] = positions[t]
    PROVE  PlanOrders(selected, after, equity, prices, day)
             = PlanOrders(selected, positions, equity, prices, day) \ {o}
<1> DEFINE u == o.ticker
           Miss(held, t) == Shortfall(selected, held, equity, prices, t)
           Old == Traded(selected, positions, equity, prices)
           New == Traded(selected, after, equity, prices)
           For(held, t) == OrderFor(selected, held, equity, prices, day, t)
<1>1. /\ o = For(positions, u) /\ u \in Old /\ u \in Tickers /\ u \in Universe
      /\ o.qty \in Nat \ {0}
    BY OrdersType DEF Traded
<1>2. Miss(positions, u) \in Int /\ Miss(positions, u) # 0
    BY <1>1, ShortfallType DEF Traded
<1>3. Bought(o) = Miss(positions, u)
  <2> DEFINE missing == Miss(positions, u)
  <2>1. o.side = (IF missing < 0 THEN "sell" ELSE "buy") /\ o.qty = Magnitude(missing)
      BY <1>1 DEF OrderFor
  <2> HIDE DEF missing
  <2> QED
      BY <1>2, <2>1 DEF Bought, Magnitude, missing
<1>4. TargetQty(selected, u, equity, prices[u]) \in Int
    BY <1>1, TargetQtyType DEF TargetQty
<1>5. after[u] = positions[u] + Miss(positions, u)
    BY <1>1, <1>3
<1>6. Miss(after, u) = 0
    BY <1>1, <1>3, <1>4 DEF Shortfall
<1>7. \A t \in Tickers \ {u} : after[t] = positions[t] /\ Miss(after, t) = Miss(positions, t)
    BY DEF Shortfall
<1>8. New = Old \ {u}
  <2>1. u \notin New
      BY <1>6 DEF Traded
  <2>2. ASSUME NEW t \in Universe, t # u PROVE t \in New <=> t \in Old
      BY <1>7, <2>2, TickersAssumption DEF Traded
  <2>3. New \subseteq Universe /\ Old \subseteq Universe
      BY DEF Traded
  <2> HIDE DEF New, Old
  <2> QED
      BY <2>1, <2>2, <2>3
<1>9. \A t \in Old \ {u} : For(after, t) = For(positions, t)
    BY <1>7, TickersAssumption DEF OrderFor, Traded
<1>10. \A t \in Old : For(positions, t).ticker = t
    BY DEF OrderFor
<1>11. /\ PlanOrders(selected, after, equity, prices, day) = {For(after, t) : t \in New}
       /\ PlanOrders(selected, positions, equity, prices, day) = {For(positions, t) : t \in Old}
    BY PlanIsOrders
<1> HIDE DEF New, Old, For
<1>12. {For(after, t) : t \in New} = {For(positions, t) : t \in Old} \ {o}
    BY <1>1, <1>8, <1>9, <1>10
<1> QED
    BY <1>11, <1>12

\* qty_after in check_plan: the holding plus the orders of its name.
LEMMA QtyAfterIsSum ==
    ASSUME NEW orders, NEW positions, NEW t \in Tickers
    PROVE  LET S == {o \in orders : o.ticker = t}
           IN  QtyAfter(orders, positions)[t]
                 = positions[t] + SumOver([o \in S |-> Bought(o)], S)
<1> DEFINE S == {o \in orders : o.ticker = t}
           F == [o \in S |-> Bought(o)]
           Next(g, s) == LET x == CHOOSE y \in s : TRUE IN Bought(x) + g[s \ {x}]
           Folds(g) == g = [s \in SUBSET S |-> IF s = {} THEN 0 ELSE Next(g, s)]
<1>1. QtyAfter(orders, positions)[t] = positions[t] + (CHOOSE g : Folds(g))[S]
    BY DEF QtyAfter, MapThenSumSet, MapThenFoldSet, Bought
<1>2. ASSUME NEW g PROVE IsSum(F, g, S) <=> Folds(g)
  <2>1. ASSUME NEW s \in SUBSET S, s # {} PROVE Plus(F, g, s) = Next(g, s)
    <3>1. (CHOOSE y \in s : TRUE) \in S
        BY <2>1
    <3> QED
        BY <3>1 DEF Plus
  <2> HIDE DEF Next, F, S
  <2> QED
      BY <2>1 DEF IsSum
<1> HIDE DEF Folds, F, S
<1>3. (CHOOSE g : IsSum(F, g, S)) = (CHOOSE g : Folds(g))
    BY <1>2
<1> QED
    BY <1>1, <1>3 DEF SumOver, F, S

\* With one order per name, qty_after is the holding, or the holding and that order.
LEMMA QtyAfterOne ==
    ASSUME NEW orders, NEW positions \in [Tickers -> Int],
           \A o \in orders : o.qty \in Nat,
           \A o, p \in orders : o.ticker = p.ticker => o = p,
           NEW t \in Tickers
    PROVE  /\ QtyAfter(orders, positions)[t] \in Int
           /\ \A o \in orders :
                  o.ticker = t => QtyAfter(orders, positions)[t] = positions[t] + Bought(o)
<1> DEFINE S == {o \in orders : o.ticker = t}
           F == [o \in S |-> Bought(o)]
<1>1. QtyAfter(orders, positions)[t] = positions[t] + SumOver(F, S)
    BY QtyAfterIsSum
<1>2. positions[t] \in Int
    OBVIOUS
<1>3. CASE S = {}
  <2>1. SumOver(F, S) = 0
      BY <1>3, SumEmpty
  <2>2. QtyAfter(orders, positions)[t] \in Int
      BY ONLY <1>1, <1>2, <2>1
  <2> QED
      BY <1>3, <2>2
<1>4. ASSUME NEW o \in S
      PROVE  QtyAfter(orders, positions)[t] = positions[t] + Bought(o) /\ Bought(o) \in Int
  <2>1. S = {o} /\ Bought(o) \in Int /\ F[o] = Bought(o)
      BY DEF Bought
  <2> HIDE DEF F, S
  <2>2. SumOver(F, S) = Bought(o)
      BY <2>1, SumSingle
  <2> QED
      BY <1>1, <2>1, <2>2
<1> QED
    BY <1>2, <1>3, <1>4

-----------------------------------------------------------------------------
(***************************************************************************)
(* Money.                                                                  *)
(***************************************************************************)
\* The account's value is a whole number.
LEMMA MarkedValueType ==
    ASSUME NEW cash \in Int, NEW positions \in [Tickers -> Int],
           NEW bars, \A t \in Tickers : bars[t].price \in Nat
    PROVE  MarkedValue(cash, positions, bars) \in Int
<1> DEFINE F == [t \in Tickers |-> positions[t] * bars[t].price]
<1>1. \A t \in Tickers : F[t] \in Int
    OBVIOUS
<1> HIDE DEF F
<1>2. SumOver(F, Tickers) \in Int
    BY <1>1, TickersAssumption, SumType
<1>3. MarkedValue(cash, positions, bars) = cash + SumOver(F, Tickers)
    BY MarkedValueIsSum DEF F
<1> QED
    BY <1>2, <1>3

\* An exchange of cash for shares at the bar price moves value and makes none.
LEMMA FillKeepsValue ==
    ASSUME NEW cash \in Int, NEW positions \in [Tickers -> Int],
           NEW left \in Int, NEW after \in [Tickers -> Int],
           NEW bars, \A t \in Tickers : bars[t].price \in Nat,
           NEW u \in Tickers, \A t \in Tickers \ {u} : after[t] = positions[t]
    PROVE  left + after[u] * bars[u].price = cash + positions[u] * bars[u].price
             => MarkedValue(left, after, bars) = MarkedValue(cash, positions, bars)
<1> DEFINE F == [t \in Tickers |-> positions[t] * bars[t].price]
           G == [t \in Tickers |-> after[t] * bars[t].price]
<1>1. \A t \in Tickers : F[t] \in Int /\ G[t] \in Int
    OBVIOUS
<1>2. \A t \in Tickers : t # u => G[t] = F[t]
    OBVIOUS
<1>3. /\ G[u] = after[u] * bars[u].price
      /\ F[u] = positions[u] * bars[u].price
    OBVIOUS
<1>4. MarkedValue(cash, positions, bars) = cash + SumOver(F, Tickers)
    BY MarkedValueIsSum DEF F
<1>5. MarkedValue(left, after, bars) = left + SumOver(G, Tickers)
    BY MarkedValueIsSum DEF G
<1> HIDE DEF F, G
<1>6. IsFiniteSet(Tickers) /\ u \in Tickers /\ cash \in Int /\ left \in Int
    BY TickersAssumption
<1>7. SumOver(F, Tickers) \in Int
    BY ONLY <1>1, <1>6, SumType
<1>8. F[u] \in Int /\ G[u] \in Int
    BY ONLY <1>1, <1>6
<1>9. SumOver(G, Tickers) = SumOver(F, Tickers) - F[u] + G[u]
    BY <1>1, <1>2, <1>6, SumUpdate
<1>10. left + G[u] = cash + F[u] => MarkedValue(left, after, bars) = MarkedValue(cash, positions, bars)
    BY ONLY <1>4, <1>5, <1>6, <1>7, <1>8, <1>9
<1> QED
    BY ONLY <1>3, <1>10

\* An account that holds nothing is worth its cash.
LEMMA EmptyAccount ==
    ASSUME NEW cash \in Int, NEW positions, \A t \in Tickers : positions[t] = 0,
           NEW bars, \A t \in Tickers : bars[t].price \in Nat
    PROVE  MarkedValue(cash, positions, bars) = cash
<1> DEFINE F == [t \in Tickers |-> positions[t] * bars[t].price]
<1>1. \A t \in Tickers : F[t] = 0
    OBVIOUS
<1>2. Cardinality(Tickers) \in Nat
    BY TickersAssumption, FS_CardinalityType
<1> HIDE DEF F
<1>3. SumOver(F, Tickers) = Cardinality(Tickers) * 0
  <2>1. IsFiniteSet(Tickers) /\ 0 \in Int
      BY TickersAssumption
  <2> QED
      BY ONLY <1>1, <2>1, SumConstant
<1>4. MarkedValue(cash, positions, bars) = cash + SumOver(F, Tickers)
    BY MarkedValueIsSum DEF F
<1> QED
    BY <1>2, <1>3, <1>4

\* From an all-cash account plan_orders sells nothing and buys each selected name
\* within its weight, so the whole plan, slippage included, fits the cash.
LEMMA FromCashPlan ==
    ASSUME NEW selected \in SUBSET Universe, NEW cash \in Nat,
           NEW positions \in [Tickers -> Int], \A t \in Tickers : positions[t] = 0,
           NEW prices \in [Tickers -> Nat \ {0}], NEW day,
           NEW bars, \A t \in Tickers : bars[t].price = prices[t]
    PROVE  NeedsNoMargin(PlanOrders(selected, positions, cash, prices, day), cash, bars)
<1> DEFINE orders == PlanOrders(selected, positions, cash, prices, day)
           F == [o \in orders |-> CashEffect(o, bars)]
           T == Traded(selected, positions, cash, prices)
           h == [t \in T |-> OrderFor(selected, positions, cash, prices, day, t)]
           n == Cardinality(selected)
           num == EqualWeight(n).num
           den == EqualWeight(n).den
           m == Scale + SlippageBuffer
           each == num * cash * m
<1>1. IsFiniteSet(orders) /\ IsFiniteSet(selected) /\ n \in Nat
    BY PlanIsFinite, TickersAssumption, FS_Subset, FS_CardinalityType
<1>2. m \in Nat \ {0} /\ Scale \in Nat \ {0}
    BY ConfigAssumption
<1>3. T \subseteq selected
  <2>1. \A t \in Universe : ~(positions[t] > 0)
      BY TickersAssumption
  <2> QED
      BY <2>1 DEF Traded
<1>4. Cardinality(orders) <= n /\ Cardinality(orders) \in Nat
  <2>1. IsFiniteSet(T) /\ Cardinality(T) <= n /\ Cardinality(T) \in Nat
      BY <1>1, <1>3, FS_Subset, FS_CardinalityType
  <2>2. orders = {h[t] : t \in T}
      BY PlanIsOrders
  <2> HIDE DEF orders, h, T
  <2>3. Cardinality({h[t] : t \in T}) <= Cardinality(T)
      BY <2>1, ImageFinite
  <2> QED
      BY <1>1, <2>1, <2>2, <2>3, FS_CardinalityType
<1>5. ScaledCashAfter(orders, cash, bars) = cash * Scale + SumOver(F, orders)
    BY ScaledCashIsSum
<1>6. CASE n = 0
  <2>1. orders = {}
      BY <1>1, <1>4, <1>6, FS_EmptySet
  <2>2. SumOver(F, orders) = 0
      BY <2>1, SumEmpty
  <2> QED
      BY <1>2, <1>5, <2>2 DEF NeedsNoMargin
<1>7. CASE n \in Nat \ {0}
  <2>1. num \in Nat \ {0} /\ den \in Nat \ {0} /\ n * num * m <= den * Scale
      BY <1>7, WeightType, WeightsLeaveSlippage
  <2>2. ASSUME NEW o \in orders PROVE F[o] \in Int /\ F[o] * den >= -each
    <3> DEFINE t == o.ticker
               q == TargetQty(selected, t, cash, prices[t])
               p == prices[t]
    <3>1. /\ o = OrderFor(selected, positions, cash, prices, day, t)
          /\ t \in T /\ t \in Tickers /\ o.qty # 0
        BY OrdersType
    <3>2. t \in selected /\ p \in Nat \ {0} /\ bars[t].price = p /\ positions[t] = 0
        BY <1>3, <3>1
    <3>3. q \in Nat /\ q * p * den <= num * cash
        BY <3>2, TargetWithinWeight
    <3>4. o.side = "buy" /\ o.qty = q
      <4>1. Shortfall(selected, positions, cash, prices, t) = q
          BY <3>2, <3>3 DEF Shortfall
      <4> HIDE DEF q, t, T
      <4> QED
          BY <3>1, <3>3, <4>1 DEF OrderFor, Magnitude
    <3>5. F[o] = -(q * p * m)
        BY <3>2, <3>4 DEF CashEffect
    <3> HIDE DEF q, p, num, den, F, m
    <3>6. q * p * m * den = (q * p * den) * m
        BY <1>2, <2>1, <3>2, <3>3
    <3>7. (q * p * den) * m <= (num * cash) * m
        BY <1>2, <2>1, <3>2, <3>3
    <3>8. q * p * m \in Nat /\ F[o] * den = -(q * p * m * den)
        BY <1>2, <2>1, <3>2, <3>3, <3>5
    <3> QED
        BY <1>2, <2>1, <3>2, <3>3, <3>5, <3>6, <3>7, <3>8
  <2> HIDE DEF F, orders, num, den, m, n
  <2>3. each \in Nat
      BY <1>2, <2>1
  <2> DEFINE total == SumOver(F, orders)
             k == Cardinality(orders)
  <2>4. total \in Int
      BY <1>1, <2>2, SumType
  <2> DEFINE low == -each
  <2>5. total * den >= k * low
    <3>1. low \in Int /\ \A o \in orders : F[o] \in Int /\ F[o] * den >= low
        BY <2>2, <2>3
    <3> HIDE DEF low
    <3> QED
        BY ONLY <1>1, <2>1, <3>1, SumAtLeast
  <2> HIDE DEF total, k
  <2>6. n * each <= (den * Scale) * cash
    <3>1. n * each = (n * num * m) * cash
        BY <1>1, <1>2, <2>1
    <3> HIDE DEF each
    <3> DEFINE x == n * num * m
               y == den * Scale
    <3>2. x \in Nat /\ y \in Nat /\ x <= y
        BY <1>1, <1>2, <2>1
    <3> HIDE DEF x, y
    <3>3. x * cash <= y * cash
        BY <3>2
    <3> QED
        BY <3>1, <3>3 DEF x, y
  <2> HIDE DEF each
  <2>7. k * each <= n * each /\ k * low = -(k * each)
      BY <1>1, <1>4, <2>3 DEF k
  <2>8. (cash * Scale + total) * den = (den * Scale) * cash + total * den
      BY <1>2, <2>1, <2>4
  <2> HIDE DEF low
  <2>9. 0 * den <= (cash * Scale + total) * den
    <3> DEFINE a == (den * Scale) * cash
               b == total * den
               c == n * each
               d == k * each
    <3>1. a \in Int /\ b \in Int /\ c \in Int /\ d \in Int
        BY <1>1, <1>2, <1>4, <2>1, <2>3, <2>4 DEF k
    <3>2. b >= -d /\ d <= c /\ c <= a
        BY <2>5, <2>6, <2>7
    <3>3. (cash * Scale + total) * den = a + b
        BY <2>8
    <3> HIDE DEF a, b, c, d
    <3> QED
        BY <2>1, <3>1, <3>2, <3>3
  <2>10. cash * Scale + total \in Int
      BY <1>2, <2>4
  <2>11. 0 <= cash * Scale + total
      BY <2>1, <2>9, <2>10, Cancel
  <2> QED
      BY <1>5, <2>10, <2>11 DEF NeedsNoMargin, total, orders
<1> QED
    BY <1>1, <1>6, <1>7
=============================================================================
