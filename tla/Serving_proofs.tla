--------------------------- MODULE Serving_proofs ---------------------------
(***************************************************************************)
(* Why an answer has every forecast it can have, each from its own bars,   *)
(* and why a request that fails had a cause, for any number of concurrent  *)
(* requests, horizons, answers of the sources, attempts and restarts.      *)
(***************************************************************************)
EXTENDS Serving, FiniteSetTheorems, SequenceTheorems, WellFoundedInduction, TLAPS

-----------------------------------------------------------------------------
(***************************************************************************)
(* The inductive invariant.                                                *)
(***************************************************************************)
\* Once every source has been asked.
Gathered == {"check", "tokenizer", "model", "move", "loaded", "forward", "predict"}

Points == {"idle", "fetch", "done"} \cup Gathered

IsRequest(x) ==
    x = [pc |-> x.pc, asked |-> x.asked, model |-> x.model, left |-> x.left, at |-> x.at,
         tries |-> x.tries, got |-> x.got, using |-> x.using, preds |-> x.preds,
         lag |-> x.lag, status |-> x.status]

RequestType(x) ==
    /\ IsRequest(x)
    /\ x.pc \in Points
    /\ x.at \in DOMAIN Sources
    /\ x.tries \in 0..(Attempts(Sources[x.at]) - 1)
    /\ x.using \in Requests \cup {None}
    /\ DOMAIN x.preds \subseteq Trainable
    /\ x.status \in {"none", "lost", "answered", "invalid", "failed"}
    /\ x.got = [s \in SourceNames |-> x.got[s]]

\* Observations that a forecast of interval i may use.
OwnOnly(observations, i) == \A o \in observations : o.src \in Own(i) /\ o.known <= Now

\* What source s gave for interval i; an optional one may be left out.
Gives(s, value, i) ==
    CASE s = "prices"  -> OwnOnly(value.ret, i) /\ OwnOnly(value.vol, i)
      [] s = "returns" -> OwnOnly(value, i)
      [] OTHER         -> value = NoSource \/ OwnOnly(value, i)

\* What a request has gathered so far is of the interval it is at.
GatheredOwn(x) ==
    \A k \in DOMAIN Sources :
        (x.pc = "fetch" /\ k < x.at) \/ x.pc \in Gathered
            => Gives(Sources[k], x.got[Sources[k]], x.left[1])

Forecast(vector, h) == Complete(vector) /\ OwnOnly(Reads(vector), Interval(h))

Intervals == {Interval(h) : h \in Horizons}

\* The horizons whose interval is done with have their forecasts.
Progress(x) ==
    /\ x.pc \in Gathered => x.at = 1
    /\ x.pc \in {"fetch"} \cup Gathered =>
        /\ NamesOf(x.asked) \subseteq Horizons
        /\ x.model \subseteq Trainable
        /\ x.left \in Seq(Intervals) /\ x.left # <<>>
        /\ DOMAIN x.preds \subseteq NamesOf(x.asked) \cap x.model
        /\ \A h \in NamesOf(x.asked) \cap x.model :
              h \in DOMAIN x.preds \/ \E k \in DOMAIN x.left : x.left[k] = Interval(h)
        /\ \A h \in DOMAIN x.preds : Forecast(x.preds[h], h)

Answered(x) ==
    x.status = "answered" =>
        /\ DOMAIN x.preds = NamesOf(x.asked) \cap x.model
        /\ \A h \in DOMAIN x.preds : Forecast(x.preds[h], h)

\* The global FinBERT is on its device, on its way there, or never will be.
BertKnown ==
    /\ bert = None \/ bert \in moved \/ stuck \/ \E q \in Requests : req[q].pc = "move"
    /\ \A r \in Requests : req[r].pc \in {"move", "loaded", "forward"} => bert # None

ProcessType ==
    /\ artifact \in {NoFile, Torn} \cup SUBSET Trainable
    /\ trainer \in {None} \cup SUBSET Trainable
    /\ server \in {None} \cup SUBSET Trainable
    /\ tok \in BOOLEAN /\ stuck \in BOOLEAN
    /\ bert \in Requests \cup {None} /\ moved \subseteq Requests
    /\ folder \subseteq Filings
    /\ trains \in 0..MaxTrains /\ starts \in 0..MaxStarts
    /\ req = [r \in Requests |-> req[r]]

RequestInv(x) == RequestType(x) /\ GatheredOwn(x) /\ Progress(x) /\ Answered(x)

ServingInv ==
    /\ ProcessType
    /\ BertKnown
    /\ \A r \in Requests : RequestInv(req[r])

-----------------------------------------------------------------------------
(***************************************************************************)
(* The intervals of a request.                                             *)
(***************************************************************************)
\* A non-empty set of naturals has a least member.
LEMMA LeastNumber ==
    ASSUME NEW S \in SUBSET Nat, S # {}
    PROVE  \E x \in S : \A y \in S : x <= y
<1>1. PICK x \in S : \A y \in S : ~(<<y, x>> \in OpToRel(<, Nat))
    BY NatLessThanWellFounded, WFMin
<1>2. \A y \in S : ~(y < x)
    BY <1>1 DEF OpToRel
<1> QED
    BY <1>2

FirstAsked(asked) ==
    {k \in DOMAIN asked : \A j \in 1..(k - 1) : Interval(asked[j]) # Interval(asked[k])}

RankOf(S, k) == Cardinality({j \in S : j <= k})

\* Ranks number the members of a finite set of naturals from one to their count.
LEMMA RanksAreANumbering ==
    ASSUME NEW S \in SUBSET Nat, IsFiniteSet(S)
    PROVE  /\ \A k \in S : RankOf(S, k) \in 1..Cardinality(S)
           /\ \A k, l \in S : RankOf(S, k) = RankOf(S, l) => k = l
           /\ \A n \in 1..Cardinality(S) : \E k \in S : RankOf(S, k) = n
<1> DEFINE upTo(k) == {j \in S : j <= k}
<1>1. \A k : IsFiniteSet(upTo(k)) /\ Cardinality(upTo(k)) \in Nat /\ Cardinality(upTo(k)) <= Cardinality(S)
    BY FS_Subset, FS_CardinalityType
<1>2. Cardinality(S) \in Nat
    BY FS_CardinalityType
<1>3. \A k \in S : RankOf(S, k) \in 1..Cardinality(S)
  <2> SUFFICES ASSUME NEW k \in S PROVE RankOf(S, k) \in 1..Cardinality(S)
      OBVIOUS
  <2>1. k \in upTo(k)
      OBVIOUS
  <2>2. Cardinality(upTo(k)) # 0
      BY <1>1, <2>1, FS_EmptySet
  <2> QED
      BY <1>1, <1>2, <2>2 DEF RankOf
<1>4. \A k, l \in S : k < l => RankOf(S, k) < RankOf(S, l)
  <2> SUFFICES ASSUME NEW k \in S, NEW l \in S, k < l PROVE RankOf(S, k) < RankOf(S, l)
      OBVIOUS
  <2>1. upTo(k) \subseteq upTo(l) /\ l \in upTo(l) /\ l \notin upTo(k)
    <3>1. k \in Nat /\ l \in Nat /\ l <= l /\ ~(l <= k)
        OBVIOUS
    <3>2. ASSUME NEW j \in S, j <= k PROVE j <= l
      <4>1. j \in Nat
          OBVIOUS
      <4> QED
          BY <3>1, <3>2, <4>1
    <3> QED
        BY <3>1, <3>2
  <2>2. Cardinality(upTo(k)) <= Cardinality(upTo(l)) /\ Cardinality(upTo(k)) # Cardinality(upTo(l))
      BY <1>1, <2>1, FS_Subset
  <2> QED
      BY <1>1, <2>2 DEF RankOf
<1>5. \A k, l \in S : RankOf(S, k) = RankOf(S, l) => k = l
  <2> SUFFICES ASSUME NEW k \in S, NEW l \in S, k # l PROVE RankOf(S, k) # RankOf(S, l)
      OBVIOUS
  <2>1. k < l \/ l < k
      OBVIOUS
  <2>2. RankOf(S, k) \in Nat /\ RankOf(S, l) \in Nat
      BY <1>2, <1>3
  <2> QED
      BY <1>4, <2>1, <2>2
<1> DEFINE f == [k \in S |-> RankOf(S, k)]
<1>6. f \in Injection(S, 1..Cardinality(S))
    BY <1>3, <1>5 DEF Injection, IsInjective
<1>7. IsFiniteSet(1..Cardinality(S)) /\ Cardinality(1..Cardinality(S)) = Cardinality(S)
    BY <1>2, FS_Interval
<1>8. f \in Surjection(S, 1..Cardinality(S))
    BY <1>6, <1>7, FS_Injection
<1>9. \A n \in 1..Cardinality(S) : \E k \in S : RankOf(S, k) = n
    BY <1>8 DEF Surjection
<1> QED
    BY <1>3, <1>5, <1>9

\* The list of intervals names the interval of every horizon that was asked for,
\* and nothing else; it is empty for no request that is let in.
LEMMA ByIntervalCovers ==
    ASSUME NEW asked \in Seq(STRING), asked # <<>>, NamesOf(asked) \subseteq Horizons
    PROVE  /\ ByInterval(asked) \in Seq(Intervals)
           /\ ByInterval(asked) # <<>>
           /\ \A h \in NamesOf(asked) : \E n \in DOMAIN ByInterval(asked) : ByInterval(asked)[n] = Interval(h)
<1> DEFINE first == FirstAsked(asked)
           pick(n) == CHOOSE k \in first : RankOf(first, k) = n
<1>1. DOMAIN asked = 1..Len(asked) /\ Len(asked) \in Nat \ {0}
    BY EmptySeq, LenProperties
<1>2. first \in SUBSET Nat /\ IsFiniteSet(first)
  <2>1. IsFiniteSet(1..Len(asked)) /\ first \subseteq 1..Len(asked)
      BY <1>1, FS_Interval DEF FirstAsked
  <2> QED
      BY <2>1, FS_Subset
<1>3. ByInterval(asked) = [n \in 1..Cardinality(first) |-> Interval(asked[pick(n)])]
    BY DEF ByInterval, FirstAsked, RankOf
<1>4. \A n \in 1..Cardinality(first) : pick(n) \in first /\ RankOf(first, pick(n)) = n
    BY <1>2, RanksAreANumbering
<1>5. \A k \in first : Interval(asked[k]) \in Intervals
    BY DEF Intervals, FirstAsked, NamesOf
<1>6. Cardinality(first) \in Nat
    BY <1>2, FS_CardinalityType
<1>7. ByInterval(asked) \in Seq(Intervals)
  <2>1. \A n \in 1..Cardinality(first) : Interval(asked[pick(n)]) \in Intervals
      BY <1>4, <1>5
  <2>2. ByInterval(asked) \in [1..Cardinality(first) -> Intervals]
    <3> HIDE DEF pick, first
    <3> QED
        BY <1>3, <2>1
  <2> QED
      BY <1>6, <2>2
<1>8. \A k \in DOMAIN asked : \E l \in first : Interval(asked[l]) = Interval(asked[k])
  <2> SUFFICES ASSUME NEW k \in DOMAIN asked
               PROVE  \E l \in first : Interval(asked[l]) = Interval(asked[k])
      OBVIOUS
  <2> DEFINE same == {j \in DOMAIN asked : Interval(asked[j]) = Interval(asked[k])}
  <2>1. k \in same /\ same \in SUBSET Nat
      BY <1>1
  <2>2. PICK l \in same : \A j \in same : l <= j
      BY <2>1, LeastNumber
  <2>3. l \in first
      BY <1>1, <2>2 DEF FirstAsked
  <2> QED
      BY <2>3
<1>9. \A l \in first : /\ RankOf(first, l) \in 1..Cardinality(first)
                       /\ ByInterval(asked)[RankOf(first, l)] = Interval(asked[l])
  <2> SUFFICES ASSUME NEW l \in first
               PROVE  /\ RankOf(first, l) \in 1..Cardinality(first)
                      /\ ByInterval(asked)[RankOf(first, l)] = Interval(asked[l])
      OBVIOUS
  <2>1. RankOf(first, l) \in 1..Cardinality(first)
      BY <1>2, RanksAreANumbering
  <2>2. pick(RankOf(first, l)) = l
      BY <1>2, <1>4, <2>1, RanksAreANumbering
  <2> QED
      BY <1>3, <2>1, <2>2
<1>10. \A h \in NamesOf(asked) : \E n \in DOMAIN ByInterval(asked) : ByInterval(asked)[n] = Interval(h)
  <2> SUFFICES ASSUME NEW k \in DOMAIN asked
               PROVE  \E n \in 1..Cardinality(first) : ByInterval(asked)[n] = Interval(asked[k])
      BY <1>3 DEF NamesOf
  <2> QED
      BY <1>8, <1>9
<1>11. ByInterval(asked) # <<>>
  <2>1. asked[1] \in NamesOf(asked)
      BY <1>1 DEF NamesOf
  <2> QED
      BY <1>10, <2>1
<1> QED
    BY <1>7, <1>10, <1>11

-----------------------------------------------------------------------------
(***************************************************************************)
(* What the sources give and what a row of features reads of it.           *)
(***************************************************************************)
\* Bars of a source that interval i may use, up to now.
LEMMA BarsAreOwn ==
    ASSUME NEW i, NEW src \in Own(i), NEW n
    PROVE  OwnOnly(Bars(src, n), i)
<1> SUFFICES ASSUME NEW k \in (Now - n + 1)..Now
             PROVE  Seen(src, k, k).src \in Own(i) /\ Seen(src, k, k).known <= Now
    BY DEF OwnOnly, Bars
<1> QED
    BY DEF Seen

\* Every answer of every source is of the interval it was asked for, and of the past.
LEMMA AnswersAreOwn ==
    ASSUME NEW s \in SourceNames, NEW i, NEW kind, NEW files \in SUBSET Filings
    PROVE  Gives(s, Answer(s, i, kind, files), i)
<1> DEFINE n == IF kind = "full" THEN FullHistory ELSE ShortHistory
<1>1. \A m : \A src \in Own(i) : OwnOnly(Bars(src, m), i)
    BY BarsAreOwn
<1>2. \A f \in Filings : f.at \in Int /\ f.at <= Now
    BY ServingAssumption
<1>3. Now <= Now
    BY ServingAssumption
<1>4. CASE s = "prices"
  <2>1. Answer(s, i, kind, files) = FetchPrices(i, n)
      BY <1>4 DEF Answer
  <2> QED
      BY <1>1, <1>4, <2>1 DEF Gives, FetchPrices, Own
<1>5. CASE s = "returns"
  <2>1. Answer(s, i, kind, files) = FetchReturnsMatrix(i, n)
      BY <1>5 DEF Answer
  <2> QED
      BY <1>1, <1>5, <2>1 DEF Gives, FetchReturnsMatrix, Own
<1>6. CASE s = "trends"
  <2>1. Answer(s, i, kind, files) = FetchTrends(n)
      BY <1>6 DEF Answer
  <2> QED
      BY <1>1, <1>6, <2>1 DEF Gives, FetchTrends, Own
<1>7. CASE s = "news"
  <2>1. Answer(s, i, kind, files) = FetchNews(kind)
      BY <1>7 DEF Answer
  <2> QED
      BY <1>3, <1>7, <2>1 DEF Gives, FetchNews, Own, OwnOnly, Seen
<1>8. CASE s = "social"
  <2>1. Answer(s, i, kind, files) = FetchReddit(kind)
      BY <1>8 DEF Answer
  <2> QED
      BY <1>3, <1>8, <2>1 DEF Gives, FetchReddit, Own, OwnOnly, Seen
<1>9. \A form, f : f \in FetchFilings(form, files) => f \in Filings
    BY DEF FetchFilings, Newest
<1>10. CASE s = "filings"
  <2>1. Answer(s, i, kind, files) = OriginHint(files)
      BY <1>10 DEF Answer
  <2>2. OwnOnly(OriginHint(files), i)
      BY <1>2, <1>9 DEF OriginHint, OwnOnly, Own, Seen
  <2> QED
      BY <1>10, <2>1, <2>2 DEF Gives
<1>11. CASE s = "form4"
  <2>1. Answer(s, i, kind, files) = FetchForm4(files)
      BY <1>11 DEF Answer
  <2>2. OwnOnly(FetchForm4(files), i)
      BY <1>2, <1>9 DEF FetchForm4, OwnOnly, Own, Seen
  <2> QED
      BY <1>11, <2>1, <2>2 DEF Gives
<1> QED
    BY <1>4, <1>5, <1>6, <1>7, <1>8, <1>10, <1>11 DEF SourceNames, Sources

\* A statistic that is defined reads only the series it was given.
LEMMA WindowsReadTheirSeries ==
    ASSUME NEW series, NEW t, NEW n
    PROVE  /\ UpTo(series, t) \subseteq series
           /\ Newest(series, n) \subseteq series
           /\ Trailing(series, n) # NaN => Trailing(series, n) \subseteq series
BY DEF UpTo, Newest, Trailing

\* A complete row made of what the sources gave for an interval reads nothing else.
LEMMA RowsAreOwn ==
    ASSUME NEW got, NEW i, \A s \in SourceNames : Gives(s, got[s], i), Complete(Vector(got))
    PROVE  OwnOnly(Reads(Vector(got)), i)
<1> DEFINE v == Vector(got)
           hint == IF got["filings"] = NoSource THEN {} ELSE got["filings"]
           rets == UpTo(got["prices"].ret, Now)
           vols == UpTo(got["prices"].vol, Now)
<1>1. /\ OwnOnly(got["prices"].ret, i) /\ OwnOnly(got["prices"].vol, i)
      /\ OwnOnly(got["returns"], i)
      /\ \A s \in {"news", "social", "filings", "trends", "form4"} :
            got[s] = NoSource \/ OwnOnly(got[s], i)
    BY DEF Gives, SourceNames, Sources
<1>2. /\ v.sentiment_agg = Articles(got)
      /\ v.estimated_lag_hours = OriginFrom(hint, Articles(got))
      /\ v.sector_proximity = SectorProximity(got["returns"], Now)
      /\ v.momentum_5d = Trailing(rets, MomShort)
      /\ v.momentum_20d = Trailing(rets, MomLong)
      /\ v.realized_vol_20d = Trailing(rets, VolWindow)
      /\ v.volume_zscore = Trailing(vols, VolWindow)
      /\ v.search_interest_zscore = SearchInterest(got["trends"], Now)
      /\ v.insider_flow_npr = InsiderFlow(got["form4"], Now)
      /\ v.return_lag_1 = Trailing(rets, 1)
      /\ v.regime_label = RegimeLabel(NoSource, VixAsOf(NoSource, Now))
    BY DEF Vector, FeatureVector, Technical
<1> HIDE DEF v
<1>3. \A f \in FeatureNames : v[f] # NaN
    BY DEF Complete, v
<1>4. OwnOnly(Articles(got), i)
    BY <1>1 DEF Articles, OwnOnly
<1>5. OwnOnly(v.sentiment_agg, i)
    BY <1>2, <1>4
<1>6. OwnOnly(v.estimated_lag_hours, i)
    BY <1>1, <1>2, <1>4 DEF OriginFrom, OwnOnly
<1>7. OwnOnly(v.sector_proximity, i)
    BY <1>1, <1>2, WindowsReadTheirSeries DEF SectorProximity, OwnOnly
<1>8. OwnOnly(rets, i) /\ OwnOnly(vols, i)
    BY <1>1, WindowsReadTheirSeries DEF OwnOnly
<1> HIDE DEF rets, vols
<1>9. OwnOnly(v.momentum_5d, i) /\ OwnOnly(v.momentum_20d, i) /\ OwnOnly(v.realized_vol_20d, i)
    BY <1>2, <1>3, <1>8, WindowsReadTheirSeries DEF OwnOnly, FeatureNames
<1>10. OwnOnly(v.volume_zscore, i) /\ OwnOnly(v.return_lag_1, i)
    BY <1>2, <1>3, <1>8, WindowsReadTheirSeries DEF OwnOnly, FeatureNames
<1>11. OwnOnly(v.search_interest_zscore, i)
  <2>1. CASE got["trends"] = NoSource
      BY <1>2, <2>1 DEF SearchInterest, OwnOnly
  <2>2. CASE got["trends"] # NoSource
    <3>1. OwnOnly(UpTo(got["trends"], Now), i)
        BY <1>1, <2>2, WindowsReadTheirSeries DEF OwnOnly
    <3>2. v.search_interest_zscore = Trailing(UpTo(got["trends"], Now), TrendsWindow)
        BY <1>2, <2>2 DEF SearchInterest
    <3>3. v.search_interest_zscore # NaN
        BY <1>3 DEF FeatureNames
    <3> QED
        BY <3>1, <3>2, <3>3, WindowsReadTheirSeries DEF OwnOnly
  <2> QED
      BY <2>1, <2>2
<1>12. OwnOnly(v.insider_flow_npr, i)
    BY <1>1, <1>2 DEF InsiderFlow, OwnOnly
<1>13. OwnOnly(v.regime_label, i)
    BY <1>2 DEF RegimeLabel, OwnOnly
<1>14. \A f \in FeatureNames : OwnOnly(v[f], i)
    BY <1>5, <1>6, <1>7, <1>9, <1>10, <1>11, <1>12, <1>13 DEF FeatureNames
<1> QED
    BY <1>14 DEF Reads, OwnOnly, v

-----------------------------------------------------------------------------
(***************************************************************************)
(* One step of one request.                                                *)
(***************************************************************************)
\* The seven sources are asked one after the other.
LEMMA SevenSources ==
    /\ DOMAIN Sources = 1..7 /\ Len(Sources) = 7
    /\ \A k \in 1..7 : Sources[k] \in SourceNames
    /\ \A k, l \in 1..7 : Sources[k] = Sources[l] => k = l
    /\ \A s \in SourceNames : \E k \in 1..7 : s = Sources[k]
<1>1. DOMAIN Sources = 1..7 /\ Len(Sources) = 7
    BY DEF Sources
<1>2. \A k, l \in 1..7 : Sources[k] = Sources[l] => k = l
    BY DEF Sources
<1> QED
    BY <1>1, <1>2 DEF SourceNames

\* Each source is tried at least once.
LEMMA AttemptsArePositive == \A s : Attempts(s) \in Nat \ {0}
BY ServingAssumption DEF Attempts

\* A step of a request changes no other request.
LEMMA OthersWait ==
    ASSUME NEW r \in Requests, NEW x, req = [q \in Requests |-> req[q]], Steps(r, x)
    PROVE  /\ req' = [q \in Requests |-> req'[q]]
           /\ req'[r] = x
           /\ \A q \in Requests : q # r => req'[q] = req[q]
BY DEF Steps

\* A request may fail at any point.
LEMMA FailingKeepsInv ==
    ASSUME NEW x, RequestInv(x)
    PROVE  RequestInv([x EXCEPT !.pc = "done", !.status = "failed"])
<1>1. PICK y : y = [x EXCEPT !.pc = "done", !.status = "failed"]
    OBVIOUS
<1>2. /\ IsRequest(y) /\ y.pc = "done" /\ y.status = "failed"
      /\ y.at = x.at /\ y.tries = x.tries /\ y.using = x.using /\ y.preds = x.preds /\ y.got = x.got
    BY <1>1 DEF RequestInv, RequestType, IsRequest
<1>3. RequestType(y)
    BY <1>2 DEF RequestInv, RequestType, Points
<1>4. GatheredOwn(y) /\ Progress(y) /\ Answered(y)
    BY <1>2 DEF GatheredOwn, Progress, Answered, Gathered
<1> QED
    BY <1>1, <1>3, <1>4 DEF RequestInv

\* From one statement of the scoring to the next.
LEMMA GoingOnKeepsInv ==
    ASSUME NEW x, RequestInv(x), x.pc \in Gathered, NEW pc \in Gathered, NEW using \in Requests \cup {None}
    PROVE  RequestInv([x EXCEPT !.pc = pc, !.using = using])
<1>1. PICK y : y = [x EXCEPT !.pc = pc, !.using = using]
    OBVIOUS
<1>2. /\ IsRequest(y) /\ y.pc = pc /\ y.using = using /\ y.status = x.status /\ y.at = x.at
      /\ y.tries = x.tries /\ y.preds = x.preds /\ y.got = x.got /\ y.asked = x.asked
      /\ y.model = x.model /\ y.left = x.left
    BY <1>1 DEF RequestInv, RequestType, IsRequest
<1>3. RequestType(y)
    BY <1>2 DEF RequestInv, RequestType, Points
<1>4. GatheredOwn(y) /\ Progress(y) /\ Answered(y)
    BY <1>2 DEF RequestInv, GatheredOwn, Progress, Answered
<1> QED
    BY <1>1, <1>3, <1>4 DEF RequestInv

\* Another attempt at the same source.
LEMMA RetryKeepsInv ==
    ASSUME NEW x, RequestInv(x), x.pc = "fetch", x.tries + 1 < Attempts(Sources[x.at])
    PROVE  RequestInv([x EXCEPT !.tries = @ + 1])
<1>1. PICK y : y = [x EXCEPT !.tries = @ + 1]
    OBVIOUS
<1>2. /\ IsRequest(y) /\ y.pc = x.pc /\ y.using = x.using /\ y.status = x.status /\ y.at = x.at
      /\ y.tries = x.tries + 1 /\ y.preds = x.preds /\ y.got = x.got /\ y.asked = x.asked
      /\ y.model = x.model /\ y.left = x.left
    BY <1>1 DEF RequestInv, RequestType, IsRequest
<1>3. y.tries \in 0..(Attempts(Sources[y.at]) - 1)
    BY <1>2, AttemptsArePositive DEF RequestInv, RequestType
<1>4. RequestType(y)
    BY <1>2, <1>3 DEF RequestInv, RequestType
<1>5. GatheredOwn(y) /\ Progress(y) /\ Answered(y)
    BY <1>2 DEF RequestInv, GatheredOwn, Progress, Answered
<1> QED
    BY <1>1, <1>4, <1>5 DEF RequestInv

\* The record of a request that is done with a source.
Took(x, value) ==
    LET got  == [x.got EXCEPT ![Sources[x.at]] = value]
        next == [x EXCEPT !.got = got, !.tries = 0, !.at = @ + 1]
    IN  IF x.at < Len(Sources) THEN next
        ELSE [next EXCEPT !.pc = IF Articles(got) = {} THEN "predict" ELSE "check", !.at = 1]

\* What was given is kept with what was gathered before.
LEMMA TakingKeepsInv ==
    ASSUME NEW x, RequestInv(x), x.pc = "fetch", NEW value, Gives(Sources[x.at], value, x.left[1])
    PROVE  RequestInv(Took(x, value))
<1>1. PICK got : got = [x.got EXCEPT ![Sources[x.at]] = value]
    OBVIOUS
<1>2. x.at \in 1..7
    BY SevenSources DEF RequestInv, RequestType
<1>3. \A k \in 1..7 : k <= x.at => Gives(Sources[k], got[Sources[k]], x.left[1])
  <2> SUFFICES ASSUME NEW k \in 1..7, k <= x.at
               PROVE  Gives(Sources[k], got[Sources[k]], x.left[1])
      OBVIOUS
  <2>1. x.got = [s \in SourceNames |-> x.got[s]]
      BY DEF RequestInv, RequestType
  <2>2. CASE k = x.at
    <3>1. got[Sources[k]] = value
        BY <1>1, <1>2, <2>1, <2>2, SevenSources
    <3> QED
        BY <2>2, <3>1
  <2>3. CASE k # x.at
    <3>1. got[Sources[k]] = x.got[Sources[k]]
        BY <1>1, <1>2, <2>1, <2>3, SevenSources
    <3>2. k < x.at
        BY <1>2, <2>3
    <3>3. Gives(Sources[k], x.got[Sources[k]], x.left[1])
        BY <3>2, SevenSources DEF RequestInv, GatheredOwn
    <3> QED
        BY <3>1, <3>3
  <2> QED
      BY <2>2, <2>3
<1>4. got = [s \in SourceNames |-> got[s]]
    BY <1>1, <1>2 DEF RequestInv, RequestType
<1>5. PICK y : y = Took(x, value)
    OBVIOUS
<1>6. \A s : 0 \in 0..(Attempts(s) - 1)
    BY AttemptsArePositive
<1>7. CASE x.at < 7
  <2>1. y = [x EXCEPT !.got = got, !.tries = 0, !.at = @ + 1]
      BY <1>1, <1>5, <1>7, SevenSources DEF Took
  <2>2. /\ IsRequest(y) /\ y.pc = x.pc /\ y.using = x.using /\ y.status = x.status
        /\ y.at = x.at + 1 /\ y.tries = 0 /\ y.got = got
        /\ y.preds = x.preds /\ y.asked = x.asked /\ y.model = x.model /\ y.left = x.left
      BY <2>1 DEF RequestInv, RequestType, IsRequest
  <2>3. y.at \in DOMAIN Sources
      BY <1>2, <1>7, <2>2, SevenSources
  <2>4. RequestType(y)
      BY <1>4, <1>6, <2>2, <2>3 DEF RequestInv, RequestType
  <2>5. GatheredOwn(y)
      BY <1>2, <1>3, <2>2, SevenSources DEF GatheredOwn, Gathered
  <2>6. Progress(y) /\ Answered(y)
    <3>1. x.pc \notin Gathered
        BY DEF Gathered
    <3> QED
        BY <2>2, <3>1 DEF RequestInv, Progress, Answered
  <2> QED
      BY <1>5, <2>4, <2>5, <2>6 DEF RequestInv
<1>8. CASE x.at = 7
  <2>1. PICK pc : pc = IF Articles(got) = {} THEN "predict" ELSE "check"
      OBVIOUS
  <2>2. PICK next : next = [x EXCEPT !.got = got, !.tries = 0, !.at = @ + 1]
      OBVIOUS
  <2>3. y = [next EXCEPT !.pc = pc, !.at = 1]
    <3>1. ~(x.at < Len(Sources))
        BY <1>8, SevenSources
    <3>2. Took(x, value) = [next EXCEPT !.pc = IF Articles(got) = {} THEN "predict" ELSE "check", !.at = 1]
        BY ONLY <1>1, <2>2, <3>1, Zenon DEF Took
    <3> QED
        BY ONLY <1>5, <2>1, <3>2
  <2>4. /\ IsRequest(next) /\ next.using = x.using /\ next.status = x.status
        /\ next.tries = 0 /\ next.got = got
        /\ next.preds = x.preds /\ next.asked = x.asked /\ next.model = x.model /\ next.left = x.left
      BY <2>2 DEF RequestInv, RequestType, IsRequest
  <2>5. /\ IsRequest(y) /\ y.pc = pc /\ y.using = x.using /\ y.status = x.status
        /\ y.at = 1 /\ y.tries = 0 /\ y.got = got
        /\ y.preds = x.preds /\ y.asked = x.asked /\ y.model = x.model /\ y.left = x.left
      BY <2>3, <2>4 DEF IsRequest
  <2>6. pc \in Gathered
      BY <2>1 DEF Gathered
  <2>7. RequestType(y)
      BY <1>4, <1>6, <2>5, <2>6, SevenSources DEF RequestInv, RequestType, Points
  <2>8. GatheredOwn(y)
      BY <1>3, <1>8, <2>5, SevenSources DEF GatheredOwn
  <2>9. Progress(y) /\ Answered(y)
      BY <2>5, <2>6 DEF RequestInv, Progress, Answered
  <2> QED
      BY <1>5, <2>7, <2>8, <2>9 DEF RequestInv
<1> QED
    BY <1>2, <1>7, <1>8

\* The forecasts of a request after the interval it is at.
Forecasts(x) ==
    LET served == {h \in NamesOf(x.asked) : Interval(h) = x.left[1]} \cap x.model
    IN  [h \in DOMAIN x.preds \cup served |-> IF h \in served THEN Vector(x.got) ELSE x.preds[h]]

\* The record of a request that is done with an interval.
Predicted(x) ==
    LET next == [x EXCEPT !.preds = Forecasts(x), !.lag = Vector(x.got).estimated_lag_hours,
                          !.left = Tail(@), !.using = None,
                          !.got = [s \in SourceNames |-> NoSource]]
    IN  IF Len(x.left) > 1 THEN [next EXCEPT !.pc = "fetch"]
        ELSE [next EXCEPT !.pc = "done", !.status = "answered"]

\* An interval that is done with adds the forecasts of its horizons, from its own row.
LEMMA PredictingKeepsInv ==
    ASSUME NEW x, RequestInv(x), x.pc = "predict", x.model = {} \/ Complete(Vector(x.got))
    PROVE  RequestInv(Predicted(x))
<1> DEFINE names == NamesOf(x.asked) \cap x.model
           served == {h \in NamesOf(x.asked) : Interval(h) = x.left[1]} \cap x.model
<1>1. /\ x.at = 1
      /\ NamesOf(x.asked) \subseteq Horizons /\ x.model \subseteq Trainable
      /\ x.left \in Seq(Intervals) /\ x.left # <<>>
      /\ DOMAIN x.preds \subseteq names
      /\ \A h \in names : h \in DOMAIN x.preds \/ \E k \in DOMAIN x.left : x.left[k] = Interval(h)
      /\ \A h \in DOMAIN x.preds : Forecast(x.preds[h], h)
    BY DEF RequestInv, Progress, Gathered
<1>2. \A s \in SourceNames : Gives(s, x.got[s], x.left[1])
    BY SevenSources DEF RequestInv, GatheredOwn, Gathered
<1>3. PICK preds : preds = Forecasts(x)
    OBVIOUS
<1>4. DOMAIN preds = DOMAIN x.preds \cup served /\ DOMAIN preds \subseteq names
    BY <1>1, <1>3 DEF Forecasts
<1>5. \A h \in DOMAIN preds : Forecast(preds[h], h)
  <2> SUFFICES ASSUME NEW h \in DOMAIN preds PROVE Forecast(preds[h], h)
      OBVIOUS
  <2>1. CASE h \in served
    <3>1. preds[h] = Vector(x.got)
        BY <1>3, <1>4, <2>1 DEF Forecasts
    <3>2. Complete(Vector(x.got)) /\ Interval(h) = x.left[1]
        BY <2>1
    <3> QED
        BY <1>2, <3>1, <3>2, RowsAreOwn DEF Forecast
  <2>2. CASE h \notin served
    <3>1. preds[h] = x.preds[h] /\ h \in DOMAIN x.preds
        BY <1>3, <1>4, <2>2 DEF Forecasts
    <3> QED
        BY <1>1, <3>1
  <2> QED
      BY <2>1, <2>2
<1>6. /\ Len(x.left) \in Nat \ {0} /\ DOMAIN x.left = 1..Len(x.left)
      /\ Tail(x.left) \in Seq(Intervals) /\ Len(Tail(x.left)) = Len(x.left) - 1
      /\ DOMAIN Tail(x.left) = 1..(Len(x.left) - 1)
      /\ \A k \in 1..(Len(x.left) - 1) : Tail(x.left)[k] = x.left[k + 1]
    BY <1>1, HeadTailProperties, LenProperties, EmptySeq
<1>7. \A h \in names : h \in DOMAIN preds \/ \E k \in DOMAIN Tail(x.left) : Tail(x.left)[k] = Interval(h)
  <2> SUFFICES ASSUME NEW h \in names, h \notin DOMAIN preds
               PROVE  \E k \in DOMAIN Tail(x.left) : Tail(x.left)[k] = Interval(h)
      OBVIOUS
  <2>1. PICK k \in DOMAIN x.left : x.left[k] = Interval(h)
      BY <1>1, <1>4
  <2>2. k # 1
      BY <1>4, <2>1
  <2>3. k - 1 \in 1..(Len(x.left) - 1) /\ (k - 1) + 1 = k
      BY <1>6, <2>1, <2>2
  <2>4. Tail(x.left)[k - 1] = x.left[k]
      BY <1>6, <2>3
  <2> QED
      BY <1>6, <2>1, <2>3, <2>4
<1> HIDE DEF names, served
<1>8. PICK next : next = [x EXCEPT !.preds = preds, !.lag = Vector(x.got).estimated_lag_hours,
                                   !.left = Tail(@), !.using = None,
                                   !.got = [s \in SourceNames |-> NoSource]]
    OBVIOUS
<1>9. /\ IsRequest(next) /\ next.status = x.status /\ next.at = x.at /\ next.tries = x.tries
      /\ next.preds = preds /\ next.left = Tail(x.left) /\ next.using = None
      /\ next.asked = x.asked /\ next.model = x.model
      /\ next.got = [s \in SourceNames |-> next.got[s]]
  <2>1. next.got = [s \in SourceNames |-> NoSource]
      BY <1>8 DEF RequestInv, RequestType, IsRequest
  <2> QED
      BY <1>8, <2>1 DEF RequestInv, RequestType, IsRequest
<1>10. PICK y : y = Predicted(x)
    OBVIOUS
<1>11. names \subseteq Trainable
    BY <1>1 DEF names
<1>12. CASE Len(x.left) > 1
  <2>1. y = [next EXCEPT !.pc = "fetch"]
      BY ONLY <1>3, <1>8, <1>10, <1>12 DEF Predicted
  <2>2. /\ IsRequest(y) /\ y.pc = "fetch" /\ y.status = x.status /\ y.at = x.at /\ y.tries = x.tries
        /\ y.preds = preds /\ y.left = Tail(x.left) /\ y.using = None /\ y.asked = x.asked
        /\ y.model = x.model /\ y.got = [s \in SourceNames |-> y.got[s]]
      BY <1>9, <2>1 DEF IsRequest
  <2>3. RequestType(y)
      BY <1>4, <1>11, <2>2 DEF RequestInv, RequestType, Points
  <2>4. GatheredOwn(y)
      BY <1>1, <2>2, SevenSources DEF GatheredOwn, Gathered
  <2>5. Tail(x.left) # <<>>
    <3>1. 1 \in DOMAIN Tail(x.left)
        BY <1>6, <1>12
    <3> QED
        BY <3>1
  <2>6. Progress(y)
    <3>1. y.pc \notin Gathered
        BY <2>2 DEF Gathered
    <3> QED
        BY <1>1, <1>4, <1>5, <1>6, <1>7, <2>2, <2>5, <3>1 DEF Progress, names
  <2>7. Answered(y)
    <3>1. CASE x.status = "answered"
      <4>1. DOMAIN x.preds = names
          BY <3>1 DEF RequestInv, Answered, names
      <4>2. DOMAIN preds = names
          BY <1>4, <4>1
      <4> QED
          BY <1>5, <2>2, <4>2 DEF Answered, names
    <3>2. CASE x.status # "answered"
        BY <2>2, <3>2 DEF Answered
    <3> QED
        BY <3>1, <3>2
  <2> QED
      BY <1>10, <2>3, <2>4, <2>6, <2>7 DEF RequestInv
<1>13. CASE ~(Len(x.left) > 1)
  <2>1. y = [next EXCEPT !.pc = "done", !.status = "answered"]
      BY ONLY <1>3, <1>8, <1>10, <1>13 DEF Predicted
  <2>2. /\ IsRequest(y) /\ y.pc = "done" /\ y.status = "answered" /\ y.at = x.at /\ y.tries = x.tries
        /\ y.preds = preds /\ y.using = None /\ y.asked = x.asked
        /\ y.model = x.model /\ y.got = [s \in SourceNames |-> y.got[s]]
      BY <1>9, <2>1 DEF IsRequest
  <2>3. RequestType(y)
      BY <1>4, <1>11, <2>2 DEF RequestInv, RequestType, Points
  <2>4. GatheredOwn(y) /\ Progress(y)
      BY <2>2 DEF GatheredOwn, Progress, Gathered
  <2>5. DOMAIN preds = names
      BY <1>4, <1>6, <1>7, <1>13
  <2>6. Answered(y)
      BY <1>5, <2>2, <2>5 DEF Answered, names
  <2> QED
      BY <1>10, <2>3, <2>4, <2>6 DEF RequestInv
<1> QED
    BY <1>12, <1>13

\* A request that was not asked yet, and one that was lost with the process.
LEMMA FreshKeepsInv ==
    /\ RequestInv(Fresh)
    /\ RequestInv([Fresh EXCEPT !.pc = "done", !.status = "lost"])
    /\ \A asked : RequestInv([Fresh EXCEPT !.pc = "done", !.asked = asked, !.status = "invalid"])
<1>1. ASSUME NEW x,
             IsRequest(x), x.pc \in {"idle", "done"}, x.at = 1, x.tries = 0, x.using = None,
             x.status \in {"none", "lost", "invalid"},
             x.preds = [h \in {} |-> {}], x.got = [s \in SourceNames |-> NoSource]
      PROVE  RequestInv(x)
  <2>1. 0 \in 0..(Attempts(Sources[1]) - 1)
      BY AttemptsArePositive
  <2>2. RequestType(x)
      BY <1>1, <2>1, SevenSources DEF RequestType, Points
  <2> QED
      BY <1>1, <2>2 DEF RequestInv, GatheredOwn, Progress, Answered, Gathered
<1>2. RequestInv(Fresh)
  <2>1. PICK x : x = Fresh
      OBVIOUS
  <2>2. /\ IsRequest(x) /\ x.pc \in {"idle", "done"} /\ x.at = 1 /\ x.tries = 0 /\ x.using = None
        /\ x.status \in {"none", "lost", "invalid"}
        /\ x.preds = [h \in {} |-> {}] /\ x.got = [s \in SourceNames |-> NoSource]
      BY <2>1 DEF IsRequest, Fresh
  <2> QED
      BY <1>1, <2>1, <2>2
<1>3. RequestInv([Fresh EXCEPT !.pc = "done", !.status = "lost"])
  <2>1. PICK x : x = [Fresh EXCEPT !.pc = "done", !.status = "lost"]
      OBVIOUS
  <2>2. /\ IsRequest(x) /\ x.pc \in {"idle", "done"} /\ x.at = 1 /\ x.tries = 0 /\ x.using = None
        /\ x.status \in {"none", "lost", "invalid"}
        /\ x.preds = [h \in {} |-> {}] /\ x.got = [s \in SourceNames |-> NoSource]
      BY <2>1 DEF IsRequest, Fresh
  <2> QED
      BY <1>1, <2>1, <2>2
<1>4. ASSUME NEW asked
      PROVE  RequestInv([Fresh EXCEPT !.pc = "done", !.asked = asked, !.status = "invalid"])
  <2>1. PICK x : x = [Fresh EXCEPT !.pc = "done", !.asked = asked, !.status = "invalid"]
      OBVIOUS
  <2>2. /\ IsRequest(x) /\ x.pc \in {"idle", "done"} /\ x.at = 1 /\ x.tries = 0 /\ x.using = None
        /\ x.status \in {"none", "lost", "invalid"}
        /\ x.preds = [h \in {} |-> {}] /\ x.got = [s \in SourceNames |-> NoSource]
      BY <2>1 DEF IsRequest, Fresh
  <2> QED
      BY <1>1, <2>1, <2>2
<1> QED
    BY <1>2, <1>3, <1>4

\* A request that is let in has all its intervals before it.
LEMMA AskingKeepsInv ==
    ASSUME NEW asked \in Asked, asked # <<>>, NamesOf(asked) \subseteq Horizons,
           NEW model \in SUBSET Trainable
    PROVE  RequestInv([Fresh EXCEPT !.pc = "fetch", !.asked = asked, !.model = model,
                                    !.left = ByInterval(asked)])
<1>1. PICK x : x = [Fresh EXCEPT !.pc = "fetch", !.asked = asked, !.model = model,
                                 !.left = ByInterval(asked)]
    OBVIOUS
<1>2. /\ IsRequest(x) /\ x.pc = "fetch" /\ x.at = 1 /\ x.tries = 0 /\ x.using = None /\ x.status = "none"
      /\ x.preds = [h \in {} |-> {}] /\ x.got = [s \in SourceNames |-> NoSource]
      /\ x.asked = asked /\ x.model = model /\ x.left = ByInterval(asked)
    BY <1>1 DEF IsRequest, Fresh
<1>3. 0 \in 0..(Attempts(Sources[1]) - 1)
    BY AttemptsArePositive
<1>4. RequestType(x)
    BY <1>2, <1>3, SevenSources DEF RequestType, Points
<1>5. /\ ByInterval(asked) \in Seq(Intervals) /\ ByInterval(asked) # <<>>
      /\ \A h \in NamesOf(asked) : \E n \in DOMAIN ByInterval(asked) : ByInterval(asked)[n] = Interval(h)
    BY ServingAssumption, ByIntervalCovers
<1>6. GatheredOwn(x) /\ Answered(x)
    BY <1>2, SevenSources DEF GatheredOwn, Answered, Gathered
<1>7. Progress(x)
    BY <1>2, <1>5 DEF Progress, Gathered
<1> QED
    BY <1>1, <1>4, <1>6, <1>7 DEF RequestInv

-----------------------------------------------------------------------------
(***************************************************************************)
(* The actions.                                                            *)
(***************************************************************************)
\* A request moves on its own, and where it goes it does not need FinBERT.
Moves(r) ==
    /\ req' = [q \in Requests |-> req'[q]]
    /\ \A q \in Requests : q # r => req'[q] = req[q]
    /\ RequestInv(req'[r])

Outside(x) == x.pc \notin {"move", "loaded", "forward"}

\* A request that fails moves on its own.
LEMMA FailingMoves ==
    ASSUME ServingInv, NEW r \in Requests, Fails(r)
    PROVE  Moves(r) /\ Outside(req'[r])
<1>1. RequestInv(req[r]) /\ req = [q \in Requests |-> req[q]]
    BY DEF ServingInv, ProcessType
<1>2. PICK y : y = [req[r] EXCEPT !.pc = "done", !.status = "failed"]
    OBVIOUS
<1>3. y.pc = "done"
    BY <1>1, <1>2 DEF RequestInv, RequestType, IsRequest
<1>4. Steps(r, y)
    BY <1>2 DEF Fails
<1>5. RequestInv(y)
    BY <1>1, <1>2, FailingKeepsInv
<1> QED
    BY <1>1, <1>3, <1>4, <1>5, OthersWait DEF Moves, Outside

\* A request that takes an answer moves on its own.
LEMMA TakingMoves ==
    ASSUME ServingInv, NEW r \in Requests, req[r].pc = "fetch", NEW value,
           Gives(SourceOf(r), value, req[r].left[1]), Takes(r, value)
    PROVE  Moves(r) /\ Outside(req'[r])
<1>1. RequestInv(req[r]) /\ req = [q \in Requests |-> req[q]]
    BY DEF ServingInv, ProcessType
<1>2. PICK y : y = Took(req[r], value)
    OBVIOUS
<1>3. RequestInv(y)
    BY <1>1, <1>2, TakingKeepsInv DEF SourceOf
<1>4. Steps(r, y)
    BY <1>2 DEF Takes, Took, SourceOf
<1>5. Outside(y)
  <2>1. PICK got : got = [req[r].got EXCEPT ![Sources[req[r].at]] = value]
      OBVIOUS
  <2>2. PICK next : next = [req[r] EXCEPT !.got = got, !.tries = 0, !.at = @ + 1]
      OBVIOUS
  <2>3. IsRequest(next) /\ next.pc = "fetch"
      BY <1>1, <2>2 DEF RequestInv, RequestType, IsRequest
  <2>4. y = IF req[r].at < Len(Sources) THEN next
            ELSE [next EXCEPT !.pc = IF Articles(got) = {} THEN "predict" ELSE "check", !.at = 1]
      BY ONLY <1>2, <2>1, <2>2, Zenon DEF Took
  <2> QED
      BY <2>3, <2>4 DEF Outside, IsRequest
<1> QED
    BY <1>1, <1>3, <1>4, <1>5, OthersWait DEF Moves

\* A failed attempt is repeated, or the source is left out, or the request fails.
LEMMA AttemptMoves ==
    ASSUME ServingInv, NEW r \in Requests, req[r].pc = "fetch", Attempted(r)
    PROVE  Moves(r) /\ Outside(req'[r])
<1>1. RequestInv(req[r]) /\ req = [q \in Requests |-> req[q]]
    BY DEF ServingInv, ProcessType
<1>2. CASE req[r].tries + 1 < Attempts(SourceOf(r))
  <2>1. PICK y : y = [req[r] EXCEPT !.tries = @ + 1]
      OBVIOUS
  <2>2. Steps(r, y)
      BY <1>2, <2>1 DEF Attempted
  <2>3. RequestInv(y) /\ y.pc = "fetch"
      BY <1>1, <1>2, <2>1, RetryKeepsInv DEF SourceOf, RequestInv, RequestType, IsRequest
  <2> QED
      BY <1>1, <2>2, <2>3, OthersWait DEF Moves, Outside
<1>3. CASE ~(req[r].tries + 1 < Attempts(SourceOf(r)))
  <2>1. GivesUp(r)
      BY <1>3 DEF Attempted
  <2>2. CASE SourceOf(r) \in Essential
      BY <2>1, <2>2, FailingMoves DEF GivesUp
  <2>3. CASE SourceOf(r) \notin Essential
    <3>1. Takes(r, NoSource)
        BY <2>1, <2>3 DEF GivesUp
    <3>2. Gives(SourceOf(r), NoSource, req[r].left[1])
        BY <2>3 DEF Gives, Essential
    <3> QED
        BY <3>1, <3>2, TakingMoves
  <2> QED
      BY <2>2, <2>3
<1> QED
    BY <1>2, <1>3

\* One attempt at one source.
LEMMA FetchMoves ==
    ASSUME ServingInv, NEW r \in Requests, Fetch(r)
    PROVE  Moves(r) /\ Outside(req'[r]) /\ folder' \subseteq Filings
<1>1. RequestInv(req[r]) /\ folder \subseteq Filings /\ req[r].pc = "fetch"
    BY DEF ServingInv, ProcessType, Fetch
<1>2. SourceOf(r) \in SourceNames
    BY <1>1, SevenSources DEF SourceOf, RequestInv, RequestType
<1> DEFINE new == IF SourceOf(r) \in {"filings", "form4"} THEN Offered(Form(SourceOf(r))) ELSE {}
<1>3. new \subseteq Filings
    BY DEF Offered, Newest
<1>4. PICK kind \in Answers[r][SourceOf(r)] :
         IF kind = "fails"
         THEN /\ \E part \in SUBSET new : folder' = folder \cup part
              /\ Attempted(r)
         ELSE /\ folder' = folder \cup new
              /\ LET value == Answer(SourceOf(r), req[r].left[1], kind, folder')
                 IN  IF SourceOf(r) = "form4" /\ value = {} THEN Attempted(r) ELSE Takes(r, value)
    BY DEF Fetch
<1> HIDE DEF new
<1>5. folder' \subseteq Filings
    BY <1>1, <1>3, <1>4
<1>6. CASE Attempted(r)
    BY <1>1, <1>5, <1>6, AttemptMoves
<1>7. ASSUME NEW value, value = Answer(SourceOf(r), req[r].left[1], kind, folder'), Takes(r, value)
      PROVE  Moves(r) /\ Outside(req'[r])
  <2>1. Gives(SourceOf(r), value, req[r].left[1])
      BY <1>2, <1>5, <1>7, AnswersAreOwn
  <2> QED
      BY <1>1, <1>7, <2>1, TakingMoves
<1> QED
    BY <1>4, <1>5, <1>6, <1>7

\* A thread at the next statement of the scoring moves on its own.
LEMMA GoingMoves ==
    ASSUME ServingInv, NEW r \in Requests, req[r].pc \in Gathered, NEW pc \in Gathered, Goes(r, pc)
    PROVE  Moves(r) /\ req'[r].pc = pc
<1>1. RequestInv(req[r]) /\ req = [q \in Requests |-> req[q]]
    BY DEF ServingInv, ProcessType
<1>2. PICK y : y = [req[r] EXCEPT !.pc = pc]
    OBVIOUS
<1>3. y = [req[r] EXCEPT !.pc = pc, !.using = req[r].using] /\ y.pc = pc
    BY <1>1, <1>2 DEF RequestInv, RequestType, IsRequest
<1>4. RequestInv(y)
  <2>1. req[r].using \in Requests \cup {None}
      BY <1>1 DEF RequestInv, RequestType
  <2> QED
      BY <1>1, <1>3, <2>1, GoingOnKeepsInv
<1>5. Steps(r, y)
    BY <1>2 DEF Goes
<1> QED
    BY <1>1, <1>3, <1>4, <1>5, OthersWait DEF Moves

\* The forecasts of one interval.
LEMMA PredictMoves ==
    ASSUME ServingInv, NEW r \in Requests, Predict(r)
    PROVE  Moves(r) /\ Outside(req'[r])
<1>1. RequestInv(req[r]) /\ req = [q \in Requests |-> req[q]] /\ req[r].pc = "predict"
    BY DEF ServingInv, ProcessType, Predict
<1>2. CASE req[r].model # {} /\ ~Complete(Vector(req[r].got))
  <2>1. Fails(r)
      BY <1>2 DEF Predict
  <2> QED
      BY <2>1, FailingMoves
<1>3. CASE ~(req[r].model # {} /\ ~Complete(Vector(req[r].got)))
  <2>1. PICK x : x = req[r]
      OBVIOUS
  <2>2. PICK preds : preds = Forecasts(x)
      OBVIOUS
  <2>3. PICK next : next = [x EXCEPT !.preds = preds, !.lag = Vector(x.got).estimated_lag_hours,
                                     !.left = Tail(@), !.using = None,
                                     !.got = [s \in SourceNames |-> NoSource]]
      OBVIOUS
  <2>4. Predicted(x) = IF Len(x.left) > 1 THEN [next EXCEPT !.pc = "fetch"]
                       ELSE [next EXCEPT !.pc = "done", !.status = "answered"]
      BY ONLY <2>2, <2>3, Zenon DEF Predicted
  <2>5. preds = [h \in DOMAIN x.preds \cup Served(r, x.left[1]) |->
                   IF h \in Served(r, x.left[1]) THEN Vector(x.got) ELSE x.preds[h]]
      BY ONLY <2>1, <2>2, Zenon DEF Forecasts, Served
  <2>6. Steps(r, Predicted(x))
    <3> DEFINE new == [h \in Served(r, x.left[1]) |-> Vector(x.got)]
    <3>1. DOMAIN new = Served(r, x.left[1])
        OBVIOUS
    <3>2. [h \in DOMAIN x.preds \cup DOMAIN new |-> IF h \in DOMAIN new THEN new[h] ELSE x.preds[h]] = preds
        BY <2>5, <3>1
    <3>3. LET nxt == [x EXCEPT !.preds = [h \in DOMAIN x.preds \cup DOMAIN new |->
                                             IF h \in DOMAIN new THEN new[h] ELSE x.preds[h]],
                               !.lag = Vector(x.got).estimated_lag_hours,
                               !.left = Tail(@), !.using = None,
                               !.got = [s \in SourceNames |-> NoSource]]
          IN  IF Len(x.left) > 1 THEN Steps(r, [nxt EXCEPT !.pc = "fetch"])
              ELSE Steps(r, [nxt EXCEPT !.pc = "done", !.status = "answered"])
        BY <1>3, <2>1 DEF Predict
    <3> HIDE DEF new
    <3>4. IF Len(x.left) > 1 THEN Steps(r, [next EXCEPT !.pc = "fetch"])
          ELSE Steps(r, [next EXCEPT !.pc = "done", !.status = "answered"])
        BY ONLY <2>3, <3>2, <3>3, Zenon
    <3> QED
        BY ONLY <2>4, <3>4, Zenon
  <2>7. RequestInv(Predicted(x))
      BY <1>1, <1>3, <2>1, PredictingKeepsInv
  <2>8. IsRequest(next)
      BY <1>1, <2>1, <2>3 DEF RequestInv, RequestType, IsRequest
  <2>9. Outside(Predicted(x))
      BY <2>4, <2>8 DEF Outside, IsRequest
  <2> QED
      BY <1>1, <2>6, <2>7, <2>9, OthersWait DEF Moves
<1> QED
    BY <1>2, <1>3

\* Whatever moves on its own keeps the requests as they should be.
LEMMA MovingKeepsRequests ==
    ASSUME ServingInv, NEW r \in Requests, Moves(r)
    PROVE  req' = [q \in Requests |-> req'[q]] /\ \A q \in Requests : RequestInv(req'[q])
BY DEF ServingInv, Moves

\* Where FinBERT stays as it is, it stays known, unless the request was moving it.
LEMMA BertStaysKnown ==
    ASSUME ServingInv, NEW r \in Requests, Moves(r), UNCHANGED <<bert, moved>>,
           stuck => stuck', req[r].pc = "move" => stuck',
           req'[r].pc \in {"move", "loaded", "forward"} => bert # None
    PROVE  BertKnown'
<1>1. BertKnown
    BY DEF ServingInv
<1>2. bert' = None \/ bert' \in moved' \/ stuck' \/ \E q \in Requests : req'[q].pc = "move"
    BY <1>1 DEF BertKnown, Moves
<1>3. \A q \in Requests : req'[q].pc \in {"move", "loaded", "forward"} => bert' # None
    BY <1>1 DEF BertKnown, Moves
<1> QED
    BY <1>2, <1>3 DEF BertKnown

\* The scoring of the texts keeps FinBERT known, however its statements interleave.
LEMMA ScoreKeepsInv ==
    ASSUME ServingInv, NEW r \in Requests, Score(r)
    PROVE  ServingInv'
<1>1. /\ ProcessType /\ BertKnown /\ RequestInv(req[r])
      /\ UNCHANGED <<artifact, trainer, trains, server, starts, folder>>
    BY DEF ServingInv, Score, training
<1>2. ASSUME Moves(r), BertKnown', tok' \in BOOLEAN, stuck' \in BOOLEAN,
             bert' \in Requests \cup {None}, moved' \subseteq Requests
      PROVE  ServingInv'
  <2>1. ProcessType'
      BY <1>1, <1>2, MovingKeepsRequests DEF ProcessType
  <2> QED
      BY <1>2, <2>1, MovingKeepsRequests DEF ServingInv
<1>3. /\ tok \in BOOLEAN /\ stuck \in BOOLEAN /\ bert \in Requests \cup {None} /\ moved \subseteq Requests
      /\ req[r].pc \in {"move", "loaded", "forward"} => bert # None
    BY <1>1 DEF ProcessType, BertKnown
<1>4. CASE Check(r)
  <2>1. PICK pc : pc = (IF tok /\ bert # None THEN "loaded" ELSE "tokenizer")
      OBVIOUS
  <2>2. Goes(r, pc) /\ UNCHANGED <<tok, bert, moved, stuck>> /\ req[r].pc = "check"
      BY <1>4, <2>1 DEF Check, globals
  <2>3. pc \in Gathered
      BY <2>1 DEF Gathered
  <2>4. Moves(r) /\ req'[r].pc = pc
      BY <2>2, <2>3, GoingMoves DEF Gathered
  <2>5. pc = "loaded" => bert # None
      BY <2>1
  <2>6. BertKnown'
      BY <2>1, <2>2, <2>4, <2>5, BertStaysKnown
  <2> QED
      BY <1>2, <1>3, <2>2, <2>4, <2>6
<1>5. CASE LoadTokenizer(r)
  <2>1. req[r].pc = "tokenizer" /\ UNCHANGED <<bert, moved, stuck>> /\ tok' \in BOOLEAN
      BY <1>3, <1>5 DEF LoadTokenizer
  <2>2. Moves(r) /\ Outside(req'[r])
    <3>1. CASE Goes(r, "model")
        BY <2>1, <3>1, GoingMoves DEF Gathered, Outside
    <3>2. CASE Fails(r)
        BY <3>2, FailingMoves
    <3> QED
        BY <1>5, <3>1, <3>2 DEF LoadTokenizer
  <2>3. BertKnown'
      BY <2>1, <2>2, BertStaysKnown DEF Outside
  <2> QED
      BY <1>2, <1>3, <2>1, <2>2, <2>3
<1>6. CASE LoadModel(r)
  <2>1. req[r].pc = "model" /\ UNCHANGED <<tok, moved, stuck>>
      BY <1>6 DEF LoadModel
  <2>2. CASE bert' = r /\ Goes(r, "move")
    <3>1. Moves(r) /\ req'[r].pc = "move"
        BY <2>1, <2>2, GoingMoves DEF Gathered
    <3>2. r # None
        BY ServingAssumption
    <3>3. BertKnown'
        BY <2>2, <3>1, <3>2 DEF BertKnown
    <3> QED
        BY <1>2, <1>3, <2>1, <2>2, <3>1, <3>3
  <2>3. CASE Fails(r) /\ UNCHANGED bert
    <3>1. Moves(r) /\ Outside(req'[r])
        BY <2>3, FailingMoves
    <3>2. BertKnown'
        BY <2>1, <2>3, <3>1, BertStaysKnown DEF Outside
    <3> QED
        BY <1>2, <1>3, <2>1, <2>3, <3>1, <3>2
  <2> QED
      BY <1>6, <2>2, <2>3 DEF LoadModel
<1>7. CASE MoveModel(r)
  <2>1. req[r].pc = "move" /\ UNCHANGED <<tok, bert>> /\ bert # None
      BY <1>3, <1>7 DEF MoveModel
  <2>2. CASE moved' = moved \cup {bert} /\ Goes(r, "loaded") /\ UNCHANGED stuck
    <3>1. Moves(r) /\ req'[r].pc = "loaded"
        BY <2>1, <2>2, GoingMoves DEF Gathered
    <3>2. BertKnown'
        BY <1>1, <2>1, <2>2, <3>1 DEF BertKnown, Moves
    <3>3. moved' \subseteq Requests
        BY <1>3, <2>1, <2>2
    <3> QED
        BY <1>2, <1>3, <2>1, <2>2, <3>1, <3>2, <3>3
  <2>3. CASE Gpu /\ stuck' = TRUE /\ Fails(r) /\ UNCHANGED moved
    <3>1. Moves(r) /\ Outside(req'[r])
        BY <2>3, FailingMoves
    <3>2. BertKnown'
        BY <2>1, <2>3, <3>1, BertStaysKnown DEF Outside
    <3> QED
        BY <1>2, <1>3, <2>1, <2>3, <3>1, <3>2
  <2> QED
      BY <1>7, <2>2, <2>3 DEF MoveModel
<1>8. CASE ReturnModel(r)
  <2>1. req[r].pc = "loaded" /\ UNCHANGED <<tok, bert, moved, stuck>>
      BY <1>8 DEF ReturnModel, globals
  <2>2. PICK y : y = [req[r] EXCEPT !.pc = "forward", !.using = bert]
      OBVIOUS
  <2>3. RequestInv(y)
      BY <1>1, <1>3, <2>1, <2>2, GoingOnKeepsInv DEF Gathered
  <2>4. Steps(r, y)
      BY <1>8, <2>2 DEF ReturnModel
  <2>5. Moves(r)
      BY <1>1, <2>3, <2>4, OthersWait DEF Moves, ProcessType
  <2>6. BertKnown'
      BY <1>3, <2>1, <2>5, BertStaysKnown
  <2> QED
      BY <1>2, <1>3, <2>1, <2>5, <2>6
<1>9. CASE Forward(r)
  <2>1. req[r].pc = "forward" /\ UNCHANGED <<tok, bert, moved, stuck>>
      BY <1>9 DEF Forward, globals
  <2>2. Moves(r) /\ Outside(req'[r])
    <3>1. CASE Goes(r, "predict")
        BY <2>1, <3>1, GoingMoves DEF Gathered, Outside
    <3>2. CASE Fails(r)
        BY <3>2, FailingMoves
    <3> QED
        BY <1>9, <3>1, <3>2 DEF Forward
  <2>3. BertKnown'
      BY <2>1, <2>2, BertStaysKnown DEF Outside
  <2> QED
      BY <1>2, <1>3, <2>1, <2>2, <2>3
<1> QED
    BY <1>4, <1>5, <1>6, <1>7, <1>8, <1>9 DEF Score

\* The server lets a request in, or turns it away.
LEMMA AskMoves ==
    ASSUME ServingInv, NEW r \in Requests, Ask(r)
    PROVE  Moves(r) /\ Outside(req'[r])
<1>1. /\ req = [q \in Requests |-> req[q]] /\ server \in SUBSET Trainable
    BY DEF ServingInv, ProcessType, Ask
<1>2. PICK asked \in Asked :
          IF asked = <<>> \/ ~(NamesOf(asked) \subseteq Horizons)
          THEN Steps(r, [Fresh EXCEPT !.pc = "done", !.asked = asked, !.status = "invalid"])
          ELSE Steps(r, [Fresh EXCEPT !.pc = "fetch", !.asked = asked, !.model = server,
                                      !.left = ByInterval(asked)])
    BY DEF Ask
<1>3. CASE asked = <<>> \/ ~(NamesOf(asked) \subseteq Horizons)
  <2>1. PICK y : y = [Fresh EXCEPT !.pc = "done", !.asked = asked, !.status = "invalid"]
      OBVIOUS
  <2>2. RequestInv(y) /\ Steps(r, y)
      BY <1>2, <1>3, <2>1, FreshKeepsInv
  <2>3. y.pc = "done"
      BY <2>1 DEF Fresh
  <2> QED
      BY <1>1, <2>2, <2>3, OthersWait DEF Moves, Outside
<1>4. CASE ~(asked = <<>> \/ ~(NamesOf(asked) \subseteq Horizons))
  <2>1. PICK y : y = [Fresh EXCEPT !.pc = "fetch", !.asked = asked, !.model = server,
                                   !.left = ByInterval(asked)]
      OBVIOUS
  <2>2. RequestInv(y)
      BY <1>1, <1>4, <2>1, AskingKeepsInv
  <2>3. Steps(r, y)
      BY <1>2, <1>4, <2>1
  <2>4. y.pc = "fetch"
      BY <2>1 DEF Fresh
  <2> QED
      BY <1>1, <2>2, <2>3, <2>4, OthersWait DEF Moves, Outside
<1> QED
    BY <1>3, <1>4

\* Training, starting and being killed, and the steps of every request.
LEMMA ServingStep == ServingInv /\ [Next]_vars => ServingInv'
<1> SUFFICES ASSUME ServingInv, [Next]_vars PROVE ServingInv'
    OBVIOUS
<1>1. ProcessType /\ BertKnown /\ \A r \in Requests : RequestInv(req[r])
    BY DEF ServingInv
<1>2. ASSUME UNCHANGED <<globals, folder, req>>,
             artifact' \in {NoFile, Torn} \cup SUBSET Trainable,
             trainer' \in {None} \cup SUBSET Trainable,
             server' \in {None} \cup SUBSET Trainable,
             trains' \in 0..MaxTrains, starts' \in 0..MaxStarts
      PROVE  ServingInv'
  <2>1. UNCHANGED <<tok, bert, moved, stuck, folder, req>>
      BY <1>2 DEF globals
  <2>2. ProcessType'
      BY <1>1, <1>2, <2>1 DEF ProcessType
  <2>3. BertKnown'
      BY <1>1, <2>1 DEF BertKnown
  <2> QED
      BY <1>1, <2>1, <2>2, <2>3 DEF ServingInv
<1>3. /\ artifact \in {NoFile, Torn} \cup SUBSET Trainable
      /\ trainer \in {None} \cup SUBSET Trainable
      /\ server \in {None} \cup SUBSET Trainable
      /\ trains \in 0..MaxTrains /\ starts \in 0..MaxStarts
      /\ MaxTrains \in Nat /\ MaxStarts \in Nat
    BY <1>1, ServingAssumption DEF ProcessType
<1>4. CASE Train
  <2>1. \A rows : Fitted(rows) \subseteq Trainable
      BY DEF Fitted
  <2> QED
      BY <1>2, <1>3, <1>4, <2>1 DEF Train
<1>5. CASE SaveModel
    BY <1>2, <1>3, <1>5 DEF SaveModel
<1>6. CASE TrainerDies
    BY <1>2, <1>3, <1>6 DEF TrainerDies
<1>7. CASE Start
    BY <1>2, <1>3, <1>7 DEF Start, training
<1>8. CASE Killed
  <2>1. /\ UNCHANGED <<artifact, trainer, trains, starts, folder>>
        /\ server' = None /\ tok' = FALSE /\ bert' = None /\ moved' = {} /\ stuck' = FALSE
        /\ req' = [r \in Requests |->
                     IF Running(r) THEN [Fresh EXCEPT !.pc = "done", !.status = "lost"] ELSE req[r]]
      BY <1>8 DEF Killed, training
  <2>2. req' = [r \in Requests |-> req'[r]]
      BY <2>1
  <2>3. \A r \in Requests : RequestInv(req'[r])
      BY <1>1, <2>1, FreshKeepsInv
  <2>4. \A r \in Requests : req'[r].pc \in {"idle", "done"}
    <3>1. PICK lost : lost = [Fresh EXCEPT !.pc = "done", !.status = "lost"]
        OBVIOUS
    <3>2. lost.pc = "done"
        BY <3>1 DEF Fresh
    <3> QED
        BY <2>1, <3>1, <3>2 DEF Running
  <2>5. ProcessType'
      BY <1>1, <2>1, <2>2 DEF ProcessType
  <2>6. BertKnown'
      BY <2>1, <2>4 DEF BertKnown
  <2> QED
      BY <2>3, <2>5, <2>6 DEF ServingInv
<1>9. ASSUME NEW r \in Requests, Moves(r), Outside(req'[r]), folder' \subseteq Filings,
             UNCHANGED <<training, server, starts, globals>>, req[r].pc # "move"
      PROVE  ServingInv'
  <2>1. UNCHANGED <<artifact, trainer, trains, server, starts, tok, bert, moved, stuck>>
      BY <1>9 DEF training, globals
  <2>2. BertKnown'
      BY <1>9, <2>1, BertStaysKnown DEF Outside
  <2>3. req' = [q \in Requests |-> req'[q]] /\ \A q \in Requests : RequestInv(req'[q])
      BY <1>9, MovingKeepsRequests
  <2>4. ProcessType'
      BY <1>1, <1>9, <2>1, <2>3 DEF ProcessType
  <2> QED
      BY <2>2, <2>3, <2>4 DEF ServingInv
<1>10. folder \subseteq Filings
    BY <1>1 DEF ProcessType
<1>11. ASSUME NEW r \in Requests, Ask(r) PROVE ServingInv'
  <2>1. /\ UNCHANGED <<training, server, starts, globals>> /\ folder' \subseteq Filings
        /\ req[r].pc # "move"
      BY <1>10, <1>11 DEF Ask
  <2> QED
      BY <1>9, <1>11, <2>1, AskMoves
<1>12. ASSUME NEW r \in Requests, Fetch(r) PROVE ServingInv'
  <2>1. UNCHANGED <<training, server, starts, globals>> /\ req[r].pc # "move"
      BY <1>12 DEF Fetch
  <2> QED
      BY <1>9, <1>12, <2>1, FetchMoves
<1>13. ASSUME NEW r \in Requests, Predict(r) PROVE ServingInv'
  <2>1. /\ UNCHANGED <<training, server, starts, globals>> /\ folder' \subseteq Filings
        /\ req[r].pc # "move"
      BY <1>10, <1>13 DEF Predict
  <2> QED
      BY <1>9, <1>13, <2>1, PredictMoves
<1>14. CASE UNCHANGED vars
  <2>1. UNCHANGED <<artifact, trainer, trains, server, starts, globals, folder, req>>
      BY <1>14 DEF vars, training
  <2> QED
      BY <1>2, <1>3, <2>1
<1> QED
    BY <1>4, <1>5, <1>6, <1>7, <1>8, <1>11, <1>12, <1>13, <1>14, ScoreKeepsInv DEF Next, Step

\* Before anything is trained, started or asked.
LEMMA ServingInit == Init => ServingInv
<1> SUFFICES ASSUME Init PROVE ServingInv
    OBVIOUS
<1>1. req = [r \in Requests |-> Fresh]
    BY DEF Init
<1>2. ProcessType
  <2>1. 0 \in 0..MaxTrains /\ 0 \in 0..MaxStarts
      BY ServingAssumption
  <2>2. req = [r \in Requests |-> req[r]]
      BY <1>1
  <2> QED
      BY <2>1, <2>2 DEF Init, ProcessType
<1>3. \A r \in Requests : RequestInv(req[r])
    BY <1>1, FreshKeepsInv
<1>4. BertKnown
  <2>1. Fresh.pc = "idle"
      BY DEF Fresh
  <2> QED
      BY <1>1, <2>1 DEF BertKnown, Init
<1> QED
    BY <1>2, <1>3, <1>4 DEF ServingInv

\* The invariant holds at all times.
LEMMA ServingInductive == Spec => []ServingInv
<1> QED
    BY ServingInit, ServingStep, PTL DEF Spec

-----------------------------------------------------------------------------
(***************************************************************************)
(* The theorems.                                                           *)
(***************************************************************************)
\* The state of the server, its requests and the training beside it is well typed:
\* among others, a request never tries a source more often than it may.
THEOREM ServingTypeCorrect == Spec => []TypeOK
<1>1. ServingInv => TypeOK
  <2> SUFFICES ASSUME ServingInv PROVE TypeOK
      OBVIOUS
  <2>1. ASSUME NEW r \in Requests
        PROVE  /\ req[r].pc \in {"idle", "fetch", "check", "tokenizer", "model", "move", "loaded",
                                 "forward", "predict", "done"}
               /\ req[r].at \in DOMAIN Sources
               /\ req[r].tries \in 0..(Attempts(SourceOf(r)) - 1)
               /\ req[r].using \in Requests \cup {None}
               /\ DOMAIN req[r].preds \subseteq Trainable
               /\ req[r].status \in {"none", "lost", "answered", "invalid", "failed"}
      BY DEF ServingInv, RequestInv, RequestType, Points, Gathered, SourceOf
  <2> QED
      BY <2>1 DEF TypeOK, ServingInv, ProcessType
<1> QED
    BY <1>1, ServingInductive, PTL

\* A request that is answered has a forecast for every horizon it asked for that the
\* model can predict, and each was made from a complete row of its own interval's bars
\* up to the time of the request, whatever the sources gave and other threads did.
THEOREM AnswersAreComplete == Spec => []AnswersWhatItCan
<1>1. ServingInv => AnswersWhatItCan
    BY DEF ServingInv, RequestInv, Answered, Forecast, OwnOnly, AnswersWhatItCan
<1> QED
    BY <1>1, ServingInductive, PTL

\* The causes for which a request may fail.
MayFail(r) ==
    \/ /\ req[r].pc = "fetch"
       /\ SourceOf(r) \in Essential
       /\ req[r].tries = PriceAttempts - 1
    \/ req[r].pc \in {"tokenizer", "model", "move"}
    \/ req[r].pc = "predict" /\ ~Complete(Vector(req[r].got))
    \/ /\ req[r].pc = "forward"
       /\ req[r].using = bert => stuck \/ \E q \in Requests : req[q].pc = "move"

\* What a request goes through without failing keeps its status.
LEMMA StatusKept ==
    ASSUME ServingInv, NEW r \in Requests, NEW value, NEW pc, NEW tries, NEW using,
           \/ Takes(r, value)
           \/ Steps(r, [req[r] EXCEPT !.tries = tries])
           \/ Steps(r, [req[r] EXCEPT !.pc = pc])
           \/ Steps(r, [req[r] EXCEPT !.pc = pc, !.using = using])
    PROVE  req'[r].status = req[r].status
<1>1. IsRequest(req[r]) /\ req = [q \in Requests |-> req[q]]
    BY DEF ServingInv, ProcessType, RequestInv, RequestType
<1>2. CASE Steps(r, [req[r] EXCEPT !.tries = tries])
    BY <1>1, <1>2, OthersWait DEF IsRequest
<1>3. CASE Steps(r, [req[r] EXCEPT !.pc = pc])
    BY <1>1, <1>3, OthersWait DEF IsRequest
<1>4. CASE Steps(r, [req[r] EXCEPT !.pc = pc, !.using = using])
    BY <1>1, <1>4, OthersWait DEF IsRequest
<1>5. CASE Takes(r, value)
  <2>1. PICK got : got = [req[r].got EXCEPT ![Sources[req[r].at]] = value]
      OBVIOUS
  <2>2. PICK next : next = [req[r] EXCEPT !.got = got, !.tries = 0, !.at = @ + 1]
      OBVIOUS
  <2>3. IsRequest(next) /\ next.status = req[r].status
      BY <1>1, <2>2 DEF IsRequest
  <2>4. PICK y : y = Took(req[r], value)
      OBVIOUS
  <2>5. y = IF req[r].at < Len(Sources) THEN next
            ELSE [next EXCEPT !.pc = IF Articles(got) = {} THEN "predict" ELSE "check", !.at = 1]
      BY ONLY <2>1, <2>2, <2>4, Zenon DEF Took
  <2>6. y.status = req[r].status
      BY <2>3, <2>5 DEF IsRequest
  <2>7. Steps(r, y)
      BY <1>5, <2>4 DEF Takes, Took, SourceOf
  <2> QED
      BY <1>1, <2>6, <2>7, OthersWait
<1> QED
    BY <1>2, <1>3, <1>4, <1>5

\* An attempt fails the request only if it was the last at a price source.
LEMMA AttemptFails ==
    ASSUME ServingInv, NEW r \in Requests, req[r].pc = "fetch", Attempted(r),
           req[r].status = "none", req'[r].status = "failed"
    PROVE  MayFail(r)
<1>1. ~(req[r].tries + 1 < Attempts(SourceOf(r)))
  <2>1. SUFFICES ASSUME req[r].tries + 1 < Attempts(SourceOf(r)) PROVE FALSE
      OBVIOUS
  <2>2. Steps(r, [req[r] EXCEPT !.tries = req[r].tries + 1])
      BY <2>1 DEF Attempted
  <2> QED
      BY <2>2, StatusKept
<1>2. GivesUp(r)
    BY <1>1 DEF Attempted
<1>3. SourceOf(r) \in Essential
  <2>1. SUFFICES ASSUME SourceOf(r) \notin Essential PROVE FALSE
      OBVIOUS
  <2>2. Takes(r, NoSource)
      BY <1>2, <2>1 DEF GivesUp
  <2> QED
      BY <2>2, StatusKept
<1>4. req[r].tries \in 0..(PriceAttempts - 1) /\ ~(req[r].tries + 1 < PriceAttempts)
    BY <1>1, <1>3 DEF ServingInv, RequestInv, RequestType, SourceOf, Attempts
<1>5. req[r].tries = PriceAttempts - 1
    BY SMTT(30), <1>4, ServingAssumption
<1> QED
    BY <1>3, <1>5 DEF MayFail

\* A source that answers does not fail the request.
LEMMA FetchFails ==
    ASSUME ServingInv, NEW r \in Requests, Fetch(r),
           req[r].status = "none", req'[r].status = "failed"
    PROVE  MayFail(r)
<1>1. req[r].pc = "fetch"
    BY DEF Fetch
<1>2. Attempted(r) \/ \E value : Takes(r, value)
    BY DEF Fetch
<1>3. \A value : ~Takes(r, value)
    BY StatusKept
<1> QED
    BY <1>1, <1>2, <1>3, AttemptFails

\* The scoring fails a request while FinBERT is loaded, or with one that is not on
\* its device; the global one is, unless it is being moved or could not be.
LEMMA ScoreFails ==
    ASSUME ServingInv, NEW r \in Requests, Score(r),
           req[r].status = "none", req'[r].status = "failed"
    PROVE  MayFail(r)
<1>1. \A pc : ~Goes(r, pc)
    BY StatusKept DEF Goes
<1>2. ~Check(r)
    BY <1>1 DEF Check
<1>3. ~ReturnModel(r)
    BY StatusKept DEF ReturnModel
<1>4. CASE LoadTokenizer(r) \/ LoadModel(r) \/ MoveModel(r)
    BY <1>4 DEF LoadTokenizer, LoadModel, MoveModel, MayFail
<1>5. CASE Forward(r)
  <2>1. req[r].pc = "forward" /\ req[r].using \notin moved
      BY <1>1, <1>5 DEF Forward
  <2>2. BertKnown
      BY DEF ServingInv
  <2> QED
      BY <2>1, <2>2 DEF BertKnown, MayFail
<1> QED
    BY <1>2, <1>3, <1>4, <1>5 DEF Score

\* The estimators fail a request only over a missing feature.
LEMMA PredictFails ==
    ASSUME ServingInv, NEW r \in Requests, Predict(r),
           req[r].status = "none", req'[r].status = "failed"
    PROVE  MayFail(r)
<1>1. SUFFICES ASSUME Complete(Vector(req[r].got)) PROVE FALSE
    BY DEF Predict, MayFail
<1>2. IsRequest(req[r]) /\ req = [q \in Requests |-> req[q]]
    BY DEF ServingInv, ProcessType, RequestInv, RequestType
<1> DEFINE new == [h \in Served(r, req[r].left[1]) |-> Vector(req[r].got)]
<1>3. PICK preds : preds = [h \in DOMAIN req[r].preds \cup DOMAIN new |->
                               IF h \in DOMAIN new THEN new[h] ELSE req[r].preds[h]]
    OBVIOUS
<1>4. PICK next : next = [req[r] EXCEPT !.preds = preds, !.lag = Vector(req[r].got).estimated_lag_hours,
                                        !.left = Tail(@), !.using = None,
                                        !.got = [s \in SourceNames |-> NoSource]]
    OBVIOUS
<1>5. IsRequest(next) /\ next.status = "none"
    BY <1>2, <1>4 DEF IsRequest
<1>6. IF Len(req[r].left) > 1 THEN Steps(r, [next EXCEPT !.pc = "fetch"])
      ELSE Steps(r, [next EXCEPT !.pc = "done", !.status = "answered"])
  <2>1. LET nxt == [req[r] EXCEPT !.preds = [h \in DOMAIN req[r].preds \cup DOMAIN new |->
                                                IF h \in DOMAIN new THEN new[h] ELSE req[r].preds[h]],
                                  !.lag = Vector(req[r].got).estimated_lag_hours,
                                  !.left = Tail(@), !.using = None,
                                  !.got = [s \in SourceNames |-> NoSource]]
        IN  IF Len(req[r].left) > 1 THEN Steps(r, [nxt EXCEPT !.pc = "fetch"])
            ELSE Steps(r, [nxt EXCEPT !.pc = "done", !.status = "answered"])
      BY <1>1 DEF Predict
  <2> HIDE DEF new
  <2> QED
      BY ONLY <1>3, <1>4, <2>1, Zenon
<1>7. CASE Steps(r, [next EXCEPT !.pc = "fetch"])
    BY <1>2, <1>5, <1>7, OthersWait DEF IsRequest
<1>8. CASE Steps(r, [next EXCEPT !.pc = "done", !.status = "answered"])
    BY <1>2, <1>5, <1>8, OthersWait DEF IsRequest
<1> QED
    BY <1>6, <1>7, <1>8

\* A request is let in or turned away; it does not fail at once.
LEMMA AskFailsNothing ==
    ASSUME ServingInv, NEW r \in Requests, Ask(r)
    PROVE  req'[r].status # "failed"
<1>1. req = [q \in Requests |-> req[q]]
    BY DEF ServingInv, ProcessType
<1>2. PICK asked \in Asked :
          IF asked = <<>> \/ ~(NamesOf(asked) \subseteq Horizons)
          THEN Steps(r, [Fresh EXCEPT !.pc = "done", !.asked = asked, !.status = "invalid"])
          ELSE Steps(r, [Fresh EXCEPT !.pc = "fetch", !.asked = asked, !.model = server,
                                      !.left = ByInterval(asked)])
    BY DEF Ask
<1>3. CASE Steps(r, [Fresh EXCEPT !.pc = "done", !.asked = asked, !.status = "invalid"])
  <2>1. PICK y : y = [Fresh EXCEPT !.pc = "done", !.asked = asked, !.status = "invalid"]
      OBVIOUS
  <2>2. y.status = "invalid"
      BY <2>1 DEF Fresh
  <2> QED
      BY <1>1, <1>3, <2>1, <2>2, OthersWait
<1>4. CASE Steps(r, [Fresh EXCEPT !.pc = "fetch", !.asked = asked, !.model = server,
                                  !.left = ByInterval(asked)])
  <2>1. PICK y : y = [Fresh EXCEPT !.pc = "fetch", !.asked = asked, !.model = server,
                                   !.left = ByInterval(asked)]
      OBVIOUS
  <2>2. y.status = "none"
      BY <2>1 DEF Fresh
  <2> QED
      BY <1>1, <1>4, <2>1, <2>2, OthersWait
<1> QED
    BY <1>2, <1>3, <1>4

\* What one request does gives no other a status.
LEMMA OthersKeepStatus ==
    ASSUME ServingInv, NEW q \in Requests, NEW r \in Requests, q # r, Ask(q) \/ Step(q)
    PROVE  req'[r] = req[r]
<1>1. req = [p \in Requests |-> req[p]]
    BY DEF ServingInv, ProcessType
<1>2. \A x : Steps(q, x) => req'[r] = req[r]
    BY <1>1, OthersWait
<1>3. CASE Ask(q)
    BY <1>3, AskMoves DEF Moves
<1>4. CASE Fetch(q)
    BY <1>4, FetchMoves DEF Moves
<1>5. CASE Predict(q)
    BY <1>5, PredictMoves DEF Moves
<1>6. CASE Score(q)
    BY <1>2, <1>6 DEF Score, Check, LoadTokenizer, LoadModel, MoveModel, ReturnModel, Forward, Goes, Fails
<1> QED
    BY <1>3, <1>4, <1>5, <1>6 DEF Step

\* A request that fails had a cause: the last attempt at a price source, FinBERT that
\* could not be loaded, a feature its own answers leave undefined, or a FinBERT that is
\* not on its device; the global one is not only while it is moved or after a failed move.
THEOREM FailuresHaveACause == Spec => FailsForCause
<1>1. ASSUME ServingInv, [Next]_vars, NEW r \in Requests,
             req[r].status = "none", req'[r].status = "failed"
      PROVE  MayFail(r)
  <2>1. CASE Train \/ SaveModel \/ TrainerDies \/ Start \/ UNCHANGED vars
      BY <1>1, <2>1 DEF Train, SaveModel, TrainerDies, Start, vars
  <2>2. CASE Killed
    <3>1. PICK lost : lost = [Fresh EXCEPT !.pc = "done", !.status = "lost"]
        OBVIOUS
    <3>2. lost.status = "lost"
        BY <3>1 DEF Fresh
    <3> QED
        BY <1>1, <2>2, <3>1, <3>2 DEF Killed
  <2>3. ASSUME NEW q \in Requests, Ask(q) \/ Step(q) PROVE MayFail(r)
    <3>1. q = r
        BY <1>1, <2>3, OthersKeepStatus
    <3> QED
        BY <1>1, <2>3, <3>1, AskFailsNothing, FetchFails, ScoreFails, PredictFails DEF Step
  <2> QED
      BY <1>1, <2>1, <2>2, <2>3 DEF Next
<1>2. ServingInv /\ [Next]_vars =>
          [\A r \in Requests : req[r].status = "none" /\ req'[r].status = "failed" => MayFail(r)]_vars
    BY <1>1
<1> QED
    BY <1>2, ServingInductive, PTL DEF Spec, FailsForCause, MayFail
=============================================================================
