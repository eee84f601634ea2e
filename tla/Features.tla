------------------------------ MODULE Features ------------------------------
(***************************************************************************)
(* prediction/features.py: one row of model inputs, as the observations    *)
(* each input is computed from.  An observation has the stamp it is looked *)
(* up by and the time at which it is known; a feature without a source is  *)
(* the empty set (the code's neutral constant) and a feature whose window  *)
(* is not filled is NaN.  Arithmetic on the values read is left out.       *)
(***************************************************************************)
EXTENDS Integers, FiniteSets

CONSTANTS
    NaN,
    NoSource,           \* a source that is not enabled, or gave nothing
    MomShort,           \* 5 in the code
    MomLong,            \* 20
    VolWindow,          \* 20
    TrendsWindow,       \* 20
    SectorWindow,       \* 60
    InsiderSpan         \* 90 days

ASSUME FeaturesAssumption ==
    /\ {MomShort, MomLong, VolWindow, TrendsWindow, SectorWindow} \subseteq Nat \ {0}
    /\ InsiderSpan \in Nat
    /\ NaN # NoSource

Seen(src, at, known) == [src |-> src, at |-> at, known |-> known]

UpTo(series, t) == {o \in series : o.at <= t}

\* The observations under the n newest stamps.
Newest(series, n) ==
    {o \in series : Cardinality({p.at : p \in {q \in series : q.at > o.at}}) < n}

\* A statistic over the last n values, which needs n of them.
Trailing(series, n) ==
    IF Cardinality(series) >= n THEN Newest(series, n) ELSE NaN

\* prices: the observed returns and volumes, without those that are missing.
Technical(prices, asof) ==
    LET rets == UpTo(prices.ret, asof)
        vols == UpTo(prices.vol, asof)
    IN  [momentum_5d      |-> Trailing(rets, MomShort),
         momentum_20d     |-> Trailing(rets, MomLong),
         realized_vol_20d |-> Trailing(rets, VolWindow),
         volume_zscore    |-> Trailing(vols, VolWindow),
         return_lag_1     |-> Trailing(rets, 1)]

VixAsOf(vix, asof) == IF vix = NoSource THEN {} ELSE Newest(UpTo(vix, asof), 1)

\* classifier: the VIX values it was fit on.
RegimeLabel(classifier, vixValue) ==
    IF classifier = NoSource \/ vixValue = {} THEN {} ELSE classifier \cup vixValue

SearchInterest(trends, asof) ==
    IF trends = NoSource THEN {} ELSE Trailing(UpTo(trends, asof), TrendsWindow)

InsiderFlow(flow, asof) ==
    IF flow = NoSource
    THEN {}
    ELSE {o \in flow : asof - InsiderSpan < o.at /\ o.at <= asof}

SectorProximity(sector, asof) == Newest(UpTo(sector, asof), SectorWindow)

\* The origin decides the lag: a recent filing, else the most credible article.
OriginFrom(hint, articles) == IF hint # {} THEN hint ELSE articles

FeatureVector(asof, articles, prices, sector, hint, regime, trends, flow) ==
    LET tech == Technical(prices, asof)
    IN  [sentiment_agg          |-> articles,
         estimated_lag_hours    |-> OriginFrom(hint, articles),
         sector_proximity       |-> SectorProximity(sector, asof),
         momentum_5d            |-> tech.momentum_5d,
         momentum_20d           |-> tech.momentum_20d,
         realized_vol_20d       |-> tech.realized_vol_20d,
         volume_zscore          |-> tech.volume_zscore,
         search_interest_zscore |-> SearchInterest(trends, asof),
         insider_flow_npr       |-> InsiderFlow(flow, asof),
         return_lag_1           |-> tech.return_lag_1,
         regime_label           |-> regime]

FeatureNames ==
    {"sentiment_agg", "estimated_lag_hours", "sector_proximity", "momentum_5d",
     "momentum_20d", "realized_vol_20d", "volume_zscore", "search_interest_zscore",
     "insider_flow_npr", "return_lag_1", "regime_label"}

Complete(vector) == \A f \in FeatureNames : vector[f] # NaN

Reads(vector) == UNION {vector[f] : f \in FeatureNames}
=============================================================================
