----------------------------- MODULE Evaluation -----------------------------
(***************************************************************************)
(* The evaluation runs: eval.h2 dev and holdout (pooled walk-forward),     *)
(* eval.run --live (one model per ticker) and the legacy backtest.  A run  *)
(* loads each ticker's price snapshot into a dataset, walks each feature   *)
(* set forward over the folds, adds the baselines, and judges the result.  *)
(* Time is counted in thirds of a day: bar d is stamped at 3d and known at *)
(* its close, 3d + 1.  A number is abstracted to the latest moment of what *)
(* it was computed from.                                                   *)
(***************************************************************************)
EXTENDS Features, WalkForward, Sequences, FiniteSetsExt, SequencesExt

CONSTANTS
    Universe,                       \* the tickers, in the order of the file
    Kinds,                          \* of runs, among the four below
    Worlds,                         \* what the sources may hold
    Today, PoolStart, DevEnd, HoldoutStart,
    Lookback,                       \* of the news reader
    Week, TrendsLag,                \* a search value covers a week from its stamp
    MaxVixStale, MaxTrendsStale,
    Steps, MinObs, TrainDates, RefitEvery, BaselineWindow, MinHistory,
    MinPredictions, MinPassing,
    PValues, MaxFdr, LowerLoss,                 \* one-sided p-values, in percent
    Coverages, CoverageBand, TickerBand,        \* in percent
    Scores, TieTolerance, Materiality           \* of the development selection

Tickers == Range(Universe)

ASSUME EvaluationAssumption ==
    /\ Kinds \subseteq {"dev", "holdout", "live", "backtest"}
    /\ Universe \in Seq(Tickers) /\ Universe # <<>>
    /\ \A w \in Worlds :
          /\ \A t \in Tickers : w.hist[t].bars \subseteq 0 .. Today /\ w.news[t] \subseteq Nat
          /\ w.vix \subseteq 0 .. Today
          /\ w.trends = NoSource \/ w.trends \subseteq 0 .. Today
    /\ {Steps, TrainDates, RefitEvery, Today} \subseteq Nat \ {0}
    /\ {PoolStart, DevEnd, HoldoutStart, Week, TrendsLag, BaselineWindow} \subseteq Nat
    /\ TrendsLag >= Week
    /\ PValues \subseteq 0 .. 100
    /\ MaxFdr \in Nat /\ LowerLoss \in 0 .. 100 /\ MaxFdr < LowerLoss

VARIABLES
    kind,           \* which run
    held,           \* what the sources hold
    todo,           \* the tasks left
    pc,
    day,            \* midnights passed since the run started
    from,           \* per ticker: the snapshot days its prices came from
    frames,         \* per ticker: the complete feature rows
    fold,           \* the fold to do next
    walk,           \* what the last fold learned and forecast
    scored,         \* per ticker: the rows of this walk that are scored
    results,        \* per feature set and ticker
    cache,          \* baseline forecasts shared between feature sets
    rows,           \* per ticker: scored rows, once all walks are done
    edges,          \* per reference compared: the tickers with an edge
    stats,          \* p-values of the last comparison
    panels,         \* the references the panel average beats
    verdict

vars == <<kind, held, todo, pc, day, from, frames, fold, walk, scored, results, cache,
          rows, edges, stats, panels, verdict>>
walking == <<fold, walk, scored>>
judging == <<rows, edges, stats, panels>>

Stamp(d) == 3 * d
Close(d) == 3 * d + 1

\* f with v under k, and the entries of f before those of g.
Put(f, k, v) == [x \in DOMAIN f \cup {k} |-> IF x = k THEN v ELSE f[x]]
Over(f, g) == [x \in DOMAIN f \cup DOMAIN g |-> IF x \in DOMAIN f THEN f[x] ELSE g[x]]

Latest(observations) == Max({o.known : o \in observations} \cup {0})

-----------------------------------------------------------------------------
(* The dataset (prediction/dataset.py; run_backtest builds its own).       *)

AsOf(d) == IF kind = "backtest" THEN Stamp(d) ELSE Close(d)

Prices(t) ==
    LET hist == held.hist[t]
    IN  [ret |-> {Seen(<<"ret", t>>, Stamp(d), Close(d)) : d \in hist.bars \ {Min(hist.bars)}},
         vol |-> {Seen(<<"vol", t>>, Stamp(d), Close(d)) : d \in hist.bars \ hist.holes}]

SectorReturns(t) == UNION {Prices(u).ret : u \in IF kind = "backtest" THEN {t} ELSE Tickers}

VixSeries == {Seen(<<"vix">>, Stamp(d), Close(d)) : d \in held.vix}

\* A value is stamped when its week starts and known when it is over.
RawTrends(weeks) ==
    IF weeks = NoSource
    THEN NoSource
    ELSE {Seen(<<"trends">>, Stamp(w), Stamp(w) + Week) : w \in weeks}

\* The dataset shifts the stamps by the lag; the backtest does not.
TrendsSeries(weeks) ==
    IF weeks = NoSource \/ kind = "backtest"
    THEN RawTrends(weeks)
    ELSE {[o EXCEPT !.at = @ + TrendsLag] : o \in RawTrends(weeks)}

Articles(t, asof) ==
    {Seen(<<"news", t>>, at, at) : at \in {a \in held.news[t] : asof - Lookback <= a /\ a <= asof}}

\* The backtest fits its regime classifier on the whole series; a dataset
\* for evaluation leaves the regime to the folds.
Regime(d) ==
    IF kind = "backtest" THEN RegimeLabel(VixSeries, VixAsOf(VixSeries, AsOf(d))) ELSE {}

Vector(t, d) ==
    FeatureVector(AsOf(d), Articles(t, AsOf(d)), Prices(t), SectorReturns(t), {}, Regime(d),
                  TrendsSeries(held.trends), NoSource)

PriceColumns ==
    {"momentum_5d", "momentum_20d", "realized_vol_20d", "volume_zscore", "return_lag_1"}

\* Rows under the close they were computed at.
Frame_ByClose(t) ==
    LET raw == [d \in held.hist[t].bars |-> Vector(t, d)]
    IN  [c \in {Close(e) : e \in {b \in DOMAIN raw : Complete(raw[b])}} |->
            [none  |-> 0,
             price |-> Latest(UNION {raw[c \div 3][n] : n \in PriceColumns}),
             news  |-> Latest(Reads(raw[c \div 3]))]]

\* Per complete row, the latest moment in the columns of each feature set.
Frame(t) ==
    LET raw == [d \in held.hist[t].bars |-> Vector(t, d)]
    IN  [d \in {e \in DOMAIN raw : Complete(raw[e])} |->
            [none  |-> 0,
             price |-> Latest(UNION {raw[d][c] : c \in PriceColumns}),
             news  |-> Latest(Reads(raw[d]))]]

\* build_dataset raises rather than filling in.
Refused(t, frame) ==
    LET bars == held.hist[t].bars
        first == Min(DOMAIN frame)
    IN  \/ held.hist[t].holes # {}
        \/ held.vix = {} \/ Max(held.vix) < Max(bars) - MaxVixStale
        \/ held.trends # NoSource /\ Max(held.trends) < Max(bars) - MaxTrendsStale
        \/ \A d \in bars : Articles(t, Close(d)) = {}
        \/ DOMAIN frame = {}
        \/ DOMAIN frame # {d \in bars : d >= first}
        \/ first < Min(held.vix)

-----------------------------------------------------------------------------
(* Tasks.                                                                  *)

Loads == [i \in DOMAIN Universe |-> <<"load", Universe[i]>>]

\* Each ticker in turn is loaded and walked forward with each feature set.
OneByOne(sets) ==
    LET size == Len(sets) + 1
    IN  [k \in 1 .. (Len(Universe) * size) |->
            LET t == Universe[(k - 1) \div size + 1]
                j == (k - 1) % size
            IN  IF j = 0 THEN <<"load", t>> ELSE <<"walk", sets[j], {t}>>]

Tasks(k) ==
    CASE k = "dev"     -> Loads \o <<<<"snapshot">>, <<"walk", "none", Tickers>>,
                                     <<"walk", "price", Tickers>>, <<"walk", "news", Tickers>>>>
      [] k = "holdout" -> Loads \o <<<<"snapshot">>, <<"walk", "news", Tickers>>,
                                     <<"walk", "price", Tickers>>>>
      [] k = "live"    -> OneByOne(<<"price", "news">>)
      [] OTHER         -> <<<<"load", Universe[1]>>, <<"walk", "news", {Universe[1]}>>>>

NoWalk == [first |-> Today, taught |-> 0, forecasts |-> {}]

Init ==
    /\ kind \in Kinds
    /\ held \in Worlds
    /\ todo = Tasks(kind)
    /\ pc = "next" /\ day = 0
    /\ from = [t \in {} |-> {}] /\ frames = [t \in {} |-> <<>>]
    /\ fold = 0 /\ walk = NoWalk /\ scored = [t \in {} |-> <<>>]
    /\ results = [f \in {} |-> <<>>] /\ cache = [key \in {} |-> <<>>]
    /\ rows = [t \in {} |-> 0] /\ edges = [r \in {} |-> {}] /\ stats = [t \in {} |-> 0]
    /\ panels = {} /\ verdict = "none"

Doing(op) == pc = "next" /\ todo # <<>> /\ Head(todo)[1] = op

Fail(why) ==
    /\ pc' = "done" /\ verdict' = why
    /\ UNCHANGED <<todo, frames, walking, results, cache, judging>>

\* The holdout names its snapshot; the backtest does not use snapshots.
\* Otherwise prices, the returns matrix and the VIX are fetched one by one,
\* each from the snapshot of the day it is then.
FetchedFrom(days) ==
    CASE kind = "holdout"  -> {0}
      [] kind = "backtest" -> {}
      [] OTHER             -> days

Load ==
    /\ Doing("load")
    /\ LET t == Head(todo)[2]
           frame == Frame(t)
       IN  /\ \E began, ended \in day .. 1 :
                /\ began <= ended
                /\ day' = ended
                /\ from' = Put(from, t, FetchedFrom({began, ended}))
           /\ IF kind # "backtest" /\ Refused(t, frame)
              THEN Fail("refused")
              ELSE /\ frames' = Put(frames, t, frame)
                   /\ todo' = Tail(todo)
                   /\ UNCHANGED <<pc, walking, results, cache, judging, verdict>>
    /\ UNCHANGED <<kind, held>>

\* snapshot_used raises on more than one day.
Mixed == Cardinality(UNION Range(from)) > 1

SnapshotUsed_Any ==
    /\ Doing("snapshot")
    /\ todo' = Tail(todo)
    /\ UNCHANGED <<kind, held, day, from, pc, frames, walking, results, cache, judging, verdict>>

SnapshotUsed ==
    /\ Doing("snapshot")
    /\ IF Mixed
       THEN Fail("mixed")
       ELSE /\ todo' = Tail(todo)
            /\ UNCHANGED <<pc, frames, walking, results, cache, judging, verdict>>
    /\ UNCHANGED <<kind, held, day, from>>

-----------------------------------------------------------------------------
(* The walk of one feature set over the tickers it pools (eval/pooled.py,  *)
(* eval/runner.py, backtest.walk_forward).                                 *)

Feats == Head(todo)[2]
Pool == Head(todo)[3]
Pooled == kind \in {"dev", "holdout"}

\* The development run removes what lies after its end before it starts.
Cut == IF kind = "dev" THEN DevEnd ELSE Today
Bars(t) == {b \in held.hist[t].bars : b <= Cut}
Rows(t) == {d \in DOMAIN frames[t] : d <= Cut /\ (Pooled => d >= PoolStart)}
VixUpTo(d) == {v \in held.vix : v <= Cut /\ v <= d}

\* The horizon of a row: its next Steps bars.
Ahead(t, d) == {b \in Bars(t) : b > d /\ Cardinality({c \in Bars(t) : d < c /\ c <= b}) <= Steps}
Labelled(t, d) == Cardinality(Ahead(t, d)) = Steps
LabelEnd(t, d) == Max(Ahead(t, d))

Returns(t, d) == {b \in Bars(t) \ {Min(Bars(t))} : b <= d}
HasSigma(t, d) == Cardinality(Returns(t, d)) >= MinObs

CalendarOf(pool) == UNION {Rows(t) : t \in pool}
Calendar == CalendarOf(Pool)
Position(d, days) == Cardinality({e \in days : e < d})
InOrder(days) == [i \in 1 .. Cardinality(days) |-> CHOOSE d \in days : Position(d, days) = i - 1]
Dates(positions) == {d \in Calendar : Position(d, Calendar) \in positions}

FoldsOf(n) ==
    CASE Pooled        -> FoldSchedule(n, TrainDates, RefitEvery, Steps)
      [] kind = "live" -> PurgedWalkForward(n, TrainDates, RefitEvery, RefitEvery, Steps)
      [] OTHER         -> PurgedWalkForward(n, TrainDates, RefitEvery, RefitEvery, 0)
Folds == FoldsOf(Cardinality(Calendar))

RefitsRegime == Feats = "news" /\ kind # "backtest"

\* What the walk raises on before its first fold.
Unsound ==
    \/ Pooled /\ \E t \in Pool :
          \/ Rows(t) = {}
          \/ \E d \in Rows(t) : ~HasSigma(t, d)
          \/ Rows(t) # {d \in Calendar : Min(Rows(t)) <= d /\ d <= Max(Rows(t))}
    \/ RefitsRegime /\ \E d \in Calendar :
          VixUpTo(d) = {} \/ (Pooled /\ Max(VixUpTo(d)) < d - MaxVixStale)
    \/ DOMAIN Folds = {}

Begin ==
    /\ Doing("walk")
    /\ IF Unsound
       THEN Fail("unsound")
       ELSE /\ pc' = "fold" /\ fold' = 0
            /\ scored' = [t \in Pool |-> <<>>]
            /\ UNCHANGED <<todo, frames, walk, results, cache, judging, verdict>>
    /\ UNCHANGED <<kind, held, day, from>>

VixRead(d) == IF RefitsRegime THEN {Close(Max(VixUpTo(d)))} ELSE {}

\* The inputs of a row: its features, scaled by the volatility at its close.
Inputs(t, d) ==
    {frames[t][d][Feats]} \cup (IF Pooled THEN {Close(d)} ELSE {}) \cup VixRead(d)

\* The rows a baseline's empirical distribution is taken from.
Realised(t, d) ==
    LET end == Position(d, Bars(t)) - Steps + 1     \* exclusive
    IN  {b \in Bars(t) : Position(b, Bars(t)) \in (end - BaselineWindow) .. (end - 1)
                         /\ Labelled(t, b)}

\* A baseline raises on too little history (in the backtest it falls back).
Short(t, d) ==
    \/ Cardinality(Returns(t, d)) < MinHistory
    \/ Cardinality({b \in Realised(t, d) : HasSigma(t, b)}) < MinHistory

\* The backtest's read the returns of the training rows and no label.
Baselines(t, days) ==
    LET Known(d) == IF kind = "backtest" THEN {} ELSE {Close(LabelEnd(t, b)) : b \in Realised(t, d)}
    IN  [i \in DOMAIN days |-> [of |-> t, known |-> Max({Close(days[i])} \cup Known(days[i]))]]

InWindow(t, d) == Labelled(t, d) /\ (kind = "holdout" => d >= HoldoutStart)

\* Fit on the labelled rows of the training dates, forecast the test dates.
FitAndForecast ==
    /\ pc = "fold" /\ fold \in DOMAIN Folds
    /\ LET train == Dates(Folds[fold].train)
           test == Dates(Folds[fold].test)
           taught == (UNION {UNION {{Close(LabelEnd(t, d))} \cup Inputs(t, d) :
                                     d \in {e \in train \cap Rows(t) : Labelled(t, e)}} : t \in Pool})
                     \cup (UNION {VixRead(d) : d \in train})
           Kept(t) == {d \in test \cap Rows(t) : InWindow(t, d)}
       IN  IF \/ \A t \in Pool : \A d \in train \cap Rows(t) : ~Labelled(t, d)
              \/ kind = "live" /\ \E t \in Pool : \E d \in Kept(t) : Short(t, d)
           THEN Fail("short")
           ELSE /\ walk' = [first |-> Min(test), taught |-> Max(taught),
                            forecasts |-> UNION {{[day |-> d, known |-> Max({Max(taught)} \cup Inputs(t, d))] :
                                                  d \in Kept(t)} : t \in Pool}]
                /\ scored' = [t \in Pool |-> scored[t] \o InOrder(Kept(t))]
                /\ fold' = fold + 1
                /\ UNCHANGED <<todo, pc, frames, results, cache, judging, verdict>>
    /\ UNCHANGED <<kind, held, day, from>>

\* The cached forecasts of a ticker are looked up by its rows' ends and count.
CacheKey_NoTicker(t, days) == <<days[1], days[Len(days)], Len(days)>>
CacheKey(t, days) == <<t, days[1], days[Len(days)], Len(days)>>

\* The baselines on the same rows; each ticker's result.
Finish ==
    /\ pc = "fold" /\ fold \notin DOMAIN Folds
    /\ CASE Pooled /\ \E t \in Pool : scored[t] = <<>> -> Fail("norows")
         [] Pooled /\ \E t \in Pool : \E i \in DOMAIN scored[t] : Short(t, scored[t][i]) -> Fail("short")
         [] OTHER ->
            LET fresh == [key \in {CacheKey(t, scored[t]) : t \in Pool} |->
                            LET t == CHOOSE u \in Pool : CacheKey(u, scored[u]) = key
                            IN  Baselines(t, scored[t])]
                known == Over(cache, fresh)
                mine == [t \in Pool |-> [days |-> scored[t], base |-> known[CacheKey(t, scored[t])]]]
            IN  /\ results' = Put(results, Feats, IF Feats \in DOMAIN results THEN Over(mine, results[Feats]) ELSE mine)
                /\ cache' = IF Pooled THEN known ELSE cache
                /\ todo' = Tail(todo) /\ pc' = "next"
                /\ walk' = NoWalk /\ fold' = 0 /\ scored' = [t \in {} |-> <<>>]
                /\ UNCHANGED <<frames, judging, verdict>>
    /\ UNCHANGED <<kind, held, day, from>>

-----------------------------------------------------------------------------
(* The verdict (eval/h2_select.py, eval/h2_gate.py, eval/gate.py).         *)

\* All walks are done.  The statistics need no more than the row counts.
EndWalks ==
    /\ pc = "next" /\ todo = <<>>
    /\ IF kind = "backtest"
       THEN pc' = "done" /\ verdict' = "reported" /\ UNCHANGED rows
       ELSE /\ pc' = IF kind = "dev" THEN "select" ELSE "judge"
            /\ rows' = [t \in Tickers |-> Len(results["news"][t].days)]
            /\ UNCHANGED verdict
    /\ frames' = [t \in {} |-> <<>>] /\ results' = [f \in {} |-> <<>>]
    /\ cache' = [key \in {} |-> <<>>] /\ held' = <<>>
    /\ UNCHANGED <<kind, todo, day, from, walking, edges, stats, panels>>

\* The simplest feature set that ties with the best against fhs, if it is
\* materially better than every featureless forecaster.
Select ==
    /\ pc = "select"
    /\ \E score \in [{"price", "news"} -> [{"fhs", "garch", "none"} -> Scores]] :
         LET best == Min({score[f]["fhs"] : f \in {"price", "news"}})
             overall == IF score["price"]["fhs"] <= best + TieTolerance THEN "price" ELSE "news"
         IN  verdict' = IF \A ref \in {"fhs", "garch", "none"} : score[overall][ref] <= Materiality
                        THEN "proceed" ELSE "rejected"
    /\ pc' = "done"
    /\ UNCHANGED <<kind, held, todo, day, from, frames, walking, results, cache, judging>>

Usable == {t \in Tickers : rows[t] >= MinPredictions}
References == IF kind = "holdout" THEN <<"garch", "fhs">> ELSE <<"empirical_quantile">>

CeilDiv(a, b) == (a + b - 1) \div b
Enough ==
    IF kind = "holdout"
    THEN Cardinality(Usable) >= CeilDiv(3 * Cardinality(Tickers), 4)
    ELSE Cardinality(Usable) >= Max({MinPassing, CeilDiv(Cardinality(Tickers), 2)})

\* The holdout stops on too few usable tickers, the live run only on none.
Reject ==
    /\ pc = "judge" /\ DOMAIN edges = {}
    /\ IF kind = "holdout" THEN ~Enough ELSE Usable = {}
    /\ pc' = "done" /\ verdict' = IF kind = "holdout" THEN "rejected" ELSE "norows"
    /\ UNCHANGED <<kind, held, todo, day, from, frames, walking, results, cache, judging>>

\* Adjusted p-values, Exact times as large: p times the number of tests over
\* the rank, made monotone from the largest down.  No rank exceeds Exact, so
\* rounding down moves none across a whole percentage.
Exact == Cardinality(Tickers)
BenjaminiHochberg_Raw(p) ==
    LET Rank(t) == Cardinality({u \in DOMAIN p : p[u] <= p[t]})
    IN  [t \in DOMAIN p |-> Min({100 * Exact, (Exact * p[t] * Cardinality(DOMAIN p)) \div Rank(t)})]

BenjaminiHochberg(p) ==
    LET Rank(t) == Cardinality({u \in DOMAIN p : p[u] <= p[t]})
        Ranked(t) == (Exact * p[t] * Cardinality(DOMAIN p)) \div Rank(t)
    IN  [t \in DOMAIN p |-> Min({100 * Exact} \cup {Ranked(u) : u \in {v \in DOMAIN p : p[v] >= p[t]}})]

\* One reference: the panel average, and the tickers with an edge.
Compare ==
    /\ pc = "judge" /\ Cardinality(DOMAIN edges) < Len(References)
    /\ IF kind = "holdout" THEN Enough ELSE Usable # {}
    /\ LET ref == References[Cardinality(DOMAIN edges) + 1]
       IN  \E p \in [Usable -> PValues], beats \in BOOLEAN :
             LET q == BenjaminiHochberg(p)
             IN  /\ stats' = p
                 /\ panels' = IF beats THEN panels \cup {ref} ELSE panels
                 /\ edges' = Put(edges, ref, {t \in Usable : p[t] < LowerLoss /\ q[t] <= Exact * MaxFdr})
    /\ UNCHANGED <<kind, held, todo, pc, day, from, frames, walking, results, cache, rows, verdict>>

Passing == {t \in Usable : \A ref \in DOMAIN edges : t \in edges[ref]}

\* The mean coverage, and every ticker's, is near nominal.
Calibrated(coverage) ==
    LET total == MapThenSumSet(LAMBDA t : coverage[t], Usable)
    IN  /\ CoverageBand[1] * Cardinality(Usable) <= total
        /\ total <= CoverageBand[2] * Cardinality(Usable)
        /\ \A t \in Usable : TickerBand[1] <= coverage[t] /\ coverage[t] <= TickerBand[2]

Passes(coverage) ==
    /\ Enough
    /\ panels = Range(References)
    /\ Cardinality(Passing) >= MinPassing
    /\ Calibrated(coverage)

\* The live run asks which snapshot it used only now.
Conclude ==
    /\ pc = "judge" /\ Cardinality(DOMAIN edges) = Len(References)
    /\ \E coverage \in [Usable -> Coverages] :
         verdict' = IF Mixed THEN "mixed"
                    ELSE IF Passes(coverage) THEN "passed" ELSE "rejected"
    /\ pc' = "done"
    /\ UNCHANGED <<kind, held, todo, day, from, frames, walking, results, cache, judging>>

Next ==
    \/ Load \/ SnapshotUsed
    \/ Begin \/ FitAndForecast \/ Finish \/ EndWalks
    \/ Select \/ Reject \/ Compare \/ Conclude

Spec == Init /\ [][Next]_vars

-----------------------------------------------------------------------------
(* Properties.                                                             *)

\* The variables have the values the code's structures can have.
TypeOK ==
    /\ kind \in Kinds
    /\ pc \in {"next", "fold", "select", "judge", "done"}
    /\ day \in 0 .. 1
    /\ DOMAIN from \subseteq Tickers /\ DOMAIN frames \subseteq Tickers
    /\ \A t \in DOMAIN frames : DOMAIN frames[t] \subseteq 0 .. Today
    /\ fold \in 0 .. Today
    /\ DOMAIN results \subseteq {"none", "price", "news"}
    /\ DOMAIN rows \subseteq Tickers
    /\ \A ref \in DOMAIN edges : edges[ref] \subseteq Tickers
    /\ DOMAIN stats \subseteq Tickers
    /\ verdict \in {"none", "refused", "mixed", "unsound", "short", "norows", "reported",
                    "proceed", "passed", "rejected"}

\* Every training label and input is complete before the first test row of
\* its fold, and no forecast or baseline of a row reads past the row's close:
\* through labels, features, the volatility, the regime or search interest.
NoLookAhead ==
    kind # "backtest" =>
        /\ walk.taught < Stamp(walk.first)
        /\ \A r \in walk.forecasts : r.known <= Close(r.day)
        /\ \A f \in DOMAIN results : \A t \in DOMAIN results[f] :
             \A i \in DOMAIN results[f][t].days :
                results[f][t].base[i].known <= Close(results[f][t].days[i])

\* backtest.py: "so there is no look-ahead".  A fold of the backtest has learned nothing
\* that is known only after the close of its first test row, and no forecast reads past
\* the close of its row.
BacktestNoLookAhead ==
    kind = "backtest" =>
        /\ walk.taught <= Close(walk.first)
        /\ \A r \in walk.forecasts : r.known <= Close(r.day)

\* The rows a run must score: every row with a whole history before it and a
\* whole horizon after it, up to the newest; one model per ticker leaves out
\* the last rows that fill no test window.
MustScore(t, pool) ==
    LET first == TrainDates + (IF kind = "backtest" THEN 0 ELSE Steps)
        n == Cardinality(CalendarOf(pool))
        last == IF Pooled THEN n ELSE first + RefitEvery * ((n - first) \div RefitEvery)
    IN  {d \in Rows(t) : /\ Position(d, CalendarOf(pool)) \in first .. (last - 1)
                         /\ InWindow(t, d)}

\* Each feature set is scored on exactly the same rows, once and in order,
\* with the ticker's own baselines, cached or not: blocks, their boundaries
\* and the shorter last block leave no row out and repeat none.
ScoredAlike ==
    (pc = "next" /\ todo = <<>>) =>
        \A f \in DOMAIN results : \A t \in DOMAIN results[f] :
            LET r == results[f][t]
            IN  /\ r.days = InOrder(MustScore(t, IF Pooled THEN Tickers ELSE {t}))
                /\ r.base = Baselines(t, r.days)

\* A report names one price snapshot, and every price it used is from it.
OneSnapshot ==
    verdict \in {"proceed", "passed", "rejected"} =>
        \E d \in 0 .. 1 : \A t \in Tickers : from[t] = {d}

\* The step-up rule: the largest k such that k p-values are at most
\* k / m of the rate; those are the discoveries.
StepUp(p) ==
    LET m == Cardinality(DOMAIN p)
        AtMost(k) == {t \in DOMAIN p : p[t] * m <= k * MaxFdr}
    IN  AtMost(Max({k \in 0 .. m : Cardinality(AtMost(k)) >= k}))

\* A comparison finds an edge in the discoveries among the tickers with
\* enough scored rows and in no other, and a run passes only when enough of
\* them stand against every reference.
GateJudges ==
    /\ DOMAIN stats # {} =>
         edges[References[Cardinality(DOMAIN edges)]] =
            StepUp([t \in {u \in Tickers : rows[u] >= MinPredictions} |-> stats[t]])
    /\ verdict = "passed" =>
         Cardinality({t \in Tickers : /\ rows[t] >= MinPredictions
                                      /\ \A ref \in Range(References) : t \in edges[ref]})
            >= MinPassing
=============================================================================
