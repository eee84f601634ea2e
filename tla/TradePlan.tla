----------------------------- MODULE TradePlan -----------------------------
(***************************************************************************)
(* The pure part of src/trading: from quantile forecasts to target weights *)
(* (signals.py), from weights to whole-share orders (rebalance.py), and    *)
(* the pre-trade risk check (risk.py), under the limits of config.py.      *)
(*                                                                         *)
(* Fractions are integers in parts of Scale and every comparison is cross- *)
(* multiplied, so the arithmetic is exact: the code's floats and the 1e-12 *)
(* tolerance that absorbs their rounding have no counterpart.  Tickers are *)
(* integers; their order stands for the alphabetical one.                  *)
(***************************************************************************)
EXTENDS Integers, FiniteSets, FiniteSetsExt

CONSTANTS
    Tickers,            \* everything the account may hold
    Universe,           \* cfg.universe
    Scale,              \* denominator of every fraction below
    EdgeThreshold,      \* cfg.edge_threshold, in parts of Scale
    MinP10,             \* cfg.min_p10, negative
    MaxPositionWeight,
    MaxGrossExposure,
    RebalanceBand,
    MaxOrdersPerDay,
    MaxDailyLoss,
    MaxDrawdown,
    MinPrice,
    MaxPriceAge,        \* cfg.max_price_age_days
    MaxEquityMismatch,
    SlippageBuffer      \* cfg.buy_slippage_buffer

(***************************************************************************)
(* What TradingConfig.__post_init__ refuses to build without.              *)
(***************************************************************************)
ASSUME TickersAssumption ==
    /\ Tickers \subseteq Int
    /\ IsFiniteSet(Tickers)
    /\ Universe \subseteq Tickers
    /\ Universe # {}

ASSUME ConfigAssumption ==
    /\ Scale \in Nat \ {0}
    /\ MaxPositionWeight \in 1..Scale
    /\ MaxGrossExposure \in 1..Scale
    /\ MaxDailyLoss \in 1..(Scale - 1)
    /\ MaxDrawdown \in 1..(Scale - 1)
    /\ RebalanceBand \in 0..(MaxPositionWeight - 1)
    /\ MaxEquityMismatch \in 1..(Scale - 1)
    /\ EdgeThreshold \in Nat
    /\ SlippageBuffer \in Nat
    /\ MinP10 \in Int
    /\ MinP10 < 0
    /\ MaxOrdersPerDay \in Nat \ {0}
    /\ MaxPriceAge \in Nat
    /\ MinPrice \in Nat \ {0}

HardPositionCap == MaxPositionWeight + RebalanceBand

-----------------------------------------------------------------------------
(***************************************************************************)
(* signals.py.  A forecast file gives every universe ticker exactly one    *)
(* triple (read_forecast_file), so a list of forecasts is a function.      *)
(***************************************************************************)
Ordered(f) == f.p10 <= f.p50 /\ f.p50 <= f.p90

ValidForecasts(forecasts) ==
    /\ DOMAIN forecasts \subseteq Universe
    /\ \A t \in DOMAIN forecasts : Ordered(forecasts[t])

Selected(forecasts) ==
    {t \in DOMAIN forecasts :
        /\ forecasts[t].p50 > EdgeThreshold
        /\ forecasts[t].p10 >= MinP10}

\* Mutation: sizes the full gross exposure, with no cash left for slippage.
EqualWeight_NoSlippage(n) ==
    IF MaxPositionWeight * n <= MaxGrossExposure
    THEN [num |-> MaxPositionWeight, den |-> Scale]
    ELSE [num |-> MaxGrossExposure, den |-> Scale * n]

\* The one weight every selected name gets, as an exact fraction: the cap per
\* name, or an equal share of the gross exposure that leaves cash for slippage.
EqualWeight(n) ==
    IF MaxPositionWeight * (Scale + SlippageBuffer) * n <= MaxGrossExposure * Scale
    THEN [num |-> MaxPositionWeight, den |-> Scale]
    ELSE [num |-> MaxGrossExposure, den |-> (Scale + SlippageBuffer) * n]

-----------------------------------------------------------------------------
(***************************************************************************)
(* rebalance.py.                                                           *)
(***************************************************************************)
Sides == {"buy", "sell"}

\* client_order_id: one id per market date, ticker and side.
ClientOrderId(o) == <<o.day, o.ticker, o.side>>

\* Whole shares of t at `price` that its weight in `selected` buys.
TargetQty(selected, t, equity, price) ==
    LET w == EqualWeight(Cardinality(selected))
    IN  IF t \in selected THEN (w.num * equity) \div (w.den * price) ELSE 0

Magnitude(n) == IF n < 0 THEN -n ELSE n

\* Drift of a selected name too small to trade.
InsideBand(selected, t, delta, equity, price) ==
    /\ t \in selected
    /\ Magnitude(delta) * price * Scale < RebalanceBand * equity

\* plan_orders raises: nothing to size against, a holding it must not touch.
PlanRefused(positions, equity) ==
    \/ equity <= 0
    \/ \E t \in Tickers \ Universe : positions[t] # 0
    \/ \E t \in Tickers : positions[t] < 0

\* Mutation: orders the target, not what is missing to it.
PlanOrders_WholeTarget(selected, positions, equity, prices, day) ==
    LET Target(t) == TargetQty(selected, t, equity, prices[t])
        Delta(t)  == Target(t) - positions[t]
    IN  {[day    |-> day,
          ticker |-> t,
          side   |-> IF Delta(t) < 0 THEN "sell" ELSE "buy",
          qty    |-> IF Delta(t) < 0 THEN -Delta(t) ELSE Target(t)] :
            t \in {u \in Universe :
                    /\ u \in selected \/ positions[u] > 0
                    /\ ~InsideBand(selected, u, Delta(u), equity, prices[u])
                    /\ Delta(u) # 0}}

\* Mutation: forgets the names that lost their place.
PlanOrders_SelectedOnly(selected, positions, equity, prices, day) ==
    LET Delta(t) == TargetQty(selected, t, equity, prices[t]) - positions[t]
    IN  {[day    |-> day,
          ticker |-> t,
          side   |-> IF Delta(t) < 0 THEN "sell" ELSE "buy",
          qty    |-> Magnitude(Delta(t))] :
            t \in {u \in Universe :
                    /\ u \in selected
                    /\ ~InsideBand(selected, u, Delta(u), equity, prices[u])
                    /\ Delta(u) # 0}}

\* The plan as a set; SubmittedBefore orders it.
PlanOrders(selected, positions, equity, prices, day) ==
    LET Delta(t) == TargetQty(selected, t, equity, prices[t]) - positions[t]
    IN  {[day    |-> day,
          ticker |-> t,
          side   |-> IF Delta(t) < 0 THEN "sell" ELSE "buy",
          qty    |-> Magnitude(Delta(t))] :
            t \in {u \in Universe :
                    /\ u \in selected \/ positions[u] > 0
                    /\ ~InsideBand(selected, u, Delta(u), equity, prices[u])
                    /\ Delta(u) # 0}}

\* Mutation: buys first.
SubmittedBefore_BuysFirst(o, p) ==
    IF o.side = p.side THEN o.ticker < p.ticker ELSE o.side = "buy"

\* Position in the submitted list: sells first, then by ticker.
SubmittedBefore(o, p) ==
    IF o.side = p.side THEN o.ticker < p.ticker ELSE o.side = "sell"

-----------------------------------------------------------------------------
(***************************************************************************)
(* risk.py.  check_plan raises at the first limit that does not hold; its  *)
(* caller only distinguishes raising from returning, so the limits are one *)
(* conjunction.  account is [equity, cash, lastEquity]; bars gives every   *)
(* ticker a [price, asOf] (get_bars raises earlier when one is missing).   *)
(***************************************************************************)
EquityFiguresPositive(account, hwm) ==
    account.equity > 0 /\ account.lastEquity > 0 /\ hwm > 0

WithinDailyLoss(account) ==
    (account.lastEquity - account.equity) * Scale <= MaxDailyLoss * account.lastEquity

WithinDrawdown(account, hwm) ==
    (hwm - account.equity) * Scale <= MaxDrawdown * hwm

WithinDailyOrders(orders, ordersToday) ==
    ordersToday + Cardinality(orders) <= MaxOrdersPerDay

Involved(orders, positions) ==
    {o.ticker : o \in orders} \cup {t \in Tickers : positions[t] # 0}

BarsFresh(orders, positions, bars, day) ==
    \A t \in Involved(orders, positions) :
        t \in Universe /\ day - bars[t].asOf \in 0..MaxPriceAge

MarkedValue(cash, positions, bars) ==
    cash + MapThenSumSet(LAMBDA t : positions[t] * bars[t].price, Tickers)

\* Mutation: trusts the broker's equity figure.
Reconciles_Trusting(account, positions, bars) == account.equity > 0

Reconciles(account, positions, bars) ==
    Magnitude(MarkedValue(account.cash, positions, bars) - account.equity) * Scale
        <= MaxEquityMismatch * account.equity

PricesTradable(orders, bars) ==
    \A o \in orders : bars[o.ticker].price >= MinPrice

SellsCovered(orders, positions) ==
    \A o \in orders : o.side = "sell" => o.qty <= positions[o.ticker]

QtyAfter(orders, positions) ==
    [t \in Tickers |->
        positions[t] + MapThenSumSet(LAMBDA o : IF o.side = "buy" THEN o.qty ELSE -o.qty,
                                     {o \in orders : o.ticker = t})]

\* Cash after the plan, times Scale: sells at the bar, buys at the bar plus the buffer.
ScaledCashAfter(orders, cash, bars) ==
    cash * Scale
      + MapThenSumSet(LAMBDA o : IF o.side = "sell"
                                 THEN o.qty * bars[o.ticker].price * Scale
                                 ELSE -(o.qty * bars[o.ticker].price * (Scale + SlippageBuffer)),
                      orders)

NeedsNoMargin(orders, cash, bars) == ScaledCashAfter(orders, cash, bars) >= 0

WithinCaps(quantities, equity, bars) ==
    /\ \A t \in Tickers :
           quantities[t] * bars[t].price * Scale <= HardPositionCap * equity
    /\ MapThenSumSet(LAMBDA t : quantities[t] * bars[t].price, Tickers) * Scale
           <= (MaxGrossExposure + RebalanceBand) * equity

CheckPlan(orders, account, positions, bars, hwm, ordersToday, day, kill) ==
    /\ ~kill
    /\ EquityFiguresPositive(account, hwm)
    /\ WithinDailyLoss(account)
    /\ WithinDrawdown(account, hwm)
    /\ WithinDailyOrders(orders, ordersToday)
    /\ BarsFresh(orders, positions, bars, day)
    /\ Reconciles(account, positions, bars)
    /\ PricesTradable(orders, bars)
    /\ SellsCovered(orders, positions)
    /\ NeedsNoMargin(orders, account.cash, bars)
    /\ WithinCaps(QtyAfter(orders, positions), account.equity, bars)
=============================================================================
