--------------------------- MODULE PlanExecution ---------------------------
(***************************************************************************)
(* One rebalance against FakeBroker (trading/broker.py): the plan is made  *)
(* and checked by the pure functions of TradePlan, then run_cycle's loop   *)
(* sends its orders one at a time, each filled at once at the bar price or *)
(* refused.  This is the composition the repository's tests and dry runs   *)
(* use; TradingCycle models the same cycle against a broker whose orders   *)
(* queue, fill late and get lost.                                          *)
(***************************************************************************)
EXTENDS TradePlan, Functions

CONSTANTS
    ForecastKinds,      \* the quantile triples a forecast file may carry
    Prices,             \* bar prices
    MaxHeld,            \* bound on the shares held of each ticker at the start
    StartCash,          \* cash at the start
    LastEquities        \* equity at the previous close

\* plan_orders refuses a bar without a positive price; the account starts long only.
ASSUME ExecutionAssumption ==
    /\ Prices \subseteq Nat \ {0}
    /\ MaxHeld \in [Tickers -> Nat]
    /\ StartCash \subseteq Int

VARIABLES
    forecasts,          \* the forecast list the cycle was given
    bars,               \* FakeBroker.bars
    positions,          \* FakeBroker.positions
    cash,               \* FakeBroker.cash
    lastEquity,         \* FakeBroker._last_equity
    ids,                \* FakeBroker._ids
    todo,               \* planned orders not yet sent
    phase               \* plan, submit; or how it ended: done, refused, halted, rejected

vars == <<forecasts, bars, positions, cash, lastEquity, ids, todo, phase>>

Today == 1

\* FakeBroker._equity
Equity == MarkedValue(cash, positions, bars)

Account == [equity |-> Equity, cash |-> cash, lastEquity |-> lastEquity]

BarPrices == [t \in Tickers |-> bars[t].price]

Init ==
    /\ forecasts \in [Universe -> ForecastKinds]
    /\ bars \in [Tickers -> [price : Prices, asOf : {Today}]]
    /\ positions \in {held \in [Tickers -> 0..Max(Range(MaxHeld))] :
                        \A t \in Tickers : held[t] <= MaxHeld[t]}
    /\ cash \in StartCash
    /\ lastEquity \in LastEquities
    /\ ids = {}
    /\ todo = {}
    /\ phase = "plan"

\* decide_targets raises on a bad forecast, plan_orders on what it must not size.
Refuse ==
    /\ phase = "plan"
    /\ ~ValidForecasts(forecasts) \/ PlanRefused(positions, Equity)
    /\ phase' = "refused"
    /\ UNCHANGED <<forecasts, bars, positions, cash, lastEquity, ids, todo>>

\* plan_orders, then check_plan: RiskLimitBreach ends the cycle, nothing is sent.
Plan ==
    /\ phase = "plan"
    /\ ValidForecasts(forecasts)
    /\ ~PlanRefused(positions, Equity)
    /\ LET orders == PlanOrders(Selected(forecasts), positions, Equity, BarPrices, Today)
       IN  IF CheckPlan(orders, Account, positions, bars, Equity, 0, Today, FALSE)
           THEN todo' = orders /\ phase' = "submit"
           ELSE todo' = {} /\ phase' = "halted"
    /\ UNCHANGED <<forecasts, bars, positions, cash, lastEquity, ids>>

\* FakeBroker.submit_order would raise: a repeated id, shares or cash it lacks.
Rejects(o) ==
    \/ ClientOrderId(o) \in ids
    \/ o.side = "sell" /\ o.qty > positions[o.ticker]
    \/ o.side = "buy" /\ o.qty * bars[o.ticker].price > cash

IsNextOrder(o) == o \in todo /\ \A p \in todo \ {o} : SubmittedBefore(o, p)

SubmitFilled(o) ==
    /\ phase = "submit"
    /\ IsNextOrder(o)
    /\ ~Rejects(o)
    /\ LET bought == IF o.side = "buy" THEN o.qty ELSE -o.qty
       IN  /\ positions' = [positions EXCEPT ![o.ticker] = @ + bought]
           /\ cash' = cash - bought * bars[o.ticker].price
    /\ ids' = ids \cup {ClientOrderId(o)}
    /\ todo' = todo \ {o}
    /\ UNCHANGED <<forecasts, bars, lastEquity, phase>>

\* The exception leaves the loop: the orders after this one are never sent.
SubmitRejected(o) ==
    /\ phase = "submit"
    /\ IsNextOrder(o)
    /\ Rejects(o)
    /\ phase' = "rejected"
    /\ UNCHANGED <<forecasts, bars, positions, cash, lastEquity, ids, todo>>

Finish ==
    /\ phase = "submit"
    /\ todo = {}
    /\ phase' = "done"
    /\ UNCHANGED <<forecasts, bars, positions, cash, lastEquity, ids, todo>>

Next ==
    \/ Refuse
    \/ Plan
    \/ \E o \in todo : SubmitFilled(o) \/ SubmitRejected(o)
    \/ Finish

Spec == Init /\ [][Next]_vars

-----------------------------------------------------------------------------
\* A plan that passed check_plan goes through whole: no order of it is refused
\* for lack of shares or cash, at any point of the submission order.
NoRejection == phase # "rejected"

\* After the last fill every selected name is at its target or inside the band
\* around it, and every name that lost its place is sold out, however small.
LandsOnTarget ==
    phase = "done" =>
        \A t \in Universe :
            LET selected == Selected(forecasts)
                target   == TargetQty(selected, t, Equity, bars[t].price)
            IN  \/ positions[t] = target
                \/ InsideBand(selected, t, target - positions[t], Equity, bars[t].price)

\* A finished rebalance is a fixed point: planning again on the same bars gives
\* no order, so a rerun does not churn.
ReplanIsEmpty ==
    phase = "done" =>
        PlanOrders(Selected(forecasts), positions, Equity, BarPrices, Today) = {}

\* Sized from an all-cash account, a plan never needs margin, whatever is selected.
FromCashNeedsNoMargin ==
    (phase = "plan" /\ ValidForecasts(forecasts) /\ Equity > 0
                    /\ \A t \in Tickers : positions[t] = 0)
        => NeedsNoMargin(PlanOrders(Selected(forecasts), positions, Equity, BarPrices, Today),
                         cash, bars)
=============================================================================
