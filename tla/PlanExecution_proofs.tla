------------------------ MODULE PlanExecution_proofs ------------------------
(***************************************************************************)
(* Theorems about one rebalance against FakeBroker, for every account, set *)
(* of bars, forecast file and configuration that the assumptions admit.    *)
(*                                                                         *)
(* The argument is one invariant: while orders are being sent, what is     *)
(* left of the plan is exactly the plan that the account in hand would get *)
(* (a fill moves value and makes none, and takes its own name out of the   *)
(* plan and no other), its sells are still covered, and the cash it would  *)
(* leave is still not negative.                                            *)
(***************************************************************************)
EXTENDS PlanExecution, TradePlan_proofs

-----------------------------------------------------------------------------
(***************************************************************************)
(* The inductive invariant.                                                *)
(***************************************************************************)
\* The plan of the account as it stands.
CurrentPlan == PlanOrders(Selected(forecasts), positions, Equity, BarPrices, Today)

AccountType ==
    /\ forecasts \in [Universe -> ForecastKinds]
    /\ bars \in [Tickers -> [price : Nat \ {0}, asOf : {Today}]]
    /\ positions \in [Tickers -> Nat]
    /\ cash \in Int
    /\ phase \in {"plan", "submit", "done", "refused", "halted", "rejected"}

\* Nothing is sent before the plan, and the plan has each name once.
FreshIds ==
    /\ phase = "plan" => ids = {}
    /\ \A id \in ids : \A o \in todo : id[2] # o.ticker

\* What is left to send is the plan of the account in hand.
PlanIsCurrent ==
    /\ phase = "submit" => todo = CurrentPlan
    /\ phase = "done" => CurrentPlan = {}

\* The part of check_plan that every later order depends on still holds.
StillCovered ==
    phase = "submit" =>
        /\ SellsCovered(todo, positions)
        /\ NeedsNoMargin(todo, cash, bars)

ExecutionInv ==
    /\ AccountType
    /\ FreshIds
    /\ PlanIsCurrent
    /\ StillCovered
    /\ NoRejection

-----------------------------------------------------------------------------
(***************************************************************************)
(* The state the plan is made from.                                        *)
(***************************************************************************)
\* The arguments that plan_orders gets are an account and bars.
LEMMA PlanArguments ==
    ASSUME AccountType
    PROVE  /\ Selected(forecasts) \in SUBSET Universe
           /\ positions \in [Tickers -> Int]
           /\ Equity \in Int
           /\ BarPrices \in [Tickers -> Nat \ {0}]
           /\ \A t \in Tickers : bars[t].price \in Nat \ {0} /\ BarPrices[t] = bars[t].price
<1>1. \A t \in Tickers : bars[t].price \in Nat \ {0}
    BY DEF AccountType
<1>2. positions \in [Tickers -> Int] /\ cash \in Int
    BY DEF AccountType
<1>3. Equity \in Int
    BY <1>1, <1>2, MarkedValueType DEF Equity
<1>4. Selected(forecasts) \in SUBSET Universe
    BY DEF AccountType, Selected
<1> QED
    BY <1>1, <1>2, <1>3, <1>4 DEF BarPrices

\* Every order of the plan is a whole positive quantity of a name with a bar.
LEMMA CurrentOrders ==
    ASSUME AccountType, NEW o \in CurrentPlan
    PROVE  /\ o.ticker \in Tickers
           /\ o.qty \in Nat \ {0}
           /\ o.side \in Sides
           /\ bars[o.ticker].price \in Nat \ {0}
BY PlanArguments, OrdersType DEF CurrentPlan

\* The plan has finitely many orders, one for each of its names.
LEMMA CurrentPlanShape ==
    ASSUME AccountType
    PROVE  /\ IsFiniteSet(CurrentPlan)
           /\ \A o, p \in CurrentPlan : o.ticker = p.ticker => o = p
BY PlanArguments, PlanIsFinite, OneOrderPerName DEF CurrentPlan

\* The cash effect of an order is a whole amount; a buy takes cash.
LEMMA EffectType ==
    ASSUME AccountType, NEW o \in CurrentPlan
    PROVE  /\ CashEffect(o, bars) \in Int
           /\ o.side = "buy" => CashEffect(o, bars) <= 0
<1> DEFINE q == o.qty
           p == bars[o.ticker].price
<1>1. q \in Nat /\ p \in Nat /\ Scale \in Nat /\ SlippageBuffer \in Nat
    BY CurrentOrders, ConfigAssumption
<1> HIDE DEF q, p
<1>2. q * p * Scale \in Nat /\ q * p * (Scale + SlippageBuffer) \in Nat
    BY <1>1
<1> QED
    BY <1>2 DEF CashEffect, q, p

-----------------------------------------------------------------------------
(***************************************************************************)
(* No order is refused.                                                    *)
(***************************************************************************)
\* When a buy's turn comes the sells are through, so the cash that check_plan
\* counted on is in the account.
LEMMA BuysAreCovered ==
    ASSUME ExecutionInv, phase = "submit", NEW o \in todo, IsNextOrder(o), o.side = "buy"
    PROVE  o.qty * bars[o.ticker].price <= cash
<1> DEFINE F == [p \in todo |-> CashEffect(p, bars)]
           Z == [p \in todo |-> 0]
           spent == o.qty * bars[o.ticker].price
<1>1. todo = CurrentPlan /\ AccountType /\ IsFiniteSet(todo)
    BY CurrentPlanShape DEF ExecutionInv, PlanIsCurrent
<1>2. \A p \in todo : p.side = "buy"
    BY <1>1, CurrentOrders DEF IsNextOrder, SubmittedBefore, Sides
<1>3. \A p \in todo : F[p] \in Int /\ F[p] <= 0
    BY <1>1, <1>2, EffectType
<1>4. cash \in Int /\ cash * Scale + SumOver(F, todo) >= 0
    BY ScaledCashIsSum DEF ExecutionInv, StillCovered, NeedsNoMargin, AccountType
<1>5. spent \in Nat /\ F[o] = -(spent * (Scale + SlippageBuffer))
    BY <1>1, CurrentOrders DEF CashEffect
<1> HIDE DEF F, spent
<1>6. IsFiniteSet(todo \ {o})
    BY <1>1, FS_Subset
<1>7. SumOver(F, todo) = F[o] + SumOver(F, todo \ {o}) /\ SumOver(F, todo \ {o}) \in Int
    BY <1>1, <1>3, <1>6, SumRemove, SumType
<1>8. SumOver(F, todo \ {o}) <= 0
  <2>1. \A p \in todo \ {o} : F[p] \in Int /\ Z[p] \in Int /\ F[p] <= Z[p] /\ Z[p] = 0
      BY <1>3
  <2> HIDE DEF Z
  <2>2. SumOver(F, todo \ {o}) <= SumOver(Z, todo \ {o})
      BY <1>6, <2>1, SumAtMost
  <2>3. SumOver(Z, todo \ {o}) = Cardinality(todo \ {o}) * 0
      BY ONLY <1>6, <2>1, 0 \in Int, SumConstant
  <2>4. Cardinality(todo \ {o}) \in Nat
      BY <1>6, FS_CardinalityType
  <2> QED
      BY <2>2, <2>3, <2>4
<1>9. Scale \in Nat \ {0} /\ SlippageBuffer \in Nat
    BY ConfigAssumption
<1>10. spent * (Scale + SlippageBuffer) <= cash * Scale
    BY <1>3, <1>4, <1>5, <1>7, <1>8, <1>9
<1>11. spent * Scale <= spent * (Scale + SlippageBuffer)
    BY <1>5, <1>9
<1>12. spent * Scale <= cash * Scale
    BY <1>4, <1>5, <1>9, <1>10, <1>11
<1>13. spent <= cash
    BY <1>4, <1>5, <1>9, <1>12, Cancel
<1> QED
    BY <1>13 DEF spent

\* FakeBroker.submit_order does not raise for the next order of the plan.
LEMMA NextIsAccepted ==
    ASSUME ExecutionInv, phase = "submit", NEW o \in todo, IsNextOrder(o)
    PROVE  ~Rejects(o)
<1>1. ClientOrderId(o) \notin ids
    BY DEF ExecutionInv, FreshIds, ClientOrderId
<1>2. o.side = "sell" => o.qty <= positions[o.ticker]
    BY DEF ExecutionInv, StillCovered, SellsCovered
<1>3. o.side = "sell" => ~(o.qty > positions[o.ticker])
  <2>1. todo = CurrentPlan /\ AccountType
      BY DEF ExecutionInv, PlanIsCurrent
  <2>2. o.qty \in Nat /\ positions[o.ticker] \in Nat
      BY <2>1, CurrentOrders DEF AccountType
  <2> QED
      BY <1>2, <2>2
<1>4. o.side = "buy" => ~(o.qty * bars[o.ticker].price > cash)
  <2>1. todo = CurrentPlan /\ AccountType
      BY DEF ExecutionInv, PlanIsCurrent
  <2>2. o.qty * bars[o.ticker].price \in Nat /\ cash \in Int
      BY <2>1, CurrentOrders DEF AccountType
  <2> QED
      BY <2>2, BuysAreCovered
<1> QED
    BY <1>1, <1>3, <1>4 DEF Rejects

-----------------------------------------------------------------------------
(***************************************************************************)
(* A fill leaves the rest of the plan as it was.                           *)
(***************************************************************************)
\* What SubmitFilled does to the account, in the terms of TradePlan_proofs.
LEMMA FillStep ==
    ASSUME ExecutionInv, NEW o \in todo, SubmitFilled(o)
    PROVE  /\ positions' = [positions EXCEPT ![o.ticker] = @ + Bought(o)]
           /\ cash' = cash - Bought(o) * bars[o.ticker].price
           /\ Bought(o) \in Int
           /\ o \in CurrentPlan
           /\ AccountType'
           /\ Equity' = Equity
<1>1. todo = CurrentPlan /\ AccountType /\ phase = "submit" /\ IsNextOrder(o)
    BY DEF ExecutionInv, PlanIsCurrent, SubmitFilled
<1>2. /\ o.ticker \in Tickers /\ o.qty \in Nat \ {0} /\ o.side \in Sides
      /\ bars[o.ticker].price \in Nat \ {0}
    BY <1>1, CurrentOrders
<1>3. Bought(o) \in Int
    BY <1>2 DEF Bought
<1>4. /\ positions' = [positions EXCEPT ![o.ticker] = @ + Bought(o)]
      /\ cash' = cash - Bought(o) * bars[o.ticker].price
      /\ UNCHANGED <<forecasts, bars, lastEquity, phase>>
    BY DEF SubmitFilled, Bought
<1>5. positions[o.ticker] \in Nat /\ positions[o.ticker] + Bought(o) \in Nat
  <2>1. o.side = "sell" => ~(o.qty > positions[o.ticker])
      BY DEF SubmitFilled, Rejects
  <2> QED
      BY <1>1, <1>2, <2>1 DEF AccountType, Bought, Sides
<1>6. AccountType'
  <2>1. positions' \in [Tickers -> Nat]
      BY <1>1, <1>2, <1>4, <1>5 DEF AccountType
  <2>2. cash' \in Int
      BY <1>1, <1>2, <1>3, <1>4 DEF AccountType
  <2> QED
      BY <1>1, <1>4, <2>1, <2>2 DEF AccountType
<1>7. Equity' = Equity
  <2>1. /\ cash \in Int /\ positions \in [Tickers -> Int]
        /\ \A t \in Tickers : bars[t].price \in Nat
      BY <1>1, PlanArguments DEF AccountType
  <2>2. MarkedValue(cash', positions', bars) = MarkedValue(cash, positions, bars)
    <3> DEFINE price == bars[o.ticker].price
               held == positions[o.ticker]
    <3>1. /\ positions' \in [Tickers -> Int] /\ cash' \in Int
          /\ positions'[o.ticker] = held + Bought(o)
          /\ \A t \in Tickers \ {o.ticker} : positions'[t] = positions[t]
        BY <1>2, <1>4, <1>6, <2>1 DEF AccountType
    <3>2. cash' + (held + Bought(o)) * price = cash + held * price
      <4>1. held \in Int /\ price \in Nat /\ cash' = cash - Bought(o) * price
          BY <1>2, <1>4, <2>1
      <4>2. (held + Bought(o)) * price = held * price + Bought(o) * price
          BY <1>3, <4>1
      <4> QED
          BY <1>3, <2>1, <4>1, <4>2
    <3> QED
        BY <1>2, <2>1, <3>1, <3>2, FillKeepsValue
  <2> QED
      BY <1>4, <2>2 DEF Equity
<1> QED
    BY <1>1, <1>3, <1>4, <1>6, <1>7

\* The plan of the account after the fill is the old one without the order.
LEMMA FillPlan ==
    ASSUME ExecutionInv, NEW o \in todo, SubmitFilled(o)
    PROVE  CurrentPlan' = CurrentPlan \ {o}
<1>1. AccountType
    BY DEF ExecutionInv
<1>2. PlanOrders(Selected(forecasts), positions', Equity, BarPrices, Today)
        = PlanOrders(Selected(forecasts), positions, Equity, BarPrices, Today) \ {o}
  <2>1. o \in PlanOrders(Selected(forecasts), positions, Equity, BarPrices, Today)
      BY FillStep DEF CurrentPlan
  <2>2. /\ positions'[o.ticker] = positions[o.ticker] + Bought(o)
        /\ \A t \in Tickers \ {o.ticker} : positions'[t] = positions[t]
      BY <1>1, FillStep, CurrentOrders DEF AccountType
  <2> QED
      BY <1>1, <2>1, <2>2, PlanArguments, FillLeavesTheRest
<1>3. Equity' = Equity
    BY FillStep
<1>4. BarPrices' = BarPrices /\ forecasts' = forecasts
    BY DEF SubmitFilled, BarPrices
<1>5. Selected(forecasts)' = Selected(forecasts)
    BY <1>4 DEF Selected
<1> QED
    BY <1>2, <1>3, <1>4, <1>5 DEF CurrentPlan

\* What is left of the plan still needs no margin: a sell brings in what the
\* check counted on, a buy costs no more than the check set aside.
LEMMA FillNeedsNoMargin ==
    ASSUME ExecutionInv, NEW o \in todo, SubmitFilled(o)
    PROVE  NeedsNoMargin(todo, cash, bars)'
<1> DEFINE F == [p \in todo |-> CashEffect(p, bars)]
           rest == todo \ {o}
           G == [p \in rest |-> CashEffect(p, bars)]
           value == o.qty * bars[o.ticker].price
<1>1. todo = CurrentPlan /\ AccountType /\ phase = "submit" /\ IsFiniteSet(todo)
    BY CurrentPlanShape DEF ExecutionInv, PlanIsCurrent, SubmitFilled
<1>2. \A p \in todo : F[p] \in Int
    BY <1>1, EffectType
<1>3. cash \in Int /\ cash * Scale + SumOver(F, todo) >= 0
    BY <1>1, ScaledCashIsSum DEF ExecutionInv, StillCovered, NeedsNoMargin, AccountType
<1>4. ScaledCashAfter(todo, cash, bars)' = cash' * Scale + SumOver(G, rest)
  <2>1. todo' = rest /\ bars' = bars
      BY DEF SubmitFilled
  <2>2. ScaledCashAfter(rest, cash', bars) = cash' * Scale + SumOver(G, rest)
      BY ScaledCashIsSum
  <2> HIDE DEF G
  <2> QED
      BY <2>1, <2>2
<1>5. \A p \in rest : G[p] = F[p]
    OBVIOUS
<1>6. value \in Nat /\ Scale \in Nat /\ SlippageBuffer \in Nat
    BY <1>1, CurrentOrders, ConfigAssumption
<1>7. /\ o.side \in Sides
      /\ F[o] = IF o.side = "sell" THEN value * Scale ELSE -(value * (Scale + SlippageBuffer))
    BY <1>1, CurrentOrders DEF CashEffect
<1>8. cash' = IF o.side = "buy" THEN cash - value ELSE cash + value
  <2>1. cash' = cash - Bought(o) * bars[o.ticker].price /\ o.qty \in Nat /\ bars[o.ticker].price \in Nat
      BY <1>1, FillStep, CurrentOrders
  <2> QED
      BY <1>3, <2>1 DEF Bought
<1> HIDE DEF F, G, value, rest
<1>9. IsFiniteSet(rest) /\ rest = todo \ {o}
    BY <1>1, FS_Subset DEF rest
<1>10. SumOver(G, rest) = SumOver(F, rest) /\ SumOver(F, rest) \in Int
    BY <1>2, <1>5, <1>9, SumSame, SumType
<1>11. SumOver(F, todo) = F[o] + SumOver(F, rest)
    BY <1>1, <1>2, <1>9, SumRemove
<1>12. cash' * Scale >= cash * Scale + F[o]
  <2>1. CASE o.side = "sell"
      BY <1>3, <1>6, <1>7, <1>8, <2>1
  <2>2. CASE o.side = "buy"
    <3>1. F[o] = -(value * Scale + value * SlippageBuffer)
        BY <1>6, <1>7, <2>2
    <3>2. cash' * Scale = cash * Scale - value * Scale
        BY <1>3, <1>6, <1>8, <2>2
    <3>3. value * Scale \in Nat /\ value * SlippageBuffer \in Nat /\ cash * Scale \in Int
        BY <1>3, <1>6
    <3> QED
        BY <3>1, <3>2, <3>3
  <2> QED
      BY <1>7, <2>1, <2>2 DEF Sides
<1>13. cash' * Scale + SumOver(G, rest) >= 0
  <2>1. cash' * Scale \in Int /\ cash * Scale \in Int /\ F[o] \in Int
      BY <1>2, <1>3, <1>6, <1>8
  <2> QED
      BY <1>3, <1>10, <1>11, <1>12, <2>1
<1> QED
    BY <1>4, <1>13 DEF NeedsNoMargin

-----------------------------------------------------------------------------
(***************************************************************************)
(* The invariant is inductive.                                             *)
(***************************************************************************)
\* The cycle starts with an account and nothing sent.
LEMMA ExecutionInit == Init => ExecutionInv
<1> SUFFICES ASSUME Init PROVE ExecutionInv
    OBVIOUS
<1>1. positions \in [Tickers -> Nat]
    BY DEF Init
<1>2. bars \in [Tickers -> [price : Nat \ {0}, asOf : {Today}]]
    BY ExecutionAssumption DEF Init
<1> QED
    BY <1>1, <1>2, ExecutionAssumption
    DEF Init, ExecutionInv, AccountType, FreshIds, PlanIsCurrent, StillCovered, NoRejection

\* Every step of the cycle keeps the invariant.
LEMMA ExecutionStep == ExecutionInv /\ [Next]_vars => ExecutionInv'
<1> SUFFICES ASSUME ExecutionInv, [Next]_vars PROVE ExecutionInv'
    OBVIOUS
<1> USE DEF ExecutionInv
<1>1. ASSUME UNCHANGED <<forecasts, bars, positions, cash>> PROVE CurrentPlan' = CurrentPlan
    BY <1>1 DEF CurrentPlan, Selected, Equity, BarPrices
<1>2. CASE Refuse
    BY <1>2 DEF Refuse, AccountType, FreshIds, PlanIsCurrent, StillCovered, NoRejection
<1>3. CASE Plan
  <2> DEFINE checked == CheckPlan(CurrentPlan, Account, positions, bars, Equity, 0, Today, FALSE)
  <2>1. UNCHANGED <<forecasts, bars, positions, cash, ids>> /\ phase = "plan" /\ ids = {}
      BY <1>3 DEF Plan, FreshIds
  <2>2. \/ checked /\ todo' = CurrentPlan /\ phase' = "submit"
        \/ ~checked /\ todo' = {} /\ phase' = "halted"
      BY <1>3 DEF Plan, CurrentPlan
  <2>3. checked => SellsCovered(CurrentPlan, positions) /\ NeedsNoMargin(CurrentPlan, cash, bars)
      BY DEF CheckPlan, Account
  <2> HIDE DEF checked
  <2>4. AccountType'
      BY <2>1, <2>2 DEF AccountType
  <2>5. FreshIds' /\ NoRejection'
      BY <2>1, <2>2 DEF FreshIds, NoRejection
  <2>6. PlanIsCurrent'
      BY <1>1, <2>1, <2>2 DEF PlanIsCurrent
  <2>7. StillCovered'
    <3>1. CASE phase' = "submit"
      <4>1. todo' = CurrentPlan /\ positions' = positions /\ cash' = cash /\ bars' = bars
          BY <2>1, <2>2, <3>1
      <4> QED
          BY <2>2, <2>3, <3>1, <4>1 DEF StillCovered
    <3> QED
        BY <3>1 DEF StillCovered
  <2> QED
      BY <2>4, <2>5, <2>6, <2>7
<1>4. ASSUME NEW o \in todo, SubmitFilled(o) PROVE ExecutionInv'
  <2>1. /\ phase = "submit" /\ phase' = "submit" /\ todo' = todo \ {o}
        /\ ids' = ids \cup {ClientOrderId(o)} /\ todo = CurrentPlan
      BY <1>4 DEF SubmitFilled, PlanIsCurrent
  <2>2. AccountType'
      BY <1>4, FillStep
  <2>3. FreshIds'
      BY <2>1, CurrentPlanShape DEF FreshIds, ClientOrderId
  <2>4. PlanIsCurrent'
      BY <1>4, <2>1, FillPlan DEF PlanIsCurrent
  <2>5. StillCovered'
    <3>1. \A p \in todo' : positions'[p.ticker] = positions[p.ticker]
      <4>1. positions' = [positions EXCEPT ![o.ticker] = @ + Bought(o)]
          BY <1>4, FillStep
      <4>2. ASSUME NEW p \in todo' PROVE p.ticker \in Tickers /\ p.ticker # o.ticker
          BY <2>1, CurrentPlanShape, CurrentOrders
      <4> QED
          BY <4>1, <4>2 DEF AccountType
    <3>2. SellsCovered(todo, positions)'
        BY <2>1, <3>1 DEF StillCovered, SellsCovered
    <3> QED
        BY <1>4, <3>2, FillNeedsNoMargin DEF StillCovered
  <2> QED
      BY <2>1, <2>2, <2>3, <2>4, <2>5 DEF NoRejection
<1>5. ASSUME NEW o \in todo, SubmitRejected(o) PROVE FALSE
    BY <1>5, NextIsAccepted DEF SubmitRejected
<1>6. CASE Finish
  <2>1. CurrentPlan' = CurrentPlan
      BY <1>1, <1>6 DEF Finish
  <2> QED
      BY <1>6, <2>1 DEF Finish, AccountType, FreshIds, PlanIsCurrent, StillCovered, NoRejection
<1>7. CASE UNCHANGED vars
  <2>1. CurrentPlan' = CurrentPlan
      BY <1>1, <1>7 DEF vars
  <2>2. StillCovered'
      BY <1>7 DEF vars, StillCovered
  <2> QED
      BY <1>7, <2>1, <2>2 DEF vars, AccountType, FreshIds, PlanIsCurrent, NoRejection
<1> QED
    BY <1>2, <1>3, <1>4, <1>5, <1>6, <1>7 DEF Next

\* The invariant holds throughout.
LEMMA ExecutionInvariant == Spec => []ExecutionInv
BY ExecutionInit, ExecutionStep, PTL DEF Spec

-----------------------------------------------------------------------------
(***************************************************************************)
(* The theorems.                                                           *)
(***************************************************************************)
\* A plan that passed check_plan is never stopped halfway by FakeBroker for
\* lack of shares or cash, whatever the prices, holdings and configuration.
THEOREM PlansGoThrough == Spec => []NoRejection
<1>1. ExecutionInv => NoRejection
    BY DEF ExecutionInv
<1> QED
    BY <1>1, ExecutionInvariant, PTL

\* A finished rebalance is a fixed point of plan_orders.
THEOREM PlanningAgainIsEmpty == Spec => []ReplanIsEmpty
<1>1. ExecutionInv => ReplanIsEmpty
    BY DEF ExecutionInv, PlanIsCurrent, CurrentPlan, ReplanIsEmpty
<1> QED
    BY <1>1, ExecutionInvariant, PTL

\* A finished rebalance has every selected name at its target or inside the
\* band, and every other name sold out.
THEOREM EveryNameOnTarget == Spec => []LandsOnTarget
<1>1. ExecutionInv => LandsOnTarget
  <2> SUFFICES ASSUME ExecutionInv, phase = "done", NEW t \in Universe
               PROVE  LET selected == Selected(forecasts)
                          target   == TargetQty(selected, t, Equity, bars[t].price)
                      IN  \/ positions[t] = target
                          \/ InsideBand(selected, t, target - positions[t], Equity, bars[t].price)
      BY DEF LandsOnTarget
  <2> DEFINE selected == Selected(forecasts)
             target == TargetQty(selected, t, Equity, bars[t].price)
  <2>1. AccountType /\ CurrentPlan = {}
      BY DEF ExecutionInv, PlanIsCurrent
  <2>2. t \in Tickers /\ BarPrices[t] = bars[t].price /\ positions[t] \in Nat
      BY <2>1, PlanArguments, TickersAssumption DEF AccountType
  <2>3. t \notin Traded(selected, positions, Equity, BarPrices)
      BY <2>1, PlanIsOrders DEF CurrentPlan
  <2>4. \/ t \notin selected /\ ~(positions[t] > 0)
        \/ InsideBand(selected, t, target - positions[t], Equity, bars[t].price)
        \/ target - positions[t] = 0
      BY <2>2, <2>3 DEF Traded, Shortfall
  <2>5. target \in Int
      BY <2>1, <2>2, PlanArguments, TargetQtyType DEF TargetQty
  <2>6. t \notin selected => target = 0
      BY DEF TargetQty
  <2> HIDE DEF target, selected
  <2> QED
      BY <2>2, <2>4, <2>5, <2>6 DEF target, selected
<1> QED
    BY <1>1, ExecutionInvariant, PTL

\* Sized from an all-cash account, a plan fits the cash, slippage included, for
\* any number of selected names and any prices.
THEOREM CashAccountsFit == Spec => []FromCashNeedsNoMargin
<1>1. ExecutionInv => FromCashNeedsNoMargin
  <2> SUFFICES ASSUME ExecutionInv, Equity > 0, \A t \in Tickers : positions[t] = 0
               PROVE  NeedsNoMargin(CurrentPlan, cash, bars)
      BY DEF FromCashNeedsNoMargin, CurrentPlan
  <2>1. AccountType /\ cash \in Int
      BY DEF ExecutionInv, AccountType
  <2>2. \A t \in Tickers : bars[t].price \in Nat
      BY <2>1, PlanArguments
  <2>3. Equity = cash
      BY <2>1, <2>2, EmptyAccount DEF Equity
  <2>4. cash \in Nat
      BY <2>1, <2>3
  <2>5. \A t \in Tickers : bars[t].price = BarPrices[t]
      BY <2>1, PlanArguments
  <2>6. NeedsNoMargin(PlanOrders(Selected(forecasts), positions, cash, BarPrices, Today),
                      cash, bars)
      BY <2>1, <2>4, <2>5, PlanArguments, FromCashPlan
  <2> QED
      BY <2>3, <2>6 DEF CurrentPlan
<1> QED
    BY <1>1, ExecutionInvariant, PTL
=============================================================================
