------------------------ MODULE TradingCycle_proofs ------------------------
(***************************************************************************)
(* Theorems about TradingCycle, for every account, calendar, number of     *)
(* runs and configuration that the assumptions of the model admit.         *)
(***************************************************************************)
EXTENDS TradingCycle, TradePlan_proofs, SequenceTheorems

-----------------------------------------------------------------------------
(***************************************************************************)
(* The plan is made of well-formed orders, one per ticker.                 *)
(***************************************************************************)
\* plan_orders returns well-formed orders for one market date: whole positive
\* quantities, one order per ticker.
LEMMA PlanOrdersType ==
    ASSUME NEW selected \in SUBSET Universe, NEW shares \in [Tickers -> Int],
           NEW equity \in Int, NEW prices \in [Tickers -> Nat \ {0}], NEW d \in Days
    PROVE  /\ PlanOrders(selected, shares, equity, prices, d) \subseteq PlannedOrders
           /\ \A o, p \in PlanOrders(selected, shares, equity, prices, d) :
                  o.ticker = p.ticker => o = p
<1> DEFINE orders == PlanOrders(selected, shares, equity, prices, d)
<1>1. ASSUME NEW o \in orders PROVE o \in PlannedOrders
  <2>1. /\ o = OrderFor(selected, shares, equity, prices, d, o.ticker)
        /\ o.ticker \in Tickers /\ o.qty \in Nat \ {0} /\ o.side \in Sides /\ o.day = d
      BY OrdersType
  <2>2. o = [day |-> o.day, ticker |-> o.ticker, side |-> o.side, qty |-> o.qty]
      BY <2>1 DEF OrderFor
  <2> QED
      BY <2>1, <2>2 DEF PlannedOrders
<1> QED
    BY <1>1, OneOrderPerName

-----------------------------------------------------------------------------
(***************************************************************************)
(* Type correctness.                                                       *)
(***************************************************************************)
\* Every ledger line a run can write is a record.
LEMMA LinesAreRecords ==
    ASSUME TypeOK, NEW r \in Runs
    PROVE  /\ pc[r] \in RunKinds => RunLine(r) \in Records
           /\ pc[r] \in OrderKinds => \A o \in todo[r] : OrderLine(r, o) \in Records
           /\ pc[r] \in AppendPcs => NextLines(r) \subseteq Records
<1>1. pc[r] \in RunKinds => RunLine(r) \in Records
    BY DEF TypeOK, RunLine, Records
<1>2. \A o \in todo[r] : ClientOrderId(o) \in OrderIds
    BY SMTT(30) DEF TypeOK, PlannedOrders, ClientOrderId, OrderIds
<1>3. pc[r] \in OrderKinds => \A o \in todo[r] : OrderLine(r, o) \in Records
    BY <1>2 DEF OrderLine, Records
<1> QED
    BY <1>1, <1>3 DEF NextLines, AppendPcs

\* The id of a planned order.
LEMMA OrderIdType == \A o \in PlannedOrders : ClientOrderId(o) \in OrderIds
BY DEF PlannedOrders, ClientOrderId, OrderIds

\* A process that exits leaves its variables well typed.
LEMMA ExitType ==
    ASSUME TypeOK, NEW r \in Runs, Exit(r)
    PROVE  /\ pc' \in [Runs -> Pcs]
           /\ dry' \in [Runs -> BOOLEAN]
           /\ asOf' \in [Runs -> Days]
           /\ forecasts' \in [Runs -> ForecastFiles \cup {<<>>}]
           /\ account' \in [Runs -> [equity : Int, cash : Int, lastEquity : Int]]
           /\ held' \in [Runs -> [Tickers -> Int]]
           /\ quotes' \in [Runs -> [Tickers -> [price : Nat \ {0}, asOf : Nat]]]
           /\ todo' \in [Runs -> SUBSET PlannedOrders]
<1>1. 1 \in Days
    BY CycleAssumption DEF Days
<1> QED
    BY <1>1, CycleAssumption DEF TypeOK, Exit, Goto, Pcs, NoAccount, NoShares, NoQuotes

\* A run's plan is planned orders, one per ticker.
LEMMA PlanOfType ==
    ASSUME TypeOK, NEW r \in Runs
    PROVE  /\ PlanOf(r) \subseteq PlannedOrders
           /\ \A o, p \in PlanOf(r) : o.ticker = p.ticker => o = p
<1>1. Selected(forecasts[r]) \in SUBSET Universe
    <2>1. forecasts[r] \in ForecastFiles \/ forecasts[r] = <<>>
        BY DEF TypeOK
    <2>2. DOMAIN forecasts[r] \subseteq Universe
        BY <2>1, CycleAssumption
    <2> QED
        BY <2>2 DEF Selected
<1>2. /\ held[r] \in [Tickers -> Int]
      /\ account[r].equity \in Int
      /\ [t \in Tickers |-> quotes[r][t].price] \in [Tickers -> Nat \ {0}]
      /\ asOf[r] \in Days
    BY DEF TypeOK
<1> QED
    BY <1>1, <1>2, PlanOrdersType DEF PlanOf

\* The first state is well typed.
LEMMA InitTypeOK == Init => TypeOK
<1> SUFFICES ASSUME Init PROVE TypeOK
    OBVIOUS
<1>1. lastEquity \in Int
    BY CycleAssumption DEF Init, Readings
<1>2. 1 \in Days
    BY CycleAssumption DEF Days
<1>3. /\ marks \in [Tickers -> Nat \ {0}]
      /\ bars \in [Tickers -> [price : Nat \ {0}, asOf : Nat]]
      /\ cash \in Int
      /\ positions \in [Tickers -> Int]
    BY CycleAssumption DEF Init
<1>4. /\ pending \subseteq PlannedOrders
      /\ known \subseteq OrderIds
      /\ ledger \in Seq(Records)
      /\ torn \in Seq(Records)
      /\ Len(torn) <= 1
      /\ crashes \in Nat
    BY DEF Init
<1>5. /\ account \in [Runs -> [equity : Int, cash : Int, lastEquity : Int]]
      /\ held \in [Runs -> [Tickers -> Int]]
      /\ quotes \in [Runs -> [Tickers -> [price : Nat \ {0}, asOf : Nat]]]
    BY CycleAssumption DEF Init, NoAccount, NoShares, NoQuotes
<1>6. /\ pc \in [Runs -> Pcs]
      /\ dry \in [Runs -> BOOLEAN]
      /\ asOf \in [Runs -> Days]
      /\ forecasts \in [Runs -> ForecastFiles \cup {<<>>}]
      /\ todo \in [Runs -> SUBSET PlannedOrders]
    BY <1>2 DEF Init, Pcs
<1>7. day \in Days /\ hours \in {"pre", "open", "close", "final"} /\ kill \in BOOLEAN
    BY <1>2 DEF Init
<1> QED
    BY <1>1, <1>3, <1>4, <1>5, <1>6, <1>7 DEF TypeOK

\* An append leaves a well-typed ledger.
LEMMA AppendLineType ==
    ASSUME TypeOK, NEW line \in Records, AppendLine(line)
    PROVE  ledger' \in Seq(Records)
BY DEF TypeOK, AppendLine

\* One step per action.
LEMMA NextTypeOK == TypeOK /\ [Next]_vars => TypeOK'
<1> SUFFICES ASSUME TypeOK, [Next]_vars PROVE TypeOK'
    OBVIOUS
<1> USE DEF market, broker, files, views
<1>1. ASSUME NEW r \in Runs, Start(r) PROVE TypeOK'
    BY <1>1 DEF Start, TypeOK, Goto, Pcs, ReadPcs
<1>2. ASSUME NEW r \in Runs, CheckDate(r) PROVE TypeOK'
    <2>1. CASE asOf[r] = day
        BY <1>2, <2>1 DEF CheckDate, TypeOK, Goto, Pcs, ReadPcs
    <2>2. CASE asOf[r] # day
        BY <1>2, <2>2, ExitType DEF CheckDate, TypeOK
    <2> QED
        BY <2>1, <2>2
<1>3. ASSUME NEW r \in Runs, GetOpenOrders(r) PROVE TypeOK'
    <2>1. CASE pending = {}
        BY <1>3, <2>1 DEF GetOpenOrders, TypeOK, Goto, Pcs, ReadPcs
    <2>2. CASE pending # {}
        BY <1>3, <2>2, ExitType DEF GetOpenOrders, TypeOK
    <2> QED
        BY <2>1, <2>2
<1>4. ASSUME NEW r \in Runs, GetAccount(r) PROVE TypeOK'
    BY <1>4, CycleAssumption DEF GetAccount, TypeOK, Goto, Pcs, ReadPcs, Readings
<1>5. ASSUME NEW r \in Runs, GetPositions(r) PROVE TypeOK'
    BY <1>5 DEF GetPositions, TypeOK, Goto, Pcs, ReadPcs
<1>6. ASSUME NEW r \in Runs, GetBars(r) PROVE TypeOK'
    <2> DEFINE Served == /\ ValidForecasts(forecasts[r])
                         /\ BarsServed(Selected(forecasts[r]) \cup
                                       {t \in Tickers : held[r][t] # 0})
    <2> HIDE DEF Served
    <2>1. CASE Served
        BY <1>6, <2>1 DEF GetBars, Served, TypeOK, Goto, Pcs, AppendPcs, RunKinds
    <2>2. CASE ~Served
        BY <1>6, <2>2, ExitType DEF GetBars, Served, TypeOK
    <2> QED
        BY <2>1, <2>2
<1>7. ASSUME NEW r \in Runs, RefusePlan(r) PROVE TypeOK'
    BY <1>7, ExitType DEF RefusePlan, TypeOK
<1>8. ASSUME NEW r \in Runs, BreachLimit(r) PROVE TypeOK'
    BY <1>8 DEF BreachLimit, TypeOK, Goto, Pcs, AppendPcs, RunKinds
<1>9. ASSUME NEW r \in Runs, AcceptPlan(r) PROVE TypeOK'
    <2>1. PlanOf(r) \in SUBSET PlannedOrders
        BY PlanOfType
    <2> QED
        BY <1>9, <2>1 DEF AcceptPlan, TypeOK, Goto, Pcs, AppendPcs, RunKinds
<1>10. ASSUME NEW r \in Runs, AppendForecasts(r) PROVE TypeOK'
    <2>1. ledger' \in Seq(Records)
        BY <1>10, LinesAreRecords, AppendLineType DEF AppendForecasts, RunKinds
    <2> QED
        BY <1>10, <2>1 DEF AppendForecasts, TypeOK, Goto, Pcs, ReadPcs
<1>11. ASSUME NEW r \in Runs, AppendBreach(r) PROVE TypeOK'
    <2>1. ledger' \in Seq(Records)
        BY <1>11, LinesAreRecords, AppendLineType DEF AppendBreach, RunKinds
    <2> QED
        BY <1>11, <2>1, ExitType DEF AppendBreach, TypeOK
<1>12. ASSUME NEW r \in Runs, AppendEquity(r) PROVE TypeOK'
    <2>1. ledger' \in Seq(Records)
        BY <1>12, LinesAreRecords, AppendLineType DEF AppendEquity, RunKinds
    <2> QED
        BY <1>12, <2>1 DEF AppendEquity, TypeOK, Goto, Pcs, AppendPcs, RunKinds
<1>13. ASSUME NEW r \in Runs, AppendPlan(r) PROVE TypeOK'
    <2>1. ledger' \in Seq(Records)
        BY <1>13, LinesAreRecords, AppendLineType DEF AppendPlan, RunKinds
    <2>2. CASE dry[r] \/ todo[r] = {}
        BY <1>13, <2>1, <2>2, ExitType DEF AppendPlan, TypeOK
    <2>3. CASE ~(dry[r] \/ todo[r] = {})
        BY <1>13, <2>1, <2>3 DEF AppendPlan, TypeOK, Goto, Pcs, AppendPcs, OrderKinds
    <2> QED
        BY <2>2, <2>3
<1>14. ASSUME NEW r \in Runs, NEW o \in todo[r], AppendIntent(r, o) PROVE TypeOK'
    <2>1. ledger' \in Seq(Records)
        BY <1>14, LinesAreRecords, AppendLineType DEF AppendIntent, OrderKinds
    <2> QED
        BY <1>14, <2>1 DEF AppendIntent, TypeOK, Goto, Pcs
<1>15. ASSUME NEW r \in Runs, NEW o \in todo[r], SubmitReceived(r, o) PROVE TypeOK'
    <2>1. o \in PlannedOrders /\ ClientOrderId(o) \in OrderIds
        BY OrderIdType DEF TypeOK
    <2>2. pending' \subseteq PlannedOrders /\ known' \subseteq OrderIds
        BY <1>15, <2>1 DEF SubmitReceived, TypeOK
    <2>3. pc' \in [Runs -> Pcs]
        BY <1>15 DEF SubmitReceived, TypeOK, Goto, Pcs, AppendPcs, OrderKinds
    <2> QED
        BY <1>15, <2>2, <2>3 DEF SubmitReceived, TypeOK
<1>16. ASSUME NEW r \in Runs, NEW o \in todo[r], SubmitDead(r, o) PROVE TypeOK'
    <2>1. ClientOrderId(o) \in OrderIds
        BY OrderIdType DEF TypeOK
    <2>2. known' \subseteq OrderIds
        BY <1>16, <2>1 DEF SubmitDead, TypeOK
    <2>3. pc' \in [Runs -> Pcs]
        BY <1>16 DEF SubmitDead, TypeOK, Goto, Pcs, AppendPcs, OrderKinds
    <2> QED
        BY <1>16, <2>2, <2>3 DEF SubmitDead, TypeOK
<1>17. ASSUME NEW r \in Runs, NEW o \in todo[r], AppendAccepted(r, o) PROVE TypeOK'
    <2>1. ledger' \in Seq(Records)
        BY <1>17, LinesAreRecords, AppendLineType DEF AppendAccepted, OrderKinds
    <2>2. CASE todo[r] = {o}
        BY <1>17, <2>1, <2>2, ExitType DEF AppendAccepted, TypeOK
    <2>3. CASE todo[r] # {o}
        <3>1. todo' \in [Runs -> SUBSET PlannedOrders]
            <4>1. todo' = [todo EXCEPT ![r] = @ \ {o}]
                BY <1>17, <2>3 DEF AppendAccepted
            <4>2. todo \in [Runs -> SUBSET PlannedOrders]
                BY DEF TypeOK
            <4> QED
                BY <4>1, <4>2
        <3>2. pc' \in [Runs -> Pcs]
            <4>1. pc' = [pc EXCEPT ![r] = "order_intent"]
                BY <1>17, <2>3 DEF AppendAccepted, Goto
            <4>2. pc \in [Runs -> Pcs]
                BY DEF TypeOK
            <4>3. "order_intent" \in Pcs
                BY DEF Pcs, AppendPcs, OrderKinds
            <4> QED
                BY <4>1, <4>2, <4>3
        <3> QED
            BY <1>17, <2>1, <2>3, <3>1, <3>2 DEF AppendAccepted, TypeOK
    <2> QED
        BY <2>2, <2>3
<1>18. ASSUME NEW r \in Runs, NEW o \in todo[r], AppendFailed(r, o) PROVE TypeOK'
    <2>1. ledger' \in Seq(Records)
        BY <1>18, LinesAreRecords, AppendLineType DEF AppendFailed, OrderKinds
    <2> QED
        BY <1>18, <2>1, ExitType DEF AppendFailed, TypeOK
<1>19. ASSUME NEW r \in Runs, SubmitRefused(r) PROVE TypeOK'
    BY <1>19 DEF SubmitRefused, TypeOK, Goto, Pcs, AppendPcs, OrderKinds
<1>20. ASSUME NEW r \in Runs, LedgerRefuses(r) \/ ReadRaises(r) PROVE TypeOK'
    BY <1>20, ExitType DEF ReadRaises, LedgerRefuses, TypeOK
<1>21. ASSUME NEW r \in Runs, Crash(r) PROVE TypeOK'
    <2>1. crashes' \in Nat
        BY <1>21 DEF Crash, TypeOK
    <2> QED
        BY <1>21, <2>1, ExitType DEF Crash, TypeOK
<1>22. ASSUME NEW r \in Runs, CrashTearingLine(r) PROVE TypeOK'
    <2>1. PICK line \in NextLines(r) : torn' = <<line>>
        BY <1>22 DEF CrashTearingLine
    <2>2. line \in Records
        BY <1>22, <2>1, LinesAreRecords DEF CrashTearingLine
    <2>3. torn' \in Seq(Records) /\ Len(torn') <= 1
        BY <2>1, <2>2
    <2>4. crashes' \in Nat
        BY <1>22 DEF CrashTearingLine, TypeOK
    <2> QED
        BY <1>22, <2>3, <2>4, ExitType DEF CrashTearingLine, TypeOK
<1>23. CASE RepairLedger
    <2>1. torn[1] \in Records
        BY <1>23 DEF RepairLedger, TypeOK
    <2>2. ledger' \in Seq(Records)
        <3>1. ledger \in Seq(Records)
            BY DEF TypeOK
        <3>2. Append(ledger, torn[1]) \in Seq(Records)
            BY <2>1, <3>1
        <3> QED
            BY <1>23, <3>1, <3>2 DEF RepairLedger
    <2>3. torn' = <<>> /\ torn' \in Seq(Records) /\ Len(torn') <= 1
        BY <1>23 DEF RepairLedger
    <2> QED
        BY <1>23, <2>2, <2>3 DEF RepairLedger, TypeOK
<1>24. CASE ToggleKill
    BY <1>24 DEF ToggleKill, TypeOK
<1>25. CASE MarketOpen
    BY <1>25, CycleAssumption DEF MarketOpen, TypeOK
<1>26. CASE MarketClose
    BY <1>26 DEF MarketClose, TypeOK, Days
<1>27. CASE BarsFinal
    BY <1>27 DEF BarsFinal, TypeOK
<1>28. CASE NextDay
    BY <1>28, CycleAssumption DEF NextDay, TypeOK, Days, Readings
<1>29. ASSUME NEW o \in pending, NEW qty \in 1..o.qty, Fill(o, qty) PROVE TypeOK'
    <2> DEFINE bought == IF o.side = "buy" THEN qty ELSE -qty
    <2>1. o \in PlannedOrders /\ o.qty \in Nat \ {0} /\ qty \in Nat \ {0} /\ o.ticker \in Tickers
        BY DEF TypeOK, PlannedOrders
    <2>2. bought \in Int
        BY <2>1
    <2> HIDE DEF bought
    <2>3. cash' \in Int /\ positions' \in [Tickers -> Int]
        <3>1. /\ positions' = [positions EXCEPT ![o.ticker] = @ + bought]
              /\ cash' = cash - bought * marks[o.ticker]
            BY <1>29 DEF Fill, bought
        <3>2. marks[o.ticker] \in Int /\ positions[o.ticker] \in Int /\ cash \in Int
            BY <2>1 DEF TypeOK
        <3>3. bought * marks[o.ticker] \in Int
            BY <2>2, <3>2
        <3>4. cash - bought * marks[o.ticker] \in Int
            BY <3>2, <3>3
        <3>5. positions' \in [Tickers -> Int]
            <4>1. positions \in [Tickers -> Int] /\ o.ticker \in Tickers
                BY <2>1 DEF TypeOK
            <4>2. positions[o.ticker] + bought \in Int
                BY <2>2, <3>2
            <4> QED
                BY <3>1, <4>1, <4>2
        <3> QED
            BY <3>1, <3>4, <3>5
    <2>4. qty # o.qty => [o EXCEPT !.qty = @ - qty] \in PlannedOrders
        BY <2>1 DEF PlannedOrders
    <2>5. pending' \subseteq PlannedOrders
        BY <1>29, <2>4 DEF Fill, TypeOK
    <2> QED
        BY <1>29, <2>3, <2>5 DEF Fill, TypeOK
<1>30. CASE UNCHANGED vars
    BY <1>30 DEF vars, TypeOK
<1> QED
    BY <1>1, <1>2, <1>3, <1>4, <1>5, <1>6, <1>7, <1>8, <1>9, <1>10, <1>11, <1>12, <1>13, <1>14,
       <1>15, <1>16, <1>17, <1>18, <1>19, <1>20, <1>21, <1>22, <1>23, <1>24, <1>25, <1>26,
       <1>27, <1>28, <1>29, <1>30
    DEF Next, RunStep, Surroundings

\* The state stays well typed.
THEOREM TypeCorrect == Spec => []TypeOK
BY InitTypeOK, NextTypeOK, PTL DEF Spec

-----------------------------------------------------------------------------
(***************************************************************************)
(* Why the ledger is written ahead.                                        *)
(***************************************************************************)
\* The order about to be sent is in the ledger.
SubmitIsWritten ==
    \A r \in Runs : pc[r] = "submit" =>
        \A o \in todo[r] : IsCurrent(r, o) => ClientOrderId(o) \in AttemptedIds

WriteAheadInv == TypeOK /\ WriteAhead /\ SubmitIsWritten

\* Only an intent line adds an attempted id, and only its own.
LEMMA AppendIds ==
    ASSUME TypeOK, NEW line \in Records, ledger' = Append(ledger, line)
    PROVE  /\ line.kind = "order_intent" => AttemptedIds' = AttemptedIds \cup {line.id}
           /\ line.kind # "order_intent" => AttemptedIds' = AttemptedIds
<1> DEFINE n == Len(ledger)
<1>1. ledger \in Seq(Records) /\ n \in Nat
    BY DEF TypeOK
<1>2. /\ DOMAIN ledger = 1..n
      /\ DOMAIN ledger' = 1..(n + 1)
      /\ \A i \in 1..n : ledger'[i] = ledger[i]
      /\ ledger'[n + 1] = line
    BY <1>1
<1> QED
    BY <1>1, <1>2 DEF AttemptedIds, LinesOf

\* The ledger only grows: by the line a run was about to write, or by the torn
\* line completed by hand.
LEMMA LedgerGrows ==
    ASSUME TypeOK, [Next]_vars
    PROVE  \/ ledger' = ledger
           \/ \E r \in Runs : /\ pc[r] \in AppendPcs
                             /\ torn = <<>>
                             /\ \E line \in NextLines(r) : ledger' = Append(ledger, line)
           \/ torn # <<>> /\ torn' = <<>> /\ ledger' = Append(ledger, torn[1])
<1> USE DEF files
<1>1. ASSUME NEW r \in Runs, Start(r) \/ Crash(r) \/ CrashTearingLine(r)
      PROVE  ledger' = ledger
    BY <1>1 DEF Start, Crash, CrashTearingLine
<1>2. CASE Surroundings
    BY <1>2 DEF Surroundings, RepairLedger, ToggleKill, MarketOpen, MarketClose, BarsFinal,
                NextDay, Fill
<1>3. ASSUME NEW r \in Runs,
             \/ AppendForecasts(r) \/ AppendBreach(r) \/ AppendEquity(r) \/ AppendPlan(r)
      PROVE  /\ pc[r] \in AppendPcs
             /\ torn = <<>>
             /\ \E line \in NextLines(r) : ledger' = Append(ledger, line)
    BY <1>3 DEF AppendForecasts, AppendBreach, AppendEquity, AppendPlan, AppendLine, NextLines,
                RunKinds, AppendPcs
<1>4. ASSUME NEW r \in Runs, NEW o \in todo[r],
             \/ AppendIntent(r, o) \/ AppendAccepted(r, o) \/ AppendFailed(r, o)
      PROVE  /\ pc[r] \in AppendPcs
             /\ torn = <<>>
             /\ \E line \in NextLines(r) : ledger' = Append(ledger, line)
    BY <1>4 DEF AppendIntent, AppendAccepted, AppendFailed, AppendLine, NextLines,
                RunKinds, OrderKinds, AppendPcs
<1>5. ASSUME NEW r \in Runs, RunStep(r),
             ~(\/ AppendForecasts(r) \/ AppendBreach(r) \/ AppendEquity(r) \/ AppendPlan(r)),
             ~(\E o \in todo[r] :
                 \/ AppendIntent(r, o) \/ AppendAccepted(r, o) \/ AppendFailed(r, o))
      PROVE  ledger' = ledger
    BY <1>5 DEF RunStep, CheckDate, GetOpenOrders, GetAccount, GetPositions, GetBars, RefusePlan,
                BreachLimit, AcceptPlan, SubmitReceived, SubmitDead, SubmitRefused, ReadRaises,
                LedgerRefuses
<1>6. CASE UNCHANGED vars
    BY <1>6 DEF vars
<1> QED
    BY <1>1, <1>2, <1>3, <1>4, <1>5, <1>6 DEF Next

\* No attempted id is ever forgotten.
LEMMA IdsGrow ==
    ASSUME TypeOK, [Next]_vars
    PROVE  AttemptedIds \subseteq AttemptedIds'
<1>1. CASE ledger' = ledger
    BY <1>1 DEF AttemptedIds, LinesOf
<1>2. ASSUME NEW r \in Runs, pc[r] \in AppendPcs,
             NEW line \in NextLines(r), ledger' = Append(ledger, line)
      PROVE  AttemptedIds \subseteq AttemptedIds'
    BY <1>2, LinesAreRecords, AppendIds
<1>3. CASE torn # <<>> /\ ledger' = Append(ledger, torn[1])
    <2>1. torn[1] \in Records
        BY <1>3 DEF TypeOK
    <2> QED
        BY <1>3, <2>1, AppendIds
<1> QED
    BY <1>1, <1>2, <1>3, LedgerGrows

\* The broker learns of an order only from the run whose turn it is to submit it.
LEMMA KnownGrows ==
    ASSUME TypeOK, [Next]_vars
    PROVE  \/ known' = known
           \/ \E r \in Runs : \E o \in todo[r] :
                 /\ pc[r] = "submit"
                 /\ IsCurrent(r, o)
                 /\ known' = known \cup {ClientOrderId(o)}
<1> USE DEF broker
<1>1. ASSUME NEW r \in Runs, Start(r) \/ Crash(r) \/ CrashTearingLine(r)
      PROVE  known' = known
    BY <1>1 DEF Start, Crash, CrashTearingLine
<1>2. CASE Surroundings
    BY <1>2 DEF Surroundings, RepairLedger, ToggleKill, MarketOpen, MarketClose, BarsFinal,
                NextDay, Fill
<1>3. ASSUME NEW r \in Runs, NEW o \in todo[r], SubmitReceived(r, o) \/ SubmitDead(r, o)
      PROVE  /\ pc[r] = "submit"
             /\ IsCurrent(r, o)
             /\ known' = known \cup {ClientOrderId(o)}
    BY <1>3 DEF SubmitReceived, SubmitDead
<1>4. ASSUME NEW r \in Runs, RunStep(r),
             ~(\E o \in todo[r] : SubmitReceived(r, o) \/ SubmitDead(r, o))
      PROVE  known' = known
    BY <1>4 DEF RunStep, CheckDate, GetOpenOrders, GetAccount, GetPositions, GetBars, RefusePlan,
                BreachLimit, AcceptPlan, AppendForecasts, AppendBreach, AppendEquity, AppendPlan,
                AppendIntent, AppendAccepted, AppendFailed, SubmitRefused, ReadRaises, LedgerRefuses
<1>5. CASE UNCHANGED vars
    BY <1>5 DEF vars
<1> QED
    BY <1>1, <1>2, <1>3, <1>4, <1>5 DEF Next

\* The submission order is strict, so a loop iteration has one order.
LEMMA CurrentIsUnique ==
    ASSUME TypeOK, NEW r \in Runs, NEW o \in todo[r], NEW p \in todo[r],
           IsCurrent(r, o), IsCurrent(r, p)
    PROVE  o = p
<1> SUFFICES ASSUME o # p PROVE FALSE
    OBVIOUS
<1>1. SubmittedBefore(o, p) /\ SubmittedBefore(p, o)
    BY DEF IsCurrent
<1>2. o \in PlannedOrders /\ p \in PlannedOrders
    BY DEF TypeOK
<1>3. o.ticker \in Int /\ p.ticker \in Int
    BY <1>2, TickersAssumption DEF PlannedOrders
<1> QED
    BY <1>1, <1>3 DEF SubmittedBefore

\* A run's step is its own: no other run moves.
LEMMA OthersStay ==
    ASSUME TypeOK, NEW r \in Runs,
           Start(r) \/ RunStep(r) \/ Crash(r) \/ CrashTearingLine(r),
           NEW s \in Runs, s # r
    PROVE  pc'[s] = pc[s] /\ todo'[s] = todo[s]
<1> USE DEF TypeOK, Goto, Exit, views
<1>1. CASE Start(r) \/ Crash(r) \/ CrashTearingLine(r)
    BY <1>1 DEF Start, Crash, CrashTearingLine
<1>2. CASE CheckDate(r) \/ GetOpenOrders(r) \/ GetAccount(r) \/ GetPositions(r) \/ GetBars(r)
    BY <1>2 DEF CheckDate, GetOpenOrders, GetAccount, GetPositions, GetBars
<1>3. CASE RefusePlan(r) \/ BreachLimit(r) \/ AcceptPlan(r) \/ SubmitRefused(r)
           \/ LedgerRefuses(r) \/ ReadRaises(r)
    BY <1>3 DEF RefusePlan, BreachLimit, AcceptPlan, SubmitRefused, ReadRaises, LedgerRefuses
<1>4. CASE AppendForecasts(r) \/ AppendBreach(r) \/ AppendEquity(r) \/ AppendPlan(r)
    BY <1>4 DEF AppendForecasts, AppendBreach, AppendEquity, AppendPlan
<1>5. ASSUME NEW o \in todo[r],
             \/ AppendIntent(r, o) \/ SubmitReceived(r, o) \/ SubmitDead(r, o)
             \/ AppendAccepted(r, o) \/ AppendFailed(r, o)
      PROVE  pc'[s] = pc[s] /\ todo'[s] = todo[s]
    BY <1>5 DEF AppendIntent, SubmitReceived, SubmitDead, AppendAccepted, AppendFailed
<1> QED
    BY <1>1, <1>2, <1>3, <1>4, <1>5 DEF RunStep

\* What happens around the runs moves none of them.
LEMMA SurroundingsStay ==
    ASSUME Surroundings \/ UNCHANGED vars
    PROVE  pc' = pc /\ todo' = todo
BY DEF Surroundings, RepairLedger, ToggleKill, MarketOpen, MarketClose, BarsFinal, NextDay, Fill,
       vars

\* A run gets to the submission of an order by writing its intent.
LEMMA SubmitStep ==
    ASSUME TypeOK, [Next]_vars, NEW r \in Runs, pc'[r] = "submit"
    PROVE  /\ todo'[r] = todo[r]
           /\ \/ pc[r] = "submit"
              \/ \E o \in todo[r] : AppendIntent(r, o)
<1> USE DEF TypeOK, Goto, Exit, views
<1>1. CASE Surroundings \/ UNCHANGED vars
    BY <1>1, SurroundingsStay
<1>2. ASSUME NEW s \in Runs, s # r,
             Start(s) \/ RunStep(s) \/ Crash(s) \/ CrashTearingLine(s)
      PROVE  pc'[r] = pc[r] /\ todo'[r] = todo[r]
    BY <1>2, OthersStay
<1>3. ASSUME Start(r) \/ Crash(r) \/ CrashTearingLine(r) PROVE FALSE
    BY <1>3 DEF Start, Crash, CrashTearingLine
<1>4. ASSUME NEW o \in todo[r], AppendIntent(r, o)
      PROVE  todo'[r] = todo[r]
    BY <1>4 DEF AppendIntent
<1>5. ASSUME RunStep(r), ~(\E o \in todo[r] : AppendIntent(r, o))
      PROVE  FALSE
    <2>1. CASE CheckDate(r) \/ GetOpenOrders(r) \/ GetAccount(r) \/ GetPositions(r) \/ GetBars(r)
        BY <2>1 DEF CheckDate, GetOpenOrders, GetAccount, GetPositions, GetBars
    <2>2. CASE RefusePlan(r) \/ BreachLimit(r) \/ AcceptPlan(r) \/ SubmitRefused(r)
               \/ LedgerRefuses(r) \/ ReadRaises(r)
        BY <2>2 DEF RefusePlan, BreachLimit, AcceptPlan, SubmitRefused, ReadRaises, LedgerRefuses
    <2>3. CASE AppendForecasts(r) \/ AppendBreach(r) \/ AppendEquity(r) \/ AppendPlan(r)
        BY <2>3 DEF AppendForecasts, AppendBreach, AppendEquity, AppendPlan
    <2>4. ASSUME NEW o \in todo[r],
                 \/ SubmitReceived(r, o) \/ SubmitDead(r, o)
                 \/ AppendAccepted(r, o) \/ AppendFailed(r, o)
          PROVE  FALSE
        BY <2>4 DEF SubmitReceived, SubmitDead, AppendAccepted, AppendFailed
    <2> QED
        BY <1>5, <2>1, <2>2, <2>3, <2>4 DEF RunStep
<1> QED
    BY <1>1, <1>2, <1>3, <1>4, <1>5 DEF Next

\* No step lets the broker see an order that has no intent.
LEMMA WriteAheadStep == WriteAheadInv /\ [Next]_vars => WriteAheadInv'
<1> SUFFICES ASSUME WriteAheadInv, [Next]_vars PROVE WriteAheadInv'
    OBVIOUS
<1> USE DEF WriteAheadInv
<1>1. TypeOK'
    BY NextTypeOK
<1>2. WriteAhead'
    BY IdsGrow, KnownGrows DEF WriteAhead, SubmitIsWritten
<1>3. SubmitIsWritten'
    <2> SUFFICES ASSUME NEW r \in Runs, pc'[r] = "submit",
                        NEW o \in todo'[r], IsCurrent(r, o)'
                 PROVE  ClientOrderId(o) \in AttemptedIds'
        BY DEF SubmitIsWritten
    <2>1. todo'[r] = todo[r] /\ o \in todo[r] /\ IsCurrent(r, o)
        BY SubmitStep DEF IsCurrent
    <2>2. CASE pc[r] = "submit"
        BY <2>1, <2>2, IdsGrow DEF SubmitIsWritten
    <2>3. ASSUME NEW p \in todo[r], AppendIntent(r, p)
          PROVE  ClientOrderId(o) \in AttemptedIds'
        <3>1. p = o
            BY <2>1, <2>3, CurrentIsUnique DEF AppendIntent
        <3>2. /\ ledger' = Append(ledger, OrderLine(r, o))
              /\ OrderLine(r, o) \in Records
              /\ OrderLine(r, o).kind = "order_intent"
              /\ OrderLine(r, o).id = ClientOrderId(o)
            BY <2>3, <3>1, LinesAreRecords DEF AppendIntent, AppendLine, OrderLine, OrderKinds
        <3> QED
            BY <3>2, AppendIds
    <2> QED
        BY <2>2, <2>3, SubmitStep
<1> QED
    BY <1>1, <1>2, <1>3

\* An order the broker has seen is in the ledger, whatever crashes and however
\* many runs are at work at the same time.
THEOREM WrittenAhead == Spec => []WriteAhead
<1>1. Init => WriteAheadInv
    BY InitTypeOK DEF Init, WriteAheadInv, WriteAhead, SubmitIsWritten
<1>2. WriteAheadInv => WriteAhead
    BY DEF WriteAheadInv
<1> QED
    BY <1>1, <1>2, WriteAheadStep, PTL DEF Spec

-----------------------------------------------------------------------------
(***************************************************************************)
(* Why no order id is ever attempted twice when the operator keeps runs    *)
(* apart, for every account, calendar, number of runs, of crashes and of   *)
(* torn lines: OthersAreIdle is where the assumption Serial is used.  Then *)
(* that the cycle implements OrderLifecycle: each step of the cycle, of    *)
(* the broker, of a crash or of a repair maps to a step of the life of one *)
(* order id, or to none.                                                   *)
(***************************************************************************)

(***************************************************************************)
(* The inductive invariant.                                                *)
(***************************************************************************)
\* Where a run is once it has read its own forecasts line back.
LaterPcs == {"planning", "breach", "equity", "plan", "submit"} \cup OrderKinds

\* The operator keeps runs apart.
OneActive == \A r, s \in Runs : Active(r) /\ Active(s) => r = s

\* A run past its first append found an intact ledger, and nobody tore it since.
TornBlocks == torn # <<>> => \A r \in Runs : pc[r] \notin LaterPcs

\* Only a run past planning has orders, one per ticker.
TodoPlanned ==
    \A r \in Runs :
        /\ todo[r] # {} => pc[r] \in LaterPcs
        /\ \A o, p \in todo[r] : o.ticker = p.ticker => o = p

\* Orders of a plan are not in the ledger before their own intent.
TodoFresh ==
    \A r \in Runs : \A o \in todo[r] :
        ClientOrderId(o) \in AttemptedIds =>
            /\ pc[r] \in {"submit", "order_accepted", "order_failed"}
            /\ IsCurrent(r, o)

\* A torn intent is of an order not attempted before, so completing it by hand is safe.
TornFresh ==
    torn # <<>> =>
        (torn[1].kind = "order_intent" => torn[1].id \notin AttemptedIds)

AttemptedOnceInv ==
    /\ TypeOK
    /\ OneActive
    /\ TornBlocks
    /\ TodoPlanned
    /\ TodoFresh
    /\ TornFresh
    /\ AttemptedOnce

-----------------------------------------------------------------------------
(***************************************************************************)
(* What one step of one run does.                                          *)
(***************************************************************************)
StepOf(r) == Start(r) \/ RunStep(r) \/ Crash(r) \/ CrashTearingLine(r)

\* Only a start makes a run active.
LEMMA ActiveBefore ==
    ASSUME NEW r \in Runs, StepOf(r)
    PROVE  Active(r) \/ Start(r)
BY DEF StepOf, RunStep, Active, CheckDate, GetOpenOrders, GetAccount, GetPositions, GetBars,
       RefusePlan, BreachLimit, AcceptPlan, AppendForecasts, AppendBreach, AppendEquity,
       AppendPlan, AppendIntent, SubmitReceived, SubmitDead, SubmitRefused, AppendAccepted,
       AppendFailed, ReadRaises, LedgerRefuses, Crash, CrashTearingLine, AppendPcs, RunKinds,
       OrderKinds

\* A run gets past its first append on an intact ledger only, and keeps its
\* orders only where it keeps going.
LEMMA RunAdvance ==
    ASSUME TypeOK, NEW r \in Runs, StepOf(r)
    PROVE  /\ pc'[r] \in LaterPcs => torn = <<>> \/ pc[r] \in LaterPcs
           /\ CrashTearingLine(r) \/ torn' = torn
           /\ CrashTearingLine(r) => pc'[r] \notin LaterPcs
           /\ ~AcceptPlan(r) =>
                 /\ todo'[r] \subseteq todo[r]
                 /\ todo'[r] # {} => pc'[r] \in LaterPcs \/ pc[r] \notin LaterPcs
           /\ AcceptPlan(r) => todo'[r] = PlanOf(r) /\ pc'[r] = "equity"
<1>1. /\ pc \in [Runs -> Pcs]
      /\ todo \in [Runs -> SUBSET PlannedOrders]
    BY DEF TypeOK
<1> USE <1>1 DEF Goto, Exit, views, files, LaterPcs, OrderKinds
<1>2. CrashTearingLine(r) => pc'[r] \notin LaterPcs
    BY DEF CrashTearingLine
<1>3. CASE Start(r) \/ Crash(r) \/ CrashTearingLine(r)
    BY <1>3 DEF Start, Crash, CrashTearingLine, AcceptPlan, AppendPcs, RunKinds
<1>4. CASE CheckDate(r) \/ GetOpenOrders(r) \/ GetAccount(r) \/ GetPositions(r) \/ GetBars(r)
    BY <1>4 DEF CheckDate, GetOpenOrders, GetAccount, GetPositions, GetBars, AcceptPlan,
                CrashTearingLine
<1>5. CASE RefusePlan(r) \/ BreachLimit(r) \/ AcceptPlan(r)
    BY <1>5 DEF RefusePlan, BreachLimit, AcceptPlan, CrashTearingLine
<1>6. CASE SubmitRefused(r) \/ LedgerRefuses(r) \/ ReadRaises(r)
    BY <1>6 DEF SubmitRefused, ReadRaises, LedgerRefuses, AcceptPlan, CrashTearingLine
<1>7. CASE AppendForecasts(r) \/ AppendBreach(r) \/ AppendEquity(r) \/ AppendPlan(r)
    BY <1>7 DEF AppendForecasts, AppendBreach, AppendEquity, AppendPlan, AppendLine, AcceptPlan,
                CrashTearingLine
<1>8. ASSUME NEW o \in todo[r],
             \/ AppendIntent(r, o) \/ SubmitReceived(r, o) \/ SubmitDead(r, o)
             \/ AppendAccepted(r, o) \/ AppendFailed(r, o)
      PROVE  /\ torn' = torn
             /\ ~AcceptPlan(r)
             /\ pc[r] \in LaterPcs
             /\ todo'[r] \subseteq todo[r]
             /\ todo'[r] # {} => pc'[r] \in LaterPcs
    BY <1>8 DEF AppendIntent, SubmitReceived, SubmitDead, AppendAccepted, AppendFailed,
                AcceptPlan
<1> QED
    BY <1>2, <1>3, <1>4, <1>5, <1>6, <1>7, <1>8 DEF StepOf, RunStep

\* A run that steps is the only one, so every other run has no orders, before
\* the step and after it.  This is where the runs must be kept apart.
LEMMA OthersAreIdle ==
    ASSUME Serial, AttemptedOnceInv, NEW r \in Runs, StepOf(r), NEW s \in Runs, s # r
    PROVE  /\ ~Active(s)
           /\ pc'[s] = pc[s]
           /\ todo'[s] = todo[s]
           /\ todo[s] = {}
<1>1. ~Active(s)
    <2>1. CASE Start(r)
        BY <2>1 DEF Start
    <2>2. CASE Active(r)
        BY <2>2 DEF AttemptedOnceInv, OneActive
    <2> QED
        BY <2>1, <2>2, ActiveBefore
<1>2. pc'[s] = pc[s] /\ todo'[s] = todo[s]
    BY OthersStay DEF StepOf, AttemptedOnceInv
<1>3. todo[s] = {}
    BY <1>1 DEF AttemptedOnceInv, TodoPlanned, Active, LaterPcs, OrderKinds
<1> QED
    BY <1>1, <1>2, <1>3

\* A step is a run's, or leaves all runs where they are.
LEMMA StepKinds ==
    ASSUME [Next]_vars
    PROVE  \/ \E r \in Runs : StepOf(r)
           \/ Surroundings \/ UNCHANGED vars
BY DEF Next, StepOf

\* No step makes a second run active while one is.
LEMMA OneActiveStep ==
    ASSUME Serial, AttemptedOnceInv, [Next]_vars
    PROVE  OneActive'
<1>1. CASE Surroundings \/ UNCHANGED vars
    BY <1>1, SurroundingsStay DEF AttemptedOnceInv, OneActive, Active
<1>2. ASSUME NEW r \in Runs, StepOf(r) PROVE OneActive'
    <2>1. \A s \in Runs : s # r => ~Active(s)'
        BY <1>2, OthersAreIdle DEF Active
    <2> QED
        BY <2>1 DEF OneActive
<1> QED
    BY <1>1, <1>2, StepKinds

\* A torn last line keeps every run from getting past its first append.
LEMMA TornBlocksStep ==
    ASSUME Serial, AttemptedOnceInv, [Next]_vars
    PROVE  TornBlocks'
<1>1. CASE Surroundings \/ UNCHANGED vars
    <2>1. pc' = pc
        BY <1>1, SurroundingsStay
    <2>2. torn' = torn \/ torn' = <<>>
        BY <1>1 DEF Surroundings, RepairLedger, ToggleKill, MarketOpen, MarketClose, BarsFinal,
                    NextDay, Fill, files, vars
    <2> QED
        BY <2>1, <2>2 DEF AttemptedOnceInv, TornBlocks
<1>2. ASSUME NEW r \in Runs, StepOf(r) PROVE TornBlocks'
    <2>1. \A s \in Runs : s # r => pc'[s] \notin LaterPcs
        BY <1>2, OthersAreIdle DEF Active, LaterPcs, OrderKinds
    <2>2. torn' # <<>> => pc'[r] \notin LaterPcs
        BY <1>2, RunAdvance DEF AttemptedOnceInv, TornBlocks
    <2> QED
        BY <2>1, <2>2 DEF TornBlocks
<1> QED
    BY <1>1, <1>2, StepKinds

\* A run's orders stay those of its plan, one per ticker.
LEMMA TodoPlannedStep ==
    ASSUME Serial, AttemptedOnceInv, [Next]_vars
    PROVE  TodoPlanned'
<1>1. CASE Surroundings \/ UNCHANGED vars
    BY <1>1, SurroundingsStay DEF AttemptedOnceInv, TodoPlanned
<1>2. ASSUME NEW r \in Runs, StepOf(r) PROVE TodoPlanned'
    <2>1. \A s \in Runs : s # r => todo'[s] = {}
        BY <1>2, OthersAreIdle
    <2>2. CASE AcceptPlan(r)
        BY <1>2, <2>1, <2>2, RunAdvance, PlanOfType DEF AttemptedOnceInv, TodoPlanned, LaterPcs
    <2>3. CASE ~AcceptPlan(r)
        BY <1>2, <2>1, <2>3, RunAdvance DEF AttemptedOnceInv, TodoPlanned
    <2> QED
        BY <2>2, <2>3
<1> QED
    BY <1>1, <1>2, StepKinds

-----------------------------------------------------------------------------
(***************************************************************************)
(* Intents are written once.                                               *)
(***************************************************************************)
\* An intent about to be written is of an order that is not in the ledger.
LEMMA IntentLinesAreFresh ==
    ASSUME AttemptedOnceInv, NEW r \in Runs, pc[r] \in AppendPcs,
           NEW line \in NextLines(r), line.kind = "order_intent"
    PROVE  line.id \notin AttemptedIds
<1>1. pc[r] = "order_intent"
    BY DEF NextLines, RunLine, OrderLine, RunKinds
<1>2. PICK o \in todo[r] : line = OrderLine(r, o)
    BY <1>1 DEF NextLines, RunKinds
<1>3. line.id = ClientOrderId(o)
    BY <1>2 DEF OrderLine
<1> QED
    BY <1>1, <1>3 DEF AttemptedOnceInv, TodoFresh

\* Appending anything but a known intent keeps the intents apart.
LEMMA AppendOnce ==
    ASSUME TypeOK, AttemptedOnce, NEW line \in Records, ledger' = Append(ledger, line),
           line.kind = "order_intent" => line.id \notin AttemptedIds
    PROVE  AttemptedOnce'
<1> DEFINE n == Len(ledger)
<1>1. ledger \in Seq(Records) /\ n \in Nat
    BY DEF TypeOK
<1>2. /\ DOMAIN ledger = 1..n
      /\ DOMAIN ledger' = 1..(n + 1)
      /\ \A i \in 1..n : ledger'[i] = ledger[i]
      /\ ledger'[n + 1] = line
    BY <1>1
<1>3. \A i \in LinesOf("order_intent")' :
          \/ i \in LinesOf("order_intent") /\ ledger'[i] = ledger[i]
          \/ i = n + 1 /\ line.kind = "order_intent" /\ ledger'[i] = line
    BY <1>1, <1>2 DEF LinesOf
<1>4. \A i \in LinesOf("order_intent") : ledger[i].id \in AttemptedIds
    BY DEF AttemptedIds
<1> QED
    BY <1>3, <1>4 DEF AttemptedOnce

\* An intent that is appended is the first of its id.
LEMMA AttemptedOnceStep ==
    ASSUME AttemptedOnceInv, [Next]_vars
    PROVE  AttemptedOnce'
<1> USE DEF AttemptedOnceInv
<1>1. CASE ledger' = ledger
    BY <1>1 DEF AttemptedOnce, LinesOf
<1>2. ASSUME NEW r \in Runs, pc[r] \in AppendPcs,
             NEW line \in NextLines(r), ledger' = Append(ledger, line)
      PROVE  AttemptedOnce'
    BY <1>2, IntentLinesAreFresh, LinesAreRecords, AppendOnce
<1>3. CASE torn # <<>> /\ ledger' = Append(ledger, torn[1])
    <2>1. torn[1] \in Records
        BY <1>3 DEF TypeOK
    <2> QED
        BY <1>3, <2>1, AppendOnce DEF TornFresh
<1> QED
    BY <1>1, <1>2, <1>3, LedgerGrows

\* A torn line appears only by tearing the line a run was about to write.
LEMMA TornFreshStep ==
    ASSUME AttemptedOnceInv, [Next]_vars
    PROVE  TornFresh'
<1> USE DEF AttemptedOnceInv
<1>1. ASSUME NEW r \in Runs, CrashTearingLine(r) PROVE TornFresh'
    <2>1. PICK line \in NextLines(r) : torn' = <<line>>
        BY <1>1 DEF CrashTearingLine
    <2>2. AttemptedIds' = AttemptedIds /\ torn'[1] = line
        BY <1>1, <2>1 DEF CrashTearingLine, AttemptedIds, LinesOf
    <2>3. pc[r] \in AppendPcs
        BY <1>1 DEF CrashTearingLine
    <2> QED
        BY <2>2, <2>3, IntentLinesAreFresh DEF TornFresh
<1>2. ASSUME torn' = torn PROVE TornFresh'
    <2>1. torn # <<>> => ledger' = ledger
        BY <1>2, LedgerGrows
    <2> QED
        BY <1>2, <2>1 DEF TornFresh, AttemptedIds, LinesOf
<1>3. CASE Surroundings \/ UNCHANGED vars
    <2>1. torn' = torn \/ torn' = <<>>
        BY <1>3 DEF Surroundings, RepairLedger, ToggleKill, MarketOpen, MarketClose, BarsFinal,
                    NextDay, Fill, files, vars
    <2> QED
        BY <1>2, <2>1 DEF TornFresh
<1>4. ASSUME NEW r \in Runs, StepOf(r) PROVE TornFresh'
    BY <1>1, <1>2, <1>4, RunAdvance
<1> QED
    BY <1>3, <1>4, StepKinds

\* A run's step other than the append of an intent leaves the attempted ids alone.
LEMMA IdsStay ==
    ASSUME TypeOK, NEW r \in Runs, StepOf(r), ~(\E o \in todo[r] : AppendIntent(r, o))
    PROVE  AttemptedIds' = AttemptedIds
<1> USE DEF files
<1>1. CASE ledger' = ledger
    BY <1>1 DEF AttemptedIds, LinesOf
<1>2. ASSUME NEW line \in NextLines(r), ledger' = Append(ledger, line),
             pc[r] \in AppendPcs, pc[r] # "order_intent"
      PROVE  AttemptedIds' = AttemptedIds
    <2>1. line \in Records
        BY <1>2, LinesAreRecords
    <2>2. line.kind # "order_intent"
        BY <1>2 DEF NextLines, RunLine, OrderLine
    <2> QED
        BY <1>2, <2>1, <2>2, AppendIds
<1>3. CASE AppendForecasts(r) \/ AppendBreach(r) \/ AppendEquity(r) \/ AppendPlan(r)
    <2>1. /\ pc[r] \in RunKinds
          /\ ledger' = Append(ledger, RunLine(r))
        BY <1>3 DEF AppendForecasts, AppendBreach, AppendEquity, AppendPlan, AppendLine, RunKinds
    <2> QED
        BY <1>2, <2>1 DEF NextLines, AppendPcs, RunKinds
<1>4. ASSUME NEW o \in todo[r], AppendAccepted(r, o) \/ AppendFailed(r, o)
      PROVE  AttemptedIds' = AttemptedIds
    <2>1. /\ pc[r] \in {"order_accepted", "order_failed"}
          /\ IsCurrent(r, o)
          /\ ledger' = Append(ledger, OrderLine(r, o))
        BY <1>4 DEF AppendAccepted, AppendFailed, AppendLine
    <2> QED
        BY <1>2, <2>1 DEF NextLines, AppendPcs, RunKinds, OrderKinds
<1>5. CASE Start(r) \/ Crash(r) \/ CrashTearingLine(r)
    BY <1>1, <1>5 DEF Start, Crash, CrashTearingLine
<1>6. ASSUME RunStep(r),
             ~(\/ AppendForecasts(r) \/ AppendBreach(r) \/ AppendEquity(r) \/ AppendPlan(r)),
             ~(\E o \in todo[r] : AppendAccepted(r, o) \/ AppendFailed(r, o))
      PROVE  ledger' = ledger
    BY <1>6 DEF RunStep, CheckDate, GetOpenOrders, GetAccount, GetPositions, GetBars, RefusePlan,
                BreachLimit, AcceptPlan, SubmitReceived, SubmitDead, SubmitRefused, ReadRaises,
                LedgerRefuses
<1> QED
    BY <1>1, <1>3, <1>4, <1>5, <1>6 DEF StepOf

\* The outcome of an order is on its way once its intent is written: what a step
\* of the run itself keeps of TodoFresh.
LEMMA OwnOrdersStayFresh ==
    ASSUME AttemptedOnceInv, NEW r \in Runs, StepOf(r),
           NEW o \in todo'[r], ClientOrderId(o) \in AttemptedIds'
    PROVE  /\ pc'[r] \in {"submit", "order_accepted", "order_failed"}
           /\ IsCurrent(r, o)'
<1> USE DEF AttemptedOnceInv
<1>1. /\ pc \in [Runs -> Pcs]
      /\ todo \in [Runs -> SUBSET PlannedOrders]
    BY DEF TypeOK
<1>2. CASE AcceptPlan(r)
    <2>1. o \in PlanOf(r) /\ ~Repeats(r)
        BY <1>2, RunAdvance DEF AcceptPlan
    <2>2. AttemptedIds' = AttemptedIds
        BY <1>2 DEF AcceptPlan, files, AttemptedIds, LinesOf
    <2> QED
        BY <2>1, <2>2 DEF Repeats
<1>3. ASSUME NEW c \in todo[r], AppendIntent(r, c)
      PROVE  /\ pc'[r] = "submit"
             /\ IsCurrent(r, o)'
    <2>1. pc[r] = "order_intent" /\ pc'[r] = "submit" /\ todo' = todo /\ IsCurrent(r, c)
        BY <1>1, <1>3 DEF AppendIntent, Goto
    <2>2. ClientOrderId(o) \notin AttemptedIds
        BY <2>1 DEF TodoFresh
    <2>3. AttemptedIds' = AttemptedIds \cup {ClientOrderId(c)}
        <3>1. /\ ledger' = Append(ledger, OrderLine(r, c))
              /\ OrderLine(r, c) \in Records
              /\ OrderLine(r, c).kind = "order_intent"
              /\ OrderLine(r, c).id = ClientOrderId(c)
            BY <1>3, <2>1, LinesAreRecords DEF AppendIntent, AppendLine, OrderLine, OrderKinds
        <3> QED
            BY <3>1, AppendIds
    <2>4. o.ticker = c.ticker
        BY <2>2, <2>3 DEF ClientOrderId
    <2>5. o = c
        BY <2>1, <2>4 DEF TodoPlanned
    <2> QED
        BY <2>1, <2>5 DEF IsCurrent
<1>4. ASSUME ~AcceptPlan(r), ~(\E c \in todo[r] : AppendIntent(r, c))
      PROVE  /\ pc'[r] \in {"submit", "order_accepted", "order_failed"}
             /\ IsCurrent(r, o)'
    <2>1. o \in todo[r] /\ ClientOrderId(o) \in AttemptedIds
        BY <1>4, IdsStay, RunAdvance
    <2>2. /\ pc[r] \in {"submit", "order_accepted", "order_failed"}
          /\ IsCurrent(r, o)
        BY <2>1 DEF TodoFresh
    <2>3. todo'[r] # {}
        OBVIOUS
    <2>4. ASSUME NEW c \in todo[r], AppendAccepted(r, c) PROVE FALSE
        <3>1. IsCurrent(r, c) /\ todo'[r] \subseteq todo[r] \ {c}
            BY <1>1, <2>4 DEF AppendAccepted, Exit
        <3> QED
            BY <2>2, <3>1, CurrentIsUnique
    <2>5. ASSUME NEW c \in todo[r], SubmitReceived(r, c) \/ SubmitDead(r, c)
          PROVE  /\ pc'[r] \in {"order_accepted", "order_failed"}
                 /\ todo' = todo
        BY <1>1, <2>5 DEF SubmitReceived, SubmitDead, Goto, views
    <2>6. ASSUME SubmitRefused(r)
          PROVE  /\ pc'[r] = "order_failed"
                 /\ todo' = todo
        BY <1>1, <2>6 DEF SubmitRefused, Goto
    <2>7. ASSUME Exit(r) PROVE FALSE
        BY <1>1, <2>3, <2>7 DEF Exit
    <2>8. \E c \in todo[r] : SubmitReceived(r, c) \/ SubmitDead(r, c) \/ SubmitRefused(r)
        BY <1>4, <2>1, <2>2, <2>4, <2>7
        DEF StepOf, RunStep, Start, CheckDate, GetOpenOrders, GetAccount, GetPositions, GetBars,
            RefusePlan, BreachLimit, AppendForecasts, AppendBreach, AppendEquity, AppendPlan,
            AppendFailed, ReadRaises, LedgerRefuses, Crash, CrashTearingLine
    <2> QED
        BY <2>2, <2>5, <2>6, <2>8 DEF IsCurrent
<1> QED
    BY <1>2, <1>3, <1>4

\* What a run has yet to submit has no intent in the ledger.
LEMMA TodoFreshStep ==
    ASSUME Serial, AttemptedOnceInv, [Next]_vars
    PROVE  TodoFresh'
<1>1. CASE Surroundings \/ UNCHANGED vars
    <2>1. pc' = pc /\ todo' = todo
        BY <1>1, SurroundingsStay
    <2>2. ledger' = ledger \/ torn # <<>>
        BY <1>1 DEF Surroundings, RepairLedger, ToggleKill, MarketOpen, MarketClose, BarsFinal,
                    NextDay, Fill, files, vars
    <2>3. torn # <<>> => \A r \in Runs : todo[r] = {}
        BY DEF AttemptedOnceInv, TornBlocks, TodoPlanned
    <2> QED
        BY <2>1, <2>2, <2>3 DEF AttemptedOnceInv, TodoFresh, IsCurrent, AttemptedIds, LinesOf
<1>2. ASSUME NEW r \in Runs, StepOf(r) PROVE TodoFresh'
    <2>1. \A s \in Runs : s # r => todo'[s] = {}
        BY <1>2, OthersAreIdle
    <2> QED
        BY <1>2, <2>1, OwnOrdersStayFresh DEF TodoFresh
<1> QED
    BY <1>1, <1>2, StepKinds

\* With runs kept apart, the invariant holds in every reachable state.
LEMMA NeverRepeatedInv == Serial => (Spec => []AttemptedOnceInv)
<1> SUFFICES ASSUME Serial PROVE Spec => []AttemptedOnceInv
    OBVIOUS
<1>1. Init => AttemptedOnceInv
    BY InitTypeOK
    DEF Init, AttemptedOnceInv, OneActive, Active, TornBlocks, TodoPlanned, TodoFresh, TornFresh,
        AttemptedOnce, LinesOf
<1>2. AttemptedOnceInv /\ [Next]_vars => AttemptedOnceInv'
    <2> SUFFICES ASSUME AttemptedOnceInv, [Next]_vars PROVE AttemptedOnceInv'
        OBVIOUS
    <2>1. TypeOK'
        BY NextTypeOK DEF AttemptedOnceInv
    <2> QED
        BY <2>1, OneActiveStep, TornBlocksStep, TodoPlannedStep, TodoFreshStep, TornFreshStep,
           AttemptedOnceStep
        DEF AttemptedOnceInv
<1> QED
    BY <1>1, <1>2, PTL DEF Spec

\* cycle.py: an order that may have reached the broker is not sent again.  With
\* runs kept apart, no two intents of the ledger ever share an id.
THEOREM NeverAttemptedTwice == Serial => (Spec => []AttemptedOnce)
<1> SUFFICES ASSUME Serial PROVE Spec => []AttemptedOnce
    OBVIOUS
<1>1. AttemptedOnceInv => AttemptedOnce
    BY DEF AttemptedOnceInv
<1> QED
    BY <1>1, NeverRepeatedInv, PTL

-----------------------------------------------------------------------------
(***************************************************************************)
(* The refinement of OrderLifecycle.                                       *)
(***************************************************************************)
\* The order about to be submitted is the one in flight.
LEMMA SubmittingIsInFlight ==
    ASSUME TypeOK, NEW r \in Runs, pc[r] = "submit", \A s \in Runs : s # r => pc[s] # "submit",
           NEW o \in todo[r], IsCurrent(r, o)
    PROVE  InFlight = {ClientOrderId(o)}
<1>1. \A p \in todo[r] : IsCurrent(r, p) => p = o
    BY CurrentIsUnique
<1>2. {s \in Runs : pc[s] = "submit"} = {r}
    OBVIOUS
<1>3. {p \in todo[r] : IsCurrent(r, p)} = {o}
    BY <1>1
<1> QED
    BY <1>2, <1>3 DEF InFlight

\* An order is in flight only while a run submits.
LEMMA NothingInFlight ==
    ASSUME \A s \in Runs : pc[s] # "submit"
    PROVE  InFlight = {}
BY DEF InFlight

\* While a run moves, no other run is about to submit.
LEMMA OthersSubmitNothing ==
    ASSUME Serial, AttemptedOnceInv, NEW r \in Runs, StepOf(r), NEW s \in Runs, s # r
    PROVE  pc[s] # "submit" /\ pc'[s] # "submit"
BY OthersAreIdle DEF Active

\* Writing an intent starts the life of its id.
LEMMA IntentAttempts ==
    ASSUME Serial, AttemptedOnceInv, NEW r \in Runs, NEW o \in todo[r], AppendIntent(r, o), TypeOK'
    PROVE  Lifecycle!Attempt(ClientOrderId(o))
<1> USE DEF AttemptedOnceInv
<1>1. StepOf(r)
    BY DEF StepOf, RunStep
<1>2. /\ pc[r] = "order_intent" /\ pc'[r] = "submit" /\ todo' = todo
      /\ IsCurrent(r, o) /\ known' = known
    BY DEF AppendIntent, Goto, broker, TypeOK
<1>3. InFlight = {}
    BY <1>1, <1>2, OthersSubmitNothing, NothingInFlight
<1>4. InFlight' = {ClientOrderId(o)}
    <2>1. \A s \in Runs : s # r => pc'[s] # "submit"
        BY <1>1, OthersSubmitNothing
    <2>2. {s \in Runs : pc'[s] = "submit"} = {r}
        BY <1>2, <2>1
    <2>3. {p \in todo'[r] : IsCurrent(r, p)'} = {o}
        BY <1>2, CurrentIsUnique DEF IsCurrent
    <2> QED
        BY <2>2, <2>3 DEF InFlight
<1>5. ClientOrderId(o) \notin AttemptedIds
    BY <1>2 DEF TodoFresh
<1>6. AttemptedIds' = AttemptedIds \cup {ClientOrderId(o)}
    <2>1. /\ ledger' = Append(ledger, OrderLine(r, o))
          /\ OrderLine(r, o) \in Records
          /\ OrderLine(r, o).kind = "order_intent"
          /\ OrderLine(r, o).id = ClientOrderId(o)
        BY <1>2, LinesAreRecords DEF AppendIntent, AppendLine, OrderLine, OrderKinds
    <2> QED
        BY <2>1, AppendIds
<1> QED
    BY <1>2, <1>3, <1>4, <1>5, <1>6 DEF Lifecycle!Attempt

\* An order the broker creates was in flight, and the broker had not seen it.
LEMMA SubmissionReaches ==
    ASSUME Serial, AttemptedOnceInv, NEW r \in Runs, NEW o \in todo[r],
           SubmitReceived(r, o) \/ SubmitDead(r, o)
    PROVE  Lifecycle!Reach(ClientOrderId(o))
<1> USE DEF AttemptedOnceInv
<1>1. StepOf(r)
    BY DEF StepOf, RunStep
<1>2. /\ pc[r] = "submit" /\ pc'[r] # "submit" /\ IsCurrent(r, o)
      /\ ClientOrderId(o) \notin known
      /\ known' = known \cup {ClientOrderId(o)}
      /\ ledger' = ledger
    BY DEF SubmitReceived, SubmitDead, Goto, files, TypeOK
<1>3. InFlight = {ClientOrderId(o)}
    BY <1>1, <1>2, OthersSubmitNothing, SubmittingIsInFlight
<1>4. InFlight' = {}
    <2>1. \A s \in Runs : pc'[s] # "submit"
        BY <1>1, <1>2, OthersSubmitNothing
    <2> QED
        BY <2>1 DEF InFlight
<1>5. AttemptedIds' = AttemptedIds
    BY <1>2 DEF AttemptedIds, LinesOf
<1> QED
    BY <1>2, <1>3, <1>4, <1>5 DEF Lifecycle!Reach

\* Any other step of a run ends the life of the id in flight, or changes nothing.
LEMMA OtherStepsGiveUp ==
    ASSUME Serial, AttemptedOnceInv, NEW r \in Runs, StepOf(r), [Next]_vars,
           ~(\E o \in todo[r] :
               AppendIntent(r, o) \/ SubmitReceived(r, o) \/ SubmitDead(r, o))
    PROVE  Lifecycle!GiveUp \/ UNCHANGED <<AttemptedIds, InFlight, known>>
<1> USE DEF AttemptedOnceInv
<1>1. AttemptedIds' = AttemptedIds
    BY IdsStay
<1>2. known' = known
    BY DEF StepOf, RunStep, Start, CheckDate, GetOpenOrders, GetAccount, GetPositions, GetBars,
           RefusePlan, BreachLimit, AcceptPlan, AppendForecasts, AppendBreach, AppendEquity,
           AppendPlan, AppendAccepted, AppendFailed, SubmitRefused, ReadRaises,
           LedgerRefuses, Crash, CrashTearingLine, broker
<1>3. InFlight' = {} \/ InFlight' = InFlight
    <2>1. \A s \in Runs : s # r => pc'[s] = pc[s] /\ todo'[s] = todo[s] /\ pc'[s] # "submit"
        BY OthersAreIdle, OthersSubmitNothing
    <2>2. CASE pc'[r] # "submit"
        BY <2>1, <2>2 DEF InFlight
    <2>3. CASE pc'[r] = "submit"
        <3>1. pc[r] = "submit" /\ todo'[r] = todo[r]
            BY <2>3, SubmitStep
        <3>2. \A s \in Runs : (pc'[s] = "submit" <=> pc[s] = "submit") /\ todo'[s] = todo[s]
            BY <2>1, <2>3, <3>1
        <3> QED
            BY <3>2 DEF InFlight, IsCurrent
    <2> QED
        BY <2>2, <2>3
<1> QED
    BY <1>1, <1>2, <1>3 DEF Lifecycle!GiveUp

\* Around the runs, only the completion of a torn intent by hand matters: it is
\* an attempt whose request is never sent.
LEMMA SurroundingsAttempt ==
    ASSUME AttemptedOnceInv, Surroundings \/ UNCHANGED vars
    PROVE  \/ \E id \in OrderIds : Lifecycle!Attempt(id)
           \/ UNCHANGED <<AttemptedIds, InFlight, known>>
<1> USE DEF AttemptedOnceInv
<1>1. known' = known
    BY DEF Surroundings, RepairLedger, ToggleKill, MarketOpen, MarketClose, BarsFinal, NextDay,
           Fill, broker, vars
<1>2. pc' = pc /\ todo' = todo /\ InFlight' = InFlight
    BY SurroundingsStay DEF InFlight, IsCurrent
<1>3. ledger' = ledger \/ (torn # <<>> /\ ledger' = Append(ledger, torn[1]))
    BY DEF Surroundings, RepairLedger, ToggleKill, MarketOpen, MarketClose, BarsFinal, NextDay,
           Fill, files, vars
<1>4. CASE ledger' = ledger
    BY <1>1, <1>2, <1>4 DEF AttemptedIds, LinesOf
<1>5. CASE torn # <<>> /\ ledger' = Append(ledger, torn[1])
    <2>1. torn[1] \in Records
        BY <1>5 DEF TypeOK
    <2>2. InFlight = {}
        BY <1>5, NothingInFlight DEF TornBlocks, LaterPcs
    <2>3. CASE torn[1].kind = "order_intent"
        <3>1. torn[1].id \in OrderIds /\ torn[1].id \notin AttemptedIds
            BY <1>5, <2>1, <2>3 DEF TornFresh, Records, RunKinds
        <3>2. AttemptedIds' = AttemptedIds \cup {torn[1].id}
            BY <1>5, <2>1, <2>3, AppendIds
        <3> QED
            BY <1>1, <1>2, <2>2, <3>1, <3>2 DEF Lifecycle!Attempt
    <2>4. CASE torn[1].kind # "order_intent"
        BY <1>1, <1>2, <1>5, <2>1, <2>4, AppendIds
    <2> QED
        BY <2>3, <2>4
<1> QED
    BY <1>3, <1>4, <1>5

\* Each step of the cycle is a step of one order's life, or of none.
LEMMA StepRefines ==
    ASSUME Serial, AttemptedOnceInv, [Next]_vars
    PROVE  [Lifecycle!Next]_<<AttemptedIds, InFlight, known>>
<1>1. TypeOK'
    BY NextTypeOK DEF AttemptedOnceInv
<1>2. ASSUME NEW r \in Runs, NEW o \in todo[r],
             AppendIntent(r, o) \/ SubmitReceived(r, o) \/ SubmitDead(r, o)
      PROVE  \E id \in OrderIds : Lifecycle!Attempt(id) \/ Lifecycle!Reach(id)
    <2>1. ClientOrderId(o) \in OrderIds
        BY OrderIdType DEF AttemptedOnceInv, TypeOK
    <2> QED
        BY <1>1, <1>2, <2>1, IntentAttempts, SubmissionReaches
<1>3. ASSUME NEW r \in Runs, StepOf(r)
      PROVE  [Lifecycle!Next]_<<AttemptedIds, InFlight, known>>
    BY <1>2, <1>3, OtherStepsGiveUp DEF Lifecycle!Next
<1>4. CASE Surroundings \/ UNCHANGED vars
    BY <1>4, SurroundingsAttempt DEF Lifecycle!Next
<1> QED
    BY <1>3, <1>4, StepKinds

\* With runs kept apart, the cycle implements the life of an order id: written
\* down first, then sent at most once, then never again.
THEOREM CycleImplementsLifecycle == Serial => (Spec => ImplementsLifecycle)
<1> SUFFICES ASSUME Serial PROVE Spec => Lifecycle!Spec
    BY DEF ImplementsLifecycle
<1>1. Init => Lifecycle!Init
    BY DEF Init, Lifecycle!Init, AttemptedIds, LinesOf, InFlight
<1>2. AttemptedOnceInv /\ [Next]_vars => [Lifecycle!Next]_<<AttemptedIds, InFlight, known>>
    BY StepRefines
<1>3. Spec => []AttemptedOnceInv
    BY NeverRepeatedInv
<1> QED
    BY <1>1, <1>2, <1>3, PTL DEF Spec, Lifecycle!Spec

-----------------------------------------------------------------------------
(***************************************************************************)
(* The limits of the trading cycle over many days, runs, crashes and torn  *)
(* lines, when the operator keeps runs apart: holdings stay inside the     *)
(* last accepted plan, a date has no more orders than its budget, no real  *)
(* cycle trades below the drawdown limit, a breached cycle leaves no plan  *)
(* behind, and the audit trail misses no outcome a crash does not explain. *)
(***************************************************************************)
(***************************************************************************)
(* The inductive invariants, one per limit.                                *)
(***************************************************************************)
OutcomeKinds == {"order_accepted", "order_failed"}

\* A run in its submission loop is not a dry run.
LoopIsReal == \A r \in Runs : pc[r] \in {"submit"} \cup OrderKinds => ~dry[r]

-----------------------------------------------------------------------------
\* Orders of the accepted plan that a run will still send if nothing stops it.
Unsent(r) ==
    IF dry[r] \/ pc[r] \notin {"equity", "plan", "order_intent", "submit", "order_accepted"}
    THEN {}
    ELSE IF pc[r] = "order_accepted"
         THEN {o \in todo[r] : ~IsCurrent(r, o)}
         ELSE todo[r]

\* What can still move a holding.
Open == pending \cup UNION {Unsent(r) : r \in Runs}

\* A run that has asked for the open orders found none, and there are none until
\* it sends its own; so the positions it read are still the positions.
NothingOpen ==
    \A r \in Runs :
        /\ pc[r] \in {"account", "positions", "bars", "forecasts", "planning"} => pending = {}
        /\ pc[r] \in {"bars", "forecasts", "planning"} => held[r] = positions

\* One order per name is open or unsent, never both, and it stays inside the plan
\* if it fills.
OpenWithinPlan ==
    /\ \A o, p \in Open : o.ticker = p.ticker => o = p
    /\ \A r \in Runs : pending \cap Unsent(r) = {}
    /\ \A o \in Open :
        /\ o.side = "buy" => positions[o.ticker] + o.qty <= planned.hi[o.ticker]
        /\ o.side = "sell" => planned.lo[o.ticker] <= positions[o.ticker] - o.qty

HoldingsWithinPlan ==
    /\ planned.lo \in [Tickers -> Int] /\ planned.hi \in [Tickers -> Int]
    /\ \A t \in Tickers : planned.lo[t] <= positions[t] /\ positions[t] <= planned.hi[t]

PlanBoundInv ==
    /\ AttemptedOnceInv
    /\ LoopIsReal
    /\ NothingOpen
    /\ OpenWithinPlan
    /\ HoldingsWithinPlan

-----------------------------------------------------------------------------
TornIds(kinds) == {torn[i].id : i \in {j \in DOMAIN torn : torn[j].kind \in kinds}}

\* Ids of a date that are in the ledger, or that a run or a repair may still write.
Claimed == AttemptedIds \cup TornIds({"order_intent"})
             \cup UNION {{ClientOrderId(o) : o \in todo[r]} : r \in Runs}

ClaimedOn(d) == {id \in Claimed : id[1] = d}

BudgetInv ==
    /\ AttemptedOnceInv
    /\ WriteAheadInv
    /\ \A d \in Days : IsFiniteSet(ClaimedOn(d)) /\ Cardinality(ClaimedOn(d)) <= MaxOrdersPerDay

-----------------------------------------------------------------------------
\* equity is within the drawdown limit of every real equity line.
AboveDrawdown(equity) ==
    \A i \in RealEquityLines :
        (ledger[i].equity - equity) * Scale <= MaxDrawdown * ledger[i].equity

\* So are the equity a run is about to record and a torn one.
NextAboveDrawdown ==
    \A r \in Runs : pc[r] = "equity" /\ ~dry[r] => AboveDrawdown(account[r].equity)

TornAboveDrawdown ==
    \A i \in DOMAIN torn : torn[i].kind = "equity" => torn[i].dry \/ AboveDrawdown(torn[i].equity)

DrawdownInv == AttemptedOnceInv /\ DrawdownHeld /\ NextAboveDrawdown /\ TornAboveDrawdown

-----------------------------------------------------------------------------
TradingKinds == {"equity", "plan", "order_intent"}

\* No line of these kinds since the last forecasts line.
NoneSinceForecasts(kinds) ==
    \A i \in DOMAIN ledger :
        ledger[i].kind \in kinds => \E k \in LinesOf("forecasts") : i < k

\* A run past its forecasts line has a cycle without a breach, one that plans or is
\* about to record a breach has a cycle without a trade; so would a torn line.
CycleClean ==
    \A r \in Runs :
        /\ pc[r] \in LaterPcs \ {"breach"} => NoneSinceForecasts({"breach"})
        /\ pc[r] \in {"planning", "breach"} => NoneSinceForecasts(TradingKinds)

TornClean ==
    \A i \in DOMAIN torn :
        /\ torn[i].kind \in TradingKinds => NoneSinceForecasts({"breach"})
        /\ torn[i].kind = "breach" => NoneSinceForecasts(TradingKinds)

BreachInv == AttemptedOnceInv /\ BreachStopsCycle /\ CycleClean /\ TornClean

-----------------------------------------------------------------------------
OutcomeIds == {ledger[i].id : i \in LinesOf("order_accepted") \cup LinesOf("order_failed")}

\* Intents without an outcome, the torn one included.
Loose == Unresolved \cup TornIds({"order_intent"})

\* Runs that owe the ledger an outcome.
Busy == {r \in Runs : pc[r] \in {"submit"} \cup OutcomeKinds}

\* Outcomes are of attempted orders, and a run that owes one has not written it yet.
OutcomesFollow ==
    /\ OutcomeIds \cup TornIds(OutcomeKinds) \subseteq AttemptedIds
    /\ \A r \in Busy : \A o \in todo[r] : IsCurrent(r, o) => ClientOrderId(o) \in Unresolved

LooseBounded == IsFiniteSet(Loose) /\ Cardinality(Loose) <= crashes + Cardinality(Busy)

AuditInv == AttemptedOnceInv /\ OutcomesFollow /\ LooseBounded

-----------------------------------------------------------------------------
(***************************************************************************)
(* What one step of one run does, and what happens around the runs.        *)
(***************************************************************************)
\* How a run gets to each place.
LEMMA Origin ==
    ASSUME TypeOK, NEW r \in Runs, StepOf(r)
    PROVE  /\ pc'[r] = "account" => GetOpenOrders(r) /\ pending = {}
           /\ pc'[r] = "positions" => GetAccount(r)
           /\ pc'[r] = "bars" => GetPositions(r)
           /\ pc'[r] = "forecasts" => GetBars(r) /\ pc[r] = "bars"
           /\ pc'[r] = "planning" => AppendForecasts(r)
           /\ pc'[r] = "breach" => BreachLimit(r)
           /\ pc'[r] = "equity" => AcceptPlan(r)
           /\ pc'[r] = "plan" => AppendEquity(r)
           /\ pc'[r] = "order_intent" =>
                 (AppendPlan(r) /\ ~dry[r]) \/ \E o \in todo[r] : AppendAccepted(r, o)
           /\ pc'[r] = "submit" => \E o \in todo[r] : AppendIntent(r, o)
           /\ pc'[r] = "order_accepted" => \E o \in todo[r] : SubmitReceived(r, o)
           /\ pc'[r] = "order_failed" =>
                 SubmitRefused(r) \/ \E o \in todo[r] : SubmitReceived(r, o) \/ SubmitDead(r, o)
<1> DEFINE Places == {"account", "positions", "bars", "forecasts", "planning", "breach", "equity",
                      "plan", "order_intent", "submit", "order_accepted", "order_failed"}
<1>1. pc \in [Runs -> Pcs]
    BY DEF TypeOK
<1> USE <1>1 DEF Goto
<1>2. Exit(r) => pc'[r] \notin Places
    BY DEF Exit
<1>3. Start(r) => pc'[r] \notin Places
    BY DEF Start
<1>4. Crash(r) \/ CrashTearingLine(r) \/ ReadRaises(r) \/ RefusePlan(r) \/ LedgerRefuses(r)
          \/ AppendBreach(r) \/ (\E o \in todo[r] : AppendFailed(r, o))
        => Exit(r)
    BY DEF Crash, CrashTearingLine, ReadRaises, RefusePlan, LedgerRefuses, AppendBreach,
           AppendFailed
<1>5. /\ CheckDate(r) => Exit(r) \/ pc'[r] = "openOrders"
      /\ GetOpenOrders(r) => Exit(r) \/ (pc'[r] = "account" /\ pending = {})
      /\ GetAccount(r) => pc'[r] = "positions"
      /\ GetPositions(r) => pc'[r] = "bars"
      /\ GetBars(r) => Exit(r) \/ (pc'[r] = "forecasts" /\ pc[r] = "bars")
    BY DEF CheckDate, GetOpenOrders, GetAccount, GetPositions, GetBars
<1>6. /\ BreachLimit(r) => pc'[r] = "breach"
      /\ AcceptPlan(r) => pc'[r] = "equity"
      /\ AppendForecasts(r) => pc'[r] = "planning"
      /\ AppendEquity(r) => pc'[r] = "plan"
      /\ AppendPlan(r) => Exit(r) \/ (pc'[r] = "order_intent" /\ ~dry[r])
      /\ SubmitRefused(r) => pc'[r] = "order_failed"
    BY DEF BreachLimit, AcceptPlan, AppendForecasts, AppendEquity, AppendPlan, SubmitRefused
<1>7. \A o \in todo[r] :
        /\ AppendIntent(r, o) => pc'[r] = "submit"
        /\ SubmitReceived(r, o) => pc'[r] \in {"order_accepted", "order_failed"}
        /\ SubmitDead(r, o) => pc'[r] = "order_failed"
        /\ AppendAccepted(r, o) => Exit(r) \/ pc'[r] = "order_intent"
    BY DEF AppendIntent, SubmitReceived, SubmitDead, AppendAccepted
<1> QED
    BY <1>2, <1>3, <1>4, <1>5, <1>6, <1>7 DEF StepOf, RunStep

\* A run's step on the files: nothing, the line it is at, or a torn piece of it.
LEMMA FilesStep ==
    ASSUME TypeOK, NEW r \in Runs, StepOf(r)
    PROVE  \/ ledger' = ledger /\ torn' = torn
           \/ /\ pc[r] \in AppendPcs
              /\ torn = <<>>
              /\ \E line \in NextLines(r) :
                    \/ ledger' = Append(ledger, line) /\ torn' = torn
                    \/ ledger' = ledger /\ torn' = <<line>> /\ CrashTearingLine(r)
<1> USE DEF files
<1>1. CASE CrashTearingLine(r)
    BY <1>1 DEF CrashTearingLine
<1>2. CASE AppendForecasts(r) \/ AppendBreach(r) \/ AppendEquity(r) \/ AppendPlan(r)
    BY <1>2 DEF AppendForecasts, AppendBreach, AppendEquity, AppendPlan, AppendLine, NextLines,
                RunKinds, AppendPcs
<1>3. ASSUME NEW o \in todo[r],
             AppendIntent(r, o) \/ AppendAccepted(r, o) \/ AppendFailed(r, o)
      PROVE  /\ pc[r] \in AppendPcs
             /\ torn = <<>>
             /\ \E line \in NextLines(r) : ledger' = Append(ledger, line) /\ torn' = torn
    BY <1>3 DEF AppendIntent, AppendAccepted, AppendFailed, AppendLine, NextLines,
                RunKinds, OrderKinds, AppendPcs
<1>4. ASSUME NEW o \in todo[r], SubmitReceived(r, o) \/ SubmitDead(r, o)
      PROVE  ledger' = ledger /\ torn' = torn
    BY <1>4 DEF SubmitReceived, SubmitDead
<1>5. CASE Start(r) \/ Crash(r) \/ SubmitRefused(r) \/ LedgerRefuses(r) \/ ReadRaises(r)
    BY <1>5 DEF Start, Crash, SubmitRefused, LedgerRefuses, ReadRaises
<1>6. CASE CheckDate(r) \/ GetOpenOrders(r) \/ GetAccount(r) \/ GetPositions(r) \/ GetBars(r)
           \/ RefusePlan(r) \/ BreachLimit(r) \/ AcceptPlan(r)
    BY <1>6 DEF CheckDate, GetOpenOrders, GetAccount, GetPositions, GetBars, RefusePlan,
                BreachLimit, AcceptPlan
<1> QED
    BY <1>1, <1>2, <1>3, <1>4, <1>5, <1>6 DEF StepOf, RunStep

\* Around the runs: the views stand, the files change by a repair only.
LEMMA AroundRuns ==
    ASSUME Surroundings \/ UNCHANGED vars
    PROVE  /\ pc' = pc /\ todo' = todo /\ dry' = dry /\ account' = account /\ held' = held
           /\ planned' = planned /\ crashes' = crashes
           /\ \/ ledger' = ledger /\ torn' = torn
              \/ torn # <<>> /\ torn' = <<>> /\ (ledger' = ledger \/ ledger' = Append(ledger, torn[1]))
           /\ \/ pending' \subseteq pending /\ positions' = positions
              \/ \E o \in pending : \E qty \in 1..o.qty : Fill(o, qty)
BY DEF Surroundings, RepairLedger, ToggleKill, MarketOpen, MarketClose, BarsFinal, NextDay, Fill,
       vars, views, files, broker

\* A run's step leaves the other runs' readings alone.
LEMMA OtherReadings ==
    ASSUME TypeOK, NEW r \in Runs, StepOf(r), NEW s \in Runs, s # r
    PROVE  dry'[s] = dry[s] /\ account'[s] = account[s] /\ held'[s] = held[s]
<1> USE DEF TypeOK, Exit, views
<1>1. CASE Start(r) \/ Crash(r) \/ CrashTearingLine(r)
    BY <1>1 DEF Start, Crash, CrashTearingLine
<1>2. CASE CheckDate(r) \/ GetOpenOrders(r) \/ GetAccount(r) \/ GetPositions(r) \/ GetBars(r)
    BY <1>2 DEF CheckDate, GetOpenOrders, GetAccount, GetPositions, GetBars
<1>3. CASE RefusePlan(r) \/ BreachLimit(r) \/ AcceptPlan(r) \/ SubmitRefused(r)
           \/ LedgerRefuses(r) \/ ReadRaises(r)
    BY <1>3 DEF RefusePlan, BreachLimit, AcceptPlan, SubmitRefused, ReadRaises, LedgerRefuses
<1>4. CASE AppendForecasts(r) \/ AppendBreach(r) \/ AppendEquity(r) \/ AppendPlan(r)
    BY <1>4 DEF AppendForecasts, AppendBreach, AppendEquity, AppendPlan
<1>5. ASSUME NEW o \in todo[r],
             \/ AppendIntent(r, o) \/ SubmitReceived(r, o) \/ SubmitDead(r, o)
             \/ AppendAccepted(r, o) \/ AppendFailed(r, o)
      PROVE  dry'[s] = dry[s] /\ account'[s] = account[s] /\ held'[s] = held[s]
    BY <1>5 DEF AppendIntent, SubmitReceived, SubmitDead, AppendAccepted, AppendFailed
<1> QED
    BY <1>1, <1>2, <1>3, <1>4, <1>5 DEF StepOf, RunStep

\* A line at the end of the ledger.
LEMMA Appended ==
    ASSUME TypeOK, NEW line, ledger' = Append(ledger, line)
    PROVE  LET n == Len(ledger)
           IN  /\ n \in Nat
               /\ DOMAIN ledger = 1..n
               /\ DOMAIN ledger' = 1..(n + 1)
               /\ \A i \in 1..n : ledger'[i] = ledger[i]
               /\ ledger'[n + 1] = line
BY DEF TypeOK

\* The line a run is at, and what a torn line can be.
LEMMA LineKinds ==
    ASSUME TypeOK, NEW r \in Runs, pc[r] \in AppendPcs, NEW line \in NextLines(r)
    PROVE  /\ line \in Records
           /\ line.kind = pc[r]
           /\ pc[r] \in RunKinds => line = RunLine(r)
           /\ pc[r] \in OrderKinds =>
                 \E o \in todo[r] : IsCurrent(r, o) /\ line.id = ClientOrderId(o)
<1>1. line \in Records
    BY LinesAreRecords
<1> QED
    BY <1>1 DEF NextLines, RunLine, OrderLine, AppendPcs, RunKinds, OrderKinds

\* The torn line is one record.
LEMMA TornShape ==
    ASSUME TypeOK
    PROVE  /\ torn = <<>> => DOMAIN torn = {}
           /\ torn # <<>> => torn[1] \in Records /\ DOMAIN torn = {1}
<1>1. torn \in Seq(Records) /\ Len(torn) \in {0, 1}
  <2>1. torn \in Seq(Records) /\ Len(torn) <= 1
      BY DEF TypeOK
  <2>2. Len(torn) \in Nat
      BY <2>1, LenProperties
  <2> HIDE DEF Records
  <2> QED
      BY <2>1, <2>2
<1>2. DOMAIN torn = 1..Len(torn)
    BY <1>1
<1>3. CASE Len(torn) = 0
    BY <1>1, <1>2, <1>3
<1>4. CASE Len(torn) = 1
  <2>1. torn \in [1..1 -> Records]
      BY <1>1, <1>4, LenProperties
  <2>2. torn # <<>>
      BY ONLY <1>4
  <2> QED
      BY <1>2, <1>4, <2>1, <2>2
<1> QED
    BY <1>1, <1>3, <1>4

\* A run's step leaves its own readings alone, but the call that takes them and an exit.
LEMMA OwnReadings ==
    ASSUME TypeOK, NEW r \in Runs, StepOf(r)
    PROVE  /\ pc'[r] \notin {"done", "date"} => dry'[r] = dry[r]
           /\ pc'[r] \notin {"done", "positions"} => account'[r] = account[r]
           /\ pc'[r] \notin {"done", "bars"} => held'[r] = held[r]
<1>1. pc \in [Runs -> Pcs]
    BY DEF TypeOK
<1> USE <1>1 DEF Goto, Exit, views
<1>2. CASE Start(r) \/ Crash(r) \/ CrashTearingLine(r)
    BY <1>2 DEF Start, Crash, CrashTearingLine, TypeOK
<1>3. CASE CheckDate(r) \/ GetOpenOrders(r) \/ GetAccount(r) \/ GetPositions(r) \/ GetBars(r)
    BY <1>3 DEF CheckDate, GetOpenOrders, GetAccount, GetPositions, GetBars, TypeOK
<1>4. CASE RefusePlan(r) \/ BreachLimit(r) \/ AcceptPlan(r) \/ SubmitRefused(r)
           \/ LedgerRefuses(r) \/ ReadRaises(r)
    BY <1>4 DEF RefusePlan, BreachLimit, AcceptPlan, SubmitRefused, ReadRaises, LedgerRefuses
<1>5. CASE AppendForecasts(r) \/ AppendBreach(r) \/ AppendEquity(r) \/ AppendPlan(r)
    BY <1>5 DEF AppendForecasts, AppendBreach, AppendEquity, AppendPlan
<1>6. ASSUME NEW o \in todo[r],
             \/ AppendIntent(r, o) \/ SubmitReceived(r, o) \/ SubmitDead(r, o)
             \/ AppendAccepted(r, o) \/ AppendFailed(r, o)
      PROVE  \/ pc'[r] = "done"
             \/ dry' = dry /\ account' = account /\ held' = held
    BY <1>6 DEF AppendIntent, SubmitReceived, SubmitDead, AppendAccepted, AppendFailed
<1> QED
    BY <1>2, <1>3, <1>4, <1>5, <1>6 DEF StepOf, RunStep

\* A run moves no holding; it opens an order by submitting it, and only the
\* acceptance of a real plan moves the range of the plan.
LEMMA BrokerStep ==
    ASSUME TypeOK, NEW r \in Runs, StepOf(r)
    PROVE  /\ positions' = positions
           /\ \/ pending' = pending
              \/ \E o \in todo[r] : SubmitReceived(r, o) /\ pending' = pending \cup {o}
           /\ planned' = planned \/ (AcceptPlan(r) /\ ~dry[r])
<1> USE DEF broker
<1>1. CASE Start(r) \/ Crash(r) \/ CrashTearingLine(r)
    BY <1>1 DEF Start, Crash, CrashTearingLine
<1>2. CASE CheckDate(r) \/ GetOpenOrders(r) \/ GetAccount(r) \/ GetPositions(r) \/ GetBars(r)
    BY <1>2 DEF CheckDate, GetOpenOrders, GetAccount, GetPositions, GetBars
<1>3. CASE RefusePlan(r) \/ BreachLimit(r) \/ AcceptPlan(r) \/ SubmitRefused(r)
           \/ LedgerRefuses(r) \/ ReadRaises(r)
    BY <1>3 DEF RefusePlan, BreachLimit, AcceptPlan, SubmitRefused, ReadRaises, LedgerRefuses
<1>4. CASE AppendForecasts(r) \/ AppendBreach(r) \/ AppendEquity(r) \/ AppendPlan(r)
    BY <1>4 DEF AppendForecasts, AppendBreach, AppendEquity, AppendPlan
<1>5. ASSUME NEW o \in todo[r],
             AppendIntent(r, o) \/ SubmitDead(r, o) \/ AppendAccepted(r, o) \/ AppendFailed(r, o)
      PROVE  positions' = positions /\ pending' = pending /\ planned' = planned
    BY <1>5 DEF AppendIntent, SubmitDead, AppendAccepted, AppendFailed
<1>6. ASSUME NEW o \in todo[r], SubmitReceived(r, o)
      PROVE  positions' = positions /\ pending' = pending \cup {o} /\ planned' = planned
    BY <1>6 DEF SubmitReceived
<1> QED
    BY <1>1, <1>2, <1>3, <1>4, <1>5, <1>6 DEF StepOf, RunStep

-----------------------------------------------------------------------------
(***************************************************************************)
(* Holdings stay inside the last accepted plan.                            *)
(***************************************************************************)
LEMMA LoopIsRealStep ==
    ASSUME Serial, AttemptedOnceInv, LoopIsReal, [Next]_vars
    PROVE  LoopIsReal'
<1>1. CASE Surroundings \/ UNCHANGED vars
    BY <1>1, AroundRuns DEF LoopIsReal
<1>2. ASSUME NEW r \in Runs, StepOf(r) PROVE LoopIsReal'
  <2>1. \A s \in Runs : s # r => pc'[s] \notin {"submit"} \cup OrderKinds
      BY <1>2, OthersAreIdle DEF Active, OrderKinds
  <2>2. ASSUME pc'[r] \in {"submit"} \cup OrderKinds
        PROVE  ~dry[r] /\ dry'[r] = dry[r]
    <3>1. dry'[r] = dry[r]
        BY <1>2, <2>2, OwnReadings DEF AttemptedOnceInv, OrderKinds
    <3>2. ~dry[r]
        BY <1>2, <2>2, Origin
        DEF AttemptedOnceInv, LoopIsReal, OrderKinds, AppendAccepted, AppendIntent,
            SubmitReceived, SubmitRefused, SubmitDead
    <3> QED
        BY <3>1, <3>2
  <2> QED
      BY <2>1, <2>2 DEF LoopIsReal
<1> QED
    BY <1>1, <1>2, StepKinds

\* Between two runs, and before a run submits, no order of this cycle is open at the broker.
LEMMA NothingOpenStep ==
    ASSUME Serial, AttemptedOnceInv, NothingOpen, [Next]_vars
    PROVE  NothingOpen'
<1>1. CASE Surroundings \/ UNCHANGED vars
  <2>1. pending = {} => pending' = {} /\ positions' = positions
      BY <1>1, AroundRuns
  <2> QED
      BY <1>1, <2>1, AroundRuns DEF NothingOpen
<1>2. ASSUME NEW r \in Runs, StepOf(r) PROVE NothingOpen'
  <2> USE DEF AttemptedOnceInv
  <2>1. \A s \in Runs : s # r =>
            pc'[s] \notin {"account", "positions", "bars", "forecasts", "planning"}
      BY <1>2, OthersAreIdle DEF Active
  <2>2. ASSUME pc'[r] \in {"account", "positions", "bars", "forecasts", "planning"}
        PROVE  pending' = {} /\ positions' = positions
    <3>1. positions' = positions /\ pending' = pending
        BY <1>2, <2>2, BrokerStep DEF SubmitReceived, Goto, TypeOK
    <3>2. pending = {}
        BY <1>2, <2>2, Origin
        DEF NothingOpen, GetAccount, GetPositions, AppendForecasts
    <3> QED
        BY <3>1, <3>2
  <2>3. ASSUME pc'[r] \in {"forecasts", "planning"}
        PROVE  held'[r] = held[r] /\ held[r] = positions
      BY <1>2, <2>3, Origin, OwnReadings DEF NothingOpen, AppendForecasts
  <2>4. ASSUME pc'[r] = "bars"
        PROVE  held'[r] = positions
      BY <1>2, <2>4, Origin DEF GetPositions, TypeOK
  <2> QED
      BY <2>1, <2>2, <2>3, <2>4 DEF NothingOpen
<1> QED
    BY <1>1, <1>2, StepKinds

\* Only the acceptance of a real plan adds to what can move a holding.
LEMMA OpenShrinks ==
    ASSUME Serial, PlanBoundInv, NEW r \in Runs, StepOf(r), ~(AcceptPlan(r) /\ ~dry[r])
    PROVE  /\ Open' \subseteq Open
           /\ \A s \in Runs : pending' \cap Unsent(s)' = {}
<1> USE DEF PlanBoundInv, AttemptedOnceInv
<1>1. \A s \in Runs : s # r => Unsent(s)' = {}
    BY OthersAreIdle DEF Unsent
<1>2. ASSUME pc'[r] \in {"equity", "plan", "order_intent", "submit", "order_accepted"}, ~dry'[r]
      PROVE  /\ ~dry[r]
             /\ \/ pc[r] \in {"equity", "plan", "order_intent"} /\ todo'[r] = todo[r]
                \/ /\ pc[r] = "order_accepted"
                   /\ \E o \in todo[r] : IsCurrent(r, o) /\ todo'[r] = todo[r] \ {o}
                \/ \E o \in todo[r] : SubmitReceived(r, o) /\ pc'[r] = "order_accepted"
  <2>1. ~dry[r]
      BY <1>2, OwnReadings
  <2>2. todo \in [Runs -> SUBSET PlannedOrders] /\ pc \in [Runs -> Pcs]
      BY DEF TypeOK
  <2>3. CASE pc'[r] = "plan"
      BY <2>1, <2>3, Origin DEF AppendEquity
  <2>4. CASE pc'[r] = "order_intent"
    <3>1. ASSUME AppendPlan(r) PROVE pc[r] = "plan" /\ todo'[r] = todo[r]
        BY <2>2, <2>4, <3>1 DEF AppendPlan, Exit, Goto
    <3>2. ASSUME NEW o \in todo[r], AppendAccepted(r, o)
          PROVE  pc[r] = "order_accepted" /\ IsCurrent(r, o) /\ todo'[r] = todo[r] \ {o}
        BY <2>2, <2>4, <3>2 DEF AppendAccepted, Exit, Goto
    <3> QED
        BY <2>1, <2>4, <3>1, <3>2, Origin
  <2>5. CASE pc'[r] = "submit"
      BY <2>1, <2>5, Origin DEF AppendIntent
  <2>6. CASE pc'[r] = "order_accepted"
      BY <2>1, <2>6, Origin
  <2>7. CASE pc'[r] = "equity"
      BY <2>1, <2>7, Origin
  <2> QED
      BY <1>2, <2>1, <2>3, <2>4, <2>5, <2>6, <2>7
<1>3. ASSUME NEW o \in todo[r], SubmitReceived(r, o)
      PROVE  /\ o \in Unsent(r)
             /\ pending' = pending \cup {o}
             /\ Unsent(r)' \subseteq Unsent(r) \ {o}
  <2>1. /\ pc[r] = "submit" /\ IsCurrent(r, o) /\ todo' = todo /\ dry' = dry
        /\ pending' = pending \cup {o}
        /\ pc'[r] \in {"order_accepted", "order_failed"}
      BY <1>3 DEF SubmitReceived, Goto, views, TypeOK
  <2>2. ~dry[r]
      BY <2>1 DEF LoopIsReal
  <2>3. Unsent(r) = todo[r]
      BY <2>1, <2>2 DEF Unsent
  <2>4. Unsent(r)' \subseteq {p \in todo[r] : ~IsCurrent(r, p)'}
      BY <2>1 DEF Unsent
  <2>5. IsCurrent(r, o)'
      BY <2>1 DEF IsCurrent
  <2> QED
      BY <2>1, <2>3, <2>4, <2>5
<1>4. ASSUME ~\E o \in todo[r] : SubmitReceived(r, o)
      PROVE  Unsent(r)' \subseteq Unsent(r) /\ pending' = pending
  <2>1. pending' = pending
      BY <1>4, BrokerStep
  <2>2. CASE \/ pc'[r] \notin {"equity", "plan", "order_intent", "submit", "order_accepted"}
             \/ dry'[r]
      BY <2>1, <2>2 DEF Unsent
  <2>3. CASE ~dry[r] /\ pc[r] \in {"equity", "plan", "order_intent"} /\ todo'[r] = todo[r]
      BY <2>1, <2>3 DEF Unsent
  <2>4. ASSUME ~dry[r], pc[r] = "order_accepted", NEW o \in todo[r], IsCurrent(r, o),
               todo'[r] = todo[r] \ {o}
        PROVE  Unsent(r)' \subseteq Unsent(r)
    <3>1. \A p \in todo[r] : p # o => ~IsCurrent(r, p)
        BY <2>4, CurrentIsUnique
    <3>2. todo[r] \ {o} \subseteq Unsent(r)
        BY <2>4, <3>1 DEF Unsent
    <3> QED
        BY <2>4, <3>2 DEF Unsent
  <2> QED
      BY <1>2, <1>4, <2>1, <2>2, <2>3, <2>4
<1>5. pending \cap Unsent(r) = {} /\ pending \subseteq Open /\ Unsent(r) \subseteq Open
    BY DEF OpenWithinPlan, Open
<1>6. pending' \subseteq Open /\ Unsent(r)' \subseteq Open /\ pending' \cap Unsent(r)' = {}
  <2>1. CASE \E o \in todo[r] : SubmitReceived(r, o)
      BY <1>3, <1>5, <2>1
  <2>2. CASE ~\E o \in todo[r] : SubmitReceived(r, o)
      BY <1>4, <1>5, <2>2
  <2> QED
      BY <2>1, <2>2
<1> QED
    BY <1>1, <1>6 DEF Open

\* A run that accepts a real plan opens its orders, on the positions it has read.
LEMMA AcceptedWithinPlan ==
    ASSUME Serial, PlanBoundInv, NEW r \in Runs, AcceptPlan(r), ~dry[r]
    PROVE  OpenWithinPlan' /\ HoldingsWithinPlan'
<1> USE DEF PlanBoundInv, AttemptedOnceInv
<1>1. StepOf(r)
    BY DEF StepOf, RunStep
<1> DEFINE after == QtyAfter(PlanOf(r), held[r])
<1>2. /\ pc[r] = "planning" /\ pc'[r] = "equity"
      /\ positions' = positions /\ pending' = pending /\ dry'[r] = dry[r]
      /\ todo'[r] = PlanOf(r)
      /\ planned' = [lo |-> [t \in Tickers |-> Least(held[r][t], after[t])],
                     hi |-> [t \in Tickers |-> Greatest(held[r][t], after[t])]]
    BY DEF AcceptPlan, broker, views, Goto, TypeOK
<1>3. pending = {} /\ held[r] = positions
    BY <1>2 DEF NothingOpen
<1>4. Open' = PlanOf(r)
  <2>1. \A s \in Runs : s # r => Unsent(s)' = {}
      BY <1>1, OthersAreIdle DEF Unsent
  <2>2. Unsent(r)' = PlanOf(r)
      BY <1>2 DEF Unsent
  <2> QED
      BY <1>2, <1>3, <2>1, <2>2 DEF Open
<1>5. /\ PlanOf(r) \subseteq PlannedOrders
      /\ \A o, p \in PlanOf(r) : o.ticker = p.ticker => o = p
    BY PlanOfType
<1>6. positions \in [Tickers -> Int]
    BY DEF TypeOK
<1>7. \A o \in PlanOf(r) : o.qty \in Nat /\ o.ticker \in Tickers
    BY <1>5 DEF PlannedOrders
<1>8. \A t \in Tickers :
        /\ after[t] \in Int
        /\ \A o \in PlanOf(r) : o.ticker = t => after[t] = positions[t] + Bought(o)
    BY <1>3, <1>5, <1>6, <1>7, QtyAfterOne
<1> HIDE DEF after
<1>9. /\ planned'.lo = [t \in Tickers |-> Least(positions[t], after[t])]
      /\ planned'.hi = [t \in Tickers |-> Greatest(positions[t], after[t])]
    BY <1>2, <1>3
<1>10. \A t \in Tickers :
        /\ planned'.lo[t] \in Int /\ planned'.hi[t] \in Int
        /\ planned'.lo[t] <= positions[t] /\ planned'.lo[t] <= after[t]
        /\ positions[t] <= planned'.hi[t] /\ after[t] <= planned'.hi[t]
  <2> TAKE t \in Tickers
  <2>1. positions[t] \in Int /\ after[t] \in Int
      BY <1>6, <1>8
  <2>2. planned'.lo[t] = Least(positions[t], after[t])
        /\ planned'.hi[t] = Greatest(positions[t], after[t])
      BY <1>9
  <2> QED
      BY <2>1, <2>2 DEF Least, Greatest
<1>11. HoldingsWithinPlan'
    BY <1>2, <1>9, <1>10 DEF HoldingsWithinPlan
<1>12. ASSUME NEW o \in PlanOf(r)
       PROVE  /\ o.side = "buy" => positions[o.ticker] + o.qty <= planned'.hi[o.ticker]
              /\ o.side = "sell" => planned'.lo[o.ticker] <= positions[o.ticker] - o.qty
  <2>1. positions[o.ticker] \in Int /\ o.qty \in Int
      BY <1>6, <1>7
  <2> QED
      BY <1>7, <1>8, <1>10, <2>1 DEF Bought
<1>13. \A s \in Runs : pending' \cap Unsent(s)' = {}
    BY <1>2, <1>3
<1> QED
    BY <1>2, <1>4, <1>5, <1>11, <1>12, <1>13 DEF OpenWithinPlan

\* A fill shrinks one open order by what it moves the holding.
LEMMA FilledWithinPlan ==
    ASSUME PlanBoundInv, NEW o \in pending, NEW qty \in 1..o.qty, Fill(o, qty)
    PROVE  OpenWithinPlan' /\ HoldingsWithinPlan'
<1> USE DEF PlanBoundInv, AttemptedOnceInv
<1> DEFINE rest == [o EXCEPT !.qty = @ - qty]
           left == IF qty = o.qty THEN {} ELSE {rest}
           t == o.ticker
           bought == IF o.side = "buy" THEN qty ELSE -qty
<1>1. /\ o \in PlannedOrders /\ o.qty \in Nat \ {0} /\ t \in Tickers /\ o.side \in Sides
      /\ qty \in Nat \ {0} /\ qty <= o.qty
    BY DEF TypeOK, PlannedOrders
<1>2. rest.ticker = t /\ rest.side = o.side /\ rest.qty = o.qty - qty
    BY <1>1 DEF PlannedOrders
<1>3. /\ pending' = (pending \ {o}) \cup left
      /\ positions' = [positions EXCEPT ![t] = @ + bought]
      /\ planned' = planned
      /\ \A r \in Runs : Unsent(r)' = Unsent(r)
    BY DEF Fill, views, Unsent, IsCurrent
<1>4. /\ positions \in [Tickers -> Int]
      /\ positions' \in [Tickers -> Int]
      /\ positions'[t] = positions[t] + bought
      /\ \A u \in Tickers \ {t} : positions'[u] = positions[u]
  <2>1. positions \in [Tickers -> Int]
      BY DEF TypeOK
  <2>2. bought \in Int
      BY <1>1
  <2> HIDE DEF bought
  <2> QED
      BY <1>1, <1>3, <2>1, <2>2
<1> HIDE DEF rest, t
<1>5. \A p \in Open' : \/ p \in Open /\ p # o /\ p.ticker # t
                       \/ p = rest /\ p \notin Open /\ qty # o.qty
  <2>1. \A p \in Open : p.ticker = t => p = o
      BY DEF OpenWithinPlan, Open, t
  <2>2. \A r \in Runs : o \notin Unsent(r)
      BY DEF OpenWithinPlan
  <2>3. rest # o
      BY <1>1, <1>2
  <2> QED
      BY <1>2, <1>3, <2>1, <2>2, <2>3 DEF Open
<1>6. \A p, q \in Open' : p.ticker = q.ticker => p = q
    BY <1>2, <1>5 DEF OpenWithinPlan
<1>7. \A r \in Runs : pending' \cap Unsent(r)' = {}
  <2>1. rest \notin Open
      BY <1>1, <1>2 DEF OpenWithinPlan, Open, t
  <2>2. \A r \in Runs : rest \notin Unsent(r) /\ pending \cap Unsent(r) = {}
      BY <2>1 DEF OpenWithinPlan, Open
  <2>3. pending' \subseteq pending \cup {rest}
      BY <1>3
  <2> QED
      BY <1>3, <2>2, <2>3
<1>8. /\ planned.lo[t] \in Int /\ planned.hi[t] \in Int /\ positions[t] \in Int
      /\ planned.lo[t] <= positions[t] /\ positions[t] <= planned.hi[t]
      /\ o.side = "buy" => positions[t] + o.qty <= planned.hi[t]
      /\ o.side = "sell" => planned.lo[t] <= positions[t] - o.qty
    BY <1>1, <1>4 DEF HoldingsWithinPlan, OpenWithinPlan, Open, t
<1>9. HoldingsWithinPlan'
  <2>1. planned.lo[t] <= positions'[t] /\ positions'[t] <= planned.hi[t]
      BY <1>1, <1>4, <1>8 DEF Sides
  <2> QED
      BY <1>3, <1>4, <2>1 DEF HoldingsWithinPlan
<1>10. ASSUME NEW p \in Open'
       PROVE  /\ p.side = "buy" => positions'[p.ticker] + p.qty <= planned.hi[p.ticker]
              /\ p.side = "sell" => planned.lo[p.ticker] <= positions'[p.ticker] - p.qty
  <2>1. CASE p \in Open /\ p.ticker # t
    <3>1. p.ticker \in Tickers
        BY <2>1 DEF Open, Unsent, TypeOK, PlannedOrders
    <3> QED
        BY <1>4, <2>1, <3>1 DEF OpenWithinPlan
  <2>2. CASE p = rest
    <3>1. CASE o.side = "buy"
        BY <1>1, <1>2, <1>4, <1>8, <2>2, <3>1
    <3>2. CASE o.side = "sell"
        BY <1>1, <1>2, <1>4, <1>8, <2>2, <3>2
    <3> QED
        BY <1>1, <1>2, <2>2, <3>1, <3>2 DEF Sides
  <2> QED
      BY <1>5, <2>1, <2>2
<1> QED
    BY <1>3, <1>6, <1>7, <1>9, <1>10 DEF OpenWithinPlan

\* The broker's open orders stay among those planned, and the holdings within their bound.
LEMMA WithinPlanStep ==
    ASSUME Serial, PlanBoundInv, [Next]_vars
    PROVE  OpenWithinPlan' /\ HoldingsWithinPlan'
<1> DEFINE Shrinks == /\ Open' \subseteq Open
                      /\ \A s \in Runs : pending' \cap Unsent(s)' = {}
                      /\ positions' = positions /\ planned' = planned
<1>1. ASSUME Shrinks PROVE OpenWithinPlan' /\ HoldingsWithinPlan'
    BY <1>1 DEF PlanBoundInv, OpenWithinPlan, HoldingsWithinPlan
<1>2. CASE Surroundings \/ UNCHANGED vars
  <2>1. \A s \in Runs : Unsent(s)' = Unsent(s)
      BY <1>2, AroundRuns DEF Unsent, IsCurrent
  <2>2. CASE pending' \subseteq pending /\ positions' = positions
    <3>1. Shrinks
        BY <1>2, <2>1, <2>2, AroundRuns DEF PlanBoundInv, OpenWithinPlan, Open
    <3> QED
        BY <1>1, <3>1
  <2>3. CASE \E o \in pending : \E qty \in 1..o.qty : Fill(o, qty)
      BY <2>3, FilledWithinPlan
  <2> QED
      BY <1>2, <2>2, <2>3, AroundRuns
<1>3. ASSUME NEW r \in Runs, StepOf(r)
      PROVE  OpenWithinPlan' /\ HoldingsWithinPlan'
  <2>1. CASE AcceptPlan(r) /\ ~dry[r]
      BY <2>1, AcceptedWithinPlan
  <2>2. CASE ~(AcceptPlan(r) /\ ~dry[r])
    <3>1. Shrinks
        BY <1>3, <2>2, OpenShrinks, BrokerStep DEF PlanBoundInv, AttemptedOnceInv
    <3> QED
        BY <1>1, <3>1
  <2> QED
      BY <2>1, <2>2
<1> QED
    BY <1>2, <1>3, StepKinds

\* With runs kept apart, the plan's bound on the holdings holds in every reachable state.
LEMMA PlanBoundHolds == Serial => (Spec => []PlanBoundInv)
<1> SUFFICES ASSUME Serial PROVE Spec => []PlanBoundInv
    OBVIOUS
<1>1. Init => LoopIsReal /\ NothingOpen /\ OpenWithinPlan /\ HoldingsWithinPlan
  <2> SUFFICES ASSUME Init PROVE LoopIsReal /\ NothingOpen /\ OpenWithinPlan /\ HoldingsWithinPlan
      OBVIOUS
  <2>1. Open = {} /\ \A r \in Runs : pc[r] = "idle"
      BY DEF Init, Open, Unsent
  <2>2. LoopIsReal /\ NothingOpen
      BY <2>1 DEF LoopIsReal, NothingOpen, OrderKinds
  <2>3. OpenWithinPlan
      BY <2>1 DEF OpenWithinPlan, Open
  <2>4. HoldingsWithinPlan
    <3>1. StartHeld \in [Tickers -> Int] /\ positions = StartHeld
          /\ planned.lo = StartHeld /\ planned.hi = StartHeld
        BY CycleAssumption DEF Init
    <3> QED
        BY <3>1 DEF HoldingsWithinPlan
  <2> QED
      BY <2>2, <2>3, <2>4
<1>2. /\ LoopIsReal /\ NothingOpen /\ OpenWithinPlan /\ HoldingsWithinPlan
      /\ AttemptedOnceInv /\ AttemptedOnceInv' /\ [Next]_vars
      => (LoopIsReal /\ NothingOpen /\ OpenWithinPlan /\ HoldingsWithinPlan)'
    BY LoopIsRealStep, NothingOpenStep, WithinPlanStep DEF PlanBoundInv
<1>3. Spec => []AttemptedOnceInv
    BY NeverRepeatedInv
<1>4. PlanBoundInv <=> /\ AttemptedOnceInv
                       /\ LoopIsReal /\ NothingOpen /\ OpenWithinPlan /\ HoldingsWithinPlan
    BY DEF PlanBoundInv
<1> QED
    BY <1>1, <1>2, <1>3, <1>4, PTL DEF Spec

\* What is pending is a sum over open orders.
LEMMA PendingQtyIsSum ==
    ASSUME NEW t, NEW side
    PROVE  LET S == {o \in pending : o.ticker = t /\ o.side = side}
           IN  PendingQty(t, side) = SumOver([o \in S |-> o.qty], S)
<1> DEFINE S == {o \in pending : o.ticker = t /\ o.side = side}
           F == [o \in S |-> o.qty]
           Next0(g, s) == LET x == CHOOSE y \in s : TRUE IN x.qty + g[s \ {x}]
           Folds(g) == g = [s \in SUBSET S |-> IF s = {} THEN 0 ELSE Next0(g, s)]
<1>1. PendingQty(t, side) = (CHOOSE g : Folds(g))[S]
    BY DEF PendingQty, MapThenSumSet, MapThenFoldSet
<1>2. ASSUME NEW g PROVE IsSum(F, g, S) <=> Folds(g)
  <2>1. \A s \in SUBSET S : s # {} => Plus(F, g, s) = Next0(g, s)
      BY DEF Plus
  <2> HIDE DEF Next0, F, S
  <2> QED
      BY <2>1 DEF IsSum
<1> HIDE DEF Folds, F
<1>3. (CHOOSE g : IsSum(F, g, S)) = (CHOOSE g : Folds(g))
    BY <1>2
<1> QED
    BY <1>1, <1>3 DEF SumOver, F

\* Whatever fills, expires or crashes, holdings and open orders together stay in the
\* range of the last accepted plan: no two runs ever add up their orders.
THEOREM HoldingsFollowThePlan == Serial => (Spec => []PositionsWithinPlan)
<1> SUFFICES ASSUME Serial PROVE Spec => []PositionsWithinPlan
    OBVIOUS
<1>1. ASSUME PlanBoundInv PROVE PositionsWithinPlan
  <2> SUFFICES ASSUME NEW t \in Tickers
               PROVE  /\ planned.lo[t] <= positions[t] - PendingQty(t, "sell")
                      /\ positions[t] + PendingQty(t, "buy") <= planned.hi[t]
      BY DEF PositionsWithinPlan
  <2> DEFINE S(side) == {o \in pending : o.ticker = t /\ o.side = side}
             F(side) == [o \in S(side) |-> o.qty]
  <2>1. \A side \in Sides : PendingQty(t, side) = SumOver(F(side), S(side))
      BY PendingQtyIsSum
  <2>2. \A side \in Sides :
            \/ S(side) = {}
            \/ \E o \in S(side) : S(side) = {o} /\ F(side)[o] = o.qty /\ o.qty \in Nat
    <3>1. /\ \A o \in pending : o.qty \in Nat
          /\ \A o, p \in pending : o.ticker = p.ticker => o = p
        BY <1>1 DEF PlanBoundInv, AttemptedOnceInv, TypeOK, PlannedOrders, OpenWithinPlan, Open
    <3>2. ASSUME NEW side \in Sides, NEW o \in S(side)
          PROVE  S(side) = {o} /\ F(side)[o] = o.qty /\ o.qty \in Nat
        BY <3>1, <3>2
    <3> HIDE DEF S, F
    <3> QED
        BY <3>2
  <2>3. \A side \in Sides :
            \/ PendingQty(t, side) = 0
            \/ \E o \in pending : /\ o.ticker = t /\ o.side = side
                                  /\ o.qty \in Nat /\ PendingQty(t, side) = o.qty
    <3> TAKE side \in Sides
    <3>1. CASE S(side) = {}
        BY <2>1, <3>1, SumEmpty
    <3>2. ASSUME NEW o \in S(side), S(side) = {o}, F(side)[o] = o.qty, o.qty \in Nat
          PROVE  PendingQty(t, side) = o.qty
      <4>1. SumOver(F(side), {o}) = F(side)[o]
          BY <3>2, SumSingle
      <4> QED
          BY <2>1, <3>2, <4>1
    <3> QED
        BY <2>2, <3>1, <3>2
  <2>4. /\ positions[t] \in Int /\ planned.lo[t] \in Int /\ planned.hi[t] \in Int
        /\ planned.lo[t] <= positions[t] /\ positions[t] <= planned.hi[t]
      BY <1>1 DEF PlanBoundInv, AttemptedOnceInv, TypeOK, HoldingsWithinPlan
  <2>5. \A o \in pending : o.ticker = t =>
            /\ o.side = "buy" => positions[t] + o.qty <= planned.hi[t]
            /\ o.side = "sell" => planned.lo[t] <= positions[t] - o.qty
      BY <1>1 DEF PlanBoundInv, OpenWithinPlan, Open
  <2> QED
      BY <2>3, <2>4, <2>5 DEF Sides
<1> QED
    BY <1>1, PlanBoundHolds, PTL

-----------------------------------------------------------------------------
(***************************************************************************)
(* A date has no more orders than its budget.                              *)
(***************************************************************************)
\* Ids of a torn line.
LEMMA TornIdsAre ==
    ASSUME TypeOK, NEW kinds
    PROVE  /\ torn = <<>> => TornIds(kinds) = {}
           /\ torn # <<>> =>
                 TornIds(kinds) = IF torn[1].kind \in kinds THEN {torn[1].id} ELSE {}
BY TornShape DEF TornIds

\* A line just torn.
LEMMA TornIdsAfter ==
    ASSUME NEW kinds
    PROVE  /\ torn' = <<>> => TornIds(kinds)' = {}
           /\ \A line : torn' = <<line>> =>
                 TornIds(kinds)' = IF line.kind \in kinds THEN {line.id} ELSE {}
<1>1. ASSUME torn' = <<>> PROVE TornIds(kinds)' = {}
    BY <1>1 DEF TornIds
<1>2. ASSUME NEW line, torn' = <<line>>
      PROVE  TornIds(kinds)' = IF line.kind \in kinds THEN {line.id} ELSE {}
  <2>1. DOMAIN torn' = {1} /\ torn'[1] = line
      BY <1>2
  <2> QED
      BY <2>1 DEF TornIds
<1> QED
    BY <1>1, <1>2

\* An intent's id is claimed before it is written.
LEMMA IntentIsClaimed ==
    ASSUME TypeOK, NEW r \in Runs, pc[r] \in AppendPcs, NEW line \in NextLines(r),
           line.kind = "order_intent"
    PROVE  line.id \in Claimed
BY LineKinds DEF Claimed, RunKinds, AppendPcs

\* Only a plan claims ids.
LEMMA ClaimedShrinks ==
    ASSUME Serial, AttemptedOnceInv, [Next]_vars, ~\E r \in Runs : AcceptPlan(r)
    PROVE  Claimed' \subseteq Claimed
<1> USE DEF AttemptedOnceInv
<1> DEFINE TodoIds == UNION {{ClientOrderId(o) : o \in todo[r]} : r \in Runs}
<1>1. CASE Surroundings \/ UNCHANGED vars
  <2>1. TodoIds' = TodoIds
      BY <1>1, AroundRuns
  <2>2. CASE ledger' = ledger /\ torn' = torn
      BY <2>1, <2>2 DEF Claimed, AttemptedIds, LinesOf, TornIds
  <2>3. CASE torn # <<>> /\ torn' = <<>> /\ (ledger' = ledger \/ ledger' = Append(ledger, torn[1]))
    <3>1. torn[1] \in Records
        BY <2>3, TornShape
    <3>2. AttemptedIds' \subseteq AttemptedIds \cup TornIds({"order_intent"})
      <4>1. CASE ledger' = ledger
          BY <4>1 DEF AttemptedIds, LinesOf
      <4>2. CASE ledger' = Append(ledger, torn[1])
          BY <2>3, <3>1, <4>2, AppendIds, TornIdsAre
      <4> QED
          BY <2>3, <4>1, <4>2
    <3>3. TornIds({"order_intent"})' = {}
        BY <2>3, TornIdsAfter
    <3> QED
        BY <2>1, <3>2, <3>3 DEF Claimed
  <2> QED
      BY <1>1, <2>2, <2>3, AroundRuns
<1>2. ASSUME NEW r \in Runs, StepOf(r) PROVE Claimed' \subseteq Claimed
  <2>1. TodoIds' \subseteq TodoIds
    <3>1. todo'[r] \subseteq todo[r]
        BY <1>2, RunAdvance
    <3>2. \A s \in Runs : s # r => todo'[s] = todo[s]
        BY <1>2, OthersAreIdle
    <3> QED
        BY <3>1, <3>2
  <2>2. CASE ledger' = ledger /\ torn' = torn
      BY <2>1, <2>2 DEF Claimed, AttemptedIds, LinesOf, TornIds
  <2>3. ASSUME pc[r] \in AppendPcs, NEW line \in NextLines(r),
               ledger' = Append(ledger, line), torn' = torn
        PROVE  Claimed' \subseteq Claimed
    <3>1. line \in Records
        BY <2>3, LineKinds
    <3>2. AttemptedIds' \subseteq Claimed
        BY <2>3, <3>1, AppendIds, IntentIsClaimed DEF Claimed
    <3>3. TornIds({"order_intent"})' = TornIds({"order_intent"})
        BY <2>3 DEF TornIds
    <3> QED
        BY <2>1, <3>2, <3>3 DEF Claimed
  <2>4. ASSUME pc[r] \in AppendPcs, NEW line \in NextLines(r),
               ledger' = ledger, torn' = <<line>>
        PROVE  Claimed' \subseteq Claimed
    <3>1. AttemptedIds' = AttemptedIds
        BY <2>4 DEF AttemptedIds, LinesOf
    <3>2. TornIds({"order_intent"})' \subseteq Claimed
        BY <2>4, TornIdsAfter, IntentIsClaimed
    <3> QED
        BY <2>1, <3>1, <3>2 DEF Claimed
  <2> QED
      BY <1>2, <2>2, <2>3, <2>4, FilesStep
<1> QED
    BY <1>1, <1>2, StepKinds

\* The orders of a date in the ledger and those of a plan, counted together.
LEMMA PlannedWithinBudget ==
    ASSUME TypeOK, NEW r \in Runs, PassesCheck(r)
    PROVE  LET ids == {id \in AttemptedIds : id[1] = asOf[r]}
                        \cup {ClientOrderId(o) : o \in PlanOf(r)}
           IN  IsFiniteSet(ids) /\ Cardinality(ids) <= MaxOrdersPerDay
<1> DEFINE lines == {i \in LinesOf("order_intent") : ledger[i].id[1] = asOf[r]}
           idAt == [i \in lines |-> ledger[i].id]
           old == {idAt[i] : i \in lines}
           orders == PlanOf(r)
           idOf == [o \in orders |-> ClientOrderId(o)]
           new == {idOf[o] : o \in orders}
<1>1. IsFiniteSet(lines) /\ Cardinality(lines) = OrdersAttemptedOn(asOf[r])
  <2>1. DOMAIN ledger = 1..Len(ledger) /\ Len(ledger) \in Nat
      BY DEF TypeOK
  <2>2. IsFiniteSet(1..Len(ledger))
      BY <2>1, FS_Interval
  <2>3. lines \in SUBSET (1..Len(ledger))
      BY <2>1 DEF LinesOf
  <2> QED
      BY <2>2, <2>3, FS_Subset DEF OrdersAttemptedOn
<1>2. IsFiniteSet(orders)
    BY PlanIsFinite DEF PlanOf
<1>3. OrdersAttemptedOn(asOf[r]) + Cardinality(orders) <= MaxOrdersPerDay
    BY DEF PassesCheck, CheckPlan, WithinDailyOrders
<1>4. old = {id \in AttemptedIds : id[1] = asOf[r]}
    BY DEF AttemptedIds
<1>5. new = {ClientOrderId(o) : o \in orders}
    OBVIOUS
<1> HIDE DEF lines, orders, idAt, idOf
<1>6. /\ IsFiniteSet(old) /\ Cardinality(old) <= Cardinality(lines)
      /\ IsFiniteSet(new) /\ Cardinality(new) <= Cardinality(orders)
    BY <1>1, <1>2, ImageFinite
<1> HIDE DEF old, new
<1>7. /\ Cardinality(old) \in Nat /\ Cardinality(lines) \in Nat
      /\ Cardinality(new) \in Nat /\ Cardinality(orders) \in Nat
      /\ Cardinality(old \cap new) \in Nat
  <2>1. IsFiniteSet(old \cap new)
      BY <1>6, FS_Subset
  <2> QED
      BY <1>1, <1>2, <1>6, <2>1, FS_CardinalityType
<1>8. /\ IsFiniteSet(old \cup new)
      /\ Cardinality(old \cup new) = Cardinality(old) + Cardinality(new) - Cardinality(old \cap new)
    BY <1>6, FS_Union
<1>9. MaxOrdersPerDay \in Nat
    BY ConfigAssumption
<1>10. Cardinality(old \cup new) <= MaxOrdersPerDay
    BY <1>1, <1>3, <1>6, <1>7, <1>8, <1>9
<1> QED
    BY <1>4, <1>5, <1>8, <1>10 DEF orders

\* No step claims more orders of a date than the daily limit.
LEMMA BudgetStep ==
    ASSUME Serial, BudgetInv, [Next]_vars, NEW d \in Days
    PROVE  IsFiniteSet(ClaimedOn(d)') /\ Cardinality(ClaimedOn(d)') <= MaxOrdersPerDay
<1> USE DEF BudgetInv, AttemptedOnceInv
<1>1. ASSUME ClaimedOn(d)' \subseteq ClaimedOn(d)
      PROVE  IsFiniteSet(ClaimedOn(d)') /\ Cardinality(ClaimedOn(d)') <= MaxOrdersPerDay
  <2>1. IsFiniteSet(ClaimedOn(d)) /\ Cardinality(ClaimedOn(d)) <= MaxOrdersPerDay
      OBVIOUS
  <2>2. /\ IsFiniteSet(ClaimedOn(d)')
        /\ Cardinality(ClaimedOn(d)') <= Cardinality(ClaimedOn(d))
      BY <1>1, <2>1, FS_Subset
  <2>3. Cardinality(ClaimedOn(d)) \in Nat /\ Cardinality(ClaimedOn(d)') \in Nat
      BY <2>1, <2>2, FS_CardinalityType
  <2> QED
      BY <2>1, <2>2, <2>3, ConfigAssumption
<1>2. CASE ~\E r \in Runs : AcceptPlan(r)
    BY <1>1, <1>2, ClaimedShrinks DEF ClaimedOn
<1>3. ASSUME NEW r \in Runs, AcceptPlan(r)
      PROVE  IsFiniteSet(ClaimedOn(d)') /\ Cardinality(ClaimedOn(d)') <= MaxOrdersPerDay
  <2>1. StepOf(r)
      BY <1>3 DEF StepOf, RunStep
  <2>2. /\ torn' = <<>> /\ ledger' = ledger /\ todo'[r] = PlanOf(r) /\ PassesCheck(r)
      BY <1>3 DEF AcceptPlan, files, TypeOK
  <2>3. \A s \in Runs : s # r => todo'[s] = {}
      BY <2>1, OthersAreIdle
  <2>4. Claimed' = AttemptedIds \cup {ClientOrderId(o) : o \in PlanOf(r)}
    <3>1. AttemptedIds' = AttemptedIds
        BY <2>2 DEF AttemptedIds, LinesOf
    <3>2. TornIds({"order_intent"})' = {}
        BY <2>2, TornIdsAfter
    <3>3. (UNION {{ClientOrderId(o) : o \in todo[s]} : s \in Runs})'
             = {ClientOrderId(o) : o \in PlanOf(r)}
        BY <2>2, <2>3
    <3> QED
        BY <3>1, <3>2, <3>3 DEF Claimed
  <2>5. \A o \in PlanOf(r) : ClientOrderId(o)[1] = asOf[r]
    <3>1. \A o \in PlanOf(r) : o.day = asOf[r]
        BY PlanIsOrders DEF PlanOf, OrderFor
    <3> QED
        BY <3>1 DEF ClientOrderId
  <2>6. CASE d = asOf[r]
    <3>1. ClaimedOn(d)' = {id \in AttemptedIds : id[1] = asOf[r]}
                             \cup {ClientOrderId(o) : o \in PlanOf(r)}
        BY <2>4, <2>5, <2>6 DEF ClaimedOn
    <3> QED
        BY <2>2, <3>1, PlannedWithinBudget
  <2>7. CASE d # asOf[r]
    <3>1. ClaimedOn(d)' \subseteq ClaimedOn(d)
        BY <2>4, <2>5, <2>7 DEF ClaimedOn, Claimed
    <3> QED
        BY <1>1, <3>1
  <2> QED
      BY <2>6, <2>7
<1> QED
    BY <1>2, <1>3

\* No more than max_orders_per_day orders of one date reach the broker, however many
\* runs that date has, and whichever of them fail, crash or are repaired.
THEOREM NoDateOverBudget == Serial => (Spec => []DailyOrderLimit)
<1> SUFFICES ASSUME Serial PROVE Spec => []DailyOrderLimit
    OBVIOUS
<1> DEFINE Budget == \A d \in Days :
                        IsFiniteSet(ClaimedOn(d)) /\ Cardinality(ClaimedOn(d)) <= MaxOrdersPerDay
<1>1. Init => WriteAheadInv /\ Budget
  <2> SUFFICES ASSUME Init PROVE WriteAheadInv /\ Budget
      OBVIOUS
  <2>1. WriteAheadInv
      BY InitTypeOK DEF Init, WriteAheadInv, WriteAhead, SubmitIsWritten
  <2>2. Claimed = {}
      BY DEF Init, Claimed, AttemptedIds, LinesOf, TornIds
  <2>3. \A d \in Days : ClaimedOn(d) = {}
      BY <2>2 DEF ClaimedOn
  <2> QED
      BY <2>1, <2>3, FS_EmptySet, ConfigAssumption
<1>2. AttemptedOnceInv /\ WriteAheadInv /\ Budget /\ [Next]_vars => Budget'
    BY BudgetStep DEF BudgetInv
<1>3. AttemptedOnceInv /\ WriteAheadInv /\ Budget => DailyOrderLimit
  <2> SUFFICES ASSUME AttemptedOnceInv, WriteAheadInv, Budget, NEW d \in Days
               PROVE  Cardinality({id \in known : id[1] = d}) <= MaxOrdersPerDay
      BY DEF DailyOrderLimit
  <2>1. {id \in known : id[1] = d} \subseteq ClaimedOn(d)
      BY DEF WriteAheadInv, WriteAhead, ClaimedOn, Claimed
  <2>2. IsFiniteSet(ClaimedOn(d)) /\ Cardinality(ClaimedOn(d)) <= MaxOrdersPerDay
      OBVIOUS
  <2>3. /\ IsFiniteSet({id \in known : id[1] = d})
        /\ Cardinality({id \in known : id[1] = d}) <= Cardinality(ClaimedOn(d))
      BY <2>1, <2>2, FS_Subset
  <2> QED
      BY <2>2, <2>3, FS_CardinalityType, ConfigAssumption
<1>4. WriteAheadInv /\ [Next]_vars => WriteAheadInv'
    BY WriteAheadStep
<1>5. Spec => []AttemptedOnceInv
    BY NeverRepeatedInv
<1> QED
    BY <1>1, <1>2, <1>3, <1>4, <1>5, PTL DEF Spec

-----------------------------------------------------------------------------
(***************************************************************************)
(* No real cycle trades below the drawdown limit.                          *)
(***************************************************************************)
\* The equity a real plan is accepted at is within the limit of every earlier one.
LEMMA AcceptedAboveDrawdown ==
    ASSUME TypeOK, NEW r \in Runs, PassesCheck(r)
    PROVE  AboveDrawdown(account[r].equity)
<1> DEFINE e == account[r].equity
           valueAt == [i \in RealEquityLines |-> ledger[i].equity]
           S == {0, e} \cup {valueAt[i] : i \in RealEquityLines}
           hwm == Max(S)
<1>1. hwm = HighWaterMark(e)
    BY DEF HighWaterMark
<1>2. \A i \in RealEquityLines : ledger[i].equity \in Int
  <2>1. \A i \in DOMAIN ledger : ledger[i] \in Records
      BY DEF TypeOK
  <2>2. \A line \in Records : line.kind = "equity" => line.equity \in Int
      BY DEF Records, OrderKinds
  <2> HIDE DEF Records
  <2> QED
      BY <2>1, <2>2 DEF RealEquityLines, LinesOf
<1>3. e \in Int
    BY DEF TypeOK
<1>4. IsFiniteSet(RealEquityLines)
  <2>1. DOMAIN ledger = 1..Len(ledger) /\ Len(ledger) \in Nat
      BY DEF TypeOK
  <2>2. IsFiniteSet(1..Len(ledger))
      BY <2>1, FS_Interval
  <2>3. RealEquityLines \in SUBSET (1..Len(ledger))
      BY <2>1 DEF RealEquityLines, LinesOf
  <2> QED
      BY <2>2, <2>3, FS_Subset
<1>5. S \in SUBSET Int /\ S # {} /\ \A i \in RealEquityLines : ledger[i].equity \in S
    BY <1>2, <1>3
<1>6. IsFiniteSet(S)
  <2> HIDE DEF valueAt, e
  <2>1. IsFiniteSet({valueAt[i] : i \in RealEquityLines})
      BY <1>4, ImageFinite
  <2>2. IsFiniteSet({0, e})
    <3>1. IsFiniteSet({0} \cup {e})
        BY FS_Singleton, FS_Union
    <3>2. {0, e} = {0} \cup {e}
        OBVIOUS
    <3> QED
        BY <3>1, <3>2
  <2> QED
      BY <2>1, <2>2, FS_Union
<1>7. WithinDrawdown(account[r], hwm)
    BY <1>1 DEF PassesCheck, CheckPlan
<1> HIDE DEF S
<1>8. hwm \in Int /\ \A x \in S : x <= hwm
    BY <1>5, <1>6, LargestIsMax
<1>9. (hwm - e) * Scale <= MaxDrawdown * hwm
    BY <1>7 DEF WithinDrawdown
<1>10. Scale \in Int /\ MaxDrawdown \in Int /\ MaxDrawdown < Scale
    BY ConfigAssumption
<1> SUFFICES ASSUME NEW i \in RealEquityLines
             PROVE  (ledger[i].equity - e) * Scale <= MaxDrawdown * ledger[i].equity
    BY DEF AboveDrawdown
<1> DEFINE x == ledger[i].equity
<1>11. x \in Int /\ x <= hwm
    BY <1>2, <1>5, <1>8
<1> HIDE DEF x, hwm, e
<1>12. (hwm - x) * (Scale - MaxDrawdown) >= 0
  <2>1. hwm - x \in Nat /\ Scale - MaxDrawdown \in Nat
      BY <1>8, <1>10, <1>11
  <2> DEFINE a == hwm - x
             b == Scale - MaxDrawdown
  <2> HIDE DEF a, b
  <2>2. a \in Nat /\ b \in Nat => a * b >= 0
      OBVIOUS
  <2> QED
      BY <2>1, <2>2 DEF a, b
<1>13. (hwm - x) * (Scale - MaxDrawdown)
          = (hwm - e) * Scale - (x - e) * Scale - (MaxDrawdown * hwm - MaxDrawdown * x)
    BY ONLY <1>3, <1>8, <1>10, <1>11 DEF e
<1>14. /\ (hwm - e) * Scale \in Int /\ (x - e) * Scale \in Int
       /\ MaxDrawdown * hwm \in Int /\ MaxDrawdown * x \in Int
    BY <1>3, <1>8, <1>10, <1>11 DEF e
<1>15. (x - e) * Scale <= MaxDrawdown * x
    BY <1>9, <1>12, <1>13, <1>14
<1> QED
    BY <1>15 DEF x

\* A torn or appended line of a real cycle at its equity is its reading.
LEMMA EquityLine ==
    ASSUME TypeOK, NEW r \in Runs, pc[r] \in AppendPcs, NEW line \in NextLines(r),
           line.kind = "equity"
    PROVE  pc[r] = "equity" /\ line.dry = dry[r] /\ line.equity = account[r].equity
BY LineKinds DEF RunKinds, RunLine

\* The ledger grows by an equity line within the limit of all earlier ones.
LEMMA DrawdownAppend ==
    ASSUME TypeOK, DrawdownHeld, NEW line, ledger' = Append(ledger, line),
           line.kind = "equity" => line.dry \/ AboveDrawdown(line.equity)
    PROVE  DrawdownHeld'
<1> DEFINE n == Len(ledger)
<1>1. /\ n \in Nat /\ DOMAIN ledger = 1..n
      /\ \A i \in 1..n : ledger'[i] = ledger[i]
      /\ DOMAIN ledger' = 1..(n + 1) /\ ledger'[n + 1] = line
    BY Appended
<1> HIDE DEF n
<1>2. \A i \in RealEquityLines' :
        \/ i \in RealEquityLines /\ i \in 1..n
        \/ i = n + 1 /\ line.kind = "equity" /\ ~line.dry
    BY <1>1 DEF RealEquityLines, LinesOf
<1> SUFFICES ASSUME NEW i \in RealEquityLines', NEW j \in RealEquityLines', i < j
             PROVE  (ledger'[i].equity - ledger'[j].equity) * Scale
                       <= MaxDrawdown * ledger'[i].equity
    BY DEF DrawdownHeld
<1>3. i \in RealEquityLines /\ i \in 1..n /\ ledger'[i] = ledger[i]
    BY <1>1, <1>2
<1>4. CASE j \in RealEquityLines /\ j \in 1..n
  <2>1. ledger'[j] = ledger[j]
      BY <1>1, <1>4
  <2> QED
      BY <1>3, <1>4, <2>1 DEF DrawdownHeld
<1>5. CASE j = n + 1 /\ line.kind = "equity" /\ ~line.dry
  <2>1. ledger'[j].equity = line.equity /\ AboveDrawdown(line.equity)
      BY <1>1, <1>5
  <2> QED
      BY <1>3, <2>1 DEF AboveDrawdown
<1> QED
    BY <1>2, <1>4, <1>5

\* No step records an intent at an equity below the drawdown limit.
LEMMA DrawdownStep ==
    ASSUME Serial, DrawdownInv, [Next]_vars
    PROVE  DrawdownHeld' /\ NextAboveDrawdown' /\ TornAboveDrawdown'
<1> USE DEF DrawdownInv, AttemptedOnceInv
<1>1. ASSUME ledger' = ledger
      PROVE  /\ DrawdownHeld'
             /\ pc' = pc /\ dry' = dry /\ account' = account => NextAboveDrawdown'
             /\ torn' = torn => TornAboveDrawdown'
  <2>1. RealEquityLines' = RealEquityLines
      BY <1>1 DEF RealEquityLines, LinesOf
  <2> QED
      BY <1>1, <2>1 DEF DrawdownHeld, NextAboveDrawdown, TornAboveDrawdown, AboveDrawdown
<1>2. CASE Surroundings \/ UNCHANGED vars
  <2>1. pc' = pc /\ dry' = dry /\ account' = account
      BY <1>2, AroundRuns
  <2>2. CASE ledger' = ledger /\ torn' = torn
      BY <1>1, <2>1, <2>2
  <2>3. CASE torn # <<>> /\ torn' = <<>> /\ (ledger' = ledger \/ ledger' = Append(ledger, torn[1]))
    <3>1. \A r \in Runs : pc'[r] # "equity"
        BY <2>1, <2>3 DEF TornBlocks, LaterPcs
    <3>2. DOMAIN torn' = {}
        BY <2>3
    <3>3. torn[1].kind = "equity" => torn[1].dry \/ AboveDrawdown(torn[1].equity)
        BY <2>3, TornShape DEF TornAboveDrawdown
    <3>4. DrawdownHeld'
        BY <1>1, <2>3, <3>3, DrawdownAppend
    <3> QED
        BY <3>1, <3>2, <3>4 DEF NextAboveDrawdown, TornAboveDrawdown
  <2> QED
      BY <1>2, <2>2, <2>3, AroundRuns
<1>3. ASSUME NEW r \in Runs, StepOf(r)
      PROVE  DrawdownHeld' /\ NextAboveDrawdown' /\ TornAboveDrawdown'
  <2>1. \A s \in Runs : s # r => pc'[s] # "equity"
      BY <1>3, OthersAreIdle DEF Active
  <2>2. NextAboveDrawdown'
    <3>1. CASE pc'[r] # "equity"
        BY <2>1, <3>1 DEF NextAboveDrawdown
    <3>2. CASE pc'[r] = "equity"
      <4>1. AcceptPlan(r)
          BY <1>3, <3>2, Origin
      <4>2. PassesCheck(r) /\ ledger' = ledger /\ account' = account
          BY <4>1 DEF AcceptPlan, files, views
      <4>3. AboveDrawdown(account[r].equity)
          BY <4>2, AcceptedAboveDrawdown
      <4>4. RealEquityLines' = RealEquityLines
          BY <4>2 DEF RealEquityLines, LinesOf
      <4> QED
          BY <2>1, <4>2, <4>3, <4>4 DEF NextAboveDrawdown, AboveDrawdown
    <3> QED
        BY <3>1, <3>2
  <2>3. CASE ledger' = ledger /\ torn' = torn
      BY <1>1, <2>2, <2>3
  <2>4. ASSUME pc[r] \in AppendPcs, NEW line \in NextLines(r), line.kind = "equity"
        PROVE  line.dry \/ AboveDrawdown(line.equity)
      BY <2>4, EquityLine DEF NextAboveDrawdown
  <2>5. ASSUME pc[r] \in AppendPcs, torn = <<>>, NEW line \in NextLines(r),
               ledger' = Append(ledger, line), torn' = torn
        PROVE  DrawdownHeld' /\ TornAboveDrawdown'
    <3>1. DrawdownHeld'
        BY <2>4, <2>5, DrawdownAppend
    <3>2. DOMAIN torn' = {}
        BY <2>5
    <3> QED
        BY <3>1, <3>2 DEF TornAboveDrawdown
  <2>6. ASSUME pc[r] \in AppendPcs, torn = <<>>, NEW line \in NextLines(r),
               ledger' = ledger, torn' = <<line>>
        PROVE  DrawdownHeld' /\ TornAboveDrawdown'
    <3>1. DOMAIN torn' = {1} /\ torn'[1] = line
        BY <2>6
    <3>2. RealEquityLines' = RealEquityLines
        BY <2>6 DEF RealEquityLines, LinesOf
    <3>3. line.kind = "equity" => line.dry \/ AboveDrawdown(line.equity)
        BY <2>4, <2>6
    <3> QED
        BY <1>1, <2>6, <3>1, <3>2, <3>3 DEF TornAboveDrawdown, AboveDrawdown
  <2> QED
      BY <1>3, <2>2, <2>3, <2>5, <2>6, FilesStep
<1> QED
    BY <1>2, <1>3, StepKinds

\* No cycle trades below the drawdown limit: the equity of each real cycle is within
\* max_drawdown of every earlier one, however many days, crashes and repairs lie between.
THEOREM NoTradeBelowDrawdown == Serial => (Spec => []DrawdownHeld)
<1> SUFFICES ASSUME Serial PROVE Spec => []DrawdownHeld
    OBVIOUS
<1>1. Init => DrawdownHeld /\ NextAboveDrawdown /\ TornAboveDrawdown
    BY DEF Init, DrawdownHeld, NextAboveDrawdown, TornAboveDrawdown, RealEquityLines, LinesOf
<1>2. /\ AttemptedOnceInv /\ DrawdownHeld /\ NextAboveDrawdown /\ TornAboveDrawdown /\ [Next]_vars
      => DrawdownHeld' /\ NextAboveDrawdown' /\ TornAboveDrawdown'
    BY DrawdownStep DEF DrawdownInv
<1>3. Spec => []AttemptedOnceInv
    BY NeverRepeatedInv
<1> QED
    BY <1>1, <1>2, <1>3, PTL DEF Spec

-----------------------------------------------------------------------------
(***************************************************************************)
(* A breached cycle leaves no plan behind.                                 *)
(***************************************************************************)
\* The ledger grows by a line that belongs where the last cycle is.
LEMMA BreachAppend ==
    ASSUME TypeOK, BreachStopsCycle, NEW line, ledger' = Append(ledger, line),
           line.kind \in TradingKinds => NoneSinceForecasts({"breach"}),
           line.kind = "breach" => NoneSinceForecasts(TradingKinds)
    PROVE  BreachStopsCycle'
<1> DEFINE n == Len(ledger)
<1>1. /\ n \in Nat /\ DOMAIN ledger = 1..n
      /\ \A i \in 1..n : ledger'[i] = ledger[i]
      /\ DOMAIN ledger' = 1..(n + 1) /\ ledger'[n + 1] = line
    BY Appended
<1> HIDE DEF n
<1>2. ASSUME NEW kind
      PROVE  /\ \A i \in LinesOf(kind)' : i \in LinesOf(kind) \/ (i = n + 1 /\ line.kind = kind)
             /\ LinesOf(kind) \subseteq LinesOf(kind)' /\ LinesOf(kind) \subseteq 1..n
    BY <1>1 DEF LinesOf
<1> DEFINE Trading == LinesOf("equity") \cup LinesOf("plan") \cup LinesOf("order_intent")
           Between(i, j) == \E k \in LinesOf("forecasts") : (i < k /\ k < j) \/ (j < k /\ k < i)
<1>3. \A i \in LinesOf("breach")' : i \in LinesOf("breach") \/ (i = n + 1 /\ line.kind = "breach")
    BY <1>2
<1>4. \A j \in Trading' : j \in Trading \/ (j = n + 1 /\ line.kind \in TradingKinds)
    BY <1>2 DEF TradingKinds
<1>5. LinesOf("breach") \subseteq 1..n /\ Trading \subseteq 1..n
      /\ LinesOf("forecasts") \subseteq LinesOf("forecasts")' /\ LinesOf("forecasts") \subseteq 1..n
    BY <1>2
<1>6. \A i \in LinesOf("breach") : \A j \in Trading : Between(i, j)
    BY DEF BreachStopsCycle
<1>7. line.kind = "breach" => \A j \in Trading : \E k \in LinesOf("forecasts") : j < k
    BY DEF NoneSinceForecasts, TradingKinds, LinesOf
<1>8. line.kind \in TradingKinds =>
          \A i \in LinesOf("breach") : \E k \in LinesOf("forecasts") : i < k
    BY DEF NoneSinceForecasts, LinesOf
<1>9. line.kind = "breach" => line.kind \notin TradingKinds
    BY DEF TradingKinds
<1>10. \A k \in 1..n : k < n + 1
    BY <1>1
<1> HIDE DEF Trading
<1> SUFFICES ASSUME NEW i \in LinesOf("breach")', NEW j \in Trading'
             PROVE  \E k \in LinesOf("forecasts")' : (i < k /\ k < j) \/ (j < k /\ k < i)
    BY DEF BreachStopsCycle, Trading
<1>11. CASE i \in LinesOf("breach") /\ j \in Trading
    BY <1>5, <1>6, <1>11
<1>12. CASE i = n + 1 /\ line.kind = "breach" /\ j \in Trading
    BY <1>5, <1>7, <1>10, <1>12
<1>13. CASE i \in LinesOf("breach") /\ j = n + 1 /\ line.kind \in TradingKinds
    BY <1>5, <1>8, <1>10, <1>13
<1> QED
    BY <1>3, <1>4, <1>9, <1>11, <1>12, <1>13

\* A cycle stays clean of the kinds that are not appended; a new one starts clean.
LEMMA NoneSinceAppend ==
    ASSUME TypeOK, NEW line, ledger' = Append(ledger, line),
           NEW kinds, line.kind \notin kinds,
           line.kind = "forecasts" \/ NoneSinceForecasts(kinds)
    PROVE  NoneSinceForecasts(kinds)'
<1> DEFINE n == Len(ledger)
<1>1. /\ n \in Nat /\ DOMAIN ledger = 1..n
      /\ \A i \in 1..n : ledger'[i] = ledger[i]
      /\ DOMAIN ledger' = 1..(n + 1) /\ ledger'[n + 1] = line
    BY Appended
<1> HIDE DEF n
<1> SUFFICES ASSUME NEW i \in DOMAIN ledger', ledger'[i].kind \in kinds
             PROVE  \E k \in LinesOf("forecasts")' : i < k
    BY DEF NoneSinceForecasts
<1>2. i \in 1..n /\ ledger[i].kind \in kinds
    BY <1>1
<1>3. CASE line.kind = "forecasts"
  <2>1. n + 1 \in LinesOf("forecasts")' /\ i < n + 1
      BY <1>1, <1>2, <1>3 DEF LinesOf
  <2> QED
      BY <2>1
<1>4. CASE NoneSinceForecasts(kinds)
    BY <1>1, <1>2, <1>4 DEF NoneSinceForecasts, LinesOf
<1> QED
    BY <1>3, <1>4

\* The line a run is at belongs where the last cycle is.
LEMMA NextLineBelongs ==
    ASSUME TypeOK, CycleClean, NEW r \in Runs, pc[r] \in AppendPcs, NEW line \in NextLines(r)
    PROVE  /\ line.kind = pc[r]
           /\ line.kind \in TradingKinds => NoneSinceForecasts({"breach"})
           /\ line.kind = "breach" => NoneSinceForecasts(TradingKinds)
BY LineKinds DEF CycleClean, TradingKinds, LaterPcs, OrderKinds

\* No step adds an intent after the breach of its run.
LEMMA BreachStep ==
    ASSUME Serial, BreachInv, [Next]_vars
    PROVE  BreachStopsCycle' /\ CycleClean' /\ TornClean'
<1> USE DEF BreachInv, AttemptedOnceInv
<1>1. ASSUME ledger' = ledger
      PROVE  /\ BreachStopsCycle'
             /\ pc' = pc => CycleClean'
             /\ torn' = torn => TornClean'
    BY <1>1 DEF BreachStopsCycle, CycleClean, TornClean, NoneSinceForecasts, LinesOf
<1>2. CASE Surroundings \/ UNCHANGED vars
  <2>1. pc' = pc
      BY <1>2, AroundRuns
  <2>2. CASE ledger' = ledger /\ torn' = torn
      BY <1>1, <2>1, <2>2
  <2>3. CASE torn # <<>> /\ torn' = <<>> /\ (ledger' = ledger \/ ledger' = Append(ledger, torn[1]))
    <3>1. CycleClean'
        BY <2>1, <2>3 DEF TornBlocks, LaterPcs, CycleClean
    <3>2. TornClean'
      <4>1. DOMAIN torn' = {}
          BY <2>3
      <4> QED
          BY <4>1 DEF TornClean
    <3>3. /\ torn[1].kind \in TradingKinds => NoneSinceForecasts({"breach"})
          /\ torn[1].kind = "breach" => NoneSinceForecasts(TradingKinds)
        BY <2>3, TornShape DEF TornClean
    <3>4. BreachStopsCycle'
        BY <1>1, <2>3, <3>3, BreachAppend
    <3> QED
        BY <3>1, <3>2, <3>4
  <2> QED
      BY <1>2, <2>2, <2>3, AroundRuns
<1>3. ASSUME NEW r \in Runs, StepOf(r)
      PROVE  BreachStopsCycle' /\ CycleClean' /\ TornClean'
  <2>1. \A s \in Runs : s # r => pc'[s] \notin LaterPcs
      BY <1>3, OthersAreIdle DEF Active, LaterPcs, OrderKinds
  <2>2. /\ pc'[r] = "planning" =>
              pc[r] = "forecasts" /\ ledger' = Append(ledger, RunLine(r))
        /\ pc'[r] = "breach" => pc[r] = "planning" /\ ledger' = ledger
        /\ pc'[r] \in LaterPcs \ {"planning", "breach"} => pc[r] \in LaterPcs \ {"breach"}
      BY <1>3, Origin
      DEF LaterPcs, OrderKinds, AppendForecasts, AppendLine, BreachLimit, AcceptPlan, AppendEquity,
          AppendPlan, AppendAccepted, AppendIntent, SubmitReceived, SubmitRefused, SubmitDead, files
  <2>3. CASE ledger' = ledger /\ torn' = torn
    <3>1. /\ NoneSinceForecasts({"breach"})' <=> NoneSinceForecasts({"breach"})
          /\ NoneSinceForecasts(TradingKinds)' <=> NoneSinceForecasts(TradingKinds)
        BY <2>3 DEF NoneSinceForecasts, LinesOf, TradingKinds
    <3>2. pc'[r] # "planning"
      <4>1. DOMAIN Append(ledger, RunLine(r)) # DOMAIN ledger
          BY DEF TypeOK
      <4> QED
          BY <2>2, <2>3, <4>1
    <3>3. /\ pc'[r] \in LaterPcs \ {"breach"} => NoneSinceForecasts({"breach"})'
          /\ pc'[r] \in {"planning", "breach"} => NoneSinceForecasts(TradingKinds)'
        BY <2>2, <3>1, <3>2 DEF CycleClean
    <3>4. CycleClean'
        BY <2>1, <3>3 DEF CycleClean, LaterPcs
    <3> QED
        BY <1>1, <2>3, <3>4
  <2>4. ASSUME pc[r] \in AppendPcs, torn = <<>>, NEW line \in NextLines(r),
               ledger' = Append(ledger, line), torn' = torn
        PROVE  BreachStopsCycle' /\ CycleClean' /\ TornClean'
    <3>1. /\ line.kind = pc[r]
          /\ line.kind \in TradingKinds => NoneSinceForecasts({"breach"})
          /\ line.kind = "breach" => NoneSinceForecasts(TradingKinds)
        BY <2>4, NextLineBelongs
    <3>2. BreachStopsCycle'
        BY <2>4, <3>1, BreachAppend
    <3>3. pc'[r] # "breach"
      <4>1. DOMAIN Append(ledger, line) # DOMAIN ledger
          BY DEF TypeOK
      <4> QED
          BY <2>2, <2>4, <4>1
    <3>4. ASSUME pc'[r] \in LaterPcs
          PROVE  NoneSinceForecasts({"breach"})'
      <4>1. line.kind = "forecasts" \/ NoneSinceForecasts({"breach"})
          BY <2>2, <3>1, <3>3, <3>4 DEF CycleClean
      <4>2. line.kind \notin {"breach"}
          BY <2>2, <3>1, <3>3, <3>4
      <4> QED
          BY <2>4, <4>1, <4>2, NoneSinceAppend
    <3>5. ASSUME pc'[r] = "planning"
          PROVE  NoneSinceForecasts(TradingKinds)'
      <4>1. line.kind = "forecasts" /\ line.kind \notin TradingKinds
          BY <2>2, <3>1, <3>5 DEF TradingKinds
      <4> QED
          BY <2>4, <4>1, NoneSinceAppend
    <3>6. CycleClean'
        BY <2>1, <3>3, <3>4, <3>5 DEF CycleClean, LaterPcs
    <3>7. DOMAIN torn' = {}
        BY <2>4
    <3> QED
        BY <3>2, <3>6, <3>7 DEF TornClean
  <2>5. ASSUME pc[r] \in AppendPcs, torn = <<>>, NEW line \in NextLines(r),
               ledger' = ledger, torn' = <<line>>, CrashTearingLine(r)
        PROVE  BreachStopsCycle' /\ CycleClean' /\ TornClean'
    <3>1. /\ line.kind \in TradingKinds => NoneSinceForecasts({"breach"})
          /\ line.kind = "breach" => NoneSinceForecasts(TradingKinds)
        BY <2>5, NextLineBelongs
    <3>2. DOMAIN torn' = {1} /\ torn'[1] = line
        BY <2>5
    <3>3. TornClean'
        BY <2>5, <3>1, <3>2 DEF TornClean, NoneSinceForecasts, LinesOf
    <3>4. pc'[r] \notin LaterPcs
        BY <1>3, <2>5, RunAdvance
    <3> QED
        BY <1>1, <2>1, <2>5, <3>3, <3>4 DEF CycleClean, LaterPcs
  <2> QED
      BY <1>3, <2>3, <2>4, <2>5, FilesStep
<1> QED
    BY <1>2, <1>3, StepKinds

\* A cycle whose plan breaches a limit, the kill switch included, leaves no equity
\* figure, no plan and no intent in the ledger, whatever crashes or is repaired.
THEOREM BreachedCycleIsOver == Serial => (Spec => []BreachStopsCycle)
<1> SUFFICES ASSUME Serial PROVE Spec => []BreachStopsCycle
    OBVIOUS
<1>1. Init => BreachStopsCycle /\ CycleClean /\ TornClean
    BY DEF Init, BreachStopsCycle, CycleClean, TornClean, LinesOf, NoneSinceForecasts
<1>2. /\ AttemptedOnceInv /\ BreachStopsCycle /\ CycleClean /\ TornClean /\ [Next]_vars
      => BreachStopsCycle' /\ CycleClean' /\ TornClean'
    BY BreachStep DEF BreachInv
<1>3. Spec => []AttemptedOnceInv
    BY NeverRepeatedInv
<1> QED
    BY <1>1, <1>2, <1>3, PTL DEF Spec

-----------------------------------------------------------------------------
(***************************************************************************)
(* The audit trail misses no outcome a crash does not explain.             *)
(***************************************************************************)
LEMMA UnresolvedIs == Unresolved = AttemptedIds \ OutcomeIds
BY DEF Unresolved, OutcomeIds

\* Only an outcome line adds an id with an outcome, and only its own.
LEMMA AppendOutcomes ==
    ASSUME TypeOK, NEW line, ledger' = Append(ledger, line)
    PROVE  OutcomeIds' = OutcomeIds \cup (IF line.kind \in OutcomeKinds THEN {line.id} ELSE {})
<1> DEFINE n == Len(ledger)
<1>1. /\ n \in Nat /\ DOMAIN ledger = 1..n
      /\ \A i \in 1..n : ledger'[i] = ledger[i]
      /\ DOMAIN ledger' = 1..(n + 1) /\ ledger'[n + 1] = line
    BY Appended
<1> HIDE DEF n
<1>2. n + 1 \notin 1..n /\ 1..(n + 1) = 1..n \cup {n + 1}
    BY <1>1
<1> QED
    BY <1>1, <1>2 DEF OutcomeIds, OutcomeKinds, LinesOf

\* A run that owes an outcome writes it, still owes it, or has been killed; an
\* intent that is written is owed its outcome.
LEMMA OwedStep ==
    ASSUME TypeOK, NEW r \in Runs, StepOf(r), torn = <<>>
    PROVE  /\ crashes' = crashes \/ crashes' = crashes + 1
           /\ CrashTearingLine(r) => crashes' = crashes + 1 /\ pc'[r] = "done"
           /\ pc[r] \in {"submit"} \cup OutcomeKinds /\ ledger' = ledger =>
                 crashes' = crashes + 1 \/ pc'[r] \in OutcomeKinds
           /\ pc[r] = "order_intent" /\ ledger' # ledger => pc'[r] = "submit"
<1> USE DEF files, Goto, Exit, OutcomeKinds
<1>1. pc \in [Runs -> Pcs]
    BY DEF TypeOK
<1>2. CASE Start(r) \/ Crash(r) \/ CrashTearingLine(r)
    BY <1>1, <1>2 DEF Start, Crash, CrashTearingLine
<1>3. CASE CheckDate(r) \/ GetOpenOrders(r) \/ GetAccount(r) \/ GetPositions(r) \/ GetBars(r)
    BY <1>3 DEF CheckDate, GetOpenOrders, GetAccount, GetPositions, GetBars, CrashTearingLine,
                AppendPcs, RunKinds, OrderKinds
<1>4. CASE RefusePlan(r) \/ BreachLimit(r) \/ AcceptPlan(r) \/ SubmitRefused(r)
           \/ LedgerRefuses(r) \/ ReadRaises(r)
    BY <1>1, <1>4 DEF RefusePlan, BreachLimit, AcceptPlan, SubmitRefused, ReadRaises,
                      LedgerRefuses, CrashTearingLine, AppendPcs, RunKinds, OrderKinds
<1>5. CASE AppendForecasts(r) \/ AppendBreach(r) \/ AppendEquity(r) \/ AppendPlan(r)
    BY SMTT(30), <1>5 DEF AppendForecasts, AppendBreach, AppendEquity, AppendPlan, CrashTearingLine
<1>6. ASSUME NEW o \in todo[r], AppendAccepted(r, o) \/ AppendFailed(r, o)
      PROVE  crashes' = crashes /\ ledger' # ledger /\ pc[r] \in OutcomeKinds
  <2>1. ledger' = Append(ledger, OrderLine(r, o))
      BY <1>6 DEF AppendAccepted, AppendFailed, AppendLine
  <2>2. Append(ledger, OrderLine(r, o)) # ledger
    <3>1. ledger \in Seq(Records)
        BY DEF TypeOK
    <3> HIDE DEF OutcomeKinds
    <3>2. DOMAIN Append(ledger, OrderLine(r, o)) # DOMAIN ledger
        BY <3>1
    <3> QED
        BY <3>2
  <2> QED
      BY <1>6, <2>1, <2>2 DEF AppendAccepted, AppendFailed
<1>7. ASSUME NEW o \in todo[r],
             AppendIntent(r, o) \/ SubmitReceived(r, o) \/ SubmitDead(r, o)
      PROVE  /\ crashes' = crashes
             /\ \/ pc[r] = "order_intent" /\ pc'[r] = "submit"
                \/ pc[r] = "submit" /\ pc'[r] \in OutcomeKinds
    BY <1>1, <1>7 DEF AppendIntent, SubmitReceived, SubmitDead
<1>8. ASSUME CrashTearingLine(r) PROVE crashes' = crashes + 1 /\ pc'[r] = "done"
    BY <1>1, <1>8 DEF CrashTearingLine
<1> QED
    BY <1>2, <1>3, <1>4, <1>5, <1>6, <1>7, <1>8 DEF StepOf, RunStep

\* What a run owes when it goes on.
LEMMA OwedAfter ==
    ASSUME Serial, AuditInv, NEW r \in Runs, StepOf(r)
    PROVE  \A s \in Busy' : \A o \in todo'[s] : IsCurrent(s, o)' => ClientOrderId(o) \in Unresolved'
<1> USE DEF AuditInv, AttemptedOnceInv
<1> SUFFICES ASSUME NEW s \in Busy', NEW o \in todo'[s], IsCurrent(s, o)'
             PROVE  ClientOrderId(o) \in Unresolved'
    OBVIOUS
<1>1. s = r /\ pc'[r] \in {"submit"} \cup OutcomeKinds
    BY OthersAreIdle DEF Busy, Active, OutcomeKinds
<1>2. ASSUME NEW p \in todo[r], AppendIntent(r, p) PROVE ClientOrderId(o) \in Unresolved'
  <2>1. /\ pc[r] = "order_intent" /\ todo' = todo /\ IsCurrent(r, p)
        /\ ledger' = Append(ledger, OrderLine(r, p))
      BY <1>2 DEF AppendIntent, AppendLine
  <2>2. o = p
      BY <1>1, <2>1, CurrentIsUnique DEF IsCurrent
  <2>3. /\ OrderLine(r, p) \in Records
        /\ OrderLine(r, p).kind = "order_intent"
        /\ OrderLine(r, p).id = ClientOrderId(p)
      BY <2>1, LinesAreRecords DEF OrderLine, OrderKinds
  <2>4. AttemptedIds' = AttemptedIds \cup {ClientOrderId(p)} /\ OutcomeIds' = OutcomeIds
      BY <2>1, <2>3, AppendIds, AppendOutcomes DEF OutcomeKinds
  <2>5. ClientOrderId(p) \notin AttemptedIds
      BY <2>1 DEF TodoFresh
  <2>6. Unresolved' = AttemptedIds' \ OutcomeIds'
      BY DEF Unresolved, OutcomeIds
  <2> QED
      BY <2>2, <2>4, <2>5, <2>6 DEF OutcomesFollow
<1>3. ASSUME SubmitRefused(r) \/ \E p \in todo[r] : SubmitReceived(r, p) \/ SubmitDead(r, p)
      PROVE  ClientOrderId(o) \in Unresolved'
  <2>1. pc[r] = "submit" /\ todo' = todo /\ ledger' = ledger
      BY <1>3 DEF SubmitRefused, SubmitReceived, SubmitDead, files
  <2>2. ClientOrderId(o) \in Unresolved
      BY <1>1, <2>1 DEF OutcomesFollow, Busy, IsCurrent
  <2> QED
      BY <2>1, <2>2 DEF Unresolved, AttemptedIds, LinesOf
<1> QED
    BY <1>1, <1>2, <1>3, Origin DEF OutcomeKinds

\* At most the run that moves owes an outcome, before the step and after it.
LEMMA BusyCount ==
    ASSUME Serial, AttemptedOnceInv, NEW r \in Runs, StepOf(r)
    PROVE  /\ Cardinality(Busy) = IF pc[r] \in {"submit"} \cup OutcomeKinds THEN 1 ELSE 0
           /\ Cardinality(Busy') = IF pc'[r] \in {"submit"} \cup OutcomeKinds THEN 1 ELSE 0
<1>1. \A s \in Runs : s # r => /\ pc[s] \notin {"submit"} \cup OutcomeKinds
                               /\ pc'[s] \notin {"submit"} \cup OutcomeKinds
    BY OthersAreIdle DEF Active, OutcomeKinds
<1>2. Busy = IF pc[r] \in {"submit"} \cup OutcomeKinds THEN {r} ELSE {}
    BY <1>1 DEF Busy
<1>3. Busy' = IF pc'[r] \in {"submit"} \cup OutcomeKinds THEN {r} ELSE {}
    BY <1>1 DEF Busy
<1> QED
    BY <1>2, <1>3, FS_EmptySet, FS_Singleton

\* One id more, or one less.
LEMMA LooseCount ==
    ASSUME NEW S, IsFiniteSet(S), NEW T, NEW id
    PROVE  /\ T \subseteq S => IsFiniteSet(T) /\ Cardinality(T) <= Cardinality(S)
           /\ T \subseteq S \cup {id} => IsFiniteSet(T) /\ Cardinality(T) <= Cardinality(S) + 1
           /\ T \subseteq S \ {id} /\ id \in S =>
                 IsFiniteSet(T) /\ Cardinality(T) <= Cardinality(S) - 1
<1>1. Cardinality(S) \in Nat
    BY FS_CardinalityType
<1>2. /\ IsFiniteSet(S \cup {id})
      /\ Cardinality(S \cup {id}) = IF id \in S THEN Cardinality(S) ELSE Cardinality(S) + 1
    BY FS_AddElement
<1>3. /\ IsFiniteSet(S \ {id})
      /\ Cardinality(S \ {id}) = IF id \in S THEN Cardinality(S) - 1 ELSE Cardinality(S)
    BY FS_RemoveElement
<1>4. ASSUME NEW U, IsFiniteSet(U), T \subseteq U
      PROVE  IsFiniteSet(T) /\ Cardinality(T) <= Cardinality(U) /\ Cardinality(T) \in Nat
    BY <1>4, FS_Subset, FS_CardinalityType
<1>5. ASSUME T \subseteq S PROVE IsFiniteSet(T) /\ Cardinality(T) <= Cardinality(S)
    BY <1>4, <1>5
<1>6. ASSUME T \subseteq S \cup {id}
      PROVE  IsFiniteSet(T) /\ Cardinality(T) <= Cardinality(S) + 1
  <2>1. IsFiniteSet(T) /\ Cardinality(T) <= Cardinality(S \cup {id}) /\ Cardinality(T) \in Nat
      BY <1>2, <1>4, <1>6
  <2> QED
      BY <1>1, <1>2, <2>1
<1>7. ASSUME T \subseteq S \ {id}, id \in S
      PROVE  IsFiniteSet(T) /\ Cardinality(T) <= Cardinality(S) - 1
  <2>1. IsFiniteSet(T) /\ Cardinality(T) <= Cardinality(S \ {id})
      BY <1>3, <1>4, <1>7
  <2> QED
      BY <1>3, <1>7, <2>1
<1> QED
    BY <1>5, <1>6, <1>7

\* A run's step on what is attempted, has an outcome and is torn.
LEMMA AuditOwnStep ==
    ASSUME Serial, AuditInv, NEW r \in Runs, StepOf(r)
    PROVE  OutcomesFollow' /\ LooseBounded'
<1> USE DEF AuditInv, AttemptedOnceInv
<1> DEFINE owes == pc[r] \in {"submit"} \cup OutcomeKinds
           owesNext == pc'[r] \in {"submit"} \cup OutcomeKinds
<1>1. /\ Unresolved = AttemptedIds \ OutcomeIds
      /\ Unresolved' = AttemptedIds' \ OutcomeIds'
    BY DEF Unresolved, OutcomeIds
<1>2. owes => torn = <<>>
    BY DEF TornBlocks, LaterPcs, OrderKinds, OutcomeKinds
<1>3. /\ Cardinality(Busy) = IF owes THEN 1 ELSE 0
      /\ Cardinality(Busy') = IF owesNext THEN 1 ELSE 0
    BY BusyCount
<1>4. /\ IsFiniteSet(Loose) /\ Cardinality(Loose) <= crashes + Cardinality(Busy)
      /\ Cardinality(Loose) \in Nat /\ crashes \in Nat
    BY FS_CardinalityType DEF LooseBounded, TypeOK
<1>5. CASE ledger' = ledger /\ torn' = torn
  <2>1. AttemptedIds' = AttemptedIds /\ OutcomeIds' = OutcomeIds
        /\ TornIds({"order_intent"})' = TornIds({"order_intent"})
        /\ TornIds(OutcomeKinds)' = TornIds(OutcomeKinds)
      BY <1>5 DEF AttemptedIds, OutcomeIds, LinesOf, TornIds, OutcomeKinds
  <2>2. Loose' = Loose
      BY <1>1, <2>1 DEF Loose
  <2>3. crashes' \in Nat /\ crashes' >= crashes
      BY <1>4 DEF StepOf, RunStep, Start, CheckDate, GetOpenOrders, GetAccount, GetPositions,
                  GetBars, RefusePlan, BreachLimit, AcceptPlan, AppendForecasts, AppendBreach,
                  AppendEquity, AppendPlan, AppendIntent, SubmitReceived, SubmitDead,
                  SubmitRefused, AppendAccepted, AppendFailed, ReadRaises, LedgerRefuses, Crash,
                  CrashTearingLine
  <2>4. owes => crashes' = crashes + 1 \/ owesNext
      BY <1>2, <1>5, OwedStep
  <2>5. LooseBounded'
    <3> HIDE DEF owes, owesNext
    <3> QED
        BY <1>3, <1>4, <2>2, <2>3, <2>4 DEF LooseBounded
  <2>6. OutcomesFollow'
      BY <2>1, OwedAfter DEF OutcomesFollow
  <2> QED
      BY <2>5, <2>6
<1>6. ASSUME pc[r] \in AppendPcs, torn = <<>>, NEW line \in NextLines(r),
             ledger' = Append(ledger, line), torn' = torn
      PROVE  OutcomesFollow' /\ LooseBounded'
  <2>1. line \in Records /\ line.kind = pc[r]
      BY <1>6, LineKinds
  <2>2. /\ AttemptedIds' = AttemptedIds \cup (IF pc[r] = "order_intent" THEN {line.id} ELSE {})
        /\ OutcomeIds' = OutcomeIds \cup (IF pc[r] \in OutcomeKinds THEN {line.id} ELSE {})
      BY <1>6, <2>1, AppendIds, AppendOutcomes
  <2>3. TornIds({"order_intent"})' = {} /\ TornIds(OutcomeKinds)' = {}
        /\ Loose = Unresolved /\ Loose' = Unresolved'
      BY <1>6, TornIdsAfter, TornIdsAre DEF Loose
  <2>4. crashes' = crashes \/ crashes' = crashes + 1
      BY <1>6, OwedStep
  <2>5. pc[r] \in OutcomeKinds => owes /\ line.id \in Unresolved
    <3> SUFFICES ASSUME pc[r] \in OutcomeKinds PROVE owes /\ line.id \in Unresolved
        OBVIOUS
    <3>1. \E o \in todo[r] : IsCurrent(r, o) /\ line.id = ClientOrderId(o)
        BY <1>6, LineKinds DEF OutcomeKinds, OrderKinds
    <3> QED
        BY <3>1 DEF OutcomesFollow, Busy
  <2>6. pc[r] = "order_intent" => owesNext /\ ~owes
    <3> SUFFICES ASSUME pc[r] = "order_intent" PROVE owesNext /\ ~owes
        OBVIOUS
    <3>1. Append(ledger, line) # ledger
      <4>1. DOMAIN Append(ledger, line) # DOMAIN ledger
          BY DEF TypeOK
      <4> QED
          BY <4>1
    <3>2. pc'[r] = "submit"
        BY <1>6, <3>1, OwedStep
    <3> QED
        BY <3>2 DEF OutcomeKinds
  <2>7. LooseBounded'
    <3>1. CASE pc[r] = "order_intent"
      <4>1. Loose' \subseteq Loose \cup {line.id}
          BY <1>1, <2>2, <2>3, <3>1 DEF OutcomeKinds
      <4>2. IsFiniteSet(Loose') /\ Cardinality(Loose') <= Cardinality(Loose) + 1
          BY <1>4, <4>1, LooseCount
      <4>3. Cardinality(Loose') \in Nat
          BY <4>2, FS_CardinalityType
      <4> HIDE DEF owes, owesNext
      <4> QED
          BY <1>3, <1>4, <2>4, <2>6, <3>1, <4>2, <4>3 DEF LooseBounded
    <3>2. CASE pc[r] \in OutcomeKinds
      <4>1. Loose' \subseteq Loose \ {line.id} /\ line.id \in Loose
          BY <1>1, <2>2, <2>3, <2>5, <3>2 DEF OutcomeKinds
      <4>2. IsFiniteSet(Loose') /\ Cardinality(Loose') <= Cardinality(Loose) - 1
          BY <1>4, <4>1, LooseCount
      <4>3. Cardinality(Loose') \in Nat
          BY <4>2, FS_CardinalityType
      <4> HIDE DEF owes, owesNext
      <4> QED
          BY <1>3, <1>4, <2>4, <2>5, <3>2, <4>2, <4>3 DEF LooseBounded
    <3>3. CASE pc[r] \in RunKinds
      <4>1. Loose' = Loose /\ ~owes
          BY <1>1, <2>2, <2>3, <3>3 DEF OutcomeKinds, RunKinds
      <4> HIDE DEF owes, owesNext
      <4> QED
          BY <1>3, <1>4, <2>4, <4>1 DEF LooseBounded
    <3> QED
        BY <1>6, <3>1, <3>2, <3>3 DEF AppendPcs, OrderKinds, OutcomeKinds
  <2>8. OutcomesFollow'
    <3>1. OutcomeIds' \cup TornIds(OutcomeKinds)' \subseteq AttemptedIds'
        BY <1>1, <2>2, <2>3, <2>5 DEF OutcomesFollow
    <3> QED
        BY <3>1, OwedAfter DEF OutcomesFollow
  <2> QED
      BY <2>7, <2>8
<1>7. ASSUME pc[r] \in AppendPcs, torn = <<>>, NEW line \in NextLines(r),
             ledger' = ledger, torn' = <<line>>, CrashTearingLine(r)
      PROVE  OutcomesFollow' /\ LooseBounded'
  <2>1. line \in Records /\ line.kind = pc[r]
      BY <1>7, LineKinds
  <2>2. AttemptedIds' = AttemptedIds /\ OutcomeIds' = OutcomeIds
      BY <1>7 DEF AttemptedIds, OutcomeIds, LinesOf
  <2>3. /\ TornIds({"order_intent"})' = IF pc[r] = "order_intent" THEN {line.id} ELSE {}
        /\ TornIds(OutcomeKinds)' = IF pc[r] \in OutcomeKinds THEN {line.id} ELSE {}
        /\ Loose = Unresolved
    <3>1. TornIds({"order_intent"})' = IF line.kind = "order_intent" THEN {line.id} ELSE {}
        BY <1>7, TornIdsAfter
    <3>2. TornIds(OutcomeKinds)' = IF line.kind \in OutcomeKinds THEN {line.id} ELSE {}
        BY <1>7, TornIdsAfter
    <3>3. Loose = Unresolved
        BY <1>7, TornIdsAre DEF Loose
    <3> QED
        BY <2>1, <3>1, <3>2, <3>3
  <2>4. crashes' = crashes + 1
      BY <1>7, OwedStep
  <2>5. pc[r] \in OutcomeKinds => line.id \in AttemptedIds
    <3> SUFFICES ASSUME pc[r] \in OutcomeKinds PROVE line.id \in AttemptedIds
        OBVIOUS
    <3>1. \E o \in todo[r] : IsCurrent(r, o) /\ line.id = ClientOrderId(o)
        BY <1>7, LineKinds DEF OutcomeKinds, OrderKinds
    <3> QED
        BY <1>1, <3>1 DEF OutcomesFollow, Busy
  <2>6. LooseBounded'
    <3>1. CASE pc[r] = "order_intent"
      <4>1. Loose' \subseteq Loose \cup {line.id} /\ ~owes
          BY <1>1, <2>2, <2>3, <3>1 DEF Loose, OutcomeKinds
      <4>2. IsFiniteSet(Loose') /\ Cardinality(Loose') <= Cardinality(Loose) + 1
          BY <1>4, <4>1, LooseCount
      <4>3. Cardinality(Loose') \in Nat
          BY <4>2, FS_CardinalityType
      <4> HIDE DEF owes, owesNext
      <4> QED
          BY <1>3, <1>4, <2>4, <4>1, <4>2, <4>3 DEF LooseBounded
    <3>2. CASE pc[r] # "order_intent"
      <4>1. Loose' = Loose
          BY <1>1, <2>2, <2>3, <3>2 DEF Loose
      <4> HIDE DEF owes, owesNext
      <4> QED
          BY <1>3, <1>4, <2>4, <4>1 DEF LooseBounded
    <3> QED
        BY <3>1, <3>2
  <2>7. OutcomesFollow'
    <3>1. OutcomeIds' \cup TornIds(OutcomeKinds)' \subseteq AttemptedIds'
        BY <2>2, <2>3, <2>5 DEF OutcomesFollow
    <3> QED
        BY <3>1, OwedAfter DEF OutcomesFollow
  <2> QED
      BY <2>6, <2>7
<1> QED
    BY <1>5, <1>6, <1>7, FilesStep

\* The steps around the runs invent no outcome, and leave no more intents without one than crashes explain.
LEMMA AuditAround ==
    ASSUME AuditInv, Surroundings \/ UNCHANGED vars
    PROVE  OutcomesFollow' /\ LooseBounded'
<1> USE DEF AuditInv, AttemptedOnceInv
<1>1. /\ pc' = pc /\ todo' = todo /\ crashes' = crashes /\ Busy' = Busy
    BY AroundRuns DEF Busy
<1>2. /\ Unresolved = AttemptedIds \ OutcomeIds
      /\ Unresolved' = AttemptedIds' \ OutcomeIds'
    BY DEF Unresolved, OutcomeIds
<1>3. CASE ledger' = ledger /\ torn' = torn
  <2>1. AttemptedIds' = AttemptedIds /\ OutcomeIds' = OutcomeIds
        /\ TornIds({"order_intent"})' = TornIds({"order_intent"})
        /\ TornIds(OutcomeKinds)' = TornIds(OutcomeKinds)
      BY <1>3 DEF AttemptedIds, OutcomeIds, LinesOf, TornIds, OutcomeKinds
  <2>2. Loose' = Loose /\ Unresolved' = Unresolved
      BY <1>2, <2>1 DEF Loose
  <2>3. LooseBounded'
      BY <1>1, <2>2 DEF LooseBounded
  <2>4. OutcomesFollow'
      BY <1>1, <2>1, <2>2 DEF OutcomesFollow, IsCurrent
  <2> QED
      BY <2>3, <2>4
<1>4. CASE torn # <<>> /\ torn' = <<>> /\ (ledger' = ledger \/ ledger' = Append(ledger, torn[1]))
  <2>1. torn[1] \in Records
      BY <1>4, TornShape
  <2>2. Busy = {}
      BY <1>4 DEF TornBlocks, LaterPcs, OrderKinds, OutcomeKinds, Busy
  <2>3. /\ TornIds({"order_intent"})' = {} /\ TornIds(OutcomeKinds)' = {}
        /\ TornIds({"order_intent"}) = IF torn[1].kind = "order_intent" THEN {torn[1].id} ELSE {}
        /\ TornIds(OutcomeKinds) = IF torn[1].kind \in OutcomeKinds THEN {torn[1].id} ELSE {}
      BY <1>4, TornIdsAfter, TornIdsAre
  <2>4. \/ AttemptedIds' = AttemptedIds /\ OutcomeIds' = OutcomeIds
        \/ /\ AttemptedIds' = AttemptedIds \cup TornIds({"order_intent"})
           /\ OutcomeIds' = OutcomeIds \cup TornIds(OutcomeKinds)
    <3>1. CASE ledger' = ledger
        BY <3>1 DEF AttemptedIds, OutcomeIds, LinesOf
    <3>2. CASE ledger' = Append(ledger, torn[1])
      <4>1. OutcomeIds' = OutcomeIds \cup TornIds(OutcomeKinds)
          BY <2>3, <3>2, AppendOutcomes
      <4>2. AttemptedIds' = AttemptedIds \cup TornIds({"order_intent"})
          BY <2>1, <2>3, <3>2, AppendIds
      <4> QED
          BY <4>1, <4>2
    <3> QED
        BY <1>4, <3>1, <3>2
  <2>5. Loose' \subseteq Loose
      BY <1>2, <2>3, <2>4 DEF Loose
  <2>6. IsFiniteSet(Loose') /\ Cardinality(Loose') <= Cardinality(Loose)
        /\ Cardinality(Loose) \in Nat /\ Cardinality(Loose') \in Nat
    <3>1. IsFiniteSet(Loose)
        BY DEF LooseBounded
    <3>2. IsFiniteSet(Loose') /\ Cardinality(Loose') <= Cardinality(Loose)
        BY <2>5, <3>1, FS_Subset
    <3> QED
        BY <3>1, <3>2, FS_CardinalityType
  <2>7. LooseBounded'
      BY <1>1, <2>2, <2>6, FS_EmptySet DEF LooseBounded, TypeOK
  <2>8. OutcomesFollow'
      BY <1>1, <2>2, <2>3, <2>4 DEF OutcomesFollow
  <2> QED
      BY <2>7, <2>8
<1> QED
    BY <1>3, <1>4, AroundRuns

\* The audit trail is complete: an intent without an outcome is one a run is busy
\* with, or the last one of a run that was killed.
THEOREM OutcomesAreRecorded == Serial => (Spec => []OutcomesRecorded)
<1> SUFFICES ASSUME Serial PROVE Spec => []OutcomesRecorded
    OBVIOUS
<1>1. Init => OutcomesFollow /\ LooseBounded
  <2> SUFFICES ASSUME Init PROVE OutcomesFollow /\ LooseBounded
      OBVIOUS
  <2>1. AttemptedIds = {} /\ OutcomeIds = {} /\ Busy = {}
        /\ TornIds({"order_intent"}) = {} /\ TornIds(OutcomeKinds) = {}
      BY DEF Init, AttemptedIds, OutcomeIds, LinesOf, Busy, TornIds, OutcomeKinds
  <2>2. Loose = {} /\ crashes = 0
      BY <2>1 DEF Loose, Unresolved, Init
  <2> QED
      BY <2>1, <2>2, FS_EmptySet DEF OutcomesFollow, LooseBounded
<1>2. AttemptedOnceInv /\ OutcomesFollow /\ LooseBounded /\ [Next]_vars
      => OutcomesFollow' /\ LooseBounded'
    BY AuditOwnStep, AuditAround, StepKinds DEF AuditInv
<1>3. AttemptedOnceInv /\ OutcomesFollow /\ LooseBounded => OutcomesRecorded
  <2> SUFFICES ASSUME TypeOK, LooseBounded, OneActive PROVE OutcomesRecorded
      BY DEF AttemptedOnceInv
  <2>1. IsFiniteSet(Unresolved) /\ Cardinality(Unresolved) <= Cardinality(Loose)
      BY FS_Subset DEF LooseBounded, Loose
  <2>2. Busy = {} \/ \E r \in Runs : Busy = {r}
      BY DEF OneActive, Active, Busy, OutcomeKinds
  <2>3. IsFiniteSet(Busy)
      BY <2>2, FS_EmptySet, FS_Singleton
  <2>4. Cardinality(Unresolved) <= crashes + Cardinality(Busy)
      BY <2>1, <2>3, FS_CardinalityType DEF LooseBounded, TypeOK
  <2>5. Busy = {r \in Runs : pc[r] \in {"submit", "order_accepted", "order_failed"}}
      BY DEF Busy, OutcomeKinds
  <2> QED
      BY <2>4, <2>5 DEF OutcomesRecorded
<1>4. Spec => []AttemptedOnceInv
    BY NeverRepeatedInv
<1> QED
    BY <1>1, <1>2, <1>3, <1>4, PTL DEF Spec

-----------------------------------------------------------------------------
(***************************************************************************)
(* No glitched reading enters the ledger.                                  *)
(***************************************************************************)
\* The equity figure replaced by g is one the reconciliation of r's readings refuses.
Detectable(r, g) == ~Reconciles([account[r] EXCEPT !.equity = g], held[r], quotes[r])

\* A wrong figure is a glitch when it is too far from the marked value: one within
\* max_equity_mismatch of it is no different, to check_plan, from a correct one.
GlitchesDetectable ==
    \A r \in Runs : pc[r] = "planning" => \A g \in GlitchEquities : Detectable(r, g)

\* A line that may be recorded.
GlitchFree(line) == line.kind = "equity" /\ ~line.dry => line.equity \notin GlitchEquities

NextGlitchFree ==
    \A r \in Runs : pc[r] = "equity" => account[r].equity \notin GlitchEquities

TornGlitchFree == \A i \in DOMAIN torn : GlitchFree(torn[i])

\* The plan of a run whose equity is a detectable glitch is refused.
LEMMA AcceptedIsNoGlitch ==
    ASSUME TypeOK, NEW r \in Runs, PassesCheck(r),
           \A g \in GlitchEquities : Detectable(r, g)
    PROVE  account[r].equity \notin GlitchEquities
<1>1. Reconciles(account[r], held[r], quotes[r])
    BY DEF PassesCheck, CheckPlan
<1>2. [account[r] EXCEPT !.equity = account[r].equity] = account[r]
    BY DEF TypeOK
<1> QED
    BY <1>1, <1>2 DEF Detectable

\* The ledger grows by a line that may be recorded.
LEMMA GlitchFreeAppend ==
    ASSUME TypeOK, GlitchNeverRecorded, NEW line, ledger' = Append(ledger, line),
           GlitchFree(line)
    PROVE  GlitchNeverRecorded'
<1> DEFINE n == Len(ledger)
<1>1. /\ n \in Nat /\ DOMAIN ledger = 1..n
      /\ \A i \in 1..n : ledger'[i] = ledger[i]
      /\ DOMAIN ledger' = 1..(n + 1) /\ ledger'[n + 1] = line
    BY Appended
<1> HIDE DEF n
<1> SUFFICES ASSUME NEW i \in RealEquityLines' PROVE ledger'[i].equity \notin GlitchEquities
    BY DEF GlitchNeverRecorded
<1>2. CASE i \in 1..n
    BY <1>1, <1>2 DEF GlitchNeverRecorded, RealEquityLines, LinesOf
<1>3. CASE i = n + 1
    BY <1>1, <1>3 DEF GlitchFree, RealEquityLines, LinesOf
<1> QED
    BY <1>1, <1>2, <1>3 DEF RealEquityLines, LinesOf

\* No step brings a detectable glitch nearer to the ledger, whatever runs overlap.
LEMMA GlitchFreeStep ==
    ASSUME TypeOK, GlitchesDetectable, GlitchNeverRecorded, NextGlitchFree, TornGlitchFree,
           [Next]_vars
    PROVE  GlitchNeverRecorded' /\ NextGlitchFree' /\ TornGlitchFree'
<1>1. ledger' = ledger => GlitchNeverRecorded'
    BY DEF GlitchNeverRecorded, RealEquityLines, LinesOf
<1>2. torn' = torn => TornGlitchFree'
    BY DEF TornGlitchFree, GlitchFree
<1>3. CASE Surroundings \/ UNCHANGED vars
  <2>1. NextGlitchFree'
      BY <1>3, AroundRuns DEF NextGlitchFree
  <2>2. CASE ledger' = ledger /\ torn' = torn
      BY <1>1, <1>2, <2>1, <2>2
  <2>3. CASE torn # <<>> /\ torn' = <<>> /\ (ledger' = ledger \/ ledger' = Append(ledger, torn[1]))
    <3>1. DOMAIN torn' = {}
        BY <2>3
    <3>2. GlitchFree(torn[1])
        BY <2>3, TornShape DEF TornGlitchFree
    <3>3. GlitchNeverRecorded'
        BY <1>1, <2>3, <3>2, GlitchFreeAppend
    <3> QED
        BY <2>1, <3>1, <3>3 DEF TornGlitchFree
  <2> QED
      BY <1>3, <2>2, <2>3, AroundRuns
<1>4. ASSUME NEW r \in Runs, StepOf(r)
      PROVE  GlitchNeverRecorded' /\ NextGlitchFree' /\ TornGlitchFree'
  <2>1. NextGlitchFree'
    <3> SUFFICES ASSUME NEW s \in Runs, pc'[s] = "equity"
                 PROVE  account'[s].equity \notin GlitchEquities
        BY DEF NextGlitchFree
    <3>1. CASE s # r
      <4>1. pc'[s] = pc[s] /\ account'[s] = account[s]
          BY <1>4, <3>1, OthersStay, OtherReadings DEF StepOf
      <4> QED
          BY <4>1 DEF NextGlitchFree
    <3>2. CASE s = r
      <4>1. AcceptPlan(r)
          BY <1>4, <3>2, Origin
      <4>2. pc[r] = "planning" /\ PassesCheck(r) /\ account' = account
          BY <4>1 DEF AcceptPlan, views
      <4> QED
          BY <3>2, <4>2, AcceptedIsNoGlitch DEF GlitchesDetectable
    <3> QED
        BY <3>1, <3>2
  <2>2. CASE ledger' = ledger /\ torn' = torn
      BY <1>1, <1>2, <2>1, <2>2
  <2>3. ASSUME pc[r] \in AppendPcs, NEW line \in NextLines(r)
        PROVE  GlitchFree(line)
      BY <2>3, EquityLine DEF GlitchFree, NextGlitchFree
  <2>4. ASSUME pc[r] \in AppendPcs, NEW line \in NextLines(r),
               ledger' = Append(ledger, line), torn' = torn
        PROVE  GlitchNeverRecorded' /\ TornGlitchFree'
      BY <1>2, <2>3, <2>4, GlitchFreeAppend
  <2>5. ASSUME pc[r] \in AppendPcs, NEW line \in NextLines(r),
               ledger' = ledger, torn' = <<line>>
        PROVE  GlitchNeverRecorded' /\ TornGlitchFree'
    <3>1. DOMAIN torn' = {1} /\ torn'[1] = line
        BY <2>5
    <3> QED
        BY <1>1, <2>3, <2>5, <3>1 DEF TornGlitchFree, GlitchFree
  <2> QED
      BY <1>4, <2>1, <2>2, <2>4, <2>5, FilesStep
<1> QED
    BY <1>3, <1>4, StepKinds

\* A glitched reading never enters an equity line of a real cycle, and so never the
\* high-water mark: it has to be wrong by more than max_equity_mismatch, and that is
\* enough, also with overlapping runs, torn lines and repairs.
THEOREM GlitchesStayOut == Spec /\ []GlitchesDetectable => []GlitchNeverRecorded
<1>1. Init => GlitchNeverRecorded /\ NextGlitchFree /\ TornGlitchFree
    BY DEF Init, GlitchNeverRecorded, NextGlitchFree, TornGlitchFree, RealEquityLines, LinesOf
<1>2. /\ TypeOK /\ GlitchesDetectable /\ GlitchNeverRecorded /\ NextGlitchFree
      /\ TornGlitchFree /\ [Next]_vars
      => GlitchNeverRecorded' /\ NextGlitchFree' /\ TornGlitchFree'
    BY GlitchFreeStep
<1>3. Spec => []TypeOK
    BY TypeCorrect
<1> QED
    BY <1>1, <1>2, <1>3, PTL DEF Spec

-----------------------------------------------------------------------------
(***************************************************************************)
(* A run gets to its end: what its calls leave it to do.                   *)
(***************************************************************************)
InLoop == {"order_intent", "submit", "order_accepted", "order_failed"}

\* A run has no more orders than a day may have, and one as long as it is in the loop.
OrdersBounded ==
    \A r \in Runs : /\ IsFiniteSet(todo[r]) /\ Cardinality(todo[r]) <= MaxOrdersPerDay
                    /\ pc[r] \in InLoop => todo[r] # {}

\* From one label to the next, with the same orders.
NextLabel(from, to) ==
    \/ from = "idle" /\ to = "date"
    \/ from = "date" /\ to = "openOrders"
    \/ from = "openOrders" /\ to = "account"
    \/ from = "account" /\ to = "positions"
    \/ from = "positions" /\ to = "bars"
    \/ from = "bars" /\ to = "forecasts"
    \/ from = "forecasts" /\ to = "planning"
    \/ from = "planning" /\ to = "breach"
    \/ from = "equity" /\ to = "plan"
    \/ from = "plan" /\ to = "order_intent"
    \/ from = "order_intent" /\ to = "submit"
    \/ from = "submit" /\ to \in {"order_accepted", "order_failed"}

\* A run exits, goes on with the orders it has, takes up a plan, or is done with an order.
LEMMA RunMoves ==
    ASSUME TypeOK, OrdersBounded, NEW r \in Runs, StepOf(r)
    PROVE  /\ pc[r] # "done"
           /\ \/ pc'[r] = "done" /\ todo'[r] = {}
              \/ /\ NextLabel(pc[r], pc'[r]) /\ todo'[r] = todo[r]
                 /\ pc[r] = "plan" => todo[r] # {}
              \/ /\ pc[r] = "planning" /\ pc'[r] = "equity" /\ todo'[r] = PlanOf(r)
                 /\ PassesCheck(r)
              \/ /\ pc[r] = "order_accepted" /\ pc'[r] = "order_intent"
                 /\ \E o \in todo[r] : todo'[r] = todo[r] \ {o} /\ todo[r] # {o}
<1>1. pc[r] # "done"
    BY ActiveBefore DEF Active, Start
<1>2. pc \in [Runs -> Pcs] /\ todo \in [Runs -> SUBSET PlannedOrders]
    BY DEF TypeOK
<1> USE <1>2 DEF Goto, Exit, views, NextLabel
<1>3. CASE Start(r) \/ Crash(r) \/ CrashTearingLine(r)
    BY <1>1, <1>3 DEF Start, Crash, CrashTearingLine
<1>4. CASE CheckDate(r) \/ GetOpenOrders(r) \/ GetAccount(r) \/ GetPositions(r) \/ GetBars(r)
    BY <1>1, <1>4 DEF CheckDate, GetOpenOrders, GetAccount, GetPositions, GetBars
<1>5. CASE RefusePlan(r) \/ BreachLimit(r) \/ AcceptPlan(r)
    BY <1>1, <1>5 DEF RefusePlan, BreachLimit, AcceptPlan
<1>6. CASE SubmitRefused(r) \/ LedgerRefuses(r) \/ ReadRaises(r)
    BY <1>1, <1>6 DEF SubmitRefused, ReadRaises, LedgerRefuses
<1>7. CASE AppendForecasts(r) \/ AppendBreach(r) \/ AppendEquity(r)
    BY <1>1, <1>7 DEF AppendForecasts, AppendBreach, AppendEquity
<1>8. CASE AppendPlan(r)
    BY <1>1, <1>8 DEF AppendPlan
<1>9. ASSUME NEW o \in todo[r],
             AppendIntent(r, o) \/ SubmitReceived(r, o) \/ SubmitDead(r, o) \/ AppendFailed(r, o)
      PROVE  \/ pc'[r] = "done" /\ todo'[r] = {}
             \/ NextLabel(pc[r], pc'[r]) /\ todo'[r] = todo[r] /\ pc[r] # "plan"
    BY <1>9 DEF AppendIntent, SubmitReceived, SubmitDead, AppendFailed
<1>10. ASSUME NEW o \in todo[r], AppendAccepted(r, o)
       PROVE  \/ pc'[r] = "done" /\ todo'[r] = {}
              \/ /\ pc[r] = "order_accepted" /\ pc'[r] = "order_intent"
                 /\ todo'[r] = todo[r] \ {o} /\ todo[r] # {o}
    BY <1>10 DEF AppendAccepted
<1> QED
    BY <1>1, <1>3, <1>4, <1>5, <1>6, <1>7, <1>8, <1>9, <1>10 DEF StepOf, RunStep

\* A plan that passes the check has no more orders than a day may have.
LEMMA PlanWithinDay ==
    ASSUME TypeOK, NEW r \in Runs, PassesCheck(r)
    PROVE  IsFiniteSet(PlanOf(r)) /\ Cardinality(PlanOf(r)) <= MaxOrdersPerDay
<1>1. IsFiniteSet(PlanOf(r))
    BY PlanIsFinite DEF PlanOf
<1>2. OrdersAttemptedOn(asOf[r]) \in Nat
  <2>1. DOMAIN ledger = 1..Len(ledger) /\ Len(ledger) \in Nat
      BY DEF TypeOK
  <2>2. IsFiniteSet(1..Len(ledger))
      BY <2>1, FS_Interval
  <2>3. {i \in LinesOf("order_intent") : ledger[i].id[1] = asOf[r]} \in SUBSET (1..Len(ledger))
      BY <2>1 DEF LinesOf
  <2> QED
      BY <2>2, <2>3, FS_Subset, FS_CardinalityType DEF OrdersAttemptedOn
<1>3. OrdersAttemptedOn(asOf[r]) + Cardinality(PlanOf(r)) <= MaxOrdersPerDay
    BY DEF PassesCheck, CheckPlan, WithinDailyOrders
<1>4. Cardinality(PlanOf(r)) \in Nat /\ MaxOrdersPerDay \in Nat
    BY <1>1, FS_CardinalityType, ConfigAssumption
<1> QED
    BY <1>1, <1>2, <1>3, <1>4

\* What is left of `n` orders at a label.
LeftAt(label, n) ==
    CASE label = "done" -> 0
      [] label = "breach" -> 1
      [] label \in {"order_accepted", "order_failed"} -> 3 * n - 2
      [] label = "submit" -> 3 * n - 1
      [] label = "order_intent" -> 3 * n
      [] label = "plan" -> 3 * n + 1
      [] label = "equity" -> 3 * n + 2
      [] label = "planning" -> 3 * MaxOrdersPerDay + 3
      [] label = "forecasts" -> 3 * MaxOrdersPerDay + 4
      [] label = "bars" -> 3 * MaxOrdersPerDay + 5
      [] label = "positions" -> 3 * MaxOrdersPerDay + 6
      [] label = "account" -> 3 * MaxOrdersPerDay + 7
      [] label = "openOrders" -> 3 * MaxOrdersPerDay + 8
      [] label = "date" -> 3 * MaxOrdersPerDay + 9
      [] label = "idle" -> 3 * MaxOrdersPerDay + 10

\* What is left is a positive number until the run is done.
LEMMA LeftIs ==
    ASSUME NEW label \in Pcs, NEW n \in Nat, n <= MaxOrdersPerDay, label \in InLoop => n # 0
    PROVE  /\ LeftAt(label, n) \in 0..(3 * MaxOrdersPerDay + 10)
           /\ label # "done" => LeftAt(label, n) > 0
<1>1. PICK m \in Nat : m = MaxOrdersPerDay
    BY ConfigAssumption
<1>2. /\ label = "done" => LeftAt(label, n) = 0
      /\ label = "breach" => LeftAt(label, n) = 1
      /\ label \in {"order_accepted", "order_failed"} => LeftAt(label, n) = 3 * n - 2
      /\ label = "submit" => LeftAt(label, n) = 3 * n - 1
      /\ label = "order_intent" => LeftAt(label, n) = 3 * n
      /\ label = "plan" => LeftAt(label, n) = 3 * n + 1
      /\ label = "equity" => LeftAt(label, n) = 3 * n + 2
    BY DEF LeftAt
<1>3. label \in ReadPcs \cup {"forecasts", "idle"} =>
          LeftAt(label, n) \in {3 * m + 3, 3 * m + 4, 3 * m + 5, 3 * m + 6,
                                3 * m + 7, 3 * m + 8, 3 * m + 9, 3 * m + 10}
    BY <1>1 DEF LeftAt, ReadPcs
<1>4. n <= m /\ (label \in {"order_accepted", "order_failed", "submit", "order_intent"} => n >= 1)
    BY <1>1 DEF InLoop
<1> SUFFICES /\ LeftAt(label, n) \in 0..(3 * m + 10)
             /\ label # "done" => LeftAt(label, n) > 0
    BY <1>1
<1>5. CASE label \in {"done", "breach", "order_accepted", "order_failed", "submit"}
    BY <1>2, <1>4, <1>5
<1>6. CASE label \in {"order_intent", "plan", "equity"}
    BY <1>2, <1>4, <1>6
<1>7. CASE label \in ReadPcs \cup {"forecasts", "idle"}
    BY <1>3, <1>7
<1> QED
    BY <1>5, <1>6, <1>7 DEF Pcs, AppendPcs, RunKinds, OrderKinds

\* The next label leaves less.
LEMMA LeftShrinks ==
    ASSUME NEW from, NEW to, NextLabel(from, to), NEW n \in Nat
    PROVE  LeftAt(to, n) < LeftAt(from, n)
<1>1. MaxOrdersPerDay \in Nat
    BY ConfigAssumption
<1>2. CASE \/ from = "idle" /\ to = "date"
           \/ from = "date" /\ to = "openOrders"
           \/ from = "openOrders" /\ to = "account"
           \/ from = "account" /\ to = "positions"
    BY <1>1, <1>2 DEF LeftAt
<1>3. CASE \/ from = "positions" /\ to = "bars"
           \/ from = "bars" /\ to = "forecasts"
           \/ from = "forecasts" /\ to = "planning"
           \/ from = "planning" /\ to = "breach"
    BY <1>1, <1>3 DEF LeftAt
<1>4. CASE \/ from = "equity" /\ to = "plan"
           \/ from = "plan" /\ to = "order_intent"
           \/ from = "order_intent" /\ to = "submit"
           \/ from = "submit" /\ to \in {"order_accepted", "order_failed"}
    BY <1>4 DEF LeftAt
<1> QED
    BY <1>2, <1>3, <1>4 DEF NextLabel

\* A step of a run, or its death, leaves it less to do, and within its bounds.
LEMMA CallsShrink ==
    ASSUME TypeOK, OrdersBounded, NEW r \in Runs, StepOf(r)
    PROVE  /\ CallsLeft(r)' < CallsLeft(r)
           /\ IsFiniteSet(todo'[r]) /\ Cardinality(todo'[r]) <= MaxOrdersPerDay
           /\ pc'[r] \in InLoop => todo'[r] # {}
<1>1. PICK T : T = todo[r]
    OBVIOUS
<1>2. PICK U : U = todo'[r]
    OBVIOUS
<1>3. /\ IsFiniteSet(T) /\ Cardinality(T) \in Nat /\ Cardinality(T) <= MaxOrdersPerDay
      /\ pc[r] \in InLoop => T # {}
    BY <1>1, FS_CardinalityType DEF OrdersBounded
<1>4. MaxOrdersPerDay \in Nat /\ Cardinality({}) = 0 /\ IsFiniteSet({})
    BY ConfigAssumption, FS_EmptySet
<1>5. T # {} => Cardinality(T) # 0
    BY <1>3, FS_EmptySet
<1>6. /\ CallsLeft(r) = LeftAt(pc[r], Cardinality(T))
      /\ CallsLeft(r)' = LeftAt(pc'[r], Cardinality(U))
  <2>1. CallsLeft(r) = LeftAt(pc[r], Cardinality(todo[r]))
      BY Zenon DEF CallsLeft, LeftAt
  <2>2. CallsLeft(r)' = LeftAt(pc'[r], Cardinality(todo'[r]))
      BY Zenon DEF CallsLeft, LeftAt
  <2> QED
      BY <1>1, <1>2, <2>1, <2>2
<1>7. pc[r] \in Pcs /\ pc[r] # "done"
    BY RunMoves DEF TypeOK
<1>8. LeftAt(pc[r], Cardinality(T)) > 0
    BY <1>3, <1>5, <1>7, LeftIs
<1>9. CASE pc'[r] = "done" /\ U = {}
  <2>1. LeftAt("done", Cardinality(U)) = 0
      BY DEF LeftAt
  <2> QED
      BY <1>2, <1>4, <1>6, <1>8, <1>9, <2>1 DEF InLoop
<1>10. CASE NextLabel(pc[r], pc'[r]) /\ U = T /\ (pc[r] = "plan" => T # {})
  <2>1. pc'[r] \in InLoop => T # {}
      BY <1>3, <1>10 DEF NextLabel, InLoop
  <2> QED
      BY <1>2, <1>3, <1>6, <1>10, <2>1, LeftShrinks
<1>11. CASE pc[r] = "planning" /\ pc'[r] = "equity" /\ U = PlanOf(r) /\ PassesCheck(r)
  <2>1. IsFiniteSet(U) /\ Cardinality(U) <= MaxOrdersPerDay /\ Cardinality(U) \in Nat
      BY <1>11, PlanWithinDay, FS_CardinalityType
  <2>2. /\ LeftAt("planning", Cardinality(T)) = 3 * MaxOrdersPerDay + 3
        /\ LeftAt("equity", Cardinality(U)) = 3 * Cardinality(U) + 2
      BY DEF LeftAt
  <2> QED
      BY <1>2, <1>4, <1>6, <1>11, <2>1, <2>2 DEF InLoop
<1>12. ASSUME pc[r] = "order_accepted", pc'[r] = "order_intent",
              NEW o \in T, U = T \ {o}, T # {o}
       PROVE  /\ LeftAt(pc'[r], Cardinality(U)) < LeftAt(pc[r], Cardinality(T))
              /\ IsFiniteSet(U) /\ Cardinality(U) <= MaxOrdersPerDay /\ U # {}
  <2>1. IsFiniteSet(U) /\ Cardinality(U) = Cardinality(T) - 1 /\ U # {}
      BY <1>3, <1>12, FS_RemoveElement
  <2>2. /\ LeftAt("order_accepted", Cardinality(T)) = 3 * Cardinality(T) - 2
        /\ LeftAt("order_intent", Cardinality(U)) = 3 * Cardinality(U)
      BY DEF LeftAt
  <2> QED
      BY <1>3, <1>4, <1>12, <2>1, <2>2
<1> QED
    BY <1>1, <1>2, <1>6, <1>9, <1>10, <1>11, <1>12, RunMoves

\* What a run has left is between nothing and nine calls and three for each order a
\* day may have, and one to start.
CallsBounded == \A r \in Runs : CallsLeft(r) \in 0..(3 * MaxOrdersPerDay + 10)

\* Whatever crashes, tears, fills, or runs at the same time, each step of a run brings
\* it nearer its exit and nothing moves it back, so that no run goes on for ever.
THEOREM RunsGetOn == Spec => CallsRunOut /\ []CallsBounded
<1>1. Init => OrdersBounded
    BY FS_EmptySet, ConfigAssumption DEF Init, OrdersBounded, InLoop
<1>2. TypeOK /\ OrdersBounded /\ [Next]_vars
      => /\ OrdersBounded'
         /\ [\A r \in Runs :
                \/ CallsLeft(r)' < CallsLeft(r)
                \/ CallsLeft(r)' = CallsLeft(r) /\ ~Start(r) /\ ~RunStep(r)]_vars
  <2> SUFFICES ASSUME TypeOK, OrdersBounded, [Next]_vars
               PROVE  /\ OrdersBounded'
                      /\ \A r \in Runs :
                            \/ CallsLeft(r)' < CallsLeft(r)
                            \/ CallsLeft(r)' = CallsLeft(r) /\ ~Start(r) /\ ~RunStep(r)
                         \/ UNCHANGED vars
      OBVIOUS
  <2>1. ASSUME NEW r \in Runs, ~StepOf(r)
        PROVE  pc'[r] = pc[r] /\ todo'[r] = todo[r]
      BY <2>1, StepKinds, OthersStay, SurroundingsStay DEF StepOf
  <2>2. OrdersBounded'
      BY <2>1, CallsShrink DEF OrdersBounded
  <2>3. ASSUME NEW r \in Runs
        PROVE  \/ CallsLeft(r)' < CallsLeft(r)
               \/ CallsLeft(r)' = CallsLeft(r) /\ ~Start(r) /\ ~RunStep(r)
    <3>1. CASE StepOf(r)
        BY <3>1, CallsShrink
    <3>2. CASE ~StepOf(r)
      <4>1. CallsLeft(r)' = CallsLeft(r)
          BY <2>1, <3>2 DEF CallsLeft
      <4> QED
          BY <3>2, <4>1 DEF StepOf
    <3> QED
        BY <3>1, <3>2
  <2> QED
      BY <2>2, <2>3
<1>3. TypeOK /\ OrdersBounded => CallsBounded
  <2> SUFFICES ASSUME TypeOK, OrdersBounded, NEW r \in Runs
               PROVE  CallsLeft(r) \in 0..(3 * MaxOrdersPerDay + 10)
      BY DEF CallsBounded
  <2>1. CallsLeft(r) = LeftAt(pc[r], Cardinality(todo[r]))
      BY Zenon DEF CallsLeft, LeftAt
  <2>2. /\ Cardinality(todo[r]) \in Nat /\ Cardinality(todo[r]) <= MaxOrdersPerDay
        /\ pc[r] \in InLoop => Cardinality(todo[r]) # 0
      BY FS_CardinalityType, FS_EmptySet DEF OrdersBounded
  <2> QED
      BY <2>1, <2>2, LeftIs DEF TypeOK
<1> QED
    BY <1>1, <1>2, <1>3, TypeCorrect, PTL DEF Spec, CallsRunOut
=============================================================================
