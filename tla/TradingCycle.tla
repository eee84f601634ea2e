---------------------------- MODULE TradingCycle ----------------------------
(***************************************************************************)
(* The trading CLI over several days: runs of `python -m src.trading.run`  *)
(* (run.py, cycle.py) against the Alpaca paper account (alpaca_broker.py)  *)
(* and the append-only ledger (ledger.py).                                 *)
(*                                                                         *)
(* A step of a run is one call that leaves the process: a broker request,  *)
(* a forecast file read, or one ledger append.  Between two of them the    *)
(* market may open, fill or expire orders and close, the day may change,   *)
(* the operator may touch the kill switch, another run may move, and the   *)
(* process may die, in the middle of a ledger line too.                    *)
(*                                                                         *)
(* Nothing in the code keeps two runs apart.  Serial says whether the      *)
(* operator does: the documented schedule is one weekly run.               *)
(***************************************************************************)
EXTENDS TradePlan, Sequences, Functions

CONSTANTS
    Runs,               \* invocations of the CLI, each used once
    Serial,             \* TRUE: a run starts only when no other is active
    ForecastFiles,      \* contents a forecast file may have: [Universe -> triples]
    OpeningPrices,      \* prices the market may open at: [Tickers -> price]
    StartCash,          \* cash of the account before the first run
    StartHeld,          \* shares held of each ticker before the first run
    StartPrice,         \* price of every share before the first run
    KillSwitchUsed,     \* whether the operator touches the kill switch at all
    GlitchEquities,     \* wrong values the equity field may be read as
    MaxEquity,          \* bound on an equity reading
    MaxDay,             \* bound on market dates
    MaxCrashes          \* bound on killed runs

ASSUME CycleAssumption ==
    /\ Serial \in BOOLEAN
    /\ KillSwitchUsed \in BOOLEAN
    /\ \A prices \in OpeningPrices : prices \in [Tickers -> Nat \ {0}]
    /\ StartPrice \in Nat \ {0}
    /\ StartCash \in Int
    /\ StartHeld \in [Tickers -> Nat]
    /\ GlitchEquities \subseteq Int
    /\ MaxEquity \in Nat
    /\ MaxDay \in Nat \ {0}
    /\ MaxCrashes \in Nat
    /\ \A f \in ForecastFiles : f \in [Universe -> [p10 : Int, p50 : Int, p90 : Int]]

VARIABLES
    (* The broker and the market. *)
    day,                \* Broker.today()
    hours,              \* "pre" | "open" | "close" (before BAR_FINAL_AFTER) | "final"
    marks,              \* current price of each ticker
    bars,               \* last daily bar of each ticker: [price, asOf]
    cash, positions,    \* the account
    lastEquity,         \* equity at the previous close
    pending,            \* open orders; qty is what is left to fill
    known,              \* client order ids the broker has seen, which it keeps unique
    (* The files. *)
    ledger,             \* complete lines of ledger-paper.jsonl
    torn,               \* <<>>, or <<rec>> when the last line is a torn piece of rec
    kill,               \* kill_switch_path.exists()
    (* The runs. *)
    pc,                 \* where each run is
    dry,                \* started without --submit
    asOf,               \* the market date the run took at its start
    forecasts,          \* what it read from the forecast file
    account,            \* its get_account() reading
    held,               \* its get_positions() reading
    quotes,             \* its get_bars() reading
    todo,               \* planned orders whose loop iteration has not ended
    (* History, read only by the properties. *)
    planned,            \* [lo, hi]: holdings before and after the last plan accepted
    crashes             \* runs killed so far

broker == <<cash, positions, lastEquity, pending, known>>
market == <<day, hours, marks, bars>>
files  == <<ledger, torn, kill>>
views  == <<dry, asOf, forecasts, account, held, quotes>>
vars   == <<market, broker, files, pc, views, todo, planned, crashes>>

Days == 1..MaxDay

-----------------------------------------------------------------------------
(***************************************************************************)
(* The ledger.                                                             *)
(***************************************************************************)
RunKinds   == {"forecasts", "breach", "equity", "plan"}
OrderKinds == {"order_intent", "order_accepted", "order_failed"}

OrderIds == Days \X Tickers \X Sides

\* A line keeps the payload fields that are read back; equity is 0 where the
\* payload has none.
Records ==
    [kind : RunKinds, asOf : Days, dry : BOOLEAN, equity : Int]
        \cup [kind : OrderKinds, id : OrderIds]

LinesOf(kind) == {i \in DOMAIN ledger : ledger[i].kind = kind}

\* Ledger.attempted_client_ids
AttemptedIds == {ledger[i].id : i \in LinesOf("order_intent")}

\* Mutation: counts what the broker accepted instead of what was attempted.
OrdersAttemptedOn_Accepted(d) ==
    Cardinality({i \in LinesOf("order_accepted") : ledger[i].id[1] = d})

\* Ledger.orders_attempted_on
OrdersAttemptedOn(d) == Cardinality({i \in LinesOf("order_intent") : ledger[i].id[1] = d})

\* The equity lines of cycles that were not dry runs.
RealEquityLines == {i \in LinesOf("equity") : ~ledger[i].dry}

\* Mutation: the mark restarts every day.
HighWaterMark_Today(equity) ==
    Max({0, equity} \cup {ledger[i].equity : i \in {j \in RealEquityLines : ledger[j].asOf = day}})

\* Ledger.high_water_mark() or 0.0, raised to the current reading.
HighWaterMark(equity) == Max({0, equity} \cup {ledger[i].equity : i \in RealEquityLines})

-----------------------------------------------------------------------------
(***************************************************************************)
(* The account.                                                            *)
(***************************************************************************)
Equity == cash + MapThenSumSet(LAMBDA t : positions[t] * marks[t], Tickers)

Readings == (-MaxEquity)..MaxEquity

\* What a run's readings are before it reads them, and after it exits.
NoAccount == [equity |-> 0, cash |-> 0, lastEquity |-> 0]
NoQuotes  == [t \in Tickers |-> [price |-> StartPrice, asOf |-> 0]]
NoShares  == [t \in Tickers |-> 0]

Init ==
    /\ day = 1
    /\ hours = "pre"
    /\ marks = [t \in Tickers |-> StartPrice]
    /\ bars = [t \in Tickers |-> [price |-> StartPrice, asOf |-> 0]]
    /\ cash = StartCash
    /\ positions = StartHeld
    /\ lastEquity \in {e \in Readings : e = Equity}
    /\ pending = {}
    /\ known = {}
    /\ ledger = <<>>
    /\ torn = <<>>
    /\ kill = FALSE
    /\ pc = [r \in Runs |-> "idle"]
    /\ dry = [r \in Runs |-> TRUE]
    /\ asOf = [r \in Runs |-> 1]
    /\ forecasts = [r \in Runs |-> <<>>]
    /\ account = [r \in Runs |-> NoAccount]
    /\ held = [r \in Runs |-> NoShares]
    /\ quotes = [r \in Runs |-> NoQuotes]
    /\ todo = [r \in Runs |-> {}]
    /\ planned = [lo |-> StartHeld, hi |-> StartHeld]
    /\ crashes = 0

-----------------------------------------------------------------------------
(***************************************************************************)
(* One run.  Its program counter names the call it makes next; where that  *)
(* is a ledger append, the kind of the line:                               *)
(*   date -> openOrders -> account -> positions -> bars -> forecasts       *)
(*     -> planning -> (breach | equity -> plan -> order_intent -> submit   *)
(*     -> (order_accepted -> order_intent ... | order_failed))             *)
(* and "done" once the process has exited, however it did.                 *)
(***************************************************************************)
AppendPcs == RunKinds \cup OrderKinds

ReadPcs == {"date", "openOrders", "account", "positions", "bars", "planning"}

Pcs == {"idle", "submit", "done"} \cup AppendPcs \cup ReadPcs

Active(r) == pc[r] \notin {"idle", "done"}

Goto(r, label) == pc' = [pc EXCEPT ![r] = label]

\* The process exits: what it had in memory is gone.
Exit(r) ==
    /\ Goto(r, "done")
    /\ dry' = [dry EXCEPT ![r] = TRUE]
    /\ asOf' = [asOf EXCEPT ![r] = 1]
    /\ forecasts' = [forecasts EXCEPT ![r] = <<>>]
    /\ account' = [account EXCEPT ![r] = NoAccount]
    /\ held' = [held EXCEPT ![r] = NoShares]
    /\ quotes' = [quotes EXCEPT ![r] = NoQuotes]
    /\ todo' = [todo EXCEPT ![r] = {}]

\* run.main: the market is closed and the forecast file is for today.  A start
\* that is refused exits without a trace, so it is no step.
Start(r) ==
    /\ pc[r] = "idle"
    /\ Serial => \A s \in Runs : ~Active(s)
    /\ hours # "open"
    /\ \E f \in ForecastFiles, d \in BOOLEAN :
        /\ forecasts' = [forecasts EXCEPT ![r] = f]
        /\ dry' = [dry EXCEPT ![r] = d]
    /\ asOf' = [asOf EXCEPT ![r] = day]
    /\ Goto(r, "date")
    /\ UNCHANGED <<market, broker, files, account, held, quotes, todo, planned, crashes>>

CheckDate(r) ==
    /\ pc[r] = "date"
    /\ IF asOf[r] = day
       THEN Goto(r, "openOrders") /\ UNCHANGED <<views, todo>>
       ELSE Exit(r)
    /\ UNCHANGED <<market, broker, files, planned, crashes>>

\* Mutation: plans while orders are open.
GetOpenOrders_Ignored(r) ==
    /\ pc[r] = "openOrders"
    /\ Goto(r, "account")
    /\ UNCHANGED <<market, broker, files, views, todo, planned, crashes>>

GetOpenOrders(r) ==
    /\ pc[r] = "openOrders"
    /\ IF pending = {}
       THEN Goto(r, "account") /\ UNCHANGED <<views, todo>>
       ELSE Exit(r)
    /\ UNCHANGED <<market, broker, files, planned, crashes>>

\* The equity field may be glitched; cash and the previous close are not.
GetAccount(r) ==
    /\ pc[r] = "account"
    /\ \E e \in Readings :
        /\ e = Equity \/ e \in GlitchEquities
        /\ account' = [account EXCEPT ![r] =
                          [equity |-> e, cash |-> cash, lastEquity |-> lastEquity]]
    /\ Goto(r, "positions")
    /\ UNCHANGED <<market, broker, files, dry, asOf, forecasts, held, quotes, todo, planned,
                   crashes>>

GetPositions(r) ==
    /\ pc[r] = "positions"
    /\ held' = [held EXCEPT ![r] = positions]
    /\ Goto(r, "bars")
    /\ UNCHANGED <<market, broker, files, dry, asOf, forecasts, account, quotes, todo, planned,
                   crashes>>

\* AlpacaBroker.get_bars refuses today's bar until it is final.  Early in a session
\* the feed may have no bar of the day yet and serve the last one; that it refuses a
\* partial one is ReadRaises.
BarsServed(tickers) == tickers = {} \/ hours # "close"

\* decide_targets, then get_bars for what is targeted or held.
GetBars(r) ==
    /\ pc[r] = "bars"
    /\ IF /\ ValidForecasts(forecasts[r])
          /\ BarsServed(Selected(forecasts[r]) \cup {t \in Tickers : held[r][t] # 0})
       THEN /\ quotes' = [quotes EXCEPT ![r] = bars]
            /\ Goto(r, "forecasts")
            /\ UNCHANGED <<dry, asOf, forecasts, account, held, todo>>
       ELSE Exit(r)
    /\ UNCHANGED <<market, broker, files, planned, crashes>>

\* A read of the broker fails, or returns what AlpacaBroker refuses: an account
\* that is not active, a fractional quantity, no bar or a partial one.
ReadRaises(r) ==
    /\ pc[r] \in {"date", "openOrders", "account", "positions", "bars"}
    /\ Exit(r)
    /\ UNCHANGED <<market, broker, files, planned, crashes>>

-----------------------------------------------------------------------------
(***************************************************************************)
(* Planning.                                                               *)
(***************************************************************************)
PlanOf(r) ==
    PlanOrders(Selected(forecasts[r]), held[r], account[r].equity,
               [t \in Tickers |-> quotes[r][t].price], asOf[r])

PassesCheck(r) ==
    CheckPlan(PlanOf(r), account[r], held[r], quotes[r], HighWaterMark(account[r].equity),
              OrdersAttemptedOn(asOf[r]), asOf[r], kill)

\* Mutation: an attempt of unknown outcome may be repeated.
Repeats_AcceptedOnly(r) ==
    \E o \in PlanOf(r), i \in LinesOf("order_accepted") : ClientOrderId(o) = ledger[i].id

Repeats(r) == \E o \in PlanOf(r) : ClientOrderId(o) \in AttemptedIds

\* plan_orders raises, or a planned order was attempted earlier: no record is left.
RefusePlan(r) ==
    /\ pc[r] = "planning"
    /\ torn = <<>>
    /\ PlanRefused(held[r], account[r].equity) \/ Repeats(r)
    /\ Exit(r)
    /\ UNCHANGED <<market, broker, files, planned, crashes>>

BreachLimit(r) ==
    /\ pc[r] = "planning"
    /\ torn = <<>>
    /\ ~PlanRefused(held[r], account[r].equity)
    /\ ~Repeats(r)
    /\ ~PassesCheck(r)
    /\ Goto(r, "breach")
    /\ UNCHANGED <<market, broker, files, views, todo, planned, crashes>>

Least(m, n) == IF m < n THEN m ELSE n
Greatest(m, n) == IF m < n THEN n ELSE m

AcceptPlan(r) ==
    /\ pc[r] = "planning"
    /\ torn = <<>>
    /\ ~PlanRefused(held[r], account[r].equity)
    /\ ~Repeats(r)
    /\ PassesCheck(r)
    /\ todo' = [todo EXCEPT ![r] = PlanOf(r)]
    /\ LET after == QtyAfter(PlanOf(r), held[r])
       IN  planned' = IF dry[r] THEN planned
                      ELSE [lo |-> [t \in Tickers |-> Least(held[r][t], after[t])],
                            hi |-> [t \in Tickers |-> Greatest(held[r][t], after[t])]]
    /\ Goto(r, "equity")
    /\ UNCHANGED <<market, broker, files, views, crashes>>

-----------------------------------------------------------------------------
(***************************************************************************)
(* The ledger appends and the submission loop.                             *)
(***************************************************************************)
\* The order of the current loop iteration.
IsCurrent(r, o) == o \in todo[r] /\ \A p \in todo[r] \ {o} : SubmittedBefore(o, p)

\* Mutation: the line does not say whether the run is dry.
RunLine_NoDryFlag(r) ==
    [kind |-> pc[r], asOf |-> asOf[r],
     equity |-> IF pc[r] = "equity" THEN account[r].equity ELSE 0]

\* The line a run at an append is about to write.
RunLine(r) ==
    [kind |-> pc[r], asOf |-> asOf[r], dry |-> dry[r],
     equity |-> IF pc[r] = "equity" THEN account[r].equity ELSE 0]

OrderLine(r, o) == [kind |-> pc[r], id |-> ClientOrderId(o)]

NextLines(r) ==
    IF pc[r] \in RunKinds
    THEN {RunLine(r)}
    ELSE {OrderLine(r, o) : o \in {p \in todo[r] : IsCurrent(r, p)}}

\* Ledger.append: refused on a torn last line, else the line is on disk.
AppendLine(rec) ==
    /\ torn = <<>>
    /\ ledger' = Append(ledger, rec)

AppendForecasts(r) ==
    /\ pc[r] = "forecasts"
    /\ AppendLine(RunLine(r))
    /\ Goto(r, "planning")
    /\ UNCHANGED <<market, broker, torn, kill, views, todo, planned, crashes>>

\* Mutation: the breach is recorded and the cycle goes on.
AppendBreach_GoesOn(r) ==
    /\ pc[r] = "breach"
    /\ AppendLine(RunLine(r))
    /\ todo' = [todo EXCEPT ![r] = PlanOf(r)]
    /\ Goto(r, "plan")
    /\ UNCHANGED <<market, broker, torn, kill, views, planned, crashes>>

AppendBreach(r) ==
    /\ pc[r] = "breach"
    /\ AppendLine(RunLine(r))
    /\ Exit(r)
    /\ UNCHANGED <<market, broker, torn, kill, planned, crashes>>

AppendEquity(r) ==
    /\ pc[r] = "equity"
    /\ AppendLine(RunLine(r))
    /\ Goto(r, "plan")
    /\ UNCHANGED <<market, broker, torn, kill, views, todo, planned, crashes>>

\* A dry run, and a run with nothing to do, ends with the plan.
AppendPlan(r) ==
    /\ pc[r] = "plan"
    /\ AppendLine(RunLine(r))
    /\ IF dry[r] \/ todo[r] = {}
       THEN Exit(r)
       ELSE Goto(r, "order_intent") /\ UNCHANGED <<views, todo>>
    /\ UNCHANGED <<market, broker, torn, kill, planned, crashes>>

\* Mutation: no write-ahead.
AppendIntent_Unwritten(r, o) ==
    /\ pc[r] = "order_intent"
    /\ IsCurrent(r, o)
    /\ Goto(r, "submit")
    /\ UNCHANGED <<market, broker, files, views, todo, planned, crashes>>

AppendIntent(r, o) ==
    /\ pc[r] = "order_intent"
    /\ IsCurrent(r, o)
    /\ AppendLine(OrderLine(r, o))
    /\ Goto(r, "submit")
    /\ UNCHANGED <<market, broker, torn, kill, views, todo, planned, crashes>>

\* The order reaches the broker, which keeps client order ids unique, and waits
\* for the next session.  The reply comes back, or is lost and raises.
SubmitReceived(r, o) ==
    /\ pc[r] = "submit"
    /\ IsCurrent(r, o)
    /\ ClientOrderId(o) \notin known
    /\ known' = known \cup {ClientOrderId(o)}
    /\ pending' = pending \cup {o}
    /\ \E label \in {"order_accepted", "order_failed"} : Goto(r, label)
    /\ UNCHANGED <<market, cash, positions, lastEquity, files, views, todo, planned, crashes>>

\* The order is created and comes back REJECTED, CANCELED or EXPIRED.
SubmitDead(r, o) ==
    /\ pc[r] = "submit"
    /\ IsCurrent(r, o)
    /\ ClientOrderId(o) \notin known
    /\ known' = known \cup {ClientOrderId(o)}
    /\ Goto(r, "order_failed")
    /\ UNCHANGED <<market, cash, positions, lastEquity, pending, files, views, todo, planned,
                   crashes>>

\* Mutation: a request that failed is sent again.
SubmitRefused_Retried(r) ==
    /\ pc[r] = "submit"
    /\ Goto(r, "order_intent")
    /\ UNCHANGED <<market, broker, files, views, todo, planned, crashes>>

\* A duplicate id, a refusal, or a request that never arrived.
SubmitRefused(r) ==
    /\ pc[r] = "submit"
    /\ Goto(r, "order_failed")
    /\ UNCHANGED <<market, broker, files, views, todo, planned, crashes>>

AppendAccepted(r, o) ==
    /\ pc[r] = "order_accepted"
    /\ IsCurrent(r, o)
    /\ AppendLine(OrderLine(r, o))
    /\ IF todo[r] = {o}
       THEN Exit(r)
       ELSE /\ Goto(r, "order_intent")
            /\ todo' = [todo EXCEPT ![r] = @ \ {o}]
            /\ UNCHANGED views
    /\ UNCHANGED <<market, broker, torn, kill, planned, crashes>>

\* Mutation: the exception passes without a record.
AppendFailed_Unwritten(r, o) ==
    /\ pc[r] = "order_failed"
    /\ IsCurrent(r, o)
    /\ Exit(r)
    /\ UNCHANGED <<market, broker, files, planned, crashes>>

\* The exception goes on after its record: the orders left are not sent.
AppendFailed(r, o) ==
    /\ pc[r] = "order_failed"
    /\ IsCurrent(r, o)
    /\ AppendLine(OrderLine(r, o))
    /\ Exit(r)
    /\ UNCHANGED <<market, broker, torn, kill, planned, crashes>>

\* Mutation: waits for the repair.
LedgerRefuses_Waits(r) ==
    /\ torn # <<>>
    /\ UNCHANGED vars

\* Reading or appending to a ledger with a torn last line raises.
LedgerRefuses(r) ==
    /\ pc[r] \in AppendPcs \cup {"planning"}
    /\ torn # <<>>
    /\ Exit(r)
    /\ UNCHANGED <<market, broker, files, planned, crashes>>

RunStep(r) ==
    \/ CheckDate(r) \/ GetOpenOrders(r) \/ GetAccount(r) \/ GetPositions(r) \/ GetBars(r)
    \/ ReadRaises(r)
    \/ RefusePlan(r) \/ BreachLimit(r) \/ AcceptPlan(r)
    \/ AppendForecasts(r) \/ AppendBreach(r) \/ AppendEquity(r) \/ AppendPlan(r)
    \/ \E o \in todo[r] :
        \/ AppendIntent(r, o) \/ SubmitReceived(r, o) \/ SubmitDead(r, o)
        \/ AppendAccepted(r, o) \/ AppendFailed(r, o)
    \/ SubmitRefused(r)
    \/ LedgerRefuses(r)

-----------------------------------------------------------------------------
(***************************************************************************)
(* What happens around the runs.                                           *)
(***************************************************************************)
\* The process is killed between two calls, or while it writes a line.
Crash(r) ==
    /\ Active(r)
    /\ crashes < MaxCrashes
    /\ crashes' = crashes + 1
    /\ Exit(r)
    /\ UNCHANGED <<market, broker, files, planned>>

CrashTearingLine(r) ==
    /\ pc[r] \in AppendPcs
    /\ torn = <<>>
    /\ crashes < MaxCrashes
    /\ crashes' = crashes + 1
    /\ torn' \in {<<line>> : line \in NextLines(r)}
    /\ Exit(r)
    /\ UNCHANGED <<market, broker, ledger, kill, planned>>

\* The operator removes the torn line or completes it.
RepairLedger ==
    /\ torn # <<>>
    /\ \/ ledger' = ledger
       \/ ledger' = Append(ledger, torn[1])
    /\ torn' = <<>>
    /\ UNCHANGED <<market, broker, kill, pc, views, todo, planned, crashes>>

ToggleKill ==
    /\ KillSwitchUsed
    /\ kill' = ~kill
    /\ UNCHANGED <<market, broker, ledger, torn, pc, views, todo, planned, crashes>>

\* The open: prices have moved over night.
MarketOpen ==
    /\ hours = "pre"
    /\ hours' = "open"
    /\ marks' \in OpeningPrices
    /\ UNCHANGED <<day, bars, broker, files, pc, views, todo, planned, crashes>>

\* Some or all of an order trades at the current price.
Fill(o, qty) ==
    /\ hours = "open"
    /\ LET bought == IF o.side = "buy" THEN qty ELSE -qty
       IN  /\ positions' = [positions EXCEPT ![o.ticker] = @ + bought]
           /\ cash' = cash - bought * marks[o.ticker]
    /\ pending' = (pending \ {o}) \cup
                      (IF qty = o.qty THEN {} ELSE {[o EXCEPT !.qty = @ - qty]})
    /\ UNCHANGED <<market, lastEquity, known, files, pc, views, todo, planned, crashes>>

\* The close: the day's bars form and DAY orders expire.
MarketClose ==
    /\ hours = "open"
    /\ hours' = "close"
    /\ bars' = [t \in Tickers |-> [price |-> marks[t], asOf |-> day]]
    /\ pending' = {}
    /\ UNCHANGED <<day, marks, cash, positions, lastEquity, known, files, pc, views, todo,
                   planned, crashes>>

BarsFinal ==
    /\ hours = "close"
    /\ hours' = "final"
    /\ UNCHANGED <<day, marks, bars, broker, files, pc, views, todo, planned, crashes>>

\* Midnight in New York; a day without a session goes from "pre" to "pre".
NextDay ==
    /\ hours \in {"pre", "final"}
    /\ day < MaxDay
    /\ day' = day + 1
    /\ hours' = "pre"
    /\ lastEquity' \in {e \in Readings : e = Equity}
    /\ UNCHANGED <<marks, bars, cash, positions, pending, known, files, pc, views, todo,
                   planned, crashes>>

Surroundings ==
    \/ RepairLedger \/ ToggleKill
    \/ MarketOpen \/ MarketClose \/ BarsFinal \/ NextDay
    \/ \E o \in pending : \E qty \in 1..o.qty : Fill(o, qty)

Next ==
    \/ \E r \in Runs : Start(r) \/ RunStep(r) \/ Crash(r) \/ CrashTearingLine(r)
    \/ Surroundings

Spec == Init /\ [][Next]_vars

\* Every call to the broker returns or raises, so a run always gets on.
Fairness == \A r \in Runs : WF_vars(RunStep(r))

FairSpec == Spec /\ Fairness

-----------------------------------------------------------------------------
(***************************************************************************)
(* Properties.                                                             *)
(***************************************************************************)
PlannedOrders == [day : Days, ticker : Tickers, side : Sides, qty : Nat \ {0}]

TypeOK ==
    /\ day \in Days
    /\ hours \in {"pre", "open", "close", "final"}
    /\ marks \in [Tickers -> Nat \ {0}]
    /\ bars \in [Tickers -> [price : Nat \ {0}, asOf : Nat]]
    /\ cash \in Int
    /\ positions \in [Tickers -> Int]
    /\ lastEquity \in Int
    /\ pending \subseteq PlannedOrders
    /\ known \subseteq OrderIds
    /\ ledger \in Seq(Records)
    /\ torn \in Seq(Records) /\ Len(torn) <= 1
    /\ kill \in BOOLEAN
    /\ pc \in [Runs -> Pcs]
    /\ dry \in [Runs -> BOOLEAN]
    /\ asOf \in [Runs -> Days]
    /\ forecasts \in [Runs -> ForecastFiles \cup {<<>>}]
    /\ account \in [Runs -> [equity : Int, cash : Int, lastEquity : Int]]
    /\ held \in [Runs -> [Tickers -> Int]]
    /\ quotes \in [Runs -> [Tickers -> [price : Nat \ {0}, asOf : Nat]]]
    /\ todo \in [Runs -> SUBSET PlannedOrders]
    /\ crashes \in Nat

\* ledger.py: "an order that may have reached the broker is never forgotten".
\* Whatever crashed, tore or ran at the same time, an order the broker has seen
\* is in the ledger.
WriteAhead == known \subseteq AttemptedIds

\* cycle.py: an order of unknown state is never sent again.  The ledger never
\* holds two intents of one id, across crashes, rejections, expired and partly
\* filled orders, and reruns.
AttemptedOnce ==
    \A i, j \in LinesOf("order_intent") : ledger[i].id = ledger[j].id => i = j

PendingQty(t, side) ==
    MapThenSumSet(LAMBDA o : o.qty, {o \in pending : o.ticker = t /\ o.side = side})

\* Whatever fills, expires or crashes, no holding leaves the range between what
\* the last accepted plan found and what it aimed at, even if all that is open
\* fills: two runs never add up their orders.
PositionsWithinPlan ==
    \A t \in Tickers :
        /\ planned.lo[t] <= positions[t] - PendingQty(t, "sell")
        /\ positions[t] + PendingQty(t, "buy") <= planned.hi[t]

\* No more than max_orders_per_day orders of one date reach the broker, however
\* many runs that date has and however many of them failed.
DailyOrderLimit ==
    \A d \in Days : Cardinality({id \in known : id[1] = d}) <= MaxOrdersPerDay

\* No cycle trades below the drawdown limit: each equity line of a real cycle is
\* within max_drawdown of every earlier one, however many days apart.
DrawdownHeld ==
    \A i, j \in RealEquityLines :
        i < j => (ledger[i].equity - ledger[j].equity) * Scale <= MaxDrawdown * ledger[i].equity

\* cycle.py: "any risk breach raises before a single order is sent".  A cycle (the
\* lines from one forecasts line to the next) that holds a breach, for the kill
\* switch or any other limit, holds no equity figure, no plan and no intent.
BreachStopsCycle ==
    \A i \in LinesOf("breach") :
        \A j \in LinesOf("equity") \cup LinesOf("plan") \cup LinesOf("order_intent") :
            \E k \in LinesOf("forecasts") : (i < k /\ k < j) \/ (j < k /\ k < i)

\* cycle.py: "a glitched reading can never become the high-water mark".  A reading
\* too far from the account's marked value is in no equity line of a real cycle.
GlitchNeverRecorded ==
    \A i \in RealEquityLines : ledger[i].equity \notin GlitchEquities

Unresolved ==
    {id \in AttemptedIds :
        \A i \in LinesOf("order_accepted") \cup LinesOf("order_failed") : ledger[i].id # id}

\* The audit trail is complete: an intent without an outcome is one a run is
\* busy with, or the last of a run that was killed.
OutcomesRecorded ==
    Cardinality(Unresolved)
        <= crashes + Cardinality({r \in Runs :
                                    pc[r] \in {"submit", "order_accepted", "order_failed"}})

\* The cycle as a whole implements the life of an order id that OrderLifecycle
\* specifies: the request in flight is that of the run about to submit.
InFlight ==
    UNION {{ClientOrderId(o) : o \in {p \in todo[r] : IsCurrent(r, p)}} :
              r \in {s \in Runs : pc[s] = "submit"}}

Lifecycle == INSTANCE OrderLifecycle
    WITH Ids <- OrderIds, attempted <- AttemptedIds, inFlight <- InFlight, reached <- known

ImplementsLifecycle == Lifecycle!Spec

\* The steps a run has before it at most: three for each order, to write its intent,
\* to submit it and to write what came of it.
CallsLeft(r) ==
    LET orders == Cardinality(todo[r])
    IN  CASE pc[r] = "done" -> 0
          [] pc[r] = "breach" -> 1
          [] pc[r] \in {"order_accepted", "order_failed"} -> 3 * orders - 2
          [] pc[r] = "submit" -> 3 * orders - 1
          [] pc[r] = "order_intent" -> 3 * orders
          [] pc[r] = "plan" -> 3 * orders + 1
          [] pc[r] = "equity" -> 3 * orders + 2
          [] pc[r] = "planning" -> 3 * MaxOrdersPerDay + 3
          [] pc[r] = "forecasts" -> 3 * MaxOrdersPerDay + 4
          [] pc[r] = "bars" -> 3 * MaxOrdersPerDay + 5
          [] pc[r] = "positions" -> 3 * MaxOrdersPerDay + 6
          [] pc[r] = "account" -> 3 * MaxOrdersPerDay + 7
          [] pc[r] = "openOrders" -> 3 * MaxOrdersPerDay + 8
          [] pc[r] = "date" -> 3 * MaxOrdersPerDay + 9
          [] pc[r] = "idle" -> 3 * MaxOrdersPerDay + 10

\* cycle.py: the rest of a day is "never retried blindly".  Each step of a run, one that
\* is refused or lost too, brings it nearer its exit, and nothing around it moves it
\* back: a run takes at most nine steps and three for each order a day may have.
CallsRunOut ==
    [][\A r \in Runs :
          \/ CallsLeft(r)' < CallsLeft(r)
          \/ CallsLeft(r)' = CallsLeft(r) /\ ~Start(r) /\ ~RunStep(r)]_vars

\* A run that started exits, also on a torn ledger.
RunsEnd == \A r \in Runs : (pc[r] = "date") ~> (pc[r] = "done")

\* docs/trading.md: after a crash mid-cycle "the next run stops".  While an intent
\* has no outcome, no later run gets as far as an intent of its own.
NextRunStops ==
    \A i, j \in LinesOf("order_intent"), k \in LinesOf("plan") :
        (i < k /\ k < j) =>
            \E n \in i..k : /\ ledger[n].kind \in {"order_accepted", "order_failed"}
                          /\ ledger[n].id = ledger[i].id
=============================================================================
