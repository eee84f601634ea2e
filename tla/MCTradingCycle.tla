--------------------------- MODULE MCTradingCycle ---------------------------
(***************************************************************************)
(* Small accounts and calendars for TLC.                                   *)
(***************************************************************************)
EXTENDS TradingCycle, TLC

Good == [p10 |-> -5, p50 |-> 3, p90 |-> 9]
Flat == [p10 |-> -5, p50 |-> 0, p90 |-> 9]

MCMinP10 == -8

\* Only t clears the edge threshold.
OneGood(t) == [u \in Universe |-> IF u = t THEN Good ELSE Flat]

\* Name 1 is bought and name 2 sold, or the other way round.
RotatingFiles == {OneGood(t) : t \in Universe}

\* The same forecasts every day.
ConstantFile == {OneGood(1)}

MCStartHeld == [t \in Tickers |-> IF t = 2 THEN 2 ELSE 0]

\* Prices stay, or name 1 rises and name 2 halves over night.
MCOpeningPrices == {[t \in Tickers |-> 10], [t \in Tickers |-> IF t = 1 THEN 12 ELSE 5]}

MCNoneHeld == [t \in Tickers |-> 0]

RunSymmetry == Permutations(Runs)
=============================================================================
