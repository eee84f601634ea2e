-------------------------- MODULE MCPlanExecution --------------------------
(***************************************************************************)
(* A small account for TLC: three names, one of them outside the universe, *)
(* prices that make one share worth more or less than the rebalance band,  *)
(* and forecasts on both sides of each selection rule.                     *)
(***************************************************************************)
EXTENDS PlanExecution

MCForecastKinds ==
    {[p10 |-> -5,  p50 |-> 3, p90 |-> 9],      \* selected
     [p10 |-> -5,  p50 |-> 2, p90 |-> 9],      \* median not above the edge
     [p10 |-> -20, p50 |-> 3, p90 |-> 9],      \* tail too deep
     [p10 |-> -5,  p50 |-> 9, p90 |-> 3]}      \* quantiles crossed

MCMinP10 == -8

\* Names 1 and 2 are traded; a share of name 3, outside the universe, may be held.
MCMaxHeld == [t \in 1..3 |-> IF t = 3 THEN 1 ELSE 4]
=============================================================================
