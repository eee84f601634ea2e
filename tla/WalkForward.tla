----------------------------- MODULE WalkForward -----------------------------
(***************************************************************************)
(* eval/splits.py and the fold schedule of eval/pooled.py: which rows      *)
(* train and which rows test each fold, as sets of row positions 0 .. n-1. *)
(* No folds is the empty function, where the code raises.                  *)
(***************************************************************************)
EXTENDS Integers

Fold(start, train, embargo, end) ==
    [train |-> start .. (start + train - 1), test |-> (start + train + embargo) .. end]

\* The starts that leave room for a whole test window.
Starts(n, train, test, step, embargo) ==
    {k \in 0 .. n : k * step + train + embargo + test <= n}

PurgedWalkForward(n, train, test, step, embargo) ==
    [k \in Starts(n, train, test, step, embargo) |->
        Fold(k * step, train, embargo, k * step + train + embargo + test - 1)]

FoldSchedule_Short(n, train, refit, steps) ==
    LET regular == PurgedWalkForward(n, train, refit, refit, steps - 1)
    IN  [k \in {j \in 0 .. n : DOMAIN regular # {} /\ j * refit + train + steps - 1 < n} |->
            IF k \in DOMAIN regular
            THEN regular[k]
            ELSE Fold(k * refit, train, steps - 1, n - 1)]

\* The regular folds, and a last one that tests the rows they leave over: one
\* for each test block of refit rows that begins before n.
FoldSchedule(n, train, refit, steps) ==
    LET regular == PurgedWalkForward(n, train, refit, refit, steps)
    IN  [k \in {j \in 0 .. n : DOMAIN regular # {} /\ j * refit + train + steps < n} |->
            IF k \in DOMAIN regular
            THEN regular[k]
            ELSE Fold(k * refit, train, steps, n - 1)]
=============================================================================
