--------------------------- MODULE MCNewsArchive ---------------------------
(***************************************************************************)
(* A small archive for TLC.                                                *)
(***************************************************************************)
EXTENDS NewsArchive, TLC

CONSTANTS A, a1, a2

\* a1 is carried by every ticker, a2 by one, and both are of one day.
MCTaggedWith == [a \in Articles |-> IF a = a1 THEN Tickers ELSE {A}]
MCDayOf == [a \in Articles |-> 1]

\* Made from the same texts, or with one score from another, or refused for one ticker.
MCIncoming ==
    {[t \in Tickers |-> IF t = A THEN (a1 :> s) ELSE NoScores] : s \in Scores}
    \cup {[t \in Tickers |-> IF t = A THEN (a1 :> "fits") ELSE (a1 :> "invalid")]}

\* Made from the same texts only.
MCIncomingSame == {[t \in Tickers |-> IF t = A THEN (a1 :> "fits") ELSE NoScores]}

ProcSymmetry == Permutations(Procs)
=============================================================================
