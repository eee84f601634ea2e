---------------------------- MODULE MCEvaluation ----------------------------
(***************************************************************************)
(* Small universes and histories for TLC.                                  *)
(***************************************************************************)
EXTENDS Evaluation

CONSTANTS A, B, C, D

MCUniverse == <<A, B, C, D>>
MCBand == <<70, 90>>
MCTickerBand == <<60, 95>>
MCScores == {-9, -5, 1}
MCMateriality == -5

All == 0 .. Today
Whole == [bars |-> All, holes |-> {}]
Late == [bars |-> 12 .. Today, holes |-> {}]
Later == [bars |-> 8 .. Today, holes |-> {}]
Ended == [bars |-> 0 .. (Today - 4), holes |-> {}]
EndedEarly == [bars |-> 0 .. (DevEnd + 1), holes |-> {}]
Gap == [bars |-> All \ {6}, holes |-> {}]
Hole == [bars |-> All, holes |-> {6}]

\* An article after each close.
Evenings == {3 * d + 2 : d \in All}
Weekly == {w \in All : w % 2 = 0}

World(hist, vix, news, trends) ==
    [hist |-> [t \in Tickers |-> IF t = C THEN hist ELSE Whole],
     vix |-> vix, news |-> [t \in Tickers |-> IF t = C THEN news ELSE Evenings],
     trends |-> trends]

\* Several tickers with too few rows to judge.
Sparse(hist, ts) ==
    [World(Whole, All, Evenings, NoSource) EXCEPT !.hist = [t \in Tickers |-> IF t \in ts THEN hist ELSE Whole]]

\* One source is unusual at a time.
MCWorlds ==
    {World(h, All, Evenings, NoSource) : h \in {Whole, Late, Later, Ended, EndedEarly, Gap, Hole}}
    \cup {World(Whole, v, Evenings, NoSource) : v \in {All \ {8, 9}, 4 .. Today, 0 .. (Today - 4), {}}}
    \cup {World(Whole, All, n, NoSource) : n \in {{}, {20}}}
    \cup {World(h, All, Evenings, w) : h \in {Whole, Ended}, w \in {Weekly, 0 .. 4}}
    \cup {Sparse(Ended, {C, D}), Sparse(Late, Tickers)}

\* Prices and articles only: nothing else could look ahead.
MCPricesAndNews == {World(Whole, {}, Evenings, NoSource)}
=============================================================================
