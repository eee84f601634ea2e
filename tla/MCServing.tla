----------------------------- MODULE MCServing -----------------------------
(***************************************************************************)
(* A small server for TLC: short windows, and two requests whose sources   *)
(* fail in different ways.                                                 *)
(***************************************************************************)
EXTENDS Serving

CONSTANTS r1, r2

MCAsked == {<<"5d", "1h">>, <<"1d">>, <<"1w">>}

\* Request r1 meets failing and short price and trends answers, r2 failing
\* returns and filings; no Reddit credentials are set.
MCAnswers ==
    [r \in Requests |-> [s \in SourceNames |->
        CASE s = "social" -> {"fails"}
          [] r = r1 /\ s = "prices"  -> {"fails", "short", "full"}
          [] r = r1 /\ s = "trends"  -> {"fails", "full"}
          [] r = r2 /\ s = "returns" -> {"fails", "full"}
          [] r = r2 /\ s = "filings" -> {"fails", "full"}
          [] r = r2 /\ s = "news"    -> {"short", "full"}
          [] OTHER -> {"full"}]]

Filing(form, at) == [form |-> form, at |-> at, dated |-> TRUE, traded |-> TRUE]

MCFilings == {Filing("8-K", 2), Filing("8-K", 5), Filing("4", 5), [Filing("4", 6) EXCEPT !.dated = FALSE]}
=============================================================================
