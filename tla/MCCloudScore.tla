---------------------------- MODULE MCCloudScore ----------------------------
(***************************************************************************)
(* Small archives for TLC.                                                 *)
(***************************************************************************)
EXTENDS CloudScore

\* One article each; the first ticker's is scored when the run starts.
MCArchive == [t \in Tickers |-> {1}]
MCScored == [t \in Tickers |-> IF t = "A" THEN {1} ELSE {}]
=============================================================================
