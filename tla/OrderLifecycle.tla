--------------------------- MODULE OrderLifecycle ---------------------------
(***************************************************************************)
(* What the trading cycle and its ledger promise about client order ids,   *)
(* whatever crashes, tears, is refused, is lost or is run again: an id is  *)
(* written down as attempted before its one request is in flight, at most  *)
(* one request is in flight at a time, and no id is ever attempted again.  *)
(***************************************************************************)
CONSTANT Ids

VARIABLES
    attempted,      \* ids with a durable order_intent
    inFlight,       \* the id whose request may still be sent
    reached         \* ids the broker has seen

Init ==
    /\ attempted = {}
    /\ inFlight = {}
    /\ reached = {}

\* The process may die before it gets to the request.
Attempt(id) ==
    /\ inFlight = {}
    /\ id \notin attempted
    /\ attempted' = attempted \cup {id}
    /\ inFlight' \in {{id}, {}}
    /\ UNCHANGED reached

Reach(id) ==
    /\ inFlight = {id}
    /\ id \notin reached
    /\ reached' = reached \cup {id}
    /\ inFlight' = {}
    /\ UNCHANGED attempted

\* Refused, lost, or the process died.
GiveUp ==
    /\ inFlight # {}
    /\ inFlight' = {}
    /\ UNCHANGED <<attempted, reached>>

Next ==
    \/ \E id \in Ids : Attempt(id) \/ Reach(id)
    \/ GiveUp

Spec == Init /\ [][Next]_<<attempted, inFlight, reached>>
=============================================================================
