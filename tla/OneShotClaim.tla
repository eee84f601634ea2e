---------------------------- MODULE OneShotClaim ----------------------------
(***************************************************************************)
(* What the marker of a holdout promises of each --out-dir, whatever is    *)
(* committed, checked out, torn or run at the same time: evaluating takes  *)
(* the claim, a directory that is claimed is never claimed again, and each *)
(* claim is good for one evaluation.  The only way back is a marker that   *)
(* is deleted, while nobody evaluates, before a commit could remember it.  *)
(***************************************************************************)
EXTENDS Naturals

CONSTANT Dirs

VARIABLES
    closed,         \* directories whose holdout is spent
    inFlight,       \* those whose one evaluation may still come
    seen,           \* evaluations of each
    forgotten       \* claims of each that left no trace

Init ==
    /\ closed = {}
    /\ inFlight = {}
    /\ seen = [d \in Dirs |-> 0]
    /\ forgotten = [d \in Dirs |-> 0]

\* The process may die before it gets to the evaluation.
Claim(d) ==
    /\ d \notin closed
    /\ closed' = closed \cup {d}
    /\ inFlight' \in {inFlight, inFlight \cup {d}}
    /\ UNCHANGED <<seen, forgotten>>

Evaluate(d) ==
    /\ d \in inFlight
    /\ inFlight' = inFlight \ {d}
    /\ seen' = [seen EXCEPT ![d] = @ + 1]
    /\ UNCHANGED <<closed, forgotten>>

Abandon(d) ==
    /\ d \in inFlight
    /\ inFlight' = inFlight \ {d}
    /\ UNCHANGED <<closed, seen, forgotten>>

Forget(d) ==
    /\ d \in closed \ inFlight
    /\ closed' = closed \ {d}
    /\ forgotten' = [forgotten EXCEPT ![d] = @ + 1]
    /\ UNCHANGED <<inFlight, seen>>

Next == \E d \in Dirs : Claim(d) \/ Evaluate(d) \/ Abandon(d) \/ Forget(d)

Spec == Init /\ [][Next]_<<closed, inFlight, seen, forgotten>>
=============================================================================
