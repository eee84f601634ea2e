----------------------------- MODULE ScoreStore -----------------------------
(***************************************************************************)
(* What the score caches promise, whoever fills them, on this machine or   *)
(* on a rented one: a score is one that may be given to its article, it    *)
(* never changes and never goes away, and whoever reports success over     *)
(* some articles has left a score for each of them.                        *)
(***************************************************************************)
CONSTANTS
    Keys,           \* an article under a ticker
    Given           \* the scores each key may have

VARIABLES
    store,          \* the score of each key that has one
    promised        \* keys that are reported as scored

Admissible(scores) ==
    DOMAIN scores \subseteq Keys /\ \A k \in DOMAIN scores : scores[k] \in Given[k]

Init ==
    /\ Admissible(store)
    /\ promised = {}

Write ==
    /\ Admissible(store')
    /\ \A k \in DOMAIN store : k \in DOMAIN store' /\ store'[k] = store[k]
    /\ UNCHANGED promised

Promise ==
    /\ promised \subseteq promised'
    /\ promised' \subseteq DOMAIN store
    /\ UNCHANGED store

Next == Write \/ Promise

Spec == Init /\ [][Next]_<<store, promised>>
=============================================================================
