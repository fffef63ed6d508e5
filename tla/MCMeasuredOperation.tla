-------------------------- MODULE MCMeasuredOperation --------------------------
(* One measured operation after another, for TLC.                          *)
EXTENDS MeasuredOperation

CONSTANTS
    MaxWork,    \* bound on what one meter has counted
    MaxUsed     \* bound on the pairs of slot and operation with a count left

(* Two pairs are enough for one operation's count to be taken for another's*)
(* and MaxWork leaves room for a setup, a loop and a later metric on top   *)
(* of each other.                                                          *)
Bounded ==
    /\ \A s \in DOMAIN tracking_state : tracking_state[s].total_bytes <= MaxWork
    /\ Cardinality({s \in DOMAIN tracking_state : tracking_state[s] # ZeroTracking}) <= MaxUsed
    /\ profile <= MaxWork
===============================================================================
