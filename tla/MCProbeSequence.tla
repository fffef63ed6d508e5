---------------------------- MODULE MCProbeSequence ----------------------------
(* The probes of one row after another, for TLC: an operation takes its    *)
(* average or a tick more, as one with rejection sampling does.            *)
EXTENDS ProbeSequence

AverageOrMore(average) == {average, average + 1}
===============================================================================
