----------------------------- MODULE MCTimingPort -----------------------------
(* A thread and an interrupt handler, for TLC. *)
EXTENDS TimingPort

CONSTANTS thread, release_isr

ThreadAndHandler == {thread, release_isr}
===============================================================================
