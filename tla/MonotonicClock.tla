---------------------------- MODULE MonotonicClock ----------------------------
(***************************************************************************)
(* What include/timing_port.h promises of tp_now_cycles(): successive      *)
(* readings never go back.  A reading is a pair of 32-bit halves.          *)
(***************************************************************************)
EXTENDS Integers

CONSTANT Width      \* values of a half, 2^32 in the code

VARIABLE reading    \* the last one returned

NotBefore(b, a) == a[1] < b[1] \/ (a[1] = b[1] /\ a[2] <= b[2])

Readings == Nat \X (0 .. Width - 1)

Init == reading = <<0, 0>>

Next == reading' \in Readings /\ NotBefore(reading', reading)

Spec == Init /\ [][Next]_reading
===============================================================================
