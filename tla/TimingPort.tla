------------------------------ MODULE TimingPort ------------------------------
(***************************************************************************)
(* tp_now_cycles() of harness/timing_port.c on a target whose cycle counter*)
(* has 32 bits: the upper half is counted in software, one for every       *)
(* reading that is less than the one before.  The callers are the thread of*)
(* main() and the timer handlers that interrupt it; a spin lock, which     *)
(* masks interrupts, keeps a call whole.  The counter runs on all the time.*)
(***************************************************************************)
EXTENDS Integers

CONSTANTS
    Callers,    \* main() and the interrupt handlers
    Width,      \* values of the counter, 2^32
    Horizon     \* rollovers until the end of a run

ASSUME TimingAssumption ==
    /\ Width \in Nat /\ Width > 1
    /\ Horizon \in Nat
    /\ "nobody" \notin Callers

VARIABLES
    pc,             \* where each caller is in tp_now_cycles
    lo,             \* its local
    lock,           \* holder of s_lock
    s_prev_lo, s_hi,
    hw_hi, hw_lo,   \* the cycles since boot; k_cycle_get_32 returns the lower half
    at,             \* history: the cycles at the last read of the counter
    gap,            \* history: the cycles since then
    polled,         \* history: it has been read in every Width cycles
    last            \* history: the reading returned last

vars == <<pc, lo, lock, s_prev_lo, s_hi, hw_hi, hw_lo, at, gap, polled, last>>

Init ==
    /\ pc = [c \in Callers |-> "out"]
    /\ lo = [c \in Callers |-> 0]
    /\ lock = "nobody"
    /\ s_prev_lo = 0 /\ s_hi = 0
    /\ hw_hi = 0 /\ hw_lo = 0
    /\ at = <<0, 0>> /\ gap = 0 /\ polled = TRUE
    /\ last = <<0, 0>>

(* k_spin_lock *)
MayLock_Always == TRUE
MayLock == lock = "nobody"

Lock(c) ==
    /\ pc[c] = "out" /\ MayLock
    /\ lock' = c
    /\ pc' = [pc EXCEPT ![c] = "locked"]
    /\ UNCHANGED <<lo, s_prev_lo, s_hi, hw_hi, hw_lo, at, gap, polled, last>>

(* lo = k_cycle_get_32() *)
Read(c) ==
    /\ pc[c] = "locked"
    /\ lo' = [lo EXCEPT ![c] = hw_lo]
    /\ at' = <<hw_hi, hw_lo>>
    /\ gap' = 0
    /\ pc' = [pc EXCEPT ![c] = "read"]
    /\ UNCHANGED <<lock, s_prev_lo, s_hi, hw_hi, hw_lo, polled, last>>

(* The rollover test, and what is kept for the next one. *)
Rolled_OrSame(new) == new <= s_prev_lo
Rolled_Never(new) == FALSE
Rolled(new) == new < s_prev_lo

Stitch(c) ==
    /\ pc[c] = "read"
    /\ s_hi' = IF Rolled(lo[c]) THEN s_hi + 1 ELSE s_hi
    /\ s_prev_lo' = lo[c]
    /\ pc' = [pc EXCEPT ![c] = "stitched"]
    /\ UNCHANGED <<lo, lock, hw_hi, hw_lo, at, gap, polled, last>>

(* now = (s_hi << 32) | lo, k_spin_unlock, and the return. *)
Unlock(c) ==
    /\ pc[c] = "stitched"
    /\ last' = <<s_hi, lo[c]>>
    /\ lock' = "nobody"
    /\ pc' = [pc EXCEPT ![c] = "out"]
    /\ UNCHANGED <<lo, s_prev_lo, s_hi, hw_hi, hw_lo, at, gap, polled>>

Now(c) == Lock(c) \/ Read(c) \/ Stitch(c) \/ Unlock(c)

(* A cycle of the counter. *)
Count ==
    /\ hw_hi < Horizon
    /\ gap' = gap + 1
    /\ polled' = (polled /\ gap + 1 < Width)
    /\ IF hw_lo + 1 < Width
       THEN hw_lo' = hw_lo + 1 /\ hw_hi' = hw_hi
       ELSE hw_lo' = 0 /\ hw_hi' = hw_hi + 1
    /\ UNCHANGED <<pc, lo, lock, s_prev_lo, s_hi, at, last>>

Next ==
    \/ \E c \in Callers : Now(c)
    \/ Count

Spec == Init /\ [][Next]_vars

-------------------------------------------------------------------------------
(* Properties *)

Clock == INSTANCE MonotonicClock WITH reading <- last

Times == Nat \X (0 .. Width - 1)

(* Every variable stays in its type, and a caller that is inside holds the *)
(* lock.                                                                   *)
TypeOK ==
    /\ pc \in [Callers -> {"out", "locked", "read", "stitched"}]
    /\ lo \in [Callers -> 0 .. Width - 1]
    /\ lock \in Callers \cup {"nobody"}
    /\ s_prev_lo \in 0 .. Width - 1 /\ s_hi \in Nat
    /\ hw_hi \in Nat /\ hw_lo \in 0 .. Width - 1
    /\ at \in Times /\ gap \in Nat /\ polled \in BOOLEAN
    /\ last \in Times
    /\ \A c \in Callers : pc[c] # "out" => lock = c

(* No rollover is counted that did not happen: a reading is never ahead of *)
(* the counter, however the callers interrupt each other and however       *)
(* seldom they call (timing_port.c 79-89).                                 *)
NeverAhead == Clock!NotBefore(<<hw_hi, hw_lo>>, last)

(* No rollover is missed either, as long as the counter is read at least   *)
(* once in every 2^32 cycles: a reading is the number of cycles since boot *)
(* at the moment the counter was read (timing_port.c 81-86).               *)
ReadingIsExact ==
    polled => \A c \in Callers : pc[c] = "stitched" => <<s_hi, lo[c]>> = at

(* Readings never go back (timing_port.h 11, time_budget.c 19): the module *)
(* implements the clock that is promised.                                  *)
IsMonotonic == Clock!Spec
===============================================================================
