-------------------------------- MODULE IsrTax --------------------------------
(***************************************************************************)
(* The interrupt-injection probe of metrics/isr_tax.c.  main() times a     *)
(* window of operations, then starts a periodic k_timer whose handler only *)
(* counts, times a second window of as many operations, stops the timer,   *)
(* and reports the rate of interrupts in that window.                      *)
(*                                                                         *)
(* The handler may run between any two statements of main() while it is    *)
(* due, and takes no time that counts; operations let ticks pass.          *)
(***************************************************************************)
EXTENDS Kernel

CONSTANTS
    Period,     \* PQC_ISR_TAX_PERIOD_US, in ticks
    Samples,    \* what select_isr_tax_samples may return
    Durations   \* ticks an operation may take

(* What the constants have to be; assumed where the module is used. *)
IsrTaxAssumption ==
    /\ Period \in Nat \ {0}
    /\ Samples \subseteq Nat \ {0}
    /\ Durations \subseteq Nat

VARIABLES
    pc,        \* where main() is in measure_isr_tax_for_*
    n, i,      \* locals
    injected,  \* which of the two windows runs
    held,      \* the two buffers are allocated
    timer,     \* isr_tax_timer
    count,     \* isr_tax_isr_count
    left,      \* ticks until the operation returns
    window,    \* ticks from window_t0, up to window_t1
    report     \* the isr_* fields, as the two numbers they are computed from

vars == <<pc, n, i, injected, held, timer, count, left, window, report>>

-------------------------------------------------------------------------------
zero_isr_tax_metrics == [isrs |-> 0, window |-> 0]

(* Nothing is reported of an empty window. *)
finalize_isr_tax(isrs, ticks) ==
    IF ticks = 0 THEN zero_isr_tax_metrics ELSE [isrs |-> isrs, window |-> ticks]

Init ==
    /\ pc = "out" /\ n = 0 /\ i = 0
    /\ injected = FALSE /\ held = FALSE
    /\ timer = Off /\ count = 0
    /\ left = 0 /\ window = 0
    /\ report = zero_isr_tax_metrics

(* The number of samples depends on the average of the operation. *)
select_isr_tax_samples == Samples

Start ==
    /\ pc = "out"
    /\ report' = zero_isr_tax_metrics
    /\ n' \in select_isr_tax_samples
    /\ held' = TRUE
    /\ i' = 0 /\ injected' = FALSE
    /\ pc' = "loop"
    /\ UNCHANGED <<timer, count, left, window>>

StartFails ==
    /\ pc = "out"
    /\ report' = zero_isr_tax_metrics
    /\ pc' = "returned"
    /\ UNCHANGED <<n, i, injected, held, timer, count, left, window>>

BeginOp ==
    /\ pc = "loop" /\ i < n
    /\ left' \in Durations
    /\ pc' = "op"
    /\ UNCHANGED <<n, i, injected, held, timer, count, window, report>>

OpSucceeds ==
    /\ pc = "op" /\ left = 0
    /\ i' = i + 1
    /\ pc' = "loop"
    /\ UNCHANGED <<n, injected, held, timer, count, left, window, report>>

(* Both windows free the buffers; the injected one stops the timer first. *)
StopOnFailure_Not == timer
StopOnFailure == IF injected THEN k_timer_stop ELSE timer

OpFails ==
    /\ pc = "op" /\ left = 0
    /\ timer' = StopOnFailure
    /\ held' = FALSE
    /\ pc' = "returned"
    /\ UNCHANGED <<n, i, injected, count, left, window, report>>

(* The count is cleared, the timer started, and window_t0 read. *)
CountAtStart == 0

OpenWindow ==
    /\ pc = "loop" /\ i >= n /\ ~injected
    /\ count' = CountAtStart
    /\ timer' = k_timer_start(Period)
    /\ i' = 0 /\ injected' = TRUE /\ window' = 0
    /\ UNCHANGED <<pc, n, held, left, report>>

(* window_t1 is read, and then the timer stopped. *)
CloseWindow ==
    /\ pc = "loop" /\ i >= n /\ injected
    /\ pc' = "stop"
    /\ UNCHANGED <<n, i, injected, held, timer, count, left, window, report>>

StopTimer ==
    /\ pc = "stop"
    /\ timer' = k_timer_stop
    /\ pc' = "read"
    /\ UNCHANGED <<n, i, injected, held, count, left, window, report>>

Finish ==
    /\ pc = "read"
    /\ report' = finalize_isr_tax(count, window)
    /\ held' = FALSE
    /\ pc' = "returned"
    /\ UNCHANGED <<n, i, injected, timer, count, left, window>>

Main ==
    \/ BeginOp
    \/ OpSucceeds
    \/ OpFails
    \/ OpenWindow
    \/ CloseWindow
    \/ StopTimer
    \/ Finish

(* The caller goes on: the locals are gone, and the row has the report. *)
Leave ==
    /\ pc = "returned"
    /\ pc' = "out"
    /\ n' = 0 /\ i' = 0 /\ injected' = FALSE /\ left' = 0 /\ window' = 0
    /\ report' = zero_isr_tax_metrics
    /\ UNCHANGED <<held, timer, count>>

(* isr_tax_expiry; the period starts again. *)
NextExpiry == k_timer_start(Period)

Expire ==
    /\ Due(timer)
    /\ count' = count + 1
    /\ timer' = NextExpiry
    /\ UNCHANGED <<pc, n, i, injected, held, left, window, report>>

Tick ==
    /\ pc = "op" /\ left > 0 /\ ~Due(timer)
    /\ left' = left - 1
    /\ timer' = Elapse(timer)
    /\ window' = IF injected THEN window + 1 ELSE window
    /\ UNCHANGED <<pc, n, i, injected, held, count, report>>

Next ==
    \/ Start
    \/ StartFails
    \/ Main
    \/ Leave
    \/ Expire
    \/ Tick

Spec == Init /\ [][Next]_vars

FairSpec == Spec /\ WF_vars(Main) /\ WF_vars(Expire) /\ WF_vars(Tick)
-------------------------------------------------------------------------------
(* Properties *)

(* Every variable stays in its type. *)
TypeOK ==
    /\ pc \in {"out", "loop", "op", "stop", "read", "returned"}
    /\ n \in Nat /\ i \in 0 .. n
    /\ injected \in BOOLEAN /\ held \in BOOLEAN
    /\ timer \in {Off} \cup 0 .. Period
    /\ count \in Nat /\ left \in Nat /\ window \in Nat
    /\ report \in [isrs : Nat, window : Nat]

(* The rate that is reported is the timer's, but for one expiry at the end *)
(* of the window: nothing is counted that came before the window, and      *)
(* nothing in it is lost (isr_tax.c 201-227).                              *)
RateIsTheTimers ==
    pc = "returned" /\ report.window > 0 =>
        /\ report.isrs * Period <= report.window
        /\ report.window <= (report.isrs + 1) * Period

(* Whichever way a probe ends, its timer is stopped and its buffers freed  *)
(* (isr_tax.c 213-217, 222, 238-239).                                      *)
NothingRunsOn == pc \in {"returned", "out"} => timer = Off /\ ~held
===============================================================================
