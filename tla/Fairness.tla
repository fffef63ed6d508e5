------------------------------- MODULE Fairness -------------------------------
(***************************************************************************)
(* The cooperative-fairness probe of metrics/fairness.c.  A periodic       *)
(* k_timer gives a semaphore; a "victim" thread, of a priority above that  *)
(* of main(), takes it and counts.  main() lets the timer run once while   *)
(* it sleeps and once while it repeats a cryptographic operation, and      *)
(* reports the second count as a share of the first.                       *)
(*                                                                         *)
(* There is one processor: the timer's handler comes before the victim,    *)
(* and the victim before main().  Handler and victim take no time that     *)
(* counts; a sleeping main() and a running operation let ticks pass.       *)
(***************************************************************************)
EXTENDS Kernel

CONSTANTS
    Period,        \* PQC_COOP_VICTIM_PERIOD_US, in ticks
    Window,        \* PQC_COOP_WINDOW_MS, in ticks
    MostRepeats,   \* the 64 of cfcr_select_op_repeats
    Averages,      \* avg_cycles of the operation as measured before, in ticks
    Durations(_)   \* what an operation of a given average may take, in ticks

(* What the constants have to be; assumed where the module is used. *)
FairnessAssumption ==
    /\ Period \in Nat \ {0}
    /\ Window \in Nat /\ Window > Period
    /\ MostRepeats \in Nat /\ MostRepeats >= 2
    /\ Averages \subseteq Nat
    /\ \A avg \in Averages : Durations(avg) \subseteq Nat

VARIABLES
    pc,            \* where main() is in measure_fairness_for_*
    victim,        \* cfcr_victim_fn: in k_sem_take, or about to count
    timer,         \* cfcr_victim_timer
    sem,           \* cfcr_victim_sem
    wakes,         \* cfcr_victim_wakes
    left,          \* ticks until k_sleep or the operation returns
    avg,           \* result->avg_cycles
    repeats, i,    \* of the operation loop
    idle_ticks,    \* local
    report,        \* the coop_* fields
    fires,         \* history: expiries of the present window
    span           \* history: ticks of the present window

vars == <<pc, victim, timer, sem, wakes, left, avg, repeats, i, idle_ticks, report, fires, span>>

kernel == <<victim, timer, sem, wakes>>

-------------------------------------------------------------------------------
(* Per op, in doubles in the code: Window / avg, cut to 2 .. MostRepeats;  *)
(* 4 when there is no average.                                             *)
cfcr_select_op_repeats(base) ==
    IF base = 0 THEN 4
    ELSE LET fit == Window \div base
         IN  IF fit < 2 THEN 2 ELSE IF fit > MostRepeats THEN MostRepeats ELSE fit

(* The fairness index is share / of, the starvation what is missing to 1.  *)
zero_fairness_metrics == [idle |-> 0, op |-> 0, share |-> 1, of |-> 1]

Cut(op, idle) == IF op > idle THEN idle ELSE op

finalize_fairness(idle, op) ==
    IF idle = 0
    THEN [idle |-> idle, op |-> op, share |-> 1, of |-> 1]
    ELSE [idle |-> idle, op |-> op, share |-> Cut(op, idle), of |-> idle]

-------------------------------------------------------------------------------
Init ==
    /\ pc = "out"
    /\ victim = "blocked"
    /\ timer = Off /\ sem = 0 /\ wakes = 0
    /\ left = 0 /\ avg = 0 /\ repeats = 0 /\ i = 0
    /\ idle_ticks = 0
    /\ report = zero_fairness_metrics
    /\ fires = 0 /\ span = 0

(* main() is on the processor only when the victim has nothing to do: its  *)
(* priority, PQC_COOP_VICTIM_PRIORITY, is -1 and that of main() is 0.      *)
MainRuns_AboveVictim == TRUE
MainRuns == victim = "blocked" /\ sem = 0

(* Every window begins alike: k_sem_reset, wakes := 0, k_timer_start.      *)
WakesAtStart_Kept == wakes
WakesAtStart == 0

OpenWindow ==
    /\ sem' = k_sem_reset
    /\ wakes' = WakesAtStart
    /\ timer' = k_timer_start(Period)
    /\ fires' = 0 /\ span' = 0

StopTimer == k_timer_stop

(* The idle window, up to k_sleep. *)
Start ==
    /\ pc = "out" /\ MainRuns
    /\ avg' \in Averages
    /\ report' = zero_fairness_metrics
    /\ OpenWindow
    /\ left' = Window
    /\ pc' = "sleep"
    /\ UNCHANGED <<victim, repeats, i, idle_ticks>>

(* k_sleep returns; k_timer_stop. *)
StopIdle ==
    /\ pc = "sleep" /\ left = 0 /\ MainRuns
    /\ timer' = StopTimer
    /\ pc' = "idle_read"
    /\ UNCHANGED <<victim, sem, wakes, left, avg, repeats, i, idle_ticks, report, fires, span>>

(* After k_yield the count is read, the repeats selected and the operation *)
(* window opened.                                                          *)
ReadIdle ==
    /\ pc = "idle_read" /\ MainRuns
    /\ idle_ticks' = wakes
    /\ repeats' = cfcr_select_op_repeats(avg)
    /\ i' = 0
    /\ OpenWindow
    /\ pc' = "loop"
    /\ UNCHANGED <<victim, left, avg, report>>

BeginOp ==
    /\ pc = "loop" /\ i < repeats /\ MainRuns
    /\ left' \in Durations(avg)
    /\ pc' = "op"
    /\ UNCHANGED <<kernel, avg, repeats, i, idle_ticks, report, fires, span>>

NextIndex == i + 1

OpSucceeds ==
    /\ pc = "op" /\ left = 0 /\ MainRuns
    /\ i' = NextIndex
    /\ pc' = "loop"
    /\ UNCHANGED <<kernel, left, avg, repeats, idle_ticks, report, fires, span>>

(* A failed operation stops the timer, zeroes the fields and returns. *)
OpFails ==
    /\ pc = "op" /\ left = 0 /\ MainRuns
    /\ timer' = StopTimer
    /\ report' = zero_fairness_metrics
    /\ pc' = "returned"
    /\ UNCHANGED <<victim, sem, wakes, left, avg, repeats, i, idle_ticks, fires, span>>

StopOps ==
    /\ pc = "loop" /\ i >= repeats /\ MainRuns
    /\ timer' = StopTimer
    /\ pc' = "op_read"
    /\ UNCHANGED <<victim, sem, wakes, left, avg, repeats, i, idle_ticks, report, fires, span>>

ReadOps ==
    /\ pc = "op_read" /\ MainRuns
    /\ report' = finalize_fairness(idle_ticks, wakes)
    /\ pc' = "returned"
    /\ UNCHANGED <<kernel, left, avg, repeats, i, idle_ticks, fires, span>>

Main ==
    \/ StopIdle
    \/ ReadIdle
    \/ BeginOp
    \/ OpSucceeds
    \/ OpFails
    \/ StopOps
    \/ ReadOps

(* The caller goes on: the locals are gone, and the row has the report. *)
Leave ==
    /\ pc = "returned" /\ MainRuns
    /\ pc' = "out"
    /\ left' = 0 /\ avg' = 0 /\ repeats' = 0 /\ i' = 0 /\ idle_ticks' = 0
    /\ report' = zero_fairness_metrics
    /\ span' = 0
    /\ UNCHANGED <<kernel, fires>>

(* cfcr_timer_expiry, in interrupt context; the period starts again. *)
Expire ==
    /\ Due(timer)
    /\ sem' = k_sem_give(sem)
    /\ timer' = k_timer_start(Period)
    /\ fires' = fires + 1
    /\ UNCHANGED <<pc, victim, wakes, left, avg, repeats, i, idle_ticks, report, span>>

(* cfcr_victim_fn: a take that succeeds, then atomic_inc.  A take that     *)
(* times out changes nothing, and cfcr_victim_stop is never set.           *)
VictimTakes ==
    /\ victim = "blocked" /\ sem > 0
    /\ sem' = sem - 1
    /\ victim' = "counts"
    /\ UNCHANGED <<pc, timer, wakes, left, avg, repeats, i, idle_ticks, report, fires, span>>

VictimCounts ==
    /\ victim = "counts"
    /\ wakes' = wakes + 1
    /\ victim' = "blocked"
    /\ UNCHANGED <<pc, timer, sem, left, avg, repeats, i, idle_ticks, report, fires, span>>

Victim == VictimTakes \/ VictimCounts

Tick ==
    /\ pc \in {"sleep", "op"} /\ left > 0
    /\ victim = "blocked" /\ sem = 0 /\ ~Due(timer)
    /\ left' = left - 1
    /\ timer' = Elapse(timer)
    /\ span' = span + 1
    /\ UNCHANGED <<pc, victim, sem, wakes, avg, repeats, i, idle_ticks, report, fires>>

Next ==
    \/ Start
    \/ Main
    \/ Leave
    \/ Expire
    \/ Victim
    \/ Tick

Spec == Init /\ [][Next]_vars

(* Interrupts are served, the victim has the highest priority, time goes   *)
(* on, and main() has the processor once the others are done.              *)
FairSpec == Spec /\ WF_vars(Main \/ Leave) /\ WF_vars(Expire) /\ WF_vars(Victim) /\ WF_vars(Tick)

-------------------------------------------------------------------------------
(* Properties *)

(* Every variable stays in its type; the index is within 0 and 1. *)
TypeOK ==
    /\ pc \in {"out", "sleep", "idle_read", "loop", "op", "op_read", "returned"}
    /\ victim \in {"blocked", "counts"}
    /\ timer \in {Off} \cup 0 .. Period
    /\ sem \in Nat /\ wakes \in Nat /\ left \in Nat
    /\ avg \in Nat /\ repeats \in Nat /\ i \in 0 .. repeats
    /\ idle_ticks \in Nat
    /\ report \in [idle : Nat, op : Nat, share : Nat, of : Nat \ {0}]
    /\ report.share <= report.of
    /\ fires \in Nat /\ span \in Nat

(* Every release of a window is still pending or has been counted once: a  *)
(* window takes none over from the one before (fairness.c 213-217).        *)
WakesAreReleases == sem + wakes + (IF victim = "counts" THEN 1 ELSE 0) = fires

(* The counts main() reads are final: the victim has taken every release   *)
(* of the window before main() goes on, so no late wake is lost to either  *)
(* count (fairness.c 219-222, 240-242).                                    *)
ReadingIsFinal ==
    [][/\ pc = "idle_read" /\ pc' = "loop" => idle_ticks' = fires
       /\ pc = "op_read" /\ pc' = "returned" => report'.op = fires]_vars

(* Starvation is reported only when the operation window was no longer than*)
(* the idle one: with the victim above main(), an operation cannot starve  *)
(* it, and what the index shows is the ratio of the windows' lengths       *)
(* (fairness.c 192-198).                                                   *)
StarvationMeansShorterWindow ==
    pc = "returned" /\ report.share < report.of => span <= Window

(* Whichever way a probe ends, its timer is stopped and nothing is left    *)
(* for the victim to do in a later measurement (fairness.c 235, 240).      *)
NothingRunsOn ==
    pc \in {"returned", "out"} => timer = Off /\ sem = 0 /\ victim = "blocked"

(* A probe ends. *)
ProbeEnds == pc # "out" ~> pc = "out"
===============================================================================
