----------------------------- MODULE ProbeSequence -----------------------------
(***************************************************************************)
(* The four probes that the throttle stage of a row calls one after another*)
(* (metrics/throttle.c): scheduler interference, interrupt tax, cooperative*)
(* fairness, release jitter.  They share the processor, and what outlives  *)
(* a call: the stress worker, which sleeps and wakes for ever once it is   *)
(* started, the victim thread, three timers, and the counters, which keep  *)
(* their values from row to row until a probe sets them.                   *)
(*                                                                         *)
(* A tick is one for the probe that runs and for the worker.  The worker   *)
(* has the highest priority: main() goes on when it sleeps.                *)
(***************************************************************************)
EXTENDS Integers

CONSTANTS
    StressPeriod, StressWork, StressSamples,       \* of RtosStress
    IsrPeriod, IsrSamples,                         \* of IsrTax
    VictimPeriod, CoopWindow, MostRepeats,         \* of Fairness
    Averages, AverageDurations(_),
    ReleasePeriod, Timeout, Batches, Slack, Width, \* of ReleaseJitter
    Durations                                      \* of all but Fairness

VARIABLES
    stage,   \* the call of the throttle stage, "row" outside of them
    rs_pc, rs_left, sample_count, rs_i, stressed, failed, rs_held, worker, w_left, active,
    activations, rs_count, own, wall, seen, rs_report,
    it_pc, n, it_i, injected, it_held, it_timer, it_count, it_left, window, it_report,
    f_pc, victim, f_timer, f_sem, wakes, f_left, avg, repeats, f_i, idle_ticks, f_report, f_fires,
    span,
    rj_pc, batch, rj_i, rj_timer, rj_sem, last_release, clock, wait, busy, slack, take_lo, lat,
    rj_held, overruns, rj_report, rj_fires, taken

RS == INSTANCE RtosStress WITH
          Period <- StressPeriod, Work <- StressWork, Samples <- StressSamples,
          pc <- rs_pc, left <- rs_left, i <- rs_i, held <- rs_held, count <- rs_count,
          report <- rs_report

IT == INSTANCE IsrTax WITH
          Period <- IsrPeriod, Samples <- IsrSamples,
          pc <- it_pc, i <- it_i, held <- it_held, timer <- it_timer, count <- it_count,
          left <- it_left, report <- it_report

F == INSTANCE Fairness WITH
         Period <- VictimPeriod, Window <- CoopWindow, Durations <- AverageDurations,
         pc <- f_pc, timer <- f_timer, sem <- f_sem, left <- f_left, i <- f_i,
         report <- f_report, fires <- f_fires

RJ == INSTANCE ReleaseJitter WITH
          Period <- ReleasePeriod,
          pc <- rj_pc, i <- rj_i, timer <- rj_timer, sem <- rj_sem, held <- rj_held,
          report <- rj_report, fires <- rj_fires

ASSUME ProbeAssumption ==
    RS!StressAssumption /\ IT!IsrTaxAssumption /\ F!FairnessAssumption /\ RJ!ReleaseAssumption

rs == <<rs_pc, rs_left, sample_count, rs_i, stressed, failed, rs_held, worker, w_left, active,
        activations, rs_count, own, wall, seen, rs_report>>
it == <<it_pc, n, it_i, injected, it_held, it_timer, it_count, it_left, window, it_report>>
f == <<f_pc, victim, f_timer, f_sem, wakes, f_left, avg, repeats, f_i, idle_ticks, f_report,
       f_fires, span>>
rj == <<rj_pc, batch, rj_i, rj_timer, rj_sem, last_release, clock, wait, busy, slack, take_lo,
        lat, rj_held, overruns, rj_report, rj_fires, taken>>

vars == <<stage, rs, it, f, rj>>

Init == stage = "row" /\ RS!Init /\ IT!Init /\ F!Init /\ RJ!Init

-------------------------------------------------------------------------------
(* main(): in every stage the whole probe, and then the next call.         *)
EnterThrottle ==
    /\ stage = "row" /\ RS!MainRuns
    /\ stage' = "rtos"
    /\ UNCHANGED <<rs, it, f, rj>>

measure_rtos_interference ==
    /\ stage = "rtos"
    /\ \/ (RS!Start \/ RS!StartFails \/ RS!Probe) /\ UNCHANGED stage
       \/ RS!Leave /\ stage' = "isr"
    /\ UNCHANGED <<it, f, rj>>

measure_isr_tax ==
    /\ stage = "isr" /\ RS!MainRuns
    /\ \/ (IT!Start \/ IT!StartFails \/ IT!Main) /\ UNCHANGED stage
       \/ IT!Leave /\ stage' = "fairness"
    /\ UNCHANGED <<rs, f, rj>>

measure_fairness ==
    /\ stage = "fairness" /\ RS!MainRuns
    /\ \/ (F!Start \/ F!Main) /\ UNCHANGED stage
       \/ F!Leave /\ stage' = "release"
    /\ UNCHANGED <<rs, it, rj>>

AfterProbes_Again == "rtos"
AfterProbes == "row"

measure_release_jitter ==
    /\ stage = "release" /\ RS!MainRuns
    /\ \/ (RJ!Start \/ RJ!StartFails \/ RJ!Probe) /\ UNCHANGED stage
       \/ RJ!Leave /\ stage' = AfterProbes
    /\ UNCHANGED <<rs, it, f>>

Main ==
    \/ measure_rtos_interference
    \/ measure_isr_tax
    \/ measure_fairness
    \/ measure_release_jitter

(* The other threads, and the handlers of the timers, whatever the stage.  *)
Worker == RS!Worker /\ UNCHANGED <<stage, it, f, rj>>

Victim == F!Victim /\ UNCHANGED <<stage, rs, it, rj>>

Expire ==
    \/ IT!Expire /\ UNCHANGED <<stage, rs, f, rj>>
    \/ F!Expire /\ UNCHANGED <<stage, rs, it, rj>>
    \/ RJ!Expire /\ UNCHANGED <<stage, rs, it, f>>

(* Only the worker's sleep and the probe of the stage measure time.        *)
Tick ==
    /\ RS!Tick
    /\ \/ stage \in {"row", "rtos"} /\ UNCHANGED <<it, f, rj>>
       \/ stage = "isr" /\ IT!Tick /\ UNCHANGED <<f, rj>>
       \/ stage = "fairness" /\ F!Tick /\ UNCHANGED <<it, rj>>
       \/ stage = "release" /\ RJ!Tick /\ UNCHANGED <<it, f>>
    /\ UNCHANGED stage

Next ==
    \/ EnterThrottle
    \/ Main
    \/ Worker
    \/ Victim
    \/ Expire
    \/ Tick

Spec == Init /\ [][Next]_vars

(* Interrupts are served, a thread of a higher priority runs when it is    *)
(* ready, main() when none is, and time passes.                            *)
FairSpec ==
    Spec /\ WF_vars(Main) /\ WF_vars(Worker) /\ WF_vars(Victim) /\ WF_vars(Expire) /\ WF_vars(Tick)

-------------------------------------------------------------------------------
(* Properties *)

(* Every variable stays in its type. *)
TypeOK ==
    /\ stage \in {"row", "rtos", "isr", "fairness", "release"}
    /\ RS!TypeOK /\ IT!TypeOK /\ F!TypeOK /\ RJ!TypeOK

(* What a probe started is over before the next call: outside the window it*)
(* was switched on for the worker does nothing but sleep, and outside its  *)
(* own call no timer runs, nothing is left for the victim, and no buffer is*)
(* held, whatever failed (throttle.c 374, 424, 493, 1334-1343).            *)
OnlyOneProbeAtATime ==
    /\ RS!WorksOnlyInItsWindow
    /\ stage # "rtos" => RS!NothingRunsOn /\ worker # "working"
    /\ stage # "isr" => IT!NothingRunsOn
    /\ stage # "fairness" => F!NothingRunsOn
    /\ stage # "release" => RJ!NothingRunsOn

(* Sampling under stress begins only after the worker was activated: the   *)
(* sleep of rtos_stress_begin is as long as the worker's, whose phase is   *)
(* whatever the rows before have left (throttle.c 416-417).                *)
StressBeforeSampling == RS!StressBeforeSampling

(* What a probe reports is what happened in its own window: the activations*)
(* since the worker was switched on, but for one that may come between the *)
(* read and the switch; the timer's interrupts, but for one expiry at the  *)
(* end, whatever the counter held before; a whole batch of latencies, each *)
(* with its own take, in percentile order (throttle.c 422-424, isr_tax.c   *)
(* 201-227, release_jitter.c 190-206).                                     *)
ReportsAreTheWindows == RS!ReportIsTheWindow /\ IT!RateIsTheTimers /\ RJ!ReportIsTheBatch

(* A baseline sample is the operation's own time; a stressed one that is as*)
(* long as the worker sleeps has been preempted (throttle.c 455-487).      *)
SamplesTellTheLoops == RS!SamplesTellTheLoops

(* Every release of a fairness window is still pending or has been counted *)
(* once: a window takes none over from the one before (fairness.c 213-217).*)
WakesAreReleases == F!WakesAreReleases

(* The counts main() reads are final: no late wake is lost to either       *)
(* (fairness.c 219-222, 240-242).                                          *)
ReadingIsFinal == F!ReadingIsFinal

(* Starvation is reported only when the operation window was no longer than*)
(* the idle one: with the victim above main(), an operation cannot starve  *)
(* it, and what the index shows is the ratio of the windows' lengths       *)
(* (fairness.c 192-198).                                                   *)
StarvationMeansShorterWindow == F!StarvationMeansShorterWindow

(* Every take of a release probe is of a release of that probe: the credits*)
(* left by an earlier row that was cut short are gone (release_jitter.c    *)
(* 224).                                                                   *)
TakesAreReleases == RJ!TakesAreReleases

(* The 200 ms of k_sem_take never run out: a release probe is cut short by *)
(* a failed operation only (release_jitter.c 235-243).                     *)
NeverTimesOut == RJ!NeverTimesOut

(* The row goes on after the probes, preempted or not, failed or not. *)
RowGoesOn == stage # "row" ~> stage = "row"
===============================================================================
