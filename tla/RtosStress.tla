------------------------------ MODULE RtosStress ------------------------------
(***************************************************************************)
(* The scheduler-interference probe of metrics/throttle.c.  A worker       *)
(* thread of the highest priority, started by the first probe and running  *)
(* for ever after, sleeps Period and then, when it is switched on, counts  *)
(* an activation and keeps the processor for Work.  main() times a batch   *)
(* of operations with the worker off, a batch with it on, and reports both *)
(* with the number of activations.                                         *)
(*                                                                         *)
(* There is one processor, and main() has it when the worker sleeps.  The  *)
(* worker may be due (w_left = 0) between any two statements of main().    *)
(***************************************************************************)
EXTENDS Integers

CONSTANTS
    Period,     \* RTOS_STRESS_PERIOD_US, in ticks
    Work,       \* RTOS_STRESS_WORK_US and the working set, in ticks
    Samples,    \* what select_rtos_stress_samples may return
    Durations   \* ticks an operation may take

(* What the constants have to be; assumed where the module is used. *)
StressAssumption ==
    /\ Period \in Nat \ {0} /\ Work \in Nat \ {0}
    /\ Samples \subseteq Nat \ {0}
    /\ Durations \subseteq Nat

VARIABLES
    pc,            \* where main() is in measure_rtos_interference_for_*
    left,          \* ticks until its k_sleep or operation returns
    sample_count, i,
    stressed,      \* which of the two loops runs
    failed,        \* an operation failed, rtos_stress_end is on its way
    held,          \* the two buffers are allocated
    worker,        \* rtos_stress_worker: none, asleep or working
    w_left,        \* ticks until it goes on
    active,        \* rtos_stress_active
    activations,   \* rtos_stress_activations
    count,         \* local of rtos_stress_end
    own, wall,     \* history: length of the present sample, without and with the worker
    seen,          \* history: activations since the worker was last switched on
    report         \* rtos_stress_activations, rtos_n_baseline and rtos_n_stress of the result

main == <<pc, left, sample_count, i, stressed, failed, held, count, report>>
work == <<worker, w_left, active, activations, seen>>
vars == <<main, work, own, wall>>

-------------------------------------------------------------------------------
zero_rtos_stress_metrics == [activations |-> 0, n |-> 0]

Init ==
    /\ pc = "out" /\ left = 0 /\ sample_count = 0 /\ i = 0
    /\ stressed = FALSE /\ failed = FALSE /\ held = FALSE
    /\ worker = "none" /\ w_left = 0
    /\ active = 0 /\ activations = 0 /\ count = 0
    /\ own = 0 /\ wall = 0 /\ seen = 0
    /\ report = zero_rtos_stress_metrics

(* main() is never on the processor while the worker keeps it. *)
MainRuns == worker # "working"

(* A due worker goes first when main() wakes at the same tick. *)
MainWakes == MainRuns /\ left = 0 /\ (worker = "asleep" => w_left > 0)

(* The number of samples depends on the average of the operation. *)
select_rtos_stress_samples == Samples

(* The buffers, and the head of the loop over the baseline samples. *)
Start ==
    /\ pc = "out" /\ MainRuns
    /\ sample_count' \in select_rtos_stress_samples
    /\ report' = zero_rtos_stress_metrics
    /\ held' = TRUE
    /\ i' = 0 /\ stressed' = FALSE /\ failed' = FALSE
    /\ pc' = "loop"
    /\ UNCHANGED <<left, count, work, own, wall>>

StartFails ==
    /\ pc = "out" /\ MainRuns
    /\ report' = zero_rtos_stress_metrics
    /\ pc' = "returned"
    /\ UNCHANGED <<left, sample_count, i, stressed, failed, held, count, work, own, wall>>

MoreSamples == i < sample_count

(* t0 is read and the operation called. *)
BeginOp ==
    /\ pc = "loop" /\ MoreSamples /\ MainRuns
    /\ \E d \in Durations : left' = d /\ own' = d
    /\ wall' = 0
    /\ pc' = "op"
    /\ UNCHANGED <<sample_count, i, stressed, failed, held, count, report, work>>

(* The operation succeeds and t1 is read. *)
NextIndex == i + 1

OpSucceeds ==
    /\ pc = "op" /\ left = 0 /\ MainRuns
    /\ i' = NextIndex
    /\ pc' = "loop"
    /\ UNCHANGED <<left, sample_count, stressed, failed, held, count, report, work, own, wall>>

BaselineFails ==
    /\ pc = "op" /\ left = 0 /\ ~stressed /\ MainRuns
    /\ held' = FALSE
    /\ report' = zero_rtos_stress_metrics
    /\ pc' = "returned"
    /\ UNCHANGED <<left, sample_count, i, stressed, failed, count, work, own, wall>>

(* A stressed operation fails: the buffers are freed and the worker is     *)
(* switched off before the probe returns.                                  *)
AfterFailure == "end"

StressFails ==
    /\ pc = "op" /\ left = 0 /\ stressed /\ MainRuns
    /\ held' = FALSE
    /\ failed' = TRUE
    /\ pc' = AfterFailure
    /\ UNCHANGED <<left, sample_count, i, stressed, count, report, work, own, wall>>

(* rtos_stress_begin: the first call creates the worker, which runs at     *)
(* once, finds itself switched off, and sleeps.                            *)
EnsureStarted ==
    /\ pc = "loop" /\ ~MoreSamples /\ ~stressed /\ MainRuns
    /\ IF worker = "none"
       THEN worker' = "asleep" /\ w_left' = Period /\ active' = 0 /\ activations' = 0
       ELSE UNCHANGED <<worker, w_left, active, activations>>
    /\ pc' = "begin"
    /\ UNCHANGED <<left, sample_count, i, stressed, failed, held, count, report, own, wall, seen>>

(* rtos_stress_activations := 0 *)
Begin ==
    /\ pc = "begin" /\ MainRuns
    /\ activations' = 0
    /\ pc' = "activate"
    /\ UNCHANGED <<left, sample_count, i, stressed, failed, held, count, report, worker, w_left,
                   active, own, wall, seen>>

(* rtos_stress_active := 1, and a sleep as long as the worker's own.       *)
SettleTime_Half == Period - 1
SettleTime == Period

Activate ==
    /\ pc = "activate" /\ MainRuns
    /\ active' = 1
    /\ seen' = 0
    /\ left' = SettleTime
    /\ pc' = "settle"
    /\ UNCHANGED <<sample_count, i, stressed, failed, held, count, report, worker, w_left,
                   activations, own, wall>>

BeginReturns ==
    /\ pc = "settle" /\ MainWakes
    /\ i' = 0
    /\ stressed' = TRUE
    /\ pc' = "loop"
    /\ UNCHANGED <<left, sample_count, failed, held, count, report, work, own, wall>>

(* rtos_stress_end: the count is read, then the worker switched off.       *)
EndReads ==
    /\ \/ pc = "loop" /\ ~MoreSamples /\ stressed
       \/ pc = "end"
    /\ MainRuns
    /\ count' = activations
    /\ pc' = "deactivate"
    /\ UNCHANGED <<left, sample_count, i, stressed, failed, held, report, work, own, wall>>

SwitchedOff == 0

Deactivate ==
    /\ pc = "deactivate" /\ MainRuns
    /\ active' = SwitchedOff
    /\ left' = Period
    /\ pc' = "unwind"
    /\ UNCHANGED <<sample_count, i, stressed, failed, held, count, report, worker, w_left,
                   activations, own, wall, seen>>

ReturnedCount == count

(* The sleep of rtos_stress_end is over; on success the samples are        *)
(* evaluated and the buffers freed.                                        *)
EndReturns ==
    /\ pc = "unwind" /\ MainWakes
    /\ activations' = 0
    /\ held' = FALSE
    /\ report' = IF failed THEN zero_rtos_stress_metrics
                 ELSE [activations |-> ReturnedCount, n |-> i]
    /\ pc' = "returned"
    /\ UNCHANGED <<left, sample_count, i, stressed, failed, count, worker, w_left, active, own,
                   wall, seen>>

Probe ==
    \/ BeginOp
    \/ OpSucceeds
    \/ BaselineFails
    \/ StressFails
    \/ EnsureStarted
    \/ Begin
    \/ Activate
    \/ BeginReturns
    \/ EndReads
    \/ Deactivate
    \/ EndReturns

(* The caller goes on: the locals are gone, and the row has the report. *)
Leave ==
    /\ pc = "returned" /\ MainRuns
    /\ pc' = "out"
    /\ left' = 0 /\ sample_count' = 0 /\ i' = 0 /\ count' = 0
    /\ stressed' = FALSE /\ failed' = FALSE
    /\ own' = 0 /\ wall' = 0 /\ seen' = 0
    /\ report' = zero_rtos_stress_metrics
    /\ UNCHANGED <<held, worker, w_left, active, activations>>

(* rtos_stress_worker, with the processor to itself. *)
ChecksActive == active = 1

(* K_USEC(PERIOD) in both branches. *)
SleepTime_AndWork == Period + Work
SleepTime == Period

SleepsOn ==
    /\ worker = "asleep" /\ w_left = 0 /\ ~ChecksActive
    /\ w_left' = SleepTime
    /\ UNCHANGED <<main, worker, active, activations, own, wall, seen>>

Works ==
    /\ worker = "asleep" /\ w_left = 0 /\ ChecksActive
    /\ activations' = activations + 1
    /\ seen' = seen + 1
    /\ worker' = "working"
    /\ w_left' = Work
    /\ UNCHANGED <<main, active, own, wall>>

Rests ==
    /\ worker = "working" /\ w_left = 0
    /\ worker' = "asleep"
    /\ w_left' = SleepTime
    /\ UNCHANGED <<main, active, activations, own, wall, seen>>

Worker == SleepsOn \/ Works \/ Rests

(* A tick: everybody's timeouts, and an operation if it has the processor. *)
Sleeping == pc \in {"settle", "unwind"}

Tick ==
    /\ pc \in {"out", "op"} \/ Sleeping \/ worker = "working"
    /\ worker # "none" => w_left > 0
    /\ worker # "working" /\ pc # "out" => left > 0
    /\ w_left' = IF w_left > 0 THEN w_left - 1 ELSE 0
    /\ left' = IF left > 0 /\ (Sleeping \/ worker # "working")
               THEN left - 1 ELSE left
    /\ wall' = IF pc = "op" THEN wall + 1 ELSE wall
    /\ UNCHANGED <<pc, sample_count, i, stressed, failed, held, count, report, worker, active,
                   activations, own, seen>>

Next ==
    \/ Start
    \/ StartFails
    \/ Probe
    \/ Leave
    \/ Worker
    \/ Tick

Spec == Init /\ [][Next]_vars

(* Time passes, the worker has the highest priority, and main() is the     *)
(* only other thread that is ready.                                        *)
FairSpec == Spec /\ WF_vars(Probe \/ Leave) /\ WF_vars(Worker) /\ WF_vars(Tick)

-------------------------------------------------------------------------------
(* Properties *)

(* Every variable stays in its type. *)
TypeOK ==
    /\ pc \in {"out", "loop", "op", "begin", "activate", "settle", "end", "deactivate", "unwind",
              "returned"}
    /\ left \in Nat /\ sample_count \in Nat /\ i \in 0 .. sample_count
    /\ stressed \in BOOLEAN /\ failed \in BOOLEAN /\ held \in BOOLEAN
    /\ worker \in {"none", "asleep", "working"}
    /\ w_left \in Nat
    /\ active \in {0, 1} /\ activations \in Nat /\ count \in Nat
    /\ own \in Nat /\ wall \in Nat /\ seen \in Nat
    /\ report \in [activations : Nat, n : Nat]

(* Sampling under stress begins only after the worker was activated: the   *)
(* sleep of rtos_stress_begin is as long as the worker's, whose phase is   *)
(* whatever it was (throttle.c 416-417).                                   *)
StressBeforeSampling == stressed /\ pc \in {"loop", "op"} => activations > 0

(* The worker never keeps the processor outside the window it was switched *)
(* on for: not in a baseline, not after a failure, not in a later          *)
(* measurement (throttle.c 374, 424, 493).                                 *)
WorksOnlyInItsWindow ==
    worker = "working" => (stressed /\ pc \notin {"returned", "out"}) \/ pc = "settle"

(* A baseline sample is the operation's own time; a stressed one that is as*)
(* long as the worker sleeps has been preempted (throttle.c 455-487).      *)
SamplesTellTheLoops ==
    [][pc = "op" /\ pc' = "loop" =>
          /\ ~stressed => wall = own
          /\ stressed /\ own > Period => wall >= own + Work]_vars

(* The activations reported are those of the window, but for one that may  *)
(* come between the read and the switch (throttle.c 422-424).              *)
ReportIsTheWindow ==
    pc = "returned" /\ report.n > 0 => report.activations \in {seen - 1, seen}

(* When a probe is over, the worker is switched off, its count cleared and *)
(* the buffers freed, whichever way it ended.                              *)
NothingRunsOn ==
    pc \in {"returned", "out"} => active = 0 /\ activations = 0 /\ ~held

(* A probe ends, preempted or not. *)
ProbeEnds == pc # "out" ~> pc = "out"
===============================================================================
