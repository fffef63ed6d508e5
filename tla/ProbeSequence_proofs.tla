-------------------------- MODULE ProbeSequence_proofs --------------------------
(***************************************************************************)
(* Proofs about the four probes of the throttle stage: for any periods,    *)
(* windows, sample counts and lengths of the operations, each probe reports*)
(* what happened in its own window and leaves nothing running behind.      *)
(*                                                                         *)
(* A probe's own variables are changed by its own actions only, so each has*)
(* an inductive invariant that its actions preserve, whatever the others   *)
(* do; the sequence adds that only the stage's own probe is under way.     *)
(***************************************************************************)
EXTENDS ProbeSequence, Sequences, FiniteSetTheorems, WellFoundedInduction, TLAPS
-------------------------------------------------------------------------------
(* Scheduler interference: main() and the stress worker.                   *)

(* The worker is switched on from Activate to Deactivate, exists since     *)
(* EnsureStarted, and works only while it is switched on; the buffers are  *)
(* held until the probe returns.                                           *)
SwitchInv ==
    /\ rs_pc \in {"out", "returned", "begin", "activate", "unwind"} => active = 0
    /\ rs_pc \in {"settle", "end", "deactivate"} => active = 1
    /\ rs_pc \in {"loop", "op"} => (active = 1 <=> stressed)
    /\ rs_pc \in {"begin", "activate", "settle"} => ~stressed
    /\ rs_pc \in {"end", "deactivate", "unwind"} => stressed
    /\ rs_pc \in {"begin", "activate"} \/ active = 1 => worker # "none"
    /\ rs_pc = "unwind" => worker # "none"
    /\ worker = "working" => active = 1
    /\ worker = "asleep" => w_left <= StressPeriod
    /\ rs_pc \in {"out", "returned"} => activations = 0 /\ ~rs_held
    /\ rs_pc \in {"loop", "op"} /\ ~stressed => activations = 0
    /\ rs_pc = "op" => rs_i < sample_count

(* While main() settles, a worker that has not worked yet wakes no later   *)
(* than main(): that is why there are activations when sampling begins.    *)
SettleInv ==
    /\ rs_pc = "settle" => activations > 0 \/ (worker = "asleep" /\ w_left <= rs_left)
    /\ rs_pc \in {"loop", "op"} /\ stressed => activations > 0

(* The counter is that of the window; after EndReads one more activation   *)
(* may come, and the worker then has not slept again.                      *)
ActivationsInv ==
    /\ rs_pc = "activate" => activations = 0
    /\ active = 1 => activations = seen
    /\ rs_pc = "deactivate" =>
          rs_count = seen \/ (rs_count = seen - 1 /\ (worker = "working" \/ w_left > 0))
    /\ rs_pc = "unwind" => rs_count \in {seen - 1, seen}
    /\ rs_pc = "returned" /\ rs_report.n > 0 => rs_report.activations \in {seen - 1, seen}

(* A baseline sample is so far as long as the operation has run.  A        *)
(* stressed one was not interrupted yet, and then the worker is due within *)
(* its period; or is being interrupted; or was, for at least Work.         *)
SampleInv ==
    rs_pc = "op" =>
        /\ ~stressed => wall + rs_left = own
        /\ stressed =>
              \/ worker = "asleep" /\ wall + rs_left = own /\ wall + w_left <= StressPeriod
              \/ worker = "working" /\ wall + w_left + rs_left >= own + StressWork
              \/ wall + rs_left >= own + StressWork

RsInv == RS!TypeOK /\ SwitchInv /\ SettleInv /\ ActivationsInv /\ SampleInv

LEMMA RsInit == RS!Init => RsInv
<1> SUFFICES ASSUME RS!Init PROVE RsInv
  OBVIOUS
<1>1. RS!TypeOK
  <2>1. 0 \in Nat /\ 0 \in 0 .. 0 /\ rs_report \in [activations : Nat, n : Nat]
    BY DEF RS!Init, RS!zero_rtos_stress_metrics
  <2> QED
    BY <2>1, Zenon DEF RS!Init, RS!TypeOK
<1>2. SwitchInv /\ SettleInv /\ ActivationsInv /\ SampleInv
  BY DEF RS!Init, SwitchInv, SettleInv, ActivationsInv, SampleInv
<1> QED
  BY <1>1, <1>2 DEF RsInv

LEMMA RsTypeStep == RsInv /\ (RS!Next \/ UNCHANGED rs) => RS!TypeOK'
<1> SUFFICES ASSUME RsInv, RS!Next \/ UNCHANGED rs PROVE RS!TypeOK'
  OBVIOUS
<1> USE DEF RS!TypeOK, RS!main, RS!work, RS!zero_rtos_stress_metrics
<1>0. /\ StressPeriod \in Nat \ {0} /\ StressWork \in Nat \ {0}
      /\ StressSamples \subseteq Nat \ {0} /\ Durations \subseteq Nat
      /\ RS!TypeOK
  BY ProbeAssumption DEF RS!StressAssumption, RsInv
<1>1. CASE RS!Start
  <2>1. sample_count' \in Nat /\ rs_i' \in 0 .. sample_count'
    BY <1>0, <1>1 DEF RS!Start, RS!select_rtos_stress_samples
  <2> QED
    BY <1>0, <1>1, <2>1 DEF RS!Start
<1>2. CASE RS!StartFails
  BY <1>0, <1>2 DEF RS!StartFails
<1>3. CASE RS!Probe
  <2>1. CASE RS!BeginOp
    BY <1>0, <2>1 DEF RS!BeginOp
  <2>2. CASE RS!OpSucceeds
    <3>1. rs_i < sample_count
      BY <2>2 DEF RS!OpSucceeds, RsInv, SwitchInv
    <3>2. rs_i' \in 0 .. sample_count'
      BY <1>0, <2>2, <3>1 DEF RS!OpSucceeds, RS!NextIndex
    <3> QED
      BY <1>0, <2>2, <3>2 DEF RS!OpSucceeds
  <2>3. CASE RS!BaselineFails
    BY <1>0, <2>3 DEF RS!BaselineFails
  <2>4. CASE RS!StressFails
    BY <1>0, <2>4 DEF RS!StressFails, RS!AfterFailure
  <2>5. CASE RS!EnsureStarted
    BY <1>0, <2>5 DEF RS!EnsureStarted
  <2>6. CASE RS!Begin
    BY <1>0, <2>6 DEF RS!Begin
  <2>7. CASE RS!Activate
    BY <1>0, <2>7 DEF RS!Activate, RS!SettleTime
  <2>8. CASE RS!BeginReturns
    BY <1>0, <2>8 DEF RS!BeginReturns
  <2>9. CASE RS!EndReads
    BY <1>0, <2>9 DEF RS!EndReads
  <2>10. CASE RS!Deactivate
    BY <1>0, <2>10 DEF RS!Deactivate, RS!SwitchedOff
  <2>11. CASE RS!EndReturns
    <3>1. rs_i \in Nat
      BY <1>0
    <3> QED
      BY <1>0, <2>11, <3>1 DEF RS!EndReturns, RS!ReturnedCount
  <2> QED
    BY <1>3, <2>1, <2>2, <2>3, <2>4, <2>5, <2>6, <2>7, <2>8, <2>9, <2>10, <2>11 DEF RS!Probe
<1>4. CASE RS!Leave
  <2>1. 0 \in Nat /\ 0 \in 0 .. 0 /\ rs_report' \in [activations : Nat, n : Nat]
    BY <1>4 DEF RS!Leave
  <2> QED
    BY <1>0, <1>4, <2>1, Zenon DEF RS!Leave
<1>5. CASE RS!Worker
  <2>1. w_left' \in Nat /\ activations' \in Nat /\ seen' \in Nat
    BY <1>0, <1>5 DEF RS!Worker, RS!SleepsOn, RS!Works, RS!Rests, RS!SleepTime
  <2>2. worker' \in {"asleep", "working"}
    BY <1>5 DEF RS!Worker, RS!SleepsOn, RS!Works, RS!Rests
  <2>3. UNCHANGED <<rs_pc, rs_left, sample_count, rs_i, stressed, failed, rs_held, rs_count,
                    rs_report, active, own, wall>>
    BY <1>5 DEF RS!Worker, RS!SleepsOn, RS!Works, RS!Rests
  <2> QED
    BY <1>0, <2>1, <2>2, <2>3, Zenon
<1>6. CASE RS!Tick
  <2>1. rs_left' \in Nat /\ w_left' \in Nat /\ wall' \in Nat
    BY <1>0, <1>6 DEF RS!Tick
  <2> QED
    BY <1>0, <1>6, <2>1 DEF RS!Tick
<1>7. CASE UNCHANGED rs
  BY <1>0, <1>7 DEF rs
<1> QED
  BY <1>1, <1>2, <1>3, <1>4, <1>5, <1>6, <1>7 DEF RS!Next

LEMMA RsStep == RsInv /\ (RS!Next \/ UNCHANGED rs) => RsInv'
<1> SUFFICES ASSUME RsInv, RS!Next \/ UNCHANGED rs
             PROVE  SwitchInv' /\ SettleInv' /\ ActivationsInv' /\ SampleInv'
  BY RsTypeStep DEF RsInv
<1> USE DEF SwitchInv, SettleInv, ActivationsInv, SampleInv, RS!main, RS!work, RS!MainRuns,
            RS!zero_rtos_stress_metrics
<1>0. /\ StressPeriod \in Nat \ {0} /\ StressWork \in Nat \ {0}
      /\ StressSamples \subseteq Nat \ {0} /\ Durations \subseteq Nat
      /\ SwitchInv /\ SettleInv /\ ActivationsInv /\ SampleInv
  BY ProbeAssumption DEF RS!StressAssumption, RsInv
<1>t. /\ rs_left \in Nat /\ sample_count \in Nat /\ rs_i \in 0 .. sample_count /\ w_left \in Nat
      /\ active \in {0, 1} /\ activations \in Nat /\ rs_count \in Nat
      /\ own \in Nat /\ wall \in Nat /\ seen \in Nat
  BY DEF RsInv, RS!TypeOK
<1>w. /\ worker \in {"none", "asleep", "working"}
      /\ rs_pc \in {"out", "loop", "op", "begin", "activate", "settle", "end", "deactivate",
                    "unwind", "returned"}
      /\ stressed \in BOOLEAN
  BY DEF RsInv, RS!TypeOK
<1>1. CASE RS!Start
  BY <1>0, <1>t, <1>w, <1>1 DEF RS!Start, RS!select_rtos_stress_samples
<1>2. CASE RS!StartFails
  BY <1>0, <1>t, <1>w, <1>2 DEF RS!StartFails
<1>3. CASE RS!Probe
  <2>1. CASE RS!BeginOp
    BY <1>0, <1>t, <1>w, <2>1 DEF RS!BeginOp, RS!MoreSamples
  <2>2. CASE RS!OpSucceeds
    BY <1>0, <1>t, <1>w, <2>2 DEF RS!OpSucceeds
  <2>3. CASE RS!BaselineFails
    BY <1>0, <1>t, <1>w, <2>3 DEF RS!BaselineFails
  <2>4. CASE RS!StressFails
    BY <1>0, <1>t, <1>w, <2>4 DEF RS!StressFails, RS!AfterFailure
  <2>5. CASE RS!EnsureStarted
    BY <1>0, <1>t, <1>w, <2>5 DEF RS!EnsureStarted
  <2>6. CASE RS!Begin
    BY <1>0, <1>t, <1>w, <2>6 DEF RS!Begin
  <2>7. CASE RS!Activate
    BY <1>0, <1>t, <1>w, <2>7 DEF RS!Activate, RS!SettleTime
  <2>8. CASE RS!BeginReturns
    BY <1>0, <1>t, <1>w, <2>8 DEF RS!BeginReturns, RS!MainWakes
  <2>9. CASE RS!EndReads
    BY <1>0, <1>t, <1>w, <2>9 DEF RS!EndReads
  <2>10. CASE RS!Deactivate
    BY <1>0, <1>t, <1>w, <2>10 DEF RS!Deactivate, RS!SwitchedOff
  <2>11. CASE RS!EndReturns
    BY <1>0, <1>t, <1>w, <2>11 DEF RS!EndReturns, RS!ReturnedCount
  <2> QED
    BY <1>3, <2>1, <2>2, <2>3, <2>4, <2>5, <2>6, <2>7, <2>8, <2>9, <2>10, <2>11 DEF RS!Probe
<1>4. CASE RS!Leave
  BY <1>0, <1>t, <1>w, <1>4 DEF RS!Leave
<1>5. CASE RS!Worker
  <2>1. CASE RS!SleepsOn
    BY <1>0, <1>t, <1>w, <2>1 DEF RS!SleepsOn, RS!SleepTime, RS!ChecksActive
  <2>2. CASE RS!Works
    BY <1>0, <1>t, <1>w, <2>2 DEF RS!Works, RS!ChecksActive
  <2>3. CASE RS!Rests
    BY <1>0, <1>t, <1>w, <2>3 DEF RS!Rests, RS!SleepTime
  <2> QED
    BY <1>5, <2>1, <2>2, <2>3 DEF RS!Worker
<1>6. CASE RS!Tick
  <2>1. SwitchInv'
    BY <1>0, <1>t, <1>w, <1>6 DEF RS!Tick, RS!Sleeping
  <2>2. SettleInv'
    BY <1>0, <1>t, <1>w, <1>6 DEF RS!Tick, RS!Sleeping
  <2>3. ActivationsInv'
    BY <1>0, <1>t, <1>w, <1>6 DEF RS!Tick, RS!Sleeping
  <2>4. SampleInv'
    BY <1>0, <1>t, <1>w, <1>6 DEF RS!Tick, RS!Sleeping
  <2> QED
    BY <2>1, <2>2, <2>3, <2>4
<1>7. CASE UNCHANGED rs
  BY <1>0, <1>t, <1>w, <1>7 DEF rs
<1> QED
  BY <1>1, <1>2, <1>3, <1>4, <1>5, <1>6, <1>7 DEF RS!Next
-------------------------------------------------------------------------------
(* Interrupt tax: main() and the timer's handler.                          *)

Timed == {"loop", "op", "stop"}

(* The timer runs in the injected window only, from its start to StopTimer,*)
(* and the probe has a report only when it has returned.                   *)
InjectInv ==
    /\ it_timer # IT!Off => injected /\ it_pc \in Timed
    /\ it_pc \in {"out", "returned"} => ~it_held
    /\ it_pc = "op" => it_i < n
    /\ it_pc \in {"stop", "read"} => injected
    /\ it_pc # "returned" => it_report.window = 0

(* While the timer runs, the time since its start is its whole periods and *)
(* what has passed of the present one; it is stopped within that period.   *)
RateInv ==
    /\ injected /\ it_pc \in Timed =>
          it_timer \in 0 .. IsrPeriod /\ window + it_timer = it_count * IsrPeriod + IsrPeriod
    /\ it_pc = "read" =>
          it_count * IsrPeriod <= window /\ window <= it_count * IsrPeriod + IsrPeriod
    /\ it_pc = "returned" /\ it_report.window > 0 =>
          /\ it_report.isrs * IsrPeriod <= it_report.window
          /\ it_report.window <= it_report.isrs * IsrPeriod + IsrPeriod

ItInv == IT!TypeOK /\ InjectInv /\ RateInv

LEMMA ItInit == IT!Init => ItInv
<1> SUFFICES ASSUME IT!Init PROVE ItInv
  OBVIOUS
<1>1. IT!TypeOK
  <2>1. 0 \in Nat /\ 0 \in 0 .. 0 /\ it_report \in [isrs : Nat, window : Nat]
    BY DEF IT!Init, IT!zero_isr_tax_metrics
  <2> QED
    BY <2>1, Zenon DEF IT!Init, IT!TypeOK
<1>2. InjectInv /\ RateInv
  BY DEF IT!Init, InjectInv, RateInv, Timed, IT!zero_isr_tax_metrics
<1> QED
  BY <1>1, <1>2 DEF ItInv

LEMMA ItStep == ItInv /\ (IT!Next \/ UNCHANGED it) => ItInv'
<1> SUFFICES ASSUME ItInv, IT!Next \/ UNCHANGED it PROVE ItInv'
  OBVIOUS
<1> USE DEF ItInv, IT!TypeOK, InjectInv, RateInv, Timed, IT!zero_isr_tax_metrics, IT!Off
<1>0. IsrPeriod \in Nat \ {0} /\ IsrSamples \subseteq Nat \ {0} /\ Durations \subseteq Nat
  BY ProbeAssumption DEF IT!IsrTaxAssumption
<1>1. CASE IT!Start
  <2>1. n' \in Nat /\ it_i' \in 0 .. n'
    BY <1>0, <1>1 DEF IT!Start, IT!select_isr_tax_samples
  <2> QED
    BY <1>0, <1>1, <2>1 DEF IT!Start
<1>2. CASE IT!StartFails
  BY <1>0, <1>2 DEF IT!StartFails
<1>3. CASE IT!Main
  <2>1. CASE IT!BeginOp
    BY <1>0, <2>1 DEF IT!BeginOp
  <2>2. CASE IT!OpSucceeds
    BY <1>0, <2>2 DEF IT!OpSucceeds
  <2>3. CASE IT!OpFails
    <3>1. it_timer' = -1
      BY <2>3 DEF IT!OpFails, IT!StopOnFailure, IT!k_timer_stop
    <3>2. RateInv' /\ InjectInv'
      BY <1>0, <2>3, <3>1 DEF IT!OpFails
    <3>3. IT!TypeOK'
      BY <1>0, <2>3, <3>1 DEF IT!OpFails
    <3> QED
      BY <3>2, <3>3
  <2>4. CASE IT!OpenWindow
    BY <1>0, <2>4 DEF IT!OpenWindow, IT!CountAtStart, IT!k_timer_start
  <2>5. CASE IT!CloseWindow
    BY <1>0, <2>5 DEF IT!CloseWindow
  <2>6. CASE IT!StopTimer
    <3>1. it_count * IsrPeriod <= window /\ window <= it_count * IsrPeriod + IsrPeriod
      <4>1. it_count * IsrPeriod \in Nat
        BY <1>0
      <4> QED
        BY <1>0, <4>1, <2>6 DEF IT!StopTimer
    <3>2. RateInv' /\ InjectInv'
      BY <1>0, <2>6, <3>1 DEF IT!StopTimer, IT!k_timer_stop
    <3>3. IT!TypeOK'
      BY <1>0, <2>6 DEF IT!StopTimer, IT!k_timer_stop
    <3> QED
      BY <3>2, <3>3
  <2>7. CASE IT!Finish
    <3>1. it_report' = IF window = 0 THEN [isrs |-> 0, window |-> 0]
                       ELSE [isrs |-> it_count, window |-> window]
      BY <2>7 DEF IT!Finish, IT!finalize_isr_tax
    <3>2. it_report' \in [isrs : Nat, window : Nat]
      BY <3>1
    <3>3. RateInv' /\ InjectInv'
      BY <1>0, <2>7, <3>1 DEF IT!Finish
    <3>4. IT!TypeOK'
      BY <2>7, <3>2 DEF IT!Finish
    <3> QED
      BY <3>3, <3>4
  <2> QED
    BY <1>3, <2>1, <2>2, <2>3, <2>4, <2>5, <2>6, <2>7 DEF IT!Main
<1>4. CASE IT!Leave
  <2>1. 0 \in Nat /\ 0 \in 0 .. 0 /\ it_report' \in [isrs : Nat, window : Nat]
    BY <1>4 DEF IT!Leave
  <2> QED
    BY <1>0, <1>4, <2>1 DEF IT!Leave
<1>5. CASE IT!Expire
  BY <1>0, <1>5 DEF IT!Expire, IT!Due, IT!NextExpiry, IT!k_timer_start
<1>6. CASE IT!Tick
  BY <1>0, <1>6 DEF IT!Tick, IT!Due, IT!Elapse
<1>7. CASE UNCHANGED it
  BY <1>0, <1>7 DEF it
<1> QED
  BY <1>1, <1>2, <1>3, <1>4, <1>5, <1>6, <1>7 DEF IT!Next
-------------------------------------------------------------------------------
(* Cooperative fairness: main(), the timer's handler and the victim.       *)

Windows == {"sleep", "loop", "op"}

(* The timer runs in the two windows only; from a window's end until the   *)
(* next one opens there is nothing for the victim to do.                   *)
QuietInv ==
    /\ f_pc \notin Windows => f_timer = F!Off /\ f_sem = 0 /\ victim = "blocked"
    /\ f_pc # "out" => avg \in Averages
    /\ f_pc = "op" => f_i < repeats

(* The time of a window is the whole periods since its start and what has  *)
(* passed of the present one; the idle window is as long as the sleep, and *)
(* its count says how many periods that is.                                *)
SpanInv ==
    /\ f_pc \in Windows =>
          f_timer \in 0 .. VictimPeriod /\ span + f_timer = f_fires * VictimPeriod + VictimPeriod
    /\ f_pc = "sleep" => span + f_left = CoopWindow
    /\ f_pc = "idle_read" => span = CoopWindow /\ f_fires * VictimPeriod <= span
    /\ f_pc \in {"loop", "op", "op_read"} => idle_ticks * VictimPeriod <= CoopWindow
    /\ f_pc = "op_read" => span <= f_fires * VictimPeriod + VictimPeriod

FInv == F!TypeOK /\ F!WakesAreReleases /\ QuietInv /\ SpanInv /\ F!StarvationMeansShorterWindow

(* More periods take more time. *)
LEMMA MorePeriods ==
    ASSUME NEW a \in Nat, NEW b \in Nat, a < b
    PROVE  a * VictimPeriod + VictimPeriod <= b * VictimPeriod
<1>1. VictimPeriod \in Nat
  BY ProbeAssumption DEF F!FairnessAssumption
<1>2. PICK d \in Nat : b = a + 1 + d
  <2>1. b - (a + 1) \in Nat /\ b = a + 1 + (b - (a + 1))
    OBVIOUS
  <2> QED
    BY <2>1
<1>3. b * VictimPeriod = a * VictimPeriod + VictimPeriod + d * VictimPeriod
  BY <1>1, <1>2
<1>4. d * VictimPeriod \in Nat /\ a * VictimPeriod \in Nat
  BY <1>1
<1> QED
  BY <1>1, <1>3, <1>4

(* The index is a share of one, and less than one only when the operation  *)
(* window saw fewer releases than the idle one.                            *)
LEMMA Finalized ==
    ASSUME NEW idle \in Nat, NEW op \in Nat
    PROVE  LET r == F!finalize_fairness(idle, op)
           IN  /\ r \in [idle : Nat, op : Nat, share : Nat, of : Nat \ {0}]
               /\ r.share <= r.of /\ r.op = op
               /\ r.share < r.of => op < idle
BY DEF F!finalize_fairness, F!Cut

LEMMA RepeatsInNat == \A base \in Nat : F!cfcr_select_op_repeats(base) \in Nat
BY ProbeAssumption DEF F!FairnessAssumption, F!cfcr_select_op_repeats

LEMMA FInit == F!Init => FInv
<1> SUFFICES ASSUME F!Init PROVE FInv
  OBVIOUS
<1>1. F!TypeOK
  <2>1. /\ 0 \in Nat /\ 0 \in 0 .. 0
        /\ f_report \in [idle : Nat, op : Nat, share : Nat, of : Nat \ {0}]
        /\ f_report.share <= f_report.of
    BY DEF F!Init, F!zero_fairness_metrics
  <2> QED
    BY <2>1, Zenon DEF F!Init, F!TypeOK
<1>2. F!WakesAreReleases /\ QuietInv /\ SpanInv /\ F!StarvationMeansShorterWindow
  BY DEF F!Init, F!WakesAreReleases, QuietInv, SpanInv, Windows, F!StarvationMeansShorterWindow
<1> QED
  BY <1>1, <1>2 DEF FInv

LEMMA FTypeStep == FInv /\ (F!Next \/ UNCHANGED f) => F!TypeOK'
<1> SUFFICES ASSUME FInv, F!Next \/ UNCHANGED f PROVE F!TypeOK'
  OBVIOUS
<1> USE DEF F!TypeOK, F!zero_fairness_metrics, F!kernel, F!OpenWindow, F!k_sem_reset,
            F!WakesAtStart, F!k_timer_start, F!StopTimer, F!k_timer_stop, F!Off
<1>0. /\ VictimPeriod \in Nat \ {0} /\ CoopWindow \in Nat /\ Averages \subseteq Nat
      /\ \A base \in Averages : AverageDurations(base) \subseteq Nat
      /\ F!TypeOK /\ QuietInv /\ 0 \in Nat
  BY ProbeAssumption DEF F!FairnessAssumption, FInv
<1>1. CASE F!Start
  BY <1>0, <1>1 DEF F!Start
<1>2. CASE F!Main
  <2>1. CASE F!StopIdle
    BY <1>0, <2>1 DEF F!StopIdle
  <2>2. CASE F!ReadIdle
    BY <1>0, <2>2, RepeatsInNat DEF F!ReadIdle
  <2>3. CASE F!BeginOp
    <3>1. f_left' \in Nat
      BY <1>0, <2>3 DEF F!BeginOp, QuietInv
    <3> QED
      BY <1>0, <2>3, <3>1 DEF F!BeginOp
  <2>4. CASE F!OpSucceeds
    BY <1>0, <2>4 DEF F!OpSucceeds, F!NextIndex, QuietInv
  <2>5. CASE F!OpFails
    BY <1>0, <2>5 DEF F!OpFails
  <2>6. CASE F!StopOps
    BY <1>0, <2>6 DEF F!StopOps
  <2>7. CASE F!ReadOps
    BY <1>0, <2>7, Finalized DEF F!ReadOps
  <2> QED
    BY <1>2, <2>1, <2>2, <2>3, <2>4, <2>5, <2>6, <2>7 DEF F!Main
<1>3. CASE F!Leave
  BY <1>0, <1>3 DEF F!Leave
<1>4. CASE F!Expire
  BY <1>0, <1>4 DEF F!Expire, F!k_sem_give
<1>5. CASE F!Victim
  BY <1>0, <1>5 DEF F!Victim, F!VictimTakes, F!VictimCounts
<1>6. CASE F!Tick
  BY <1>0, <1>6 DEF F!Tick, F!Due, F!Elapse
<1>7. CASE UNCHANGED f
  BY <1>0, <1>7 DEF f
<1> QED
  BY <1>1, <1>2, <1>3, <1>4, <1>5, <1>6, <1>7 DEF F!Next

LEMMA FWakesStep == FInv /\ (F!Next \/ UNCHANGED f) => F!WakesAreReleases' /\ QuietInv'
<1> SUFFICES ASSUME FInv, F!Next \/ UNCHANGED f PROVE F!WakesAreReleases' /\ QuietInv'
  OBVIOUS
<1> USE DEF F!WakesAreReleases, QuietInv, Windows, F!kernel, F!OpenWindow, F!k_sem_reset,
            F!WakesAtStart, F!k_timer_start, F!StopTimer, F!k_timer_stop, F!Off, F!MainRuns
<1>0. /\ VictimPeriod \in Nat \ {0}
      /\ victim \in {"blocked", "counts"} /\ f_sem \in Nat /\ wakes \in Nat /\ f_fires \in Nat
      /\ repeats \in Nat /\ f_i \in 0 .. repeats
      /\ F!WakesAreReleases /\ QuietInv
  BY ProbeAssumption DEF F!FairnessAssumption, FInv, F!TypeOK
<1>1. CASE F!Start
  BY <1>0, <1>1 DEF F!Start
<1>2. CASE F!Main
  <2>1. CASE F!StopIdle
    BY <1>0, <2>1 DEF F!StopIdle
  <2>2. CASE F!ReadIdle
    BY <1>0, <2>2 DEF F!ReadIdle
  <2>3. CASE F!BeginOp
    BY <1>0, <2>3 DEF F!BeginOp
  <2>4. CASE F!OpSucceeds
    BY <1>0, <2>4 DEF F!OpSucceeds, F!NextIndex
  <2>5. CASE F!OpFails
    BY <1>0, <2>5 DEF F!OpFails
  <2>6. CASE F!StopOps
    BY <1>0, <2>6 DEF F!StopOps
  <2>7. CASE F!ReadOps
    BY <1>0, <2>7 DEF F!ReadOps
  <2> QED
    BY <1>2, <2>1, <2>2, <2>3, <2>4, <2>5, <2>6, <2>7 DEF F!Main
<1>3. CASE F!Leave
  BY <1>0, <1>3 DEF F!Leave
<1>4. CASE F!Expire
  BY <1>0, <1>4 DEF F!Expire, F!k_sem_give, F!Due
<1>5. CASE F!Victim
  BY <1>0, <1>5 DEF F!Victim, F!VictimTakes, F!VictimCounts
<1>6. CASE F!Tick
  BY <1>0, <1>6 DEF F!Tick
<1>7. CASE UNCHANGED f
  BY <1>0, <1>7 DEF f
<1> QED
  BY <1>1, <1>2, <1>3, <1>4, <1>5, <1>6, <1>7 DEF F!Next

LEMMA FSpanStep ==
    FInv /\ (F!Next \/ UNCHANGED f) => SpanInv' /\ F!StarvationMeansShorterWindow'
<1> SUFFICES ASSUME FInv, F!Next \/ UNCHANGED f
             PROVE  SpanInv' /\ F!StarvationMeansShorterWindow'
  OBVIOUS
<1> USE DEF SpanInv, Windows, F!StarvationMeansShorterWindow, F!kernel, F!OpenWindow,
            F!k_timer_start, F!StopTimer
<1>0. /\ VictimPeriod \in Nat \ {0} /\ CoopWindow \in Nat
      /\ f_left \in Nat /\ f_fires \in Nat /\ span \in Nat /\ idle_ticks \in Nat /\ wakes \in Nat
      /\ SpanInv /\ F!StarvationMeansShorterWindow
  BY ProbeAssumption DEF F!FairnessAssumption, FInv, F!TypeOK
<1>q. f_pc \notin Windows => wakes = f_fires
  BY DEF FInv, QuietInv, F!WakesAreReleases, F!TypeOK
<1>1. CASE F!Start
  BY <1>0, <1>1 DEF F!Start
<1>2. CASE F!Main
  <2>1. CASE F!StopIdle
    <3>1. f_fires * VictimPeriod \in Nat
      BY <1>0
    <3> QED
      BY <1>0, <2>1, <3>1 DEF F!StopIdle
  <2>2. CASE F!ReadIdle
    BY <1>0, <1>q, <2>2 DEF F!ReadIdle
  <2>3. CASE F!BeginOp
    BY <1>0, <2>3 DEF F!BeginOp
  <2>4. CASE F!OpSucceeds
    BY <1>0, <2>4 DEF F!OpSucceeds
  <2>5. CASE F!OpFails
    BY <1>0, <2>5 DEF F!OpFails, F!zero_fairness_metrics
  <2>6. CASE F!StopOps
    <3>1. f_fires * VictimPeriod \in Nat
      BY <1>0
    <3> QED
      BY <1>0, <2>6, <3>1 DEF F!StopOps
  <2>7. CASE F!ReadOps
    <3>1. f_report'.share < f_report'.of => f_fires < idle_ticks
      BY <1>0, <1>q, <2>7, Finalized DEF F!ReadOps
    <3>2. f_fires < idle_ticks => span <= CoopWindow
      <4>1. f_fires * VictimPeriod \in Nat /\ idle_ticks * VictimPeriod \in Nat
        BY <1>0
      <4> QED
        BY <1>0, <2>7, <4>1, MorePeriods DEF F!ReadOps
    <3> QED
      BY <2>7, <3>1, <3>2 DEF F!ReadOps
  <2> QED
    BY <1>2, <2>1, <2>2, <2>3, <2>4, <2>5, <2>6, <2>7 DEF F!Main
<1>3. CASE F!Leave
  BY <1>0, <1>3 DEF F!Leave
<1>4. CASE F!Expire
  <2>1. f_pc \in Windows
    BY <1>4 DEF F!Expire, F!Due, FInv, QuietInv, F!Off
  <2> QED
    BY <1>0, <1>4, <2>1 DEF F!Expire, F!Due
<1>5. CASE F!Victim
  BY <1>0, <1>5 DEF F!Victim, F!VictimTakes, F!VictimCounts
<1>6. CASE F!Tick
  BY <1>0, <1>6 DEF F!Tick, F!Due, F!Elapse
<1>7. CASE UNCHANGED f
  BY <1>0, <1>7 DEF f
<1> QED
  BY <1>1, <1>2, <1>3, <1>4, <1>5, <1>6, <1>7 DEF F!Next

LEMMA FStep == FInv /\ (F!Next \/ UNCHANGED f) => FInv'
BY FTypeStep, FWakesStep, FSpanStep DEF FInv
-------------------------------------------------------------------------------
(* Order statistics: what sort_u64 leaves at an index exists, and a larger *)
(* index has no smaller sample.                                            *)

(* Every non-empty set of numbers has a least one.                         *)
LEMMA LeastNumber ==
    ASSUME NEW S, S \subseteq Nat, S # {}
    PROVE  \E least \in S : \A x \in S : least <= x
<1>1. PICK least \in S : \A x \in S : ~ (<<x, least>> \in OpToRel(<, Nat))
  BY NatLessThanWellFounded, WFMin
<1>2. \A x \in S : ~ (x < least)
  BY <1>1 DEF OpToRel
<1> QED
  BY <1>2

(* The samples up to, and below, a value. *)
UpTo(s, v) == {j \in 1 .. Len(s) : s[j] <= v}
Below(s, v) == {j \in 1 .. Len(s) : s[j] < v}

(* The places of small and of large samples can be counted.                *)
LEMMA CountsOfSamples ==
    ASSUME NEW s, Len(s) \in Nat, NEW v
    PROVE  /\ IsFiniteSet(UpTo(s, v)) /\ Cardinality(UpTo(s, v)) \in Nat
           /\ IsFiniteSet(Below(s, v)) /\ Cardinality(Below(s, v)) \in Nat
<1>1. IsFiniteSet(1 .. Len(s))
  BY FS_Interval
<1>2. UpTo(s, v) \in SUBSET (1 .. Len(s)) /\ Below(s, v) \in SUBSET (1 .. Len(s))
  BY DEF UpTo, Below
<1>3. IsFiniteSet(UpTo(s, v)) /\ IsFiniteSet(Below(s, v))
  BY <1>1, <1>2, FS_Subset
<1> QED
  BY <1>3, FS_CardinalityType

(* The probe's module has a copy of its own of Cardinality.                *)
LEMMA SameCardinality == \A S : RJ!Cardinality(S) = Cardinality(S)
BY DEF RJ!Cardinality, Cardinality

(* There is a sample for every index.                                      *)
LEMMA SortedAtExists ==
    ASSUME NEW s \in Seq(0 .. Width - 1), NEW at \in 0 .. Len(s) - 1
    PROVE  /\ \E j \in 1 .. Len(s) : RJ!SortedAt(s, at) = s[j]
           /\ Cardinality(Below(s, RJ!SortedAt(s, at))) <= at
           /\ Cardinality(UpTo(s, RJ!SortedAt(s, at))) > at
<1> DEFINE Enough == {x \in Nat : Cardinality(UpTo(s, x)) > at}
<1>0. Width \in Nat \ {0} /\ Len(s) \in Nat /\ \A j \in 1 .. Len(s) : s[j] \in 0 .. Width - 1
  BY ProbeAssumption DEF RJ!ReleaseAssumption
<1>1. Width - 1 \in Enough
  <2>1. UpTo(s, Width - 1) = 1 .. Len(s)
    BY <1>0 DEF UpTo
  <2>2. Cardinality(1 .. Len(s)) = Len(s)
    <3>1. Cardinality(1 .. Len(s)) = IF 1 > Len(s) THEN 0 ELSE Len(s) - 1 + 1
      <4>1. 1 \in Int /\ Len(s) \in Int
        BY <1>0
      <4> QED
        BY <4>1, FS_Interval, Zenon
    <3> QED
      BY <1>0, <3>1
  <2> QED
    BY <1>0, <2>1, <2>2
<1>2. PICK v \in Enough : \A x \in Enough : v <= x
  <2> HIDE DEF Enough
  <2>1. Enough \subseteq Nat
    BY DEF Enough
  <2> QED
    BY <1>1, <2>1, LeastNumber
<1>3. Cardinality(Below(s, v)) <= at
  <2>1. CASE v = 0
    <3>1. Below(s, v) = {}
      BY <1>0, <2>1 DEF Below
    <3> QED
      BY <3>1, FS_EmptySet
  <2>2. CASE v # 0
    <3>1. v - 1 \in Nat /\ v - 1 \notin Enough
      BY <1>2, <2>2
    <3>2. Below(s, v) = UpTo(s, v - 1)
      BY <1>0, <1>2, <2>2 DEF Below, UpTo
    <3> QED
      BY <1>0, <3>1, <3>2, CountsOfSamples
  <2> QED
    BY <2>1, <2>2
<1>4. \E j \in 1 .. Len(s) : s[j] = v
  <2> SUFFICES ASSUME \A j \in 1 .. Len(s) : s[j] # v PROVE FALSE
    OBVIOUS
  <2>1. UpTo(s, v) = Below(s, v)
    BY <1>0, <1>2 DEF UpTo, Below
  <2> QED
    BY <1>0, <1>2, <1>3, <2>1, CountsOfSamples
<1>5. /\ v \in {s[j] : j \in 1 .. Len(s)}
      /\ Cardinality(Below(s, v)) <= at /\ Cardinality(UpTo(s, v)) > at
  BY <1>2, <1>3, <1>4
<1> HIDE DEF Enough
<1> DEFINE Samples == {s[j] : j \in 1 .. Len(s)}
           Is(w) == /\ RJ!Cardinality({j \in 1 .. Len(s) : s[j] < w}) <= at
                    /\ RJ!Cardinality({j \in 1 .. Len(s) : s[j] <= w}) > at
<1>6. RJ!SortedAt(s, at) = CHOOSE w \in Samples : Is(w)
  BY Zenon DEF RJ!SortedAt
<1>7. v \in Samples /\ Is(v)
  BY <1>5, SameCardinality DEF Below, UpTo
<1> HIDE DEF Samples, Is
<1>8. /\ (CHOOSE w \in Samples : Is(w)) \in Samples
      /\ Is(CHOOSE w \in Samples : Is(w))
  BY <1>7, Zenon
<1>9. RJ!SortedAt(s, at) \in Samples /\ Is(RJ!SortedAt(s, at))
  BY <1>6, <1>8
<1> QED
  BY <1>9, SameCardinality DEF Samples, Is, Below, UpTo

(* A larger index has no smaller sample.                                   *)
LEMMA SortedInOrder ==
    ASSUME NEW s \in Seq(0 .. Width - 1), NEW a \in 0 .. Len(s) - 1, NEW b \in 0 .. Len(s) - 1,
           a <= b
    PROVE  RJ!SortedAt(s, a) <= RJ!SortedAt(s, b)
<1> DEFINE u == RJ!SortedAt(s, a)
           v == RJ!SortedAt(s, b)
<1>0. Len(s) \in Nat /\ \A j \in 1 .. Len(s) : s[j] \in Int
  BY ProbeAssumption DEF RJ!ReleaseAssumption
<1>1. /\ u \in Int /\ v \in Int
      /\ Cardinality(Below(s, u)) <= a /\ Cardinality(UpTo(s, v)) > b
  BY <1>0, SortedAtExists
<1> HIDE DEF u, v
<1>2. SUFFICES ASSUME v < u PROVE FALSE
  BY <1>1 DEF u, v
<1>3. UpTo(s, v) \in SUBSET Below(s, u)
  BY <1>0, <1>1, <1>2 DEF UpTo, Below
<1>4. Cardinality(UpTo(s, v)) <= Cardinality(Below(s, u))
  BY <1>0, <1>3, CountsOfSamples, FS_Subset
<1> QED
  BY <1>0, <1>1, <1>4, CountsOfSamples

(* What finalize_prjp makes of a batch. *)
LEMMA FinalizedBatch ==
    ASSUME NEW s \in Seq(0 .. Width - 1), Len(s) > 0, NEW overrun \in Nat
    PROVE  LET r == RJ!finalize_prjp(s, overrun)
           IN  /\ r \in RJ!Reports
               /\ r.samples = Len(s) /\ r.p50 <= r.p99 /\ r.jitter = r.p99 - r.p50
<1> DEFINE a == (50 * (Len(s) - 1) * 2 + 100) \div 200
           b == (99 * (Len(s) - 1) * 2 + 100) \div 200
           u == RJ!SortedAt(s, a)
           v == RJ!SortedAt(s, b)
<1>1. /\ Len(s) \in Nat /\ Width \in Nat \ {0}
      /\ \A j \in 1 .. Len(s) : s[j] \in 0 .. Width - 1
  BY ProbeAssumption DEF RJ!ReleaseAssumption
<1>2. a \in 0 .. Len(s) - 1 /\ b \in 0 .. Len(s) - 1 /\ a <= b
  BY <1>1
<1> HIDE DEF a, b
<1>3. u \in 0 .. Width - 1 /\ v \in 0 .. Width - 1 /\ u <= v
  BY <1>1, <1>2, SortedAtExists, SortedInOrder
<1>4. RJ!pick_percentile(s, 50) = u /\ RJ!pick_percentile(s, 99) = v
  BY DEF RJ!pick_percentile, a, b
<1>5. RJ!finalize_prjp(s, overrun)
        = [samples |-> Len(s), p50 |-> u, p99 |-> v,
           jitter |-> IF v > u THEN v - u ELSE 0, overruns |-> overrun]
  BY <1>4 DEF RJ!finalize_prjp
<1> HIDE DEF u, v
<1>6. (IF v > u THEN v - u ELSE 0) = v - u /\ v - u \in 0 .. Width - 1
  BY <1>1, <1>3
<1> QED
  BY <1>1, <1>3, <1>5, <1>6 DEF RJ!Reports
-------------------------------------------------------------------------------
(* Release jitter: main() and the timer's handler.                         *)

Sampling == rj_pc \notin {"idle", "returned"}

(* While a probe samples, its timer runs; when it does not, the timer is   *)
(* stopped and the buffer freed, and an idle probe has taken nothing.      *)
TimerInv ==
    /\ Sampling => rj_timer \in 0 .. ReleasePeriod
    /\ RJ!NothingRunsOn
    /\ rj_pc = "idle" => taken = 0 /\ lat = <<>>
    /\ rj_pc # "returned" => rj_report.samples = 0

(* A take that has to wait is over before it times out: the next expiry    *)
(* comes first.                                                            *)
WaitInv == rj_pc = "take" /\ rj_sem = 0 => rj_timer < wait

(* Each sample has its take and its operation.                             *)
BatchInv ==
    /\ Sampling => batch > 0
    /\ rj_pc \in {"count", "take"} => taken = rj_i
    /\ rj_pc \in {"taken", "stamp", "op"} => taken = rj_i + 1 /\ rj_i < batch
    /\ rj_pc = "take" => rj_i < batch

RjInv ==
    RJ!TypeOK /\ TimerInv /\ RJ!TakesAreReleases /\ WaitInv /\ BatchInv /\ RJ!ReportIsTheBatch

LEMMA NoMetrics ==
    ASSUME RJ!ReleaseAssumption
    PROVE  RJ!zero_release_jitter_metrics \in RJ!Reports /\ RJ!zero_release_jitter_metrics.samples = 0
BY DEF RJ!zero_release_jitter_metrics, RJ!Reports, RJ!ReleaseAssumption

LEMMA EmptyBatch == <<>> \in Seq(0 .. Width - 1) /\ Len(<<>>) = 0
OBVIOUS

(* No samples, and no report. *)
NoSamples == lat = <<>> /\ taken = 0 /\ rj_pc \notin {"taken", "stamp"} /\ rj_report.samples = 0

LEMMA NothingSampled == NoSamples => RJ!ReportIsTheBatch
<1> SUFFICES ASSUME NoSamples PROVE RJ!ReportIsTheBatch
  OBVIOUS
<1> USE DEF NoSamples
<1>1. ~(rj_report.samples > 0)
  OBVIOUS
<1>2. (IF rj_pc \in {"taken", "stamp"} THEN 1 ELSE 0) = 0
  OBVIOUS
<1>3. taken - 0 = Len(<<>>)
  BY EmptyBatch
<1>4. Len(lat) = taken - (IF rj_pc \in {"taken", "stamp"} THEN 1 ELSE 0)
  BY <1>2, <1>3, Zenon
<1> QED
  BY <1>1, <1>4, Zenon DEF RJ!ReportIsTheBatch

LEMMA RjInit == RJ!Init => RjInv
<1> SUFFICES ASSUME RJ!Init PROVE RjInv
  OBVIOUS
<1>0. RJ!ReleaseAssumption
  BY ProbeAssumption
<1>1. RJ!TypeOK
  <2>1. 0 \in Nat /\ 0 \in 0 .. 0 /\ 0 \in 0 .. Width - 1 /\ 0 \in 0 .. Timeout /\ 0 \in 0 .. Slack
    BY <1>0 DEF RJ!ReleaseAssumption
  <2> QED
    BY <1>0, <2>1, NoMetrics, EmptyBatch, Zenon DEF RJ!Init, RJ!TypeOK
<1>2. TimerInv
  BY <1>0, NoMetrics DEF RJ!Init, TimerInv, Sampling, RJ!NothingRunsOn
<1>3. RJ!TakesAreReleases /\ WaitInv /\ BatchInv
  BY DEF RJ!Init, Sampling, RJ!TakesAreReleases, WaitInv, BatchInv
<1>4. RJ!ReportIsTheBatch
  <2>1. NoSamples
    BY <1>0, NoMetrics DEF RJ!Init, NoSamples
  <2> QED
    BY <2>1, NothingSampled
<1> QED
  BY <1>1, <1>2, <1>3, <1>4 DEF RjInv

LEMMA RjTypeStep == RjInv /\ (RJ!Next \/ UNCHANGED rj) => RJ!TypeOK'
<1> SUFFICES ASSUME RjInv, RJ!Next \/ UNCHANGED rj PROVE RJ!TypeOK'
  OBVIOUS
<1> USE DEF RJ!TypeOK, RJ!Off, RJ!k_timer_start, RJ!k_timer_stop, RJ!StopTimer
<1>0. /\ ReleasePeriod \in Nat \ {0} /\ Timeout \in Nat /\ Slack \in Nat /\ Width \in Nat \ {0}
      /\ Batches \subseteq Nat \ {0} /\ Durations \subseteq Nat
      /\ RJ!TypeOK /\ RJ!ReleaseAssumption
  BY ProbeAssumption DEF RJ!ReleaseAssumption, RjInv
<1>1. CASE RJ!Start
  <2>1. batch' \in Nat /\ rj_i' \in 0 .. batch' /\ 0 \in 0 .. Width - 1 /\ slack' \in 0 .. Slack
    BY <1>0, <1>1 DEF RJ!Start, RJ!select_prjp_batch
  <2> QED
    BY <1>0, <1>1, <2>1, NoMetrics, EmptyBatch DEF RJ!Start, RJ!SemAtStart, RJ!k_sem_reset
<1>2. CASE RJ!StartFails
  BY <1>0, <1>2, NoMetrics DEF RJ!StartFails
<1>3. CASE RJ!Expire
  BY <1>0, <1>3 DEF RJ!Expire, RJ!k_sem_give, RJ!NextExpiry
<1>4. CASE RJ!Probe
  <2>1. CASE RJ!CountPending
    <3>1. overruns' \in Nat /\ wait' \in 0 .. Timeout
      BY <1>0, <2>1 DEF RJ!CountPending
    <3> QED
      BY <1>0, <2>1, <3>1 DEF RJ!CountPending
  <2>2. CASE RJ!Take
    BY <1>0, <2>2 DEF RJ!Take
  <2>3. CASE RJ!ReadClock
    BY <1>0, <2>3 DEF RJ!ReadClock
  <2>4. CASE RJ!ReadStamp
    <3>1. RJ!Since(take_lo, last_release) \in 0 .. Width - 1
      BY <1>0 DEF RJ!Since
    <3>2. lat' \in Seq(0 .. Width - 1) /\ busy' \in Nat
      BY <1>0, <2>4, <3>1 DEF RJ!ReadStamp
    <3> QED
      BY <1>0, <2>4, <3>2 DEF RJ!ReadStamp
  <2>5. CASE RJ!OpSucceeds
    <3>1. rj_i' \in 0 .. batch' /\ slack' \in 0 .. Slack
      BY <1>0, <2>5 DEF RJ!OpSucceeds, RJ!OpReturned, RjInv, BatchInv
    <3> QED
      BY <1>0, <2>5, <3>1 DEF RJ!OpSucceeds
  <2>6. CASE RJ!Abandon
    BY <1>0, <2>6, NoMetrics DEF RJ!Abandon, RJ!AfterFailure
  <2>7. CASE RJ!Finish
    <3>1. Len(lat) = batch /\ batch > 0
      BY <1>0, <2>7 DEF RJ!Finish, RJ!BatchDone, RjInv, Sampling, BatchInv, RJ!ReportIsTheBatch
    <3>2. rj_report' \in RJ!Reports
      BY <1>0, <2>7, <3>1, FinalizedBatch DEF RJ!Finish
    <3> QED
      BY <1>0, <2>7, <3>2 DEF RJ!Finish
  <2> QED
    BY <1>4, <2>1, <2>2, <2>3, <2>4, <2>5, <2>6, <2>7 DEF RJ!Probe
<1>5. CASE RJ!Leave
  <2>1. 0 \in Nat /\ 0 \in 0 .. 0 /\ 0 \in 0 .. Width - 1 /\ 0 \in 0 .. Timeout /\ 0 \in 0 .. Slack
    BY <1>0
  <2> QED
    BY <1>0, <1>5, <2>1, NoMetrics, EmptyBatch DEF RJ!Leave
<1>6. CASE RJ!Tick
  <2>1. /\ clock' \in 0 .. Width - 1 /\ wait' \in 0 .. Timeout
        /\ busy' \in Nat /\ slack' \in 0 .. Slack
    <3>1. clock' \in 0 .. Width - 1
      BY <1>0, <1>6 DEF RJ!Tick
    <3>2. wait' \in 0 .. Timeout /\ busy' \in Nat /\ slack' \in 0 .. Slack
      BY <1>0, <1>6 DEF RJ!Tick, RJ!Blocked, RJ!Busy
    <3> QED
      BY <3>1, <3>2
  <2>2. rj_timer' \in {-1} \cup 0 .. ReleasePeriod
    BY <1>0, <1>6 DEF RJ!Tick, RJ!Elapse, RJ!Due
  <2> QED
    BY <1>0, <1>6, <2>1, <2>2 DEF RJ!Tick
<1>7. CASE UNCHANGED rj
  BY <1>0, <1>7 DEF rj
<1> QED
  BY <1>1, <1>2, <1>3, <1>4, <1>5, <1>6, <1>7 DEF RJ!Next

LEMMA RjTimerStep == RjInv /\ (RJ!Next \/ UNCHANGED rj) => TimerInv' /\ WaitInv'
<1> SUFFICES ASSUME RjInv, RJ!Next \/ UNCHANGED rj PROVE TimerInv' /\ WaitInv'
  OBVIOUS
<1> USE DEF TimerInv, WaitInv, Sampling, RJ!NothingRunsOn, RJ!k_timer_start, RJ!k_timer_stop,
            RJ!StopTimer, RJ!zero_release_jitter_metrics
<1>0. /\ ReleasePeriod \in Nat \ {0} /\ Timeout \in Nat /\ Timeout > ReleasePeriod
      /\ rj_sem \in Nat /\ wait \in Nat
      /\ TimerInv /\ WaitInv
  BY ProbeAssumption DEF RJ!ReleaseAssumption, RjInv, RJ!TypeOK
<1>1. CASE RJ!Start
  BY <1>0, <1>1 DEF RJ!Start
<1>2. CASE RJ!StartFails
  BY <1>0, <1>2 DEF RJ!StartFails
<1>3. CASE RJ!Expire
  <2>1. rj_pc \notin {"idle", "returned"}
    BY <1>0, <1>3 DEF RJ!Expire, RJ!Due, RJ!Off
  <2> QED
    BY <1>0, <1>3, <2>1 DEF RJ!Expire, RJ!k_sem_give, RJ!NextExpiry
<1>4. CASE RJ!Probe
  <2>1. CASE RJ!CountPending
    BY <1>0, <2>1 DEF RJ!CountPending
  <2>2. CASE RJ!Take
    BY <1>0, <2>2 DEF RJ!Take
  <2>3. CASE RJ!ReadClock
    BY <1>0, <2>3 DEF RJ!ReadClock
  <2>4. CASE RJ!ReadStamp
    BY <1>0, <2>4 DEF RJ!ReadStamp
  <2>5. CASE RJ!OpSucceeds
    BY <1>0, <2>5 DEF RJ!OpSucceeds, RJ!OpReturned
  <2>6. CASE RJ!Abandon
    <3>1. rj_pc \in {"take", "op"}
      BY <2>6 DEF RJ!Abandon, RJ!MayFail, RJ!TakeTimedOut, RJ!OpReturned
    <3> QED
      BY <1>0, <2>6, <3>1 DEF RJ!Abandon, RJ!AfterFailure
  <2>7. CASE RJ!Finish
    BY <1>0, <2>7 DEF RJ!Finish
  <2> QED
    BY <1>4, <2>1, <2>2, <2>3, <2>4, <2>5, <2>6, <2>7 DEF RJ!Probe
<1>5. CASE RJ!Leave
  BY <1>0, <1>5 DEF RJ!Leave
<1>6. CASE RJ!Tick
  <2>1. rj_timer' \in 0 .. ReleasePeriod
    BY <1>0, <1>6 DEF RJ!Tick, RJ!Elapse, RJ!Due
  <2>2. WaitInv'
    BY <1>0, <1>6 DEF RJ!Tick, RJ!Elapse, RJ!Due, RJ!Blocked, RJ!Busy
  <2> QED
    BY <1>0, <1>6, <2>1, <2>2 DEF RJ!Tick
<1>7. CASE UNCHANGED rj
  BY <1>0, <1>7 DEF rj
<1> QED
  BY <1>1, <1>2, <1>3, <1>4, <1>5, <1>6, <1>7 DEF RJ!Next

LEMMA RjBatchStep ==
    RjInv /\ (RJ!Next \/ UNCHANGED rj)
        => RJ!TakesAreReleases' /\ BatchInv' /\ RJ!ReportIsTheBatch'
<1> SUFFICES ASSUME RjInv, RJ!Next \/ UNCHANGED rj
             PROVE  RJ!TakesAreReleases' /\ BatchInv' /\ RJ!ReportIsTheBatch'
  OBVIOUS
<1> USE DEF RJ!TakesAreReleases, BatchInv, RJ!ReportIsTheBatch, Sampling
<1>0. /\ Batches \subseteq Nat \ {0}
      /\ rj_sem \in Nat /\ taken \in Nat /\ rj_fires \in Nat /\ batch \in Nat
      /\ rj_i \in 0 .. batch /\ overruns \in Nat
      /\ lat \in Seq(0 .. Width - 1) /\ Len(lat) \in Nat
      /\ RJ!TakesAreReleases /\ BatchInv /\ RJ!ReportIsTheBatch
      /\ RJ!ReleaseAssumption
  BY ProbeAssumption DEF RJ!ReleaseAssumption, RjInv, RJ!TypeOK
<1>r. rj_pc # "returned" => rj_report.samples = 0
  BY DEF RjInv, TimerInv
<1>1. CASE RJ!Start
  <2>1. NoSamples'
    BY <1>0, <1>1, NoMetrics DEF RJ!Start, NoSamples
  <2>2. RJ!TakesAreReleases' /\ BatchInv'
    BY <1>0, <1>1 DEF RJ!Start, RJ!select_prjp_batch, RJ!SemAtStart, RJ!k_sem_reset
  <2>3. RJ!ReportIsTheBatch'
    BY <2>1, NothingSampled, PTL
  <2> QED
    BY <2>2, <2>3
<1>2. CASE RJ!StartFails
  BY <1>0, <1>2, NoMetrics DEF RJ!StartFails
<1>3. CASE RJ!Expire
  <2>1. rj_pc \notin {"idle", "returned"}
    BY <1>0, <1>3 DEF RJ!Expire, RJ!Due, RJ!Off, RjInv, TimerInv, RJ!NothingRunsOn
  <2> QED
    BY <1>0, <1>r, <1>3, <2>1 DEF RJ!Expire, RJ!k_sem_give
<1>4. CASE RJ!Probe
  <2>1. CASE RJ!CountPending
    BY <1>0, <1>r, <2>1 DEF RJ!CountPending, RJ!BatchDone
  <2>2. CASE RJ!Take
    BY <1>0, <1>r, <2>2 DEF RJ!Take
  <2>3. CASE RJ!ReadClock
    BY <1>0, <1>r, <2>3 DEF RJ!ReadClock
  <2>4. CASE RJ!ReadStamp
    <3>1. RJ!Since(take_lo, last_release) \in 0 .. Width - 1
      BY <1>0 DEF RJ!Since, RjInv, RJ!TypeOK, RJ!ReleaseAssumption
    <3>2. Len(lat') = Len(lat) + 1
      BY <1>0, <2>4, <3>1 DEF RJ!ReadStamp
    <3> QED
      BY <1>0, <1>r, <2>4, <3>2 DEF RJ!ReadStamp
  <2>5. CASE RJ!OpSucceeds
    BY <1>0, <1>r, <2>5 DEF RJ!OpSucceeds, RJ!OpReturned
  <2>6. CASE RJ!Abandon
    <3>1. rj_pc \in {"take", "op"}
      BY <2>6 DEF RJ!Abandon, RJ!MayFail, RJ!TakeTimedOut, RJ!OpReturned
    <3> QED
      BY <1>0, <2>6, <3>1, NoMetrics DEF RJ!Abandon, RJ!AfterFailure
  <2>7. CASE RJ!Finish
    <3>1. Len(lat) = batch /\ batch > 0
      BY <1>0, <2>7 DEF RJ!Finish, RJ!BatchDone
    <3>2. /\ rj_report'.samples = Len(lat) /\ rj_report'.p50 <= rj_report'.p99
          /\ rj_report'.jitter = rj_report'.p99 - rj_report'.p50
      BY <1>0, <2>7, <3>1, FinalizedBatch DEF RJ!Finish
    <3> QED
      BY <1>0, <2>7, <3>1, <3>2 DEF RJ!Finish
  <2> QED
    BY <1>4, <2>1, <2>2, <2>3, <2>4, <2>5, <2>6, <2>7 DEF RJ!Probe
<1>5. CASE RJ!Leave
  <2>1. NoSamples'
    BY <1>0, <1>5, NoMetrics DEF RJ!Leave, NoSamples
  <2>2. RJ!TakesAreReleases' /\ BatchInv'
    BY <1>5 DEF RJ!Leave
  <2>3. RJ!ReportIsTheBatch'
    BY <2>1, NothingSampled, PTL
  <2> QED
    BY <2>2, <2>3
<1>6. CASE RJ!Tick
  BY <1>0, <1>r, <1>6 DEF RJ!Tick
<1>7. CASE UNCHANGED rj
  BY <1>0, <1>7 DEF rj
<1> QED
  BY <1>1, <1>2, <1>3, <1>4, <1>5, <1>6, <1>7 DEF RJ!Next

LEMMA RjStep == RjInv /\ (RJ!Next \/ UNCHANGED rj) => RjInv'
BY RjTypeStep, RjTimerStep, RjBatchStep DEF RjInv
-------------------------------------------------------------------------------
(* The sequence: only the stage's own probe is under way.                  *)

StageInv ==
    /\ stage \in {"row", "rtos", "isr", "fairness", "release"}
    /\ stage # "rtos" => rs_pc = "out"
    /\ stage # "isr" => it_pc = "out"
    /\ stage # "fairness" => f_pc = "out"
    /\ stage # "release" => rj_pc = "idle"

IInv == StageInv /\ RsInv /\ ItInv /\ FInv /\ RjInv

LEMMA StageInit == Init => StageInv
BY DEF Init, RS!Init, IT!Init, F!Init, RJ!Init, StageInv

(* Every step of the sequence is one of each probe's own, or leaves it     *)
(* alone.                                                                  *)
LEMMA OwnSteps ==
    [Next]_vars => /\ RS!Next \/ UNCHANGED rs
                   /\ IT!Next \/ UNCHANGED it
                   /\ F!Next \/ UNCHANGED f
                   /\ RJ!Next \/ UNCHANGED rj
<1> SUFFICES ASSUME [Next]_vars
             PROVE  /\ RS!Next \/ UNCHANGED rs
                    /\ IT!Next \/ UNCHANGED it
                    /\ F!Next \/ UNCHANGED f
                    /\ RJ!Next \/ UNCHANGED rj
  OBVIOUS
<1> USE DEF RS!Next, IT!Next, F!Next, RJ!Next
<1>1. CASE EnterThrottle
  BY <1>1, Zenon DEF EnterThrottle
<1>2. CASE measure_rtos_interference
  BY <1>2, Zenon DEF measure_rtos_interference
<1>3. CASE measure_isr_tax
  BY <1>3, Zenon DEF measure_isr_tax
<1>4. CASE measure_fairness
  BY <1>4, Zenon DEF measure_fairness
<1>5. CASE measure_release_jitter
  BY <1>5, Zenon DEF measure_release_jitter
<1>6. CASE Worker
  BY <1>6, Zenon DEF Worker
<1>7. CASE Victim
  BY <1>7, Zenon DEF Victim
<1>8. CASE Expire
  BY <1>8, Zenon DEF Expire
<1>9. CASE Tick
  BY <1>9, Zenon DEF Tick
<1>10. CASE UNCHANGED vars
  BY <1>10, Zenon DEF vars
<1> QED
  BY <1>1, <1>2, <1>3, <1>4, <1>5, <1>6, <1>7, <1>8, <1>9, <1>10, Zenon DEF Next, Main

(* A probe is entered and left in its own stage.                           *)
LEMMA StageStep == StageInv /\ [Next]_vars => StageInv'
<1> SUFFICES ASSUME StageInv, [Next]_vars PROVE StageInv'
  OBVIOUS
<1> USE DEF StageInv, rs, it, f, rj
<1>1. CASE EnterThrottle
  BY <1>1 DEF EnterThrottle
<1>2. CASE measure_rtos_interference
  BY <1>2 DEF measure_rtos_interference, RS!Leave
<1>3. CASE measure_isr_tax
  BY <1>3 DEF measure_isr_tax, IT!Leave
<1>4. CASE measure_fairness
  BY <1>4 DEF measure_fairness, F!Leave
<1>5. CASE measure_release_jitter
  BY <1>5 DEF measure_release_jitter, RJ!Leave, AfterProbes
<1>6. CASE Worker
  <2>1. rs_pc' = rs_pc
    BY <1>6 DEF Worker, RS!Worker, RS!SleepsOn, RS!Works, RS!Rests, RS!main
  <2> QED
    BY <1>6, <2>1 DEF Worker
<1>7. CASE Victim
  <2>1. f_pc' = f_pc
    BY <1>7 DEF Victim, F!Victim, F!VictimTakes, F!VictimCounts
  <2> QED
    BY <1>7, <2>1 DEF Victim
<1>8. CASE Expire
  BY <1>8 DEF Expire, IT!Expire, F!Expire, RJ!Expire
<1>9. CASE Tick
  BY <1>9 DEF Tick, RS!Tick, IT!Tick, F!Tick, RJ!Tick
<1>10. CASE UNCHANGED vars
  BY <1>10 DEF vars
<1> QED
  BY <1>1, <1>2, <1>3, <1>4, <1>5, <1>6, <1>7, <1>8, <1>9, <1>10 DEF Next, Main

(* What every reachable state satisfies, for any values of the constants.  *)
THEOREM Invariance == Spec => []IInv
<1>1. Init => IInv
  BY StageInit, RsInit, ItInit, FInit, RjInit DEF Init, IInv
<1>2. IInv /\ [Next]_vars => IInv'
  BY OwnSteps, StageStep, RsStep, ItStep, FStep, RjStep DEF IInv
<1> QED
  BY <1>1, <1>2, PTL DEF Spec
-------------------------------------------------------------------------------
(* Every variable stays in its type, for any periods and sample counts;    *)
(* the reports' percentiles are among the samples.                         *)
THEOREM TypeCorrect == Spec => []TypeOK
<1>1. IInv => TypeOK
  BY DEF IInv, StageInv, RsInv, ItInv, FInv, RjInv, TypeOK
<1> QED
  BY <1>1, Invariance, PTL

(* Outside of its own stage a probe has no timer that runs, no buffer, no  *)
(* release for the victim, and the worker does nothing but sleep, whatever *)
(* failed before and whatever the lengths of the operations.               *)
THEOREM ProbesAreApart == Spec => []OnlyOneProbeAtATime
<1>1. IInv => OnlyOneProbeAtATime
  <2> SUFFICES ASSUME IInv PROVE OnlyOneProbeAtATime
    OBVIOUS
  <2>1. /\ RS!WorksOnlyInItsWindow
        /\ stage # "rtos" => RS!NothingRunsOn /\ worker # "working"
    BY DEF IInv, StageInv, RsInv, RS!TypeOK, SwitchInv, RS!WorksOnlyInItsWindow, RS!NothingRunsOn
  <2>2. stage # "isr" => IT!NothingRunsOn
    BY DEF IInv, StageInv, ItInv, InjectInv, Timed, IT!NothingRunsOn
  <2>3. stage # "fairness" => F!NothingRunsOn
    BY DEF IInv, StageInv, FInv, QuietInv, Windows, F!NothingRunsOn
  <2>4. stage # "release" => RJ!NothingRunsOn
    BY DEF IInv, RjInv, TimerInv
  <2> QED
    BY <2>1, <2>2, <2>3, <2>4 DEF OnlyOneProbeAtATime
<1> QED
  BY <1>1, Invariance, PTL

(* A settle time as long as the worker's sleep is enough, at any phase.    *)
THEOREM StressIsUnderWay == Spec => []StressBeforeSampling
<1>1. IInv => StressBeforeSampling
  BY DEF IInv, RsInv, SettleInv, StressBeforeSampling, RS!StressBeforeSampling
<1> QED
  BY <1>1, Invariance, PTL

(* The activations, the interrupt rate and the batch that are reported are *)
(* those of the probe's own window, for any periods.                       *)
THEOREM ReportsAreTrue == Spec => []ReportsAreTheWindows
<1>1. IInv => ReportsAreTheWindows
  <2> SUFFICES ASSUME IInv PROVE ReportsAreTheWindows
    OBVIOUS
  <2>1. RS!ReportIsTheWindow
    BY DEF IInv, RsInv, ActivationsInv, RS!ReportIsTheWindow
  <2>2. IT!RateIsTheTimers
    <3>1. /\ it_report.isrs \in Nat /\ IsrPeriod \in Nat
          /\ (it_report.isrs + 1) * IsrPeriod = it_report.isrs * IsrPeriod + IsrPeriod
      BY ProbeAssumption DEF IInv, ItInv, IT!TypeOK, IT!IsrTaxAssumption
    <3> QED
      BY <3>1 DEF IInv, ItInv, RateInv, IT!RateIsTheTimers
  <2> QED
    BY <2>1, <2>2 DEF IInv, RjInv, ReportsAreTheWindows
<1> QED
  BY <1>1, Invariance, PTL

(* No release of a window is lost or taken over from the one before.       *)
THEOREM WakesAreOfTheWindow == Spec => []WakesAreReleases
<1>1. IInv => WakesAreReleases
  BY DEF IInv, FInv, WakesAreReleases
<1> QED
  BY <1>1, Invariance, PTL

(* With the victim above main(), less than a full share means a shorter    *)
(* operation window, for any period and any lengths of the operations.     *)
THEOREM StarvationIsLength == Spec => []StarvationMeansShorterWindow
<1>1. IInv => StarvationMeansShorterWindow
  BY DEF IInv, FInv, StarvationMeansShorterWindow
<1> QED
  BY <1>1, Invariance, PTL

(* A probe's takes are of its own releases.                                *)
THEOREM TakesAreOwn == Spec => []TakesAreReleases
<1>1. IInv => TakesAreReleases
  BY DEF IInv, RjInv, TakesAreReleases
<1> QED
  BY <1>1, Invariance, PTL

(* The timeout of a take, longer than the period, never runs out.          *)
THEOREM TakesNeverTimeOut == Spec => []NeverTimesOut
<1>1. IInv => NeverTimesOut
  <2> SUFFICES ASSUME IInv, rj_pc = "take", rj_sem = 0 PROVE wait > 0
    BY DEF NeverTimesOut, RJ!NeverTimesOut
  <2>1. rj_timer \in 0 .. ReleasePeriod /\ rj_timer < wait /\ wait \in Nat
    BY ProbeAssumption DEF IInv, RjInv, TimerInv, Sampling, WaitInv, RJ!TypeOK, RJ!ReleaseAssumption
  <2> QED
    BY <2>1, ProbeAssumption DEF RJ!ReleaseAssumption
<1> QED
  BY <1>1, Invariance, PTL

(* A baseline sample is the operation's own time, and a stressed one that  *)
(* is longer than the worker's sleep contains all of its work.             *)
THEOREM SamplesAreTheLoops == Spec => SamplesTellTheLoops
<1>1. IInv /\ [Next]_vars
        => [rs_pc = "op" /\ rs_pc' = "loop" =>
               /\ ~stressed => wall = own
               /\ stressed /\ own > StressPeriod => wall >= own + StressWork]_RS!vars
  <2> SUFFICES ASSUME IInv, [Next]_vars, rs_pc = "op", rs_pc' = "loop"
               PROVE  /\ ~stressed => wall = own
                      /\ stressed /\ own > StressPeriod => wall >= own + StressWork
    OBVIOUS
  <2>1. RS!OpSucceeds
    <3>1. RS!Next \/ UNCHANGED rs
      BY OwnSteps
    <3> QED
      BY <3>1 DEF RS!Next, rs, RS!Start, RS!StartFails, RS!Probe, RS!BeginOp, RS!OpSucceeds,
                  RS!BaselineFails, RS!StressFails, RS!AfterFailure, RS!EnsureStarted, RS!Begin,
                  RS!Activate, RS!BeginReturns, RS!EndReads, RS!Deactivate, RS!EndReturns,
                  RS!Leave, RS!Worker, RS!SleepsOn, RS!Works, RS!Rests, RS!main, RS!Tick
  <2>2. rs_left = 0 /\ worker # "working"
    BY <2>1 DEF RS!OpSucceeds, RS!MainRuns
  <2>3. /\ own \in Nat /\ wall \in Nat /\ w_left \in Nat
        /\ StressPeriod \in Nat /\ StressWork \in Nat
    BY ProbeAssumption DEF IInv, RsInv, RS!TypeOK, RS!StressAssumption
  <2> QED
    BY <2>2, <2>3 DEF IInv, RsInv, SampleInv
<1> QED
  BY <1>1, Invariance, PTL DEF Spec, SamplesTellTheLoops, RS!SamplesTellTheLoops

(* What main() reads of the victim's count is the number of releases: the  *)
(* victim has taken them all before main() goes on.                        *)
THEOREM CountsAreFinal == Spec => ReadingIsFinal
<1>1. IInv /\ [Next]_vars
        => [/\ f_pc = "idle_read" /\ f_pc' = "loop" => idle_ticks' = f_fires
            /\ f_pc = "op_read" /\ f_pc' = "returned" => f_report'.op = f_fires]_F!vars
  <2> SUFFICES ASSUME IInv, [Next]_vars
               PROVE  /\ f_pc = "idle_read" /\ f_pc' = "loop" => idle_ticks' = f_fires
                      /\ f_pc = "op_read" /\ f_pc' = "returned" => f_report'.op = f_fires
    OBVIOUS
  <2>0. f_pc \in {"idle_read", "op_read"} => wakes = f_fires
    BY DEF IInv, FInv, QuietInv, Windows, F!WakesAreReleases, F!TypeOK
  <2>1. /\ f_pc = "idle_read" /\ f_pc' = "loop" => F!ReadIdle
        /\ f_pc = "op_read" /\ f_pc' = "returned" => F!ReadOps
    <3>1. F!Next \/ UNCHANGED f
      BY OwnSteps
    <3> QED
      BY <3>1 DEF F!Next, f, F!Start, F!Main, F!StopIdle, F!ReadIdle, F!BeginOp, F!OpSucceeds,
                  F!OpFails, F!StopOps, F!ReadOps, F!Leave, F!Expire, F!Victim, F!VictimTakes,
                  F!VictimCounts, F!Tick
  <2>2. idle_ticks \in Nat /\ wakes \in Nat
    BY DEF IInv, FInv, F!TypeOK
  <2>3. F!ReadOps => f_report'.op = wakes
    BY <2>2, Finalized DEF F!ReadOps
  <2> QED
    BY <2>0, <2>1, <2>3 DEF F!ReadIdle
<1> QED
  BY <1>1, Invariance, PTL DEF Spec, ReadingIsFinal, F!ReadingIsFinal
===============================================================================
