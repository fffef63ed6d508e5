------------------------------- MODULE RowMetrics -------------------------------
(***************************************************************************)
(* One row after another through the metrics of an operation: baseline     *)
(* statistics (cycles.c), timing jitter (jitter.c), entropy stress         *)
(* (entropy.c), memory caps (memory.c), throttle stress (throttle.c),      *)
(* energy (energy.c), instruction profile (profiler.c), deadline risk      *)
(* (deadline.c).  Every stage takes buffers from the heap, calls the       *)
(* operation, and reports; malloc and the operation may fail at every call,*)
(* the clock may be too coarse to tell two readings apart, and the entropy *)
(* source may stay empty.                                                  *)
(*                                                                         *)
(* The code has each stage once for KEMs and once for signatures.  They    *)
(* differ in their buffers and where marked.  The probes at the end of the *)
(* throttle stage are ProbeSequence.  main() may end the row at any gate.  *)
(* Between two rows an entry of a registry may be validated (kem_registry.c*)
(* and sig_registry.c), which takes buffers too.                           *)
(***************************************************************************)
EXTENDS CycleStatistics

CONSTANTS
    Baselines,      \* the samples of a measured operation: non-empty sequences
    Cycles,         \* cycles an operation may take by the clock
    Top,            \* UINT64_MAX
    N,              \* JITTER_SAMPLES
    MinWindow,      \* MIN_WINDOW_CYCLES
    MaxInner,       \* MAX_INNER
    EntropyIters,   \* max_entropy_iters
    RecoveryPolls,  \* the polls of the 5 seconds to recover in
    Needs,          \* bytes of an algorithm's buffers
    Caps, Margin,   \* the two caps, in order, and the room left under each
    Trials,         \* MAX_TRIALS
    Heap,           \* bytes of the heap
    SizeWidth,      \* values of size_t, 2^32 or 2^64 in the code
    StressSamples,  \* STRESS_SAMPLES, DSA_STRESS_SAMPLES
    ProfileRuns,    \* the 3 runs of the profiler
    Budget          \* PQC_DEADLINE_BUDGET_US, in cycles

ASSUME MetricsAssumption ==
    /\ Baselines \subseteq Seq(Nat) \ {<<>>}
    /\ Top \in Nat /\ Cycles \subseteq 0 .. Top /\ N \in Nat \ {0}
    /\ MinWindow \in Nat /\ MaxInner \in Nat
    /\ {EntropyIters, RecoveryPolls, Trials, StressSamples, ProfileRuns} \subseteq Nat \ {0}
    /\ Needs \subseteq Nat /\ Caps \in Seq(Nat) /\ Margin \in [DOMAIN Caps -> Nat]
    /\ Heap \in Nat /\ SizeWidth \in Nat
    /\ \A c \in DOMAIN Caps : Heap < SizeWidth - Margin[c]
    /\ Budget \in Nat

Kinds == {"kem", "dsa"}
Ops == {"keypair", "make", "use"}  \* encaps or sign, decaps or verify
Stages == <<"baseline", "jitter", "entropy", "memory", "throttle", "energy", "profile", "deadline">>
InOrder == {Stages[k] : k \in DOMAIN Stages}

VARIABLES
    stage, pc, kind, op,
    live,        \* the buffers held
    k, good,     \* a loop index, and how many went well
    inner,       \* the batch of operations between two readings
    lo, hi,      \* minc and maxc
    samples,     \* what the loop has read; in the buffer if that is held
    wait,        \* polls left to recover in
    need, cap,   \* the algorithm's size, and the cap under test
    pressure,    \* bytes of the pressure buffer, 0 without one
    stats,       \* the baseline fields of the result
    jitter,      \* jitter_cycles
    caps,        \* cycles_at_* and failure_*: what each cap reports
    risk         \* deadline_miss_risk_pct

locals == <<k, good, inner, lo, hi, samples, wait>>
memory == <<need, cap, pressure, caps>>
vars == <<stage, pc, kind, op, live, locals, memory, stats, jitter, risk>>

Buffers ==
    IF kind = "kem" THEN {"pk", "sk", "ct", "ss1", "ss2"}
    ELSE {"pk", "sk", "signature", "message"} \cup
         IF stage = "validate" THEN {"recovered_msg"} ELSE {}

NoCaps == [c \in DOMAIN Caps |-> [cycles |-> "none", failed |-> 0]]
NoRisk == [num |-> 0, den |-> 1]

Init ==
    /\ stage = "row" /\ pc = "out" /\ kind = "kem" /\ op = "keypair"
    /\ live = {}
    /\ k = 0 /\ good = 0 /\ inner = 1 /\ lo = 0 /\ hi = 0 /\ samples = <<>> /\ wait = 0
    /\ need = 0 /\ cap = 1 /\ pressure = 0 /\ caps = NoCaps
    /\ stats = NoStats /\ jitter = 0 /\ risk = NoRisk

-------------------------------------------------------------------------------
(* The row, as main() goes through it. *)

BeginRow ==
    /\ stage = "row"
    /\ kind' \in Kinds /\ op' \in Ops
    /\ stage' = "baseline" /\ pc' = "out"
    /\ UNCHANGED <<live, locals, memory, stats, jitter, risk>>

(* main() validates an entry before it has a row. *)
BeginValidation ==
    /\ stage = "row"
    /\ kind' \in Kinds
    /\ stage' = "validate" /\ pc' = "out"
    /\ UNCHANGED <<op, live, locals, memory, stats, jitter, risk>>

(* The next stage, or the end of the row: a gate fails, or the session is  *)
(* interrupted.  What a stage keeps in locals is gone, and nothing later   *)
(* reads its report but for the baseline's.                                *)
Following == [s \in InOrder |->
                 LET j == CHOOSE j \in DOMAIN Stages : Stages[j] = s
                 IN  IF j = Len(Stages) THEN "row" ELSE Stages[j + 1]]

GateMayPass == stage = "baseline" => stats.avg > 0

NextStage ==
    /\ pc = "done"
    /\ \/ stage \in InOrder /\ stage' = Following[stage] /\ GateMayPass
       \/ stage' = "row"
    /\ pc' = "out"
    /\ k' = 0 /\ good' = 0 /\ inner' = 1 /\ lo' = 0 /\ hi' = 0 /\ samples' = <<>> /\ wait' = 0
    /\ need' = 0 /\ cap' = 1 /\ caps' = NoCaps /\ jitter' = 0 /\ risk' = NoRisk
    /\ stats' = IF stage' = "row" THEN NoStats ELSE stats
    /\ IF stage' = "row" THEN kind' = "kem" /\ op' = "keypair" ELSE UNCHANGED <<kind, op>>
    /\ UNCHANGED <<live, pressure>>

(* calculate_baseline_stats; when all samples are zero, before the buffers.*)
Baseline ==
    /\ stage = "baseline" /\ pc = "out"
    /\ samples' \in Baselines
    /\ IF Highest(samples') = 0
       THEN /\ stats' = NoStats /\ pc' = "done"
            /\ UNCHANGED live
       ELSE /\ live' \in SUBSET {"sortbuf", "scratch"}
            /\ pc' = "stats"
            /\ UNCHANGED stats
    /\ UNCHANGED <<stage, kind, op, k, good, inner, lo, hi, wait, memory, jitter, risk>>

FreedOf_OnlyPair(held) ==
    IF {"sortbuf", "scratch"} \subseteq held THEN held \ {"sortbuf", "scratch"} ELSE held
FreedOf(held) == held \ {"sortbuf", "scratch"}

BaselineStats ==
    /\ pc = "stats"
    /\ stats' = IF {"sortbuf", "scratch"} \subseteq live
                THEN calculate_baseline_stats(samples) ELSE approximate_baseline_stats(samples)
    /\ live' = FreedOf(live)
    /\ pc' = "done"
    /\ UNCHANGED <<stage, kind, op, locals, memory, jitter, risk>>

(* Every other stage begins with the buffers of the operation; if one of   *)
(* them cannot be had, the others are freed and the stage reports nothing. *)
Allocate ==
    /\ stage \notin {"row", "baseline", "deadline"} /\ pc = "out"
    /\ live' \in SUBSET Buffers
    /\ pc' = "check"
    /\ UNCHANGED <<stage, kind, op, locals, memory, stats, jitter, risk>>

AllocateFails ==
    /\ pc = "check" /\ live # Buffers
    /\ live' = {}
    /\ pc' = "done"
    /\ UNCHANGED <<stage, kind, op, locals, memory, stats, jitter, risk>>

(* The setup calls.  A KEM's throttle test gives up when one fails; the    *)
(* other stages go on without looking, or count the run as failed.         *)
Setup ==
    /\ pc = "check" /\ live = Buffers
    /\ pc' = "begin"
    /\ UNCHANGED <<stage, kind, op, live, locals, memory, stats, jitter, risk>>

SetupFails ==
    /\ pc = "check" /\ live = Buffers
    /\ stage = "throttle" /\ kind = "kem" /\ op # "keypair"
    /\ live' = {}
    /\ pc' = "done"
    /\ UNCHANGED <<stage, kind, op, locals, memory, stats, jitter, risk>>

(* The end of every stage. *)
Cleanup ==
    /\ pc = "cleanup"
    /\ live' = live \ Buffers
    /\ pc' = "done"
    /\ UNCHANGED <<stage, kind, op, locals, memory, stats, jitter, risk>>

-------------------------------------------------------------------------------
(* validate_kem_api and validate_sign_api: what the operations return, and *)
(* whether it is plausible, in order; the first check that fails is the    *)
(* last.  The verdict is the campaign's.                                   *)

Checks == 4

VerifyKem ==
    /\ stage = "validate" /\ kind = "kem" /\ pc = "begin"
    /\ k' = k + 1
    /\ pc' \in {"cleanup"} \cup (IF k' < Checks THEN {"begin"} ELSE {})
    /\ UNCHANGED <<stage, kind, op, live, good, inner, lo, hi, samples, wait, memory, stats, jitter,
                   risk>>

VerifySign ==
    /\ stage = "validate" /\ kind = "dsa" /\ pc = "begin" /\ k + 1 < Checks
    /\ k' = k + 1
    /\ pc' \in {"cleanup", "begin"}
    /\ UNCHANGED <<stage, kind, op, live, good, inner, lo, hi, samples, wait, memory, stats, jitter,
                   risk>>

(* The last check needs a copy of the signature, to spoil. *)
CopySignature ==
    /\ stage = "validate" /\ kind = "dsa" /\ pc = "begin" /\ k + 1 = Checks
    /\ \/ pc' = "spoiled" /\ live' = live \cup {"corrupted_sig"}
       \/ pc' = "cleanup" /\ UNCHANGED live
    /\ UNCHANGED <<stage, kind, op, locals, memory, stats, jitter, risk>>

VerifySpoiled ==
    /\ pc = "spoiled"
    /\ live' = live \ {"corrupted_sig"}
    /\ pc' = "cleanup"
    /\ UNCHANGED <<stage, kind, op, locals, memory, stats, jitter, risk>>

Validation == VerifyKem \/ VerifySign \/ CopySignature \/ VerifySpoiled

-------------------------------------------------------------------------------
(* measure_timing_jitter *)

(* The batch is doubled until the window between two readings is wide      *)
(* enough or the batch is the largest.                                     *)
WideEnough(window) == window >= MinWindow \/ inner >= MaxInner

Tune ==
    /\ stage = "jitter" /\ pc = "begin"
    /\ \E c \in Cycles :
          IF WideEnough(c * inner)
          THEN pc' = "buffer" /\ UNCHANGED inner
          ELSE inner' = 2 * inner /\ UNCHANGED pc
    /\ UNCHANGED <<stage, kind, op, live, k, good, lo, hi, samples, wait, memory, stats, jitter,
                   risk>>

SampleBuffer ==
    /\ stage = "jitter" /\ pc = "buffer"
    /\ live' \in {live, live \cup {"samples"}}
    /\ lo' = Top /\ hi' = 0
    /\ pc' = "sample"
    /\ UNCHANGED <<stage, kind, op, k, good, inner, samples, wait, memory, stats, jitter, risk>>

NewHigh_ElseIf(c) == IF c >= lo /\ c > hi THEN c ELSE hi
NewHigh(c) == IF c > hi THEN c ELSE hi

Sample ==
    /\ stage = "jitter" /\ pc = "sample" /\ k < N
    /\ \E c \in Cycles :
          /\ lo' = IF c < lo THEN c ELSE lo
          /\ hi' = NewHigh(c)
          /\ samples' = Append(samples, c)
    /\ k' = k + 1
    /\ UNCHANGED <<stage, pc, kind, op, live, good, inner, wait, memory, stats, jitter, risk>>

(* Without the samples the running extremes are the report, as without the *)
(* copies to sort.                                                         *)
SortBuffers ==
    /\ stage = "jitter" /\ pc = "sample" /\ k = N
    /\ \E got \in IF "samples" \in live THEN SUBSET {"sortbuf", "scratch"} ELSE {{}} :
          live' = live \cup got
    /\ pc' = "report"
    /\ UNCHANGED <<stage, kind, op, locals, memory, stats, jitter, risk>>

ReportJitter ==
    /\ stage = "jitter" /\ pc = "report"
    /\ jitter' = IF {"sortbuf", "scratch"} \subseteq live
                 THEN LET sorted == Sorted(samples) IN sorted[N] - sorted[1]
                 ELSE hi - lo
    /\ live' = FreedOf(live) \ {"samples"}
    /\ pc' = "cleanup"
    /\ UNCHANGED <<stage, kind, op, locals, memory, stats, risk>>

Jitter == Tune \/ SampleBuffer \/ Sample \/ SortBuffers \/ ReportJitter

-------------------------------------------------------------------------------
(* test_entropy_starvation: drain the source, call the operation, wait for *)
(* the source to recover, a number of times.                               *)

Drain ==
    /\ stage = "entropy" /\ pc = "begin" /\ k < EntropyIters
    /\ good' \in {good, good + 1}
    /\ wait' = RecoveryPolls
    /\ pc' = "recover"
    /\ UNCHANGED <<stage, kind, op, live, k, inner, lo, hi, samples, memory, stats, jitter, risk>>

Recovered ==
    /\ stage = "entropy" /\ pc = "recover"
    /\ k' = k + 1
    /\ pc' = "begin"
    /\ UNCHANGED <<stage, kind, op, live, good, inner, lo, hi, samples, wait, memory, stats, jitter,
                   risk>>

StillEmpty ==
    /\ stage = "entropy" /\ pc = "recover" /\ wait > 0
    /\ wait' = wait - 1
    /\ UNCHANGED <<stage, pc, kind, op, live, k, good, inner, lo, hi, samples, memory, stats, jitter,
                   risk>>

ReportEntropy ==
    /\ stage = "entropy" /\ pc = "begin" /\ k = EntropyIters
    /\ pc' = "cleanup"
    /\ UNCHANGED <<stage, kind, op, live, locals, memory, stats, jitter, risk>>

Entropy == Drain \/ Recovered \/ StillEmpty \/ ReportEntropy

-------------------------------------------------------------------------------
(* test_memory_constraints: under each cap, if the algorithm fits at all,  *)
(* the rest of it is taken by a pressure buffer while the trials run.      *)

WithOverhead(bytes) == bytes + bytes \div 4

PressureBytes_Added(c) == (Caps[c] - WithOverhead(need) + Margin[c]) % SizeWidth
PressureBytes(c) == (Caps[c] - WithOverhead(need) - Margin[c]) % SizeWidth

MayAllocate(bytes) == need + bytes <= Heap

ChooseNeed ==
    /\ stage = "memory" /\ pc = "begin"
    /\ need' \in Needs
    /\ pc' = "cap"
    /\ UNCHANGED <<stage, kind, op, live, locals, cap, pressure, caps, stats, jitter, risk>>

Infeasible ==
    /\ stage = "memory" /\ pc = "cap" /\ cap \in DOMAIN Caps
    /\ WithOverhead(need) > Caps[cap]
    /\ caps' = [caps EXCEPT ![cap] = [cycles |-> "penalty", failed |-> Trials]]
    /\ cap' = cap + 1
    /\ UNCHANGED <<stage, pc, kind, op, live, locals, need, pressure, stats, jitter, risk>>

Press ==
    /\ stage = "memory" /\ pc = "cap" /\ cap \in DOMAIN Caps
    /\ WithOverhead(need) <= Caps[cap]
    /\ \/ pressure' = 0
       \/ MayAllocate(PressureBytes(cap)) /\ pressure' = PressureBytes(cap)
    /\ k' = 0 /\ good' = 0
    /\ pc' = "trial"
    /\ UNCHANGED <<stage, kind, op, live, inner, lo, hi, samples, wait, need, cap, caps, stats,
                   jitter, risk>>

Trial ==
    /\ stage = "memory" /\ pc = "trial" /\ k < Trials
    /\ k' = k + 1
    /\ good' \in {good, good + 1}
    /\ UNCHANGED <<stage, pc, kind, op, live, inner, lo, hi, samples, wait, memory, stats, jitter,
                   risk>>

(* The median of the cycles of the trials that went well. *)
FailedTrials == k - good

SetCapFields ==
    /\ stage = "memory" /\ pc = "trial" /\ k = Trials
    /\ caps' = [caps EXCEPT ![cap] = [cycles |-> IF good = 0 THEN "penalty" ELSE "measured",
                                      failed |-> FailedTrials]]
    /\ pressure' = 0
    /\ cap' = cap + 1
    /\ pc' = "cap"
    /\ UNCHANGED <<stage, kind, op, live, locals, need, stats, jitter, risk>>

ReportMemory ==
    /\ stage = "memory" /\ pc = "cap" /\ cap \notin DOMAIN Caps
    /\ pc' = "cleanup"
    /\ UNCHANGED <<stage, kind, op, live, locals, memory, stats, jitter, risk>>

Memory == ChooseNeed \/ Infeasible \/ Press \/ Trial \/ SetCapFields \/ ReportMemory

-------------------------------------------------------------------------------
(* test_throttled_performance, without its probes. *)

(* A KEM's test does not look whether it has the buffer. *)
Checked_Never == FALSE
Checked == kind = "dsa"

StressBuffer ==
    /\ stage = "throttle" /\ pc = "begin"
    /\ \/ live' = live \cup {"stressed"} /\ pc' = "stress"
       \/ ~Checked /\ pc' = "stress" /\ UNCHANGED live
       \/ Checked /\ pc' = "done" /\ live' = live \ Buffers
    /\ UNCHANGED <<stage, kind, op, locals, memory, stats, jitter, risk>>

Stress ==
    /\ stage = "throttle" /\ pc = "stress" /\ k < StressSamples
    /\ k' = k + 1
    /\ UNCHANGED <<stage, pc, kind, op, live, good, inner, lo, hi, samples, wait, memory, stats,
                   jitter, risk>>

(* A write through NULL: the target may stop, or not notice.               *)
StressFaults ==
    /\ stage = "throttle" /\ pc = "stress" /\ k < StressSamples /\ "stressed" \notin live
    /\ pc' = "faulted"
    /\ UNCHANGED <<stage, kind, op, live, locals, memory, stats, jitter, risk>>

ReportThrottle ==
    /\ stage = "throttle" /\ pc = "stress" /\ k = StressSamples
    /\ live' = live \ {"stressed"}
    /\ pc' = "cleanup"
    /\ UNCHANGED <<stage, kind, op, locals, memory, stats, jitter, risk>>

Throttle == StressBuffer \/ Stress \/ StressFaults \/ ReportThrottle

-------------------------------------------------------------------------------
(* measure_energy_consumption: the samples are on the stack, and both exits*)
(* free the buffers.                                                       *)
Energy ==
    /\ stage = "energy" /\ pc = "begin"
    /\ pc' = "cleanup"
    /\ UNCHANGED <<stage, kind, op, live, locals, memory, stats, jitter, risk>>

(* profile_instruction_level: no counters, or none that start, and nothing *)
(* is allocated; a run whose setup or operation fails does not count.      *)
NoCounters ==
    /\ stage = "profile" /\ pc = "out"
    /\ pc' = "done"
    /\ UNCHANGED <<stage, kind, op, live, locals, memory, stats, jitter, risk>>

ProfileRun ==
    /\ stage = "profile" /\ pc = "begin" /\ k < ProfileRuns
    /\ k' = k + 1
    /\ good' \in {good, good + 1}
    /\ UNCHANGED <<stage, pc, kind, op, live, inner, lo, hi, samples, wait, memory, stats, jitter,
                   risk>>

ReportProfile ==
    /\ stage = "profile" /\ pc = "begin" /\ k = ProfileRuns
    /\ pc' = "cleanup"
    /\ UNCHANGED <<stage, kind, op, live, locals, memory, stats, jitter, risk>>

Profile == NoCounters \/ ProfileRun \/ ReportProfile

(* The row is printed, with the risk derived from the baseline's fields. *)
Deadline ==
    /\ stage = "deadline" /\ pc = "out"
    /\ risk' = deadline_miss_risk(Budget, stats)
    /\ pc' = "done"
    /\ UNCHANGED <<stage, kind, op, live, locals, memory, stats, jitter>>

Measure ==
    \/ Baseline
    \/ BaselineStats
    \/ Allocate
    \/ AllocateFails
    \/ Setup
    \/ SetupFails
    \/ Validation
    \/ Jitter
    \/ Entropy
    \/ Memory
    \/ Throttle
    \/ Energy
    \/ Profile
    \/ Cleanup
    \/ Deadline
    \/ NextStage

Next == BeginRow \/ BeginValidation \/ Measure

Spec == Init /\ [][Next]_vars

(* main() has the processor. *)
FairSpec == Spec /\ WF_vars(Measure)

-------------------------------------------------------------------------------
(* Properties *)

(* Every variable stays in its type. *)
TypeOK ==
    /\ stage \in InOrder \cup {"row", "validate"}
    /\ pc \in {"out", "check", "begin", "stats", "buffer", "sample", "report", "recover", "cap",
              "trial", "stress", "faulted", "spoiled", "cleanup", "done"}
    /\ kind \in Kinds /\ op \in Ops
    /\ live \subseteq Buffers \cup {"samples", "sortbuf", "scratch", "stressed", "corrupted_sig"}
    /\ k \in Nat /\ good \in 0 .. k + 1 /\ inner \in Nat /\ lo \in Nat /\ hi \in Nat
    /\ samples \in Seq(Nat) /\ wait \in 0 .. RecoveryPolls
    /\ need \in Nat /\ cap \in 1 .. Len(Caps) + 1 /\ pressure \in 0 .. Heap
    /\ \A s \in DOMAIN stats : stats[s] \in Nat
    /\ jitter \in Nat
    /\ \A c \in DOMAIN caps : caps[c].failed \in 0 .. Trials
    /\ risk.num \in Nat /\ risk.den \in Nat \ {0}

(* Between two stages no buffer is held, whichever malloc, setup call or   *)
(* operation failed in the one before, validation included (jitter.c       *)
(* 312-316, memory.c 203-206, throttle.c 1331, 1416-1420, kem_registry.c   *)
(* 1002-1012, sig_registry.c 952-985, and the exits before them).          *)
NothingLeaks == pc \in {"out", "done"} => live = {} /\ pressure = 0

(* The jitter reported is the range of the samples, whichever of the three *)
(* buffers of the statistics could not be had (jitter.c 211, 283).         *)
JitterIsTheRange ==
    stage = "jitter" /\ pc = "cleanup" => jitter = Highest(samples) - Lowest(samples)

(* The fields of a baseline are in order, with the buffers and without     *)
(* them: the check the code prints a warning for never fails (cycles.c     *)
(* 177-186, 204-207, 213-217).                                           *)
BaselineIsOrdered ==
    /\ stats.min <= stats.q1 /\ stats.q1 <= stats.p50 /\ stats.p50 <= stats.q3
    /\ stats.q3 <= stats.p95 /\ stats.p95 <= stats.p99 /\ stats.p99 <= stats.max
    /\ stats.mad <= stats.max - stats.min

(* A row whose percentiles are all at least as large as another's, and     *)
(* measured at all, has no lower risk, and every risk is a percentage      *)
(* (deadline.c 55-69).                                                     *)
Percentiles == {t \in [{"p50", "p95", "p99"} -> 1 .. Budget + 3] : t.p50 <= t.p95 /\ t.p95 <= t.p99}
SlowerIsRiskier ==
    stage = "deadline" /\ pc = "done" =>
        /\ risk.num >= 0 /\ risk.num <= 100 * risk.den
        /\ stats.p50 > 0 =>
              \A t \in Percentiles :
                  (\A p \in DOMAIN t : t[p] <= stats[p]) =>
                      AtMost(deadline_miss_risk(Budget, t), risk)

(* What is reported of a cap was measured under it: buffers and pressure   *)
(* together leave the margin, since a size that wraps, of an algorithm that*)
(* leaves less than the margin, is never had; and the penalty is reported  *)
(* if and only if all trials failed, of an algorithm that does not fit as  *)
(* of one that does (memory.c 182-190, 238-246).                           *)
CapsAreKept ==
    /\ pc = "trial" /\ pressure > 0 => need + pressure + Margin[cap] <= Caps[cap]
    /\ \A c \in DOMAIN caps : (caps[c].cycles = "penalty") <=> (caps[c].failed = Trials)

(* A row ends, whichever malloc or operation fails, on a clock that stands *)
(* and with an entropy source that never recovers; but a KEM's throttle    *)
(* test, which alone uses a buffer without asking whether it was had, may  *)
(* stop the target (jitter.c 133, entropy.c 169, throttle.c 1163-1176).    *)
RowEnds ==
    stage # "row" ~> stage = "row" \/ (pc = "faulted" /\ stage = "throttle" /\ kind = "kem")
===============================================================================
