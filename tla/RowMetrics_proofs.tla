---------------------------- MODULE RowMetrics_proofs ----------------------------
(***************************************************************************)
(* Proofs about a row's metrics: for any samples, sizes, caps, margins and *)
(* counts, no buffer outlives the stage that took it, the baseline is in   *)
(* order, the jitter is the range of its samples, the risk grows with the  *)
(* baseline, and what is reported of a memory cap was measured under it.   *)
(***************************************************************************)
EXTENDS RowMetrics, CycleStatistics_proofs

(* The buffers a stage takes beside those of the operation, and the one    *)
(* place where each of them may be held.                                   *)
Beside ==
    CASE pc = "sample" -> {"samples"}
      [] pc = "report" -> {"samples", "sortbuf", "scratch"}
      [] pc \in {"stress", "faulted"} -> {"stressed"}
      [] pc = "spoiled" -> {"corrupted_sig"}
      [] OTHER -> {}

HeldInv ==
    /\ stage = "row" => pc = "out"
    /\ pc \in {"out", "done"} => live = {}
    /\ pc = "stats" => live \subseteq {"sortbuf", "scratch"}
    /\ pc \notin {"out", "done", "stats"} => live \subseteq Buffers \cup Beside

(* The pressure buffer is held by the trials of one cap, which the         *)
(* algorithm fits under, and the heap has room for both.                   *)
PressureInv ==
    /\ need \in Nat
    /\ pc # "trial" => pressure = 0
    /\ pc = "trial" => cap \in DOMAIN Caps /\ WithOverhead(need) <= Caps[cap]
    /\ pressure # 0 => pressure = PressureBytes(cap) /\ MayAllocate(pressure)

(* No loop counts more successes than rounds, but for the entropy test,    *)
(* which counts the round when the source has recovered.                   *)
CountInv ==
    /\ k \in Nat /\ good \in 0 .. k + 1
    /\ pc # "recover" => good <= k

(* Each cap has no report yet, or one of all the trials or of fewer.       *)
Reports == [cycles : {"none", "penalty", "measured"}, failed : 0 .. Trials]
CapsInv ==
    /\ caps \in [DOMAIN Caps -> Reports]
    /\ \A c \in DOMAIN Caps : (caps[c].cycles = "penalty") <=> (caps[c].failed = Trials)

ControlInv ==
    /\ stage \in InOrder \cup {"row", "validate"}
    /\ pc \in {"out", "check", "begin", "stats", "buffer", "sample", "report", "recover", "cap",
              "trial", "stress", "faulted", "spoiled", "cleanup", "done"}
    /\ kind \in Kinds /\ op \in Ops
    /\ inner \in Nat /\ wait \in 0 .. RecoveryPolls /\ cap \in 1 .. Len(Caps) + 1
    /\ pc = "stats" => stage = "baseline"
    /\ pc = "spoiled" => stage = "validate"
    /\ stage = "deadline" => pc \in {"out", "done"}

(* A baseline is computed from samples that were measured, and whichever   *)
(* way it is computed its fields are in order.                             *)
StatsInv ==
    /\ pc = "stats" => samples \in Baselines
    /\ Ranked(stats)

(* The loop that samples the jitter begins with nothing; from then on the  *)
(* running extremes are those of the samples, and at its end the samples   *)
(* are as many as are sorted.                                              *)
Fresh == pc \in {"out", "check"} \/ (stage = "jitter" /\ pc \in {"begin", "buffer"})

Running ==
    /\ Len(samples) = k
    /\ \A j \in DOMAIN samples : lo <= samples[j] /\ samples[j] <= hi
    /\ IF k = 0 THEN lo = Top /\ hi = 0 ELSE lo \in Range(samples) /\ hi \in Range(samples)

JitterInv ==
    /\ samples \in Seq(Nat) /\ lo \in Nat /\ hi \in Nat /\ jitter \in Nat
    /\ Fresh => samples = <<>> /\ k = 0
    /\ stage = "jitter" /\ pc \in {"sample", "report"} => Running
    /\ pc = "report" => k = N
    /\ stage = "jitter" /\ pc = "cleanup" => jitter = Highest(samples) - Lowest(samples)

(* The risk of the report is that of the row's baseline. *)
RiskInv ==
    /\ Percentage(risk)
    /\ stage = "deadline" /\ pc = "done" => risk = deadline_miss_risk(Budget, stats)

IInv ==
    HeldInv /\ PressureInv /\ CountInv /\ CapsInv /\ ControlInv /\ StatsInv /\ JitterInv /\ RiskInv
-------------------------------------------------------------------------------

(* The program begins in the invariant.                                    *)
LEMMA Holds == Init => IInv
<1> SUFFICES ASSUME Init PROVE IInv
  OBVIOUS
<1> USE MetricsAssumption DEF Init
<1>1. HeldInv /\ PressureInv /\ CountInv /\ CapsInv
  BY DEF HeldInv, PressureInv, CountInv, CapsInv, NoCaps, Reports
<1>2. ControlInv
  BY DEF ControlInv, Kinds, Ops
<1>3. StatsInv
  BY NoBaselineIsRanked DEF StatsInv
<1>4. JitterInv
  BY DEF JitterInv, Fresh
<1>5. RiskInv
  BY DEF RiskInv, NoRisk, Percentage
<1> QED
  BY <1>1, <1>2, <1>3, <1>4, <1>5 DEF IInv

(* Buffers: a stage frees what it took. *)
LEMMA HeldStep == HeldInv /\ [Next]_vars => HeldInv'
<1> SUFFICES ASSUME HeldInv, [Next]_vars PROVE HeldInv'
  OBVIOUS
<1> USE DEF HeldInv, Beside
<1>1. CASE BeginRow
  BY <1>1 DEF BeginRow
<1>2. CASE BeginValidation
  BY <1>2 DEF BeginValidation
<1>3. CASE Baseline
  BY <1>3 DEF Baseline
<1>4. CASE BaselineStats
  BY <1>4 DEF BaselineStats, FreedOf
<1>5. CASE Allocate
  BY <1>5 DEF Allocate, Buffers
<1>6. CASE AllocateFails
  BY <1>6 DEF AllocateFails
<1>7. CASE Setup
  BY <1>7 DEF Setup, Buffers
<1>8. CASE SetupFails
  BY <1>8 DEF SetupFails
<1>9. CASE Validation
  <2>1. CASE VerifyKem
    BY <2>1 DEF VerifyKem, Buffers
  <2>2. CASE VerifySign
    BY <2>2 DEF VerifySign, Buffers
  <2>3. CASE CopySignature
    BY <2>3 DEF CopySignature, Buffers
  <2>4. CASE VerifySpoiled
    BY <2>4 DEF VerifySpoiled, Buffers
  <2> QED
    BY <1>9, <2>1, <2>2, <2>3, <2>4 DEF Validation
<1>10. CASE Jitter
  <2>1. CASE Tune
    BY <2>1 DEF Tune, Buffers
  <2>2. CASE SampleBuffer
    BY <2>2 DEF SampleBuffer, Buffers
  <2>3. CASE Sample
    BY <2>3 DEF Sample, Buffers
  <2>4. CASE SortBuffers
    BY <2>4 DEF SortBuffers, Buffers
  <2>5. CASE ReportJitter
    BY <2>5 DEF ReportJitter, Buffers, FreedOf
  <2> QED
    BY <1>10, <2>1, <2>2, <2>3, <2>4, <2>5 DEF Jitter
<1>11. CASE Entropy
  BY <1>11 DEF Entropy, Drain, Recovered, StillEmpty, ReportEntropy, Buffers
<1>12. CASE Memory
  BY <1>12 DEF Memory, ChooseNeed, Infeasible, Press, Trial, SetCapFields, ReportMemory, Buffers
<1>13. CASE Throttle
  <2>1. CASE StressBuffer
    BY <2>1 DEF StressBuffer, Buffers
  <2>2. CASE Stress
    BY <2>2 DEF Stress, Buffers
  <2>3. CASE StressFaults
    BY <2>3 DEF StressFaults, Buffers
  <2>4. CASE ReportThrottle
    BY <2>4 DEF ReportThrottle, Buffers
  <2> QED
    BY <1>13, <2>1, <2>2, <2>3, <2>4 DEF Throttle
<1>14. CASE Energy
  BY <1>14 DEF Energy, Buffers
<1>15. CASE Profile
  BY <1>15 DEF Profile, NoCounters, ProfileRun, ReportProfile, Buffers
<1>16. CASE Cleanup
  BY <1>16 DEF Cleanup
<1>17. CASE Deadline
  BY <1>17 DEF Deadline
<1>18. CASE NextStage
  BY <1>18 DEF NextStage
<1>19. CASE UNCHANGED vars
  BY <1>19 DEF vars, Buffers
<1> QED
  BY <1>1, <1>2, <1>3, <1>4, <1>5, <1>6, <1>7, <1>8, <1>9, <1>10, <1>11, <1>12, <1>13, <1>14,
     <1>15, <1>16, <1>17, <1>18, <1>19 DEF Next, Measure
-------------------------------------------------------------------------------
(* A size that wraps below zero is of the last values of its type. *)
LEMMA Wraps ==
    ASSUME NEW a \in Int, NEW b \in Nat \ {0}
    PROVE  /\ a % b \in 0 .. b - 1
           /\ a >= 0 => a % b <= a
           /\ a < 0 /\ -b <= a => a % b = a + b
OBVIOUS

(* Of an algorithm that fits under a cap, a pressure buffer that the heap  *)
(* has room for leaves the margin.                                         *)
LEMMA PressureLeavesTheMargin ==
    ASSUME NEW c \in DOMAIN Caps, need \in Nat,
           WithOverhead(need) <= Caps[c], MayAllocate(PressureBytes(c))
    PROVE  need + PressureBytes(c) + Margin[c] <= Caps[c] \/ PressureBytes(c) = 0
<1> DEFINE room == Caps[c] - WithOverhead(need) - Margin[c]
<1>1. /\ Caps[c] \in Nat /\ Margin[c] \in Nat /\ Heap \in Nat
      /\ SizeWidth \in Nat \ {0} /\ Heap < SizeWidth - Margin[c]
  BY MetricsAssumption
<1>2. WithOverhead(need) \in Nat /\ WithOverhead(need) >= need
  BY DEF WithOverhead
<1>3. room \in Int /\ -SizeWidth <= room
  BY <1>1, <1>2
<1>4. /\ PressureBytes(c) \in Nat
      /\ room >= 0 => PressureBytes(c) <= room
      /\ room < 0 => PressureBytes(c) = room + SizeWidth
  <2>1. PressureBytes(c) = room % SizeWidth
    BY DEF PressureBytes
  <2> HIDE DEF room
  <2>2. /\ room % SizeWidth \in 0 .. SizeWidth - 1
        /\ room >= 0 => room % SizeWidth <= room
        /\ room < 0 /\ -SizeWidth <= room => room % SizeWidth = room + SizeWidth
    BY <1>1, <1>3, Wraps
  <2>3. PressureBytes(c) \in Nat
    BY <1>1, <2>1, <2>2
  <2> QED
    BY <1>3, <2>1, <2>2, <2>3
<1>5. CASE room >= 0
  BY <1>1, <1>2, <1>4, <1>5
<1>6. CASE room < 0
  <2>1. PressureBytes(c) > Heap
    BY <1>1, <1>2, <1>4, <1>6
  <2> QED
    BY <2>1, <1>1, <1>4 DEF MayAllocate
<1> QED
  BY <1>3, <1>5, <1>6

(* The pressure buffer has a size.                                         *)
LEMMA PressureType ==
    ASSUME PressureInv PROVE pressure \in Nat
<1>1. CASE pressure = 0
  BY <1>1
<1>2. CASE pressure # 0
  <2>1. cap \in DOMAIN Caps
    BY <1>2 DEF PressureInv
  <2>2. Caps[cap] \in Nat /\ Margin[cap] \in Nat /\ SizeWidth \in Nat \ {0}
    BY <2>1, MetricsAssumption
  <2>3. WithOverhead(need) \in Nat
    BY DEF PressureInv, WithOverhead
  <2> DEFINE room == Caps[cap] - WithOverhead(need) - Margin[cap]
  <2>4. room \in Int
    BY <2>2, <2>3
  <2>5. pressure = room % SizeWidth
    BY <1>2 DEF PressureInv, PressureBytes
  <2> HIDE DEF room
  <2> QED
    BY <2>2, <2>4, <2>5, Wraps
<1> QED
  BY <1>1, <1>2

(* Memory caps. *)
LEMMA PressureStep == HeldInv /\ PressureInv /\ [Next]_vars => PressureInv'
<1> SUFFICES ASSUME HeldInv, PressureInv, [Next]_vars PROVE PressureInv'
  OBVIOUS
<1> USE DEF PressureInv
<1>1. CASE ChooseNeed
  BY <1>1, MetricsAssumption DEF ChooseNeed
<1>2. CASE Press
  BY <1>2 DEF Press, WithOverhead, PressureBytes, MayAllocate
<1>3. CASE SetCapFields
  BY <1>3 DEF SetCapFields
<1>4. CASE NextStage
  BY <1>4 DEF NextStage
<1>5. CASE Infeasible
  BY <1>5 DEF Infeasible
<1>6. CASE Trial
  BY <1>6 DEF Trial, memory, WithOverhead, PressureBytes, MayAllocate
<1>7. CASE ReportMemory
  BY <1>7 DEF ReportMemory, memory
<1>8. CASE UNCHANGED vars
  BY <1>8 DEF vars, memory, WithOverhead, PressureBytes, MayAllocate
<1>9. CASE BeginRow \/ BeginValidation
  BY <1>9 DEF BeginRow, BeginValidation, memory, HeldInv
<1>10. CASE Baseline \/ BaselineStats \/ Allocate \/ AllocateFails \/ Setup \/ SetupFails
  BY <1>10 DEF Baseline, BaselineStats, Allocate, AllocateFails, Setup, SetupFails, memory
<1>11. CASE Validation
  BY <1>11 DEF Validation, VerifyKem, VerifySign, CopySignature, VerifySpoiled, memory
<1>12. CASE Jitter
  BY <1>12 DEF Jitter, Tune, SampleBuffer, Sample, SortBuffers, ReportJitter, memory
<1>13. CASE Entropy
  BY <1>13 DEF Entropy, Drain, Recovered, StillEmpty, ReportEntropy, memory
<1>14. CASE Throttle
  BY <1>14 DEF Throttle, StressBuffer, Stress, StressFaults, ReportThrottle, memory
<1>15. CASE Energy \/ Profile \/ Cleanup \/ Deadline
  BY <1>15 DEF Energy, Profile, NoCounters, ProfileRun, ReportProfile, Cleanup, Deadline, memory
<1> QED
  BY <1>1, <1>2, <1>3, <1>4, <1>5, <1>6, <1>7, <1>8, <1>9, <1>10, <1>11, <1>12, <1>13, <1>14,
     <1>15 DEF Next, Measure, Memory

(* Counting, which every loop does for itself. *)
LEMMA CountStep == HeldInv /\ CountInv /\ [Next]_vars => CountInv'
<1> SUFFICES ASSUME HeldInv, CountInv, [Next]_vars PROVE CountInv'
  OBVIOUS
<1> USE DEF CountInv, locals
<1>1. CASE BeginRow \/ BeginValidation
  BY <1>1 DEF BeginRow, BeginValidation, HeldInv
<1>2. CASE Baseline \/ BaselineStats \/ Allocate \/ AllocateFails \/ Setup \/ SetupFails
  BY <1>2 DEF Baseline, BaselineStats, Allocate, AllocateFails, Setup, SetupFails
<1>3. CASE Validation
  <2>1. CASE VerifyKem
    BY <2>1 DEF VerifyKem
  <2>2. CASE VerifySign
    BY <2>2 DEF VerifySign
  <2>3. CASE CopySignature
    BY <2>3 DEF CopySignature
  <2>4. CASE VerifySpoiled
    BY <2>4 DEF VerifySpoiled
  <2> QED
    BY <1>3, <2>1, <2>2, <2>3, <2>4 DEF Validation
<1>4. CASE Jitter
  BY <1>4 DEF Jitter, Tune, SampleBuffer, Sample, SortBuffers, ReportJitter
<1>5. CASE Entropy
  BY <1>5 DEF Entropy, Drain, Recovered, StillEmpty, ReportEntropy
<1>6. CASE Memory
  BY <1>6 DEF Memory, ChooseNeed, Infeasible, Press, Trial, SetCapFields, ReportMemory
<1>7. CASE Throttle
  BY <1>7 DEF Throttle, StressBuffer, Stress, StressFaults, ReportThrottle
<1>8. CASE Energy \/ Profile \/ Cleanup \/ Deadline
  BY <1>8 DEF Energy, Profile, NoCounters, ProfileRun, ReportProfile, Cleanup, Deadline
<1>9. CASE NextStage
  BY <1>9 DEF NextStage
<1>10. CASE UNCHANGED vars
  BY <1>10 DEF vars
<1> QED
  BY <1>1, <1>2, <1>3, <1>4, <1>5, <1>6, <1>7, <1>8, <1>9, <1>10 DEF Next, Measure

(* Reports of caps.                                                        *)
LEMMA CapsStep == PressureInv /\ CountInv /\ CapsInv /\ [Next]_vars => CapsInv'
<1> SUFFICES ASSUME PressureInv, CountInv, CapsInv, [Next]_vars PROVE CapsInv'
  OBVIOUS
<1> USE DEF CapsInv
<1>0. Trials \in Nat \ {0}
  BY MetricsAssumption
<1>1. CASE Infeasible
  BY <1>1, <1>0 DEF Infeasible, Reports
<1>2. CASE Press
  BY <1>2 DEF Press
<1>3. CASE Trial
  BY <1>3 DEF Trial, memory
<1>4. CASE SetCapFields
  <2> DEFINE r == [cycles |-> IF good = 0 THEN "penalty" ELSE "measured", failed |-> FailedTrials]
  <2>1. /\ k = Trials /\ good \in 0 .. Trials /\ pc' = "cap"
        /\ caps' = [caps EXCEPT ![cap] = r]
    BY <1>4, <1>0 DEF SetCapFields, CountInv
  <2>2. r \in Reports /\ (r.cycles = "penalty" <=> r.failed = Trials)
    BY <2>1, <1>0 DEF Reports, FailedTrials
  <2> HIDE DEF r
  <2> QED
    BY <2>1, <2>2
<1>5. CASE NextStage
  BY <1>5, <1>0 DEF NextStage, NoCaps, Reports
<1>6. CASE ChooseNeed \/ ReportMemory
  BY <1>6 DEF ChooseNeed, ReportMemory, memory
<1>8. CASE UNCHANGED vars
  BY <1>8 DEF vars, memory, locals
<1>9. CASE BeginRow \/ BeginValidation
  BY <1>9 DEF BeginRow, BeginValidation, memory
<1>10. CASE Baseline \/ BaselineStats \/ Allocate \/ AllocateFails \/ Setup \/ SetupFails
  BY <1>10 DEF Baseline, BaselineStats, Allocate, AllocateFails, Setup, SetupFails, memory
<1>11. CASE Validation
  BY <1>11 DEF Validation, VerifyKem, VerifySign, CopySignature, VerifySpoiled, memory
<1>12. CASE Jitter
  BY <1>12 DEF Jitter, Tune, SampleBuffer, Sample, SortBuffers, ReportJitter, memory
<1>13. CASE Entropy
  BY <1>13 DEF Entropy, Drain, Recovered, StillEmpty, ReportEntropy, memory
<1>14. CASE Throttle
  BY <1>14 DEF Throttle, StressBuffer, Stress, StressFaults, ReportThrottle, memory
<1>15. CASE Energy \/ Profile \/ Cleanup \/ Deadline
  BY <1>15 DEF Energy, Profile, NoCounters, ProfileRun, ReportProfile, Cleanup, Deadline, memory
<1> QED
  BY <1>1, <1>2, <1>3, <1>4, <1>5, <1>6, <1>8, <1>9, <1>10, <1>11, <1>12, <1>13, <1>14,
     <1>15 DEF Next, Measure, Memory

(* A stage is followed by a stage or by the end of the row.                *)
LEMMA FollowingType == \A s \in InOrder : Following[s] \in InOrder \cup {"row"}
<1> SUFFICES ASSUME NEW s \in InOrder PROVE Following[s] \in InOrder \cup {"row"}
  OBVIOUS
<1> DEFINE Is(j) == Stages[j] = s
           at == CHOOSE j \in DOMAIN Stages : Is(j)
<1>1. DOMAIN Stages = 1 .. 8 /\ Len(Stages) = 8
  BY DEF Stages
<1>2. \E j \in DOMAIN Stages : Is(j)
  BY DEF InOrder
<1>3. Following[s] = IF at = Len(Stages) THEN "row" ELSE Stages[at + 1]
  BY DEF Following
<1> HIDE DEF Is
<1>4. at \in DOMAIN Stages
  BY <1>2, Zenon
<1> HIDE DEF at
<1>5. at # Len(Stages) => at + 1 \in DOMAIN Stages
  BY <1>1, <1>4
<1> QED
  BY <1>3, <1>5 DEF InOrder

(* Where a row is. *)
LEMMA ControlStep == HeldInv /\ PressureInv /\ ControlInv /\ [Next]_vars => ControlInv'
<1> SUFFICES ASSUME HeldInv, PressureInv, ControlInv, [Next]_vars PROVE ControlInv'
  OBVIOUS
<1> USE DEF ControlInv, locals, memory
<1>0. RecoveryPolls \in Nat \ {0} /\ Len(Caps) \in Nat /\ DOMAIN Caps = 1 .. Len(Caps)
  BY MetricsAssumption
<1>1. CASE BeginRow \/ BeginValidation
  <2>1. "baseline" \in InOrder
    BY DEF InOrder, Stages
  <2> QED
    BY <1>1, <2>1 DEF BeginRow, BeginValidation
<1>2. CASE Baseline \/ BaselineStats \/ Allocate \/ AllocateFails \/ Setup \/ SetupFails
  BY <1>2 DEF Baseline, BaselineStats, Allocate, AllocateFails, Setup, SetupFails
<1>3. CASE Validation
  <2>1. CASE VerifyKem
    BY <2>1 DEF VerifyKem
  <2>2. CASE VerifySign
    BY <2>2 DEF VerifySign
  <2>3. CASE CopySignature
    BY <2>3 DEF CopySignature
  <2>4. CASE VerifySpoiled
    BY <2>4 DEF VerifySpoiled
  <2> QED
    BY <1>3, <2>1, <2>2, <2>3, <2>4 DEF Validation
<1>4. CASE Jitter
  BY <1>4 DEF Jitter, Tune, SampleBuffer, Sample, SortBuffers, ReportJitter
<1>5. CASE Entropy
  BY <1>5, <1>0 DEF Entropy, Drain, Recovered, StillEmpty, ReportEntropy
<1>6. CASE Memory
  <2>1. CASE Infeasible
    BY <2>1, <1>0 DEF Infeasible
  <2>2. CASE SetCapFields
    BY <2>2, <1>0 DEF SetCapFields, PressureInv
  <2>3. CASE ChooseNeed \/ Press \/ Trial \/ ReportMemory
    BY <2>3 DEF ChooseNeed, Press, Trial, ReportMemory
  <2> QED
    BY <1>6, <2>1, <2>2, <2>3 DEF Memory
<1>7. CASE Throttle
  BY <1>7 DEF Throttle, StressBuffer, Stress, StressFaults, ReportThrottle
<1>8. CASE Energy \/ Profile \/ Cleanup \/ Deadline
  BY <1>8 DEF Energy, Profile, NoCounters, ProfileRun, ReportProfile, Cleanup, Deadline
<1>9. CASE NextStage
  <2>1. stage' \in InOrder \cup {"row"}
    BY <1>9, FollowingType DEF NextStage
  <2>2. /\ pc' = "out" /\ inner' = 1 /\ wait' = 0 /\ cap' = 1
        /\ (kind' = "kem" /\ op' = "keypair") \/ UNCHANGED <<kind, op>>
    BY <1>9 DEF NextStage
  <2> QED
    BY <1>0, <2>1, <2>2 DEF Kinds, Ops
<1>10. CASE UNCHANGED vars
  BY <1>10 DEF vars
<1> QED
  BY <1>1, <1>2, <1>3, <1>4, <1>5, <1>6, <1>7, <1>8, <1>9, <1>10 DEF Next, Measure
-------------------------------------------------------------------------------
(* Statistics of the baseline. *)
LEMMA StatsStep == StatsInv /\ [Next]_vars => StatsInv'
<1> SUFFICES ASSUME StatsInv, [Next]_vars PROVE StatsInv'
  OBVIOUS
<1> USE DEF StatsInv
<1>1. CASE BeginRow \/ BeginValidation
  BY <1>1 DEF BeginRow, BeginValidation
<1>2. CASE Baseline
  BY <1>2, NoBaselineIsRanked DEF Baseline
<1>3. CASE BaselineStats
  <2>1. samples \in Samples
    BY <1>3, MetricsAssumption DEF BaselineStats, Samples
  <2>2. Ranked(stats')
    BY <1>3, <2>1, BaselinesAreRanked DEF BaselineStats
  <2> QED
    BY <1>3, <2>2 DEF BaselineStats
<1>4. CASE Allocate \/ AllocateFails \/ Setup \/ SetupFails
  BY <1>4 DEF Allocate, AllocateFails, Setup, SetupFails
<1>5. CASE Validation
  BY <1>5 DEF Validation, VerifyKem, VerifySign, CopySignature, VerifySpoiled
<1>6. CASE Jitter
  BY <1>6 DEF Jitter, Tune, SampleBuffer, Sample, SortBuffers, ReportJitter
<1>7. CASE Entropy
  BY <1>7 DEF Entropy, Drain, Recovered, StillEmpty, ReportEntropy
<1>8. CASE Memory
  BY <1>8 DEF Memory, ChooseNeed, Infeasible, Press, Trial, SetCapFields, ReportMemory
<1>9. CASE Throttle
  BY <1>9 DEF Throttle, StressBuffer, Stress, StressFaults, ReportThrottle
<1>10. CASE Energy \/ Profile \/ Cleanup \/ Deadline
  BY <1>10 DEF Energy, Profile, NoCounters, ProfileRun, ReportProfile, Cleanup, Deadline
<1>11. CASE NextStage
  BY <1>11, NoBaselineIsRanked DEF NextStage
<1>12. CASE UNCHANGED vars
  BY <1>12 DEF vars, locals
<1> QED
  BY <1>1, <1>2, <1>3, <1>4, <1>5, <1>6, <1>7, <1>8, <1>9, <1>10, <1>11, <1>12 DEF Next, Measure

(* The percentiles of a baseline are the knots of a polygon.               *)
LEMMA RankedKnots == ASSUME Ranked(stats) PROVE Knots(stats)
BY DEF Ranked, Baseline9, Knots

(* The risk of the row. *)
LEMMA RiskStep == ControlInv /\ StatsInv /\ RiskInv /\ [Next]_vars => RiskInv'
<1> SUFFICES ASSUME ControlInv, StatsInv, RiskInv, [Next]_vars PROVE RiskInv'
  OBVIOUS
<1> USE DEF RiskInv
<1>1. CASE BeginRow \/ BeginValidation
  BY <1>1 DEF BeginRow, BeginValidation
<1>2. CASE Baseline \/ BaselineStats
  BY <1>2 DEF Baseline, BaselineStats, ControlInv
<1>3. CASE Deadline
  <2>1. Percentage(risk')
    BY <1>3, RankedKnots, MetricsAssumption, RiskIsPercentage DEF Deadline, StatsInv
  <2> QED
    BY <1>3, <2>1 DEF Deadline
<1>4. CASE Allocate \/ AllocateFails \/ Setup \/ SetupFails
  BY <1>4 DEF ControlInv, Allocate, AllocateFails, Setup, SetupFails
<1>5. CASE Validation
  BY <1>5 DEF ControlInv, Validation, VerifyKem, VerifySign, CopySignature, VerifySpoiled
<1>6. CASE Jitter
  BY <1>6 DEF Jitter, Tune, SampleBuffer, Sample, SortBuffers, ReportJitter
<1>7. CASE Entropy
  BY <1>7 DEF Entropy, Drain, Recovered, StillEmpty, ReportEntropy
<1>8. CASE Memory
  BY <1>8 DEF Memory, ChooseNeed, Infeasible, Press, Trial, SetCapFields, ReportMemory
<1>9. CASE Throttle
  BY <1>9 DEF Throttle, StressBuffer, Stress, StressFaults, ReportThrottle
<1>10. CASE Energy \/ Profile \/ Cleanup
  BY <1>10 DEF ControlInv, Energy, Profile, NoCounters, ProfileRun, ReportProfile, Cleanup
<1>11. CASE NextStage
  BY <1>11 DEF NextStage, NoRisk, Percentage
<1>12. CASE UNCHANGED vars
  BY <1>12 DEF vars
<1> QED
  BY <1>1, <1>2, <1>3, <1>4, <1>5, <1>6, <1>7, <1>8, <1>9, <1>10, <1>11, <1>12 DEF Next, Measure
-------------------------------------------------------------------------------
(* Jitter: the running extremes. *)

(* Steps that leave the loop alone.                                        *)
LEMMA RunningOn ==
    ASSUME Running, UNCHANGED <<k, lo, hi, samples>>
    PROVE  Running'
BY DEF Running

(* The loop begins with no extremes.                                       *)
LEMMA RunningBegins ==
    ASSUME samples' = <<>>, k' = 0, lo' = Top, hi' = 0
    PROVE  Running'
BY DEF Running

(* One more sample. *)
LEMMA RunningGrows ==
    ASSUME Running, samples \in Seq(Nat), k \in Nat, lo \in Nat, hi \in Nat,
           NEW c \in Cycles,
           lo' = IF c < lo THEN c ELSE lo, hi' = NewHigh(c), samples' = Append(samples, c), k' = k + 1
    PROVE  Running' /\ samples' \in Seq(Nat) /\ lo' \in Nat /\ hi' \in Nat
<1>0. Top \in Nat /\ c \in Nat /\ c <= Top
  BY MetricsAssumption
<1>1. /\ samples' \in Seq(Nat) /\ Len(samples) \in Nat /\ Len(samples') = Len(samples) + 1
      /\ DOMAIN samples = 1 .. Len(samples) /\ DOMAIN samples' = 1 .. Len(samples) + 1
      /\ samples'[Len(samples) + 1] = c
      /\ \A j \in DOMAIN samples : samples'[j] = samples[j] /\ samples[j] \in Nat
  BY <1>0
<1>2. hi' = IF c > hi THEN c ELSE hi
  BY DEF NewHigh
<1>3. lo' \in Nat /\ hi' \in Nat /\ lo' <= c /\ c <= hi' /\ lo' <= lo /\ hi <= hi'
  BY <1>0, <1>2
<1>4. Len(samples') = k'
  BY <1>1 DEF Running
<1>5. \A j \in DOMAIN samples' : lo' <= samples'[j] /\ samples'[j] <= hi'
  <2> SUFFICES ASSUME NEW j \in DOMAIN samples' PROVE lo' <= samples'[j] /\ samples'[j] <= hi'
    OBVIOUS
  <2>1. CASE j = Len(samples) + 1
    BY <1>1, <1>3, <2>1
  <2>2. CASE j \in DOMAIN samples
    <3>1. lo <= samples[j] /\ samples[j] <= hi /\ samples[j] \in Nat /\ samples'[j] = samples[j]
      BY <1>1, <2>2 DEF Running
    <3> QED
      BY <1>3, <3>1
  <2> QED
    BY <1>1, <2>1, <2>2
<1>6. lo' \in Range(samples') /\ hi' \in Range(samples')
  <2>1. c \in Range(samples') /\ Range(samples) \subseteq Range(samples')
    BY <1>1 DEF Range
  <2>2. lo' = c \/ (lo' = lo /\ lo \in Range(samples))
    BY <1>0 DEF Running
  <2>3. hi' = c \/ (hi' = hi /\ hi \in Range(samples))
    BY <1>0, <1>2 DEF Running
  <2> QED
    BY <2>1, <2>2, <2>3
<1>7. k' # 0
  OBVIOUS
<1> QED
  BY <1>1, <1>3, <1>4, <1>5, <1>6, <1>7 DEF Running

(* The running extremes of one sample or more are its minimum and maximum. *)
LEMMA RunningIsTheRange ==
    ASSUME Running, samples \in Seq(Nat), k \in Nat \ {0}, lo \in Nat, hi \in Nat
    PROVE  samples \in Samples /\ lo = Lowest(samples) /\ hi = Highest(samples)
<1>1. samples \in Samples
  BY DEF Running, Samples
<1>2. /\ Lowest(samples) \in Range(samples) /\ Highest(samples) \in Range(samples)
      /\ Lowest(samples) \in Nat /\ Highest(samples) \in Nat
      /\ \A x \in Range(samples) : Lowest(samples) <= x /\ x <= Highest(samples)
  BY <1>1, Extremes
<1>3. lo \in Range(samples) /\ hi \in Range(samples)
  BY DEF Running
<1>4. \A x \in Range(samples) : lo <= x /\ x <= hi
  BY DEF Running, Range
<1> QED
  BY <1>1, <1>2, <1>3, <1>4

(* The sampling loop, and its report with the buffers and without.         *)
LEMMA JitterStep == HeldInv /\ CountInv /\ ControlInv /\ JitterInv /\ [Next]_vars => JitterInv'
<1> SUFFICES ASSUME HeldInv, CountInv, ControlInv, JitterInv, [Next]_vars PROVE JitterInv'
  OBVIOUS
<1> USE DEF JitterInv, Fresh, locals
<1>0. k \in Nat /\ N \in Nat \ {0} /\ Top \in Nat
  BY MetricsAssumption DEF CountInv
<1>1. CASE BeginRow \/ BeginValidation
  BY <1>1 DEF BeginRow, BeginValidation, HeldInv
<1>2. CASE Baseline
  <2>1. samples' \in Seq(Nat)
    BY <1>2, MetricsAssumption DEF Baseline
  <2> QED
    BY <1>2, <2>1 DEF Baseline
<1>3. CASE BaselineStats
  BY <1>3 DEF BaselineStats, ControlInv
<1>4. CASE Allocate \/ AllocateFails \/ Setup \/ SetupFails
  BY <1>4 DEF Allocate, AllocateFails, Setup, SetupFails
<1>5. CASE Validation
  <2>1. CASE VerifyKem
    BY <2>1 DEF VerifyKem
  <2>2. CASE VerifySign
    BY <2>2 DEF VerifySign
  <2>3. CASE CopySignature
    BY <2>3 DEF CopySignature
  <2>4. CASE VerifySpoiled
    BY <2>4 DEF VerifySpoiled, ControlInv
  <2> QED
    BY <1>5, <2>1, <2>2, <2>3, <2>4 DEF Validation
<1>6. CASE Jitter
  <2>1. CASE Tune
    BY <2>1 DEF Tune
  <2>2. CASE SampleBuffer
    <3>1. Running'
      BY <2>2, RunningBegins DEF SampleBuffer
    <3> QED
      BY <2>2, <3>1, <1>0 DEF SampleBuffer
  <2>3. CASE Sample
    <3>1. PICK c \in Cycles : /\ lo' = IF c < lo THEN c ELSE lo
                              /\ hi' = NewHigh(c) /\ samples' = Append(samples, c)
      BY <2>3 DEF Sample
    <3>2. Running /\ k' = k + 1
      BY <2>3 DEF Sample
    <3>3. Running' /\ samples' \in Seq(Nat) /\ lo' \in Nat /\ hi' \in Nat
      BY <1>0, <3>1, <3>2, RunningGrows
    <3>4. stage' = "jitter" /\ pc' = "sample" /\ jitter' = jitter
      BY <2>3 DEF Sample
    <3> QED
      BY <3>3, <3>4
  <2>4. CASE SortBuffers
    <3>1. Running'
      BY <2>4, RunningOn DEF SortBuffers
    <3> QED
      BY <2>4, <3>1 DEF SortBuffers
  <2>5. CASE ReportJitter
    <3>1. Running /\ k = N
      BY <2>5 DEF ReportJitter
    <3>2. samples \in Samples /\ lo = Lowest(samples) /\ hi = Highest(samples)
      BY <1>0, <3>1, RunningIsTheRange
    <3>3. Sorted(samples)[1] = lo /\ Sorted(samples)[N] = hi
      BY <3>1, <3>2, Extremes DEF Running
    <3>4. jitter' = hi - lo /\ samples' = samples /\ lo' = lo /\ hi' = hi
          /\ stage' = "jitter" /\ pc' = "cleanup"
      BY <2>5, <3>3 DEF ReportJitter
    <3>5. lo <= hi
      BY <3>2, Extremes
    <3> QED
      BY <3>2, <3>4, <3>5
  <2> QED
    BY <1>6, <2>1, <2>2, <2>3, <2>4, <2>5 DEF Jitter
<1>7. CASE Entropy
  BY <1>7 DEF Entropy, Drain, Recovered, StillEmpty, ReportEntropy
<1>8. CASE Memory
  BY <1>8 DEF Memory, ChooseNeed, Infeasible, Press, Trial, SetCapFields, ReportMemory
<1>9. CASE Throttle
  BY <1>9 DEF Throttle, StressBuffer, Stress, StressFaults, ReportThrottle
<1>10. CASE Energy \/ Profile
  BY <1>10 DEF Energy, Profile, NoCounters, ProfileRun, ReportProfile
<1>11. CASE Cleanup \/ Deadline
  BY <1>11 DEF Cleanup, Deadline
<1>12. CASE NextStage
  BY <1>12 DEF NextStage
<1>13. CASE UNCHANGED vars
  <2>1. Running => Running'
    BY <1>13, RunningOn DEF vars
  <2> QED
    BY <1>13, <2>1 DEF vars
<1> QED
  BY <1>1, <1>2, <1>3, <1>4, <1>5, <1>6, <1>7, <1>8, <1>9, <1>10, <1>11, <1>12, <1>13
     DEF Next, Measure
-------------------------------------------------------------------------------

(* What every reachable state satisfies, for any values of the constants.  *)
THEOREM Invariance == Spec => []IInv
<1>1. Init => IInv
  BY Holds
<1>2. IInv /\ [Next]_vars => IInv'
  BY HeldStep, PressureStep, CountStep, CapsStep, ControlStep, StatsStep, JitterStep, RiskStep
     DEF IInv
<1> QED
  BY <1>1, <1>2, PTL DEF Spec

(* Every variable stays in its type: no size, count or difference is       *)
(* negative, and no fraction has the denominator zero.                     *)
THEOREM TypeCorrect == Spec => []TypeOK
<1>1. IInv => TypeOK
  <2> SUFFICES ASSUME IInv PROVE TypeOK
    OBVIOUS
  <2>1. /\ stage \in InOrder \cup {"row", "validate"}
        /\ pc \in {"out", "check", "begin", "stats", "buffer", "sample", "report", "recover", "cap",
                  "trial", "stress", "faulted", "spoiled", "cleanup", "done"}
        /\ kind \in Kinds /\ op \in Ops /\ inner \in Nat /\ wait \in 0 .. RecoveryPolls
        /\ cap \in 1 .. Len(Caps) + 1
    BY DEF IInv, ControlInv
  <2>2. live \subseteq Buffers \cup {"samples", "sortbuf", "scratch", "stressed", "corrupted_sig"}
    BY DEF IInv, HeldInv, Beside
  <2>3. k \in Nat /\ good \in 0 .. k + 1
    BY DEF IInv, CountInv
  <2>4. lo \in Nat /\ hi \in Nat /\ samples \in Seq(Nat) /\ jitter \in Nat
    BY DEF IInv, JitterInv
  <2>5. need \in Nat /\ pressure \in 0 .. Heap
    <3>1. pressure \in Nat /\ Heap \in Nat /\ need \in Nat
      BY PressureType, MetricsAssumption DEF IInv, PressureInv
    <3>2. pressure # 0 => need + pressure <= Heap
      BY DEF IInv, PressureInv, MayAllocate
    <3> QED
      BY <3>1, <3>2
  <2>6. \A s \in DOMAIN stats : stats[s] \in Nat
    BY DEF IInv, StatsInv, Ranked, Baseline9
  <2>7. \A c \in DOMAIN caps : caps[c].failed \in 0 .. Trials
    BY DEF IInv, CapsInv, Reports
  <2>8. risk.num \in Nat /\ risk.den \in Nat \ {0}
    BY DEF IInv, RiskInv, Percentage
  <2> QED
    BY <2>1, <2>2, <2>3, <2>4, <2>5, <2>6, <2>7, <2>8 DEF TypeOK
<1> QED
  BY <1>1, Invariance, PTL

(* Whichever malloc, setup call or operation fails, in any stage and in    *)
(* validation, every buffer has been freed when the stage is left, and the *)
(* pressure buffer with them.                                              *)
THEOREM NothingOutlivesAStage == Spec => []NothingLeaks
<1>1. IInv => NothingLeaks
  BY DEF IInv, HeldInv, PressureInv, NothingLeaks
<1> QED
  BY <1>1, Invariance, PTL

(* A wrapped pressure size is larger than the heap: for any caps, margins  *)
(* and sizes the trials of a cap leave its margin, and the penalty stands  *)
(* for the failure of all of them.                                         *)
THEOREM CapsAreHonest == Spec => []CapsAreKept
<1>1. IInv => CapsAreKept
  <2> SUFFICES ASSUME IInv PROVE CapsAreKept
    OBVIOUS
  <2>1. pc = "trial" /\ pressure > 0 => need + pressure + Margin[cap] <= Caps[cap]
    BY PressureLeavesTheMargin DEF IInv, PressureInv
  <2>2. \A c \in DOMAIN caps : (caps[c].cycles = "penalty") <=> (caps[c].failed = Trials)
    BY DEF IInv, CapsInv
  <2> QED
    BY <2>1, <2>2 DEF CapsAreKept
<1> QED
  BY <1>1, Invariance, PTL

(* However many samples, and whichever of the buffers to sort them could   *)
(* not be had: the jitter reported is the distance of the extreme ones.    *)
THEOREM JitterIsTrue == Spec => []JitterIsTheRange
<1>1. IInv => JitterIsTheRange
  BY DEF IInv, JitterInv, JitterIsTheRange
<1> QED
  BY <1>1, Invariance, PTL

(* Whatever was measured, and whichever of the two ways it is summarised:  *)
(* the percentiles of a baseline are in order and between its extremes.    *)
THEOREM BaselineIsTrue == Spec => []BaselineIsOrdered
<1>1. IInv => BaselineIsOrdered
  BY DEF IInv, StatsInv, Ranked, BaselineIsOrdered
<1> QED
  BY <1>1, Invariance, PTL

(* For every budget, no baseline with larger percentiles has a lower risk, *)
(* percentiles that coincide included.                                     *)
THEOREM RiskIsTrue == Spec => []SlowerIsRiskier
<1>1. IInv => SlowerIsRiskier
  <2> SUFFICES ASSUME IInv, stage = "deadline", pc = "done"
               PROVE  /\ risk.num >= 0 /\ risk.num <= 100 * risk.den
                      /\ stats.p50 > 0 =>
                           \A t \in Percentiles :
                             (\A p \in DOMAIN t : t[p] <= stats[p]) =>
                               AtMost(deadline_miss_risk(Budget, t), risk)
    BY DEF SlowerIsRiskier
  <2>1. risk.num >= 0 /\ risk.num <= 100 * risk.den
    BY DEF IInv, RiskInv, Percentage
  <2>2. ASSUME NEW t \in Percentiles, \A p \in DOMAIN t : t[p] <= stats[p]
        PROVE  AtMost(deadline_miss_risk(Budget, t), risk)
    <3>1. Budget \in Nat /\ Knots(stats)
      BY MetricsAssumption, RankedKnots DEF IInv, StatsInv
    <3>2. Knots(t) /\ t.p50 # 0
      BY <3>1 DEF Percentiles, Knots
    <3>3. t.p50 <= stats.p50 /\ t.p95 <= stats.p95 /\ t.p99 <= stats.p99
      BY <2>2 DEF Percentiles
    <3>4. AtMost(deadline_miss_risk(Budget, t), deadline_miss_risk(Budget, stats))
      BY <3>1, <3>2, <3>3, RiskGrows
    <3> QED
      BY <3>4 DEF IInv, RiskInv
  <2> QED
    BY <2>1, <2>2
<1> QED
  BY <1>1, Invariance, PTL
===============================================================================
