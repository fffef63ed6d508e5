--------------------------- MODULE MeasuredOperation ---------------------------
(***************************************************************************)
(* The measured loop of one operation: run_dynamic_iterations_for_kem and  *)
(* _for_sign (harness/dynamic_iters.c) between the calls main() puts around*)
(* them, with the three meters that are read out afterwards:               *)
(*   - the RNG accounting of metrics/entropy_consumption.c, fed by         *)
(*     randombytes() while a context is set;                               *)
(*   - the heap ledger of src/benchmark_alloc.c;                           *)
(*   - the symmetric-primitive profile of src/symmetric_profile.c.         *)
(* The meters are global and every metric of the program feeds them, so    *)
(* what a report means depends on when each is reset, read and stopped.    *)
(*                                                                         *)
(* A call of an algorithm may draw one request from the RNG, of any size in*)
(* Requests, may fail, and adds one unit of symmetric work.  k_malloc may  *)
(* fail at any time.  Byte values are left out: the entropy estimates only *)
(* need how many bytes were sampled.                                       *)
(***************************************************************************)
EXTENDS Integers, FiniteSets

CONSTANTS
    Slots,        \* indices of KEMs and DSAs in tracking_state[] (below MAX_KEMS)
    Requests,     \* sizes one RNG request may have; 0 stands for no request
    Iterations,   \* target_iterations, the fixed MAX_ITERS
    SampleSize,   \* ENTROPY_SAMPLE_BUFFER_SIZE
    BlockSize     \* bytes of each buffer of an operation

ASSUME MeasuredAssumption ==
    /\ Slots \subseteq Nat
    /\ Requests \subseteq Nat
    /\ Iterations \in Nat \ {0}
    /\ SampleSize \in Nat \ {0}
    /\ BlockSize \in Nat \ {0}

Kinds == {"KEM", "DSA"}
Ops == 0 .. 2

VARIABLES
    pc,             \* where main() is
    run,            \* the algorithm and operation it measures: [kind, slot, op]
    asked,           \* how many of the buffers malloc was asked for
    blocks,         \* buffers that hold a block
    iteration,      \* local of run_dynamic_iterations_for_*
    context,        \* current_kem_id, current_op_type, context_valid
    tracking_state, \* entropy_consumption_state_t of every slot and operation
    heap,           \* the ledger: current, peak, total, calls
    profile,        \* g_symmetric_totals, in units of one call
    report,         \* the fields of benchmark_results_t filled from the meters
    loop            \* history: what the measured loop drew

vars == <<pc, run, asked, blocks, iteration, context, tracking_state, heap, profile, report, loop>>

-------------------------------------------------------------------------------
(* metrics/entropy_consumption.c *)

ZeroTracking == [total_bytes |-> 0, call_count |-> 0, sampled |-> 0]

entropy_tracking_set_context(slot, op) == [valid |-> TRUE, slot |-> slot, op |-> op]

entropy_tracking_clear_context_Noop == context
entropy_tracking_clear_context == [valid |-> FALSE, slot |-> 0, op |-> 0]

(* entropy_tracking_reset, for the current context. *)
entropy_tracking_reset_Noop == tracking_state
entropy_tracking_reset ==
    IF context.valid
    THEN [tracking_state EXCEPT ![<<context.slot, context.op>>] = ZeroTracking]
    ELSE tracking_state

(* bytes_to_copy: what of a request still fits the sample buffer. *)
Copied_Whole(sampled, len) == len
Copied(sampled, len) == IF len < SampleSize - sampled THEN len ELSE SampleSize - sampled

(* entropy_tracking_record, as randombytes() calls it. *)
Recorded(t, len) ==
    [total_bytes |-> t.total_bytes + len,
     call_count  |-> t.call_count + 1,
     sampled     |-> IF t.sampled < SampleSize THEN t.sampled + Copied(t.sampled, len)
                     ELSE t.sampled]

entropy_tracking_record(len) ==
    IF context.valid /\ len > 0
    THEN [tracking_state EXCEPT ![<<context.slot, context.op>>] = Recorded(@, len)]
    ELSE tracking_state

-------------------------------------------------------------------------------
(* src/benchmark_alloc.c *)

ZeroHeap == [current |-> 0, peak |-> 0, total |-> 0, calls |-> 0]

AfterMalloc(h, size) ==
    LET current == h.current + size
    IN  [current |-> current,
         peak    |-> IF current > h.peak THEN current ELSE h.peak,
         total   |-> h.total + size,
         calls   |-> h.calls + 1]

AfterFree_Nothing(h, size) == h
AfterFree(h, size) ==
    [h EXCEPT !.current = IF size <= @ THEN @ - size ELSE 0]

-------------------------------------------------------------------------------
(* The buffers of one run, in the order they are allocated: pk sk ct ss1   *)
(* ss2 of a KEM, pk sk signature message of a DSA.                         *)
Buffers(kind) == 1 .. (IF kind = "KEM" THEN 5 ELSE 4)

(* The calls that prepare an operation: a key pair unless it is what is    *)
(* measured, and a ciphertext or a signature for the third operation.      *)
SetupCalls(op) == op

NoReport == [iterations |-> 0, rng |-> ZeroTracking, heap |-> ZeroHeap, symmetric |-> 0]

Init ==
    /\ pc = "idle"
    /\ run = [kind |-> "KEM", slot |-> 0, op |-> 0]
    /\ asked = 0 /\ blocks = {}
    /\ iteration = 0
    /\ context = [valid |-> FALSE, slot |-> 0, op |-> 0]
    /\ tracking_state = [s \in Slots \X Ops |-> ZeroTracking]
    /\ heap = ZeroHeap
    /\ profile = 0
    /\ report = NoReport
    /\ loop = ZeroTracking

(* Entry of run_comprehensive_benchmark_for_*.  A KEM has its context set  *)
(* before the session is asked, a DSA after; refused, neither keeps it.    *)
Begin ==
    /\ pc = "idle"
    /\ \E kind \in Kinds, slot \in Slots, op \in Ops :
          /\ run' = [kind |-> kind, slot |-> slot, op |-> op]
          /\ \/ /\ pc' = "heap"
                /\ context' = entropy_tracking_set_context(slot, op)
             \/ /\ pc' = pc
                /\ context' = IF kind = "KEM" THEN entropy_tracking_clear_context ELSE context
    /\ report' = NoReport
    /\ UNCHANGED <<asked, blocks, iteration, tracking_state, heap, profile, loop>>

(* benchmark_heap_tracker_reset *)
ResetHeap ==
    /\ pc = "heap"
    /\ pc' = "allocate"
    /\ heap' = ZeroHeap
    /\ asked' = 0
    /\ UNCHANGED <<run, blocks, iteration, context, tracking_state, profile, report, loop>>

(* The next of the mallocs, whatever became of the ones before it. *)
Allocate ==
    /\ pc = "allocate" /\ asked + 1 \in Buffers(run.kind)
    /\ asked' = asked + 1
    /\ \/ /\ blocks' = blocks \cup {asked'}
          /\ heap' = AfterMalloc(heap, BlockSize)
       \/ UNCHANGED <<blocks, heap>>
    /\ UNCHANGED <<pc, run, iteration, context, tracking_state, profile, report, loop>>

Allocated_FirstOnly ==
    /\ pc = "allocate" /\ asked + 1 \notin Buffers(run.kind)
    /\ iteration' = 0
    /\ pc' = IF 1 \in blocks THEN "setup" ELSE "cleanup"
    /\ UNCHANGED <<run, asked, blocks, context, tracking_state, heap, profile, report, loop>>

Allocated ==
    /\ pc = "allocate" /\ asked + 1 \notin Buffers(run.kind)
    /\ iteration' = 0
    /\ pc' = IF blocks = Buffers(run.kind) THEN "setup" ELSE "cleanup"
    /\ UNCHANGED <<run, asked, blocks, context, tracking_state, heap, profile, report, loop>>

(* A call of the algorithm: it draws, and it works. *)
Call(len) ==
    /\ tracking_state' = entropy_tracking_record(len)
    /\ profile' = profile + 1

(* The calls that come before the measured loop; iteration counts them. *)
Setup ==
    /\ pc = "setup" /\ iteration < SetupCalls(run.op)
    /\ \E len \in Requests : Call(len)
    /\ \/ iteration' = iteration + 1 /\ pc' = pc
       \/ iteration' = 0 /\ pc' = "cleanup"
    /\ UNCHANGED <<run, asked, blocks, context, heap, report, loop>>

(* The meters are reset after the setup and the loop begins. *)
ResetMeters_KeepsProfile ==
    /\ pc = "setup" /\ iteration = SetupCalls(run.op)
    /\ pc' = "loop"
    /\ tracking_state' = entropy_tracking_reset
    /\ iteration' = 0
    /\ loop' = ZeroTracking
    /\ UNCHANGED <<run, asked, blocks, context, heap, profile, report>>

ResetMeters ==
    /\ pc = "setup" /\ iteration = SetupCalls(run.op)
    /\ pc' = "loop"
    /\ tracking_state' = entropy_tracking_reset
    /\ profile' = 0
    /\ iteration' = 0
    /\ loop' = ZeroTracking
    /\ UNCHANGED <<run, asked, blocks, context, heap, report>>

(* One measured call.  A failure throws all of them away: the function     *)
(* returns no samples.                                                     *)
Iterate ==
    /\ pc = "loop" /\ iteration < Iterations
    /\ \E len \in Requests :
          /\ Call(len)
          /\ loop' = [total_bytes |-> loop.total_bytes + len,
                      call_count  |-> loop.call_count + (IF len > 0 THEN 1 ELSE 0),
                      sampled     |-> 0]
    /\ \/ iteration' = iteration + 1 /\ pc' = pc
       \/ iteration' = 0 /\ pc' = "cleanup"
    /\ UNCHANGED <<run, asked, blocks, context, heap, report>>

LoopDone ==
    /\ pc = "loop" /\ iteration = Iterations
    /\ pc' = "cleanup"
    /\ UNCHANGED <<run, asked, blocks, iteration, context, tracking_state, heap, profile, report,
                   loop>>

(* The frees at both of the function's exits: of what was allocated. *)
Free ==
    /\ pc = "cleanup"
    /\ blocks # {}
    /\ LET b == CHOOSE i \in blocks : \A j \in blocks : i <= j
       IN  blocks' = blocks \ {b} /\ heap' = AfterFree(heap, BlockSize)
    /\ UNCHANGED <<pc, run, asked, iteration, context, tracking_state, profile, report, loop>>

(* populate_entropy_consumption_results, entropy_tracking_clear_context    *)
(* and capture_operation_resource_metrics, then the verdict on iterations. *)
Populate ==
    /\ pc = "cleanup" /\ blocks = {}
    /\ report' = [iterations |-> iteration,
                  rng        |-> tracking_state[<<run.slot, run.op>>],
                  heap       |-> heap,
                  symmetric  |-> profile \div (IF iteration > 0 THEN iteration ELSE 1)]
    /\ context' = entropy_tracking_clear_context
    /\ pc' = IF iteration = 0 THEN "idle" ELSE "later"
    /\ UNCHANGED <<run, asked, blocks, iteration, tracking_state, heap, profile, loop>>

(* The metrics that follow call the algorithm, and allocate and free their *)
(* own buffers, on the same meters.                                        *)
LaterMetric ==
    /\ pc = "later"
    /\ \E len \in Requests : Call(len)
    /\ heap' = AfterFree(AfterMalloc(heap, BlockSize), BlockSize)
    /\ pc' = "idle"
    /\ UNCHANGED <<run, asked, blocks, iteration, context, report, loop>>

Next ==
    \/ Begin
    \/ ResetHeap
    \/ Allocate
    \/ Allocated
    \/ Setup
    \/ ResetMeters
    \/ Iterate
    \/ LoopDone
    \/ Free
    \/ Populate
    \/ LaterMetric

Spec == Init /\ [][Next]_vars
-------------------------------------------------------------------------------
(* Properties *)

Trackings == [total_bytes : Nat, call_count : Nat, sampled : 0 .. SampleSize]
Heaps == [current : Nat, peak : Nat, total : Nat, calls : Nat]

(* Every variable stays in its type; the sample buffer is never overrun.   *)
TypeOK ==
    /\ pc \in {"idle", "heap", "allocate", "setup", "loop", "cleanup", "later"}
    /\ run \in [kind : Kinds, slot : Slots \cup {0}, op : Ops]
    /\ asked \in 0 .. 5
    /\ blocks \subseteq Buffers(run.kind)
    /\ iteration \in 0 .. Iterations \cup 0 .. 2
    /\ context \in [valid : BOOLEAN, slot : Slots \cup {0}, op : Ops]
    /\ tracking_state \in [Slots \X Ops -> Trackings]
    /\ heap \in Heaps
    /\ profile \in Nat
    /\ report \in [iterations : 0 .. Iterations, rng : Trackings, heap : Heaps, symmetric : Nat]
    /\ loop \in [total_bytes : Nat, call_count : Nat, sampled : {0}]

Measured == report.iterations > 0

(* What a successful measurement reports of the RNG is what its loop drew, *)
(* neither its setup nor any other operation, and the sample is the first  *)
(* SampleSize bytes of it (dynamic_iters.c 346-354, main.c 222-235).       *)
RngReportIsTheLoops ==
    Measured =>
        /\ report.rng.total_bytes = loop.total_bytes
        /\ report.rng.call_count = loop.call_count
        /\ report.rng.sampled =
              IF loop.total_bytes < SampleSize THEN loop.total_bytes ELSE SampleSize

(* The symmetric work it reports is that of one measured call.             *)
ProfileReportIsOneCall == Measured => report.symmetric = 1

(* The heap it reports is its own buffers, all of them and nothing else.   *)
HeapReportIsTheBuffers ==
    Measured =>
        LET n == Cardinality(Buffers(run.kind))
        IN  report.heap = [current |-> 0, peak |-> n * BlockSize,
                           total |-> n * BlockSize, calls |-> n]

(* Whichever malloc or call fails, nothing stays allocated, and the ledger *)
(* says what is: it never has to clamp a free at zero.                     *)
LedgerIsExact ==
    /\ pc \in {"idle", "later"} => blocks = {}
    /\ heap.current = Cardinality(blocks) * BlockSize

(* Outside a measurement, and in the slots of the others during one, no    *)
(* accounting changes: no call is attributed to the wrong operation.       *)
OnlyTheRunIsAccounted ==
    [][\A s \in Slots \X Ops :
          tracking_state'[s] # tracking_state[s]
             => pc \in {"setup", "loop"} /\ s = <<run.slot, run.op>>]_vars
===============================================================================
