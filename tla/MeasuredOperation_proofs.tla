------------------------ MODULE MeasuredOperation_proofs ------------------------
(***************************************************************************)
(* Proofs about a measured operation: for any slots, request sizes, number *)
(* of iterations, sample buffer and block size, the three reports of a     *)
(* successful measurement are those of its own loop and buffers, the heap  *)
(* ledger says what is allocated, and no RNG call is attributed to an      *)
(* operation that is not running.                                          *)
(***************************************************************************)
EXTENDS MeasuredOperation, FiniteSetTheorems, TLAPS

(* From the moment the session let the operation in until its meters are   *)
(* read.                                                                   *)
Active == {"heap", "allocate", "setup", "loop", "cleanup"}

(* While it runs the RNG context is its own, and nothing is reported yet;  *)
(* otherwise there is no context for randombytes() to account to.          *)
ContextInv ==
    /\ pc \in Active =>
          /\ run.slot \in Slots
          /\ context = [valid |-> TRUE, slot |-> run.slot, op |-> run.op]
          /\ report = NoReport
    /\ pc \notin Active => ~context.valid

(* What the ledger has counted since its reset, until the first free: the  *)
(* blocks, each once.                                                      *)
HeapOf(n) == [current |-> n * BlockSize, peak |-> n * BlockSize,
              total |-> n * BlockSize, calls |-> n]

(* The setup and the loop have all of their buffers, and a cleanup after   *)
(* measured calls had them.                                                *)
HeapInv ==
    /\ pc \in {"idle", "heap", "later"} => blocks = {}
    /\ heap.current = Cardinality(blocks) * BlockSize
    /\ pc \in {"allocate", "setup", "loop"} => heap = HeapOf(Cardinality(blocks))
    /\ pc = "allocate" => blocks \subseteq 1 .. asked
    /\ pc \in {"setup", "loop"} => blocks = Buffers(run.kind)
    /\ pc = "cleanup" /\ iteration > 0 =>
          heap = [HeapOf(Cardinality(Buffers(run.kind))) EXCEPT !.current = heap.current]

(* Since they were reset the meters have counted the loop, and keep that   *)
(* count until they are read.                                              *)
Sampled(total) == IF total < SampleSize THEN total ELSE SampleSize

LoopInv ==
    pc = "loop" \/ (pc = "cleanup" /\ iteration > 0) =>
        /\ iteration <= Iterations
        /\ tracking_state[<<run.slot, run.op>>]
              = [loop EXCEPT !.sampled = Sampled(loop.total_bytes)]
        /\ profile = iteration

(* How far the counters of the loops have come. *)
CountInv ==
    /\ pc = "cleanup" => iteration <= Iterations
    /\ pc = "setup" => iteration <= SetupCalls(run.op)

Reports == RngReportIsTheLoops /\ ProfileReportIsOneCall /\ HeapReportIsTheBuffers

IInv == TypeOK /\ ContextInv /\ HeapInv /\ LoopInv /\ CountInv /\ Reports
-------------------------------------------------------------------------------
(* Lemmas about the operators. *)

(* The buffers of either kind are a finite set of four or five. *)
LEMMA BuffersFinite ==
  ASSUME NEW kind \in Kinds
  PROVE  /\ IsFiniteSet(Buffers(kind))
         /\ Cardinality(Buffers(kind)) \in Nat
         /\ Buffers(kind) \subseteq 1 .. 5
  BY FS_Interval DEF Buffers

LEMMA BlocksFinite ==
  ASSUME TypeOK
  PROVE  IsFiniteSet(blocks) /\ Cardinality(blocks) \in Nat
  <1>1. run.kind \in Kinds BY DEF TypeOK
  <1>2. IsFiniteSet(blocks) BY <1>1, BuffersFinite, FS_Subset DEF TypeOK
  <1> QED BY <1>2, FS_CardinalityType

(* What the blocks weigh is a number of bytes, one block more or less. *)
LEMMA Weight ==
  ASSUME NEW n \in Nat
  PROVE  /\ n * BlockSize \in Nat
         /\ (n + 1) * BlockSize = n * BlockSize + BlockSize
  BY MeasuredAssumption

(* A malloc that succeeds adds its block to every figure of the ledger. *)
LEMMA MallocCounts ==
  ASSUME NEW n \in Nat
  PROVE  AfterMalloc(HeapOf(n), BlockSize) = HeapOf(n + 1)
  BY Weight, MeasuredAssumption DEF AfterMalloc, HeapOf

(* The sample of a longer request is the sample of both, and fits. *)
LEMMA RecordedIsSampled ==
  ASSUME NEW total \in Nat, NEW calls \in Nat, NEW len \in Nat
  PROVE  Recorded([total_bytes |-> total, call_count |-> calls, sampled |-> Sampled(total)], len)
           = [total_bytes |-> total + len, call_count |-> calls + 1,
              sampled |-> Sampled(total + len)]
  BY MeasuredAssumption DEF Recorded, Copied, Sampled

(* Recording keeps a counter in its type: no request overruns the sample. *)
LEMMA RecordedType ==
  ASSUME NEW t \in Trackings, NEW len \in Nat
  PROVE  Recorded(t, len) \in Trackings
  BY MeasuredAssumption DEF Recorded, Copied, Trackings

LEMMA ZeroTypes == ZeroTracking \in Trackings /\ ZeroHeap \in Heaps
  BY MeasuredAssumption DEF ZeroTracking, ZeroHeap, Trackings, Heaps

(* Whatever a call draws, the counters stay in their types. *)
LEMMA RecordType ==
  ASSUME TypeOK, NEW len \in Requests
  PROVE  entropy_tracking_record(len) \in [Slots \X Ops -> Trackings]
  <1>1. len \in Nat BY MeasuredAssumption
  <1>2. tracking_state \in [Slots \X Ops -> Trackings] BY DEF TypeOK
  <1>3. \A s \in Slots \X Ops : Recorded(tracking_state[s], len) \in Trackings
    BY <1>1, <1>2, RecordedType
  <1> QED BY <1>2, <1>3 DEF entropy_tracking_record

-------------------------------------------------------------------------------
(* Every step keeps the invariant. *)

LEMMA InitInv == Init => IInv
  <1> SUFFICES ASSUME Init PROVE IInv
    OBVIOUS
  <1> USE MeasuredAssumption DEF Init
  <1>1. TypeOK BY ZeroTypes DEF TypeOK, Kinds, Ops, NoReport, ZeroTracking, Trackings, Buffers
  <1>2. ContextInv BY DEF ContextInv, Active
  <1>3. HeapInv BY FS_EmptySet DEF HeapInv, ZeroHeap
  <1>4. LoopInv /\ CountInv BY DEF LoopInv, CountInv
  <1>5. Reports BY DEF Reports, RngReportIsTheLoops, ProfileReportIsOneCall,
                       HeapReportIsTheBuffers, Measured, NoReport
  <1> QED BY <1>1, <1>2, <1>3, <1>4, <1>5 DEF IInv

(* A step that does not end with a report says nothing new. *)
LEMMA NoNewReport ==
  ASSUME report' = NoReport
  PROVE  Reports'
  BY DEF Reports, RngReportIsTheLoops, ProfileReportIsOneCall, HeapReportIsTheBuffers,
         Measured, NoReport

LEMMA BeginInv == IInv /\ Begin => IInv'
  <1> SUFFICES ASSUME IInv, Begin PROVE IInv'
    OBVIOUS
  <1> USE MeasuredAssumption DEF IInv, Begin
  <1>1. PICK kind \in Kinds, slot \in Slots, op \in Ops :
          /\ run' = [kind |-> kind, slot |-> slot, op |-> op]
          /\ \/ /\ pc' = "heap"
                /\ context' = entropy_tracking_set_context(slot, op)
             \/ /\ pc' = pc
                /\ context' = IF kind = "KEM" THEN entropy_tracking_clear_context ELSE context
    OBVIOUS
  <1>2. blocks = {} BY DEF HeapInv
  <1>3. TypeOK'
    <2>1. pc' \in {"idle", "heap"}
      BY <1>1
    <2>2. run' \in [kind : Kinds, slot : Slots \cup {0}, op : Ops]
      BY <1>1
    <2>3. context' \in [valid : BOOLEAN, slot : Slots \cup {0}, op : Ops]
      <3>1. CASE context' = entropy_tracking_set_context(slot, op)
        BY <3>1 DEF entropy_tracking_set_context
      <3>2. CASE context' = entropy_tracking_clear_context
        BY <3>2 DEF entropy_tracking_clear_context, Ops
      <3>3. CASE context' = context BY <3>3 DEF TypeOK
      <3> QED BY <1>1, <3>1, <3>2, <3>3
    <2>4. report' \in [iterations : 0 .. Iterations, rng : Trackings, heap : Heaps, symmetric : Nat]
      BY ZeroTypes DEF NoReport
    <2> QED BY <1>2, <2>1, <2>2, <2>3, <2>4 DEF TypeOK
  <1>4. ContextInv'
    BY <1>1 DEF ContextInv, Active, entropy_tracking_set_context, entropy_tracking_clear_context
  <1>5. HeapInv' BY <1>1, <1>2 DEF HeapInv
  <1>6. LoopInv' /\ CountInv' BY <1>1 DEF LoopInv, CountInv
  <1>7. Reports' BY NoNewReport
  <1> QED BY <1>3, <1>4, <1>5, <1>6, <1>7

LEMMA ResetHeapInv == IInv /\ ResetHeap => IInv'
  <1> SUFFICES ASSUME IInv, ResetHeap PROVE IInv'
    OBVIOUS
  <1> USE MeasuredAssumption DEF IInv, ResetHeap
  <1>1. blocks = {} BY DEF HeapInv
  <1>2. TypeOK' BY <1>1, ZeroTypes DEF TypeOK
  <1>3. ContextInv' BY DEF ContextInv, Active
  <1>4. HeapInv' BY <1>1, FS_EmptySet DEF HeapInv, ZeroHeap, HeapOf
  <1>5. LoopInv' /\ CountInv' BY DEF LoopInv, CountInv
  <1>6. Reports' BY NoNewReport DEF ContextInv, Active
  <1> QED BY <1>2, <1>3, <1>4, <1>5, <1>6

LEMMA AllocateInv == IInv /\ Allocate => IInv'
  <1> SUFFICES ASSUME IInv, Allocate PROVE IInv'
    OBVIOUS
  <1> USE MeasuredAssumption DEF IInv, Allocate
  <1>1. asked + 1 \in 1 .. 5 /\ asked \in 0 .. 5 BY BuffersFinite DEF TypeOK
  <1>2. CASE blocks' = blocks \cup {asked'} /\ heap' = AfterMalloc(heap, BlockSize)
    <2>1. asked + 1 \notin blocks BY <1>1 DEF HeapInv
    <2>2. Cardinality(blocks') = Cardinality(blocks) + 1
      BY <1>2, <2>1, BlocksFinite, FS_AddElement
    <2>3. heap' = HeapOf(Cardinality(blocks'))
      BY <1>2, <2>2, BlocksFinite, MallocCounts DEF HeapInv
    <2>4. HeapInv'
      BY <1>1, <1>2, <2>3 DEF HeapInv, HeapOf
    <2>5. heap' \in Heaps
      BY <2>2, <2>3, BlocksFinite, Weight DEF HeapOf, Heaps
    <2>6. TypeOK' BY <1>1, <1>2, <2>5 DEF TypeOK
    <2> QED BY <2>4, <2>6, NoNewReport DEF ContextInv, LoopInv, CountInv, Active
  <1>3. CASE UNCHANGED <<blocks, heap>>
    <2>1. HeapInv' BY <1>1, <1>3 DEF HeapInv
    <2>2. TypeOK' BY <1>1, <1>3 DEF TypeOK
    <2> QED BY <2>1, <2>2, NoNewReport DEF ContextInv, LoopInv, CountInv, Active
  <1> QED BY <1>2, <1>3

LEMMA AllocatedInv == IInv /\ Allocated => IInv'
  <1> SUFFICES ASSUME IInv, Allocated PROVE IInv'
    OBVIOUS
  <1> USE MeasuredAssumption DEF IInv, Allocated
  <1>1. TypeOK' BY DEF TypeOK
  <1>2. ContextInv' BY DEF ContextInv, Active
  <1>3. HeapInv' BY DEF HeapInv
  <1>4. LoopInv' BY DEF LoopInv
  <1>5. CountInv' BY DEF CountInv, SetupCalls, TypeOK, Ops
  <1>6. Reports' BY NoNewReport DEF ContextInv, Active
  <1> QED BY <1>1, <1>2, <1>3, <1>4, <1>5, <1>6

LEMMA SetupInv == IInv /\ Setup => IInv'
  <1> SUFFICES ASSUME IInv, Setup PROVE IInv'
    OBVIOUS
  <1> USE MeasuredAssumption DEF IInv, Setup
  <1>1. PICK len \in Requests : Call(len)
    OBVIOUS
  <1>2. tracking_state' \in [Slots \X Ops -> Trackings] /\ profile' \in Nat
    BY <1>1, RecordType DEF Call, TypeOK
  <1>3. run.op \in 0 .. 2 /\ iteration \in Nat BY DEF TypeOK, Ops
  <1>4. TypeOK' BY <1>2, <1>3 DEF TypeOK, SetupCalls
  <1>5. ContextInv' BY DEF ContextInv, Active
  <1>6. HeapInv' BY DEF HeapInv
  <1>7. LoopInv' BY DEF LoopInv
  <1>8. CountInv' BY <1>3 DEF CountInv, SetupCalls
  <1>9. Reports' BY NoNewReport DEF ContextInv, Active
  <1> QED BY <1>4, <1>5, <1>6, <1>7, <1>8, <1>9

LEMMA ResetMetersInv == IInv /\ ResetMeters => IInv'
  <1> SUFFICES ASSUME IInv, ResetMeters PROVE IInv'
    OBVIOUS
  <1> USE MeasuredAssumption DEF IInv, ResetMeters
  <1>1. <<run.slot, run.op>> \in Slots \X Ops BY DEF ContextInv, Active, TypeOK
  <1>2. tracking_state' = [tracking_state EXCEPT ![<<run.slot, run.op>>] = ZeroTracking]
    <2>1. context = [valid |-> TRUE, slot |-> run.slot, op |-> run.op] BY DEF ContextInv, Active
    <2>2. context.valid /\ context.slot = run.slot /\ context.op = run.op BY <2>1
    <2> QED BY <2>2 DEF entropy_tracking_reset
  <1>3. tracking_state' \in [Slots \X Ops -> Trackings]
    BY <1>1, <1>2, ZeroTypes DEF TypeOK
  <1>4. TypeOK' BY <1>3 DEF TypeOK, ZeroTracking
  <1>5. ContextInv' BY DEF ContextInv, Active
  <1>6. HeapInv' BY DEF HeapInv
  <1>7. tracking_state'[<<run.slot, run.op>>] = ZeroTracking
    BY <1>1, <1>2 DEF TypeOK
  <1>8. LoopInv' BY <1>7 DEF LoopInv, ZeroTracking, Sampled
  <1>9. CountInv' BY DEF CountInv
  <1>10. Reports' BY NoNewReport DEF ContextInv, Active
  <1> QED BY <1>4, <1>5, <1>6, <1>8, <1>9, <1>10

(* The step that matters: a measured call moves the counters of its own    *)
(* operation as far as the history of the loop.                            *)
LEMMA IterateInv == IInv /\ Iterate => IInv'
  <1> SUFFICES ASSUME IInv, Iterate PROVE IInv'
    OBVIOUS
  <1> USE MeasuredAssumption DEF IInv, Iterate
  <1> DEFINE s == <<run.slot, run.op>>
  <1>1. PICK len \in Requests :
          /\ Call(len)
          /\ loop' = [total_bytes |-> loop.total_bytes + len,
                      call_count  |-> loop.call_count + (IF len > 0 THEN 1 ELSE 0),
                      sampled     |-> 0]
    OBVIOUS
  <1>2. /\ len \in Nat /\ iteration \in Nat
        /\ loop \in [total_bytes : Nat, call_count : Nat, sampled : {0}]
    BY DEF TypeOK
  <1>3. s \in Slots \X Ops /\ context = [valid |-> TRUE, slot |-> run.slot, op |-> run.op]
    BY DEF ContextInv, Active, TypeOK
  <1>4. tracking_state' \in [Slots \X Ops -> Trackings] /\ profile' \in Nat
    BY <1>1, RecordType DEF Call, TypeOK
  <1>5. TypeOK' BY <1>1, <1>2, <1>4 DEF TypeOK
  <1>6. tracking_state[s] = [total_bytes |-> loop.total_bytes, call_count |-> loop.call_count,
                             sampled |-> Sampled(loop.total_bytes)]
    BY <1>2 DEF LoopInv
  <1>7. tracking_state'[s] = [loop' EXCEPT !.sampled = Sampled(loop'.total_bytes)]
    <2>1. CASE len > 0
      <3>1. tracking_state' = [tracking_state EXCEPT ![s] = Recorded(@, len)]
        BY <1>1, <1>3, <2>1 DEF Call, entropy_tracking_record
      <3>2. tracking_state'[s] = Recorded(tracking_state[s], len)
        BY <1>3, <3>1 DEF TypeOK
      <3>3. tracking_state'[s]
              = [total_bytes |-> loop.total_bytes + len, call_count |-> loop.call_count + 1,
                 sampled |-> Sampled(loop.total_bytes + len)]
        BY <1>2, <1>6, <3>2, RecordedIsSampled
      <3> QED BY <1>1, <2>1, <3>3
    <2>2. CASE len = 0
      <3>1. tracking_state'[s] = tracking_state[s]
        BY <1>1, <2>2 DEF Call, entropy_tracking_record
      <3> QED BY <1>1, <1>2, <1>6, <2>2, <3>1
    <2> QED BY <1>2, <2>1, <2>2
  <1>8. LoopInv' BY <1>1, <1>2, <1>7 DEF LoopInv, Call
  <1>9. ContextInv' BY DEF ContextInv, Active
  <1>10. HeapInv' BY <1>2 DEF HeapInv
  <1>11. CountInv' BY DEF CountInv
  <1>12. Reports' BY NoNewReport DEF ContextInv, Active
  <1> QED BY <1>5, <1>8, <1>9, <1>10, <1>11, <1>12

LEMMA LoopDoneInv == IInv /\ LoopDone => IInv'
  <1> SUFFICES ASSUME IInv, LoopDone PROVE IInv'
    OBVIOUS
  <1> USE MeasuredAssumption DEF IInv, LoopDone
  <1>1. TypeOK' BY DEF TypeOK
  <1>2. ContextInv' BY DEF ContextInv, Active
  <1>3. HeapInv' BY DEF HeapInv, HeapOf
  <1>4. LoopInv' /\ CountInv' BY DEF LoopInv, CountInv
  <1>5. Reports' BY NoNewReport DEF ContextInv, Active
  <1> QED BY <1>1, <1>2, <1>3, <1>4, <1>5

(* A free takes one block, of those there are: it never has to clamp. *)
LEMMA FreeInv == IInv /\ Free => IInv'
  <1> SUFFICES ASSUME IInv, Free PROVE IInv'
    OBVIOUS
  <1> USE MeasuredAssumption DEF IInv, Free
  <1> DEFINE b == CHOOSE i \in blocks : \A j \in blocks : i <= j
  <1>1. blocks \subseteq 1 .. 5 BY BuffersFinite DEF TypeOK
  <1>2. b \in blocks
    <2> SUFFICES \E i \in blocks : \A j \in blocks : i <= j
      OBVIOUS
    <2> HIDE DEF Free, IInv
    <2>1. \A i \in blocks : i \in {1, 2, 3, 4, 5} BY <1>1
    <2>2. blocks # {} BY DEF Free
    <2>3. CASE 1 \in blocks BY <2>1, <2>3
    <2>4. CASE 1 \notin blocks /\ 2 \in blocks BY <2>1, <2>4
    <2>5. CASE 1 \notin blocks /\ 2 \notin blocks /\ 3 \in blocks BY <2>1, <2>5
    <2>6. CASE 1 \notin blocks /\ 2 \notin blocks /\ 3 \notin blocks /\ 4 \in blocks
      BY <2>1, <2>6
    <2>7. CASE 1 \notin blocks /\ 2 \notin blocks /\ 3 \notin blocks /\ 4 \notin blocks
      BY <2>1, <2>2, <2>7
    <2> QED BY <2>3, <2>4, <2>5, <2>6, <2>7
  <1>3. blocks' = blocks \ {b} /\ heap' = AfterFree(heap, BlockSize)
    OBVIOUS
  <1> HIDE DEF b
  <1>4. /\ Cardinality(blocks') = Cardinality(blocks) - 1
        /\ Cardinality(blocks') \in Nat
    <2>1. Cardinality(blocks') = Cardinality(blocks) - 1
      BY <1>2, <1>3, BlocksFinite, FS_RemoveElement
    <2>2. IsFiniteSet(blocks') BY <1>3, BlocksFinite, FS_Subset
    <2> QED BY <2>1, <2>2, FS_CardinalityType
  <1>5. Cardinality(blocks) * BlockSize = Cardinality(blocks') * BlockSize + BlockSize
    <2>1. Cardinality(blocks) = Cardinality(blocks') + 1 BY <1>4, BlocksFinite
    <2> QED BY <1>4, <2>1, Weight
  <1>6. heap' = [heap EXCEPT !.current = Cardinality(blocks') * BlockSize]
    BY <1>3, <1>4, <1>5, Weight DEF AfterFree, HeapInv, TypeOK, Heaps
  <1>7. TypeOK' BY <1>3, <1>4, <1>6, Weight DEF TypeOK, Heaps
  <1>8. HeapInv' BY <1>6 DEF HeapInv, TypeOK, Heaps, HeapOf
  <1>9. ContextInv' BY DEF ContextInv, Active
  <1>10. LoopInv' /\ CountInv' BY DEF LoopInv, CountInv
  <1>11. Reports' BY NoNewReport DEF ContextInv, Active
  <1> QED BY <1>7, <1>8, <1>9, <1>10, <1>11

(* What is populated is what the invariant says the meters have counted. *)
LEMMA PopulateInv == IInv /\ Populate => IInv'
  <1> SUFFICES ASSUME IInv, Populate PROVE IInv'
    OBVIOUS
  <1> USE MeasuredAssumption DEF IInv, Populate
  <1>1. <<run.slot, run.op>> \in Slots \X Ops BY DEF ContextInv, Active, TypeOK
  <1>2. iteration \in 0 .. Iterations BY DEF TypeOK, CountInv
  <1>3. profile \div (IF iteration > 0 THEN iteration ELSE 1) \in Nat BY <1>2 DEF TypeOK
  <1>4. TypeOK'
    BY <1>1, <1>2, <1>3 DEF TypeOK, entropy_tracking_clear_context, Ops
  <1>5. ContextInv' BY DEF ContextInv, Active, entropy_tracking_clear_context
  <1>6. HeapInv' BY DEF HeapInv
  <1>7. LoopInv' /\ CountInv' BY DEF LoopInv, CountInv
  <1>8. ASSUME iteration > 0
        PROVE  /\ report'.rng = [loop EXCEPT !.sampled = Sampled(loop.total_bytes)]
               /\ report'.symmetric = 1
               /\ report'.heap = [HeapOf(Cardinality(Buffers(run.kind))) EXCEPT !.current = 0]
    <2>1. report'.rng = [loop EXCEPT !.sampled = Sampled(loop.total_bytes)]
      BY <1>8 DEF LoopInv
    <2>2. report'.symmetric = 1
      <3>1. profile = iteration BY <1>8 DEF LoopInv
      <3>2. report'.symmetric = iteration \div iteration BY <1>8, <3>1
      <3> QED BY <1>2, <1>8, <3>2
    <2>3. heap.current = 0 BY FS_EmptySet DEF HeapInv
    <2>4. report'.heap = [HeapOf(Cardinality(Buffers(run.kind))) EXCEPT !.current = 0]
      BY <1>8, <2>3 DEF HeapInv
    <2> QED BY <2>1, <2>2, <2>4
  <1>9. Measured' => iteration > 0 BY DEF Measured
  <1>10. RngReportIsTheLoops' BY <1>8, <1>9 DEF RngReportIsTheLoops, Sampled, TypeOK
  <1>11. ProfileReportIsOneCall' BY <1>8, <1>9 DEF ProfileReportIsOneCall
  <1>12. HeapReportIsTheBuffers' BY <1>8, <1>9 DEF HeapReportIsTheBuffers, HeapOf
  <1> QED BY <1>4, <1>5, <1>6, <1>7, <1>10, <1>11, <1>12 DEF Reports

LEMMA LaterMetricInv == IInv /\ LaterMetric => IInv'
  <1> SUFFICES ASSUME IInv, LaterMetric PROVE IInv'
    OBVIOUS
  <1> USE MeasuredAssumption DEF IInv, LaterMetric
  <1>1. PICK len \in Requests : Call(len)
    OBVIOUS
  <1>2. tracking_state' \in [Slots \X Ops -> Trackings] /\ profile' \in Nat
    BY <1>1, RecordType DEF Call, TypeOK
  <1>3. heap' \in Heaps /\ heap'.current = heap.current
    BY DEF AfterMalloc, AfterFree, TypeOK, Heaps
  <1>4. TypeOK' BY <1>2, <1>3 DEF TypeOK
  <1>5. ContextInv' BY DEF ContextInv, Active
  <1>6. HeapInv' BY <1>3 DEF HeapInv
  <1>7. LoopInv' /\ CountInv' BY DEF LoopInv, CountInv
  <1>8. Reports' BY DEF Reports, RngReportIsTheLoops, ProfileReportIsOneCall,
                        HeapReportIsTheBuffers, Measured
  <1> QED BY <1>4, <1>5, <1>6, <1>7, <1>8

LEMMA StutterInv == IInv /\ UNCHANGED vars => IInv'
  BY DEF vars, IInv, TypeOK, ContextInv, HeapInv, LoopInv, CountInv, Reports,
         RngReportIsTheLoops, ProfileReportIsOneCall, HeapReportIsTheBuffers, Measured

LEMMA StepInv == IInv /\ [Next]_vars => IInv'
  BY BeginInv, ResetHeapInv, AllocateInv, AllocatedInv, SetupInv, ResetMetersInv, IterateInv,
     LoopDoneInv, FreeInv, PopulateInv, LaterMetricInv, StutterInv
  DEF Next

(* What every reachable state satisfies, for any values of the constants.  *)
THEOREM Invariance == Spec => []IInv
  BY InitInv, StepInv, PTL DEF Spec

-------------------------------------------------------------------------------
(* Theorems *)

(* No variable leaves its type: the RNG counters grow, the sample never    *)
(* overruns its buffer, the ledger never goes below zero, and the loop     *)
(* never runs past its target (dynamic_iters.c, entropy_consumption.c).    *)
THEOREM TypeCorrect == Spec => []TypeOK
  <1>1. IInv => TypeOK BY DEF IInv
  <1> QED BY <1>1, Invariance, PTL

(* What a measurement reports of the RNG is what its own loop drew: its    *)
(* setup, the other operations and the metrics that follow are left out.   *)
THEOREM RngReportsAreTheLoops == Spec => []RngReportIsTheLoops
  <1>1. IInv => RngReportIsTheLoops BY DEF IInv, Reports
  <1> QED BY <1>1, Invariance, PTL

(* The symmetric work reported is that of one call, whatever the setup     *)
(* did before the reset.                                                   *)
THEOREM ProfilesAreOfOneCall == Spec => []ProfileReportIsOneCall
  <1>1. IInv => ProfileReportIsOneCall BY DEF IInv, Reports
  <1> QED BY <1>1, Invariance, PTL

(* The heap reported after a successful loop is the operation's buffers,   *)
(* all of them freed.                                                      *)
THEOREM HeapReportsAreTheBuffers == Spec => []HeapReportIsTheBuffers
  <1>1. IInv => HeapReportIsTheBuffers BY DEF IInv, Reports
  <1> QED BY <1>1, Invariance, PTL

(* Whichever malloc or call fails, the ledger is the weight of the blocks  *)
(* there are, and none is left between two operations.                     *)
THEOREM LedgersAreExact == Spec => []LedgerIsExact
  <1>1. IInv => LedgerIsExact BY DEF IInv, HeapInv, LedgerIsExact
  <1> QED BY <1>1, Invariance, PTL

(* No step accounts a draw to an operation that is not running, nor any    *)
(* outside its setup and its loop.                                         *)
THEOREM OthersAreNotAccounted == Spec => OnlyTheRunIsAccounted
  <1> DEFINE A == \A s \in Slots \X Ops :
                    tracking_state'[s] # tracking_state[s]
                      => pc \in {"setup", "loop"} /\ s = <<run.slot, run.op>>
  <1>1. ASSUME IInv, [Next]_vars PROVE A
    <2> SUFFICES ASSUME NEW s \in Slots \X Ops, tracking_state'[s] # tracking_state[s]
                 PROVE  pc \in {"setup", "loop"} /\ s = <<run.slot, run.op>>
      OBVIOUS
    <2>1. ContextInv /\ tracking_state \in [Slots \X Ops -> Trackings]
      BY <1>1 DEF IInv, TypeOK
    <2>2. CASE Setup \/ Iterate \/ LaterMetric
      <3>1. PICK len \in Requests : Call(len) BY <2>2 DEF Setup, Iterate, LaterMetric
      <3>2. context.valid /\ s = <<context.slot, context.op>>
        BY <2>1, <3>1 DEF Call, entropy_tracking_record
      <3> QED BY <2>1, <2>2, <3>2 DEF ContextInv, Active, Setup, Iterate, LaterMetric
    <2>3. CASE ResetMeters
      <3>1. context.valid /\ s = <<context.slot, context.op>>
        BY <2>1, <2>3 DEF ResetMeters, entropy_tracking_reset
      <3> QED BY <2>1, <2>3, <3>1 DEF ContextInv, Active, ResetMeters
    <2>4. CASE ~(Setup \/ Iterate \/ LaterMetric \/ ResetMeters)
      BY <1>1, <2>4 DEF Next, vars, Begin, ResetHeap, Allocate, Allocated, LoopDone, Free, Populate
    <2> QED BY <2>2, <2>3, <2>4
  <1>2. Spec => [][A]_vars
    BY <1>1, Invariance, PTL DEF Spec
  <1> QED BY <1>2 DEF OnlyTheRunIsAccounted
===============================================================================
