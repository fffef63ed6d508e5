-------------------------- MODULE TimingPort_proofs --------------------------
(***************************************************************************)
(* Proofs about tp_now_cycles: for any callers, any width of the counter   *)
(* and any schedule, a reading is never ahead of the counter and readings  *)
(* never go back; when the counter is read at least once per rollover, a   *)
(* reading is exact.                                                       *)
(***************************************************************************)
EXTENDS TimingPort, TLAPS

(* The locals of the holder are what was read, or what was kept.           *)
LocalsInv ==
    \A c \in Callers :
        /\ pc[c] = "read" => lo[c] = at[2]
        /\ pc[c] = "stitched" => lo[c] = s_prev_lo

(* What was returned, what is kept, what was read, and the counter, in     *)
(* this order.                                                             *)
OrderInv ==
    /\ Clock!NotBefore(<<s_hi, s_prev_lo>>, last)
    /\ Clock!NotBefore(at, <<s_hi, s_prev_lo>>)
    /\ Clock!NotBefore(<<hw_hi, hw_lo>>, at)

(* How far the counter is past the last read, with at most one rollover.   *)
GapInv ==
    polled =>
        /\ gap < Width
        /\ \/ hw_hi = at[1] /\ hw_lo = at[2] + gap
           \/ hw_hi = at[1] + 1 /\ hw_lo + Width = at[2] + gap

(* What is kept is the last read, or, until it is stitched, at most one    *)
(* rollover before it.                                                     *)
KeptInv ==
    polled =>
        /\ (\A c \in Callers : pc[c] # "read") => s_hi = at[1] /\ s_prev_lo = at[2]
        /\ \A c \in Callers : pc[c] = "read" =>
              \/ s_hi = at[1] /\ s_prev_lo <= at[2]
              \/ s_hi + 1 = at[1] /\ s_prev_lo > at[2]

IInv == TypeOK /\ LocalsInv /\ OrderInv /\ GapInv /\ KeptInv

(* The invariant holds at boot. *)
LEMMA InitInv == Init => IInv
  BY TimingAssumption
  DEF Init, IInv, TypeOK, Times, LocalsInv, OrderInv, GapInv, KeptInv, Clock!NotBefore

(* Each step of a call, and each cycle of the counter, keeps it. *)
LEMMA LockInv == ASSUME IInv, NEW c \in Callers, Lock(c) PROVE IInv'
  <1> USE TimingAssumption DEF IInv, Lock
  <1>1. TypeOK' BY DEF TypeOK, Times, MayLock
  <1>2. LocalsInv' BY DEF LocalsInv, TypeOK
  <1>3. OrderInv' BY DEF OrderInv, Clock!NotBefore
  <1>4. GapInv' BY DEF GapInv
  <1>5. KeptInv' BY DEF KeptInv, TypeOK
  <1> QED BY <1>1, <1>2, <1>3, <1>4, <1>5

LEMMA ReadInv == ASSUME IInv, NEW c \in Callers, Read(c) PROVE IInv'
  <1> USE TimingAssumption DEF IInv, Read
  <1>1. TypeOK' BY DEF TypeOK, Times
  <1>2. \A d \in Callers : d # c => pc[d] = "out" BY DEF TypeOK
  <1>3. LocalsInv' BY <1>2 DEF LocalsInv, TypeOK
  <1>4. OrderInv' BY DEF OrderInv, TypeOK, Times, Clock!NotBefore
  <1>5. GapInv' BY DEF GapInv, TypeOK
  <1>6. ASSUME polled
        PROVE  \/ s_hi = hw_hi /\ s_prev_lo <= hw_lo
               \/ s_hi + 1 = hw_hi /\ s_prev_lo > hw_lo
    <2>1. s_hi = at[1] /\ s_prev_lo = at[2] BY <1>2, <1>6 DEF KeptInv
    <2> QED BY <1>6, <2>1 DEF GapInv, TypeOK, Times
  <1>7. KeptInv' BY <1>2, <1>6 DEF KeptInv, TypeOK
  <1> QED BY <1>1, <1>3, <1>4, <1>5, <1>7

LEMMA StitchInv == ASSUME IInv, NEW c \in Callers, Stitch(c) PROVE IInv'
  <1> USE TimingAssumption DEF IInv, Stitch
  <1>1. TypeOK' BY DEF TypeOK, Times
  <1>2. \A d \in Callers : d # c => pc[d] = "out" BY DEF TypeOK
  <1>3. LocalsInv' BY <1>2 DEF LocalsInv, TypeOK
  <1>4. lo[c] = at[2] BY DEF LocalsInv
  <1>5. OrderInv' BY <1>4 DEF OrderInv, TypeOK, Times, Rolled, Clock!NotBefore
  <1>6. GapInv' BY DEF GapInv
  <1>7. ASSUME polled PROVE s_hi' = at[1] /\ s_prev_lo' = at[2]
    BY <1>4, <1>7 DEF KeptInv, TypeOK, Times, Rolled
  <1>8. KeptInv' BY <1>2, <1>7 DEF KeptInv, TypeOK
  <1> QED BY <1>1, <1>3, <1>5, <1>6, <1>8

LEMMA UnlockInv == ASSUME IInv, NEW c \in Callers, Unlock(c) PROVE IInv'
  <1> USE TimingAssumption DEF IInv, Unlock
  <1>1. TypeOK' BY DEF TypeOK, Times
  <1>2. LocalsInv' BY DEF LocalsInv, TypeOK
  <1>3. lo[c] = s_prev_lo BY DEF LocalsInv
  <1>4. OrderInv' BY <1>3 DEF OrderInv, TypeOK, Clock!NotBefore
  <1>5. GapInv' BY DEF GapInv
  <1>6. KeptInv' BY DEF KeptInv, TypeOK
  <1> QED BY <1>1, <1>2, <1>4, <1>5, <1>6

LEMMA CountInv == ASSUME IInv, Count PROVE IInv'
  <1> USE TimingAssumption DEF IInv, Count
  <1>1. TypeOK' BY DEF TypeOK, Times
  <1>2. LocalsInv' BY DEF LocalsInv
  <1>3. OrderInv' BY DEF OrderInv, TypeOK, Times, Clock!NotBefore
  <1>4. GapInv'
    <2> SUFFICES ASSUME polled'
                 PROVE  /\ gap' < Width
                        /\ \/ hw_hi' = at'[1] /\ hw_lo' = at'[2] + gap'
                           \/ hw_hi' = at'[1] + 1 /\ hw_lo' + Width = at'[2] + gap'
      BY DEF GapInv
    <2>1. polled /\ gap + 1 < Width
      OBVIOUS
    <2>2. \/ hw_hi = at[1] /\ hw_lo = at[2] + gap
          \/ hw_hi = at[1] + 1 /\ hw_lo + Width = at[2] + gap
      BY <2>1 DEF GapInv
    <2>3. gap' = gap + 1 /\ at' = at
      OBVIOUS
    <2> QED BY <2>1, <2>2, <2>3 DEF TypeOK, Times
  <1>5. KeptInv' BY DEF KeptInv
  <1> QED BY <1>1, <1>2, <1>3, <1>4, <1>5

LEMMA StepInv == IInv /\ [Next]_vars => IInv'
  <1> SUFFICES ASSUME IInv, [Next]_vars PROVE IInv'
    OBVIOUS
  <1>1. CASE \E c \in Callers : Now(c)
    BY <1>1, LockInv, ReadInv, StitchInv, UnlockInv DEF Now
  <1>2. CASE Count
    BY <1>2, CountInv
  <1>3. CASE UNCHANGED vars
    BY <1>3 DEF vars, IInv, TypeOK, LocalsInv, OrderInv, GapInv, KeptInv, Clock!NotBefore
  <1> QED BY <1>1, <1>2, <1>3 DEF Next

(* The inductive invariant of tp_now_cycles. *)
THEOREM Invariance == Spec => []IInv
  BY InitInv, StepInv, PTL DEF Spec

-------------------------------------------------------------------------------
(* Type correctness, and the lock: a caller inside holds it. *)
THEOREM TypeCorrect == Spec => []TypeOK
  <1>1. IInv => TypeOK BY DEF IInv
  <1> QED BY <1>1, Invariance, PTL

(* A reading is never ahead of the counter (no rollover is counted twice). *)
THEOREM NeverAheadCorrect == Spec => []NeverAhead
  <1>1. IInv => NeverAhead
    BY DEF IInv, OrderInv, TypeOK, Times, NeverAhead, Clock!NotBefore
  <1> QED BY <1>1, Invariance, PTL

(* A counter that is read once per rollover yields exact readings. *)
THEOREM ExactCorrect == Spec => []ReadingIsExact
  <1>1. IInv => ReadingIsExact
    <2> SUFFICES ASSUME IInv, polled, NEW c \in Callers, pc[c] = "stitched"
                 PROVE  <<s_hi, lo[c]>> = at
      BY DEF ReadingIsExact
    <2>1. \A d \in Callers : pc[d] # "read" BY DEF IInv, TypeOK
    <2>2. s_hi = at[1] /\ s_prev_lo = at[2] BY <2>1 DEF IInv, KeptInv
    <2>3. lo[c] = s_prev_lo BY DEF IInv, LocalsInv
    <2> QED BY <2>2, <2>3 DEF IInv, TypeOK, Times
  <1> QED BY <1>1, Invariance, PTL

(* Readings never go back: the module implements the promised clock. *)
THEOREM Monotonic == Spec => IsMonotonic
  <1>1. Init => Clock!Init
    BY DEF Init, Clock!Init
  <1>2. IInv /\ [Next]_vars => [Clock!Next]_last
    <2> SUFFICES ASSUME IInv, [Next]_vars PROVE Clock!Next \/ last' = last
      OBVIOUS
    <2>1. ASSUME NEW c \in Callers, Unlock(c) PROVE Clock!Next
      <3>1. lo[c] = s_prev_lo BY <2>1 DEF IInv, LocalsInv, Unlock
      <3>2. last' = <<s_hi, s_prev_lo>> BY <2>1, <3>1 DEF Unlock
      <3> QED BY <3>2 DEF IInv, OrderInv, TypeOK, Clock!Next, Clock!Readings
    <2>2. CASE UNCHANGED vars BY <2>2 DEF vars
    <2> QED BY <2>1, <2>2 DEF Next, Now, Lock, Read, Stitch, Count
  <1> QED BY <1>1, <1>2, Invariance, PTL DEF Spec, IsMonotonic, Clock!Spec
===============================================================================
