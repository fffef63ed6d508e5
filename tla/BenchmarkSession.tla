--------------------------- MODULE BenchmarkSession ---------------------------
(***************************************************************************)
(* The session record of PQClean/src/benchmark_control.c and what each     *)
(* call of its interface does to it.  A call is an operator from the       *)
(* record before the call to the record after it; benchmark_should_continue*)
(* returns a value besides, so it is a pair of operators, the effect and   *)
(* the answer.  Time stamps, names and messages are left out: nothing in   *)
(* the control flow reads them.                                            *)
(***************************************************************************)
EXTENDS Naturals

SessionStates == {"STOPPED", "RUNNING", "PAUSED", "COMPLETED", "ERROR"}

Sessions ==
    [state : SessionStates,
     total_kems : Nat, completed_kems : Nat, failed_kems : Nat,
     total_operations : Nat, completed_operations : Nat,
     should_stop : BOOLEAN, should_pause : BOOLEAN]

benchmark_session_init(kem_count) ==
    [state |-> "STOPPED",
     total_kems |-> kem_count, completed_kems |-> 0, failed_kems |-> 0,
     total_operations |-> kem_count * 3, completed_operations |-> 0,
     should_stop |-> FALSE, should_pause |-> FALSE]

(* The record before main() initialises it: static storage, all zero. *)
ZeroSession == benchmark_session_init(0)

benchmark_session_start(s) ==
    [s EXCEPT !.state = "RUNNING", !.should_stop = FALSE, !.should_pause = FALSE]

benchmark_session_pause(s) ==
    IF s.state = "RUNNING" THEN [s EXCEPT !.state = "PAUSED"] ELSE s

benchmark_session_stop(s) ==
    [s EXCEPT !.state = "STOPPED", !.should_stop = TRUE]

AllKemsCompleted_OneEarly(s) == s.total_kems > 0 /\ s.completed_kems + 1 >= s.total_kems
AllKemsCompleted(s) == s.total_kems > 0 /\ s.completed_kems >= s.total_kems

benchmark_should_continue(s) ==
    CASE s.should_stop                             -> benchmark_session_stop(s)
      [] s.should_pause /\ ~s.should_stop          -> benchmark_session_pause(s)
      [] AllKemsCompleted(s) /\ ~s.should_pause
                             /\ ~s.should_stop     -> [s EXCEPT !.state = "COMPLETED"]
      [] OTHER                                     -> s

MayContinue_IgnoresState(s) == ~s.should_stop /\ ~s.should_pause /\ ~AllKemsCompleted(s)
MayContinue(s) ==
    /\ ~s.should_stop
    /\ ~s.should_pause
    /\ ~AllKemsCompleted(s)
    /\ s.state = "RUNNING"

benchmark_update_progress(s) ==
    [s EXCEPT !.completed_operations = @ + 1]

benchmark_record_error(s) ==
    [s EXCEPT !.state = "ERROR"]

benchmark_record_kem_result_CountsAll(s, kem_index, slots, success) ==
    [s EXCEPT !.completed_kems = @ + 1]

(* benchmark_record_kem_result: the counters; the call returns at once for *)
(* an index outside g_kem_results[slots].                                  *)
benchmark_record_kem_result(s, kem_index, slots, success) ==
    IF kem_index >= slots THEN s
    ELSE IF success THEN [s EXCEPT !.completed_kems = @ + 1]
    ELSE [s EXCEPT !.failed_kems = @ + 1]
===============================================================================
