----------------------------- MODULE Orchestrator -----------------------------
(***************************************************************************)
(* main() of PQClean/src/main.c: one thread that discovers the KEMs and    *)
(* DSAs compiled in, checks that one of them works (step 0), validates     *)
(* each, and measures every operation of every enabled algorithm under the *)
(* session record of BenchmarkSession, printing one CSV row for each       *)
(* algorithm that succeeded.                                               *)
(*                                                                         *)
(* What the cryptographic code returns, and whether a measured value gets  *)
(* through a gate, is left open: any operation, validation or gate that    *)
(* can fail in the code may fail here.  A metric is represented by the     *)
(* algorithm it was measured on, which is what makes a row right or wrong. *)
(***************************************************************************)
EXTENDS BenchmarkSession, Integers, FiniteSets, Sequences

CONSTANTS
    NumKems,        \* kem_count after discovery
    NumSigns,       \* sign_count after discovery
    KemResultSlots  \* length of g_kem_results (16 in the code)

(* discover_and_register_all_kems has exactly sixteen register_kem calls. *)
ASSUME SizesAssumption ==
    /\ NumKems \in Nat
    /\ NumSigns \in Nat
    /\ KemResultSlots \in Nat
    /\ NumKems <= KemResultSlots

Kinds == {"KEM", "DSA"}
Count(k) == IF k = "KEM" THEN NumKems ELSE NumSigns
Indices(k) == 0 .. Count(k) - 1
Ops == 0 .. 2                    \* KEYPAIR ENCAPS DECAPS / KEYPAIR SIGN VERIFY

VARIABLES
    pc,              \* where main() is
    kind,            \* which of its two halves, the KEM loop or the DSA loop
    session,         \* g_benchmark_session
    enabled,         \* the entries of kem_registry and sign_registry with enabled set
    has_kems,        \* local of main()
    idx,             \* kem_idx or sign_idx
    op,              \* op_idx
    stage,           \* position inside run_comprehensive_benchmark_for_*
    sampled,         \* its local iterations, as iterations > 0
    success,         \* kem_success or sign_success
    current_results, \* current_results[] and current_sign_results[]
    results,         \* kem_results[] or sign_results[]
    tests,           \* total_tests and passed_tests
    rows,            \* the CSV rows printed so far
    begun,           \* history: the operations whose benchmark was called
    passed,          \* history: the operations whose benchmark returned true
    percent_defined  \* history: every percentage printed had a divisor # 0

vars == <<pc, kind, session, enabled, has_kems, idx, op, stage, sampled, success,
          current_results, results, tests, rows, begun, passed, percent_defined>>

loopVars == <<kind, idx, op, stage, sampled, success, current_results, results>>

-------------------------------------------------------------------------------
(* A result: the algorithm its baseline comes from (-1: zeroed) and the    *)
(* algorithms the later metrics (jitter, entropy, ...) were measured on.   *)
None == -1
ZeroResult == [base |-> None, later |-> {}]
ZeroResults == [o \in Ops |-> ZeroResult]

(* get_enabled_kem: the first enabled entry of the registry, whichever KEM *)
(* main() is at.  The DSA variants of the metrics are handed their sign.   *)
FirstOf(S) == CHOOSE i \in S : \A j \in S : i <= j
get_enabled_kem == FirstOf(enabled["KEM"])
MeasuredLater == IF kind = "KEM" THEN get_enabled_kem ELSE idx

(* The stages of one comprehensive benchmark.  The KEM one asks the session*)
(* at the start of each; the DSA one at the first two only.                *)
Stages(k) ==
    IF k = "KEM"
    THEN <<"measure", "baseline", "jitter", "entropy", "memory", "throttle",
           "energy", "profile", "final">>
    ELSE <<"measure", "baseline", "jitter", "energy", "entropy", "memory",
           "throttle", "profile">>

AsksSession(k, n) == k = "KEM" \/ n <= 2
GateMayFail(name) == name \in {"baseline", "jitter"}
LaterMetric(name) == name \in {"jitter", "entropy", "memory", "throttle", "energy", "profile"}

-------------------------------------------------------------------------------
Init ==
    /\ pc = "boot"
    /\ kind = "KEM"
    /\ session = ZeroSession
    /\ enabled = [k \in Kinds |-> {}]
    /\ has_kems = FALSE
    /\ idx = 0 /\ op = 0 /\ stage = 1
    /\ sampled = FALSE /\ success = FALSE
    /\ current_results = [k \in Kinds |-> ZeroResults]
    /\ results = ZeroResults
    /\ tests = [total |-> 0, passed |-> 0]
    /\ rows = {}
    /\ begun = {}
    /\ passed = {}
    /\ percent_defined = TRUE

(* init_default_kem, benchmark_session_init, discover_and_register_all_signs *)
Discover ==
    /\ pc = "boot"
    /\ pc' = "step0"
    /\ enabled' = [k \in Kinds |-> Indices(k)]
    /\ session' = benchmark_session_init(NumKems)
    /\ UNCHANGED <<loopVars, has_kems, tests, rows, begun, passed, percent_defined>>

(* step0_environment_setup: a key pair from the first KEM and from the     *)
(* first DSA; one success is enough, none ends main() with -1.             *)
step0_environment_setup ==
    /\ pc = "step0"
    /\ \E kem_tested, dsa_tested \in BOOLEAN :
          /\ kem_tested => NumKems > 0
          /\ dsa_tested => NumSigns > 0
          /\ pc' = IF kem_tested \/ dsa_tested THEN "validate" ELSE "failed"
    /\ UNCHANGED <<loopVars, session, enabled, has_kems, tests, rows, begun, passed,
                   percent_defined>>

(* validate_kem_api / validate_sign_api on one entry of the registry: it   *)
(* passes, or is disabled.                                                 *)
Validate ==
    /\ pc = "validate"
    /\ idx < Count(kind)
    /\ enabled' \in {enabled, [enabled EXCEPT ![kind] = @ \ {idx}]}
    /\ idx' = idx + 1
    /\ UNCHANGED <<pc, kind, session, has_kems, op, stage, sampled, success, current_results,
                   results, tests, rows, begun, passed, percent_defined>>

(* benchmark_print_status and benchmark_print_summary divide by the totals *)
(* of the session.                                                         *)
PrintStatus(s) == percent_defined' = (percent_defined /\ s.total_operations # 0)
PrintSummary(s) == percent_defined' = (percent_defined /\ s.total_kems # 0)

(* All KEMs validated: the session starts if one of them is usable. *)
StartKems ==
    /\ pc = "validate" /\ kind = "KEM" /\ idx = NumKems
    /\ idx' = 0
    /\ has_kems' = (enabled["KEM"] # {})
    /\ IF has_kems'
       THEN /\ session' = benchmark_session_start(session)
            /\ PrintStatus(session')
            /\ pc' = "algorithm"
            /\ kind' = kind
       ELSE /\ UNCHANGED <<session, percent_defined, pc>>
            /\ kind' = "DSA"
    /\ UNCHANGED <<enabled, op, stage, sampled, success, current_results, results, tests, rows,
                   begun, passed>>

(* All DSAs validated: the DSA loop, the summary, or the fatal error of a  *)
(* run that has no usable algorithm at all.                                *)
StartDsas ==
    /\ pc = "validate" /\ kind = "DSA" /\ idx = NumSigns
    /\ idx' = 0
    /\ LET has_dsas == enabled["DSA"] # {}
       IN  /\ pc' = IF has_dsas THEN "algorithm" ELSE IF has_kems THEN "finish" ELSE "failed"
           /\ session' = IF has_kems THEN session
                         ELSE IF has_dsas THEN benchmark_session_start(session)
                         ELSE benchmark_record_error(session)
           /\ IF has_dsas /\ ~has_kems THEN PrintStatus(session') ELSE UNCHANGED percent_defined
    /\ UNCHANGED <<kind, enabled, has_kems, op, stage, sampled, success, current_results, results,
                   tests, rows, begun, passed>>

(* Leaving a loop: from the KEM loop to the DSAs, from there to the end. *)
LeaveLoop_KeepsIndex ==
    /\ kind' = "DSA"
    /\ idx' = idx
    /\ pc' = IF kind = "KEM" THEN "validate" ELSE "finish"

LeaveLoop ==
    /\ kind' = "DSA"
    /\ idx' = 0
    /\ pc' = IF kind = "KEM" THEN "validate" ELSE "finish"

(* The index after a disabled algorithm: continue, in a for loop. *)
AfterSkip_Same == idx
AfterSkip == idx + 1

(* The head of the KEM loop or the DSA loop. *)
NextAlgorithm ==
    /\ pc = "algorithm"
    /\ LET asked == benchmark_should_continue(session)
       IN  IF idx < Count(kind) /\ MayContinue(session)
           THEN /\ kind' = kind
                /\ IF idx \in enabled[kind]
                   THEN /\ pc' = "operation"
                        /\ idx' = idx
                        /\ op' = 0
                        /\ success' = TRUE
                        /\ results' = ZeroResults
                        /\ IF kind = "KEM"
                           THEN /\ session' = benchmark_update_progress(asked)
                                /\ PrintStatus(asked)
                           ELSE session' = asked /\ UNCHANGED percent_defined
                   ELSE /\ idx' = AfterSkip
                        /\ session' = asked
                        /\ UNCHANGED <<pc, op, success, results, percent_defined>>
           ELSE /\ LeaveLoop
                /\ session' = IF idx < Count(kind) THEN asked ELSE session
                /\ UNCHANGED <<op, success, results, percent_defined>>
    /\ UNCHANGED <<enabled, has_kems, stage, sampled, current_results, tests, rows, begun, passed>>

(* The head of the loop over the three operations. *)
NextOperation ==
    /\ pc = "operation"
    /\ LET asked == benchmark_should_continue(session)
       IN  IF op < 3 /\ MayContinue(session)
           THEN /\ pc' = "run"
                /\ session' = IF kind = "KEM" THEN benchmark_update_progress(asked) ELSE asked
                /\ tests' = [tests EXCEPT !.total = @ + 1]
                /\ begun' = begun \cup {<<kind, idx, op>>}
           ELSE /\ pc' = "record"
                /\ session' = IF op < 3 THEN asked ELSE session
                /\ UNCHANGED <<tests, begun>>
    /\ UNCHANGED <<kind, enabled, has_kems, idx, op, stage, sampled, success, current_results,
                   results, rows, passed, percent_defined>>

-------------------------------------------------------------------------------
(* run_comprehensive_benchmark_for_kem / _for_sign, one stage a step. *)

(* kem_success and sign_success: any failure of the algorithm clears them. *)
SuccessAfter_LastOneDecides(value) == value
SuccessAfter(value) == success /\ value

(* What main() does with the value returned, s being the session then. *)
Return(s, value, result) ==
    /\ pc' = "operation"
    /\ op' = op + 1
    /\ stage' = 1
    /\ success' = SuccessAfter(value)
    /\ IF value
       THEN /\ tests' = [tests EXCEPT !.passed = @ + 1]
            /\ results' = [results EXCEPT ![op] = result]
            /\ passed' = passed \cup {<<kind, idx, op>>}
            /\ session' = s
       ELSE /\ session' = IF kind = "KEM" THEN benchmark_record_error(s) ELSE s
            /\ UNCHANGED <<tests, results, passed>>
    /\ percent_defined' = (percent_defined /\ (kind = "KEM" => s.total_operations # 0))

StageName == Stages(kind)[stage]

(* The session, asked if this stage asks it. *)
Asks == AsksSession(kind, stage)
Proceeds == Asks => MayContinue(session)
Asked == IF Asks THEN benchmark_should_continue(session) ELSE session

(* The result after the stage: memset and the dynamic iterations, which    *)
(* give samples or none, or one more metric.                               *)
StageResult(gotSamples) ==
    LET result == current_results[kind][op]
    IN  CASE StageName = "measure"  -> [base |-> IF gotSamples THEN idx ELSE None, later |-> {}]
          [] LaterMetric(StageName) -> [result EXCEPT !.later = @ \cup {MeasuredLater}]
          [] OTHER                  -> result

(* No samples: found out, and for a KEM recorded, when the baseline is due. *)
NoSamples == StageName = "baseline" /\ ~sampled
AfterNoSamples(s) ==
    IF Proceeds /\ NoSamples /\ kind = "KEM" THEN benchmark_record_error(s) ELSE s

RunStage ==
    /\ pc = "run"
    /\ sampled' \in IF StageName = "measure" THEN BOOLEAN ELSE {sampled}
    /\ current_results' = IF Proceeds
                          THEN [current_results EXCEPT ![kind][op] = StageResult(sampled')]
                          ELSE current_results
    /\ \E gate \in IF GateMayFail(StageName) THEN BOOLEAN ELSE {TRUE} :
          LET value == Proceeds /\ gate /\ ~NoSamples
          IN  IF value /\ stage < Len(Stages(kind))
              THEN /\ stage' = stage + 1
                   /\ session' = Asked
                   /\ UNCHANGED <<pc, op, tests, results, passed, success, percent_defined>>
              ELSE Return(AfterNoSamples(Asked), value, StageResult(sampled'))
    /\ UNCHANGED <<kind, enabled, has_kems, idx, rows, begun>>

-------------------------------------------------------------------------------
(* After the operations of one algorithm: the session's counters (KEM      *)
(* only), the CSV row, and the session asked once more.                    *)
Record ==
    /\ pc = "record"
    /\ rows' = IF success THEN rows \cup {[kind |-> kind, alg |-> idx, results |-> results]}
               ELSE rows
    /\ IF kind = "KEM"
       THEN LET s == benchmark_record_kem_result(session, idx, KemResultSlots, success)
            IN  /\ session' = benchmark_should_continue(s)
                /\ IF MayContinue(s)
                   THEN pc' = "algorithm" /\ idx' = idx + 1 /\ kind' = kind
                   ELSE LeaveLoop
       ELSE /\ pc' = "algorithm" /\ idx' = idx + 1 /\ kind' = kind
            /\ session' = session
    /\ UNCHANGED <<enabled, has_kems, op, stage, sampled, success, current_results, results, tests,
                   begun, passed, percent_defined>>

Finish ==
    /\ pc = "finish"
    /\ pc' = "halted"
    /\ session' = benchmark_session_stop(session)
    /\ PrintSummary(session')
    /\ UNCHANGED <<loopVars, enabled, has_kems, tests, rows, begun, passed>>

Terminated == pc \in {"halted", "failed"}

Next ==
    \/ Discover
    \/ step0_environment_setup
    \/ Validate
    \/ StartKems
    \/ StartDsas
    \/ NextAlgorithm
    \/ NextOperation
    \/ RunStage
    \/ Record
    \/ Finish

Spec == Init /\ [][Next]_vars

(* main() is the only thread of the model and nothing in it waits for      *)
(* another: the scheduler keeps running it.                                *)
FairSpec == Spec /\ WF_vars(Next)
-------------------------------------------------------------------------------
(* Properties *)

Results == [base : Int, later : SUBSET Int]
Rows == [kind : Kinds, alg : Int, results : [Ops -> Results]]

(* Every variable stays in its type. *)
TypeOK ==
    /\ pc \in {"boot", "step0", "validate", "algorithm", "operation", "run", "record",
               "finish", "halted", "failed"}
    /\ kind \in Kinds
    /\ session \in Sessions
    /\ enabled \in [Kinds -> SUBSET Nat]
    /\ \A k \in Kinds : enabled[k] \subseteq Indices(k)
    /\ has_kems \in BOOLEAN
    /\ idx \in 0 .. Count(kind)
    /\ op \in 0 .. 3
    /\ stage \in 1 .. Len(Stages(kind))
    /\ sampled \in BOOLEAN
    /\ success \in BOOLEAN
    /\ current_results \in [Kinds -> [Ops -> Results]]
    /\ results \in [Ops -> Results]
    /\ tests \in [total : Nat, passed : Nat]
    /\ rows \subseteq Rows
    /\ begun \subseteq Kinds \X Int \X Ops
    /\ passed \subseteq Kinds \X Int \X Ops
    /\ percent_defined \in BOOLEAN

(* A CSV row is printed only for an algorithm that went through all three  *)
(* of its benchmarks, and the baselines in it are that algorithm's own     *)
(* (main.c 1012-1038 and 1140-1158).                                       *)
RowsAreComplete ==
    \A r \in rows : \A o \in Ops :
        /\ <<r.kind, r.alg, o>> \in passed
        /\ r.results[o].base = r.alg

HasRow(k, i) == \E r \in rows : r.kind = k /\ r.alg = i

(* The session is COMPLETED only when every registered KEM, the ones that  *)
(* validation disabled included, has its row (benchmark_control.c 93-98).  *)
CompletedMeansAllKems ==
    session.state = "COMPLETED" => \A i \in Indices("KEM") : HasRow("KEM", i)

(* What the session and the final report count is what happened: completed *)
(* KEMs are the KEM rows, at most one KEM failed, total tests are the      *)
(* operations begun, and passed tests are those of them that passed.  With *)
(* a KEM compiled in no percentage is printed before its total is set      *)
(* (benchmark_control.c 195, 245; without one main() prints 0/0).          *)
CountsAreTrue ==
    /\ session.completed_kems = Cardinality({r.alg : r \in {x \in rows : x.kind = "KEM"}})
    /\ session.failed_kems <= 1
    /\ tests.total = Cardinality(begun)
    /\ tests.passed = Cardinality(passed)
    /\ passed \subseteq begun
    /\ NumKems > 0 => percent_defined

(* Once a KEM operation has failed no operation of any algorithm is begun: *)
(* the error state is left only by the stop that ends the campaign.        *)
ErrorIsFinal ==
    [][session.state = "ERROR" =>
          /\ begun' = begun
          /\ \/ session'.state = "ERROR"
             \/ session'.state = "STOPPED" /\ pc' = "halted"]_vars

(* A campaign in which no KEM failed leaves no enabled KEM without a row.  *)
NoSilentSkip ==
    pc = "halted" /\ session.failed_kems = 0
        => \A i \in enabled["KEM"] : HasRow("KEM", i)

(* Whatever fails, main() reaches its end. *)
Terminates == <>Terminated

-------------------------------------------------------------------------------
(* What the repository says of the campaign and the code does not do.      *)

Begun(k, i) == \E o \in Ops : <<k, i, o>> \in begun

(* "Error Recovery: ENABLED" (main.c:812): the failure of one KEM leaves   *)
(* every other enabled KEM its turn.                                       *)
EnabledKemsHaveTheirTurn ==
    pc = "halted" => \A i \in enabled["KEM"] : Begun("KEM", i)

(* "Universal DSA/Signature Benchmarking Loop (if DSA algorithms are       *)
(* registered)" (main.c:1056): a campaign with no failed KEM measures the  *)
(* DSAs it has validated.                                                  *)
DsasHaveTheirTurn ==
    pc = "halted" /\ session.failed_kems = 0
        => \A i \in enabled["DSA"] : Begun("DSA", i)

(* "measures KEM and signature operations in isolation" (README.md:17):    *)
(* every metric of a row comes from the row's own algorithm.               *)
RowsMeasureTheirOwnAlgorithm ==
    \A r \in rows : \A o \in Ops : r.results[o].later = {r.alg}
===============================================================================
