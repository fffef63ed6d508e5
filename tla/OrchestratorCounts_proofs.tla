----------------------- MODULE OrchestratorCounts_proofs -----------------------
(***************************************************************************)
(* Proofs about what the session and the final report of a campaign count, *)
(* and about what an error ends, for every number of KEMs and DSAs.  They  *)
(* rest on the invariant of Orchestrator_proofs.                           *)
(***************************************************************************)
EXTENDS Orchestrator_proofs, FiniteSetTheorems

-------------------------------------------------------------------------------
(* The inductive invariant *)

InLoop == pc \in {"algorithm", "operation", "run", "record"}

(* Nothing pauses the session and nothing but the end stops it; its totals *)
(* are those of discovery, so a percentage has a divisor.                  *)
TotalsInv ==
    /\ session.total_operations = IF pc = "boot" THEN 0 ELSE NumKems * 3
    /\ ~session.should_pause
    /\ pc # "halted" => ~session.should_stop
    /\ NumKems > 0 => percent_defined

(* The KEM loop goes on exactly as long as no KEM failed: the session may  *)
(* continue at its head and after a success, an algorithm that failed has  *)
(* left it in ERROR, and the failure that is counted ends the loop.        *)
FailureInv ==
    /\ pc = "algorithm" /\ kind = "KEM" => MayContinue(session)
    /\ pc = "record" /\ kind = "KEM" /\ success => MayContinue(session)
    /\ InAlgorithm /\ kind = "KEM" /\ ~success => session.state = "ERROR"
    /\ kind = "KEM" => session.failed_kems = 0
    /\ session.failed_kems <= 1

(* An ERROR is that of a KEM, not of the last one, or the fatal one of a   *)
(* campaign without an algorithm, which ends at once.                      *)
ErrorInv ==
    /\ pc \in {"finish", "halted"} => kind = "DSA"
    /\ kind = "KEM" /\ InLoop => has_kems
    /\ ~has_kems => session.completed_kems = 0
    /\ session.state = "ERROR" => ~AllKemsCompleted(session) /\ (has_kems \/ pc = "failed")

(* The algorithms with a KEM row are KEMs the loop has been through, and   *)
(* as many as the session counts.                                          *)
KemRows == {r.alg : r \in {x \in rows : x.kind = "KEM"}}
KemRowsInv ==
    /\ BeforeKems => rows = {}
    /\ ~BeforeKems => KemRows \subseteq 0 .. Done - 1
    /\ session.completed_kems = Cardinality(KemRows)

(* Until a KEM fails, every enabled KEM the loop has been through has one. *)
NoSkipInv ==
    /\ pc \in {"boot", "step0"} => kind = "KEM" /\ idx = 0
    /\ ~BeforeKems /\ session.failed_kems = 0
          => \A i \in enabled["KEM"] : i < Done => HasRow("KEM", i)

(* The operations the loops have been through: what is begun is behind the *)
(* program, so what it begins next is new.                                 *)
Behind(k, i, o) ==
    \/ k = "KEM" /\ kind = "DSA"
    \/ k = "DSA" /\ pc \in {"finish", "halted"}
    \/ k = kind /\ InLoop /\ i < idx
    \/ k = kind /\ InAlgorithm /\ i = idx /\ (o < op \/ (o = op /\ pc = "run"))

BegunInv ==
    /\ IsFiniteSet(begun)
    /\ \A b \in begun : Behind(b[1], b[2], b[3])
    /\ tests.total = Cardinality(begun)

PassedInv ==
    /\ passed \subseteq begun
    /\ pc = "run" => <<kind, idx, op>> \in begun \ passed
    /\ tests.passed = Cardinality(passed)

CInv ==
    /\ TotalsInv
    /\ FailureInv
    /\ ErrorInv
    /\ KemRowsInv
    /\ NoSkipInv
    /\ BegunInv
    /\ PassedInv
-------------------------------------------------------------------------------
(* What the calls of the session do *)

(* A session that nothing stopped or paused is only ever COMPLETED by being*)
(* asked, and only when all of its KEMs are.                               *)
LEMMA AskingIsQuiet ==
  ASSUME NEW s \in Sessions, ~s.should_stop, ~s.should_pause
  PROVE  benchmark_should_continue(s)
           = IF AllKemsCompleted(s) THEN [s EXCEPT !.state = "COMPLETED"] ELSE s
  BY DEF benchmark_should_continue

(* A measured stage goes on to the next, or returns success or failure; a  *)
(* failure is an error of the session only in the KEM loop.                *)
StageOn ==
    /\ pc' = "run" /\ op' = op /\ success' = success /\ session' = session
    /\ tests' = tests /\ passed' = passed /\ percent_defined' = percent_defined

StagePassed ==
    /\ pc' = "operation" /\ op' = op + 1 /\ success' = success /\ session' = session
    /\ tests' = [tests EXCEPT !.passed = @ + 1]
    /\ passed' = passed \cup {<<kind, idx, op>>}
    /\ percent_defined' = (percent_defined /\ (kind = "KEM" => session.total_operations # 0))

StageFailed ==
    /\ pc' = "operation" /\ op' = op + 1 /\ success' = FALSE
    /\ session' = IF kind = "KEM" THEN benchmark_record_error(session) ELSE session
    /\ tests' = tests /\ passed' = passed
    /\ percent_defined' = (percent_defined /\ (kind = "KEM" => session.total_operations # 0))

LEMMA RunStageOutcome ==
  ASSUME IInv, RunStage
  PROVE  /\ pc = "run" /\ kind' = kind /\ idx' = idx /\ enabled' = enabled
         /\ has_kems' = has_kems /\ rows' = rows /\ begun' = begun
         /\ StageOn \/ StagePassed \/ StageFailed
  <1>1. /\ pc = "run" /\ kind' = kind /\ idx' = idx /\ enabled' = enabled
        /\ has_kems' = has_kems /\ rows' = rows /\ begun' = begun
    BY DEF RunStage
  <1>2. session \in Sessions /\ Asked = session
    BY <1>1, AskingTheSession DEF IInv, OperationsInv, Asked, TypeOK
  <1>3. PICK gate \in IF GateMayFail(StageName) THEN BOOLEAN ELSE {TRUE} :
           LET value == Proceeds /\ gate /\ ~NoSamples
           IN  IF value /\ stage < Len(Stages(kind))
               THEN /\ stage' = stage + 1
                    /\ session' = Asked
                    /\ UNCHANGED <<pc, op, tests, results, passed, success, percent_defined>>
               ELSE Return(AfterNoSamples(Asked), value, StageResult(sampled'))
    BY DEF RunStage
  <1> DEFINE value == Proceeds /\ gate /\ ~NoSamples
  <1>4. CASE value /\ stage < Len(Stages(kind))
    BY <1>1, <1>2, <1>3, <1>4 DEF StageOn
  <1>5. CASE ~(value /\ stage < Len(Stages(kind)))
    <2>1. Return(AfterNoSamples(session), value, StageResult(sampled'))
      BY <1>2, <1>3, <1>5
    <2>2. value => AfterNoSamples(session) = session
      BY DEF AfterNoSamples
    <2>3. AfterNoSamples(session) \in {session, benchmark_record_error(session)}
      BY DEF AfterNoSamples
    <2>4. kind # "KEM" => AfterNoSamples(session) = session
      BY DEF AfterNoSamples
    <2>5. benchmark_record_error(benchmark_record_error(session))
             = benchmark_record_error(session)
      BY <1>2 DEF benchmark_record_error, Sessions
    <2>6. AfterNoSamples(session).total_operations = session.total_operations
      BY <1>2, <2>3 DEF benchmark_record_error, Sessions
    <2> HIDE DEF value
    <2>7. CASE value
      BY <1>1, <2>1, <2>2, <2>7 DEF Return, SuccessAfter, StagePassed, TypeOK, IInv
    <2>8. CASE ~value
      BY <1>1, <2>1, <2>3, <2>4, <2>5, <2>6, <2>8 DEF Return, SuccessAfter, StageFailed
    <2> QED BY <2>7, <2>8
  <1> QED BY <1>1, <1>4, <1>5

(* At the end of a KEM the session counts it as completed or as failed.    *)
LEMMA RecordOutcome ==
  ASSUME IInv, TotalsInv, Record, kind = "KEM"
  PROVE  /\ pc = "record" /\ enabled' = enabled /\ has_kems' = has_kems
         /\ tests' = tests /\ begun' = begun /\ passed' = passed /\ success' = success
         /\ percent_defined' = percent_defined
         /\ idx \in Nat /\ idx < NumKems /\ Done = idx
         /\ LET s == benchmark_record_kem_result(session, idx, KemResultSlots, success)
            IN  /\ s = IF success
                       THEN [session EXCEPT !.completed_kems = @ + 1]
                       ELSE [session EXCEPT !.failed_kems = @ + 1]
                /\ s \in Sessions
                /\ session' = IF AllKemsCompleted(s) THEN [s EXCEPT !.state = "COMPLETED"] ELSE s
                /\ \/ MayContinue(s) /\ pc' = "algorithm" /\ idx' = idx + 1 /\ kind' = "KEM"
                   \/ ~MayContinue(s) /\ pc' = "validate" /\ idx' = 0 /\ kind' = "DSA"
         /\ rows' = IF success THEN rows \cup {[kind |-> kind, alg |-> idx, results |-> results]}
                    ELSE rows
  <1> DEFINE s == benchmark_record_kem_result(session, idx, KemResultSlots, success)
  <1>1. idx \in Nat /\ idx < NumKems /\ ~(idx >= KemResultSlots) /\ Done = idx
    <2>1. idx \in Indices("KEM")
      BY DEF IInv, OperationsInv, InAlgorithm, TypeOK, Record
    <2> QED BY <2>1, SizesAssumption DEF Indices, Count, Done
  <1>2. session \in Sessions /\ success \in BOOLEAN
    BY DEF IInv, TypeOK
  <1>3. /\ s = IF success
               THEN [session EXCEPT !.completed_kems = @ + 1]
               ELSE [session EXCEPT !.failed_kems = @ + 1]
        /\ s \in Sessions
    BY <1>1, <1>2, SessionTyping DEF benchmark_record_kem_result
  <1>4. ~s.should_stop /\ ~s.should_pause
    BY <1>2, <1>3 DEF TotalsInv, Record, Sessions
  <1>5. benchmark_should_continue(s)
          = IF AllKemsCompleted(s) THEN [s EXCEPT !.state = "COMPLETED"] ELSE s
    BY <1>3, <1>4, AskingIsQuiet
  <1> HIDE DEF s
  <1>6. /\ session' = benchmark_should_continue(s)
        /\ IF MayContinue(s)
           THEN pc' = "algorithm" /\ idx' = idx + 1 /\ kind' = kind
           ELSE LeaveLoop
    BY DEF Record, s
  <1>7. /\ \/ MayContinue(s) /\ pc' = "algorithm" /\ idx' = idx + 1 /\ kind' = "KEM"
           \/ ~MayContinue(s) /\ pc' = "validate" /\ idx' = 0 /\ kind' = "DSA"
    BY <1>6 DEF LeaveLoop
  <1> QED BY <1>1, <1>3, <1>5, <1>6, <1>7 DEF Record, s

LEMMA InitCounts == Init => CInv
  <1> SUFFICES ASSUME Init PROVE CInv
    OBVIOUS
  <1> USE DEF Init, ZeroSession, benchmark_session_init
  <1>1. TotalsInv /\ FailureInv /\ ErrorInv
    BY DEF TotalsInv, FailureInv, ErrorInv, InAlgorithm, InLoop, AllKemsCompleted
  <1>2. KemRowsInv
    <2>1. KemRows = {} BY DEF KemRows
    <2> QED BY <2>1, FS_EmptySet DEF KemRowsInv, BeforeKems
  <1>3. NoSkipInv /\ BegunInv /\ PassedInv
    BY FS_EmptySet DEF NoSkipInv, BeforeKems, BegunInv, PassedInv
  <1> QED BY <1>1, <1>2, <1>3 DEF CInv
-------------------------------------------------------------------------------
(* Every step keeps each part of the invariant *)

LEMMA TotalsStep == IInv /\ CInv /\ [Next]_vars => TotalsInv'
  <1> SUFFICES ASSUME IInv, CInv, [Next]_vars PROVE TotalsInv'
    OBVIOUS
  <1> USE SizesAssumption DEF TotalsInv
  <1>1. session \in Sessions /\ percent_defined \in BOOLEAN /\ TotalsInv
    BY DEF IInv, TypeOK, CInv
  <1>2. CASE Discover
    BY <1>1, <1>2 DEF Discover, benchmark_session_init
  <1>3. CASE step0_environment_setup \/ Validate
    BY <1>1, <1>3 DEF step0_environment_setup, Validate
  <1>4. CASE StartKems
    <2>1. pc = "validate" /\ pc' \in {"validate", "algorithm"}
      BY <1>4 DEF StartKems
    <2>2. CASE has_kems'
      <3>1. /\ session' = benchmark_session_start(session)
            /\ percent_defined' = (percent_defined /\ session'.total_operations # 0)
        BY <1>4, <2>2 DEF StartKems, PrintStatus
      <3> QED BY <1>1, <2>1, <3>1 DEF benchmark_session_start, Sessions
    <2>3. CASE ~has_kems'
      BY <1>1, <1>4, <2>1, <2>3 DEF StartKems
    <2> QED BY <2>2, <2>3
  <1>5. CASE StartDsas
    BY <1>1, <1>5
    DEF StartDsas, benchmark_session_start, benchmark_record_error, PrintStatus, Sessions
  <1>6. CASE NextAlgorithm \/ NextOperation
    <2> DEFINE asked == benchmark_should_continue(session)
    <2>1. /\ asked \in Sessions /\ asked.total_operations = session.total_operations
          /\ ~asked.should_stop /\ ~asked.should_pause
      BY <1>1, <1>6, AskingIsQuiet, SessionTyping
      DEF NextAlgorithm, AfterSkip, NextOperation, Sessions
    <2>2. pc \notin {"boot", "halted"} /\ pc' \notin {"boot", "halted"}
      BY <1>6 DEF NextAlgorithm, AfterSkip, LeaveLoop, NextOperation
    <2>3. session' \in {session, asked, benchmark_update_progress(asked)}
      BY <1>6 DEF NextAlgorithm, AfterSkip, NextOperation
    <2>4. percent_defined' = percent_defined
             \/ percent_defined' = (percent_defined /\ asked.total_operations # 0)
      BY <1>6 DEF NextAlgorithm, AfterSkip, NextOperation, PrintStatus
    <2> HIDE DEF asked
    <2>5. benchmark_update_progress(asked).total_operations = asked.total_operations
          /\ benchmark_update_progress(asked).should_stop = asked.should_stop
          /\ benchmark_update_progress(asked).should_pause = asked.should_pause
      BY <2>1 DEF benchmark_update_progress, Sessions
    <2>6. /\ session'.total_operations = NumKems * 3
          /\ ~session'.should_stop /\ ~session'.should_pause
      BY <1>1, <2>1, <2>2, <2>3, <2>5
    <2>7. NumKems > 0 => asked.total_operations # 0
      BY <1>1, <2>1, <2>2
    <2> QED BY <1>1, <2>2, <2>4, <2>6, <2>7
  <1>7. CASE RunStage
    <2>1. /\ session' \in {session, benchmark_record_error(session)}
          /\ pc = "run" /\ pc' \in {"run", "operation"}
      BY <1>7, RunStageOutcome DEF StageOn, StagePassed, StageFailed
    <2>2. /\ benchmark_record_error(session).total_operations = session.total_operations
          /\ benchmark_record_error(session).should_stop = session.should_stop
          /\ benchmark_record_error(session).should_pause = session.should_pause
      BY <1>1 DEF benchmark_record_error, Sessions
    <2>3. \/ percent_defined' = percent_defined
          \/ percent_defined' = (percent_defined /\ (kind = "KEM" => session.total_operations # 0))
      BY <1>7, RunStageOutcome DEF StageOn, StagePassed, StageFailed
    <2>4. NumKems > 0 => percent_defined'
      <3>1. NumKems > 0 => session.total_operations # 0
        BY <1>1, <2>1
      <3> QED BY <1>1, <2>3, <3>1, Zenon
    <2> QED BY <1>1, <2>1, <2>2, <2>4
  <1>8. CASE Record
    <2>1. CASE kind = "KEM"
      <3> DEFINE s == benchmark_record_kem_result(session, idx, KemResultSlots, success)
      <3>1. /\ s \in Sessions /\ s.total_operations = session.total_operations
            /\ s.should_pause = session.should_pause /\ s.should_stop = session.should_stop
            /\ session' = IF AllKemsCompleted(s) THEN [s EXCEPT !.state = "COMPLETED"] ELSE s
        BY <1>1, <1>8, <2>1, RecordOutcome DEF Sessions
      <3>2. pc = "record" /\ pc' \notin {"boot", "halted"} /\ percent_defined' = percent_defined
        BY <1>1, <1>8, <2>1, RecordOutcome
      <3> HIDE DEF s
      <3> QED BY <1>1, <3>1, <3>2 DEF Sessions
    <2>2. CASE kind # "KEM"
      BY <1>1, <1>8, <2>2 DEF Record
    <2> QED BY <2>1, <2>2
  <1>9. CASE Finish
    BY <1>1, <1>9 DEF Finish, benchmark_session_stop, PrintSummary, Sessions, IInv, CompletionInv
  <1>10. CASE UNCHANGED vars
    BY <1>1, <1>10 DEF vars
  <1> QED BY <1>2, <1>3, <1>4, <1>5, <1>6, <1>7, <1>8, <1>9, <1>10 DEF Next

LEMMA FailureStep == IInv /\ CInv /\ [Next]_vars => FailureInv'
  <1> SUFFICES ASSUME IInv, CInv, [Next]_vars PROVE FailureInv'
    OBVIOUS
  <1> USE SizesAssumption DEF FailureInv, InAlgorithm
  <1>1. /\ session \in Sessions /\ FailureInv /\ TotalsInv /\ OperationsInv /\ CompletionInv
        /\ enabled["KEM"] \subseteq 0 .. NumKems - 1 /\ kind \in {"KEM", "DSA"} /\ op \in 0 .. 3
    BY DEF IInv, TypeOK, CInv, Kinds, Indices, Count
  <1>2. CASE Discover
    BY <1>1, <1>2 DEF Discover, loopVars, benchmark_session_init
  <1>3. CASE step0_environment_setup \/ Validate
    BY <1>1, <1>3 DEF step0_environment_setup, Validate, loopVars
  <1>4. CASE StartKems
    <2>1. CASE has_kems'
      <3>1. NumKems > 0
        <4>1. enabled["KEM"] # {} BY <1>4, <2>1 DEF StartKems
        <4> QED BY <1>1, <4>1
      <3>2. /\ session' = benchmark_session_start(session) /\ pc' = "algorithm"
            /\ session.completed_kems = 0 /\ session.total_kems = NumKems
            /\ session.failed_kems = 0
        BY <1>1, <1>4, <2>1 DEF StartKems, CompletionInv, BeforeKems
      <3>3. MayContinue(session') /\ session'.failed_kems = 0
        BY <1>1, <3>1, <3>2
        DEF benchmark_session_start, MayContinue, AllKemsCompleted, Sessions
      <3> QED BY <1>1, <3>2, <3>3
    <2>2. CASE ~has_kems'
      BY <1>1, <1>4, <2>2 DEF StartKems
    <2> QED BY <2>1, <2>2
  <1>5. CASE StartDsas
    BY <1>1, <1>5 DEF StartDsas, benchmark_session_start, benchmark_record_error, Sessions
  <1>6. CASE NextAlgorithm
    <2> DEFINE asked == benchmark_should_continue(session)
    <2>1. asked.failed_kems = session.failed_kems
      BY <1>1, <1>6, AskingIsQuiet DEF TotalsInv, NextAlgorithm, AfterSkip, Sessions
    <2>2. kind = "KEM" => asked = session /\ MayContinue(session)
      BY <1>1, <1>6, AskingTheSession DEF NextAlgorithm, AfterSkip
    <2>3. asked \in Sessions BY <1>1, SessionTyping
    <2>4. session' \in {session, asked, benchmark_update_progress(asked)}
      BY <1>6 DEF NextAlgorithm, AfterSkip
    <2>5. session'.failed_kems = session.failed_kems
      BY <2>1, <2>3, <2>4 DEF benchmark_update_progress, Sessions
    <2>6. \/ /\ kind' = kind /\ pc' = "operation" /\ success' = TRUE
          \/ /\ kind' = kind /\ pc' = "algorithm" /\ session' = asked
          \/ /\ kind' = "DSA"
      BY <1>6 DEF NextAlgorithm, AfterSkip, LeaveLoop
    <2> HIDE DEF asked
    <2> QED BY <1>1, <2>2, <2>5, <2>6
  <1>7. CASE NextOperation
    <2> DEFINE asked == benchmark_should_continue(session)
    <2>1. asked.failed_kems = session.failed_kems /\ asked \in Sessions
      BY <1>1, <1>7, AskingIsQuiet, SessionTyping DEF TotalsInv, NextOperation, Sessions
    <2>2. session' \in {session, asked, benchmark_update_progress(asked)}
      BY <1>7 DEF NextOperation
    <2>3. session'.failed_kems = session.failed_kems
      BY <2>1, <2>2 DEF benchmark_update_progress, Sessions
    <2>4. ASSUME kind = "KEM", success
          PROVE  pc' = "record" => MayContinue(session')
      <3>1. MayContinue(session) BY <1>1, <1>7, <2>4 DEF OperationsInv, NextOperation
      <3> QED BY <1>7, <3>1 DEF NextOperation
    <2>5. ASSUME kind = "KEM", ~success
          PROVE  session'.state = "ERROR"
      <3>1. session.state = "ERROR" /\ ~AllKemsCompleted(session)
        BY <1>1, <1>7, <2>5 DEF NextOperation, CInv, ErrorInv
      <3>2. asked = session
        BY <1>1, <1>7, <3>1, AskingIsQuiet DEF TotalsInv, NextOperation
      <3> QED BY <1>1, <2>2, <3>1, <3>2 DEF benchmark_update_progress, Sessions
    <2>6. kind' = kind /\ success' = success /\ pc' \in {"run", "record"}
      BY <1>7 DEF NextOperation
    <2> QED BY <1>1, <2>3, <2>4, <2>5, <2>6
  <1>8. CASE RunStage
    BY <1>1, <1>8, RunStageOutcome
    DEF StageOn, StagePassed, StageFailed, benchmark_record_error, Sessions
  <1>9. CASE Record
    <2>1. CASE kind = "KEM"
      <3> DEFINE s == benchmark_record_kem_result(session, idx, KemResultSlots, success)
      <3>1. /\ s = IF success
                   THEN [session EXCEPT !.completed_kems = @ + 1]
                   ELSE [session EXCEPT !.failed_kems = @ + 1]
            /\ s \in Sessions
            /\ session' = IF AllKemsCompleted(s) THEN [s EXCEPT !.state = "COMPLETED"] ELSE s
            /\ \/ MayContinue(s) /\ pc' = "algorithm" /\ kind' = "KEM"
               \/ ~MayContinue(s) /\ pc' = "validate" /\ kind' = "DSA"
        BY <1>1, <1>9, <2>1, RecordOutcome
      <3>2. ~success => ~MayContinue(s)
        BY <1>1, <1>9, <2>1, <3>1 DEF MayContinue, Record, Sessions
      <3>3. s.failed_kems = IF success THEN 0 ELSE 1
        BY <1>1, <2>1, <3>1 DEF Sessions
      <3> HIDE DEF s
      <3>4. session'.failed_kems = s.failed_kems
        BY <3>1 DEF Sessions
      <3>5. MayContinue(s) => session' = s
        BY <3>1 DEF MayContinue
      <3> QED BY <3>1, <3>2, <3>3, <3>4, <3>5
    <2>2. CASE kind # "KEM"
      BY <1>1, <1>9, <2>2 DEF Record
    <2> QED BY <2>1, <2>2
  <1>10. CASE Finish
    BY <1>1, <1>10 DEF Finish, loopVars, benchmark_session_stop, Sessions
  <1>11. CASE UNCHANGED vars
    BY <1>1, <1>11 DEF vars, TypeOK, Count
  <1> QED BY <1>2, <1>3, <1>4, <1>5, <1>6, <1>7, <1>8, <1>9, <1>10, <1>11 DEF Next

LEMMA ErrorStep == IInv /\ CInv /\ [Next]_vars => ErrorInv'
  <1> SUFFICES ASSUME IInv, CInv, [Next]_vars PROVE ErrorInv'
    OBVIOUS
  <1> USE SizesAssumption DEF ErrorInv, InLoop, AllKemsCompleted
  <1>1. /\ session \in Sessions /\ ErrorInv /\ TotalsInv /\ OperationsInv /\ CompletionInv
        /\ has_kems \in BOOLEAN /\ kind \in {"KEM", "DSA"}
    BY DEF IInv, TypeOK, CInv, Kinds
  <1>2. CASE Discover
    BY <1>1, <1>2 DEF Discover, loopVars, benchmark_session_init, CompletionInv, BeforeKems
  <1>3. CASE step0_environment_setup \/ Validate
    BY <1>1, <1>3 DEF step0_environment_setup, Validate, loopVars, CompletionInv, BeforeKems
  <1>4. CASE StartKems
    <2>1. session.state = "STOPPED" /\ session.completed_kems = 0 /\ kind = "KEM"
      BY <1>1, <1>4 DEF StartKems, CompletionInv, BeforeKems
    <2>2. session'.state # "ERROR" /\ session'.completed_kems = 0
      BY <1>1, <1>4, <2>1 DEF StartKems, benchmark_session_start, Sessions
    <2>3. pc' \notin {"finish", "halted"} /\ (kind' = "KEM" => has_kems')
      BY <1>4, <2>1 DEF StartKems
    <2> QED BY <2>2, <2>3
  <1>5. CASE StartDsas
    <2>1. /\ pc = "validate" /\ kind = "DSA" /\ kind' = "DSA" /\ has_kems' = has_kems
          /\ pc' \in {"algorithm", "finish", "failed"}
      BY <1>5 DEF StartDsas
    <2>2. CASE has_kems
      BY <1>1, <1>5, <2>1, <2>2 DEF StartDsas
    <2>3. CASE ~has_kems /\ enabled["DSA"] # {}
      <3>1. session' = benchmark_session_start(session)
        BY <1>5, <2>3 DEF StartDsas
      <3> QED BY <1>1, <2>1, <2>3, <3>1 DEF benchmark_session_start, Sessions
    <2>4. CASE ~has_kems /\ enabled["DSA"] = {}
      <3>1. session' = benchmark_record_error(session) /\ pc' = "failed"
        BY <1>5, <2>4 DEF StartDsas
      <3>2. session.completed_kems = 0 BY <1>1, <2>4
      <3> QED BY <1>1, <2>1, <2>4, <3>1, <3>2 DEF benchmark_record_error, Sessions
    <2> QED BY <1>1, <2>2, <2>3, <2>4
  <1>6. CASE NextAlgorithm \/ NextOperation
    <2> DEFINE asked == benchmark_should_continue(session)
    <2>1. asked = IF AllKemsCompleted(session) THEN [session EXCEPT !.state = "COMPLETED"]
                  ELSE session
      BY <1>1, <1>6, AskingIsQuiet DEF TotalsInv, NextAlgorithm, AfterSkip, NextOperation
    <2>2. session' \in {session, asked, benchmark_update_progress(asked)}
      BY <1>6 DEF NextAlgorithm, AfterSkip, NextOperation
    <2> HIDE DEF asked
    <2>3. /\ asked \in Sessions /\ asked.completed_kems = session.completed_kems
          /\ asked.total_kems = session.total_kems
          /\ asked.state = "ERROR" => session.state = "ERROR"
      BY <1>1, <2>1 DEF Sessions, SessionStates
    <2>4. /\ session'.completed_kems = session.completed_kems
          /\ session'.total_kems = session.total_kems
          /\ session'.state = "ERROR" => session.state = "ERROR"
      BY <1>1, <2>2, <2>3 DEF benchmark_update_progress, Sessions
    <2>5. pc \in {"algorithm", "operation"} /\ has_kems' = has_kems
      BY <1>6 DEF NextAlgorithm, NextOperation
    <2>6. /\ pc' \notin {"failed", "halted"} /\ kind' \in {kind, "DSA"}
          /\ pc' = "finish" => kind' = "DSA"
      BY <1>6 DEF NextAlgorithm, AfterSkip, NextOperation, LeaveLoop
    <2> QED BY <1>1, <2>4, <2>5, <2>6
  <1>7. CASE RunStage
    <2>1. /\ pc = "run" /\ pc' \in {"run", "operation"} /\ kind' = kind /\ has_kems' = has_kems
          /\ session' = session \/ (kind = "KEM" /\ session' = benchmark_record_error(session))
      BY <1>7, RunStageOutcome DEF StageOn, StagePassed, StageFailed
    <2>2. ~AllKemsCompleted(session)
      BY <1>1, <2>1 DEF OperationsInv, MayContinue
    <2>3. session'.completed_kems = session.completed_kems /\ session'.total_kems = session.total_kems
      BY <1>1, <2>1 DEF benchmark_record_error, Sessions
    <2>4. session'.state = "ERROR" => has_kems
      BY <1>1, <2>1
    <2> QED BY <1>1, <2>1, <2>2, <2>3, <2>4
  <1>8. CASE Record
    <2>1. CASE kind = "KEM"
      <3> DEFINE s == benchmark_record_kem_result(session, idx, KemResultSlots, success)
      <3>1. /\ s = IF success
                   THEN [session EXCEPT !.completed_kems = @ + 1]
                   ELSE [session EXCEPT !.failed_kems = @ + 1]
            /\ session' = IF AllKemsCompleted(s) THEN [s EXCEPT !.state = "COMPLETED"] ELSE s
            /\ s \in Sessions /\ pc = "record" /\ has_kems' = has_kems
            /\ pc' \in {"algorithm", "validate"}
        BY <1>1, <1>8, <2>1, RecordOutcome DEF CInv
      <3> HIDE DEF s
      <3>2. has_kems BY <1>1, <2>1, <3>1
      <3>3. session'.state = "ERROR" => ~AllKemsCompleted(session')
        BY <3>1 DEF Sessions
      <3> QED BY <3>1, <3>2, <3>3
    <2>2. CASE kind # "KEM"
      BY <1>1, <1>8, <2>2 DEF Record
    <2> QED BY <2>1, <2>2
  <1>9. CASE Finish
    BY <1>1, <1>9 DEF Finish, loopVars, benchmark_session_stop, Sessions
  <1>10. CASE UNCHANGED vars
    BY <1>1, <1>10 DEF vars
  <1> QED BY <1>2, <1>3, <1>4, <1>5, <1>6, <1>7, <1>8, <1>9, <1>10 DEF Next

(* A row of a KEM is one more: the loop has not been at this KEM before. *)
LEMMA KemRowsStep == IInv /\ CInv /\ [Next]_vars => KemRowsInv'
  <1> SUFFICES ASSUME IInv, CInv, [Next]_vars PROVE KemRowsInv'
    OBVIOUS
  <1> USE SizesAssumption
  <1>1. /\ session \in Sessions /\ KemRowsInv /\ TotalsInv /\ OperationsInv /\ CompletionInv
        /\ kind \in {"KEM", "DSA"} /\ idx \in Nat /\ Done \in Nat
    BY DEF IInv, TypeOK, CInv, Kinds, Count, Done
  <1>2. ASSUME rows' = rows, session'.completed_kems = session.completed_kems,
               BeforeKems' => BeforeKems,
               ~BeforeKems => Done' \in Nat /\ Done <= Done'
        PROVE  KemRowsInv'
    <2>1. KemRows' = KemRows BY <1>2 DEF KemRows
    <2>2. BeforeKems => KemRows = {} BY <1>1 DEF KemRowsInv, KemRows
    <2> QED BY <1>1, <1>2, <2>1, <2>2 DEF KemRowsInv
  <1>3. CASE Discover
    BY <1>2, <1>3 DEF Discover, loopVars, benchmark_session_init, BeforeKems, IInv, CompletionInv
  <1>4. CASE step0_environment_setup \/ Validate
    BY <1>1, <1>2, <1>4
    DEF step0_environment_setup, Validate, loopVars, BeforeKems, Done
  <1>5. CASE StartKems
    <2>1. session'.completed_kems = session.completed_kems
      BY <1>1, <1>5 DEF StartKems, benchmark_session_start, Sessions
    <2> QED BY <1>1, <1>2, <1>5, <2>1 DEF StartKems, BeforeKems
  <1>6. CASE StartDsas
    <2>1. session'.completed_kems = session.completed_kems
      BY <1>1, <1>6 DEF StartDsas, benchmark_session_start, benchmark_record_error, Sessions
    <2> QED BY <1>1, <1>2, <1>6, <2>1 DEF StartDsas, BeforeKems, Done
  <1>7. CASE NextAlgorithm \/ NextOperation
    <2>1. session'.completed_kems = session.completed_kems
      BY <1>1, <1>7, AskingTheSession, SessionTyping
      DEF NextAlgorithm, AfterSkip, NextOperation, benchmark_update_progress, Sessions
    <2>2. rows' = rows /\ pc \in {"algorithm", "operation"}
      BY <1>7 DEF NextAlgorithm, NextOperation
    <2>3. \/ kind' = kind /\ idx' \in {idx, idx + 1} /\ pc' \notin {"boot", "step0", "validate"}
          \/ kind' = "DSA"
      BY <1>7 DEF NextAlgorithm, AfterSkip, LeaveLoop, NextOperation
    <2>4. pc' \notin {"boot", "step0"}
      BY <1>7 DEF NextAlgorithm, AfterSkip, LeaveLoop, NextOperation
    <2>5. ~BeforeKems' BY <2>3, <2>4 DEF BeforeKems
    <2>6. Done <= NumKems BY DEF Done, IInv, TypeOK, Count
    <2>7. Done' \in Nat /\ Done <= Done'
      BY <1>1, <2>3, <2>6 DEF Done
    <2> QED BY <1>2, <2>1, <2>2, <2>5, <2>7
  <1>8. CASE RunStage
    <2>1. /\ pc = "run" /\ pc' \in {"run", "operation"} /\ kind' = kind /\ idx' = idx
          /\ session' \in {session, benchmark_record_error(session)} /\ rows' = rows
      BY <1>8, RunStageOutcome DEF StageOn, StagePassed, StageFailed
    <2>2. session'.completed_kems = session.completed_kems
      BY <1>1, <2>1 DEF benchmark_record_error, Sessions
    <2> QED BY <1>1, <1>2, <2>1, <2>2 DEF BeforeKems, Done
  <1>9. CASE Record
    <2>1. CASE kind = "KEM"
      <3> DEFINE s == benchmark_record_kem_result(session, idx, KemResultSlots, success)
                 row == [kind |-> kind, alg |-> idx, results |-> results]
      <3>1. /\ s = IF success
                   THEN [session EXCEPT !.completed_kems = @ + 1]
                   ELSE [session EXCEPT !.failed_kems = @ + 1]
            /\ session' = IF AllKemsCompleted(s) THEN [s EXCEPT !.state = "COMPLETED"] ELSE s
            /\ s \in Sessions /\ pc = "record" /\ Done = idx /\ idx < NumKems
            /\ rows' = IF success THEN rows \cup {row} ELSE rows
            /\ \/ pc' = "algorithm" /\ idx' = idx + 1 /\ kind' = "KEM"
               \/ pc' = "validate" /\ idx' = 0 /\ kind' = "DSA"
        BY <1>1, <1>9, <2>1, RecordOutcome
      <3>2. session'.completed_kems
               = IF success THEN session.completed_kems + 1 ELSE session.completed_kems
        BY <1>1, <3>1 DEF Sessions
      <3>3. ~BeforeKems /\ ~BeforeKems' /\ Done' \in Nat /\ idx + 1 <= Done'
        BY <1>1, <3>1 DEF BeforeKems, Done
      <3>4. KemRows \subseteq 0 .. idx - 1
        BY <1>1, <3>1, <3>3 DEF KemRowsInv
      <3>5. CASE success
        <4>1. row.kind = "KEM" /\ row.alg = idx BY <2>1
        <4>2. rows' = rows \cup {row} BY <3>1, <3>5
        <4> HIDE DEF row
        <4>3. KemRows' = KemRows \cup {idx}
          BY <4>1, <4>2 DEF KemRows
        <4>4. idx \notin KemRows BY <1>1, <3>4
        <4>5. IsFiniteSet(KemRows)
          <5>1. IsFiniteSet(0 .. idx - 1) BY <1>1, FS_Interval
          <5> QED BY <3>4, <5>1, FS_Subset
        <4>6. Cardinality(KemRows') = Cardinality(KemRows) + 1
          BY <4>3, <4>4, <4>5, FS_AddElement
        <4>7. KemRows' \subseteq 0 .. Done' - 1
          <5>1. \A i \in KemRows' : i \in Nat /\ i < idx + 1
            BY <1>1, <3>4, <4>3
          <5> QED BY <1>1, <3>3, <5>1
        <4> QED BY <1>1, <3>2, <3>3, <3>5, <4>6, <4>7 DEF KemRowsInv
      <3>6. CASE ~success
        <4>1. KemRows' = KemRows BY <3>1, <3>6 DEF KemRows
        <4>2. KemRows' \subseteq 0 .. Done' - 1
          <5>1. \A i \in KemRows' : i \in Nat /\ i < idx + 1
            BY <1>1, <3>4, <4>1
          <5> QED BY <1>1, <3>3, <5>1
        <4> QED BY <1>1, <3>2, <3>3, <3>6, <4>1, <4>2 DEF KemRowsInv
      <3> QED BY <3>5, <3>6
    <2>2. CASE kind # "KEM"
      <3> DEFINE row == [kind |-> kind, alg |-> idx, results |-> results]
      <3>1. /\ kind = "DSA" /\ kind' = "DSA" /\ session' = session
            /\ pc = "record" /\ pc' = "algorithm" /\ rows' \in {rows, rows \cup {row}}
        BY <1>1, <1>9, <2>2 DEF Record
      <3>2. row.kind # "KEM" BY <2>2
      <3> HIDE DEF row
      <3>3. KemRows' = KemRows BY <3>1, <3>2 DEF KemRows
      <3>4. Done' = Done BY <3>1 DEF Done
      <3> QED BY <1>1, <3>1, <3>3, <3>4 DEF KemRowsInv, BeforeKems
    <2> QED BY <2>1, <2>2
  <1>10. CASE Finish
    <2>1. session'.completed_kems = session.completed_kems
      BY <1>1, <1>10 DEF Finish, benchmark_session_stop, Sessions
    <2> QED BY <1>1, <1>2, <1>10, <2>1 DEF Finish, loopVars, BeforeKems, Done
  <1>11. CASE UNCHANGED vars
    BY <1>1, <1>2, <1>11 DEF vars, BeforeKems, Done
  <1> QED BY <1>3, <1>4, <1>5, <1>6, <1>7, <1>8, <1>9, <1>10, <1>11 DEF Next

(* What comes before the validation does not come back. *)
LEMMA LeavingBoot ==
  ASSUME [Next]_vars, pc \notin {"boot", "step0"}
  PROVE  pc' \notin {"boot", "step0"}
  BY DEF Next, vars, Discover, step0_environment_setup, Validate, StartKems, StartDsas,
         NextAlgorithm, NextOperation, RunStage, Return, Record, LeaveLoop, Finish

(* Leaving the KEM loop without a failure is leaving it with all its KEMs. *)
LEMMA NoSkipStep == IInv /\ CInv /\ [Next]_vars => NoSkipInv'
  <1> SUFFICES ASSUME IInv, CInv, [Next]_vars PROVE NoSkipInv'
    OBVIOUS
  <1> USE SizesAssumption
  <1>1. /\ session \in Sessions /\ NoSkipInv /\ FailureInv /\ TotalsInv /\ CompletionInv
        /\ kind \in {"KEM", "DSA"} /\ idx \in 0 .. Count(kind)
        /\ enabled["KEM"] \subseteq 0 .. NumKems - 1
    BY DEF IInv, TypeOK, CInv, Kinds, Indices, Count
  <1>2. \A i : HasRow("KEM", i) => HasRow("KEM", i)'
    BY HistoryGrows DEF HasRow
  <1>3. ASSUME ~BeforeKems, session'.failed_kems = 0 => session.failed_kems = 0,
               enabled'["KEM"] = enabled["KEM"], Done' = Done
        PROVE  NoSkipInv'
    <2>1. pc' \notin {"boot", "step0"} BY <1>3, LeavingBoot DEF BeforeKems
    <2> QED BY <1>1, <1>2, <1>3, <2>1 DEF NoSkipInv
  <1>4. CASE Discover \/ step0_environment_setup
    <2>1. enabled'["KEM"] \subseteq Nat
      BY <1>1, <1>4 DEF Discover, step0_environment_setup, Kinds, Indices, Count
    <2>2. /\ kind' = "KEM" /\ idx' = 0
          /\ pc' \in {"step0", "validate", "failed"}
      BY <1>1, <1>4 DEF Discover, step0_environment_setup, loopVars, NoSkipInv
    <2> QED BY <2>1, <2>2 DEF NoSkipInv, BeforeKems, Done
  <1>5. CASE Validate
    <2>1. CASE kind = "KEM"
      BY <1>5, <2>1 DEF Validate, NoSkipInv, BeforeKems
    <2>2. CASE kind = "DSA"
      <3>1. enabled'["KEM"] = enabled["KEM"]
        BY <1>5, <2>2 DEF Validate, IInv, TypeOK, Kinds
      <3> QED BY <1>3, <1>5, <2>2, <3>1 DEF Validate, BeforeKems, Done
    <2> QED BY <1>1, <2>1, <2>2
  <1>6. CASE StartKems
    <2>1. CASE has_kems'
      BY <1>1, <1>6, <2>1 DEF StartKems, NoSkipInv, Done
    <2>2. CASE ~has_kems'
      <3>1. enabled' = enabled /\ enabled["KEM"] = {} /\ pc' = "validate"
        BY <1>6, <2>2 DEF StartKems
      <3> QED BY <3>1 DEF NoSkipInv
    <2> QED BY <2>1, <2>2
  <1>7. CASE StartDsas
    <2>1. /\ kind = "DSA" /\ kind' = "DSA" /\ enabled' = enabled /\ pc = "validate"
          /\ session'.failed_kems = session.failed_kems
      BY <1>1, <1>7
      DEF StartDsas, benchmark_session_start, benchmark_record_error, Sessions
    <2> QED BY <1>3, <2>1 DEF BeforeKems, Done
  <1>8. CASE NextAlgorithm
    <2> DEFINE asked == benchmark_should_continue(session)
    <2>1. /\ asked \in Sessions /\ asked.failed_kems = session.failed_kems
          /\ session' \in {session, asked, benchmark_update_progress(asked)}
          /\ enabled' = enabled /\ pc = "algorithm"
      BY <1>1, <1>8, AskingIsQuiet, SessionTyping
      DEF NextAlgorithm, AfterSkip, TotalsInv, Sessions
    <2> HIDE DEF asked
    <2>2. session'.failed_kems = session.failed_kems
      BY <2>1 DEF benchmark_update_progress, Sessions
    <2>3. CASE kind = "DSA"
      <3>1. kind' = "DSA" BY <1>8, <2>3 DEF NextAlgorithm, LeaveLoop
      <3> QED BY <1>3, <2>1, <2>2, <2>3, <3>1 DEF BeforeKems, Done
    <2>4. CASE kind = "KEM" /\ idx < NumKems
      <3>1. MayContinue(session) /\ Done = idx /\ ~BeforeKems
        BY <1>1, <2>1, <2>4 DEF FailureInv, Done, BeforeKems
      <3>2. CASE idx \in enabled["KEM"]
        <4>1. kind' = kind /\ idx' = idx
          BY <1>8, <2>4, <3>1, <3>2 DEF NextAlgorithm, Count
        <4> QED BY <1>3, <2>1, <2>2, <3>1, <4>1 DEF Done
      <3>3. CASE idx \notin enabled["KEM"]
        <4>1. kind' = kind /\ idx' = idx + 1
          BY <1>8, <2>4, <3>1, <3>3 DEF NextAlgorithm, AfterSkip, Count
        <4>2. \A i \in enabled["KEM"] : i < idx + 1 => i < idx
          BY <1>1, <2>4, <3>3 DEF Count
        <4>3. Done' = idx + 1 BY <2>4, <4>1 DEF Done
        <4>4. pc' \notin {"boot", "step0"} BY <2>1, LeavingBoot
        <4> QED BY <1>1, <1>2, <2>1, <2>2, <3>1, <4>2, <4>3, <4>4 DEF NoSkipInv
      <3> QED BY <3>2, <3>3
    <2>5. CASE kind = "KEM" /\ ~(idx < NumKems)
      <3>1. kind' = "DSA" BY <1>8, <2>5 DEF NextAlgorithm, LeaveLoop, Count
      <3>2. Done = NumKems /\ Done' = NumKems /\ ~BeforeKems
        BY <1>1, <2>1, <2>5, <3>1 DEF Done, Count, BeforeKems
      <3> QED BY <1>3, <2>1, <2>2, <3>2
    <2> QED BY <1>1, <2>3, <2>4, <2>5
  <1>9. CASE NextOperation
    <2> DEFINE asked == benchmark_should_continue(session)
    <2>1. /\ asked \in Sessions /\ asked.failed_kems = session.failed_kems
          /\ session' \in {session, asked, benchmark_update_progress(asked)}
          /\ enabled' = enabled /\ pc = "operation" /\ kind' = kind /\ idx' = idx
      BY <1>1, <1>9, AskingIsQuiet, SessionTyping DEF NextOperation, TotalsInv, Sessions
    <2> HIDE DEF asked
    <2>2. session'.failed_kems = session.failed_kems
      BY <2>1 DEF benchmark_update_progress, Sessions
    <2> QED BY <1>3, <2>1, <2>2 DEF BeforeKems, Done
  <1>10. CASE RunStage
    <2>1. /\ pc = "run" /\ kind' = kind /\ idx' = idx /\ enabled' = enabled
          /\ session' \in {session, benchmark_record_error(session)}
      BY <1>10, RunStageOutcome DEF StageOn, StagePassed, StageFailed
    <2>2. session'.failed_kems = session.failed_kems
      BY <1>1, <2>1 DEF benchmark_record_error, Sessions
    <2> QED BY <1>3, <2>1, <2>2 DEF BeforeKems, Done
  <1>11. CASE Record
    <2>1. CASE kind = "DSA"
      <3>1. /\ kind' = "DSA" /\ session' = session /\ enabled' = enabled /\ pc = "record"
        BY <1>11, <2>1 DEF Record
      <3> QED BY <1>3, <2>1, <3>1 DEF BeforeKems, Done
    <2>2. CASE kind = "KEM"
      <3> DEFINE s == benchmark_record_kem_result(session, idx, KemResultSlots, success)
                 row == [kind |-> kind, alg |-> idx, results |-> results]
      <3>1. /\ s = IF success
                   THEN [session EXCEPT !.completed_kems = @ + 1]
                   ELSE [session EXCEPT !.failed_kems = @ + 1]
            /\ session' = IF AllKemsCompleted(s) THEN [s EXCEPT !.state = "COMPLETED"] ELSE s
            /\ s \in Sessions /\ pc = "record" /\ Done = idx /\ idx \in Nat /\ idx < NumKems
            /\ rows' = IF success THEN rows \cup {row} ELSE rows
            /\ \/ pc' = "algorithm" /\ idx' = idx + 1 /\ kind' = "KEM"
               \/ ~MayContinue(s) /\ pc' = "validate" /\ idx' = 0 /\ kind' = "DSA"
            /\ enabled' = enabled
        BY <1>1, <1>11, <2>2, RecordOutcome
      <3>2. session'.failed_kems = IF success THEN session.failed_kems ELSE session.failed_kems + 1
        BY <1>1, <3>1 DEF Sessions
      <3>3. ~success => session'.failed_kems # 0
        BY <1>1, <3>2 DEF Sessions
      <3>4. ASSUME success PROVE NoSkipInv'
        <4>1. row \in rows' /\ row.kind = "KEM" /\ row.alg = idx
          BY <2>2, <3>1, <3>4
        <4> HIDE DEF row
        <4>2. \A i : i = idx => HasRow("KEM", i)' BY <4>1 DEF HasRow
        <4>3. Done' = idx + 1 \/ Done' = NumKems
          BY <3>1 DEF Done
        <4>4. Done' # idx + 1 => idx + 1 = NumKems
          <5> SUFFICES ASSUME Done' # idx + 1 PROVE idx + 1 = NumKems
            OBVIOUS
          <5>1. ~MayContinue(s) BY <2>2, <3>1 DEF Done
          <5>2. MayContinue(session) BY <1>1, <2>2, <3>1, <3>4 DEF FailureInv
          <5>3. /\ session.completed_kems \in Nat /\ session.completed_kems <= idx
                /\ session.total_kems = NumKems
            BY <1>1, <2>2, <3>1 DEF CompletionInv, BeforeKems, Sessions
          <5>4. AllKemsCompleted(s)
            BY <1>1, <3>1, <3>4, <5>1, <5>2 DEF MayContinue, Sessions
          <5>5. s.completed_kems = session.completed_kems + 1 /\ s.total_kems = NumKems
            BY <1>1, <3>1, <3>4, <5>3 DEF Sessions
          <5> QED BY <3>1, <5>3, <5>4, <5>5 DEF AllKemsCompleted
        <4>5. session.failed_kems = 0 /\ ~BeforeKems
          BY <1>1, <2>2, <3>1 DEF FailureInv, BeforeKems
        <4>6. \A i \in enabled["KEM"] : i < idx + 1 => i < idx \/ i = idx
          BY <1>1, <3>1
        <4>7. \A i \in enabled["KEM"] : i < Done' => i < idx + 1
          BY <1>1, <3>1, <4>3, <4>4
        <4>8. \A i \in enabled["KEM"] : i < idx => HasRow("KEM", i)'
          BY <1>1, <1>2, <3>1, <4>5 DEF NoSkipInv
        <4>9. \A i \in enabled["KEM"] : i < Done' => HasRow("KEM", i)'
          BY <4>2, <4>6, <4>7, <4>8
        <4>10. pc' \notin {"boot", "step0"} /\ enabled' = enabled BY <3>1
        <4> HIDE DEF s, row
        <4> QED BY <4>9, <4>10 DEF NoSkipInv
      <3>5. pc' \notin {"boot", "step0"} BY <3>1
      <3> QED BY <3>3, <3>4, <3>5 DEF NoSkipInv
    <2> QED BY <1>1, <2>1, <2>2
  <1>12. CASE Finish
    <2>1. session'.failed_kems = session.failed_kems
      BY <1>1, <1>12 DEF Finish, benchmark_session_stop, Sessions
    <2> QED BY <1>3, <1>12, <2>1 DEF Finish, loopVars, BeforeKems, Done
  <1>13. CASE UNCHANGED vars
    BY <1>1, <1>2, <1>13 DEF vars, NoSkipInv, BeforeKems, Done
  <1> QED BY <1>4, <1>5, <1>6, <1>7, <1>8, <1>9, <1>10, <1>11, <1>12, <1>13 DEF Next

(* What is begun next is not behind the program, so it is counted once. *)
LEMMA BegunStep == IInv /\ CInv /\ [Next]_vars => BegunInv'
  <1> SUFFICES ASSUME IInv, CInv, [Next]_vars PROVE BegunInv'
    OBVIOUS
  <1>1. /\ BegunInv /\ kind \in {"KEM", "DSA"} /\ idx \in Nat /\ op \in 0 .. 3
        /\ tests \in [total : Nat, passed : Nat]
        /\ \A b \in begun : b[1] \in {"KEM", "DSA"} /\ b[2] \in Int /\ b[3] \in 0 .. 2
    BY SizesAssumption DEF IInv, TypeOK, CInv, Kinds, Ops, Count
  <1>2. ASSUME begun' = begun, tests'.total = tests.total,
               \A b \in begun : Behind(b[1], b[2], b[3])'
        PROVE  BegunInv'
    BY <1>1, <1>2 DEF BegunInv
  <1> USE <1>1 DEF BegunInv, Behind, InLoop, InAlgorithm
  <1>3. CASE Discover \/ step0_environment_setup \/ Validate
    BY <1>2, <1>3 DEF Discover, step0_environment_setup, Validate, loopVars
  <1>4. CASE StartKems
    BY <1>2, <1>4 DEF StartKems
  <1>5. CASE StartDsas
    BY <1>2, <1>5 DEF StartDsas
  <1>6. CASE NextAlgorithm
    <2>1. /\ pc = "algorithm" /\ begun' = begun /\ tests' = tests
          /\ \/ pc' = "operation" /\ kind' = kind /\ idx' = idx
             \/ pc' = "algorithm" /\ kind' = kind /\ idx' = idx + 1
             \/ pc' = (IF kind = "KEM" THEN "validate" ELSE "finish") /\ kind' = "DSA"
      BY <1>6 DEF NextAlgorithm, AfterSkip, LeaveLoop
    <2> QED BY <1>2, <2>1
  <1>7. CASE NextOperation
    <2>1. pc = "operation" /\ kind' = kind /\ idx' = idx /\ op' = op
      BY <1>7 DEF NextOperation
    <2>2. CASE op < 3 /\ MayContinue(session)
      <3> DEFINE new == <<kind, idx, op>>
      <3>1. pc' = "run" /\ begun' = begun \cup {new} /\ tests' = [tests EXCEPT !.total = @ + 1]
        BY <1>7, <2>2 DEF NextOperation
      <3>2. ASSUME new \in begun PROVE FALSE
        <4>1. Behind(new[1], new[2], new[3]) BY <3>2
        <4> QED BY <2>1, <4>1
      <3>3. Cardinality(begun') = Cardinality(begun) + 1 /\ IsFiniteSet(begun')
        BY <3>1, <3>2, FS_AddElement
      <3>4. \A b \in begun : Behind(b[1], b[2], b[3])'
        BY <2>1, <3>1
      <3>5. \A b \in begun' : Behind(b[1], b[2], b[3])'
        <4> SUFFICES ASSUME NEW b \in begun' PROVE Behind(b[1], b[2], b[3])'
          OBVIOUS
        <4>1. b \in begun \/ b = new BY <3>1
        <4>2. CASE b \in begun BY <3>4, <4>2
        <4>3. CASE b = new
          <5>1. b[1] = kind /\ b[2] = idx /\ b[3] = op BY <4>3
          <5> QED BY <2>1, <3>1, <5>1
        <4> QED BY <4>1, <4>2, <4>3
      <3>6. tests'.total = Cardinality(begun')
        BY <3>1, <3>3
      <3> QED BY <3>3, <3>5, <3>6
    <2>3. CASE ~(op < 3 /\ MayContinue(session))
      BY <1>2, <1>7, <2>1, <2>3 DEF NextOperation
    <2> QED BY <2>2, <2>3
  <1>8. CASE RunStage
    <2>1. /\ pc = "run" /\ kind' = kind /\ idx' = idx /\ begun' = begun
          /\ StageOn \/ StagePassed \/ StageFailed
      BY <1>8, RunStageOutcome
    <2>2. tests'.total = tests.total
      BY <2>1 DEF StageOn, StagePassed, StageFailed
    <2>3. (pc' = "run" /\ op' = op) \/ (pc' = "operation" /\ op' = op + 1)
      BY <2>1 DEF StageOn, StagePassed, StageFailed
    <2> QED BY <1>2, <2>1, <2>2, <2>3
  <1>9. CASE Record
    <2>1. /\ pc = "record" /\ begun' = begun /\ tests' = tests
          /\ \/ pc' = "algorithm" /\ kind' = kind /\ idx' = idx + 1
             \/ pc' = "validate" /\ kind = "KEM" /\ kind' = "DSA"
      BY <1>9 DEF Record, LeaveLoop
    <2>2. ASSUME pc' = "algorithm", kind' = kind, idx' = idx + 1,
                 NEW b \in begun
          PROVE  Behind(b[1], b[2], b[3])'
      BY <2>1, <2>2
    <2>3. ASSUME kind = "KEM", kind' = "DSA", NEW b \in begun
          PROVE  Behind(b[1], b[2], b[3])'
      BY <2>1, <2>3
    <2> QED BY <1>2, <2>1, <2>2, <2>3
  <1>10. CASE Finish
    BY <1>2, <1>10 DEF Finish, loopVars
  <1>11. CASE UNCHANGED vars
    BY <1>2, <1>11 DEF vars
  <1> QED BY <1>3, <1>4, <1>5, <1>6, <1>7, <1>8, <1>9, <1>10, <1>11 DEF Next

LEMMA PassedStep == IInv /\ CInv /\ [Next]_vars => PassedInv'
  <1> SUFFICES ASSUME IInv, CInv, [Next]_vars PROVE PassedInv'
    OBVIOUS
  <1>1. /\ PassedInv /\ BegunInv /\ kind \in {"KEM", "DSA"} /\ idx \in Nat /\ op \in 0 .. 3
        /\ tests \in [total : Nat, passed : Nat]
    BY SizesAssumption DEF IInv, TypeOK, CInv, Kinds, Count
  <1>2. CASE NextOperation
    <2>1. pc = "operation" /\ kind' = kind /\ idx' = idx /\ op' = op /\ passed' = passed
      BY <1>2 DEF NextOperation
    <2>2. CASE op < 3 /\ MayContinue(session)
      <3> DEFINE new == <<kind, idx, op>>
      <3>1. /\ begun' = begun \cup {new} /\ tests' = [tests EXCEPT !.total = @ + 1]
        BY <1>2, <2>2 DEF NextOperation
      <3>2. ASSUME new \in begun PROVE FALSE
        <4>1. Behind(new[1], new[2], new[3]) BY <1>1, <3>2 DEF BegunInv
        <4> QED BY <1>1, <2>1, <4>1 DEF Behind, InAlgorithm, InLoop
      <3> HIDE DEF new
      <3>3. <<kind', idx', op'>> = new BY <2>1 DEF new
      <3> QED BY <1>1, <2>1, <3>1, <3>2, <3>3 DEF PassedInv
    <2>3. CASE ~(op < 3 /\ MayContinue(session))
      BY <1>1, <1>2, <2>1, <2>3 DEF NextOperation, PassedInv
    <2> QED BY <2>2, <2>3
  <1>3. CASE RunStage
    <2>1. /\ pc = "run" /\ kind' = kind /\ idx' = idx /\ begun' = begun
          /\ StageOn \/ StagePassed \/ StageFailed
      BY <1>3, RunStageOutcome
    <2>2. CASE StageOn BY <1>1, <2>1, <2>2 DEF StageOn, PassedInv
    <2>3. CASE StagePassed
      <3> DEFINE new == <<kind, idx, op>>
      <3>1. passed' = passed \cup {new} /\ pc' = "operation" /\ tests'.passed = tests.passed + 1
        BY <1>1, <2>3 DEF StagePassed
      <3>2. new \in begun /\ new \notin passed BY <1>1, <2>1 DEF PassedInv
      <3> HIDE DEF new
      <3>3. IsFiniteSet(passed) BY <1>1, FS_Subset DEF PassedInv, BegunInv
      <3>4. Cardinality(passed') = Cardinality(passed) + 1
        BY <3>1, <3>2, <3>3, FS_AddElement
      <3> QED BY <1>1, <2>1, <3>1, <3>2, <3>4 DEF PassedInv
    <2>4. CASE StageFailed BY <1>1, <2>1, <2>4 DEF StageFailed, PassedInv
    <2> QED BY <2>1, <2>2, <2>3, <2>4
  <1>4. CASE ~NextOperation /\ ~RunStage
    <2>1. /\ passed' = passed /\ begun' = begun /\ tests' = tests
          /\ pc' = "run" => pc = "run" /\ kind' = kind /\ idx' = idx /\ op' = op
      BY <1>4
      DEF Next, vars, Discover, step0_environment_setup, Validate, StartKems, StartDsas,
          NextAlgorithm, AfterSkip, Record, LeaveLoop, Finish, loopVars
    <2> QED BY <1>1, <2>1 DEF PassedInv
  <1> QED BY <1>2, <1>3, <1>4

LEMMA CountsStep == IInv /\ CInv /\ [Next]_vars => CInv'
  BY TotalsStep, FailureStep, ErrorStep, KemRowsStep, NoSkipStep, BegunStep, PassedStep DEF CInv

(* What every reachable state satisfies, for any values of the constants.  *)
THEOREM CountsInvariance == Spec => [](IInv /\ CInv)
  BY InvInit, InitCounts, InvStep, CountsStep, PTL DEF Spec

-------------------------------------------------------------------------------
(* Theorems *)

(* The session's completed KEMs are the KEM rows, at most one KEM failed,  *)
(* and the totals of the final report are the operations begun and passed: *)
(* no operation is counted twice (main.c, benchmark_control.c).            *)
THEOREM CountsCorrect == Spec => []CountsAreTrue
  <1>1. IInv /\ CInv => CountsAreTrue
    BY DEF CInv, TotalsInv, FailureInv, KemRowsInv, KemRows, BegunInv, PassedInv, CountsAreTrue
  <1> QED BY <1>1, CountsInvariance, PTL

(* A campaign that ends without a failed KEM has a row for every KEM that  *)
(* validation left enabled: the loop never passes one over.                *)
THEOREM NothingSkipped == Spec => []NoSilentSkip
  <1>1. IInv /\ CInv => NoSilentSkip
    <2> SUFFICES ASSUME IInv, CInv, pc = "halted", session.failed_kems = 0,
                        NEW i \in enabled["KEM"]
                 PROVE  HasRow("KEM", i)
      BY DEF NoSilentSkip
    <2>1. kind = "DSA" BY DEF CInv, ErrorInv
    <2>2. i < Done BY <2>1, SizesAssumption DEF IInv, TypeOK, Kinds, Indices, Count, Done
    <2> QED BY <2>1, <2>2 DEF CInv, NoSkipInv, BeforeKems
  <1> QED BY <1>1, CountsInvariance, PTL

(* Nothing leaves ERROR but the stop at the end, and nothing is begun in   *)
(* it: asking the session, recording the failure and the DSA loop keep it. *)
THEOREM ErrorsAreFinal == Spec => ErrorIsFinal
  <1> DEFINE A == session.state = "ERROR" =>
                    /\ begun' = begun
                    /\ \/ session'.state = "ERROR"
                       \/ session'.state = "STOPPED" /\ pc' = "halted"
  <1>1. ASSUME IInv, CInv, [Next]_vars PROVE A
    <2> SUFFICES ASSUME session.state = "ERROR"
                 PROVE  /\ begun' = begun
                        /\ \/ session'.state = "ERROR"
                           \/ session'.state = "STOPPED" /\ pc' = "halted"
      OBVIOUS
    <2>1. /\ session \in Sessions /\ kind \in {"KEM", "DSA"} /\ has_kems \in BOOLEAN
          /\ TotalsInv /\ FailureInv /\ ErrorInv /\ CompletionInv /\ OperationsInv
      BY <1>1 DEF IInv, TypeOK, CInv, Kinds
    <2>2. ~AllKemsCompleted(session) /\ ~MayContinue(session) /\ ~BeforeKems
      BY <2>1 DEF ErrorInv, MayContinue, CompletionInv
    <2>3. CASE Discover \/ step0_environment_setup \/ StartKems
      BY <2>2, <2>3 DEF Discover, step0_environment_setup, StartKems, BeforeKems
    <2>4. CASE Validate BY <2>4 DEF Validate
    <2>5. CASE StartDsas
      BY <2>1, <2>5 DEF StartDsas, ErrorInv
    <2>6. CASE NextAlgorithm \/ NextOperation
      <3>1. benchmark_should_continue(session) = session
        BY <2>1, <2>2, <2>6, AskingIsQuiet DEF TotalsInv, NextAlgorithm, NextOperation
      <3> QED BY <2>2, <2>6, <3>1 DEF NextAlgorithm, AfterSkip, NextOperation
    <2>7. CASE RunStage
      BY <2>1, <2>2, <2>7 DEF RunStage, OperationsInv
    <2>8. CASE Record
      <3>1. CASE kind = "KEM"
        <4> DEFINE s == benchmark_record_kem_result(session, idx, KemResultSlots, success)
        <4>1. /\ s = IF success
                     THEN [session EXCEPT !.completed_kems = @ + 1]
                     ELSE [session EXCEPT !.failed_kems = @ + 1]
              /\ session' = IF AllKemsCompleted(s) THEN [s EXCEPT !.state = "COMPLETED"] ELSE s
              /\ begun' = begun /\ pc = "record"
          BY <1>1, <2>1, <2>8, <3>1, RecordOutcome
        <4>2. ~success BY <2>1, <2>2, <3>1, <4>1 DEF FailureInv
        <4>3. ~AllKemsCompleted(s) /\ s.state = "ERROR"
          BY <2>1, <2>2, <4>1, <4>2 DEF AllKemsCompleted, Sessions
        <4> QED BY <4>1, <4>3
      <3>2. CASE kind # "KEM" BY <2>8, <3>2 DEF Record
      <3> QED BY <3>1, <3>2
    <2>9. CASE Finish
      BY <2>1, <2>9 DEF Finish, benchmark_session_stop, Sessions
    <2>10. CASE UNCHANGED vars BY <2>10 DEF vars
    <2> QED BY <1>1, <2>3, <2>4, <2>5, <2>6, <2>7, <2>8, <2>9, <2>10 DEF Next
  <1>2. Spec => [][A]_vars
    BY <1>1, CountsInvariance, PTL DEF Spec
  <1> QED BY <1>2 DEF ErrorIsFinal
===============================================================================
