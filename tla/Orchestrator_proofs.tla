-------------------------- MODULE Orchestrator_proofs --------------------------
(***************************************************************************)
(* Proofs about Orchestrator, for every number of KEMs and DSAs.           *)
(***************************************************************************)
EXTENDS Orchestrator, WellFoundedInduction, TLAPS

-------------------------------------------------------------------------------
(* The inductive invariant *)

InAlgorithm == pc \in {"operation", "run", "record"}

(* While an algorithm is measured its index is a real one, and as long as  *)
(* it has not failed every operation before op has passed and left its own *)
(* baseline in results.  This holds because a success keeps the session    *)
(* going: a session that stopped between two operations would end the loop *)
(* early with success still true.                                          *)
OperationsInv ==
    /\ InAlgorithm => idx < Count(kind) /\ idx \in enabled[kind]
    /\ InAlgorithm /\ success =>
          \A o \in Ops : o < op => <<kind, idx, o>> \in passed /\ results[o].base = idx
    /\ pc # "run" => stage = 1
    /\ pc = "run" => op < 3 /\ MayContinue(session)
    /\ pc = "run" /\ (stage > 2 \/ (stage = 2 /\ sampled))
          => current_results[kind][op].base = idx
    /\ pc = "operation" /\ success => MayContinue(session)
    /\ pc = "record" /\ success => op = 3

(* The KEM loop has been through the first Done KEMs; it completed at most *)
(* that many, and if it completed all of them they all have rows.          *)
BeforeKems == pc \in {"boot", "step0"} \/ (pc = "validate" /\ kind = "KEM")
Done == IF kind = "KEM" THEN idx ELSE NumKems

CompletionInv ==
    /\ session.total_kems = IF pc = "boot" THEN 0 ELSE NumKems
    /\ BeforeKems => session.completed_kems = 0 /\ session.state = "STOPPED"
    /\ ~BeforeKems => /\ session.completed_kems <= Done
                      /\ session.completed_kems = Done
                            => \A i \in 0 .. Done - 1 : HasRow("KEM", i)

IInv ==
    /\ TypeOK
    /\ RowsAreComplete
    /\ CompletedMeansAllKems
    /\ OperationsInv
    /\ CompletionInv

-------------------------------------------------------------------------------
(* A non-empty set of naturals has a first element, so get_enabled_kem     *)
(* names a registered KEM whenever one is enabled.                         *)
LEMMA FirstOfIsMember ==
    ASSUME NEW S \in SUBSET Nat, S # {}
    PROVE  FirstOf(S) \in S
<1> DEFINE Less == {ss \in Nat \X Nat : ss[1] < ss[2]}
<1>1. IsWellFoundedOn(Less, Nat)
  BY NatLessThanWellFounded DEF OpToRel
<1> HIDE DEF Less
<1>2. \E x \in S : \A y \in S : ~(<<y, x>> \in Less)
  <2>1. S \subseteq Nat
    OBVIOUS
  <2> QED  BY <1>1, <2>1, WFMin
<1>3. PICK x \in S : \A y \in S : ~(<<y, x>> \in Less)
  BY <1>2
<1>4. \A y \in S : x \in Nat /\ y \in Nat
  OBVIOUS
<1>5. ASSUME NEW y \in S  PROVE  x <= y
  <2>1. ~(<<y, x>> \in Less)
    BY <1>3
  <2>2. ~(y < x)
    BY <2>1, <1>4 DEF Less
  <2> QED  BY <2>2, <1>4
<1> QED  BY <1>5 DEF FirstOf

(* The stage lists have nine and eight entries. *)
LEMMA StageCount ==
    /\ Len(Stages("KEM")) = 9
    /\ Len(Stages("DSA")) = 8
    /\ Stages("KEM")[1] = "measure" /\ Stages("DSA")[1] = "measure"
    /\ Stages("KEM")[2] = "baseline" /\ Stages("DSA")[2] = "baseline"
    /\ \A n \in 3 .. 9 : Stages("KEM")[n] \notin {"measure", "baseline"}
    /\ \A n \in 3 .. 8 : Stages("DSA")[n] \notin {"measure", "baseline"}
<1>1. /\ Len(Stages("KEM")) = 9
      /\ Stages("KEM")[1] = "measure"
      /\ Stages("KEM")[2] = "baseline"
      /\ \A n \in 3 .. 9 : Stages("KEM")[n] \notin {"measure", "baseline"}
  BY DEF Stages
<1>2. /\ Len(Stages("DSA")) = 8
      /\ Stages("DSA")[1] = "measure"
      /\ Stages("DSA")[2] = "baseline"
      /\ \A n \in 3 .. 8 : Stages("DSA")[n] \notin {"measure", "baseline"}
  BY DEF Stages
<1> QED  BY <1>1, <1>2

(* Each call of the session interface returns a session record. *)
LEMMA SessionTyping ==
    ASSUME NEW s \in Sessions
    PROVE  /\ benchmark_session_start(s) \in Sessions
           /\ benchmark_session_stop(s) \in Sessions
           /\ benchmark_should_continue(s) \in Sessions
           /\ benchmark_update_progress(s) \in Sessions
           /\ benchmark_record_error(s) \in Sessions
           /\ \A i, n, b : benchmark_record_kem_result(s, i, n, b) \in Sessions
<1>1. /\ benchmark_session_start(s) \in Sessions
      /\ benchmark_session_stop(s) \in Sessions
      /\ benchmark_session_pause(s) \in Sessions
      /\ benchmark_record_error(s) \in Sessions
      /\ [s EXCEPT !.state = "COMPLETED"] \in Sessions
  BY DEF Sessions, SessionStates, benchmark_session_start, benchmark_session_stop,
         benchmark_session_pause, benchmark_record_error
<1>2. benchmark_should_continue(s) \in Sessions
  BY <1>1 DEF benchmark_should_continue
<1>3. /\ benchmark_update_progress(s) \in Sessions
      /\ \A i, n, b : benchmark_record_kem_result(s, i, n, b) \in Sessions
  BY DEF Sessions, benchmark_update_progress, benchmark_record_kem_result
<1> QED  BY <1>1, <1>2, <1>3

(* Asking the session changes nothing but its state and should_stop, and   *)
(* not even those when the answer is to go on.                             *)
LEMMA AskingTheSession ==
    ASSUME NEW s \in Sessions
    PROVE  /\ MayContinue(s) => benchmark_should_continue(s) = s
           /\ benchmark_should_continue(s).total_kems = s.total_kems
           /\ benchmark_should_continue(s).completed_kems = s.completed_kems
           /\ benchmark_should_continue(s).state = "COMPLETED"
                  => s.state = "COMPLETED" \/ AllKemsCompleted(s)
<1>1. MayContinue(s) => benchmark_should_continue(s) = s
  BY DEF MayContinue, benchmark_should_continue
<1>2. /\ benchmark_should_continue(s).total_kems = s.total_kems
      /\ benchmark_should_continue(s).completed_kems = s.completed_kems
      /\ benchmark_should_continue(s).state = "COMPLETED"
            => s.state = "COMPLETED" \/ AllKemsCompleted(s)
  BY DEF benchmark_should_continue, benchmark_session_stop, benchmark_session_pause, Sessions
<1> QED  BY <1>1, <1>2

-------------------------------------------------------------------------------
(* Type correctness *)

LEMMA ZeroTyping == None \in Int /\ ZeroResult \in Results /\ ZeroResults \in [Ops -> Results]
<1>1. None \in Int
  BY DEF None
<1>2. ZeroResult \in Results
  BY <1>1 DEF ZeroResult, Results
<1> QED  BY <1>1, <1>2 DEF ZeroResults

LEMMA TypeInit == Init => TypeOK
<1> SUFFICES ASSUME Init PROVE TypeOK
  OBVIOUS
<1> USE DEF Init, Kinds
<1>1. session \in Sessions
  BY DEF ZeroSession, benchmark_session_init, Sessions, SessionStates
<1>2. /\ enabled \in [Kinds -> SUBSET Nat]
      /\ \A k \in Kinds : enabled[k] \subseteq Indices(k)
  OBVIOUS
<1>3. idx \in 0 .. Count(kind) /\ stage \in 1 .. Len(Stages(kind))
  BY SizesAssumption, StageCount DEF Count
<1>4. /\ current_results \in [Kinds -> [Ops -> Results]]
      /\ results \in [Ops -> Results]
  BY ZeroTyping
<1>5. tests \in [total : Nat, passed : Nat] /\ op \in 0 .. 3
  OBVIOUS
<1> QED  BY <1>1, <1>2, <1>3, <1>4, <1>5 DEF TypeOK

(* The algorithm behind a later metric is an integer: main() is at an      *)
(* enabled one, so get_enabled_kem finds one.                              *)
LEMMA MeasuredLaterTyping ==
    ASSUME TypeOK, OperationsInv, pc = "run"
    PROVE  MeasuredLater \in Int
<1>1. CASE kind = "KEM"
  <2>1. idx \in enabled["KEM"]
    BY <1>1 DEF OperationsInv, InAlgorithm
  <2>2. enabled["KEM"] \subseteq Nat
    BY DEF TypeOK, Kinds
  <2> QED  BY <1>1, <2>1, <2>2, FirstOfIsMember DEF MeasuredLater, get_enabled_kem
<1>2. CASE kind = "DSA"
  BY <1>2, SizesAssumption DEF TypeOK, MeasuredLater, Count
<1> QED  BY <1>1, <1>2 DEF TypeOK, Kinds

LEMMA TypeStep == TypeOK /\ OperationsInv /\ [Next]_vars => TypeOK'
<1> SUFFICES ASSUME TypeOK, OperationsInv, [Next]_vars PROVE TypeOK'
  OBVIOUS
<1> USE SizesAssumption, SessionTyping DEF TypeOK, Kinds, Ops
<1>1. CASE Discover
  <2>1. session' \in Sessions
    BY <1>1 DEF Discover, benchmark_session_init, Sessions, SessionStates
  <2>2. /\ enabled' \in [Kinds -> SUBSET Nat]
        /\ \A k \in Kinds : enabled'[k] \subseteq Indices(k)
    BY <1>1 DEF Discover, Indices, Count
  <2> QED  BY <1>1, <2>1, <2>2 DEF Discover, loopVars
<1>2. CASE step0_environment_setup
  BY <1>2 DEF step0_environment_setup, loopVars
<1>3. CASE Validate
  <2>1. /\ enabled' \in [Kinds -> SUBSET Nat]
        /\ \A k \in Kinds : enabled'[k] \subseteq Indices(k)
    BY <1>3 DEF Validate
  <2>2. idx' \in 0 .. Count(kind)
    BY <1>3 DEF Validate, Count
  <2> QED  BY <1>3, <2>1, <2>2 DEF Validate
<1>4. CASE StartKems
  <2>1. /\ kind' \in Kinds /\ idx' = 0 /\ 0 \in 0 .. Count(kind')
        /\ stage' \in 1 .. Len(Stages(kind'))
        /\ pc' \in {"validate", "algorithm"}
    BY <1>4, StageCount DEF StartKems, Count, OperationsInv
  <2>2. session' \in Sessions /\ has_kems' \in BOOLEAN /\ percent_defined' \in BOOLEAN
    BY <1>4 DEF StartKems, PrintStatus
  <2> QED  BY <1>4, <2>1, <2>2 DEF StartKems
<1>5. CASE StartDsas
  <2>1. idx' \in 0 .. Count(kind')
    BY <1>5 DEF StartDsas, Count
  <2>2. session' \in Sessions /\ percent_defined' \in BOOLEAN
    BY <1>5 DEF StartDsas, PrintStatus
  <2> QED  BY <1>5, <2>1, <2>2 DEF StartDsas
<1>6. CASE NextAlgorithm
  <2>1. /\ session' \in Sessions
        /\ percent_defined' \in BOOLEAN
    BY <1>6 DEF NextAlgorithm, AfterSkip, PrintStatus
  <2>2. /\ kind' \in Kinds /\ idx' \in 0 .. Count(kind')
        /\ pc' \in {"operation", "algorithm", "validate", "finish"}
    <3>1. CASE idx < Count(kind) /\ MayContinue(session)
      BY <1>6, <3>1 DEF NextAlgorithm, AfterSkip, Count
    <3>2. CASE ~(idx < Count(kind) /\ MayContinue(session))
      BY <1>6, <3>2 DEF NextAlgorithm, AfterSkip, LeaveLoop, Count
    <3> QED  BY <3>1, <3>2
  <2>3. stage' \in 1 .. Len(Stages(kind'))
    BY <1>6, <2>2, StageCount DEF NextAlgorithm, AfterSkip, OperationsInv
  <2>4. op' \in 0 .. 3
    BY <1>6 DEF NextAlgorithm, AfterSkip
  <2>5. success' \in BOOLEAN
    BY <1>6 DEF NextAlgorithm, AfterSkip
  <2>6. results' \in [Ops -> Results]
    BY <1>6, ZeroTyping DEF NextAlgorithm, AfterSkip
  <2> QED  BY <1>6, <2>1, <2>2, <2>3, <2>4, <2>5, <2>6 DEF NextAlgorithm, AfterSkip
<1>7. CASE NextOperation
  <2>1. session' \in Sessions /\ pc' \in {"run", "record"}
    BY <1>7 DEF NextOperation
  <2>2. /\ tests' \in [total : Nat, passed : Nat]
        /\ begun' \subseteq Kinds \X Int \X Ops
    BY <1>7 DEF NextOperation, Count
  <2> QED  BY <1>7, <2>1, <2>2 DEF NextOperation
<1>8. CASE RunStage
  <2>1. sampled' \in BOOLEAN /\ op \in Ops /\ idx \in Int
    BY <1>8 DEF RunStage, OperationsInv, Count
  <2>2. StageResult(sampled') \in Results
    <3> DEFINE result == current_results[kind][op]
    <3>1. result \in Results
      BY <2>1
    <3>2. MeasuredLater \in Int
      BY <1>8, MeasuredLaterTyping DEF RunStage
    <3>3. [base |-> IF sampled' THEN idx ELSE None, later |-> {}] \in Results
      BY <2>1, ZeroTyping DEF Results
    <3>4. [result EXCEPT !.later = @ \cup {MeasuredLater}] \in Results
      BY <3>1, <3>2 DEF Results
    <3> QED  BY <3>1, <3>3, <3>4 DEF StageResult
  <2>3. current_results' \in [Kinds -> [Ops -> Results]]
    BY <1>8, <2>2 DEF RunStage
  <2>4. Asked \in Sessions /\ AfterNoSamples(Asked) \in Sessions
    BY DEF Asked, AfterNoSamples
  <2>5. /\ pc' \in {"run", "operation"}
        /\ session' \in Sessions
        /\ op' \in 0 .. 3
        /\ stage' \in 1 .. Len(Stages(kind))
        /\ success' \in BOOLEAN
        /\ results' \in [Ops -> Results]
        /\ tests' \in [total : Nat, passed : Nat]
        /\ passed' \subseteq Kinds \X Int \X Ops
        /\ percent_defined' \in BOOLEAN
    <3>1. PICK gate \in IF GateMayFail(StageName) THEN BOOLEAN ELSE {TRUE} :
             LET value == Proceeds /\ gate /\ ~NoSamples
             IN  IF value /\ stage < Len(Stages(kind))
                 THEN /\ stage' = stage + 1
                      /\ session' = Asked
                      /\ UNCHANGED <<pc, op, tests, results, passed, success, percent_defined>>
                 ELSE Return(AfterNoSamples(Asked), value, StageResult(sampled'))
      BY <1>8 DEF RunStage
    <3> DEFINE value == Proceeds /\ gate /\ ~NoSamples
    <3>2. CASE value /\ stage < Len(Stages(kind))
      <4>1. /\ stage' = stage + 1
            /\ session' = Asked
            /\ UNCHANGED <<pc, op, tests, results, passed, success, percent_defined>>
        BY <3>1, <3>2
      <4>2. Len(Stages(kind)) \in Nat
        BY StageCount
      <4> QED  BY <1>8, <2>4, <3>2, <4>1, <4>2 DEF RunStage
    <3>3. CASE ~(value /\ stage < Len(Stages(kind)))
      <4>1. Return(AfterNoSamples(Asked), value, StageResult(sampled'))
        BY <3>1, <3>3
      <4> HIDE DEF value
      <4>2. session' \in Sessions
        BY <2>4, <4>1 DEF Return
      <4>3. /\ results' \in [Ops -> Results]
            /\ tests' \in [total : Nat, passed : Nat]
            /\ passed' \subseteq Kinds \X Int \X Ops
        BY <2>1, <2>2, <4>1 DEF Return
      <4>4. stage' = 1 /\ op' = op + 1 /\ pc' = "operation"
        BY <4>1 DEF Return
      <4>5. success' \in BOOLEAN /\ percent_defined' \in BOOLEAN
        BY <4>1 DEF Return, SuccessAfter
      <4> QED  BY <2>1, <4>2, <4>3, <4>4, <4>5, StageCount
    <3> QED  BY <3>2, <3>3
  <2> QED  BY <1>8, <2>1, <2>3, <2>5 DEF RunStage
<1>9. CASE Record
  <2>1. session' \in Sessions
    BY <1>9 DEF Record
  <2>2. rows' \subseteq Rows
    BY <1>9 DEF Record, Rows, Count
  <2>3. /\ kind' \in Kinds /\ idx' \in 0 .. Count(kind')
        /\ pc' \in {"algorithm", "validate", "finish"}
    BY <1>9 DEF Record, LeaveLoop, Count, OperationsInv, InAlgorithm
  <2>4. stage' \in 1 .. Len(Stages(kind'))
    BY <1>9, <2>3, StageCount DEF Record, OperationsInv
  <2> QED  BY <1>9, <2>1, <2>2, <2>3, <2>4 DEF Record
<1>10. CASE Finish
  BY <1>10 DEF Finish, PrintSummary, loopVars
<1>11. CASE UNCHANGED vars
  BY <1>11 DEF vars
<1> QED
  BY <1>1, <1>2, <1>3, <1>4, <1>5, <1>6, <1>7, <1>8, <1>9, <1>10, <1>11 DEF Next

-------------------------------------------------------------------------------
(* The rest of the inductive invariant *)

LEMMA InvInit == Init => IInv
<1> SUFFICES ASSUME Init PROVE IInv
  OBVIOUS
<1>1. TypeOK
  BY TypeInit
<1>2. RowsAreComplete /\ OperationsInv
  BY DEF Init, RowsAreComplete, OperationsInv, InAlgorithm
<1>3. CompletionInv /\ CompletedMeansAllKems
  BY DEF Init, CompletionInv, CompletedMeansAllKems, BeforeKems, ZeroSession,
         benchmark_session_init
<1> QED  BY <1>1, <1>2, <1>3 DEF IInv

(* Rows and history only grow, and nothing but Record prints a row. *)
LEMMA HistoryGrows ==
    ASSUME [Next]_vars
    PROVE  /\ rows \subseteq rows'
           /\ passed \subseteq passed'
           /\ ~Record => rows' = rows
<1> USE DEF loopVars
<1>1. CASE Record
  BY <1>1 DEF Record
<1>2. CASE RunStage
  BY <1>2 DEF RunStage, Return
<1>3. CASE ~Record /\ ~RunStage
  BY <1>3 DEF Next, vars, Discover, step0_environment_setup, Validate, StartKems, StartDsas,
              NextAlgorithm, NextOperation, Finish
<1> QED  BY <1>1, <1>2, <1>3

LEMMA RowsStep == IInv /\ [Next]_vars => RowsAreComplete'
<1> SUFFICES ASSUME IInv, [Next]_vars PROVE RowsAreComplete'
  OBVIOUS
<1>1. CASE Record /\ success
  <2>1. op = 3 /\ \A o \in Ops : o < op
    BY <1>1 DEF IInv, OperationsInv, Record, Ops
  <2>2. \A o \in Ops : <<kind, idx, o>> \in passed /\ results[o].base = idx
    BY <1>1, <2>1 DEF IInv, OperationsInv, InAlgorithm, Record
  <2>3. rows' = rows \cup {[kind |-> kind, alg |-> idx, results |-> results]} /\ passed' = passed
    BY <1>1 DEF Record
  <2> DEFINE new == [kind |-> kind, alg |-> idx, results |-> results]
  <2>4. ASSUME NEW r \in rows', NEW o \in Ops
        PROVE  <<r.kind, r.alg, o>> \in passed' /\ r.results[o].base = r.alg
    <3>1. CASE r \in rows
      BY <2>3, <3>1 DEF IInv, RowsAreComplete
    <3>2. CASE r = new
      <4>1. r.kind = kind /\ r.alg = idx /\ r.results = results
        BY <3>2
      <4> QED  BY <2>2, <2>3, <4>1
    <3> QED  BY <2>3, <3>1, <3>2
  <2> QED  BY <2>4 DEF RowsAreComplete
<1>2. CASE ~(Record /\ success)
  <2>1. rows' = rows
    BY <1>2, HistoryGrows DEF Record
  <2> QED  BY <2>1, HistoryGrows DEF IInv, RowsAreComplete
<1> QED  BY <1>1, <1>2

LEMMA StageNames ==
    ASSUME TypeOK
    PROVE  /\ StageName = "measure" <=> stage = 1
           /\ StageName = "baseline" <=> stage = 2
<1>1. CASE stage = 1
  BY <1>1, StageCount DEF StageName, TypeOK, Kinds
<1>2. CASE stage = 2
  BY <1>2, StageCount DEF StageName, TypeOK, Kinds
<1>3. CASE stage # 1 /\ stage # 2
  <2>1. CASE kind = "KEM"
    <3>1. stage \in 3 .. 9
      <4>1. Len(Stages(kind)) = 9
        BY <2>1, StageCount
      <4>2. stage \in 1 .. 9
        BY <4>1 DEF TypeOK
      <4> QED  BY <1>3, <4>2
    <3> QED  BY <1>3, <2>1, <3>1, StageCount DEF StageName
  <2>2. CASE kind = "DSA"
    <3>1. stage \in 3 .. 8
      <4>1. Len(Stages(kind)) = 8
        BY <2>2, StageCount
      <4>2. stage \in 1 .. 8
        BY <4>1 DEF TypeOK
      <4> QED  BY <1>3, <4>2
    <3> QED  BY <1>3, <2>2, <3>1, StageCount DEF StageName
  <2> QED  BY <2>1, <2>2 DEF TypeOK, Kinds
<1> QED  BY <1>1, <1>2, <1>3

(* The session's answer survives the progress counter. *)
LEMMA ProgressKeepsGoing ==
    ASSUME NEW s \in Sessions, MayContinue(s)
    PROVE  MayContinue(benchmark_update_progress(s))
BY DEF MayContinue, AllKemsCompleted, benchmark_update_progress, Sessions

LEMMA OperationsStep == IInv /\ [Next]_vars => OperationsInv'
<1> SUFFICES ASSUME IInv, [Next]_vars PROVE OperationsInv'
  OBVIOUS
<1> USE DEF IInv, OperationsInv, InAlgorithm
<1>1. CASE Discover
  BY <1>1 DEF Discover, loopVars
<1>2. CASE step0_environment_setup
  BY <1>2 DEF step0_environment_setup, loopVars
<1>3. CASE Validate
  BY <1>3 DEF Validate
<1>4. CASE StartKems
  BY <1>4 DEF StartKems
<1>5. CASE StartDsas
  BY <1>5 DEF StartDsas
<1>6. CASE NextAlgorithm
  <2>1. CASE idx < Count(kind) /\ MayContinue(session) /\ idx \in enabled[kind]
    <3>1. session \in Sessions /\ benchmark_should_continue(session) = session
      BY <2>1, AskingTheSession DEF TypeOK
    <3>2. MayContinue(session')
      BY <1>6, <2>1, <3>1, ProgressKeepsGoing DEF NextAlgorithm, AfterSkip
    <3>3. /\ pc' = "operation" /\ op' = 0 /\ stage' = stage
          /\ kind' = kind /\ idx' = idx /\ enabled' = enabled
      BY <1>6, <2>1 DEF NextAlgorithm, AfterSkip
    <3>4. \A o \in Ops : ~(o < 0)
      BY DEF Ops
    <3> QED  BY <1>6, <2>1, <3>2, <3>3, <3>4 DEF NextAlgorithm, AfterSkip, Count
  <2>2. CASE ~(idx < Count(kind) /\ MayContinue(session) /\ idx \in enabled[kind])
    <3>1. pc' \in {"algorithm", "validate", "finish"} /\ stage' = stage
      BY <1>6, <2>2 DEF NextAlgorithm, AfterSkip, LeaveLoop
    <3> QED  BY <1>6, <3>1 DEF NextAlgorithm, AfterSkip
  <2> QED  BY <2>1, <2>2
<1>7. CASE NextOperation
  <2>1. CASE op < 3 /\ MayContinue(session)
    <3>1. session \in Sessions /\ benchmark_should_continue(session) = session
      BY <2>1, AskingTheSession DEF TypeOK
    <3>2. MayContinue(session')
      BY <1>7, <2>1, <3>1, ProgressKeepsGoing DEF NextOperation
    <3>3. /\ pc' = "run" /\ stage' = 1
          /\ UNCHANGED <<kind, enabled, idx, op, success, results, passed>>
      BY <1>7, <2>1 DEF NextOperation
    <3> QED  BY <1>7, <2>1, <3>2, <3>3 DEF NextOperation, Count
  <2>2. CASE ~(op < 3 /\ MayContinue(session))
    <3>1. /\ pc' = "record"
          /\ UNCHANGED <<kind, enabled, idx, op, stage, success, results, passed>>
      BY <1>7, <2>2 DEF NextOperation
    <3>2. success => op = 3
      BY <1>7, <2>2 DEF NextOperation, TypeOK
    <3> QED  BY <1>7, <3>1, <3>2 DEF NextOperation, Count
  <2> QED  BY <2>1, <2>2
<1>8. CASE RunStage
  <2>1. /\ pc = "run" /\ op \in Ops /\ kind \in Kinds
        /\ UNCHANGED <<kind, enabled, idx>>
    BY <1>8 DEF RunStage, TypeOK, Ops
  <2>2. session \in Sessions /\ MayContinue(session)
    BY <2>1 DEF TypeOK
  <2>3. Proceeds /\ Asked = session
    BY <2>2, AskingTheSession DEF Proceeds, Asked
  <2>4. current_results'[kind][op] = StageResult(sampled')
    BY <1>8, <2>1, <2>3 DEF RunStage, TypeOK
  <2>5. StageName = "measure" <=> stage = 1
    BY StageNames DEF TypeOK
  <2>6. StageName = "baseline" <=> stage = 2
    BY StageNames DEF TypeOK
  <2>7. StageResult(sampled').base = IF stage = 1 THEN (IF sampled' THEN idx ELSE None)
                                     ELSE current_results[kind][op].base
    BY <2>1, <2>5 DEF StageResult, LaterMetric, TypeOK, Results
  <2>8. ~(stage = 2 /\ ~sampled) \/ NoSamples
    BY <2>6 DEF NoSamples
  <2>9. PICK gate \in IF GateMayFail(StageName) THEN BOOLEAN ELSE {TRUE} :
           LET value == Proceeds /\ gate /\ ~NoSamples
           IN  IF value /\ stage < Len(Stages(kind))
               THEN /\ stage' = stage + 1
                    /\ session' = Asked
                    /\ UNCHANGED <<pc, op, tests, results, passed, success, percent_defined>>
               ELSE Return(AfterNoSamples(Asked), value, StageResult(sampled'))
    BY <1>8 DEF RunStage
  <2> DEFINE value == Proceeds /\ gate /\ ~NoSamples
  <2>10. CASE value /\ stage < Len(Stages(kind))
    <3>1. /\ stage' = stage + 1
          /\ session' = session
          /\ UNCHANGED <<pc, op, results, passed, success>>
      BY <2>3, <2>9, <2>10
    <3>2. stage' > 2 => current_results'[kind][op].base = idx
      BY <2>4, <2>7, <2>8, <2>10, <3>1 DEF TypeOK
    <3>3. stage' = 2 /\ sampled' => current_results'[kind][op].base = idx
      BY <2>4, <2>7, <3>1 DEF TypeOK
    <3> QED  BY <2>1, <2>2, <3>1, <3>2, <3>3 DEF Count
  <2>11. CASE ~(value /\ stage < Len(Stages(kind)))
    <3>1. Return(AfterNoSamples(Asked), value, StageResult(sampled'))
      BY <2>9, <2>11
    <3>2. pc' = "operation" /\ stage' = 1 /\ op' = op + 1 /\ success' = (success /\ value)
      BY <3>1 DEF Return, SuccessAfter
    <3>3. ASSUME success'
          PROVE  /\ MayContinue(session')
                 /\ \A o \in Ops : o < op' =>
                       <<kind, idx, o>> \in passed' /\ results'[o].base = idx
      <4>1. success /\ value
        BY <3>2, <3>3
      <4>2. stage > 2
        BY <2>1, <2>11, <4>1, StageCount DEF TypeOK, Kinds
      <4>3. StageResult(sampled').base = idx
        BY <2>1, <2>7, <4>2
      <4>4. /\ results' = [results EXCEPT ![op] = StageResult(sampled')]
            /\ passed' = passed \cup {<<kind, idx, op>>}
            /\ session' = AfterNoSamples(Asked)
        BY <3>1, <4>1 DEF Return
      <4>5. session' = session
        BY <2>3, <4>1, <4>4 DEF AfterNoSamples
      <4>6. ASSUME NEW o \in Ops, o < op'
            PROVE  <<kind, idx, o>> \in passed' /\ results'[o].base = idx
        <5>1. CASE o = op
          BY <2>1, <4>3, <4>4, <5>1 DEF TypeOK
        <5>2. CASE o # op
          <6>1. o < op
            BY <2>1, <3>2, <4>6, <5>2 DEF Ops
          <6> QED  BY <2>1, <4>1, <4>4, <5>2, <6>1 DEF TypeOK
        <5> QED  BY <5>1, <5>2
      <4> QED  BY <2>2, <4>5, <4>6
    <3> QED  BY <2>1, <3>2, <3>3 DEF Count
  <2> QED  BY <2>10, <2>11
<1>9. CASE Record
  <2>1. pc' \in {"algorithm", "validate", "finish"} /\ stage' = 1
    BY <1>9 DEF Record, LeaveLoop
  <2> QED  BY <2>1
<1>10. CASE Finish
  BY <1>10 DEF Finish, loopVars
<1>11. CASE UNCHANGED vars
  BY <1>11 DEF vars, Count
<1> QED
  BY <1>1, <1>2, <1>3, <1>4, <1>5, <1>6, <1>7, <1>8, <1>9, <1>10, <1>11 DEF Next

(* Outside Record the KEM rows, the counters of the session and the KEMs   *)
(* already gone through stay what they are, up to the next skipped KEM.    *)
LEMMA CompletionStep == IInv /\ [Next]_vars => CompletionInv' /\ CompletedMeansAllKems'
<1> SUFFICES ASSUME IInv, [Next]_vars PROVE CompletionInv' /\ CompletedMeansAllKems'
  OBVIOUS
<1> USE SizesAssumption DEF IInv, CompletionInv, BeforeKems
<1>1. \A i : HasRow("KEM", i) => HasRow("KEM", i)'
  BY HistoryGrows DEF HasRow
<1>2. ASSUME pc # "boot", ~BeforeKems, AllKemsCompleted(session)
      PROVE  \A i \in Indices("KEM") : HasRow("KEM", i)
  BY <1>2 DEF AllKemsCompleted, Done, TypeOK, Sessions, Indices, Count
<1>3. CASE Discover
  BY <1>3 DEF Discover, benchmark_session_init, loopVars, CompletedMeansAllKems
<1>4. CASE step0_environment_setup
  BY <1>4 DEF step0_environment_setup, loopVars, CompletedMeansAllKems, Done, TypeOK, Sessions
<1>5. CASE Validate
  BY <1>5, <1>1 DEF Validate, CompletedMeansAllKems, Done
<1>6. CASE StartKems
  <2>1. /\ session'.completed_kems = 0 /\ session'.total_kems = NumKems
        /\ session'.state \in {"STOPPED", "RUNNING"}
    BY <1>6 DEF StartKems, benchmark_session_start, TypeOK, Sessions
  <2>2. pc' # "boot" /\ idx' = 0 /\ kind' \in Kinds
    BY <1>6 DEF StartKems, Kinds
  <2>3. ~BeforeKems'
    BY <1>6 DEF StartKems
  <2>4. Done' \in Nat
    BY <2>2 DEF Done
  <2>5. session'.completed_kems <= Done'
    BY <2>1, <2>4
  <2>6. session'.completed_kems = Done' => \A i \in 0 .. Done' - 1 : HasRow("KEM", i)'
    BY <2>1
  <2> QED  BY <2>1, <2>2, <2>3, <2>5, <2>6 DEF CompletedMeansAllKems
(* Every other step but Record leaves the counters alone and moves Done    *)
(* forward.                                                                *)
<1>7. ASSUME pc # "boot", ~BeforeKems, pc' # "boot", ~BeforeKems',
             session'.total_kems = session.total_kems,
             session'.completed_kems = session.completed_kems,
             session'.state = "COMPLETED"
                => session.state = "COMPLETED" \/ AllKemsCompleted(session),
             Done' \in Nat, Done <= Done'
      PROVE  CompletionInv' /\ CompletedMeansAllKems'
  <2>1. Done \in Nat /\ session.completed_kems \in Nat
    BY DEF TypeOK, Sessions, Done, Count
  <2>2. session'.completed_kems <= Done'
    BY <1>7, <2>1
  <2>3. ASSUME session'.completed_kems = Done', NEW i \in 0 .. Done' - 1
        PROVE  HasRow("KEM", i)'
    <3>1. session.completed_kems = Done /\ Done' = Done
      BY <1>7, <2>1, <2>3
    <3>2. HasRow("KEM", i)
      BY <1>7, <2>3, <3>1
    <3> QED  BY <1>1, <3>2
  <2>4. CompletedMeansAllKems'
    BY <1>1, <1>2, <1>7 DEF CompletedMeansAllKems
  <2> QED  BY <1>7, <2>2, <2>3, <2>4
<1>8. CASE StartDsas
  <2>1. kind' = "DSA" /\ pc' \in {"algorithm", "finish", "failed"} /\ kind = "DSA" /\ pc = "validate"
    BY <1>8 DEF StartDsas
  <2>2. /\ session'.total_kems = session.total_kems
        /\ session'.completed_kems = session.completed_kems
        /\ session'.state = "COMPLETED" => session.state = "COMPLETED"
    BY <1>8 DEF StartDsas, benchmark_session_start, benchmark_record_error, TypeOK, Sessions
  <2> QED  BY <1>7, <2>1, <2>2 DEF Done
<1>9. CASE NextAlgorithm
  <2>1. /\ session'.total_kems = session.total_kems
        /\ session'.completed_kems = session.completed_kems
        /\ session'.state = "COMPLETED"
              => session.state = "COMPLETED" \/ AllKemsCompleted(session)
    BY <1>9, AskingTheSession, SessionTyping
    DEF NextAlgorithm, AfterSkip, benchmark_update_progress, TypeOK, Sessions
  <2>2. pc = "algorithm" /\ pc' \in {"operation", "algorithm", "validate", "finish"}
    BY <1>9 DEF NextAlgorithm, AfterSkip, LeaveLoop
  <2>3. \/ kind' = kind /\ idx' \in {idx, idx + 1} /\ pc' \in {"operation", "algorithm"}
        \/ kind' = "DSA" /\ idx' = 0
    BY <1>9 DEF NextAlgorithm, AfterSkip, LeaveLoop
  <2>4. Done' \in Nat /\ Done <= Done'
    BY <2>3 DEF Done, TypeOK, Kinds, Count
  <2>5. ~BeforeKems /\ ~BeforeKems'
    BY <2>2, <2>3
  <2> QED  BY <1>7, <2>1, <2>2, <2>4, <2>5
<1>10. CASE NextOperation \/ RunStage
  <2>1. /\ session'.total_kems = session.total_kems
        /\ session'.completed_kems = session.completed_kems
        /\ session'.state = "COMPLETED"
              => session.state = "COMPLETED" \/ AllKemsCompleted(session)
    <3>1. CASE NextOperation
      BY <3>1, AskingTheSession, SessionTyping
      DEF NextOperation, benchmark_update_progress, TypeOK, Sessions
    <3>2. CASE RunStage
      <4>1. session \in Sessions /\ Asked = session
        BY <3>2, AskingTheSession DEF RunStage, OperationsInv, Asked, TypeOK
      <4>2. session' \in {session, benchmark_record_error(session)}
        BY <3>2, <4>1 DEF RunStage, Return, AfterNoSamples, benchmark_record_error
      <4> QED  BY <4>1, <4>2 DEF benchmark_record_error, Sessions
    <3> QED  BY <1>10, <3>1, <3>2
  <2>2. /\ pc \in {"operation", "run"} /\ pc' \in {"operation", "run", "record"}
        /\ kind' = kind /\ idx' = idx
    BY <1>10 DEF NextOperation, RunStage, Return
  <2>3. Done' = Done /\ Done \in Nat
    BY <2>2 DEF Done, TypeOK, Count
  <2>4. pc # "boot" /\ pc' # "boot" /\ ~BeforeKems /\ ~BeforeKems'
    BY <2>2
  <2> QED  BY <1>7, <2>1, <2>3, <2>4
<1>11. CASE Record
  <2>1. pc = "record" /\ pc' \in {"algorithm", "validate", "finish"}
    BY <1>11 DEF Record, LeaveLoop
  <2>2. CASE kind = "DSA"
    <3>1. kind' = kind /\ session' = session /\ pc' = "algorithm"
      BY <1>11, <2>2 DEF Record
    <3> QED  BY <1>7, <2>1, <2>2, <3>1 DEF Done
  <2>3. CASE kind = "KEM"
    <3> DEFINE s == benchmark_record_kem_result(session, idx, KemResultSlots, success)
    <3>1. session' = benchmark_should_continue(s)
      BY <1>11, <2>3 DEF Record
    <3>a. idx \in Nat /\ idx < NumKems /\ ~(idx >= KemResultSlots)
      <4>1. idx \in Indices("KEM")
        BY <2>1, <2>3 DEF OperationsInv, InAlgorithm, TypeOK
      <4> QED  BY <4>1 DEF Indices, Count
    <3>b. /\ session \in Sessions /\ success \in BOOLEAN
          /\ session.total_kems = NumKems
      BY <2>1, <2>3 DEF TypeOK
    <3>2. /\ s \in Sessions /\ s.total_kems = NumKems /\ s.state = session.state
          /\ s.completed_kems = IF success THEN session.completed_kems + 1
                                ELSE session.completed_kems
      BY <3>a, <3>b DEF benchmark_record_kem_result, Sessions
    <3> HIDE DEF s
    <3>3. /\ session'.total_kems = NumKems
          /\ session'.completed_kems = s.completed_kems
          /\ session'.state = "COMPLETED" => session.state = "COMPLETED" \/ AllKemsCompleted(s)
      BY <3>1, <3>2, AskingTheSession
    <3>4. ASSUME success, NEW i, i = idx
          PROVE  HasRow("KEM", i)'
      <4> DEFINE row == [kind |-> kind, alg |-> idx, results |-> results]
      <4>1. row \in rows'
        BY <1>11, <3>4 DEF Record
      <4>2. row.kind = "KEM" /\ row.alg = i
        BY <2>3, <3>4
      <4> HIDE DEF row
      <4> QED  BY <4>1, <4>2 DEF HasRow
    <3>5. session.completed_kems \in Nat /\ session.completed_kems <= idx
      BY <2>1, <2>3 DEF TypeOK, Sessions, Done
    <3>6. ASSUME s.completed_kems >= idx + 1, NEW i \in 0 .. idx
          PROVE  HasRow("KEM", i)'
      <4>1. success /\ session.completed_kems = idx
        BY <3>a, <3>2, <3>5, <3>6
      <4>2. CASE i = idx
        BY <3>4, <4>1, <4>2
      <4>3. CASE i # idx
        <5>1. i \in 0 .. Done - 1 /\ session.completed_kems = Done
          BY <2>3, <3>a, <4>1, <4>3 DEF Done
        <5>2. HasRow("KEM", i)
          BY <2>1, <5>1
        <5> QED  BY <1>1, <5>2
      <4> QED  BY <4>2, <4>3
    <3>7. /\ Done' \in {idx + 1, NumKems} /\ pc' # "boot" /\ ~BeforeKems'
          /\ Done' \in Nat /\ Done' >= idx + 1
      <4>1. \/ kind' = kind /\ idx' = idx + 1 /\ pc' = "algorithm"
            \/ kind' = "DSA"
        BY <1>11, <2>3 DEF Record, LeaveLoop
      <4> QED  BY <2>1, <2>3, <3>a, <4>1 DEF Done
    <3>8. s.completed_kems <= idx + 1
      BY <3>a, <3>2, <3>5
    <3>9. /\ session'.completed_kems <= Done'
          /\ session'.completed_kems = Done' => \A i \in 0 .. Done' - 1 : HasRow("KEM", i)'
      <4>1. /\ session'.completed_kems \in Nat
            /\ session'.completed_kems <= idx + 1
            /\ session'.completed_kems = s.completed_kems
        BY <3>2, <3>3, <3>5, <3>8, <3>b DEF Sessions
      <4>2. Done' \in Nat /\ Done' >= idx + 1
        BY <3>7
      <4>3. session'.completed_kems <= Done'
        BY <3>a, <4>1, <4>2
      <4>4. ASSUME session'.completed_kems = Done', NEW i \in 0 .. Done' - 1
            PROVE  HasRow("KEM", i)'
        <5>1. Done' = idx + 1 /\ s.completed_kems = idx + 1
          BY <3>a, <4>1, <4>2, <4>4
        <5>2. i \in 0 .. idx /\ s.completed_kems >= idx + 1
          BY <3>a, <4>4, <5>1
        <5> QED  BY <3>6, <5>2
      <4> QED  BY <4>3, <4>4
    <3>10. CompletedMeansAllKems'
      <4>1. ASSUME AllKemsCompleted(s), NEW i \in Indices("KEM")
            PROVE  HasRow("KEM", i)'
        BY <3>a, <3>2, <3>5, <3>6, <3>8, <4>1 DEF AllKemsCompleted, Indices, Count
      <4> QED  BY <1>1, <3>3, <4>1 DEF CompletedMeansAllKems
    <3> QED  BY <3>3, <3>7, <3>9, <3>10
  <2> QED  BY <2>2, <2>3 DEF TypeOK, Kinds
<1>12. CASE Finish
  <2>1. /\ pc = "finish" /\ pc' = "halted" /\ kind' = kind /\ idx' = idx
        /\ session'.total_kems = session.total_kems
        /\ session'.completed_kems = session.completed_kems
        /\ session'.state = "STOPPED"
    BY <1>12 DEF Finish, loopVars, benchmark_session_stop, TypeOK, Sessions
  <2>2. Done' = Done /\ Done \in Nat
    BY <2>1 DEF Done, TypeOK, Count
  <2> QED  BY <1>7, <2>1, <2>2
<1>13. CASE UNCHANGED vars
  BY <1>13, <1>1 DEF vars, CompletedMeansAllKems, Done
<1> QED
  BY <1>3, <1>4, <1>5, <1>6, <1>8, <1>9, <1>10, <1>11, <1>12, <1>13 DEF Next

-------------------------------------------------------------------------------
(* The theorems *)

(* Every step keeps the invariant.                                         *)
THEOREM InvStep == IInv /\ [Next]_vars => IInv'
BY TypeStep, RowsStep, OperationsStep, CompletionStep DEF IInv

(* What every reachable state satisfies, for any values of the constants.  *)
THEOREM Invariance == Spec => []IInv
BY InvInit, InvStep, PTL DEF Spec

(* Every variable of main() and its session stays in its type.             *)
THEOREM TypeCorrect == Spec => []TypeOK
<1>1. IInv => TypeOK
  BY DEF IInv
<1> QED  BY Invariance, <1>1, PTL

(* However many algorithms there are and whatever fails, a CSV row is      *)
(* printed only for an algorithm whose three benchmarks passed.            *)
THEOREM RowsCorrect == Spec => []RowsAreComplete
<1>1. IInv => RowsAreComplete
  BY DEF IInv
<1> QED  BY Invariance, <1>1, PTL

(* A COMPLETED session has a row for every registered KEM.                 *)
THEOREM CompletionCorrect == Spec => []CompletedMeansAllKems
<1>1. IInv => CompletedMeansAllKems
  BY DEF IInv
<1> QED  BY Invariance, <1>1, PTL
===============================================================================
