------------------------- MODULE NetworkedBench_proofs -------------------------
(***************************************************************************)
(* Proofs about a networked node, for any algorithms, queries, queue       *)
(* length, number of sockets and number of faults: what the main loop runs *)
(* is what the handler holds as requested, what it sends is the result of  *)
(* the run that ended, and every step of the node is one of the abstract   *)
(* service or none of it.                                                  *)
(***************************************************************************)
EXTENDS NetworkedBench, SequenceTheorems, TLAPS

-------------------------------------------------------------------------------
(* The inductive invariant *)

(* The message that the client is handling is still in the broker's queue, *)
(* as long as the session lasts; a session that is opened anew does not    *)
(* find the client handling anything.                                      *)
DeliveryInv ==
    /\ inbox \in Seq(Messages)
    /\ event # "none" /\ session # "none" => inbox # <<>>

(* A connection has a socket, so a disconnect has one to close. *)
SocketInv == connected => sockets > 0

(* The loop runs nothing while it has a result to send, and a device that  *)
(* starts has neither.                                                     *)
LoopInv ==
    /\ job = None \/ report = None
    /\ loop = "boot" => job = None /\ report = None

RunInv == LoopInv /\ RunIsTheRequest /\ ResultIsOfItsRun

IInv == TypeOK /\ DeliveryInv /\ SocketInv /\ RunInv

-------------------------------------------------------------------------------
(* Lemmas about the operators *)

LEMMA EmptyQueue == <<>> \in Seq(Messages)
  OBVIOUS

LEMMA MessagesInType == \A m \in Messages : m # NoMessage
  BY NoMessageAssumption

LEMMA ContentsInType == \A m \in Messages : Contents(m) \subseteq Messages
  BY DEF Contents, Messages

(* Steps that are not of the loop's work, and do not touch the handler. *)
LEMMA RunKept ==
  ASSUME RunInv, UNCHANGED <<node, job, report>>, loop' = "boot" => loop = "boot"
  PROVE  RunInv'
  BY DEF RunInv, LoopInv, RunIsTheRequest, ResultIsOfItsRun, tee_proto_create_benchmark_result,
         node

(* The abstract phase of the node, spelled out. *)
LEMMA ServiceDefs ==
  /\ Service!service = <<Phase, current_algorithm, last_result>>
  /\ Service!Restart <=> Phase' = "idle" /\ current_algorithm' = None /\ last_result' = None
  /\ Service!Complete <=> Phase = "busy" /\ Phase' = "done" /\ last_result' = current_algorithm
                             /\ UNCHANGED current_algorithm
  BY DEF Service!service, Service!Restart, Service!Complete

(* A message leaves the state of the handler alone, or is a request for a  *)
(* supported algorithm that finds it not running.                          *)
LEMMA HandleOutcome ==
  ASSUME NEW m, NEW response, tee_proto_handle_message(m, response)
  PROVE  \/ node' = node
         \/ /\ ~benchmark_running /\ m.algorithm \in Supported
            /\ benchmark_running' = TRUE /\ current_algorithm' = m.algorithm
            /\ result_available' = FALSE /\ last_result' = last_result
  BY DEF tee_proto_handle_message, HandleQuery, handle_status_request, StartRejected,
         StartAccepted, Ignored, AcceptsStart, AvailableAtStart, node

-------------------------------------------------------------------------------
(* Every step keeps the invariant. *)

LEMMA InitInv == Init => IInv
  <1> SUFFICES ASSUME Init PROVE IInv
    OBVIOUS
  <1> USE NetworkAssumption DEF Init, NodeInit, ClientInit
  <1>1. TypeOK
    <2>1. /\ sockets \in 0 .. MaxSockets /\ queries \in 0 .. MaxQueries /\ faults \in 0 .. MaxFaults
          /\ outcome \in [Algorithms -> Outcomes]
      BY DEF Outcomes
    <2> QED BY <2>1, Zenon DEF TypeOK, NodeTypeOK, ClientTypeOK
  <1>2. DeliveryInv BY DEF DeliveryInv
  <1>3. SocketInv /\ RunInv
    BY DEF SocketInv, RunInv, LoopInv, RunIsTheRequest, ResultIsOfItsRun
  <1> QED BY <1>1, <1>2, <1>3 DEF IInv

(* The orchestrator adds to the end of the queue. *)
LEMMA SendInv ==
  ASSUME DeliveryInv, NEW m \in Messages, Send(m), UNCHANGED <<client, session>>
  PROVE  DeliveryInv'
  <1>1. inbox' \in Seq(Messages) /\ inbox' # <<>>
    BY AppendProperties DEF Send, DeliveryInv
  <1>2. inbox # <<>> => Head(inbox') = Head(inbox)
    BY HeadTailAppend DEF Send, DeliveryInv
  <1> QED BY <1>1, <1>2 DEF DeliveryInv, client

LEMMA OrchestratorInv ==
  ASSUME IInv, (\E a \in Algorithms : Request(a)) \/ (\E q \in Queries : Ask(q))
  PROVE  IInv'
  <1>1. /\ UNCHANGED <<node, client, loop, job, session, outcome, faults, report>>
        /\ queries' \in 0 .. MaxQueries
    BY NetworkAssumption DEF Request, Ask, orchestrator, IInv, TypeOK
  <1>2. PICK m \in Messages : Send(m)
    BY DEF Request, Ask, Messages
  <1>3. DeliveryInv' BY <1>1, <1>2, SendInv DEF IInv
  <1>4. TypeOK' BY <1>1 DEF IInv, TypeOK, NodeTypeOK, ClientTypeOK, node, client
  <1>5. SocketInv' /\ RunInv'
    BY <1>1, RunKept DEF IInv, SocketInv, client
  <1> QED BY <1>3, <1>4, <1>5 DEF IInv

(* A start of the device, by Boot or after a power failure, leaves nothing *)
(* of the run, and no event of the client.                                 *)
LEMMA RestartInv ==
  ASSUME IInv, Boot \/ PowerFails
  PROVE  IInv'
  <1> USE NetworkAssumption DEF IInv
  <1>1. /\ tee_proto_init /\ tee_mqtt_init /\ UNCHANGED orchestrator
        /\ UNCHANGED network \/ (session' = "none" /\ inbox' = <<>>)
    BY DEF Boot, PowerFails
  <1>2. /\ loop' \in {"boot", "connect"} /\ job' = None /\ report' = None
        /\ faults' \in 0 .. MaxFaults
    BY DEF Boot, PowerFails, Fault, TypeOK, RunInv, LoopInv
  <1>3. TypeOK'
    <2>1. sockets' \in 0 .. MaxSockets
      BY <1>1 DEF tee_mqtt_init
    <2>2. session' \in {"none", "open", "subscribed"}
      BY <1>1 DEF TypeOK, network
    <2> QED BY <1>1, <1>2, <2>1, <2>2, Zenon
        DEF TypeOK, NodeTypeOK, ClientTypeOK, tee_proto_init, tee_mqtt_init, orchestrator
  <1>4. DeliveryInv'
    <2>1. inbox' = inbox \/ inbox' = <<>> BY <1>1 DEF network
    <2>2. inbox' \in Seq(Messages) BY <2>1, EmptyQueue, Zenon DEF DeliveryInv
    <2>3. event' = "none" BY <1>1 DEF tee_mqtt_init
    <2> QED BY <2>2, <2>3 DEF DeliveryInv
  <1>5. SocketInv' /\ RunInv'
    BY <1>1, <1>2
    DEF SocketInv, RunInv, LoopInv, RunIsTheRequest, ResultIsOfItsRun, tee_mqtt_init
  <1> QED BY <1>3, <1>4, <1>5

(* What the client's calls do to its connection and its sockets. *)
ConnectionOK == connected \in BOOLEAN /\ unread \in BOOLEAN /\ sockets \in 0 .. MaxSockets

LEMMA ConnectionStep ==
  ASSUME ConnectionOK, SocketInv,
         ConnectSucceeds \/ ConnectTimesOut \/ EventDisconnect \/ PayloadUnread
           \/ UNCHANGED <<connected, sockets, unread>>
  PROVE  ConnectionOK' /\ SocketInv'
  <1> USE NetworkAssumption DEF ConnectionOK, SocketInv
  <1>1. CASE ConnectSucceeds
    <2>1. sockets' \in 0 .. MaxSockets /\ sockets' > 0 BY <1>1 DEF ConnectSucceeds
    <2> QED BY <1>1, <2>1, Zenon DEF ConnectSucceeds
  <1>2. CASE ConnectTimesOut
    <2>1. sockets' \in 0 .. MaxSockets /\ sockets' > 0 BY <1>2 DEF ConnectTimesOut
    <2> QED BY <1>2, <2>1, Zenon DEF ConnectTimesOut
  <1>3. CASE EventDisconnect
    <2>1. sockets' \in 0 .. MaxSockets BY <1>3 DEF EventDisconnect
    <2>2. connected' = FALSE /\ unread' = FALSE
      BY <1>3, Zenon DEF EventDisconnect, ConnectedAfterDisconnect
    <2> QED BY <2>1, <2>2, Zenon
  <1>4. CASE PayloadUnread
    BY <1>4, Zenon DEF PayloadUnread
  <1>5. CASE UNCHANGED <<connected, sockets, unread>>
    BY <1>5, Zenon
  <1> QED BY <1>1, <1>2, <1>3, <1>4, <1>5

(* Joining the broker: a session is opened only when no event is handled.  *)
LEMMA JoinInv ==
  ASSUME IInv, Connect \/ Subscribe \/ JoinAgain
  PROVE  IInv'
  <1> USE NetworkAssumption DEF IInv
  <1>1. /\ UNCHANGED <<node, job, orchestrator, faults, report>>
        /\ event = "none" /\ event' = "none" /\ incoming' = incoming
        /\ loop' \in {"connect", "subscribe", "serve"}
    BY DEF Connect, Subscribe, JoinAgain, ConnectSucceeds, client
  <1>2. /\ inbox' = inbox \/ inbox' = <<>>
        /\ session' = session \/ session' \in {"open", "subscribed"}
    BY DEF Connect, Subscribe, JoinAgain, network
  <1>3. ConnectionOK' /\ SocketInv'
    BY ConnectionStep
    DEF Connect, Subscribe, JoinAgain, client, ConnectionOK, TypeOK, ClientTypeOK
  <1>4. inbox' \in Seq(Messages) /\ session' \in {"none", "open", "subscribed"}
    BY <1>2, EmptyQueue, Zenon DEF DeliveryInv, TypeOK
  <1>5. TypeOK'
    BY <1>1, <1>3, <1>4
    DEF TypeOK, NodeTypeOK, ClientTypeOK, ConnectionOK, node, orchestrator
  <1>6. DeliveryInv' BY <1>1, <1>4 DEF DeliveryInv
  <1>7. RunInv' BY <1>1, RunKept
  <1> QED BY <1>3, <1>5, <1>6, <1>7

(* Ends of a session: noticed, suffered, or wanted. *)
LEMMA BreakInv ==
  ASSUME IInv, NoticeBreak \/ LinkBreaks \/ Leave
  PROVE  IInv'
  <1> USE NetworkAssumption DEF IInv
  <1>1. /\ UNCHANGED <<node, job, event, incoming, orchestrator, report>>
        /\ loop' = loop \/ loop' = "connect"
    BY DEF NoticeBreak, LinkBreaks, Leave, client
  <1>2. session' = "none" /\ (inbox' = inbox \/ inbox' = <<>>)
    BY DEF NoticeBreak, LinkBreaks, Leave, network
  <1>3. faults' \in 0 .. MaxFaults
    BY DEF NoticeBreak, LinkBreaks, Leave, Fault, TypeOK
  <1>4. ConnectionOK' /\ SocketInv'
    BY ConnectionStep
    DEF NoticeBreak, LinkBreaks, Leave, tee_mqtt_disconnect, client, ConnectionOK, TypeOK,
        ClientTypeOK
  <1>5. inbox' \in Seq(Messages) BY <1>2, EmptyQueue, Zenon DEF DeliveryInv
  <1>6. TypeOK'
    BY <1>1, <1>2, <1>3, <1>4
    DEF TypeOK, NodeTypeOK, ClientTypeOK, ConnectionOK, node, orchestrator
  <1>7. DeliveryInv' BY <1>1, <1>2, <1>5 DEF DeliveryInv
  <1>8. RunInv' BY <1>1, RunKept
  <1> QED BY <1>4, <1>6, <1>7, <1>8

LEMMA TroubleInv ==
  ASSUME IInv, NoConnack \/ BadPayload
  PROVE  IInv'
  <1> USE NetworkAssumption DEF IInv
  <1>1. UNCHANGED <<node, job, loop, network, event, incoming, connected, orchestrator, report>>
    BY DEF NoConnack, BadPayload, ConnectTimesOut, PayloadUnread
  <1>2. faults' \in 0 .. MaxFaults
    BY DEF NoConnack, BadPayload, Fault, TypeOK
  <1>3. ConnectionOK' /\ SocketInv'
    BY ConnectionStep DEF NoConnack, BadPayload, ConnectionOK, TypeOK, ClientTypeOK
  <1>4. TypeOK'
    BY <1>1, <1>2, <1>3
    DEF TypeOK, NodeTypeOK, ClientTypeOK, ConnectionOK, node, network, orchestrator
  <1>5. DeliveryInv' BY <1>1 DEF DeliveryInv, network
  <1>6. RunInv' BY <1>1, RunKept
  <1> QED BY <1>3, <1>4, <1>5, <1>6

(* A message is received from the head of the queue, whole or not, handled,*)
(* and acknowledged while it is still there.                               *)
LEMMA ReceiveInv == ASSUME IInv, Receive \/ ShortRead PROVE IInv'
  <1> USE DEF IInv
  <1>1. inbox # <<>> => Head(inbox) \in Messages
    BY HeadTailProperties DEF DeliveryInv
  <1>2. PICK m \in Messages, rest \in BOOLEAN : EventPublish(m, rest)
    BY <1>1, ContentsInType DEF Receive, ShortRead
  <1>3. UNCHANGED <<node, job, loop, network, orchestrator, report>> /\ inbox # <<>>
    BY Zenon DEF Receive, ShortRead
  <1>4. faults' \in 0 .. MaxFaults
    <2>1. /\ faults \in 0 .. MaxFaults
          /\ (faults' = faults \/ (faults < MaxFaults /\ faults' = faults + 1))
      BY Zenon DEF Receive, ShortRead, Fault, TypeOK
    <2> QED BY <2>1, NetworkAssumption
  <1>5. /\ event' = "callback" /\ incoming' = m /\ unread' = rest
        /\ UNCHANGED <<connected, sockets>>
    BY <1>2 DEF EventPublish
  <1>6. m # NoMessage BY MessagesInType
  <1>7. TypeOK'
    BY <1>3, <1>4, <1>5, <1>6 DEF TypeOK, NodeTypeOK, ClientTypeOK, node, network, orchestrator
  <1>8. DeliveryInv' BY <1>3, <1>5 DEF DeliveryInv, network
  <1>9. SocketInv' /\ RunInv' BY <1>3, <1>5, RunKept DEF SocketInv
  <1> QED BY <1>7, <1>8, <1>9

LEMMA HandleInv == ASSUME IInv, Handle PROVE IInv'
  <1> USE DEF IInv, Handle
  <1>1. PICK response \in Responses :
          /\ tee_proto_handle_message(incoming, response)
          /\ IF response = [type |-> "UNSUPPORTED_ALG"]
             THEN Told(incoming.algorithm, "refused")
             ELSE UNCHANGED outcome
    OBVIOUS
  <1>2. outcome' \in [Algorithms -> Outcomes] BY <1>1 DEF Told, TypeOK, Outcomes
  <1>3. NodeTypeOK'
    BY <1>1, HandleOutcome DEF TypeOK, NodeTypeOK, node
  <1>4. RunInv'
    BY <1>1, HandleOutcome
    DEF RunInv, LoopInv, RunIsTheRequest, ResultIsOfItsRun, tee_proto_create_benchmark_result, node
  <1>5. event' = "ack" /\ incoming' = NoMessage /\ event = "callback"
    BY DEF CallbackReturns
  <1>6. TypeOK' BY <1>2, <1>3, <1>5 DEF TypeOK, ClientTypeOK, network
  <1>7. DeliveryInv' BY <1>5 DEF DeliveryInv, network
  <1>8. SocketInv' BY DEF SocketInv
  <1> QED BY <1>4, <1>6, <1>7, <1>8

LEMMA AckInv == ASSUME IInv, Ack PROVE IInv'
  <1> USE DEF IInv, Ack, Acknowledge
  <1>1. inbox' \in Seq(Messages)
    BY HeadTailProperties DEF DeliveryInv, Reaches
  <1>2. TypeOK' BY DEF TypeOK, NodeTypeOK, ClientTypeOK, node, orchestrator
  <1>3. DeliveryInv' BY <1>1 DEF DeliveryInv
  <1>4. SocketInv' /\ RunInv' BY RunKept DEF SocketInv
  <1> QED BY <1>2, <1>3, <1>4

(* The run of the loop, and its result. *)
LEMMA BeginBenchmarkInv == ASSUME IInv, BeginBenchmark PROVE IInv'
  <1> USE DEF IInv, BeginBenchmark, tee_proto_is_benchmark_requested,
             tee_proto_get_requested_algorithm
  <1>1. TypeOK' BY DEF TypeOK, NodeTypeOK, ClientTypeOK, node, client, network, orchestrator
  <1>2. DeliveryInv' /\ SocketInv' BY DEF DeliveryInv, SocketInv, client, network
  <1>3. RunInv' BY DEF RunInv, LoopInv, RunIsTheRequest, ResultIsOfItsRun, node
  <1> QED BY <1>1, <1>2, <1>3

LEMMA FinishBenchmarkInv == ASSUME IInv, FinishBenchmark PROVE IInv'
  <1> USE DEF IInv, FinishBenchmark, tee_proto_set_benchmark_result, RunningAfterResult
  <1>1. TypeOK' BY DEF TypeOK, NodeTypeOK, ClientTypeOK, client, network, orchestrator
  <1>2. DeliveryInv' /\ SocketInv' BY DEF DeliveryInv, SocketInv, client, network
  <1>3. RunInv'
    BY DEF RunInv, LoopInv, RunIsTheRequest, ResultIsOfItsRun, tee_proto_create_benchmark_result
  <1> QED BY <1>1, <1>2, <1>3

LEMMA SendResultInv == ASSUME IInv, SendResult PROVE IInv'
  <1> USE DEF IInv, SendResult
  <1>1. outcome' \in [Algorithms -> Outcomes] BY DEF Told, TypeOK, Outcomes
  <1>2. TypeOK' BY <1>1 DEF TypeOK, NodeTypeOK, ClientTypeOK, node, client, network
  <1>3. DeliveryInv' /\ SocketInv' BY DEF DeliveryInv, SocketInv, client, network
  <1>4. RunInv' BY DEF RunInv, LoopInv, RunIsTheRequest, ResultIsOfItsRun, node
  <1> QED BY <1>2, <1>3, <1>4

LEMMA StepInv == IInv /\ [Next]_vars => IInv'
  <1> SUFFICES ASSUME IInv, [Next]_vars PROVE IInv'
    OBVIOUS
  <1>1. CASE UNCHANGED vars
    BY <1>1 DEF IInv, TypeOK, NodeTypeOK, ClientTypeOK, DeliveryInv, SocketInv, RunInv, LoopInv,
                RunIsTheRequest, ResultIsOfItsRun, tee_proto_create_benchmark_result, vars, node,
                client, network, orchestrator
  <1>2. CASE Next
    BY <1>2, OrchestratorInv, RestartInv, JoinInv, BreakInv, TroubleInv, ReceiveInv, HandleInv,
       AckInv, BeginBenchmarkInv, FinishBenchmarkInv, SendResultInv DEF Next, Device, Work
  <1> QED BY <1>1, <1>2

(* What every reachable state satisfies, for any values of the constants.  *)
THEOREM Invariance == Spec => []IInv
  BY InitInv, StepInv, PTL DEF Spec

-------------------------------------------------------------------------------
(* Theorems *)

(* Handler, client, loop and orchestrator stay in their types: no          *)
(* disconnect closes a socket that is not there, whatever faults occur.    *)
THEOREM TypeCorrect == Spec => []TypeOK
  <1>1. IInv => TypeOK BY DEF IInv
  <1> QED BY <1>1, Invariance, PTL

(* What the loop runs is what the handler holds, however many messages are *)
(* handled meanwhile: a start is refused while one is running.             *)
THEOREM RunsAreTheRequest == Spec => []RunIsTheRequest
  <1>1. IInv => RunIsTheRequest BY DEF IInv, RunInv
  <1> QED BY <1>1, Invariance, PTL

(* The result that is sent is of the run that ended, although a request may*)
(* be accepted, and the result flag cleared, before it is sent: only the   *)
(* end of a run stores a result, and none begins before it is sent.        *)
THEOREM ResultsAreOfTheirRuns == Spec => []ResultIsOfItsRun
  <1>1. IInv => ResultIsOfItsRun BY DEF IInv, RunInv
  <1> QED BY <1>1, Invariance, PTL

(* Step by step, the node behind its network is the abstract service: the  *)
(* handler takes a request only when none is running, the result is of the *)
(* one it took, and only a start of the device forgets them.               *)
THEOREM StepsRefine ==
  ASSUME IInv, [Next]_vars
  PROVE  [Service!ServiceNext]_(Service!service)
  <1>1. CASE UNCHANGED node
    <2>1. Phase' = Phase /\ current_algorithm' = current_algorithm /\ last_result' = last_result
      BY <1>1, Zenon DEF node, Phase
    <2> QED BY <2>1 DEF Service!service
  <1>2. CASE Boot \/ PowerFails
    <2>1. Service!Restart
      BY <1>2, ServiceDefs DEF Boot, PowerFails, tee_proto_init, Phase
    <2> QED BY <2>1 DEF Service!ServiceNext
  <1>3. CASE Handle
    <2>1. PICK response \in Responses : tee_proto_handle_message(incoming, response)
      BY <1>3 DEF Handle
    <2>2. CASE node' # node
      <3>1. /\ ~benchmark_running /\ incoming.algorithm \in Supported
            /\ benchmark_running' = TRUE /\ current_algorithm' = incoming.algorithm
            /\ last_result' = last_result
        BY <2>1, <2>2, HandleOutcome
      <3>2. Phase # "busy" /\ Phase' = "busy"
        BY <3>1 DEF Phase
      <3>3. Service!Accept(incoming.algorithm)
        BY <3>1, <3>2 DEF Service!Accept
      <3> QED BY <3>1, <3>3 DEF Service!ServiceNext
    <2> QED BY <1>1, <2>2
  <1>4. CASE FinishBenchmark
    <2>1. benchmark_running /\ job = current_algorithm
      BY <1>4 DEF IInv, RunInv, RunIsTheRequest, FinishBenchmark
    <2>2. Service!Complete
      BY <1>4, <2>1, ServiceDefs
      DEF FinishBenchmark, tee_proto_set_benchmark_result, RunningAfterResult, Phase
    <2> QED BY <2>2 DEF Service!ServiceNext
  <1>5. CASE ~(Boot \/ PowerFails \/ Handle \/ FinishBenchmark) /\ node' # node
    BY <1>5
    DEF Next, Device, Work, vars, Connect, Subscribe, JoinAgain, NoticeBreak, Receive, Ack,
        BeginBenchmark, SendResult, Request, Ask, LinkBreaks, NoConnack, BadPayload, ShortRead,
        Leave
  <1> QED BY <1>1, <1>2, <1>3, <1>4, <1>5

(* The safety of the abstract service is that of the node; that it also    *)
(* completes what it has accepted rests on the fairness of the loop.       *)
THEOREM SafeService == Spec => Service!ServiceSafety
  <1>1. Init => Service!ServiceInit
    BY DEF Init, NodeInit, Service!ServiceInit, Phase
  <1>2. IInv /\ [Next]_vars => [Service!ServiceNext]_(Service!service)
    BY StepsRefine
  <1> QED BY <1>1, <1>2, Invariance, PTL DEF Spec, Service!ServiceSafety
===============================================================================
