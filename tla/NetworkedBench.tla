---------------------------- MODULE NetworkedBench ----------------------------
(***************************************************************************)
(* The network orchestration of a node: the protocol handler and the MQTT  *)
(* client of the device, a broker, and the orchestrator that requests      *)
(* benchmarks.  The handler says that the benchmark itself "happens in main*)
(* loop", and the client is to be called periodically; that loop, like the *)
(* broker and the orchestrator, is not in the repository.  The loop here is*)
(* the plainest one the two interfaces allow.                              *)
(*                                                                         *)
(* The device is one thread.  It may be switched off between any two of its*)
(* steps; the link may break at any time, which the client learns when the *)
(* library next uses it.  The broker delivers in order, a message stays    *)
(* with it until acknowledged, and a broken session leaves nothing behind: *)
(* sessions are clean ones, and a device that starts takes a new identity  *)
(* (tee_mqtt_client.c 232-241, 290).  What a break or a reset loses is not *)
(* delivered again; the orchestrator repeats a request until it has an     *)
(* answer, so that a node may see one many times.                          *)
(***************************************************************************)
EXTENDS TeeNode, MqttClient, Sequences

CONSTANTS
    Algorithms,   \* what the orchestrator asks for
    Queries,      \* types of the other messages it may send
    MaxQueries,   \* how many of them
    MaxInbox,     \* messages the broker keeps for the device
    MaxFaults,    \* breaks, resets, timeouts, payloads unread or read short
    Reconnects    \* the loop connects again when it finds itself disconnected

ASSUME NetworkAssumption ==
    /\ Supported \subseteq Algorithms /\ None \notin Algorithms
    /\ Queries \subseteq {"DISCOVER", "ATTEST_REQUEST", "STATUS_REQUEST", "BENCHMARK_STOP",
                          "MALFORMED", "CUT_START"}
    /\ MaxQueries \in Nat /\ MaxInbox \in Nat \ {0} /\ MaxFaults \in Nat
    /\ MaxSockets \in Nat \ {0}
    /\ Reconnects \in BOOLEAN

VARIABLES
    loop,      \* where the loop is: booting, connecting, subscribing or serving
    job,       \* the algorithm whose benchmark the loop is running
    report,    \* the one whose result the loop has stored and not yet sent
    session,   \* the broker's view of the device: "none", "open" or "subscribed"
    inbox,     \* messages for the device at the broker, unacknowledged ones included
    outcome,   \* what the orchestrator knows of each algorithm
    queries, faults

network == <<session, inbox>>
orchestrator == <<outcome, queries>>
vars == <<node, client, loop, job, report, network, orchestrator, faults>>

Start(a) == [type |-> "BENCHMARK_START", algorithm |-> a]
Query(q) == [type |-> q, algorithm |-> None]
Messages == {Start(a) : a \in Algorithms} \cup {Query(q) : q \in Queries}

(* What the handler finds in the client's buffer, which is on the stack and*)
(* not cleared, when a message was read into it.  Of a start command that  *)
(* was sent cut, only the header's length is checked: the algorithm is what*)
(* the buffer held.                                                        *)
Contents(m) ==
    IF m = Query("CUT_START") THEN {Start(a) : a \in Algorithms} ELSE {m}

ASSUME NoMessageAssumption == NoMessage \notin Messages

Waiting(m) == \E i \in DOMAIN inbox : inbox[i] = m

Init ==
    /\ NodeInit /\ ClientInit
    /\ loop = "boot" /\ job = None /\ report = None
    /\ session = "none" /\ inbox = <<>>
    /\ outcome = [a \in Algorithms |-> "open"]
    /\ queries = 0 /\ faults = 0

-------------------------------------------------------------------------------
(* The orchestrator. *)

(* A message counts only when the device is subscribed and the broker has  *)
(* room for it.                                                            *)
Send(m) ==
    /\ session = "subscribed" /\ Len(inbox) < MaxInbox
    /\ inbox' = Append(inbox, m)

Request(a) ==
    /\ outcome[a] = "open" /\ ~Waiting(Start(a))
    /\ Send(Start(a))
    /\ UNCHANGED <<node, client, loop, job, session, orchestrator, faults, report>>

Ask(q) ==
    /\ queries < MaxQueries
    /\ Send(Query(q))
    /\ queries' = queries + 1
    /\ UNCHANGED <<node, client, loop, job, session, outcome, faults, report>>

-------------------------------------------------------------------------------
(* The device joins: initialization, connection, subscription. *)

Boot ==
    /\ loop = "boot"
    /\ tee_proto_init /\ tee_mqtt_init
    /\ loop' = "connect"
    /\ UNCHANGED <<job, network, orchestrator, faults, report>>

(* A session that the broker still has for the device is closed. *)
Connect ==
    /\ loop = "connect" /\ event = "none"
    /\ ConnectSucceeds
    /\ loop' = "subscribe"
    /\ session' = "open" /\ inbox' = <<>>
    /\ UNCHANGED <<node, job, orchestrator, faults, report>>

Subscribe ==
    /\ loop = "subscribe" /\ event = "none"
    /\ MayCallLibrary /\ session = "open"
    /\ session' = "subscribed"
    /\ loop' = "serve"
    /\ UNCHANGED <<node, client, job, inbox, orchestrator, faults, report>>

(* tee_mqtt_subscribe or tee_mqtt_process returns -ENOTCONN. *)
JoinAgain ==
    /\ loop \in {"subscribe", "serve"} /\ event = "none" /\ ~MayCallLibrary
    /\ Reconnects
    /\ loop' = "connect"
    /\ UNCHANGED <<node, client, job, network, orchestrator, faults, report>>

-------------------------------------------------------------------------------
(* tee_mqtt_process *)

(* The library finds the link broken while it reads, writes, or sends a    *)
(* ping.                                                                   *)
NoticeBreak ==
    /\ session = "none"
    /\ EventDisconnect
    /\ UNCHANGED <<node, loop, job, event, incoming, network, orchestrator, faults, report>>

Receive ==
    /\ loop = "serve" /\ session = "subscribed" /\ inbox # <<>>
    /\ \E m \in Contents(Head(inbox)) : EventPublish(m, FALSE)
    /\ UNCHANGED <<node, loop, job, network, orchestrator, faults, report>>

(* The callback passes the message to the handler and publishes the        *)
(* response, whatever the handler returns.  It reaches the orchestrator if *)
(* client and link are up.                                                 *)
Reaches == connected /\ session # "none"

Told(a, answer) ==
    outcome' = IF Reaches THEN [outcome EXCEPT ![a] = answer] ELSE outcome

Handle ==
    /\ event = "callback"
    /\ \E response \in Responses :
          /\ tee_proto_handle_message(incoming, response)
          /\ IF response = [type |-> "UNSUPPORTED_ALG"]
             THEN Told(incoming.algorithm, "refused")
             ELSE UNCHANGED outcome
    /\ CallbackReturns
    /\ UNCHANGED <<connected, sockets, unread, loop, job, network, queries, faults, report>>

(* The broker forgets a message that is acknowledged over a live link; if  *)
(* the link broke since, nothing of the session is left.                   *)
Ack ==
    /\ event = "ack"
    /\ Acknowledge
    /\ inbox' = IF Reaches THEN Tail(inbox) ELSE inbox
    /\ UNCHANGED <<node, loop, job, session, orchestrator, faults, report>>

-------------------------------------------------------------------------------
(* The main loop runs what was requested, stores the result and sends it,  *)
(* one after another and between calls of the client: messages are handled *)
(* while a benchmark runs, and before its result is sent.                  *)

BeginBenchmark ==
    /\ loop # "boot" /\ event = "none" /\ job = None /\ report = None
    /\ tee_proto_is_benchmark_requested
    /\ job' = tee_proto_get_requested_algorithm
    /\ UNCHANGED <<node, client, loop, network, orchestrator, faults, report>>

FinishBenchmark ==
    /\ event = "none" /\ job # None
    /\ tee_proto_set_benchmark_result(job)
    /\ job' = None
    /\ report' = job
    /\ UNCHANGED <<client, loop, network, orchestrator, faults>>

(* The result is sent once, whether or not it gets through. *)
SendResult ==
    /\ event = "none" /\ report # None
    /\ Told(tee_proto_create_benchmark_result(report), "served")
    /\ report' = None
    /\ UNCHANGED <<node, client, loop, job, network, queries, faults>>

-------------------------------------------------------------------------------
(* Faults *)

Fault == faults < MaxFaults /\ faults' = faults + 1

LinkBreaks ==
    /\ Fault
    /\ session # "none"
    /\ session' = "none" /\ inbox' = <<>>
    /\ UNCHANGED <<node, client, loop, job, orchestrator, report>>

(* Power is lost and comes back: nothing of the device survives. *)
PowerFails ==
    /\ Fault
    /\ loop # "boot"
    /\ tee_proto_init /\ tee_mqtt_init
    /\ loop' = "boot" /\ job' = None /\ report' = None
    /\ session' = "none" /\ inbox' = <<>>
    /\ UNCHANGED orchestrator

NoConnack ==
    /\ Fault
    /\ loop = "connect" /\ event = "none"
    /\ ConnectTimesOut
    /\ UNCHANGED <<node, loop, job, network, orchestrator, report>>

BadPayload ==
    /\ Fault
    /\ loop = "serve" /\ session = "subscribed"
    /\ PayloadUnread
    /\ UNCHANGED <<node, loop, job, network, orchestrator, report>>

(* A read that ends early: the handler gets some bytes of the message, and *)
(* then what the buffer held.                                              *)
ShortRead ==
    /\ Fault
    /\ loop = "serve" /\ session = "subscribed" /\ inbox # <<>>
    /\ \E m \in Messages : \E contents \in Contents(m) : EventPublish(contents, TRUE)
    /\ UNCHANGED <<node, loop, job, network, orchestrator, report>>

(* The loop itself gives the connection up, for a new one. *)
Leave ==
    /\ Fault
    /\ loop = "serve" /\ event = "none"
    /\ tee_mqtt_disconnect
    /\ loop' = "connect"
    /\ session' = "none" /\ inbox' = <<>>
    /\ UNCHANGED <<node, job, event, incoming, orchestrator, report>>

-------------------------------------------------------------------------------
Device ==
    \/ Boot
    \/ Connect
    \/ Subscribe
    \/ JoinAgain
    \/ NoticeBreak
    \/ Receive
    \/ Handle
    \/ Ack

Work ==
    \/ BeginBenchmark
    \/ FinishBenchmark
    \/ SendResult

Next ==
    \/ Device
    \/ Work
    \/ \E a \in Algorithms : Request(a)
    \/ \E q \in Queries : Ask(q)
    \/ LinkBreaks
    \/ PowerFails
    \/ NoConnack
    \/ BadPayload
    \/ ShortRead
    \/ Leave

Spec == Init /\ [][Next]_vars

(* The loop goes round, and each round calls the client and runs what is   *)
(* requested; a broker that is up accepts a connection in the end and      *)
(* delivers in order; the orchestrator repeats what has no answer.  No     *)
(* fault needs to happen or to stop happening: there are MaxFaults.        *)
FairSpec ==
    /\ Spec
    /\ WF_vars(Device)
    /\ SF_vars(Work)
    /\ \A a \in Algorithms : SF_vars(Request(a))

-------------------------------------------------------------------------------
(* Properties *)

Outcomes == {"open", "served", "refused"}

(* Every variable stays in its type. *)
TypeOK ==
    /\ NodeTypeOK /\ ClientTypeOK
    /\ loop \in {"boot", "connect", "subscribe", "serve"}
    /\ job \in Supported \cup {None} /\ report \in Supported \cup {None}
    /\ session \in {"none", "open", "subscribed"}
    /\ outcome \in [Algorithms -> Outcomes]
    /\ queries \in 0 .. MaxQueries /\ faults \in 0 .. MaxFaults

(* The node behind its network is the service that BenchService promises:  *)
(* a request repeated, reordered or sent by another while one is in        *)
(* progress never replaces it, and what is accepted is completed           *)
(* (tee_network_handler.c 300, 326-330, 543-565).                          *)
Phase ==
    IF benchmark_running THEN "busy" ELSE IF result_available THEN "done" ELSE "idle"

Service == INSTANCE BenchService WITH
    Algorithms <- Supported, phase <- Phase, job <- current_algorithm, result <- last_result

ImplementsService == Service!ServiceSpec

(* The loop runs what the handler holds as requested, from its start to its*)
(* end, although the loop keeps a pointer into the handler's state and     *)
(* messages are handled meanwhile (tee_network_handler.c 300, 547).        *)
RunIsTheRequest ==
    job # None => benchmark_running /\ ~result_available /\ job = current_algorithm

(* A result message is a copy of the handler's last result, whatever       *)
(* algorithm it is asked for, and a new request may be accepted, and the   *)
(* requested algorithm replaced, after that result was stored: what is sent*)
(* is still the result of the run that ended, over resets and repetitions  *)
(* (tee_network_handler.c 228, 325-330, 555-565).                          *)
ResultIsOfItsRun ==
    report # None => tee_proto_create_benchmark_result(report) = report

(* Every request is served in the end, or refused when the algorithm is not*)
(* supported, over resets, broken links and repeated requests.  There are  *)
(* two exceptions, where the client leaves its device deaf: a payload that *)
(* was not read to its end, for as long as the link lasts                  *)
(* (tee_mqtt_client.c 166-176), and sockets used up by connections that    *)
(* timed out (358-375).                                                    *)
Deaf == unread \/ (~connected /\ sockets = MaxSockets)

RequestAnswered ==
    \A a \in Algorithms :
        outcome[a] = "open" ~>
            \/ outcome[a] = IF a \in Supported THEN "served" ELSE "refused"
            \/ Deaf

-------------------------------------------------------------------------------
(* What the files say and the code does not do.                            *)

(* "Automatic reconnection with backoff" (tee_mqtt_client.c:12).           *)
ReconnectsByItself == loop = "serve" /\ ~connected ~> connected

(* "Command: abort benchmark" (tee_network_protocol.h).                    *)
StopAborts ==
    [][Handle /\ incoming.type = "BENCHMARK_STOP" => ~benchmark_running']_vars
===============================================================================
