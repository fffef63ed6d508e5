-------------------------------- MODULE TeeNode --------------------------------
(***************************************************************************)
(* The protocol handler of src/tee_network_handler.c: g_handler_state and  *)
(* the functions that change it.  A message is a record of its type and of *)
(* the algorithm it names.  The response, an output parameter of the       *)
(* handler, is one of its operators: a record of its type and of the field *)
(* that depends on the state.  Packet and byte counts are left out: the    *)
(* handler never reads them.                                               *)
(***************************************************************************)
CONSTANTS
    Supported,  \* g_supported_algorithms
    None        \* an empty string

VARIABLES
    benchmark_running,
    current_algorithm,
    result_available,
    last_result         \* the algorithm it is the result of

node == <<benchmark_running, current_algorithm, result_available, last_result>>

(* What *response and *response_len may be; None when the length is 0. *)
Responses ==
    {[type |-> t] : t \in {"ANNOUNCE", "ATTEST_RESPONSE", "BUSY", "UNSUPPORTED_ALG"}}
        \cup [type : {"STATUS_RESPONSE"}, is_busy : BOOLEAN]
        \cup {None}

-------------------------------------------------------------------------------
(* The memset of tee_proto_init. *)
NodeInit ==
    /\ benchmark_running = FALSE
    /\ current_algorithm = None
    /\ result_available = FALSE
    /\ last_result = None

tee_proto_init ==
    /\ benchmark_running' = FALSE
    /\ current_algorithm' = None
    /\ result_available' = FALSE
    /\ last_result' = None

(* handle_discover and handle_attest_request only answer. *)
HandleQuery(m, response) ==
    /\ \/ m.type = "DISCOVER" /\ response = [type |-> "ANNOUNCE"]
       \/ m.type = "ATTEST_REQUEST" /\ response = [type |-> "ATTEST_RESPONSE"]
    /\ UNCHANGED node

handle_status_request(m, response) ==
    /\ m.type = "STATUS_REQUEST"
    /\ response = [type |-> "STATUS_RESPONSE", is_busy |-> benchmark_running]
    /\ UNCHANGED node

(* handle_benchmark_start.  An error is a response too, although -1 is     *)
(* returned.                                                               *)
AcceptsStart_Always == TRUE
AcceptsStart == ~benchmark_running

StartRejected(m, response) ==
    /\ m.type = "BENCHMARK_START"
    /\ \/ ~AcceptsStart /\ response = [type |-> "BUSY"]
       \/ /\ AcceptsStart /\ m.algorithm \notin Supported
          /\ response = [type |-> "UNSUPPORTED_ALG"]
    /\ UNCHANGED node

AvailableAtStart_Kept == result_available
AvailableAtStart == FALSE

StartAccepted(m, response) ==
    /\ m.type = "BENCHMARK_START"
    /\ AcceptsStart /\ m.algorithm \in Supported
    /\ benchmark_running' = TRUE
    /\ current_algorithm' = m.algorithm
    /\ result_available' = AvailableAtStart
    /\ response = [type |-> "STATUS_RESPONSE", is_busy |-> TRUE]
    /\ UNCHANGED last_result

(* A bad header or a type without a case: -1, and no response.  A stop     *)
(* command is one of those.                                                *)
Ignored(m, response) ==
    /\ m.type \in {"BENCHMARK_STOP", "MALFORMED"}
    /\ response = None
    /\ UNCHANGED node

tee_proto_handle_message(m, response) ==
    \/ HandleQuery(m, response)
    \/ handle_status_request(m, response)
    \/ StartRejected(m, response)
    \/ StartAccepted(m, response)
    \/ Ignored(m, response)

-------------------------------------------------------------------------------
(* What the main loop calls. *)
tee_proto_is_benchmark_requested == benchmark_running /\ ~result_available
tee_proto_get_requested_algorithm == current_algorithm

RunningAfterResult_Kept == benchmark_running
RunningAfterResult == FALSE

tee_proto_set_benchmark_result(r) ==
    /\ last_result' = r
    /\ result_available' = TRUE
    /\ benchmark_running' = RunningAfterResult
    /\ UNCHANGED current_algorithm

(* A copy of the last result; the algorithm the caller names is not looked *)
(* at.                                                                     *)
tee_proto_create_benchmark_result_Current(algorithm) == current_algorithm
tee_proto_create_benchmark_result(algorithm) == last_result

-------------------------------------------------------------------------------
(* Every variable stays in its type. *)
NodeTypeOK ==
    /\ benchmark_running \in BOOLEAN /\ result_available \in BOOLEAN
    /\ current_algorithm \in Supported \cup {None}
    /\ last_result \in Supported \cup {None}
===============================================================================
