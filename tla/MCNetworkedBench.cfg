\* Two faults of any kind, one other message of any type but a malformed one,
\* which is ignored as a stop is; the third algorithm is not supported.
CONSTANTS
    None = None
    NoMessage = NoMessage
    Supported = {a1, a2}
    Algorithms = {a1, a2, x}
    Queries = {"STATUS_REQUEST", "BENCHMARK_STOP", "DISCOVER", "ATTEST_REQUEST", "CUT_START"}
    MaxQueries = 1
    MaxInbox = 2
    MaxFaults = 2
    MaxSockets = 2
    Reconnects = TRUE
SPECIFICATION FairSpec
INVARIANTS
    TypeOK
    RunIsTheRequest
    ResultIsOfItsRun
PROPERTIES
    ImplementsService
    RequestAnswered
CHECK_DEADLOCK FALSE
