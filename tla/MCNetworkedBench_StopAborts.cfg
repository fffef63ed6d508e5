CONSTANTS
    None = None
    NoMessage = NoMessage
    Supported = {a1}
    Algorithms = {a1}
    Queries = {"BENCHMARK_STOP"}
    MaxQueries = 1
    MaxInbox = 2
    MaxFaults = 1
    MaxSockets = 2
    Reconnects = TRUE
SPECIFICATION FairSpec
PROPERTIES StopAborts
CHECK_DEADLOCK FALSE
