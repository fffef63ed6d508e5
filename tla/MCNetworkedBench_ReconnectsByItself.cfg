CONSTANTS
    None = None
    NoMessage = NoMessage
    Supported = {a1}
    Algorithms = {a1}
    Queries = {"BENCHMARK_STOP"}
    MaxQueries = 1
    MaxInbox = 2
    MaxFaults = 1
    MaxSockets = 2
    Reconnects = FALSE
SPECIFICATION FairSpec
PROPERTIES ReconnectsByItself
CHECK_DEADLOCK FALSE
