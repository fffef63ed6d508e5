CONSTANTS
    Period = 2
    Timeout = 3
    Batches = {4}
    Durations = {3}
    Slack = 1
    Width = 8
SPECIFICATION Spec
INVARIANT LatencyWithinPeriod
