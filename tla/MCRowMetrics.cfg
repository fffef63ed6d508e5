\* Sizes in KB. Of the buffers of an algorithm, with a quarter more, 10 fit
\* under both caps, 61 in the margin of the second, 100 under the first only,
\* 125 in its margin, and 162 under none.
CONSTANTS
    Baselines <- Measured
    Cycles = {0, 1, 3}
    Top = 4
    N = 3
    MinWindow = 2
    MaxInner = 4
    EntropyIters = 2
    RecoveryPolls = 2
    Needs = {8, 49, 80, 100, 130}
    Caps <- InKB
    Margin <- Left
    Trials = 3
    Heap = 256
    SizeWidth = 1024
    StressSamples = 2
    ProfileRuns = 2
    Budget = 6
SPECIFICATION FairSpec
INVARIANTS
    TypeOK
    NothingLeaks
    JitterIsTheRange
    BaselineIsOrdered
    SlowerIsRiskier
    CapsAreKept
PROPERTIES
    RowEnds
CHECK_DEADLOCK FALSE
