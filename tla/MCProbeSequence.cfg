\* An operation is shorter than every period or longer than all of them; an
\* average of 0 is an operation with none, and 1 runs into MostRepeats.
CONSTANTS
    StressPeriod = 3
    StressWork = 2
    StressSamples = {2}
    IsrPeriod = 3
    IsrSamples = {2}
    VictimPeriod = 2
    CoopWindow = 4
    MostRepeats = 3
    Averages = {0, 1, 2}
    AverageDurations <- AverageOrMore
    ReleasePeriod = 2
    Timeout = 3
    Batches = {2}
    Slack = 1
    Width = 5
    Durations = {1, 4}
SPECIFICATION FairSpec
INVARIANTS
    TypeOK
    OnlyOneProbeAtATime
    StressBeforeSampling
    ReportsAreTheWindows
    WakesAreReleases
    StarvationMeansShorterWindow
    TakesAreReleases
    NeverTimesOut
PROPERTIES
    SamplesTellTheLoops
    ReadingIsFinal
    RowGoesOn
