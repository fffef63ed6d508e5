\* Two slots of three operations, loops of two calls.
CONSTANTS
    Slots = {0, 1}
    Requests = {0, 3}
    Iterations = 2
    SampleSize = 4
    BlockSize = 8
    MaxWork = 6
    MaxUsed = 2
SPECIFICATION Spec
CONSTRAINT Bounded
INVARIANTS
    TypeOK
    RngReportIsTheLoops
    ProfileReportIsOneCall
    HeapReportIsTheBuffers
    LedgerIsExact
PROPERTIES
    OnlyTheRunIsAccounted
