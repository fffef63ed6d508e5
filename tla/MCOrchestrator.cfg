\* Three KEMs and two DSAs, every outcome of every operation.
CONSTANTS
    NumKems = 3
    NumSigns = 2
    KemResultSlots = 16
SPECIFICATION FairSpec
INVARIANTS
    TypeOK
    RowsAreComplete
    CompletedMeansAllKems
    CountsAreTrue
    NoSilentSkip
PROPERTIES
    ErrorIsFinal
    Terminates
CHECK_DEADLOCK FALSE
