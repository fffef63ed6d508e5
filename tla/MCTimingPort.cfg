\* Three rollovers, each seen, seen late or missed.
CONSTANTS
    thread = thread
    release_isr = release_isr
    Callers <- ThreadAndHandler
    Width = 4
    Horizon = 3
SPECIFICATION Spec
INVARIANTS
    TypeOK
    NeverAhead
    ReadingIsExact
PROPERTIES
    IsMonotonic
CHECK_DEADLOCK FALSE
