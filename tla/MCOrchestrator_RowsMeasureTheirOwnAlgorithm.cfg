CONSTANTS
    NumKems = 2
    NumSigns = 0
    KemResultSlots = 16
SPECIFICATION Spec
INVARIANT RowsMeasureTheirOwnAlgorithm
CHECK_DEADLOCK FALSE
