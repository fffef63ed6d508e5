CONSTANTS
    NumKems = 1
    NumSigns = 1
    KemResultSlots = 16
SPECIFICATION Spec
INVARIANT DsasHaveTheirTurn
CHECK_DEADLOCK FALSE
