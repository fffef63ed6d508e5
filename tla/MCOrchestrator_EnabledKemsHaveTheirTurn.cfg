CONSTANTS
    NumKems = 2
    NumSigns = 0
    KemResultSlots = 16
SPECIFICATION Spec
INVARIANT EnabledKemsHaveTheirTurn
CHECK_DEADLOCK FALSE
