CONSTANTS
    ADDR_LEN = 2
    Inputs <- MCLongInputs
    Garbage <- MCGarbage
SPECIFICATION Spec
CHECK_DEADLOCK FALSE
INVARIANT WritesInBounds
