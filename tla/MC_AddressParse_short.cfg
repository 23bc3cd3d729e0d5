CONSTANTS
    ADDR_LEN = 2
    Inputs <- MCShortInputs
    Garbage <- MCJunk
SPECIFICATION Spec
CHECK_DEADLOCK FALSE
INVARIANT ReadsInBounds
