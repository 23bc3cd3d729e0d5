CONSTANTS
    ADDR_LEN = 2
    Inputs <- MCInputs
    Garbage <- MCGarbage
SPECIFICATION Spec
\* The constructor returns: its final state has no successor.
CHECK_DEADLOCK FALSE
INVARIANT TypeOK
INVARIANT DecodesWellFormed
INVARIANT WritesInBounds
INVARIANT ReadsInBounds
INVARIANT EqualIffSameDigits
