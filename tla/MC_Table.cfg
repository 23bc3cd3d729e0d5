CONSTANTS
    Tables <- MCTables
    Decl <- MCDecl
    Keys <- MCKeys
    Vals <- MCVals
    MAX_KEY_LENGTH = 32
    Absent = Absent
    NoRet = NoRet
    Aborted = Aborted
    Garbled = Garbled
SPECIFICATION Spec
INVARIANT TypeOK
PROPERTY TableRefined
