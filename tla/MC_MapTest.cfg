CONSTANTS
    Tables <- MCTables
    Decl <- MCDecl
    Keys <- MCKeys
    Vals <- MCVals
    Handlers <- MCHandlers
    Froms <- MCFroms
    Sha <- MCSha
    MAX_KEY_LENGTH = 32
    Absent = Absent
    NoRet = NoRet
    Aborted = Aborted
    Garbled = Garbled
SPECIFICATION Spec
INVARIANT RunsAsWritten
