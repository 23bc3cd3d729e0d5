CONSTANTS
    Tables <- MCCollideTables
    Decl <- MCCollideDecl
    Keys <- MCCollideKeys
    Vals <- MCCollideVals
    MAX_KEY_LENGTH = 32
    Absent = Absent
    NoRet = NoRet
    Aborted = Aborted
    Garbled = Garbled
SPECIFICATION Spec
PROPERTY TableRefined
