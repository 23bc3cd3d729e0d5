CONSTANTS
    u1 = u1
    x1 = x1
    x2 = x2
    bogus = bogus
    Users <- MCUsers
    Args <- MCArgs
    BigArgs <- MCBigArgs
    BogusActions <- MCBogus
    NoEntry = NoEntry
    NoArgs = NoArgs
    NoTx = NoTx
    NoResult = NoResult
SPECIFICATION Spec
PROPERTY AddressBookRefined
