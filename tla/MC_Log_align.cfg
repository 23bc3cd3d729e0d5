CONSTANTS
    Width = 16
    PageSize = 512
    MaxPages = 4
    InitPages = 3
    HeapBases = {1024}
    Sizes = {}
    Counts = {}
    Aligns = {8}
    MaxAllocs = 0
    StackMax = 512
    HashSize = 32
    HashAlign = 16
    Calls <- MCTestCalls
SPECIFICATION Spec
INVARIANT HashAligned
