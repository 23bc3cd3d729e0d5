CONSTANTS
    Width = 8
    PageSize = 32
    MaxPages = 8
    InitPages = 2
    HeapBases <- MCHeapBases
    Sizes <- MCSizes
    Counts <- MCCounts
    Aligns = {8}
    MaxAllocs = 3
SPECIFICATION Spec
INVARIANT TypeOK
INVARIANT BlocksDisjoint
INVARIANT BlocksInMemory
INVARIANT RequestedAlignment
