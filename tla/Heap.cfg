CONSTANTS
    HeapStart = 1024
    InitialPages = 2
    PageBytes = 128
    HeaderBytes = 32
    Word = 65536
    NullLength = 50000
    Clients <- MCClients
    MaxBlocks = 4
    MaxExpansions = 3
SPECIFICATION Spec
CHECK_DEADLOCK FALSE
INVARIANTS
    TypeOK
    BlocksSeparate
    ListSound
    FreeSegmentsUnused
    TwoExpansionsSuffice
PROPERTY MallocReturns
