CONSTANTS
    LowPages = 1
    PageBytes = 2
    IntPages = 64
    WordPages = 32
    MemoryMaps <- MCMemoryMaps
    LockRanges <- MCLockRanges
    FreeRun = 2
SPECIFICATION Spec
INVARIANT GrantsOnlyUsable
