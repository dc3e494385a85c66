------------------------------ MODULE PageFrames ------------------------------
(***************************************************************************)
(* The page frame allocator at work: the kernel initializes it from the    *)
(* EFI memory map, requests pages, locks ranges (its image, the frame      *)
(* buffer) and returns pages it was given.  The allocator is called from   *)
(* boot code and never from an interrupt handler, so a call is one step.   *)
(***************************************************************************)
EXTENDS FrameAllocator

CONSTANTS
    MemoryMaps,   \* the memory maps the firmware may report
    LockRanges,   \* the ranges [start, pages] the kernel locks
    FreeRun       \* the most pages one free_pages call returns

VARIABLES
    memory_map,   \* boot_info's map: chosen by the firmware
    allocator,    \* GlobalAllocator and its counters
    granted,      \* pages returned by request_page and not freed since
    answer        \* what the last request_page returned

vars == <<memory_map, allocator, granted, answer>>

Memory == MemoryPages(memory_map)

ASSUME MapAssumption ==
    \A map \in MemoryMaps :
        /\ MemoryPages(map) \in Nat
        /\ MemoryPages(map) + 16 < WordPages
        /\ LargestFreeSegment(map) \in Nat
        /\ \A i \in DOMAIN map : map[i].start \in Nat /\ map[i].pages \in Nat

ASSUME FreeRunAssumption == FreeRun \in Nat

TypeOK ==
    /\ memory_map \in MemoryMaps
    /\ allocator \in [initialized : BOOLEAN, size : Nat, buffer : Nat,
                      bits : SUBSET Nat, index : Nat,
                      free : 0 .. WordPages - 1, used : 0 .. WordPages - 1,
                      reserved : 0 .. WordPages - 1]
    /\ allocator.bits \subseteq Addressable(allocator)
    /\ allocator.index <= allocator.size * 8
    /\ granted \subseteq Nat
    /\ answer \in Nat

Init ==
    /\ memory_map \in MemoryMaps
    /\ allocator = Uninitialized
    /\ granted = {}
    /\ answer = NULL

-----------------------------------------------------------------------------
ReadEfiMemoryMap ==
    /\ ~allocator.initialized
    /\ \E stray \in SUBSET {(Memory \div 8 + 1) * 8} :
         allocator' = ClaimMemory(InitBitmap(allocator, memory_map, stray), memory_map)
    /\ UNCHANGED <<memory_map, granted, answer>>

RequestPage ==
    /\ allocator.initialized
    /\ allocator' = AfterRequest(allocator)
    /\ answer' = RequestedPage(allocator)
    /\ granted' = IF Candidates(allocator) = {} THEN granted
                  ELSE granted \cup {RequestedPage(allocator)}
    /\ UNCHANGED memory_map

LockRange(r) ==
    /\ allocator.initialized
    /\ allocator' = LockPages(allocator, LoopPages(r.start, r.pages))
    /\ UNCHANGED <<memory_map, granted, answer>>

\* free_page and free_pages: a caller returns pages it was given.
FreeRange(start, pages) ==
    /\ allocator.initialized
    /\ LoopPages(start, pages) \subseteq granted
    /\ allocator' = ReleasePages(allocator, LoopPages(start, pages))
    /\ granted' = granted \ LoopPages(start, pages)
    /\ UNCHANGED <<memory_map, answer>>

Next ==
    \/ ReadEfiMemoryMap
    \/ RequestPage
    \/ \E r \in LockRanges : LockRange(r)
    \/ \E start \in granted, pages \in 1 .. FreeRun : FreeRange(start, pages)

Spec == Init /\ [][Next]_vars

-----------------------------------------------------------------------------
\* The search never skips a free page: every searched bit below
\* page_bitmap_index is set, whatever was locked, freed and requested since
\* (request_page starts at the index and never looks below it).
SearchIndexSound ==
    \A p \in Searched(allocator) : p < allocator.index => p \in allocator.bits

\* A page that was handed out stays out of the pool until it is freed: no
\* request can hand it out a second time.
HeldPagesLocked == granted \subseteq allocator.bits \cap Searched(allocator)

\* The three counters account for all the memory: they sum to the memory
\* size, in the arithmetic of uint64_t.
CountersConserved ==
    allocator.initialized =>
        allocator.free + allocator.used + allocator.reserved
            \in {Memory, Memory + WordPages, Memory + 2 * WordPages}

\* free_memory follows the bitmap: it is the memory size less the bits that
\* are set, up to the one stray bit whose first value nobody wrote.
FreeTracksBitmap ==
    allocator.initialized =>
        \E stray \in {0, 1} :
            allocator.free \in
                {Memory + stray - Cardinality(allocator.bits),
                 Memory + stray - Cardinality(allocator.bits) + WordPages}

Usable(p) ==
    /\ \E i \in Conventional(memory_map) :
         p \in memory_map[i].start .. memory_map[i].start + memory_map[i].pages - 1
    /\ p >= LowPages
    /\ p \notin BufferPages(allocator)

\* Within the memory the bitmap describes, a page that request_page hands
\* out is conventional memory above the first megabyte and not part of the
\* bitmap itself.
GrantedUsable == \A p \in granted : p <= Memory => Usable(p)

\* The claim of the comment "For any usable conventional memory, unreserve
\* those pages" (PageFrameAllocator.cpp:47): pages handed out are usable
\* memory.  The bits between the memory size and the end of the bitmap's
\* last byte are never reserved, so it fails.
GrantsOnlyUsable == \A p \in granted : Usable(p)

\* The allocator implements the pool: it hands out the lowest free page,
\* refuses only when no searched bit is clear, and a freed page is free again.
Pool == INSTANCE FramePool WITH
            ready <- allocator.initialized,
            free <- FreePages(allocator),
            held <- granted

PoolSpec == Pool!Spec
=============================================================================
