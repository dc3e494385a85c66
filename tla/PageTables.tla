------------------------------ MODULE PageTables ------------------------------
(***************************************************************************)
(* The page tables of the kernel (kernel/src/paging/PageTableManager.cpp,  *)
(* PageMapIndexer.cpp, paging.cpp) and the order in which prepare_memory   *)
(* and its successors fill them: the memory is mapped to itself, then the  *)
(* frame buffer, the table is loaded into CR3, and from then on heap pages *)
(* get fresh frames and device pages are mapped to themselves.             *)
(*                                                                         *)
(* Frames come from the pool of module FramePool: the lowest free frame,   *)
(* or NULL, which is page 0, when there is none.  map_memory does not look *)
(* at what it gets.                                                        *)
(***************************************************************************)
EXTENDS Integers, FiniteSets, Sequences

CONSTANTS
    Entries,        \* entries of one table (512)
    MemoryPages,    \* pages of memory, mapped to themselves at boot
    FreeAtBoot,     \* the sets of frames that may be free at boot
    FrameBuffer,    \* the pages of the frame buffer, in order (a sequence)
    HeapPages,      \* virtual pages of the heap
    DevicePages,    \* pages of the devices that enumerate_pci maps
    Leftover        \* what a frame may hold before it is used

ASSUME SizeAssumption ==
    /\ Entries \in Nat \ {0}
    /\ MemoryPages \in Nat \ {0}
    /\ \A F \in FreeAtBoot : F \subseteq 1 .. MemoryPages - 1
    /\ FrameBuffer \in Seq(Nat \ (0 .. MemoryPages - 1))

VirtualPages == 0 .. Entries * Entries * Entries * Entries - 1
NULL == 0
Slots == 0 .. Entries - 1
Frames == 0 .. MemoryPages - 1

\* A PageDirectoryEntry: the Present flag and the address.
Entry == [present : BOOLEAN, frame : Nat]
Cleared == [i \in Slots |-> [present |-> FALSE, frame |-> 0]]
To(p) == [present |-> TRUE, frame |-> p]

\* The pages the kernel maps: to themselves, and for the heap.
SelfMapped == Frames \cup {FrameBuffer[i] : i \in DOMAIN FrameBuffer} \cup DevicePages
KnownPages == SelfMapped \cup HeapPages

\* Every page has an address of four indices, and the heap is given pages that
\* are mapped for nothing else: it begins at 0x100000000000.
ASSUME AddressAssumption ==
    /\ KnownPages \subseteq VirtualPages
    /\ HeapPages \cap SelfMapped = {}
    /\ Leftover \in [Slots -> Entry]

\* The pages prepare_memory maps to themselves, in order; a faulty form
\* whose loop misses the last page of memory.
BootPagesShort == [i \in 1 .. MemoryPages - 1 |-> i - 1] \o FrameBuffer

BootPages == [i \in 1 .. MemoryPages |-> i - 1] \o FrameBuffer

VARIABLES
    free,       \* frames the allocator may hand out
    memory,     \* what each frame holds, read as a table
    PML4,       \* the root table; NULL before prepare_memory requests it
    next,       \* how many pages the boot loops have mapped
    paging,     \* CR3 holds PML4
    data        \* frames handed out for something else than a table

vars == <<free, memory, PML4, next, paging, data>>

TypeOK ==
    /\ free \subseteq Frames \ {NULL}
    /\ memory \in [Frames -> [Slots -> Entry]]
    /\ PML4 \in Frames
    /\ next \in 0 .. Len(BootPages)
    /\ paging \in BOOLEAN
    /\ data \subseteq Frames \ free

-----------------------------------------------------------------------------
\* PageMapIndexer: log2(Entries) bits of the page number per level, shifted
\* out one level after the other, higher bits dropped.  Level 3 indexes the
\* PML4, level 0 the PT.
Shift(v) == v \div Entries
Shifted(v, level) == CASE level = 0 -> v
                       [] level = 1 -> Shift(v)
                       [] level = 2 -> Shift(Shift(v))
                       [] level = 3 -> Shift(Shift(Shift(v)))
IndexNarrow(v, level) == Shifted(v, level) % (Entries - 1)

Index(v, level) == Shifted(v, level) % Entries

\* request_page on a state [free, memory].
Requested(s) == IF s.free = {} THEN NULL
                ELSE CHOOSE p \in s.free : \A q \in s.free : p <= q
Taken(s) == [s EXCEPT !.free = s.free \ {Requested(s)}]

\* request_page, and memset to 0; faulty forms: without the memset, and
\* without the lock in the allocator.
NewTableLeftover(s) == Taken(s)
NewTableUnlocked(s) == [s EXCEPT !.memory[Requested(s)] = Cleared]

NewTable(s) == [Taken(s) EXCEPT !.memory[Requested(s)] = Cleared]

\* One level of map_memory: the table that the entry in slot points to,
\* created when the entry is not present.
Descend(s, table, slot) ==
    IF s.memory[table][slot].present
    THEN [state |-> s, table |-> s.memory[table][slot].frame]
    ELSE [state |-> [NewTable(s) EXCEPT !.memory[table][slot] = To(Requested(s))],
          table |-> Requested(s)]

Now == [free |-> free, memory |-> memory]
Become(s) == free' = s.free /\ memory' = s.memory

\* map_memory(v, p), called in state s.
MapMemory(s, v, p) ==
    \E PDP \in {Descend(s, PML4, Index(v, 3))} :
    \E PD \in {Descend(PDP.state, PDP.table, Index(v, 2))} :
    \E PT \in {Descend(PD.state, PD.table, Index(v, 1))} :
        Become([PT.state EXCEPT !.memory[PT.table][Index(v, 0)] = To(p)])

\* The MMU: the frames that the entries for v lead to, level by level; one
\* frame or none, as long as the tables lie in memory.
Step(tables, v, level) ==
    {memory[t][Index(v, level)].frame :
        t \in {u \in tables \cap Frames : memory[u][Index(v, level)].present}}
Translations(v) == Step(Step(Step(Step({PML4} \ {NULL}, v, 3), v, 2), v, 1), v, 0)
Mapped == {v \in VirtualPages : Translations(v) # {}}

-----------------------------------------------------------------------------
Init ==
    /\ free \in FreeAtBoot
    /\ memory \in [Frames -> {Cleared}] \cup [Frames -> {Leftover}]
    /\ PML4 = NULL
    /\ next = 0
    /\ paging = FALSE
    /\ data = {}

\* prepare_memory requests and clears the root.
RequestRoot ==
    /\ PML4 = NULL /\ next = 0
    /\ PML4' = Requested(Now)
    /\ Become(NewTable(Now))
    /\ UNCHANGED <<next, paging, data>>

\* Its two loops: every page of memory, then every page of the frame
\* buffer, mapped to itself.
MapBootPage ==
    /\ PML4 # NULL /\ next < Len(BootPages)
    /\ MapMemory(Now, BootPages[next + 1], BootPages[next + 1])
    /\ next' = next + 1
    /\ UNCHANGED <<PML4, paging, data>>

LoadCR3 ==
    /\ PML4 # NULL /\ next = Len(BootPages) /\ ~paging
    /\ paging' = TRUE
    /\ UNCHANGED <<free, memory, PML4, next, data>>

\* initialize_heap and expand_heap: the next heap page gets a fresh frame,
\* requested before map_memory runs.  The faulty form uses the frame
\* without the allocator noting it.
MapHeapPageUnlocked(v) ==
    /\ paging /\ Translations(v) = {}
    /\ \A u \in HeapPages : Translations(u) = {} => v <= u
    /\ MapMemory(Now, v, Requested(Now))
    /\ data' = data \cup ({Requested(Now)} \ {NULL})
    /\ UNCHANGED <<PML4, next, paging>>

MapHeapPage(v) ==
    /\ paging /\ Translations(v) = {}
    /\ \A u \in HeapPages : Translations(u) = {} => v <= u
    /\ MapMemory(Taken(Now), v, Requested(Now))
    /\ data' = data \cup ({Requested(Now)} \ {NULL})
    /\ UNCHANGED <<PML4, next, paging>>

\* enumerate_pci, enumerate_bus, enumerate_device and enumerate_function
\* map a page of configuration space to itself.
MapDevicePage(v) ==
    /\ paging
    /\ MapMemory(Now, v, v)
    /\ UNCHANGED <<PML4, next, paging, data>>

Next ==
    \/ RequestRoot
    \/ MapBootPage
    \/ LoadCR3
    \/ \E v \in HeapPages : MapHeapPage(v)
    \/ \E v \in DevicePages : MapDevicePage(v)

Spec == Init /\ [][Next]_vars

-----------------------------------------------------------------------------
\* Memory for the root, for a table per range of pages that one entry of the
\* table above it stands for, and for the heap.  map_memory asks for no less.
Prefixes(level) == {Shifted(v, level) : v \in KnownPages}
EnoughFrames ==
    \A F \in FreeAtBoot :
        Cardinality(F) >= 1 + Cardinality(Prefixes(3)) + Cardinality(Prefixes(2))
                            + Cardinality(Prefixes(1)) + Cardinality(HeapPages)

\* The entries that point to tables, and the tables.
LinksOf(T) == {e \in (T \cap Frames) \X Slots : memory[e[1]][e[2]].present}
Children(T) == {memory[e[1]][e[2]].frame : e \in LinksOf(T)}
Upper == LET root == {PML4} \ {NULL} IN
         root \cup Children(root) \cup Children(Children(root))
Tables == Upper \cup Children(Upper)
Links == LinksOf(Upper)

\* The tables form a tree and own their frames: every table but the root is
\* pointed to by one entry, and no table frame is free, NULL or handed out
\* for anything else (map_memory's request_page and memset).
TablesOwnFrames ==
    /\ Cardinality(Tables) = Cardinality(Links) + (IF PML4 = NULL THEN 0 ELSE 1)
    /\ Tables \subseteq Frames \ ({NULL} \cup free \cup data)

\* Mapping a page leaves alone what the heap pages, and page 0 with the
\* kernel image, hold: no table is cleared or filled in there.
DataSurvives == [][\A f \in data \cup {NULL} : memory'[f] = memory[f]]_vars

\* "Map all memory from virtual = physical" (kernelUtil.cpp:44): once CR3 is
\* loaded the kernel finds each page of memory, so also each table it goes
\* on to change, at its physical address.
MemoryMappedToItself == paging => \A f \in Frames : Translations(f) = {f}

\* Two heap pages never share a frame, and no heap page lies on a free frame.
HeapFramesDistinct ==
    \A u, v \in HeapPages :
        u # v => Translations(u) \cap (Translations(v) \cup free) = {}

\* A call of map_memory sets one point of the address space and leaves every
\* other page where it was.
Space == INSTANCE AddressSpace WITH
    VirtualPages <- VirtualPages,
    PhysicalPages <- VirtualPages,
    mapping <- [v \in Mapped |-> CHOOSE p \in Translations(v) : TRUE]
SpaceSpec == Space!Spec
=============================================================================
