------------------------------ MODULE BootLoader ------------------------------
(***************************************************************************)
(* efi_main of gnu-efi/bootloader/main.c: a straight line of calls to the  *)
(* firmware, whose results it mostly does not look at.  The memory is kept *)
(* in units of which PageUnits make a page, from where the kernel is       *)
(* linked.  The pool has room for every block but, maybe, the map.  The    *)
(* machine is what the firmware finds and how it and the build behave:     *)
(*                                                                         *)
(*   kernel, font, display   "good", "bad" or "missing"                    *)
(*   large     FileInfoSize happens to be large enough before it is given  *)
(*             a value                                                     *)
(*   vital     where a write is fatal: at "NULL", behind a pointer on the  *)
(*             "stack"                                                     *)
(*   grows     allocating the buffer for the memory map adds a descriptor  *)
(*             for which GetMemoryMap had not asked                        *)
(*   restless  the firmware allocates memory on its own while it is there  *)
(*   stack     what map_size happens to be before it is given a value      *)
(*   left      what the firmware left in the memory                        *)
(*   taken     the pages it keeps for itself                               *)
(*   tables    the configuration tables: their GUID and the first letter   *)
(*             of what they point to                                       *)
(***************************************************************************)
EXTENDS Integers, Sequences, FiniteSets

CONSTANTS
    Machines,     \* the machines, records as above
    Segments,     \* the program headers of the kernel
    Units,        \* the memory, in units
    PageUnits,
    Pool          \* the most descriptors there is room for in the pool

ASSUME MemoryAssumption == Units \in Nat /\ PageUnits \in Nat \ {0} /\ Pool \in Nat

ASSUME MachineAssumption ==
    /\ \A m \in Machines : /\ {m.kernel, m.font, m.display} \subseteq {"good", "bad", "missing"}
                           /\ m.stack \in Nat /\ m.large \in BOOLEAN
                           /\ m.vital \subseteq {"NULL", "stack"}
    /\ Segments \in Seq([type : {"PT_LOAD", "PT_GNU_STACK"},
                         address : Nat, filesz : Nat, memsz : Nat])

VARIABLES
    machine,
    at,              \* where the loader, and later the kernel, is
    index,           \* the program header or configuration table it looks at
    memory,          \* what is in every unit
    allocated,       \* the pages taken, and the blocks of the pool
    needed, size,    \* descriptors of the map: now; as measured
    map,             \* what the buffer says is allocated, {} if it says nothing
    current,         \* the key of the map is the firmware's
    exited,          \* the firmware has handed over the machine
    rsdp             \* the table passed to the kernel

firmware == <<allocated, needed, size, map, current, exited>>
loader == <<machine, at, index, memory, firmware, rsdp>>

\* The blocks of the pool, as pages below the memory.
Font == -1
MapBuffer == -2
FirmwareBlock == -3
FileInfo == -4
ProgramHeaders == -5

LoaderInit ==
    /\ machine \in Machines
    /\ at = "file" /\ index = 1
    /\ memory = [u \in 0 .. Units - 1 |-> machine.left]
    /\ allocated = machine.taken /\ needed = 1 /\ size = 0
    /\ map = {} /\ current = FALSE /\ exited = FALSE
    /\ rsdp = "NULL"

-----------------------------------------------------------------------------
\* An allocation changes the map, and with it the key.
Allocated(what, descriptors) ==
    /\ allocated' = allocated \cup what
    /\ needed' = needed + descriptors
    /\ current' = FALSE

\* load_file.  A kernel that is missing is only reported: GetInfo is called
\* through NULL.
LoadFile ==
    /\ at = "file"
    /\ at' = IF machine.kernel = "missing" THEN "astray" ELSE "info"
    /\ UNCHANGED <<machine, index, memory, firmware, rsdp>>

\* GetInfo for the size of the file's information, to NULL, where it writes
\* when the size it is given is large enough; a block of that size; and GetInfo
\* again, not into the block but over the pointer to it and what is behind.
Overwritten == {"stack"} \cup (IF machine.large THEN {"NULL"} ELSE {})
GetFileInfo ==
    /\ at = "info"
    /\ at' = IF Overwritten \cap machine.vital = {} THEN "header" ELSE "astray"
    /\ Allocated({FileInfo}, 0)
    /\ UNCHANGED <<machine, index, memory, size, map, exited, rsdp>>

\* The ELF header, and the program headers of a good one.
LoadHeader ==
    /\ at = "header"
    /\ IF machine.kernel = "good"
       THEN at' = "segment" /\ Allocated({ProgramHeaders}, 0)
       ELSE at' = "returned" /\ UNCHANGED <<allocated, needed, current>>
    /\ UNCHANGED <<machine, index, memory, size, map, exited, rsdp>>

\* The program headers: PT_LOAD.
FileUnits(s) == s.address .. s.address + s.filesz - 1

\* Pages for what the file has of a segment.
PagesOfFile(s) == (s.address \div PageUnits) ..
            (s.address \div PageUnits) + (s.filesz + PageUnits - 1) \div PageUnits - 1

Pages(s) == (s.address \div PageUnits) ..
            (s.address \div PageUnits) + (s.memsz + PageUnits - 1) \div PageUnits - 1

\* The pages are asked for where the kernel is linked to be, and the segment
\* is read there whether they were given or not.
Segment(s, units) ==
    /\ IF Pages(s) \cap allocated = {} THEN Allocated(Pages(s), 1)
                                      ELSE UNCHANGED <<allocated, needed, current>>
    /\ memory' = [u \in DOMAIN memory |-> IF u \in units THEN "file" ELSE memory[u]]
Skip == UNCHANGED <<allocated, needed, current, memory>>

LoadSegment ==
    /\ at = "segment" /\ index <= Len(Segments)
    /\ IF Segments[index].type = "PT_LOAD"
       THEN Segment(Segments[index], FileUnits(Segments[index]))
       ELSE Skip
    /\ index' = index + 1
    /\ UNCHANGED <<machine, at, size, map, exited, rsdp>>

EndOfSegments ==
    /\ at = "segment" /\ index > Len(Segments)
    /\ at' = "font"
    /\ UNCHANGED <<machine, index, memory, firmware, rsdp>>

\* load_psf1_font: the header, the glyphs and the font, if the magic is right.
LoadFont ==
    /\ at = "font"
    /\ at' = IF machine.font = "good" THEN "display" ELSE "returned"
    /\ Allocated(IF machine.font = "missing" THEN {} ELSE {Font}, 0)
    /\ UNCHANGED <<machine, index, memory, size, map, exited, rsdp>>

\* initialize_gop; its NULL is printed through.
FindDisplay ==
    /\ at = "display"
    /\ at' = IF machine.display = "good" THEN "measure" ELSE "astray"
    /\ UNCHANGED <<machine, index, memory, firmware, rsdp>>

-----------------------------------------------------------------------------
\* GetMemoryMap for the size, which it only reports when the one it is given
\* is too small; a buffer of that size; and GetMemoryMap again, which leaves
\* the buffer alone when it has become too small, or is not there.
MeasureMap ==
    /\ at = "measure" /\ at' = "buffer"
    /\ size' = IF machine.stack < needed THEN needed ELSE machine.stack
    /\ UNCHANGED <<machine, index, memory, allocated, needed, map, current, exited, rsdp>>
AllocateMap ==
    /\ at = "buffer" /\ at' = "fetch"
    /\ IF size <= Pool THEN Allocated({MapBuffer}, IF machine.grows THEN 1 ELSE 0)
                       ELSE UNCHANGED <<allocated, needed, current>>
    /\ UNCHANGED <<machine, index, memory, size, map, exited, rsdp>>
FetchMap ==
    /\ at = "fetch" /\ at' = "tables" /\ index' = 1
    /\ IF MapBuffer \in allocated /\ size >= needed
       THEN map' = allocated /\ current' = TRUE
       ELSE UNCHANGED <<map, current>>
    /\ size' = IF size <= Pool THEN needed ELSE size
    /\ UNCHANGED <<machine, memory, allocated, needed, exited, rsdp>>

\* The GUID compared with the one of ACPI 2.0: both the pointer and the index
\* advance.  CompareGuid is 0 for GUIDs that are equal.
GuidRead == IF 2 * index - 1 <= Len(machine.tables)
            THEN machine.tables[2 * index - 1].guid ELSE "behind"
CompareGuid(g, h) == IF g = h THEN 0 ELSE 1

\* strcmp with "RSD PTR " compares the first letter, eight times.
strcmp(text) == text = "R"
SearchTables ==
    /\ at = "tables" /\ index <= Len(machine.tables)
    /\ rsdp' = IF /\ CompareGuid(GuidRead, "ACPI_20") # 0
                 /\ strcmp(machine.tables[index].text)
               THEN machine.tables[index].guid ELSE rsdp
    /\ index' = index + 1
    /\ UNCHANGED <<machine, at, memory, firmware>>

\* ExitBootServices, which refuses a key that is not current, and the kernel.
ExitBootServices ==
    /\ at = "tables" /\ index > Len(machine.tables)
    /\ at' = "kernel"
    /\ exited' = current
    /\ UNCHANGED <<machine, index, memory, allocated, needed, size, map, current, rsdp>>

\* The firmware's own timers.
FirmwareActs ==
    /\ machine.restless /\ at \in {"measure", "buffer", "fetch", "tables"}
    /\ FirmwareBlock \notin allocated
    /\ Allocated({FirmwareBlock}, 0)
    /\ UNCHANGED <<machine, at, index, memory, size, map, exited, rsdp>>

LoaderNext ==
    \/ LoadFile \/ GetFileInfo \/ LoadHeader \/ LoadSegment \/ EndOfSegments
    \/ LoadFont \/ FindDisplay
    \/ MeasureMap \/ AllocateMap \/ FetchMap \/ SearchTables \/ ExitBootServices
    \/ FirmwareActs

-----------------------------------------------------------------------------
(***************************************************************************)
(* What the kernel takes for granted of its memory and its boot            *)
(* information, where the firmware has room for the map, keeps to itself   *)
(* between the calls and has none of its pages where the kernel is linked: *)
(* the boot services are over, the memory map and its size are those of    *)
(* all that was taken, the segments are as in the file, and every unit of  *)
(* a segment, .bss included, is in a page the map has as taken, which the  *)
(* kernel's allocator will not hand out.  Nothing is said of what is in    *)
(* .bss: it is as the firmware left it.                                    *)
(***************************************************************************)
Loadable == {i \in DOMAIN Segments : Segments[i].type = "PT_LOAD"}
Loads == {Segments[i] : i \in Loadable}
Extent(s) == s.address .. s.address + s.memsz - 1
Quiet == /\ ~machine.grows /\ ~machine.restless /\ machine.stack <= Pool
         /\ \A s \in Loads : Pages(s) \cap machine.taken = {}
BootInfoTrue ==
    at = "kernel" /\ Quiet =>
        /\ exited
        /\ map = allocated /\ size = needed
        /\ \A s \in Loads :
              /\ \A u \in FileUnits(s) : memory[u] = "file"
              /\ \A u \in Extent(s) : u \div PageUnits \in map

\* How kernel.ld lays the segments out (ALIGN(0x1000)): in the memory, from
\* the start of a page, apart from one another in units and in pages; and the
\* pool has room for a descriptor of each.
KernelLayout ==
    /\ \A i \in Loadable : /\ Segments[i].filesz <= Segments[i].memsz
                           /\ Segments[i].address % PageUnits = 0
                           /\ Segments[i].address + Segments[i].memsz <= Units
    /\ \A i, j \in Loadable :
          i # j => /\ Extent(Segments[i]) \cap Extent(Segments[j]) = {}
                   /\ Pages(Segments[i]) \cap Pages(Segments[j]) = {}
    /\ Len(Segments) < Pool
=============================================================================
