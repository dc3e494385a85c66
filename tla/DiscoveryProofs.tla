---------------------------- MODULE DiscoveryProofs ----------------------------
(***************************************************************************)
(* Theorems about the boot loader and the walk over the PCI devices, for   *)
(* every machine, every kernel image and every shape of the buses.         *)
(***************************************************************************)
EXTENDS Discovery, FiniteSetTheorems, WellFoundedInduction, TLAPS

\* A program header and its fields.
LEMMA SegmentTypes ==
    ASSUME NEW i \in Loadable
    PROVE  /\ i \in Nat \ {0} /\ i <= Len(Segments)
           /\ Segments[i].address \in Nat /\ Segments[i].filesz \in Nat
           /\ Segments[i].memsz \in Nat
PROOF
<1>1. i \in 1 .. Len(Segments) /\ Len(Segments) \in Nat
  BY MachineAssumption DEF Loadable, MachineAssumption
<1>2. Segments[i] \in [type : {"PT_LOAD", "PT_GNU_STACK"},
                      address : Nat, filesz : Nat, memsz : Nat]
  <2> DEFINE H == [type : {"PT_LOAD", "PT_GNU_STACK"},
                   address : Nat, filesz : Nat, memsz : Nat]
  <2>1. Segments \in Seq(H)
    BY MachineAssumption DEF MachineAssumption
  <2> HIDE DEF H
  <2>2. Segments[i] \in H
    BY <1>1, <2>1
  <2> QED BY <2>2 DEF H
<1> QED BY <1>1, <1>2

\* The page of a unit.
LEMMA PageOfUnit ==
    ASSUME NEW p \in Nat, p > 0, NEW u \in Nat
    PROVE  u \div p \in Nat /\ p * (u \div p) <= u /\ u < p * (u \div p) + p
PROOF
<1> DEFINE k == u \div p
<1>1. k \in Int /\ p * k <= u /\ u < p * k + p
  OBVIOUS
<1> HIDE DEF k
<1>2. k >= 0
  <2>1. CASE k <= -1
    <3>1. p * k <= p * (-1)
      BY <1>1, <2>1
    <3> QED BY <1>1, <3>1
  <2> QED BY <1>1, <2>1
<1>3. k \in Nat /\ p * k <= u /\ u < p * k + p
  BY <1>1, <1>2
<1> QED BY <1>3 DEF k

LEMMA PagesOfMemory == ASSUME NEW i \in Loadable PROVE Pages(Segments[i]) \subseteq Nat
PROOF
<1> DEFINE f == Segments[i].address \div PageUnits
<1>1. f \in Nat
  BY SegmentTypes, MemoryAssumption, PageOfUnit DEF MemoryAssumption
<1>2. PICK n : Pages(Segments[i]) = f .. n
  BY DEF Pages
<1> HIDE DEF f
<1> QED BY <1>1, <1>2

Start == {"file", "info", "header"}
Loading == {"file", "info", "header", "segment", "font", "display", "measure", "buffer",
            "fetch", "tables"}
Walks == {"entry", "bus", "device", "function"}

LoaderOK ==
    /\ machine \in Machines
    /\ at \in Loading \cup {"kernel"} \cup Walks \cup {"done", "returned", "astray"}
    /\ index \in Nat \ {0}
    /\ DOMAIN memory = 0 .. Units - 1
    /\ size \in Nat /\ needed \in Nat /\ current \in BOOLEAN /\ exited \in BOOLEAN

LEMMA LoaderInitOK == LoaderInit => LoaderOK
PROOF
<1> SUFFICES ASSUME LoaderInit PROVE LoaderOK
  OBVIOUS
<1>1. /\ machine \in Machines /\ at = "file" /\ index = 1 /\ size = 0 /\ needed = 1
      /\ memory = [u \in 0 .. Units - 1 |-> machine.left]
  BY DEF LoaderInit
<1>2. current \in BOOLEAN /\ exited \in BOOLEAN
  BY Zenon DEF LoaderInit
<1> QED BY <1>1, <1>2 DEF LoaderOK, Loading, Start

LEMMA AllocatedTypes ==
    ASSUME NEW what, NEW descriptors \in Nat, needed \in Nat, Allocated(what, descriptors)
    PROVE  needed' \in Nat /\ current' \in BOOLEAN
PROOF
<1>1. current' \in BOOLEAN
  BY Zenon DEF Allocated
<1> QED BY <1>1 DEF Allocated

LEMMA LoaderKeepsTypes == LoaderOK /\ [Next]_vars => LoaderOK'
PROOF
<1> SUFFICES ASSUME LoaderOK, [Next]_vars PROVE LoaderOK'
  OBVIOUS
<1>1. /\ machine \in Machines /\ index \in Nat \ {0} /\ DOMAIN memory = 0 .. Units - 1
      /\ size \in Nat /\ needed \in Nat /\ current \in BOOLEAN /\ exited \in BOOLEAN
      /\ machine.stack \in Nat
  BY MachineAssumption DEF LoaderOK, MachineAssumption
<1>2. CASE LoadFile \/ GetFileInfo \/ LoadHeader
  <2>1. /\ at' \in Start \cup {"segment", "returned", "astray"}
        /\ UNCHANGED <<machine, index, memory, size, exited>>
    BY <1>2 DEF LoadFile, GetFileInfo, LoadHeader, firmware, Start
  <2>2. \/ UNCHANGED <<needed, current>>
        \/ \E what : Allocated(what, 0)
    BY <1>2 DEF LoadFile, GetFileInfo, LoadHeader, firmware
  <2>3. needed' \in Nat /\ current' \in BOOLEAN
    BY <1>1, <2>2, AllocatedTypes
  <2> QED BY <1>1, <2>1, <2>3 DEF LoaderOK, Loading, Start
<1>3. CASE LoadSegment
  <2>1. at = "segment" /\ index' = index + 1 /\ UNCHANGED <<machine, at, size, exited>>
    BY <1>3 DEF LoadSegment
  <2>2. \/ UNCHANGED <<needed, current>>
        \/ \E what : Allocated(what, 1)
    BY <1>3 DEF LoadSegment, Segment, Skip
  <2>3. DOMAIN memory' = 0 .. Units - 1
    BY <1>1, <1>3 DEF LoadSegment, Segment, Skip
  <2>4. needed' \in Nat /\ current' \in BOOLEAN
    BY <1>1, <2>2, AllocatedTypes
  <2> QED BY <2>3, <2>4, <1>1, <2>1, <2>2 DEF LoaderOK, Loading
<1>4. CASE LoadFont
  <2>1. at' \in {"display", "returned"} /\ UNCHANGED <<machine, index, memory, size, exited>>
        /\ \E what : Allocated(what, 0)
    BY <1>4 DEF LoadFont
  <2>2. needed' \in Nat /\ current' \in BOOLEAN
    BY <1>1, <2>1, AllocatedTypes
  <2> QED BY <1>1, <2>1, <2>2 DEF LoaderOK, Loading
<1>5. CASE MeasureMap \/ AllocateMap \/ FetchMap
  <2>1. /\ at' \in Loading /\ index' \in Nat \ {0} /\ size' \in Nat
        /\ UNCHANGED <<machine, memory, exited>>
    BY <1>1, <1>5 DEF MeasureMap, AllocateMap, FetchMap, Loading
  <2>2. \/ UNCHANGED <<needed, current>>
        \/ \E what, d : d \in Nat /\ Allocated(what, d)
        \/ needed' = needed /\ current' = TRUE
    BY <1>5 DEF MeasureMap, AllocateMap, FetchMap
  <2>3. needed' = needed /\ current' = TRUE => current' \in BOOLEAN
    BY Zenon
  <2>4. needed' \in Nat /\ current' \in BOOLEAN
    BY <1>1, <2>2, <2>3, AllocatedTypes
  <2> QED BY <1>1, <2>1, <2>4 DEF LoaderOK
<1>6. CASE EndOfSegments \/ FindDisplay \/ SearchTables
  <2>1. /\ at' \in Loading \cup {"astray"} /\ index' \in Nat \ {0}
        /\ UNCHANGED <<machine, memory, firmware>>
    BY <1>1, <1>6 DEF EndOfSegments, FindDisplay, SearchTables, Loading
  <2> QED BY <1>1, <2>1 DEF LoaderOK, firmware
<1>7. CASE ExitBootServices
  BY <1>1, <1>7 DEF ExitBootServices, LoaderOK
<1>8. CASE FirmwareActs
  <2>1. UNCHANGED <<machine, at, index, memory, size, exited>> /\ \E what : Allocated(what, 0)
    BY <1>8 DEF FirmwareActs
  <2>2. needed' \in Nat /\ current' \in BOOLEAN
    BY <1>1, <2>1, AllocatedTypes
  <2> QED BY <1>1, <2>1, <2>2 DEF LoaderOK
<1>9. CASE Discover
  <2>1. /\ at' \in Walks \cup {"done", "astray"}
        /\ UNCHANGED <<machine, index, memory, firmware>>
    BY <1>9 DEF Discover, PrepareAcpi, EnumeratePci, EnumerateBus, EnumerateDevice,
                EnumerateFunction, StrayName, EndOfFunctions, Go, Walking, Walks
  <2> QED BY <1>1, <2>1 DEF LoaderOK, firmware
<1>10. CASE UNCHANGED vars
  BY <1>10 DEF vars, loader, firmware, LoaderOK
<1> QED BY <1>2, <1>3, <1>4, <1>5, <1>6, <1>7, <1>8, <1>9, <1>10 DEF Next, LoaderNext

-----------------------------------------------------------------------------
\* The boot loader on a quiet machine.  Of the program headers, those looked
\* at so far:
Looked == IF at \in Start \cup {"segment"} THEN index ELSE Len(Segments) + 1
Loaded == {j \in Loadable : j < Looked}

BootInv ==
    Quiet /\ at \in Loading \cup {"kernel"} =>
        /\ at \in Start => index = 1
        /\ at \in Start \cup {"segment"} =>
              /\ index <= Len(Segments) + 1
              /\ \A p \in allocated : \/ p \in machine.taken \cup {FileInfo, ProgramHeaders}
                                    \/ \E j \in Loaded : p \in Pages(Segments[j])
        /\ \A j \in Loaded : Pages(Segments[j]) \subseteq allocated
        /\ \A u \in 0 .. Units - 1 :
              memory[u] = IF \E j \in Loaded : u \in FileUnits(Segments[j])
                          THEN "file" ELSE machine.left
        /\ needed <= Looked
        /\ at \in {"buffer", "fetch"} => needed <= size /\ size <= Pool
        /\ at = "fetch" => MapBuffer \in allocated
        /\ at = "tables" => map = allocated /\ current = TRUE /\ size = needed
        /\ at = "kernel" => map = allocated /\ exited = TRUE /\ size = needed

\* A step that only adds to what is allocated, once all segments are loaded.
LEMMA BootGoesOn ==
    ASSUME LoaderOK, BootInv, Quiet,
           at \in Loading \ (Start \cup {"segment"}),
           at' \in (Loading \cup {"kernel"}) \ (Start \cup {"segment"}),
           allocated \subseteq allocated', needed' = needed,
           machine' = machine, memory' = memory,
           at' \in {"buffer", "fetch"} => needed <= size' /\ size' <= Pool,
           at' = "fetch" => MapBuffer \in allocated',
           at' = "tables" => map' = allocated' /\ current' = TRUE /\ size' = needed,
           at' = "kernel" => map' = allocated' /\ exited' = TRUE /\ size' = needed
    PROVE  BootInv'
PROOF
<1>1. Looked = Len(Segments) + 1 /\ Looked' = Len(Segments) + 1 /\ Loaded' = Loaded
  BY DEF Looked, Loaded, Start
<1>2. /\ \A j \in Loaded : Pages(Segments[j]) \subseteq allocated
      /\ \A u \in 0 .. Units - 1 :
            memory[u] = IF \E j \in Loaded : u \in FileUnits(Segments[j])
                        THEN "file" ELSE machine.left
      /\ needed <= Looked
  BY DEF BootInv
<1>3. \A j \in Loaded : Pages(Segments[j]) \subseteq allocated'
  BY <1>2
<1>4. \A u \in 0 .. Units - 1 :
            memory'[u] = IF \E j \in Loaded' : u \in FileUnits(Segments[j])
                         THEN "file" ELSE machine'.left
  BY <1>1, <1>2
<1> HIDE DEF Looked, Loaded
<1> QED BY <1>1, <1>2, <1>3, <1>4 DEF BootInv, Start

LEMMA SegmentLoaded ==
    ASSUME LoaderOK, BootInv, KernelLayout, Quiet, LoadSegment
    PROVE  BootInv'
PROOF
<1> DEFINE s == Segments[index]
<1>1. /\ at = "segment" /\ at' = "segment" /\ index <= Len(Segments) /\ index' = index + 1
      /\ machine' = machine /\ index \in Nat /\ index # 0
  BY DEF LoadSegment, LoaderOK
<1>2. /\ Looked = index /\ Looked' = index + 1
      /\ DOMAIN Segments = 1 .. Len(Segments) /\ Len(Segments) \in Nat
  BY <1>1, MachineAssumption DEF Looked, MachineAssumption
<1>3. /\ \A p \in allocated : \/ p \in machine.taken \cup {FileInfo, ProgramHeaders}
                            \/ \E j \in Loaded : p \in Pages(Segments[j])
      /\ \A j \in Loaded : Pages(Segments[j]) \subseteq allocated
      /\ \A u \in 0 .. Units - 1 :
            memory[u] = IF \E j \in Loaded : u \in FileUnits(Segments[j])
                        THEN "file" ELSE machine.left
      /\ needed <= index /\ needed \in Nat /\ DOMAIN memory = 0 .. Units - 1
  BY <1>1, <1>2 DEF BootInv, Loading, LoaderOK, Start
<1>4. Loadable \subseteq 1 .. Len(Segments)
  BY <1>2 DEF Loadable
<1>5. CASE s.type # "PT_LOAD"
  <2>1. UNCHANGED <<allocated, needed, memory>>
    BY <1>5 DEF LoadSegment, Skip
  <2>2. index \notin Loadable
    BY <1>5 DEF Loadable
  <2>3. Loaded' = Loaded
    <3>1. \A j \in Loadable : j < Looked' <=> j < Looked
      BY <1>1, <1>2, <1>4, <2>2
    <3> HIDE DEF Looked
    <3> QED BY <3>1 DEF Loaded
  <2>4. \A j \in Loaded' : Pages(Segments[j]) \subseteq allocated'
    BY <1>3, <2>1, <2>3
  <2>5. \A u \in 0 .. Units - 1 :
            memory'[u] = IF \E j \in Loaded' : u \in FileUnits(Segments[j])
                         THEN "file" ELSE machine'.left
    BY <1>1, <1>3, <2>1, <2>3
  <2>6. \A p \in allocated' : \/ p \in machine'.taken \cup {FileInfo, ProgramHeaders}
                              \/ \E j \in Loaded' : p \in Pages(Segments[j])
    BY <1>1, <1>3, <2>1, <2>3
  <2> HIDE DEF Looked, Loaded
  <2> QED BY <1>1, <1>2, <1>3, <2>1, <2>4, <2>5, <2>6 DEF BootInv, Start
<1>6. CASE s.type = "PT_LOAD"
  <2>1. Segment(s, FileUnits(s))
    BY <1>6 DEF LoadSegment
  <2>2. index \in Loadable
    BY <1>1, <1>2, <1>6 DEF Loadable
  <2>3. Loaded' = Loaded \cup {index}
    <3>1. \A j \in Loadable : j < Looked' <=> j < Looked \/ j = index
      BY <1>1, <1>2, <1>4, <2>2
    <3> HIDE DEF Looked
    <3> QED BY <2>2, <3>1 DEF Loaded
  <2>4. \A j \in Loaded : j \in Loadable /\ j # index
    BY <1>1, <1>2, <1>4 DEF Loaded
  <2>5. Pages(s) \cap allocated = {}
    <3>1. Pages(s) \cap machine.taken = {}
      BY <2>2 DEF Quiet, Loads
    <3>2. \A j \in Loaded : Pages(s) \cap Pages(Segments[j]) = {}
      BY <2>2, <2>4 DEF KernelLayout
    <3>3. FileInfo \notin Pages(s) /\ ProgramHeaders \notin Pages(s)
      BY <2>2, PagesOfMemory DEF FileInfo, ProgramHeaders
    <3> QED BY <1>3, <3>1, <3>2, <3>3
  <2>6. allocated' = allocated \cup Pages(s) /\ needed' = needed + 1
    BY <2>1, <2>5 DEF Segment, Allocated
  <2>7. \A u \in 0 .. Units - 1 :
            memory'[u] = IF u \in FileUnits(s) THEN "file" ELSE memory[u]
    BY <1>3, <2>1 DEF Segment
  <2> HIDE DEF Looked, Loaded, s
  <2>8. \A p \in allocated' : \/ p \in machine'.taken \cup {FileInfo, ProgramHeaders}
                              \/ \E j \in Loaded' : p \in Pages(Segments[j])
    BY <1>1, <1>3, <2>3, <2>6 DEF s
  <2>9. \A j \in Loaded' : Pages(Segments[j]) \subseteq allocated'
    BY <1>3, <2>3, <2>6 DEF s
  <2>10. \A u \in 0 .. Units - 1 :
            memory'[u] = IF \E j \in Loaded' : u \in FileUnits(Segments[j])
                         THEN "file" ELSE machine'.left
    BY <1>1, <1>3, <2>3, <2>7 DEF s
  <2>11. needed' <= Looked' /\ index' <= Len(Segments) + 1
    BY <1>1, <1>2, <1>3, <2>6
  <2> QED BY <1>1, <2>8, <2>9, <2>10, <2>11 DEF BootInv, Start
<1> QED BY <1>5, <1>6

LEMMA LoaderNextBoot == LoaderOK /\ BootInv /\ KernelLayout /\ [Next]_vars => BootInv'
PROOF
<1> SUFFICES ASSUME LoaderOK, BootInv, KernelLayout, [Next]_vars PROVE BootInv'
  OBVIOUS
<1> SUFFICES ASSUME Quiet', at' \in Loading \cup {"kernel"} PROVE BootInv'
  BY DEF BootInv
<1>1. machine' = machine /\ Quiet
  <2>1. machine' = machine
    BY DEF Next, LoaderNext, LoadFile, GetFileInfo, LoadHeader, LoadSegment, EndOfSegments, LoadFont, FindDisplay,
           MeasureMap, AllocateMap, FetchMap, SearchTables, ExitBootServices, FirmwareActs,
           Discover, PrepareAcpi, EnumeratePci, EnumerateBus, EnumerateDevice,
           EnumerateFunction, StrayName, EndOfFunctions, Walking, vars, loader
  <2> QED BY <2>1 DEF Quiet
<1>2. /\ machine.stack \in Nat /\ machine.stack <= Pool /\ Pool \in Nat
      /\ ~machine.grows /\ ~machine.restless
      /\ size \in Nat /\ needed \in Nat /\ Len(Segments) \in Nat /\ Len(Segments) < Pool
  BY <1>1, MachineAssumption, MemoryAssumption
     DEF MachineAssumption, MemoryAssumption, Quiet, LoaderOK, KernelLayout
<1>3. at \in {"font", "display", "measure", "buffer", "fetch", "tables"} =>
          needed <= Len(Segments) + 1 /\ needed <= Pool
  BY <1>1, <1>2 DEF BootInv, Looked, Loading, Start
<1>4. CASE LoadFile \/ GetFileInfo \/ LoadHeader
  <2>1. /\ at \in Start /\ at' \in Start \cup {"segment"}
        /\ UNCHANGED <<machine, index, memory>>
    <3>1. at' \notin {"returned", "astray"}
      BY DEF Loading, Start
    <3> QED BY <1>4, <3>1 DEF LoadFile, GetFileInfo, LoadHeader, firmware, Start
  <2>2. /\ allocated \subseteq allocated'
        /\ \A p \in allocated' : p \in allocated \cup {FileInfo, ProgramHeaders}
        /\ needed' = needed + 0 \/ needed' = needed
    BY <1>4 DEF LoadFile, GetFileInfo, LoadHeader, firmware, Allocated
  <2>3. needed' = needed
    BY <1>2, <2>2
  <2>4. Looked' = Looked /\ Loaded' = Loaded /\ index = 1
    BY <1>1, <2>1 DEF Looked, Loaded, BootInv, Loading, Start
  <2>5. at' \notin {"buffer", "fetch", "tables", "kernel"}
    BY <2>1 DEF Start
  <2> QED BY <1>1, <2>1, <2>2, <2>3, <2>4, <2>5 DEF BootInv, Loading, Start
<1>5. CASE LoadSegment
  BY <1>1, <1>5, SegmentLoaded
<1>6. CASE EndOfSegments
  <2>1. /\ at = "segment" /\ at' = "font" /\ index > Len(Segments)
        /\ UNCHANGED <<machine, memory, allocated, needed>>
    BY <1>6 DEF EndOfSegments, firmware
  <2>2. index = Len(Segments) + 1
    BY <1>1, <1>2, <2>1 DEF BootInv, LoaderOK, Loading
  <2>3. Looked' = Looked /\ Loaded' = Loaded
    BY <2>1, <2>2 DEF Looked, Loaded, Start
  <2> QED BY <1>1, <2>1, <2>3 DEF BootInv, Loading, Start
<1>7. CASE LoadFont
  BY <1>1, <1>2, <1>7, BootGoesOn DEF LoadFont, Allocated, Loading, Start
<1>8. CASE FindDisplay
  <2>1. at = "display" /\ at' = "measure" /\ UNCHANGED <<machine, memory, allocated, needed>>
    BY <1>8 DEF FindDisplay, firmware, Loading
  <2> QED BY <1>1, <2>1, BootGoesOn DEF Loading, Start
<1>9. CASE MeasureMap
  <2>1. at = "measure" /\ at' = "buffer" /\ UNCHANGED <<machine, memory, allocated, needed>>
        /\ size' = IF machine.stack < needed THEN needed ELSE machine.stack
    BY <1>9 DEF MeasureMap
  <2>2. needed <= size' /\ size' <= Pool
    BY <1>2, <1>3, <2>1
  <2> QED BY <1>1, <2>1, <2>2, BootGoesOn DEF Loading, Start
<1>10. CASE AllocateMap
  <2>1. at = "buffer" /\ at' = "fetch" /\ UNCHANGED <<machine, memory, size>>
    BY <1>10 DEF AllocateMap
  <2>2. needed <= size /\ size <= Pool
    BY <1>1, <2>1 DEF BootInv, Loading
  <2>3. allocated' = allocated \cup {MapBuffer} /\ needed' = needed
    BY <1>2, <1>10, <2>2 DEF AllocateMap, Allocated
  <2> QED BY <1>1, <2>1, <2>2, <2>3, BootGoesOn DEF Loading, Start
<1>11. CASE FetchMap
  <2>1. at = "fetch" /\ at' = "tables" /\ UNCHANGED <<machine, memory, allocated, needed>>
    BY <1>11 DEF FetchMap
  <2>2. MapBuffer \in allocated /\ size >= needed /\ size <= Pool
    BY <1>1, <1>2, <2>1 DEF BootInv, Loading
  <2>3. map' = allocated /\ size' = needed
    BY <1>11, <2>2 DEF FetchMap
  <2>4. current' = TRUE
    BY <1>11, <2>2, Zenon DEF FetchMap
  <2> QED BY <1>1, <2>1, <2>3, <2>4, BootGoesOn DEF Loading, Start
<1>12. CASE SearchTables
  <2>1. /\ at = "tables" /\ at' = "tables"
        /\ UNCHANGED <<machine, memory, allocated, needed, size, map, current>>
    BY <1>12 DEF SearchTables, firmware
  <2>2. map = allocated /\ current = TRUE /\ size = needed
    BY <1>1, <2>1 DEF BootInv, Loading
  <2> QED BY <1>1, <2>1, <2>2, BootGoesOn DEF Loading, Start
<1>13. CASE ExitBootServices
  <2>1. /\ at = "tables" /\ at' = "kernel"
        /\ UNCHANGED <<machine, memory, allocated, needed, size, map>>
    BY <1>13 DEF ExitBootServices
  <2>2. map = allocated /\ current = TRUE /\ size = needed
    BY <1>1, <2>1 DEF BootInv, Loading
  <2>3. exited' = TRUE
    BY <1>13, <2>2, Zenon DEF ExitBootServices
  <2> QED BY <1>1, <2>1, <2>2, <2>3, BootGoesOn DEF Loading, Start
<1>14. CASE FirmwareActs
  BY <1>2, <1>14, Zenon DEF FirmwareActs
<1>15. CASE Discover
  <2>1. at' \in Walks \cup {"done", "astray"}
    BY <1>15 DEF Discover, PrepareAcpi, EnumeratePci, EnumerateBus, EnumerateDevice,
                EnumerateFunction, StrayName, EndOfFunctions, Go, Walks
  <2> QED BY <2>1 DEF Walks, Loading
<1>16. CASE UNCHANGED vars
  <2>1. UNCHANGED <<machine, at, index, memory, allocated, needed, size, map, current, exited>>
    BY <1>16 DEF vars, loader, firmware
  <2>2. Looked' = Looked /\ Loaded' = Loaded /\ (Quiet' <=> Quiet)
    BY <2>1 DEF Looked, Loaded, Quiet
  <2> QED BY <2>1, <2>2 DEF BootInv
<1> QED BY <1>4, <1>5, <1>6, <1>7, <1>8, <1>9, <1>10, <1>11, <1>12, <1>13, <1>14, <1>15,
           <1>16 DEF Next, LoaderNext

LEMMA BootInvariant == ASSUME KernelLayout PROVE Spec => [](LoaderOK /\ BootInv)
PROOF
<1>1. Init => LoaderOK /\ BootInv
  <2> SUFFICES ASSUME Init PROVE LoaderOK /\ BootInv
    OBVIOUS
  <2>1. /\ at = "file" /\ at \in Start /\ index = 1
        /\ allocated = machine.taken /\ needed = 1
        /\ memory = [u \in 0 .. Units - 1 |-> machine.left]
    BY DEF Init, LoaderInit, Start
  <2>2. Loadable \subseteq Nat \ {0} /\ Len(Segments) \in Nat
    BY MachineAssumption DEF Loadable, MachineAssumption
  <2>3. Looked = 1 /\ Loaded = {}
    <3>1. Looked = 1
      BY <2>1 DEF Looked
    <3>2. \A j \in Loadable : ~(j < 1)
      BY <2>2
    <3> QED BY <3>1, <3>2 DEF Loaded
  <2>4. BootInv
    BY <2>1, <2>2, <2>3 DEF BootInv
  <2> QED BY <2>4, LoaderInitOK DEF Init
<1> QED BY <1>1, LoaderKeepsTypes, LoaderNextBoot, PTL DEF Spec

LEMMA WholePages ==
    ASSUME NEW p \in Nat, p > 0, NEW u \in Nat, u % p = 0
    PROVE  u = p * (u \div p)
OBVIOUS

\* All units of a segment are in its pages.
LEMMA PagesOfExtent ==
    ASSUME KernelLayout, NEW i \in Loadable, NEW u \in Extent(Segments[i])
    PROVE  u \div PageUnits \in Pages(Segments[i])
PROOF
<1> DEFINE a == Segments[i].address
           n == Segments[i].memsz
           m == n + PageUnits - 1
           f == a \div PageUnits
           k == u \div PageUnits
           c == m \div PageUnits
<1>1. /\ a \in Nat /\ n \in Nat /\ a % PageUnits = 0
      /\ PageUnits \in Nat /\ PageUnits > 0
  BY SegmentTypes, MemoryAssumption DEF MemoryAssumption, KernelLayout
<1>2. u \in Nat /\ a <= u /\ u <= a + n - 1 /\ m \in Nat
  BY <1>1 DEF Extent
<1>3. a = PageUnits * f
  BY <1>1, WholePages
<1>4. f \in Nat
  BY <1>1, PageOfUnit
<1>5. k \in Nat /\ PageUnits * k <= u /\ u < PageUnits * k + PageUnits
  BY <1>1, <1>2, PageOfUnit
<1>6. c \in Nat /\ PageUnits * c <= m /\ m < PageUnits * c + PageUnits
  BY <1>1, <1>2, PageOfUnit
<1>7. m = n + PageUnits - 1 /\ Pages(Segments[i]) = f .. f + c - 1
  BY DEF Pages
<1> HIDE DEF a, n, m, f, k, c
<1>8. a = PageUnits * f
  BY <1>3
<1>9. f <= k
  <2>1. CASE k + 1 <= f
    <3>1. PageUnits * (k + 1) <= PageUnits * f
      BY <1>1, <1>4, <1>5, <2>1
    <3>2. PageUnits * (k + 1) = PageUnits * k + PageUnits
      BY <1>1, <1>5
    <3> QED BY <1>1, <1>2, <1>4, <1>5, <1>8, <3>1, <3>2
  <2> QED BY <1>4, <1>5, <2>1
<1>10. k <= f + c - 1
  <2>1. CASE f + c <= k
    <3>1. PageUnits * (f + c) <= PageUnits * k
      BY <1>1, <1>4, <1>5, <1>6, <2>1
    <3>2. PageUnits * (f + c) = PageUnits * f + PageUnits * c
      BY <1>1, <1>4, <1>6
    <3> QED BY <1>1, <1>2, <1>4, <1>5, <1>6, <1>7, <1>8, <3>1, <3>2
  <2> QED BY <1>4, <1>5, <1>6, <2>1
<1>11. k \in f .. f + c - 1
  BY <1>4, <1>5, <1>6, <1>9, <1>10
<1> QED BY <1>7, <1>11 DEF k

\* On a machine whose firmware has room for the memory map and keeps to itself
\* between the calls, the kernel is started with the boot services over, with
\* the map of all that was taken, with its segments as in the file, and with
\* every unit of them, .bss included, in a page the map has as taken: however
\* many segments it has, on a memory of any size.
THEOREM KernelIsGivenTheTruth == ASSUME KernelLayout PROVE Spec => []BootInfoTrue
PROOF
<1>1. ASSUME LoaderOK, BootInv, Quiet, at = "kernel"
      PROVE  /\ exited /\ map = allocated /\ size = needed
             /\ \A s \in Loads :
                   /\ \A u \in FileUnits(s) : memory[u] = "file"
                   /\ \A u \in Extent(s) : u \div PageUnits \in map
  <2>1. exited = TRUE /\ map = allocated /\ size = needed
    BY <1>1 DEF BootInv
  <2>2. Loaded = Loadable
    <3>1. \A j \in Loadable : j < Looked
      BY <1>1, MachineAssumption DEF Loadable, MachineAssumption, Looked, Start
    <3> HIDE DEF Looked
    <3> QED BY <3>1 DEF Loaded
  <2>3. /\ \A j \in Loadable : Pages(Segments[j]) \subseteq allocated
        /\ \A u \in 0 .. Units - 1 :
              memory[u] = IF \E j \in Loadable : u \in FileUnits(Segments[j])
                          THEN "file" ELSE machine.left
    BY <1>1, <2>2 DEF BootInv
  <2>4. ASSUME NEW i \in Loadable
        PROVE  LET s == Segments[i]
               IN  /\ \A u \in FileUnits(s) : memory[u] = "file"
                   /\ \A u \in Extent(s) : u \div PageUnits \in map
    <3> DEFINE s == Segments[i]
    <3>1. /\ s.address \in Nat /\ s.filesz \in Nat /\ s.memsz \in Nat
          /\ s.filesz <= s.memsz /\ s.address + s.memsz <= Units /\ Units \in Nat
      BY SegmentTypes, MemoryAssumption DEF MemoryAssumption, KernelLayout
    <3>2. /\ FileUnits(s) \subseteq Extent(s) /\ Extent(s) \subseteq 0 .. Units - 1
      BY <3>1 DEF FileUnits, Extent
    <3>3. \A u \in FileUnits(s) : memory[u] = "file"
      BY <2>3, <3>2
    <3>4. \A u \in Extent(s) : u \div PageUnits \in Pages(s)
      BY PagesOfExtent
    <3>5. Pages(s) \subseteq map
      BY <2>1, <2>3
    <3> QED BY <3>3, <3>4, <3>5
  <2> QED BY <2>1, <2>4 DEF Loads
<1>2. LoaderOK /\ BootInv => BootInfoTrue
  BY <1>1 DEF BootInfoTrue
<1> QED BY <1>2, BootInvariant, PTL

-----------------------------------------------------------------------------
\* The walk: the pages of the functions.
Space == [base : Nat, start : Nat, end : Nat]

\* A function's page is behind the base by its number in the order of the walk,
LEMMA PageOrder ==
    ASSUME NEW e \in Space, NEW b \in Nat, NEW d \in 0 .. Devices - 1,
           NEW f \in 0 .. Functions - 1, NEW c \in Nat
    PROVE  /\ Page(e, b, d, f) \in Nat
           /\ b < c => Page(e, b, d, f) < Page(e, c, 0, 0)
           /\ c <= b => Page(e, c, 0, 0) <= Page(e, b, d, f)
PROOF
<1> DEFINE n == b * Devices + d
<1>1. /\ Devices \in Nat /\ Functions \in Nat /\ Devices > 0 /\ Functions > 0
      /\ d \in Nat /\ f \in Nat /\ d < Devices /\ f < Functions /\ e.base \in Nat
  BY ShapeAssumption DEF ShapeAssumption, Space
<1>2. b * Devices \in Nat /\ c * Devices \in Nat /\ n \in Nat
  BY <1>1
<1>3. n * Functions \in Nat /\ (c * Devices) * Functions \in Nat
  BY <1>1, <1>2
<1>4. /\ Page(e, b, d, f) = e.base + n * Functions + f
      /\ Page(e, c, 0, 0) = e.base + (c * Devices) * Functions
  BY <1>1, <1>2, <1>3 DEF Page
<1>5. ASSUME b < c PROVE n * Functions + f < (c * Devices) * Functions
  <2>1. (b + 1) * Devices = b * Devices + Devices
    BY <1>1
  <2>2. (b + 1) * Devices <= c * Devices
    BY <1>1, <1>5
  <2>3. n + 1 <= c * Devices
    BY <1>1, <1>2, <2>1, <2>2
  <2>4. (n + 1) * Functions = n * Functions + Functions
    BY <1>1, <1>2
  <2>5. (n + 1) * Functions <= (c * Devices) * Functions
    BY <1>1, <1>2, <2>3
  <2> HIDE DEF n
  <2> QED BY <1>1, <1>3, <2>4, <2>5
<1>6. ASSUME c <= b PROVE (c * Devices) * Functions <= n * Functions + f
  <2>1. c * Devices <= b * Devices
    BY <1>1, <1>6
  <2>2. c * Devices <= n
    BY <1>1, <1>2, <2>1
  <2>3. (c * Devices) * Functions <= n * Functions
    BY <1>1, <1>2, <2>2
  <2> HIDE DEF n
  <2> QED BY <1>1, <1>3, <2>3
<1> HIDE DEF n
<1> QED BY <1>1, <1>3, <1>4, <1>5, <1>6

\* and no two functions of an entry have the same.
LEMMA OwnPage ==
    ASSUME NEW e \in Space, NEW b \in Nat, NEW c \in Nat,
           NEW d \in 0 .. Devices - 1, NEW g \in 0 .. Devices - 1,
           NEW f \in 0 .. Functions - 1, NEW h \in 0 .. Functions - 1,
           Page(e, b, d, f) = Page(e, c, g, h)
    PROVE  b = c /\ d = g /\ f = h
PROOF
<1> DEFINE n == b * Devices + d
           k == c * Devices + g
<1>1. /\ Devices \in Nat /\ Functions \in Nat /\ Devices > 0 /\ Functions > 0
      /\ d \in Nat /\ f \in Nat /\ d < Devices /\ f < Functions /\ e.base \in Nat
      /\ g \in Nat /\ h \in Nat /\ g < Devices /\ h < Functions
  BY ShapeAssumption DEF ShapeAssumption, Space
<1>2. b * Devices \in Nat /\ c * Devices \in Nat /\ n \in Nat /\ k \in Nat
  BY <1>1
<1>3. n * Functions \in Nat /\ k * Functions \in Nat
  BY <1>1, <1>2
<1>4. n * Functions + f = k * Functions + h
  BY <1>1, <1>2, <1>3 DEF Page
<1>5. ASSUME NEW x \in Nat, NEW y \in Nat, NEW w \in Nat, NEW u \in 0 .. w - 1,
             NEW v \in 0 .. w - 1, x * w + u = y * w + v, x < y
      PROVE  FALSE
  <2>1. (x + 1) * w = x * w + w
    OBVIOUS
  <2>2. (x + 1) * w <= y * w
    BY <1>5
  <2>3. x * w \in Nat /\ y * w \in Nat
    OBVIOUS
  <2> QED BY <1>5, <2>1, <2>2, <2>3
<1>6. n = k
  <2>1. ~(n < k) /\ ~(k < n)
    BY <1>1, <1>2, <1>4, <1>5
  <2> HIDE DEF n, k
  <2> QED BY <1>2, <2>1
<1>7. f = h
  BY <1>1, <1>3, <1>4, <1>6
<1>8. b = c
  BY <1>1, <1>2, <1>5, <1>6
<1> QED BY <1>1, <1>2, <1>6, <1>7, <1>8

-----------------------------------------------------------------------------
\* The walk so far: a function is reached by way of the first of its bus and
\* of its device, and the loops have passed those before the place.
PageAt(i, b, d, f) == Page(Entries[i], b, d, f)
Reached(i, b, d, f) ==
    \A p \in {PageAt(i, b, 0, 0), PageAt(i, b, d, 0), PageAt(i, b, d, f)} : Valid(p)
Passed(i, b, d, f) ==
    \/ i < place.entry
    \/ /\ i = place.entry /\ at \in {"bus", "device", "function"}
       /\ \/ b < place.bus
          \/ /\ b = place.bus /\ at \in {"device", "function"}
             /\ \/ d < place.device
                \/ d = place.device /\ at = "function" /\ f < place.function
Told(p) ==
    \E i \in DOMAIN Entries : \E b \in Buses(Entries[i]) :
        \E d \in 0 .. Devices - 1, f \in 0 .. Functions - 1 :
            Reached(i, b, d, f) /\ Passed(i, b, d, f) /\ p = PageAt(i, b, d, f)

PlaceOK ==
    /\ place \in [entry : Nat \ {0}, bus : Nat, device : 0 .. Devices,
                  function : 0 .. Functions]
    /\ mcfg \in 0 .. Len(machine.xsdt)
    /\ at \in Walks \cup {"done"} =>
           mcfg # 0 /\ rsdp = "ACPI_20" /\ machine.xsdt[mcfg].signature = "MCFG"
    /\ at \in {"bus", "device", "function"} => place.entry \in DOMAIN Entries
    /\ at = "bus" => Entry.start <= place.bus
    /\ at \in {"device", "function"} =>
           place.bus \in Buses(Entry) /\ Valid(Page(Entry, place.bus, 0, 0))
    /\ at = "function" =>
           place.device < Devices /\ Valid(Page(Entry, place.bus, place.device, 0))
    /\ at = "done" => place.entry > Len(Entries)

Lines == {[page |-> p, names |-> Names(Header(p))] : p \in Nat}
PrintedPages == {lines[l].page : l \in DOMAIN lines}
LinesOK ==
    /\ mapped \subseteq Nat /\ drivers \subseteq mapped
    /\ \A l \in DOMAIN lines : lines[l] \in Lines /\ lines[l].page \in mapped
    /\ \E n \in Nat : DOMAIN lines = 1 .. n
    /\ at \in Loading \cup {"kernel"} => lines = <<>> /\ drivers = {} /\ place.entry = 1
    /\ at \in Walks \cup {"done"} =>
           /\ IsFiniteSet(PrintedPages)
           /\ EntriesApart => Len(lines) = Cardinality(PrintedPages)
           /\ drivers = {p \in PrintedPages : IsAHCI(Header(p))}
           /\ \A p \in PrintedPages : Told(p)
           /\ \A i \in DOMAIN Entries : \A b \in Buses(Entries[i]) :
                 \A d \in 0 .. Devices - 1, f \in 0 .. Functions - 1 :
                     Reached(i, b, d, f) /\ Passed(i, b, d, f)
                         => PageAt(i, b, d, f) \in PrintedPages
WalkInv == PlaceOK /\ LinesOK

LEMMA TablesTypes ==
    ASSUME LoaderOK
    PROVE  /\ Len(machine.xsdt) \in Nat /\ DOMAIN machine.xsdt = 1 .. Len(machine.xsdt)
           /\ mcfg \in DOMAIN machine.xsdt =>
                  /\ Len(Entries) \in Nat /\ DOMAIN Entries = 1 .. Len(Entries)
                  /\ \A i \in DOMAIN Entries : Entries[i] \in Space
PROOF
<1> DEFINE T == [signature : STRING, entries : Seq(Space)]
<1>1. machine.xsdt \in Seq(T)
  BY TablesAssumption DEF TablesAssumption, LoaderOK, Space
<1> HIDE DEF T
<1>2. /\ Len(machine.xsdt) \in Nat /\ DOMAIN machine.xsdt = 1 .. Len(machine.xsdt)
      /\ \A t \in DOMAIN machine.xsdt : machine.xsdt[t] \in T
  BY <1>1
<1>3. mcfg \in DOMAIN machine.xsdt => Entries \in Seq(Space)
  BY <1>2 DEF T, Entries
<1> HIDE DEF Entries, Space
<1>4. Entries \in Seq(Space) => /\ Len(Entries) \in Nat /\ DOMAIN Entries = 1 .. Len(Entries)
                                /\ \A i \in DOMAIN Entries : Entries[i] \in Space
  OBVIOUS
<1> QED BY <1>2, <1>3, <1>4

\* The search for a table.
LEMMA FindsTable ==
    ASSUME NEW signature, LoaderOK
    PROVE  /\ find_table(signature) \in 0 .. Len(machine.xsdt)
           /\ find_table(signature) # 0 =>
                  machine.xsdt[find_table(signature)].signature = signature
PROOF
<1> DEFINE found == {t \in DOMAIN machine.xsdt : machine.xsdt[t].signature = signature}
           R == {pq \in Nat \X Nat : pq[1] < pq[2]}
<1>1. found \subseteq 1 .. Len(machine.xsdt) /\ Len(machine.xsdt) \in Nat
  BY TablesTypes
<1>2. CASE found = {}
  BY <1>1, <1>2 DEF find_table
<1>3. CASE found # {}
  <2>1. IsWellFoundedOn(R, Nat)
    BY NatLessThanWellFounded, Zenon DEF OpToRel
  <2>2. found \subseteq Nat
    BY <1>1
  <2>3. PICK p \in found : \A q \in found : ~ (<<q, p>> \in R)
    <3> HIDE DEF R, found
    <3> QED BY <1>3, <2>1, <2>2, WFMin
  <2>4. \A q \in found : p <= q
    <3> SUFFICES ASSUME NEW q \in found, ~ (p <= q) PROVE FALSE
      OBVIOUS
    <3>1. q \in Nat /\ p \in Nat
      BY <2>2
    <3>2. <<q, p>> \in R
      BY <3>1
    <3> HIDE DEF R, found
    <3> QED BY <2>3, <3>2
  <2>5. Min(found) \in found
    <3> HIDE DEF found
    <3>1. \E x \in found : \A y \in found : x <= y
      BY <2>4
    <3> QED BY <3>1, Zenon DEF Min
  <2>6. find_table(signature) = Min(found)
    BY <1>3 DEF find_table
  <2> QED BY <1>1, <2>5, <2>6
<1> QED BY <1>2, <1>3

\* A step that passes nothing that is reached.
LEMMA SilentStep ==
    ASSUME LoaderOK, WalkInv, at \in Walks, at' \in Walks \cup {"done"}, PlaceOK',
           UNCHANGED <<machine, mcfg, lines, drivers>>,
           mapped \subseteq mapped', mapped' \subseteq Nat,
           \A i \in DOMAIN Entries : \A b \in Buses(Entries[i]) :
               \A d \in 0 .. Devices - 1, f \in 0 .. Functions - 1 :
                   Reached(i, b, d, f) => (Passed(i, b, d, f)' <=> Passed(i, b, d, f))
    PROVE  WalkInv'
PROOF
<1>1. /\ Entries' = Entries /\ PrintedPages' = PrintedPages /\ Lines' = Lines
      /\ \A p : Header(p)' = Header(p)
  BY DEF Entries, PrintedPages, Lines, Header
<1>2. \A i, b, d, f : /\ PageAt(i, b, d, f)' = PageAt(i, b, d, f)
                      /\ Reached(i, b, d, f)' <=> Reached(i, b, d, f)
  BY <1>1 DEF PageAt, Reached, Valid
<1>3. \A p \in PrintedPages : Told(p)'
  <2> HIDE DEF Passed, PageAt, Reached
  <2>1. \A p \in PrintedPages : Told(p)
    BY DEF WalkInv, LinesOK
  <2> QED BY <1>1, <1>2, <2>1 DEF Told
<1>4. ASSUME NEW i \in DOMAIN Entries, NEW b \in Buses(Entries[i]),
             NEW d \in 0 .. Devices - 1, NEW f \in 0 .. Functions - 1,
             Reached(i, b, d, f), Passed(i, b, d, f)'
      PROVE  PageAt(i, b, d, f) \in PrintedPages
  <2> HIDE DEF Passed, PageAt, Reached
  <2>1. Passed(i, b, d, f)
    BY <1>4
  <2> QED BY <1>4, <2>1 DEF WalkInv, LinesOK
<1>5. /\ IsFiniteSet(PrintedPages)
      /\ EntriesApart => Len(lines) = Cardinality(PrintedPages)
      /\ drivers = {p \in PrintedPages : IsAHCI(Header(p))}
      /\ drivers \subseteq mapped /\ \E n \in Nat : DOMAIN lines = 1 .. n
      /\ \A l \in DOMAIN lines : lines[l] \in Lines /\ lines[l].page \in mapped
  BY DEF WalkInv, LinesOK
<1>6. {p \in PrintedPages' : IsAHCI(Header(p)')} = {p \in PrintedPages : IsAHCI(Header(p))}
  BY <1>1 DEF IsAHCI
<1>7. at' \notin Loading \cup {"kernel"}
  BY DEF Loading, Walks
<1> HIDE DEF Told, Passed, PageAt, Reached, PrintedPages, Lines, Header, Entries
<1>8. LinesOK'
  BY <1>1, <1>2, <1>3, <1>4, <1>5, <1>6, <1>7 DEF LinesOK
<1> QED BY <1>8 DEF WalkInv

\* The steps between the functions.
LEMMA LoopStep ==
    ASSUME LoaderOK, LoaderOK', WalkInv,
           EnumeratePci \/ EnumerateBus \/ EnumerateDevice \/ EndOfFunctions
    PROVE  WalkInv'
PROOF
<1>1. /\ UNCHANGED <<machine, mcfg, lines, drivers, rsdp>> /\ at \in Walks
      /\ Entries' = Entries /\ \A p : Valid(p)' <=> Valid(p)
  BY DEF EnumeratePci, EnumerateBus, EnumerateDevice, EndOfFunctions, Walking, Silent,
         Walks, Entries, Valid, Header
<1>2. /\ mcfg \in DOMAIN machine.xsdt /\ Len(Entries) \in Nat
      /\ DOMAIN Entries = 1 .. Len(Entries) /\ \A i \in DOMAIN Entries : Entries[i] \in Space
  BY <1>1, TablesTypes DEF WalkInv, PlaceOK
<1>3. /\ place.entry \in Nat \ {0} /\ place.bus \in Nat /\ place.device \in 0 .. Devices
      /\ place.function \in 0 .. Functions /\ Devices \in Nat \ {0}
      /\ Functions \in Nat \ {0} /\ mapped \subseteq Nat
      /\ place = [entry |-> place.entry, bus |-> place.bus, device |-> place.device,
                  function |-> place.function]
      /\ mcfg # 0 /\ rsdp = "ACPI_20" /\ machine.xsdt[mcfg].signature = "MCFG"
      /\ mcfg \in 0 .. Len(machine.xsdt)
  BY <1>1, ShapeAssumption DEF ShapeAssumption, WalkInv, PlaceOK, LinesOK
<1>4. at \in {"bus", "device", "function"} =>
          Entry \in Space /\ Entry.start \in Nat /\ Entry.end \in Nat
  BY <1>2 DEF WalkInv, PlaceOK, Entry, Space
<1>5. ASSUME NEW i \in DOMAIN Entries, NEW b \in Buses(Entries[i])
      PROVE  /\ i \in Nat /\ b \in Nat /\ Entries[i].start <= b /\ b < Entries[i].end
             /\ Entries[i].start \in Nat
  BY <1>2 DEF Buses, Space
<1>10. /\ place.entry \in Nat /\ place.bus \in Nat /\ place.device \in Nat
       /\ place.function \in Nat /\ place.device <= Devices /\ place.function <= Functions
       /\ Devices \in Nat /\ Functions \in Nat
  BY <1>3
<1>6. CASE EnumeratePci
  <2>1. CASE place.entry <= Len(Entries)
    <3>1. /\ at = "entry" /\ at' = "bus" /\ place' = [place EXCEPT !.bus = Entry.start]
          /\ mapped' = mapped
      BY <1>6, <2>1 DEF EnumeratePci, Go
    <3>2. Entry \in Space /\ Entry.start \in Nat
      BY <1>2, <1>3, <2>1 DEF Entry, Space
    <3>3. /\ place'.entry = place.entry /\ place'.bus = Entry.start
          /\ place' \in [entry : Nat \ {0}, bus : Nat, device : 0 .. Devices,
                         function : 0 .. Functions]
      BY <1>3, <3>1, <3>2
    <3>4. PlaceOK'
      BY <1>1, <1>2, <1>3, <2>1, <3>1, <3>2, <3>3 DEF PlaceOK, Entry
    <3>5. ASSUME NEW i \in DOMAIN Entries, NEW b \in Buses(Entries[i]),
                 NEW d \in 0 .. Devices - 1, NEW f \in 0 .. Functions - 1
          PROVE  Passed(i, b, d, f)' <=> Passed(i, b, d, f)
      BY <1>5, <1>10, <3>1, <3>2, <3>3 DEF Passed, Entry
    <3> QED BY <1>1, <1>3, <3>1, <3>4, <3>5, SilentStep DEF Walks
  <2>2. CASE ~(place.entry <= Len(Entries))
    <3>1. at = "entry" /\ at' = "done" /\ place' = place /\ mapped' = mapped
      BY <1>6, <2>2 DEF EnumeratePci, Go
    <3>2. PlaceOK'
      BY <1>1, <1>2, <1>3, <2>2, <3>1 DEF PlaceOK, WalkInv
    <3>3. ASSUME NEW i \in DOMAIN Entries, NEW b \in Buses(Entries[i]),
                 NEW d \in 0 .. Devices - 1, NEW f \in 0 .. Functions - 1
          PROVE  Passed(i, b, d, f)' <=> Passed(i, b, d, f)
      BY <3>1 DEF Passed
    <3> QED BY <1>1, <1>3, <3>1, <3>2, <3>3, SilentStep DEF Walks
  <2> QED BY <2>1, <2>2
<1>7. CASE EnumerateBus
  <2> DEFINE page == Page(Entry, place.bus, 0, 0)
  <2>1. at = "bus" /\ place.entry \in DOMAIN Entries /\ Entry.start <= place.bus
    BY <1>7 DEF EnumerateBus, WalkInv, PlaceOK
  <2>2. page \in Nat
    <3>1. 0 \in 0 .. Devices - 1 /\ 0 \in 0 .. Functions - 1
      BY <1>3
    <3> QED BY <1>3, <1>4, <2>1, <3>1, PageOrder
  <2>3. CASE place.bus < Entry.end /\ Valid(page)
    <3>1. /\ at' = "device" /\ place' = [place EXCEPT !.device = 0]
          /\ mapped' = mapped \cup {page}
      BY <1>7, <2>3 DEF EnumerateBus, Go
    <3>2. /\ place'.entry = place.entry /\ place'.bus = place.bus /\ place'.device = 0
          /\ place' \in [entry : Nat \ {0}, bus : Nat, device : 0 .. Devices,
                         function : 0 .. Functions]
      BY <1>3, <3>1
    <3>3. place.bus \in Buses(Entry)
      BY <1>3, <1>4, <2>1, <2>3 DEF Buses
    <3>4. Entry' = Entry /\ Valid(page)'
      BY <1>1, <2>3, <3>2 DEF Entry
    <3>5. PlaceOK'
      BY <1>1, <1>3, <2>1, <2>3, <3>1, <3>2, <3>3, <3>4 DEF PlaceOK
    <3>6. ASSUME NEW i \in DOMAIN Entries, NEW b \in Buses(Entries[i]),
                 NEW d \in 0 .. Devices - 1, NEW f \in 0 .. Functions - 1
          PROVE  Passed(i, b, d, f)' <=> Passed(i, b, d, f)
      BY <1>5, <1>10, <2>1, <3>1, <3>2 DEF Passed
    <3> QED BY <1>1, <1>3, <2>2, <3>1, <3>5, <3>6, SilentStep DEF Walks
  <2>4. CASE place.bus < Entry.end /\ ~Valid(page)
    <3>1. /\ at' = "bus" /\ place' = [place EXCEPT !.bus = place.bus + 1]
          /\ mapped' = mapped \cup {page}
      BY <1>7, <2>4 DEF EnumerateBus, Go
    <3>2. /\ place'.entry = place.entry /\ place'.bus = place.bus + 1
          /\ place' \in [entry : Nat \ {0}, bus : Nat, device : 0 .. Devices,
                         function : 0 .. Functions]
      BY <1>3, <3>1
    <3>3. Entry' = Entry
      BY <1>1, <3>2 DEF Entry
    <3>4. PlaceOK'
      BY <1>1, <1>3, <1>4, <2>1, <3>1, <3>2, <3>3 DEF PlaceOK
    <3>5. ASSUME NEW i \in DOMAIN Entries, NEW b \in Buses(Entries[i]),
                 NEW d \in 0 .. Devices - 1, NEW f \in 0 .. Functions - 1,
                 Reached(i, b, d, f)
          PROVE  Passed(i, b, d, f)' <=> Passed(i, b, d, f)
      <4>1. i = place.entry => b # place.bus
        BY <2>4, <3>5 DEF Reached, PageAt, Entry
      <4> QED BY <1>5, <1>10, <2>1, <3>1, <3>2, <4>1 DEF Passed
    <3> QED BY <1>1, <1>3, <2>2, <3>1, <3>4, <3>5, SilentStep DEF Walks
  <2>5. CASE ~(place.bus < Entry.end)
    <3>1. /\ at' = "entry" /\ place' = [place EXCEPT !.entry = place.entry + 1]
          /\ mapped' = mapped
      BY <1>7, <2>5 DEF EnumerateBus, Go
    <3>2. /\ place'.entry = place.entry + 1
          /\ place' \in [entry : Nat \ {0}, bus : Nat, device : 0 .. Devices,
                         function : 0 .. Functions]
      BY <1>3, <3>1
    <3>3. PlaceOK'
      BY <1>1, <1>3, <3>1, <3>2 DEF PlaceOK
    <3>4. ASSUME NEW i \in DOMAIN Entries, NEW b \in Buses(Entries[i]),
                 NEW d \in 0 .. Devices - 1, NEW f \in 0 .. Functions - 1
          PROVE  Passed(i, b, d, f)' <=> Passed(i, b, d, f)
      <4>1. i = place.entry => b < place.bus
        BY <1>3, <1>4, <1>5, <2>1, <2>5 DEF Entry
      <4> QED BY <1>5, <1>10, <2>1, <3>1, <3>2, <4>1 DEF Passed
    <3> QED BY <1>1, <1>3, <3>1, <3>3, <3>4, SilentStep DEF Walks
  <2> QED BY <2>3, <2>4, <2>5
<1>8. CASE EnumerateDevice
  <2> DEFINE page == Page(Entry, place.bus, place.device, 0)
  <2>1. /\ at = "device" /\ place.entry \in DOMAIN Entries /\ place.bus \in Buses(Entry)
        /\ Valid(Page(Entry, place.bus, 0, 0))
    BY <1>8 DEF EnumerateDevice, WalkInv, PlaceOK
  <2>2. place.device < Devices => page \in Nat
    BY <1>3, <1>4, <2>1, PageOrder
  <2>3. CASE place.device < Devices /\ Valid(page)
    <3>1. /\ at' = "function" /\ place' = [place EXCEPT !.function = 0]
          /\ mapped' = mapped \cup {page}
      BY <1>8, <2>3 DEF EnumerateDevice, Go
    <3>2. /\ place'.entry = place.entry /\ place'.bus = place.bus
          /\ place'.device = place.device /\ place'.function = 0
          /\ place' \in [entry : Nat \ {0}, bus : Nat, device : 0 .. Devices,
                         function : 0 .. Functions]
      BY <1>3, <3>1
    <3>3. Entry' = Entry /\ Valid(page)' /\ Valid(Page(Entry, place.bus, 0, 0))'
      BY <1>1, <2>1, <2>3, <3>2 DEF Entry
    <3>4. PlaceOK'
      BY <1>1, <1>3, <2>1, <2>3, <3>1, <3>2, <3>3 DEF PlaceOK
    <3>5. ASSUME NEW i \in DOMAIN Entries, NEW b \in Buses(Entries[i]),
                 NEW d \in 0 .. Devices - 1, NEW f \in 0 .. Functions - 1
          PROVE  Passed(i, b, d, f)' <=> Passed(i, b, d, f)
      BY <1>5, <1>10, <2>1, <3>1, <3>2 DEF Passed
    <3> QED BY <1>1, <1>3, <2>2, <2>3, <3>1, <3>4, <3>5, SilentStep DEF Walks
  <2>4. CASE place.device < Devices /\ ~Valid(page)
    <3>1. /\ at' = "device" /\ place' = [place EXCEPT !.device = place.device + 1]
          /\ mapped' = mapped \cup {page}
      BY <1>8, <2>4 DEF EnumerateDevice, Go
    <3>2. /\ place'.entry = place.entry /\ place'.bus = place.bus
          /\ place'.device = place.device + 1
          /\ place' \in [entry : Nat \ {0}, bus : Nat, device : 0 .. Devices,
                         function : 0 .. Functions]
      BY <1>3, <2>4, <3>1
    <3>3. Entry' = Entry /\ Valid(Page(Entry, place.bus, 0, 0))'
      BY <1>1, <2>1, <3>2 DEF Entry
    <3>4. PlaceOK'
      BY <1>1, <1>3, <2>1, <3>1, <3>2, <3>3 DEF PlaceOK
    <3>5. ASSUME NEW i \in DOMAIN Entries, NEW b \in Buses(Entries[i]),
                 NEW d \in 0 .. Devices - 1, NEW f \in 0 .. Functions - 1,
                 Reached(i, b, d, f)
          PROVE  Passed(i, b, d, f)' <=> Passed(i, b, d, f)
      <4>1. i = place.entry /\ b = place.bus => d # place.device
        BY <2>4, <3>5 DEF Reached, PageAt, Entry
      <4> QED BY <1>5, <1>10, <2>1, <3>1, <3>2, <4>1 DEF Passed
    <3> QED BY <1>1, <1>3, <2>2, <2>4, <3>1, <3>4, <3>5, SilentStep DEF Walks
  <2>5. CASE ~(place.device < Devices)
    <3>1. /\ at' = "bus" /\ place' = [place EXCEPT !.bus = place.bus + 1]
          /\ mapped' = mapped
      BY <1>8, <2>5 DEF EnumerateDevice, Go
    <3>2. /\ place'.entry = place.entry /\ place'.bus = place.bus + 1
          /\ place' \in [entry : Nat \ {0}, bus : Nat, device : 0 .. Devices,
                         function : 0 .. Functions]
      BY <1>3, <3>1
    <3>3. Entry' = Entry /\ Entry.start <= place.bus
      BY <1>1, <1>4, <2>1, <3>2 DEF Entry, Buses
    <3>4. PlaceOK'
      BY <1>1, <1>3, <1>4, <2>1, <3>1, <3>2, <3>3 DEF PlaceOK
    <3>5. ASSUME NEW i \in DOMAIN Entries, NEW b \in Buses(Entries[i]),
                 NEW d \in 0 .. Devices - 1, NEW f \in 0 .. Functions - 1
          PROVE  Passed(i, b, d, f)' <=> Passed(i, b, d, f)
      BY <1>5, <1>10, <2>1, <2>5, <3>1, <3>2 DEF Passed
    <3> QED BY <1>1, <1>3, <3>1, <3>4, <3>5, SilentStep DEF Walks
  <2> QED BY <2>3, <2>4, <2>5
<1>9. CASE EndOfFunctions
  <2>1. /\ at = "function" /\ at' = "device" /\ place.function = Functions
        /\ place' = [place EXCEPT !.device = place.device + 1] /\ mapped' = mapped
    BY <1>9 DEF EndOfFunctions, Go
  <2>2. /\ place.entry \in DOMAIN Entries /\ place.bus \in Buses(Entry)
        /\ Valid(Page(Entry, place.bus, 0, 0)) /\ place.device < Devices
    BY <2>1 DEF WalkInv, PlaceOK
  <2>3. /\ place'.entry = place.entry /\ place'.bus = place.bus
        /\ place'.device = place.device + 1
        /\ place' \in [entry : Nat \ {0}, bus : Nat, device : 0 .. Devices,
                       function : 0 .. Functions]
    BY <1>3, <2>1, <2>2
  <2>4. Entry' = Entry /\ Valid(Page(Entry, place.bus, 0, 0))'
    BY <1>1, <2>2, <2>3 DEF Entry
  <2>5. PlaceOK'
    BY <1>1, <1>3, <2>1, <2>2, <2>3, <2>4 DEF PlaceOK
  <2>6. ASSUME NEW i \in DOMAIN Entries, NEW b \in Buses(Entries[i]),
               NEW d \in 0 .. Devices - 1, NEW f \in 0 .. Functions - 1
        PROVE  Passed(i, b, d, f)' <=> Passed(i, b, d, f)
    BY <1>5, <1>10, <2>1, <2>2, <2>3 DEF Passed
  <2> QED BY <1>1, <1>3, <2>1, <2>5, <2>6, SilentStep DEF Walks
<1> QED BY <1>6, <1>7, <1>8, <1>9

\* The page of a function is not one of those printed before.
LEMMA NotPrinted ==
    ASSUME LoaderOK, WalkInv, InFunctions
    PROVE  FunctionPage \in Nat /\ (EntriesApart => ~Told(FunctionPage))
PROOF
<1>1. /\ at = "function" /\ place.function < Functions /\ place.device < Devices
      /\ place.entry \in DOMAIN Entries /\ place.bus \in Buses(Entry)
      /\ place.bus \in Nat /\ place.device \in 0 .. Devices - 1
      /\ place.function \in 0 .. Functions - 1
  BY ShapeAssumption DEF ShapeAssumption, InFunctions, WalkInv, PlaceOK
<1>2. /\ mcfg \in DOMAIN machine.xsdt /\ Len(Entries) \in Nat
      /\ DOMAIN Entries = 1 .. Len(Entries) /\ \A i \in DOMAIN Entries : Entries[i] \in Space
  BY <1>1, TablesTypes DEF WalkInv, PlaceOK, Walks
<1>3. Entry \in Space /\ FunctionPage = PageAt(place.entry, place.bus, place.device, place.function)
  BY <1>1, <1>2 DEF Entry, FunctionPage, PageAt
<1>4. FunctionPage \in Nat
  BY <1>1, <1>3, PageOrder DEF FunctionPage
<1>5. ASSUME NEW i \in DOMAIN Entries, NEW b \in Buses(Entries[i]),
             NEW d \in 0 .. Devices - 1, NEW f \in 0 .. Functions - 1
      PROVE  PageAt(i, b, d, f) \in SpaceOf(Entries[i]) /\ b \in Nat
  <2>1. Entries[i] \in Space
    BY <1>2
  <2>2. /\ Entries[i].start \in Nat /\ Entries[i].end \in Nat
        /\ b \in Nat /\ Entries[i].start <= b /\ b < Entries[i].end
    BY <2>1 DEF Space, Buses
  <2>3. 0 \in 0 .. Devices - 1 /\ 0 \in 0 .. Functions - 1
    BY ShapeAssumption DEF ShapeAssumption
  <2>4. /\ Page(Entries[i], b, d, f) \in Nat
        /\ Page(Entries[i], b, d, f) < Page(Entries[i], Entries[i].end, 0, 0)
        /\ Page(Entries[i], Entries[i].start, 0, 0) <= Page(Entries[i], b, d, f)
        /\ Page(Entries[i], Entries[i].end, 0, 0) \in Nat
        /\ Page(Entries[i], Entries[i].start, 0, 0) \in Nat
    BY <2>1, <2>2, <2>3, PageOrder
  <2> HIDE DEF Page
  <2> QED BY <2>2, <2>4 DEF PageAt, SpaceOf
<1>6. ASSUME NEW i \in DOMAIN Entries, NEW b \in Buses(Entries[i]),
             NEW d \in 0 .. Devices - 1, NEW f \in 0 .. Functions - 1,
             Passed(i, b, d, f), FunctionPage = PageAt(i, b, d, f), EntriesApart
      PROVE  FALSE
  <2>1. i = place.entry
    <3>1. FunctionPage \in SpaceOf(Entries[i]) /\ FunctionPage \in SpaceOf(Entries[place.entry])
      BY <1>1, <1>3, <1>5, <1>6 DEF Entry
    <3>2. i # place.entry =>
              SpaceOf(Entries[i]) \cap SpaceOf(Entries[place.entry]) = {}
      BY <1>1, <1>2, <1>6 DEF EntriesApart, LoaderOK, Entries
    <3> QED BY <3>1, <3>2
  <2>2. b = place.bus /\ d = place.device /\ f = place.function
    <3>1. Page(Entry, b, d, f) = Page(Entry, place.bus, place.device, place.function)
      BY <1>6, <2>1 DEF PageAt, Entry, FunctionPage
    <3>2. b \in Nat
      BY <1>5, <1>6
    <3> HIDE DEF Page
    <3> QED BY <1>1, <1>3, <1>6, <3>1, <3>2, OwnPage
  <2> QED BY <1>1, <1>2, <1>6, <2>1, <2>2 DEF Passed
<1> HIDE DEF Passed, PageAt, Buses, EntriesApart
<1> QED BY <1>4, <1>6 DEF Told

\* The step over a function passes that function and no other one.
LEMMA FunctionStep ==
    ASSUME LoaderOK, WalkInv, EnumerateFunction
    PROVE  WalkInv'
PROOF
<1> DEFINE page == FunctionPage
           header == Header(page)
<1>1. /\ UNCHANGED <<machine, mcfg, rsdp>> /\ at = "function" /\ at' = "function"
      /\ InFunctions /\ mapped' = mapped \cup {page}
      /\ place' = [place EXCEPT !.function = place.function + 1]
      /\ Entries' = Entries /\ Lines' = Lines /\ \A p : Header(p)' = Header(p)
  BY DEF EnumerateFunction, InFunctions, Walking, Go, NextFunction, Entries, Header, Lines
<1>2. page \in Nat /\ (EntriesApart => ~Told(page))
  BY <1>1, NotPrinted
<1>3. /\ place.entry \in DOMAIN Entries /\ place.bus \in Buses(Entry)
      /\ Valid(Page(Entry, place.bus, 0, 0))
      /\ place.device < Devices /\ Valid(Page(Entry, place.bus, place.device, 0))
      /\ place.entry \in Nat \ {0} /\ place.bus \in Nat
      /\ place.device \in 0 .. Devices - 1 /\ place.function \in 0 .. Functions - 1
      /\ place.entry \in Nat /\ place.device \in Nat /\ place.function \in Nat
  BY <1>1, ShapeAssumption DEF ShapeAssumption, InFunctions, WalkInv, PlaceOK
<1>4. /\ place'.entry = place.entry /\ place'.bus = place.bus
      /\ place'.device = place.device /\ place'.function = place.function + 1
      /\ place' \in [entry : Nat \ {0}, bus : Nat, device : 0 .. Devices,
                     function : 0 .. Functions]
  BY <1>1, <1>3, ShapeAssumption DEF ShapeAssumption, WalkInv, PlaceOK
<1>5. Entry' = Entry /\ \A p : Valid(p)' <=> Valid(p)
  BY <1>1, <1>4 DEF Entry, Valid
<1>6. PlaceOK'
  <2>1. /\ mcfg \in 0 .. Len(machine.xsdt) /\ mcfg # 0 /\ rsdp = "ACPI_20"
        /\ machine.xsdt[mcfg].signature = "MCFG"
    BY <1>1 DEF WalkInv, PlaceOK, Walks
  <2> QED BY <1>1, <1>3, <1>4, <1>5, <2>1 DEF PlaceOK
<1>7. \A i, b, d, f : /\ PageAt(i, b, d, f)' = PageAt(i, b, d, f)
                      /\ Reached(i, b, d, f)' <=> Reached(i, b, d, f)
  BY <1>1, <1>5 DEF PageAt, Reached
<1>8. ASSUME NEW i \in DOMAIN Entries, NEW b \in Buses(Entries[i]),
             NEW d \in 0 .. Devices - 1, NEW f \in 0 .. Functions - 1
      PROVE  Passed(i, b, d, f)' <=>
                 \/ Passed(i, b, d, f)
                 \/ /\ i = place.entry /\ b = place.bus
                    /\ d = place.device /\ f = place.function
  BY <1>1, <1>3, <1>4 DEF Passed
<1>9. Reached(place.entry, place.bus, place.device, place.function) <=> Valid(page)
  BY <1>3 DEF Reached, PageAt, FunctionPage, Entry
<1>10. page = PageAt(place.entry, place.bus, place.device, place.function)
  BY DEF PageAt, FunctionPage, Entry
<1>11. ASSUME NEW p
       PROVE  Told(p)' <=> Told(p) \/ (Valid(page) /\ p = page)
  <2> HIDE DEF Reached, PageAt, Passed, page, Buses
  <2> QED BY <1>1, <1>3, <1>7, <1>8, <1>9, <1>10 DEF Told, Entry
<1>12. /\ mapped \subseteq Nat /\ drivers \subseteq mapped
       /\ \A l \in DOMAIN lines : lines[l] \in Lines /\ lines[l].page \in mapped
       /\ IsFiniteSet(PrintedPages)
       /\ EntriesApart => Len(lines) = Cardinality(PrintedPages)
       /\ drivers = {p \in PrintedPages : IsAHCI(Header(p))}
       /\ \A p \in PrintedPages : Told(p)
       /\ \A p : Told(p) => p \in PrintedPages
  BY <1>1 DEF WalkInv, LinesOK, Walks, Told
<1>13. PICK n \in Nat : DOMAIN lines = 1 .. n
  BY DEF WalkInv, LinesOK
<1>14. CASE Valid(page)
  <2> DEFINE line == [page |-> page, names |-> Names(header)]
  <2>1. /\ lines' = Append(lines, line)
        /\ drivers' = IF IsAHCI(header) THEN drivers \cup {page} ELSE drivers
    BY <1>14 DEF EnumerateFunction, Describe
  <2>2. line \in Lines /\ line.page = page
    BY <1>2 DEF Lines
  <2>3. n = Len(lines)
    BY <1>13
  <2> HIDE DEF line
  <2>4. /\ DOMAIN lines' = 1 .. n + 1 /\ Len(lines') = n + 1
        /\ \A l \in 1 .. n : lines'[l] = lines[l]
        /\ lines'[n + 1] = line
    BY <1>13, <2>1, <2>3
  <2>5. PrintedPages' = PrintedPages \cup {page}
    BY <1>13, <2>2, <2>4 DEF PrintedPages
  <2>6. EntriesApart => page \notin PrintedPages
    BY <1>2, <1>12
  <2>7. /\ IsFiniteSet(PrintedPages')
        /\ EntriesApart => Len(lines') = Cardinality(PrintedPages')
    BY <1>12, <2>3, <2>4, <2>5, <2>6, FS_AddElement
  <2>8. drivers' = {p \in PrintedPages' : IsAHCI(Header(p)')}
    BY <1>1, <1>12, <2>1, <2>5, <2>6
  <2>9. drivers' \subseteq mapped' /\ mapped' \subseteq Nat
    BY <1>1, <1>2, <1>12, <2>1
  <2>10. \A l \in DOMAIN lines' : lines'[l] \in Lines' /\ lines'[l].page \in mapped'
    BY <1>1, <1>12, <1>13, <2>2, <2>4
  <2>11. /\ \A p \in PrintedPages' : Told(p)'
         /\ \A p : Told(p)' => p \in PrintedPages'
    BY <1>11, <1>12, <1>14, <2>5
  <2> QED
    <3> HIDE DEF PrintedPages, Lines, page, Passed, PageAt, Reached, Buses
    <3>1. \E k \in Nat : DOMAIN lines' = 1 .. k
      BY <2>4
    <3> QED BY <1>1, <1>6, <2>7, <2>8, <2>9, <2>10, <2>11, <3>1
            DEF WalkInv, LinesOK, Told, Loading
<1>15. CASE ~Valid(page)
  <2>1. lines' = lines /\ drivers' = drivers /\ PrintedPages' = PrintedPages
    BY <1>15 DEF EnumerateFunction, Silent, PrintedPages
  <2>2. /\ \A p \in PrintedPages' : Told(p)'
        /\ \A p : Told(p)' => p \in PrintedPages'
    BY <1>11, <1>12, <1>15, <2>1
  <2>3. drivers' = {p \in PrintedPages' : IsAHCI(Header(p)')}
    BY <1>1, <1>12, <2>1
  <2> QED
    <3> HIDE DEF PrintedPages, Lines, page, Passed, PageAt, Reached, Buses
    <3> QED BY <1>1, <1>2, <1>6, <1>12, <1>13, <2>1, <2>2, <2>3
            DEF WalkInv, LinesOK, Told, Loading
<1> QED BY <1>14, <1>15

LEMMA WalkInitOK == Init => WalkInv
PROOF
<1> SUFFICES ASSUME Init PROVE WalkInv
  OBVIOUS
<1>1. /\ at = "file" /\ mcfg = 0 /\ mapped = {} /\ lines = <<>> /\ drivers = {}
      /\ place = [entry |-> 1, bus |-> 0, device |-> 0, function |-> 0]
  BY DEF Init, LoaderInit
<1>2. LoaderOK
  BY LoaderInitOK DEF Init
<1>3. PlaceOK
  BY <1>1, <1>2, ShapeAssumption, TablesTypes DEF ShapeAssumption, PlaceOK, Walks
<1>4. DOMAIN lines = 1 .. 0
  BY <1>1
<1> HIDE DEF Told, Lines, PrintedPages
<1> QED BY <1>1, <1>3, <1>4 DEF WalkInv, LinesOK, Loading, Walks

LEMMA WalkNext == LoaderOK /\ LoaderOK' /\ WalkInv /\ [Next]_vars => WalkInv'
PROOF
<1> SUFFICES ASSUME LoaderOK, LoaderOK', WalkInv, [Next]_vars PROVE WalkInv'
  OBVIOUS
<1>1. /\ mapped \subseteq Nat /\ drivers \subseteq mapped
      /\ \A l \in DOMAIN lines : lines[l] \in Lines /\ lines[l].page \in mapped
      /\ \E n \in Nat : DOMAIN lines = 1 .. n
      /\ at \in Loading \cup {"kernel"} => lines = <<>> /\ drivers = {} /\ place.entry = 1
      /\ mcfg \in 0 .. Len(machine.xsdt)
      /\ place \in [entry : Nat \ {0}, bus : Nat, device : 0 .. Devices,
                    function : 0 .. Functions]
  BY DEF WalkInv, LinesOK, PlaceOK
<1>2. CASE LoaderNext /\ UNCHANGED walk
  <2>1. /\ machine' = machine /\ at \in Loading
        /\ at' \in Loading \cup {"kernel", "returned", "astray"}
    <3> QED BY <1>2
      DEF LoaderNext, LoadFile, GetFileInfo, LoadHeader, LoadSegment, EndOfSegments, LoadFont, FindDisplay,
          MeasureMap, AllocateMap, FetchMap, SearchTables, ExitBootServices,
          FirmwareActs, Loading
  <2>2. UNCHANGED <<mcfg, place, mapped, lines, drivers>>
    BY <1>2 DEF walk
  <2>3. Lines' = Lines
    BY <2>1 DEF Lines, Header
  <2>4. PlaceOK' /\ at' \notin Walks \cup {"done"}
    BY <1>1, <2>1, <2>2 DEF PlaceOK, Walks, Loading
  <2> HIDE DEF Lines
  <2> QED BY <1>1, <2>1, <2>2, <2>3, <2>4 DEF WalkInv, LinesOK
<1>3. CASE PrepareAcpi
  <2>1. /\ at = "kernel" /\ UNCHANGED <<machine, rsdp, place, mapped, lines, drivers>>
        /\ mcfg' = IF map # {} /\ rsdp = "ACPI_20" THEN find_table("MCFG") ELSE 0
        /\ at' = IF mcfg' = 0 THEN "astray" ELSE "entry"
    BY <1>3 DEF PrepareAcpi
  <2>2. /\ mcfg' \in 0 .. Len(machine.xsdt)
        /\ mcfg' # 0 => machine.xsdt[mcfg'].signature = "MCFG" /\ rsdp = "ACPI_20"
    BY <2>1, FindsTable, TablesTypes
  <2>3. PlaceOK'
    BY <1>1, <2>1, <2>2 DEF PlaceOK, Walks
  <2>4. lines' = <<>> /\ drivers' = {} /\ PrintedPages' = {} /\ Lines' = Lines
    <3>1. lines' = <<>> /\ drivers' = {}
      BY <1>1, <2>1
    <3>2. DOMAIN lines' = {}
      BY <3>1
    <3> QED BY <2>1, <3>1, <3>2 DEF PrintedPages, Lines, Header
  <2>5. IsFiniteSet(PrintedPages') /\ Len(lines') = Cardinality(PrintedPages')
    BY <2>4, FS_EmptySet
  <2>6. CASE at' = "entry"
    <3>1. mcfg' \in DOMAIN machine'.xsdt
      BY <2>1, <2>2, <2>6, TablesTypes
    <3>2. \A i \in DOMAIN Entries' : i \in Nat \ {0}
      <4>1. (mcfg \in DOMAIN machine.xsdt)' =>
                (/\ Len(Entries) \in Nat /\ DOMAIN Entries = 1 .. Len(Entries))'
        BY TablesTypes
      <4> QED BY <3>1, <4>1
    <3>3. place'.entry = 1
      BY <1>1, <2>1
    <3>4. \A i \in DOMAIN Entries' : \A b, d, f : ~Passed(i, b, d, f)'
      BY <2>6, <3>2, <3>3 DEF Passed
    <3> HIDE DEF Passed, Lines, PrintedPages
    <3> QED BY <1>1, <2>1, <2>3, <2>4, <2>5, <2>6, <3>4 DEF WalkInv, LinesOK, Loading, Walks
  <2>7. CASE at' = "astray"
    <3> HIDE DEF Lines, PrintedPages
    <3> QED BY <1>1, <2>1, <2>3, <2>4, <2>7 DEF WalkInv, LinesOK, Loading, Walks
  <2> QED BY <2>1, <2>6, <2>7
<1>4. CASE EnumeratePci \/ EnumerateBus \/ EnumerateDevice \/ EndOfFunctions
  BY <1>4, LoopStep
<1>5. CASE EnumerateFunction
  BY <1>5, FunctionStep
<1>6. CASE StrayName
  <2>1. /\ at' = "astray" /\ UNCHANGED <<machine, mcfg, place, lines, drivers>>
        /\ mapped' = mapped \cup {FunctionPage} /\ InFunctions
    BY <1>6 DEF StrayName, Walking, Silent, Go
  <2>2. FunctionPage \in Nat
    BY <2>1, NotPrinted
  <2>3. Lines' = Lines
    BY <2>1 DEF Lines, Header
  <2>4. PlaceOK'
    BY <1>1, <2>1 DEF PlaceOK, Walks
  <2> HIDE DEF Lines, FunctionPage
  <2> QED BY <1>1, <2>1, <2>2, <2>3, <2>4 DEF WalkInv, LinesOK, Loading, Walks
<1>7. CASE UNCHANGED vars
  <2>1. UNCHANGED <<machine, at, rsdp, mcfg, place, mapped, lines, drivers>>
    BY <1>7 DEF vars, loader, walk
  <2>2. /\ Entries' = Entries /\ PrintedPages' = PrintedPages /\ Lines' = Lines
        /\ (\A p : Header(p)' = Header(p)) /\ (\A p : Valid(p)' <=> Valid(p)) /\ Entry' = Entry
    BY <2>1 DEF Entries, PrintedPages, Lines, Header, Valid, Entry
  <2>3. PlaceOK'
    BY <2>1, <2>2 DEF PlaceOK, WalkInv
  <2>4. \A i, b, d, f : /\ PageAt(i, b, d, f)' = PageAt(i, b, d, f)
                        /\ Reached(i, b, d, f)' <=> Reached(i, b, d, f)
                        /\ Passed(i, b, d, f)' <=> Passed(i, b, d, f)
    BY <2>1, <2>2 DEF PageAt, Reached, Passed
  <2>5. {p \in PrintedPages' : IsAHCI(Header(p)')} = {p \in PrintedPages : IsAHCI(Header(p))}
    BY <2>2
  <2> HIDE DEF PageAt, Reached, Passed, Lines, PrintedPages
  <2>6. \A p : Told(p)' <=> Told(p)
    BY <2>2, <2>4 DEF Told
  <2>7. LinesOK'
    <3> HIDE DEF Told
    <3> QED BY <2>1, <2>2, <2>4, <2>5, <2>6 DEF LinesOK, WalkInv
  <2> QED BY <2>3, <2>7 DEF WalkInv
<1> QED BY <1>2, <1>3, <1>4, <1>5, <1>6, <1>7 DEF Next, Discover

LEMMA Invariant == Spec => [](LoaderOK /\ WalkInv)
PROOF
<1>1. Init => LoaderOK /\ WalkInv
  BY LoaderInitOK, WalkInitOK DEF Init
<1> QED BY <1>1, LoaderKeepsTypes, WalkNext, PTL DEF Spec

\* Wherever the loader and the kernel are, the loops' variables are in their
\* ranges and what was printed or given a driver was mapped before.
THEOREM TypeCorrect == Spec => []TypeOK
PROOF
<1>1. LoaderOK /\ WalkInv => TypeOK
  BY DEF LoaderOK, WalkInv, PlaceOK, LinesOK, TypeOK, Loading, Walks
<1> QED BY <1>1, Invariant, PTL

LEMMA NamesAreOwn == \A h : OwnNames(Names(h), h)
PROOF
<1> SUFFICES ASSUME NEW h, h.class \notin {1, 3} PROVE OwnNames(Names(h), h)
  BY DEF OwnNames
<1>1. /\ Names(h)[4] = get_subclass_name(h.class, h.subclass)
      /\ Names(h)[5] = get_program_interface_name(h.class, h.subclass, h.interface)
  BY DEF Names
<1>2. get_subclass_name(h.class, h.subclass)[1] \in {"to_hstring"} \cup
         (CASE h.class = 6 -> {"bridge"} [] h.class = 12 -> {"serial"} [] OTHER -> {})
  BY DEF get_subclass_name, bridge_device_subclass_name,
         serial_bus_controller_subclass_name, Named
<1>3. get_program_interface_name(h.class, h.subclass, h.interface)[1]
         \in {"to_hstring"} \cup (IF h.class = 12 THEN {"interface 12"} ELSE {})
  <2> DEFINE fits == {i \in Tried(h.class) : /\ Interfaces[i].subclass = h.subclass
                                             /\ h.interface \in Interfaces[i].codes}
  <2>1. get_program_interface_name(h.class, h.subclass, h.interface) =
            IF fits = {} THEN <<"to_hstring", h.interface>>
                         ELSE <<Interfaces[Min(fits)].table, h.interface>>
    BY DEF get_program_interface_name
  <2>2. /\ DOMAIN Interfaces = 1 .. 3 /\ Interfaces[3].table = "interface 12"
        /\ Interfaces[1].class = 1 /\ Interfaces[2].class = 3 /\ Interfaces[3].class = 12
    <3>1. DOMAIN Interfaces = 1 .. 3
      BY DEF Interfaces
    <3>2. Interfaces[1].class = 1
      BY DEF Interfaces
    <3>3. Interfaces[2].class = 3
      BY DEF Interfaces
    <3>4. Interfaces[3].class = 12 /\ Interfaces[3].table = "interface 12"
      BY DEF Interfaces
    <3> QED BY <3>1, <3>2, <3>3, <3>4
  <2>3. \A i \in Tried(h.class) : i = 3 /\ h.class = 12
    <3> SUFFICES ASSUME NEW i \in Tried(h.class) PROVE i = 3 /\ h.class = 12
      OBVIOUS
    <3>1. PICK c \in 1 .. i : Interfaces[c].class = h.class
      BY DEF Tried
    <3>2. i \in 1 .. 3
      BY <2>2 DEF Tried
    <3>3. c \in 1 .. 3 /\ c <= i
      BY <3>2
    <3>4. c = 1 \/ c = 2 \/ c = 3
      BY <3>2, <3>3
    <3>5. c = 3
      BY <2>2, <3>1, <3>4, Zenon
    <3>6. i = 3
      BY <3>2, <3>3, <3>5
    <3>7. h.class = 12
      BY <2>2, <3>1, <3>5, Zenon
    <3> QED BY <3>6, <3>7
  <2> HIDE DEF fits
  <2>4. CASE fits = {}
    BY <2>1, <2>4
  <2>5. CASE fits # {}
    <3>1. fits = {3} /\ h.class = 12
      BY <2>3, <2>5 DEF fits
    <3>2. Min(fits) = 3
      <4>1. \E x \in fits : \A y \in fits : x <= y
        BY <3>1
      <4>2. Min(fits) \in fits
        BY <4>1, Zenon DEF Min
      <4> QED BY <3>1, <4>2
    <3>3. get_program_interface_name(h.class, h.subclass, h.interface)[1] = "interface 12"
      <4>1. get_program_interface_name(h.class, h.subclass, h.interface) =
                <<Interfaces[Min(fits)].table, h.interface>>
        BY <2>1, <2>5, Zenon
      <4>2. Interfaces[Min(fits)].table = "interface 12"
        BY <2>2, <3>2, Zenon
      <4>3. \A x, y : <<x, y>>[1] = x
        OBVIOUS
      <4> QED BY <4>1, <4>2, <4>3, Zenon
    <3> QED BY <3>1, <3>3
  <2> QED BY <2>4, <2>5
<1> QED BY <1>1, <1>2, <1>3 DEF OwnNames

\* A kernel that comes to the end of the enumeration was given a table that
\* passed for the ACPI 2.0 one, and has printed a line for every function it is
\* able to reach, none of them twice, made a driver for each AHCI controller
\* among them and, but for classes 1 and 3, taken no name from the table of
\* another class: however many entries, buses, devices and functions there are.
THEOREM EveryFunctionOnce == ASSUME EntriesApart PROVE Spec => []EnumeratesReachable
PROOF
<1>1. ASSUME LoaderOK, WalkInv, at = "done" PROVE EnumeratesReachable
  <2>1. /\ rsdp = "ACPI_20" /\ machine.xsdt[mcfg].signature = "MCFG"
        /\ mcfg \in DOMAIN machine.xsdt /\ place.entry > Len(Entries)
        /\ Len(Entries) \in Nat /\ DOMAIN Entries = 1 .. Len(Entries)
        /\ place.entry \in Nat
    BY <1>1, TablesTypes DEF WalkInv, PlaceOK
  <2>2. \A i \in DOMAIN Entries : \A b, d, f : Passed(i, b, d, f)
    BY <2>1 DEF Passed
  <2>3. \A p : Told(p) <=> p \in Reachable
    <3>1. ASSUME NEW i \in DOMAIN Entries, NEW b \in Buses(Entries[i]), NEW p
          PROVE  p \in OnBus(Entries[i], b) <=>
                     \E d \in 0 .. Devices - 1, f \in 0 .. Functions - 1 :
                         Reached(i, b, d, f) /\ p = PageAt(i, b, d, f)
      <4> DEFINE D == (0 .. Devices - 1) \X (0 .. Functions - 1)
      <4>1. OnBus(Entries[i], b) = {PageAt(i, b, q[1], q[2]) : q \in
                                        {q \in D : Reached(i, b, q[1], q[2])}}
        BY DEF OnBus, Reached, PageAt
      <4>2. p \in OnBus(Entries[i], b) <=>
                \E q \in D : Reached(i, b, q[1], q[2]) /\ p = PageAt(i, b, q[1], q[2])
        <5> HIDE DEF Reached, PageAt, D
        <5> QED BY <4>1
      <4>3. \A d \in 0 .. Devices - 1, f \in 0 .. Functions - 1 :
                <<d, f>> \in D /\ <<d, f>>[1] = d /\ <<d, f>>[2] = f
        OBVIOUS
      <4>4. \A q \in D : q[1] \in 0 .. Devices - 1 /\ q[2] \in 0 .. Functions - 1
        OBVIOUS
      <4> HIDE DEF Reached, PageAt, D
      <4>5. ASSUME NEW q \in D, Reached(i, b, q[1], q[2]), p = PageAt(i, b, q[1], q[2])
            PROVE  \E d \in 0 .. Devices - 1, f \in 0 .. Functions - 1 :
                       Reached(i, b, d, f) /\ p = PageAt(i, b, d, f)
        BY <4>4, <4>5
      <4>6. ASSUME NEW d \in 0 .. Devices - 1, NEW f \in 0 .. Functions - 1,
                   Reached(i, b, d, f), p = PageAt(i, b, d, f)
            PROVE  \E q \in D : Reached(i, b, q[1], q[2]) /\ p = PageAt(i, b, q[1], q[2])
        <5>1. /\ <<d, f>> \in D /\ Reached(i, b, <<d, f>>[1], <<d, f>>[2])
              /\ p = PageAt(i, b, <<d, f>>[1], <<d, f>>[2])
          BY <4>3, <4>6
        <5> QED BY <5>1, Zenon
      <4> QED BY <4>2, <4>5, <4>6
    <3> HIDE DEF OnBus, Reached, PageAt, Buses
    <3> QED BY <2>2, <3>1 DEF Told, Reachable
  <2>4. PrintedPages = Reachable
    <3>1. \A p : Told(p) => p \in PrintedPages
      BY <1>1 DEF WalkInv, LinesOK, Told
    <3>2. \A p \in PrintedPages : Told(p)
      BY <1>1 DEF WalkInv, LinesOK
    <3> HIDE DEF Told, PrintedPages, Reachable
    <3> QED BY <2>3, <3>1, <3>2
  <2>5. /\ Len(lines) = Cardinality(PrintedPages)
        /\ drivers = {p \in PrintedPages : IsAHCI(Header(p))}
        /\ \A l \in DOMAIN lines : lines[l] \in Lines
    BY <1>1 DEF WalkInv, LinesOK
  <2>6. \A l \in DOMAIN lines : OwnNames(lines[l].names, Header(lines[l].page))
    <3>1. \A l \in Lines : l.names = Names(Header(l.page))
      BY DEF Lines
    <3> QED BY <2>5, <3>1, NamesAreOwn
  <2> QED BY <2>1, <2>4, <2>5, <2>6 DEF EnumeratesReachable, PrintedPages
<1>2. LoaderOK /\ WalkInv => EnumeratesReachable
  BY <1>1 DEF EnumeratesReachable
<1> QED BY <1>2, Invariant, PTL
=============================================================================
