------------------------------ MODULE Discovery -------------------------------
(***************************************************************************)
(* prepare_acpi and the enumeration of the PCI devices (io/acpi.cpp,       *)
(* io/pci.cpp, ahci/ahci.cpp) on the machine the boot loader hands over.   *)
(* Beside what the loader finds, a machine has                             *)
(*                                                                         *)
(*   xsdt     the tables of the XSDT: their signature and, for an MCFG,    *)
(*            its entries: a base page and the buses, from start to end    *)
(*   config   the headers in the configuration space, by page; a page      *)
(*            without one reads as all ones                                *)
(*                                                                         *)
(* A bus has Devices devices of Functions functions of a page each.        *)
(***************************************************************************)
EXTENDS BootLoader, DeviceNames

CONSTANTS Devices, Functions
ASSUME ShapeAssumption == Devices \in Nat \ {0} /\ Functions \in Nat \ {0}
ASSUME TablesAssumption ==
    \A m \in Machines :
        m.xsdt \in Seq([signature : STRING,
                       entries : Seq([base : Nat, start : Nat, end : Nat])])

VARIABLES
    mcfg,       \* which table of the XSDT is the MCFG, or 0
    place,      \* the loops' variables: entry, bus, device, function
    mapped,     \* the pages mapped on the way
    lines,      \* what was printed: a page's names
    drivers     \* the pages of the AHCI drivers created

walk == <<mcfg, place, mapped, lines, drivers>>
vars == <<loader, walk>>

Init == /\ LoaderInit
        /\ mcfg = 0 /\ mapped = {} /\ lines = <<>> /\ drivers = {}
        /\ place = [entry |-> 1, bus |-> 0, device |-> 0, function |-> 0]

-----------------------------------------------------------------------------
find_table(signature) ==
    LET found == {t \in DOMAIN machine.xsdt : machine.xsdt[t].signature = signature}
    IN  IF found = {} THEN 0 ELSE Min(found)

\* Neither the memory map nor the RSDP nor the MCFG is looked at before it is
\* used.
PrepareAcpi ==
    /\ at = "kernel"
    /\ mcfg' = IF map # {} /\ rsdp = "ACPI_20" THEN find_table("MCFG") ELSE 0
    /\ at' = IF mcfg' = 0 THEN "astray" ELSE "entry"
    /\ UNCHANGED <<machine, index, memory, firmware, rsdp, place, mapped, lines, drivers>>

Entries == machine.xsdt[mcfg].entries
Entry == Entries[place.entry]

\* The page of a function, and the header there.
Page(entry, bus, device, function) ==
    entry.base + (bus * Devices + device) * Functions + function
Header(page) == IF page \in DOMAIN machine.config THEN machine.config[page]
                ELSE [vendor |-> \hFFFF, device |-> \hFFFF, class |-> 255,
                      subclass |-> 255, interface |-> 255]
Valid(page) == Header(page).device \notin {0, \hFFFF}

\* The walk goes on to the next value of a loop, or into or out of one.
Go(to, where) == at' = to /\ place' = where
Walking == UNCHANGED <<machine, index, memory, firmware, rsdp, mcfg>>
Silent == UNCHANGED <<lines, drivers>>

EnumeratePci ==
    /\ at = "entry"
    /\ IF place.entry <= Len(Entries)
       THEN Go("bus", [place EXCEPT !.bus = Entry.start])
       ELSE Go("done", place)
    /\ Walking /\ Silent /\ UNCHANGED mapped

EnumerateBus ==
    /\ at = "bus"
    /\ IF place.bus < Entry.end
       THEN LET page == Page(Entry, place.bus, 0, 0) IN
            /\ mapped' = mapped \cup {page}
            /\ IF Valid(page) THEN Go("device", [place EXCEPT !.device = 0])
                              ELSE Go("bus", [place EXCEPT !.bus = @ + 1])
       ELSE /\ Go("entry", [place EXCEPT !.entry = @ + 1])
            /\ UNCHANGED mapped
    /\ Walking /\ Silent

EnumerateDevice ==
    /\ at = "device"
    /\ IF place.device < Devices
       THEN LET page == Page(Entry, place.bus, place.device, 0) IN
            /\ mapped' = mapped \cup {page}
            /\ IF Valid(page) THEN Go("function", [place EXCEPT !.function = 0])
                              ELSE Go("device", [place EXCEPT !.device = @ + 1])
       ELSE /\ Go("bus", [place EXCEPT !.bus = @ + 1])
            /\ UNCHANGED mapped
    /\ Walking /\ Silent

-----------------------------------------------------------------------------
Names(h) == << get_vendor_name(h.vendor), get_device_name(h.vendor, h.device),
               DeviceClasses(h.class), get_subclass_name(h.class, h.subclass),
               get_program_interface_name(h.class, h.subclass, h.interface) >>
IsAHCI(h) == h.class = 1 /\ h.subclass = 6 /\ h.interface = 1

NextFunction == [place EXCEPT !.function = @ + 1]
FunctionPage == Page(Entry, place.bus, place.device, place.function)
InFunctions == at = "function" /\ place.function < Functions

Describe(page, header) ==
    /\ lines' = Append(lines, [page |-> page, names |-> Names(header)])
    /\ drivers' = IF IsAHCI(header) THEN drivers \cup {page} ELSE drivers

\* An enumeration that takes the device's page to be mapped already.
EnumerateFunctionUnmapped ==
    /\ InFunctions
    /\ IF Valid(FunctionPage) THEN Describe(FunctionPage, Header(FunctionPage)) ELSE Silent
    /\ Go("function", NextFunction)
    /\ Walking /\ UNCHANGED mapped

\* An enumeration that takes the functions of a device to be without gaps.
EnumerateFunctionToGap ==
    /\ InFunctions
    /\ mapped' = mapped \cup {FunctionPage}
    /\ IF Valid(FunctionPage)
       THEN Describe(FunctionPage, Header(FunctionPage)) /\ Go("function", NextFunction)
       ELSE Silent /\ Go("function", [place EXCEPT !.function = Functions])
    /\ Walking

EnumerateFunction ==
    /\ InFunctions
    /\ mapped' = mapped \cup {FunctionPage}
    /\ IF Valid(FunctionPage) THEN Describe(FunctionPage, Header(FunctionPage)) ELSE Silent
    /\ Go("function", NextFunction)
    /\ Walking

\* The name of a class behind the array need not be a string at all.
StrayName ==
    /\ InFunctions
    /\ Valid(FunctionPage) /\ DeviceClasses(Header(FunctionPage).class)[1] = "behind"
    /\ mapped' = mapped \cup {FunctionPage}
    /\ Go("astray", place)
    /\ Walking /\ Silent

EndOfFunctions ==
    /\ at = "function" /\ place.function = Functions
    /\ Go("device", [place EXCEPT !.device = @ + 1])
    /\ Walking /\ Silent /\ UNCHANGED mapped

Discover == \/ PrepareAcpi \/ EnumeratePci \/ EnumerateBus \/ EnumerateDevice
            \/ EnumerateFunction \/ StrayName \/ EndOfFunctions
Next == (LoaderNext /\ UNCHANGED walk) \/ Discover
Spec == Init /\ [][Next]_vars

-----------------------------------------------------------------------------
TypeOK ==
    /\ at \in {"file", "info", "header", "segment", "font", "display", "measure",
              "buffer", "fetch", "tables", "kernel", "entry", "bus", "device", "function",
              "done", "returned", "astray"}
    /\ DOMAIN memory = 0 .. Units - 1
    /\ size \in Nat /\ needed \in Nat /\ current \in BOOLEAN /\ exited \in BOOLEAN
    /\ mcfg \in 0 .. Len(machine.xsdt)
    /\ mapped \subseteq Nat /\ drivers \subseteq mapped
    /\ \A l \in DOMAIN lines : lines[l].page \in mapped
    /\ (at \in {"bus", "device", "function"} =>
           /\ place.entry \in DOMAIN Entries
           /\ place.device \in 0 .. Devices /\ place.function \in 0 .. Functions)

(***************************************************************************)
(* A kernel that comes to an end of the enumeration has found the MCFG and *)
(* printed a line for every function it is able to reach, and no line      *)
(* twice: those of the buses before the last one of an entry of which      *)
(* device 0 has a function 0, on the devices that have a function 0.  It   *)
(* has a driver for the AHCI controllers among them, and took the names of *)
(* subclass and interface from the tables of the function's own class, or  *)
(* printed the number.  Of classes 1 and 3, whose cases fall through to    *)
(* the tables of other classes, nothing is said.                           *)
(***************************************************************************)
Buses(e) == {b \in e.start .. e.end : b # e.end}
OnBus(e, b) ==
    {Page(e, b, df[1], df[2]) : df \in
        {df \in (0 .. Devices - 1) \X (0 .. Functions - 1) :
            \A p \in {Page(e, b, 0, 0), Page(e, b, df[1], 0), Page(e, b, df[1], df[2])} :
                Valid(p)}}
Reachable == UNION {UNION {OnBus(Entries[i], b) : b \in Buses(Entries[i])} :
                        i \in DOMAIN Entries}

OwnNames(names, h) ==
    \/ h.class \in {1, 3}
    \/ /\ names[4][1] \in {"to_hstring"} \cup
             (CASE h.class = 6 -> {"bridge"} [] h.class = 12 -> {"serial"} [] OTHER -> {})
       /\ names[5][1] \in {"to_hstring"} \cup (IF h.class = 12 THEN {"interface 12"} ELSE {})

EnumeratesReachable ==
    at = "done" =>
        /\ rsdp = "ACPI_20" /\ machine.xsdt[mcfg].signature = "MCFG"
        /\ {lines[l].page : l \in DOMAIN lines} = Reachable
        /\ Len(lines) = Cardinality(Reachable)
        /\ drivers = {p \in Reachable : IsAHCI(Header(p))}
        /\ \A l \in DOMAIN lines : OwnNames(lines[l].names, Header(lines[l].page))

(***************************************************************************)
(* What the comment at the search says, "Find the ACPI2.0 table": where    *)
(* the firmware has one, the kernel is given it.                           *)
(***************************************************************************)
FindsAcpi2 ==
    at = "kernel" /\ (\E i \in DOMAIN machine.tables : machine.tables[i].guid = "ACPI_20")
        => rsdp = "ACPI_20"

\* How the firmware lays the configuration space out: the entries of a table
\* name buses that are apart in the memory.
SpaceOf(e) == Page(e, e.start, 0, 0) .. Page(e, e.end, 0, 0) - 1
EntriesApart ==
    \A m \in Machines : \A t \in DOMAIN m.xsdt :
        LET entries == m.xsdt[t].entries IN
        \A i, j \in DOMAIN entries :
            i # j => SpaceOf(entries[i]) \cap SpaceOf(entries[j]) = {}
=============================================================================
