----------------------------- MODULE MCDiscovery ------------------------------
(***************************************************************************)
(* A kernel of two segments of one page and two, the second with a .bss,   *)
(* in pages of two units; machines that differ from one where all goes     *)
(* well in their files, the memory map, the memory, the tables, or the     *)
(* devices: every choice of functions on two entries of the configuration  *)
(* space with two devices of four functions to a bus.                       *)
(***************************************************************************)
EXTENDS Discovery, TLC

MCSegments == << [type |-> "PT_LOAD", address |-> 0, filesz |-> 2, memsz |-> 2],
                 [type |-> "PT_LOAD", address |-> 2, filesz |-> 1, memsz |-> 3],
                 [type |-> "PT_GNU_STACK", address |-> 0, filesz |-> 0, memsz |-> 0] >>

Board(vendor, device, class, subclass, interface) ==
    [vendor |-> vendor, device |-> device, class |-> class,
     subclass |-> subclass, interface |-> interface]
HostBridge == Board(\h8086, \h29C0, 6, 0, 0)
Storage == Board(\h8086, \h2922, 1, 6, 1)
Display == Board(\h1234, \h1111, 3, 0, 0)
Network == Board(\h8086, \h10D3, 2, 0, 0)
Usb == Board(\h1022, \h7814, 12, 3, 32)
Unnamed == Board(\h10DE, 0, 3, 2, 0)
Scsi == Board(\h1022, 7, 1, 0, 0)
Processor == Board(\h1022, 9, 64, 0, 0)

Table(g, t) == [guid |-> g, text |-> t]
Acpi1 == Table("ACPI", "R")
Acpi2 == Table("ACPI_20", "R")
Other == Table("SMBIOS", "_")

Mcfg(entries) == [signature |-> "MCFG", entries |-> entries]
Facp == [signature |-> "FACP", entries |-> <<>>]
MCEntry(base, start, end) == [base |-> base, start |-> start, end |-> end]

Usual == [kernel |-> "good", font |-> "good", display |-> "good",
          large |-> FALSE, vital |-> {},
          grows |-> FALSE, restless |-> FALSE, stack |-> 0, left |-> "garbage",
          taken |-> {}, tables |-> <<Acpi1, Acpi2, Other>>,
          xsdt |-> <<Facp, Mcfg(<<MCEntry(0, 0, 2), MCEntry(80, 1, 2)>>)>>,
          config |-> (0 :> HostBridge @@ 1 :> Display @@ 3 :> Storage
                      @@ 4 :> Network @@ 6 :> Usb @@ 8 :> HostBridge @@ 13 :> Storage
                      @@ 16 :> Network @@ 88 :> Scsi @@ 90 :> Unnamed @@ 92 :> Storage)]
MCMachines ==
    {[Usual EXCEPT !.kernel = k, !.font = f, !.display = d] :
        k \in {"good", "bad", "missing"}, f \in {"good", "bad", "missing"},
        d \in {"good", "missing"}}
    \cup {[Usual EXCEPT !.large = b, !.vital = v] :
        b \in BOOLEAN, v \in SUBSET {"NULL", "stack"}}
    \cup {[Usual EXCEPT !.grows = g, !.restless = r, !.stack = n] :
        g \in BOOLEAN, r \in BOOLEAN, n \in {0, 4, 5, 99}}
    \cup {[Usual EXCEPT !.left = l, !.taken = t] :
        l \in {"zero", "garbage"}, t \in {{}, {1}, {3}}}
    \cup {[Usual EXCEPT !.tables = t] :
        t \in UNION {[1 .. n -> {Acpi1, Acpi2, Other}] : n \in 0 .. 3}}
    \cup {[Usual EXCEPT !.xsdt = x] :
        x \in {<<Facp>>, <<Mcfg(<<MCEntry(0, 0, 0)>>), Facp>>, <<Facp, Mcfg(<<>>)>>}}
    \cup {[Usual EXCEPT !.config = Restrict(Usual.config, pages)] :
        pages \in SUBSET DOMAIN Usual.config}
    \cup {[Usual EXCEPT !.config = 0 :> Processor @@ 1 :> Unnamed @@ 3 :> Usb]}

\* What the theorems suppose of the kernel and of the configuration space.
ASSUME InstanceAssumption == KernelLayout /\ EntriesApart
=============================================================================
