----------------------------- MODULE DeviceNames ------------------------------
(***************************************************************************)
(* The names pci_descriptors.cpp gives to the codes in a header: an entry  *)
(* of a table, as <<table, code>>, or the code in hexadecimal.             *)
(***************************************************************************)
EXTENDS Integers, Sequences, FiniteSetsExt

Named(table, codes, code) ==
    IF code \in codes THEN <<table, code>> ELSE <<"to_hstring", code>>

Intel == \h8086
get_vendor_name(vendor) == Named("vendor", {Intel, \h1022, \h10DE}, vendor)
get_device_name(vendor, device) ==
    Named("Intel", IF vendor = Intel THEN {\h29C0, \h2918, \h2922, \h2930} ELSE {}, device)

\* The array of the classes is indexed without a test.
DeviceClasses(class) == IF class \in 0 .. 19 THEN <<"class", class>> ELSE <<"behind", class>>

mass_storage_controller_subclass_name(code) == Named("storage", 0 .. 8 \cup {128}, code)
serial_bus_controller_subclass_name(code) == Named("serial", 0 .. 9 \cup {128}, code)
bridge_device_subclass_name(code) == Named("bridge", 0 .. 10 \cup {128}, code)

\* The case of display controllers falls through to bridges.
get_subclass_name(class, code) ==
    CASE class = 1 -> mass_storage_controller_subclass_name(code)
      [] class = 3 /\ code = 0 -> <<"display", 0>>
      [] class = 6 \/ (class = 3 /\ code # 0) -> bridge_device_subclass_name(code)
      [] class = 12 -> serial_bus_controller_subclass_name(code)
      [] OTHER -> <<"to_hstring", code>>

\* The cases of the classes fall through to those of the classes below.
Interfaces ==
  << [class |-> 1, subclass |-> 6, codes |-> 0 .. 2, table |-> "interface 1"],
     [class |-> 3, subclass |-> 0, codes |-> 0 .. 1, table |-> "interface 3"],
     [class |-> 12, subclass |-> 3, codes |-> {0, 16, 32, 48, 128, 254}, table |-> "interface 12"] >>
Tried(class) == {i \in DOMAIN Interfaces :
                     \E c \in 1 .. i : Interfaces[c].class = class}

get_program_interface_name(class, subclass, code) ==
    LET fits == {i \in Tried(class) : /\ Interfaces[i].subclass = subclass
                                      /\ code \in Interfaces[i].codes}
    IN  IF fits = {} THEN <<"to_hstring", code>>
                     ELSE <<Interfaces[Min(fits)].table, code>>
=============================================================================
