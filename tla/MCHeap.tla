-------------------------------- MODULE MCHeap --------------------------------
(* A heap of pages of 128 bytes, two at first. *)
EXTENDS Heap

\* A client that never frees, as all of the kernel's code is, asking for
\* less than a segment, for an exact fit, and for more than the heap; and
\* one that frees blocks between others, so that holes are used again,
\* split and filled, with blocks of up to a page.
Keeper == [sizes |-> {8, 48, 110, 224, 300}, frees |-> "never"]
Sparse == [sizes |-> {8, 60, 128}, frees |-> "between"]
MCClients == {Keeper, Sparse}

\* Clients with objects of one or two sizes that free them in any order.
MCFreeingClients == {[sizes |-> {8}, frees |-> "any"], [sizes |-> {8, 300}, frees |-> "any"]}

\* The word at NULL is negative, as in the built kernel.
ASSUME InstanceAssumption == NegativeAtNull /\ \A c \in MCClients : Careful(c)
=============================================================================
