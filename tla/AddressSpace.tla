----------------------------- MODULE AddressSpace -----------------------------
(***************************************************************************)
(* What map_memory promises: a function from virtual to physical pages, in *)
(* which a call sets one point and touches no other.                       *)
(***************************************************************************)
CONSTANTS VirtualPages, PhysicalPages

VARIABLE mapping    \* the pages mapped so far, each with its physical page

Init == mapping = <<>>

\* Page v is mapped, for the first time or anew.  (new and old name the two
\* values of mapping, which an implementation may have to compute.)
Map(v, old, new) ==
    /\ v \in VirtualPages
    /\ new[v] \in PhysicalPages
    /\ DOMAIN new = DOMAIN old \cup {v}
    /\ \A u \in DOMAIN old \ {v} : new[u] = old[u]

Next == \E old \in {mapping}, new \in {mapping'} :
            \E v \in DOMAIN new : Map(v, old, new)

Spec == Init /\ [][Next]_mapping
=============================================================================
