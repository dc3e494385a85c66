------------------------------ MODULE FramePool ------------------------------
(***************************************************************************)
(* What the page frame allocator promises its callers: a pool of frames,   *)
(* filled once at boot, that hands out its lowest free frame, refuses only *)
(* when no frame is free, and takes frames back.                           *)
(***************************************************************************)
EXTENDS Integers

CONSTANT NULL

VARIABLES
    ready,     \* the pool has been filled
    free,      \* frames that may be handed out
    held,      \* frames handed out and not returned
    answer     \* what the last request returned

vars == <<ready, free, held, answer>>

Init == ready = FALSE /\ free = {} /\ held = {} /\ answer = NULL

Fill ==
    /\ ~ready
    /\ ready' = TRUE
    /\ free' \in SUBSET Nat
    /\ UNCHANGED <<held, answer>>

Grant ==
    /\ ready
    /\ \E p \in free :
         /\ \A q \in free : p <= q
         /\ free' = free \ {p}
         /\ held' = held \cup {p}
         /\ answer' = p
    /\ UNCHANGED ready

Refuse ==
    /\ ready
    /\ free = {}
    /\ answer' = NULL
    /\ UNCHANGED <<ready, free, held>>

\* Frames the pool must not hand out from now on (the kernel image, the
\* frame buffer).
Withdraw ==
    /\ ready
    /\ free' \in SUBSET free
    /\ UNCHANGED <<ready, held, answer>>

Return ==
    /\ ready
    /\ \E P \in SUBSET held :
         /\ held' = held \ P
         /\ free' = free \cup P
    /\ UNCHANGED <<ready, answer>>

Next == Fill \/ Grant \/ Refuse \/ Withdraw \/ Return

Spec == Init /\ [][Next]_vars
=============================================================================
