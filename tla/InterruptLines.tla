---------------------------- MODULE InterruptLines ----------------------------
(***************************************************************************)
(* What the interrupt controllers, the handlers and the ends of interrupt  *)
(* amount to: a set of lines that wait, of which the one with the lowest   *)
(* number is served, one at a time and to its end.                         *)
(***************************************************************************)
EXTENDS Integers

CONSTANT Lines     \* natural numbers

VARIABLES pending,   \* the lines that wait
          serving    \* the line being served, a set of at most one

Init == pending \subseteq Lines /\ serving = {}

\* A device raises a line; a request is withdrawn; the controller is reset.
Raise(l) == pending' = pending \cup {l} /\ UNCHANGED serving
Withdraw(l) == pending' = pending \ {l} /\ UNCHANGED serving
Reset == serving = {} /\ pending' = {} /\ UNCHANGED serving

Serve(l) ==
    /\ serving = {}
    /\ l \in pending /\ \A k \in pending : l <= k
    /\ serving' = {l} /\ pending' = pending \ {l}
Finish == serving # {} /\ serving' = {} /\ UNCHANGED pending

Next == (\E l \in Lines : Raise(l) \/ Withdraw(l) \/ Serve(l)) \/ Reset \/ Finish
Spec == Init /\ [][Next]_<<pending, serving>>
=============================================================================
