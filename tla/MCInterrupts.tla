----------------------------- MODULE MCInterrupts -----------------------------
(***************************************************************************)
(* A firmware that left requests latched and its own masks and offsets,    *)
(* and a timer of 40 Hz with 4-bit divisors: 15 at first, 4, 5 and the     *)
(* least, 3, for the frequencies 2 (too low for a divisor), 8 and 20.      *)
(***************************************************************************)
EXTENDS Interrupts

MCChip(requests, mask, offset) ==
    [irr |-> requests, isr |-> {}, imr |-> mask, offset |-> offset,
     wiring |-> 0, icw |-> 0]
MCFirmwarePics ==
    {[master |-> MCChip({}, 255, 104), slave |-> MCChip({}, 255, 112)],
     [master |-> MCChip({0, 1, 5}, 184, 8), slave |-> MCChip({4}, 142, 112)]}
MCScanBits == {{"keyboard"}, {"mouse"}}
=============================================================================
