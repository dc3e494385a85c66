----------------------------- MODULE MousePackets -----------------------------
(***************************************************************************)
(* The PS/2 mouse handler of kernel/src/userinput/mouse.cpp as operators   *)
(* on the record that holds its state:                                     *)
(*                                                                         *)
(*   cycle      mouse_cycle, the byte of the packet that comes next        *)
(*   packet     mouse_packet, the three bytes in use                       *)
(*   ready      mouse_packet_ready                                         *)
(*   skip       the static of handle_ps2_mouse                             *)
(*   position   MousePosition                                              *)
(*   old        old_mouse_position, where the pointer is drawn             *)
(*                                                                         *)
(* A byte is a number in 0 .. 255.                                         *)
(***************************************************************************)
EXTENDS Integers, Sequences

CONSTANTS XMax, YMax   \* the last column and row of the frame buffer

ASSUME EdgeAssumption == XMax \in Nat /\ YMax \in Nat

Bytes == 0 .. 255
Has(byte, mask) == (byte \div mask) % 2 = 1

\* The masks of mouse.h, and the bit that is 1 in the first byte of a packet.
PS2_X_SIGN == 16
PS2_Y_SIGN == 32
PS2_X_OVERFLOW == 64
PS2_Y_OVERFLOW == 128
PS2_FIRST_BYTE == 8

Origin == [X |-> 0, Y |-> 0]
PowerOn ==
    [cycle |-> 0, packet |-> <<0, 0, 0>>, ready |-> FALSE, skip |-> TRUE,
     position |-> Origin, old |-> Origin]

-----------------------------------------------------------------------------
\* A bound that forgets the far edge.
BoundedBelow(z, max) == IF z < 0 THEN 0 ELSE z

Bounded(z, max) == IF z < 0 THEN 0 ELSE IF z > max THEN max ELSE z

\* The magnitude of a negative byte without the 256 - ... of the code.
MagnitudeRaw(byte, negative) == byte

\* A negative movement is turned into its magnitude in place, in a uint8_t:
\* 256 - 0 is stored as 0.
Magnitude(byte, negative) == IF negative THEN (256 - byte) % 256 ELSE byte

Movement(byte, negative, overflow) ==
    LET far == Magnitude(byte, negative) + (IF overflow THEN 255 ELSE 0)
    IN  IF negative THEN 0 - far ELSE far

\* Where process_mouse_packet puts the pointer: y grows downwards on the
\* screen and upwards in the packet.
Target(m) ==
    LET flags == m.packet[1]
        dx == Movement(m.packet[2], Has(flags, PS2_X_SIGN), Has(flags, PS2_X_OVERFLOW))
        dy == Movement(m.packet[3], Has(flags, PS2_Y_SIGN), Has(flags, PS2_Y_OVERFLOW))
    IN  [X |-> Bounded(m.position.X + dx, XMax), Y |-> Bounded(m.position.Y - dy, YMax)]

\* process_mouse_packet (the drawing apart): a ready packet moves the pointer.
Process(m) ==
    IF ~m.ready
    THEN m
    ELSE [m EXCEPT !.packet =
                       <<@[1], Magnitude(@[2], Has(@[1], PS2_X_SIGN)),
                               Magnitude(@[3], Has(@[1], PS2_Y_SIGN))>>,
                   !.position = Target(m),
                   !.old = Target(m),
                   !.ready = FALSE]

\* handle_ps2_mouse that takes any byte for the first of a packet.
HandleMouseUnchecked(m, data) ==
    LET p == Process(m)
    IN  IF p.skip
        THEN [p EXCEPT !.skip = FALSE]
        ELSE [p EXCEPT !.packet[p.cycle + 1] = data,
                       !.cycle = (@ + 1) % 3,
                       !.ready = p.cycle = 2]

\* handle_ps2_mouse: a packet completed by the byte before is processed
\* first, so ready is FALSE when the byte itself is looked at.  The first
\* byte ever is skipped; a byte that cannot begin a packet is dropped.
HandleMouse(m, data) ==
    LET p == Process(m)
    IN  IF p.skip
        THEN [p EXCEPT !.skip = FALSE]
        ELSE IF p.cycle = 0 /\ ~Has(data, PS2_FIRST_BYTE)
        THEN p
        ELSE [p EXCEPT !.packet[p.cycle + 1] = data,
                       !.cycle = (@ + 1) % 3,
                       !.ready = p.cycle = 2]
=============================================================================
