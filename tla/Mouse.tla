-------------------------------- MODULE Mouse --------------------------------
(***************************************************************************)
(* The mouse interrupt handler with the mouse it listens to.  The mouse    *)
(* sends packets of three bytes, one interrupt per byte.  While            *)
(* initialize_kernel runs the interrupts are masked, and what the          *)
(* controller holds when they are enabled is the first byte the handler    *)
(* reads: the acknowledgement (0xfa) that init_ps2_mouse has polled        *)
(* already, or, when the mouse was moved meanwhile, the first byte of a    *)
(* packet.                                                                 *)
(***************************************************************************)
EXTENDS MousePackets

CONSTANTS
    Packets,        \* the packets the mouse may send
    FirstPackets    \* those it may send while the handler still skips a byte

Acknowledge == 250
ASSUME PacketAssumption ==
    /\ Packets \subseteq {p \in Bytes \X Bytes \X Bytes : Has(p[1], PS2_FIRST_BYTE)}
    /\ FirstPackets \subseteq Packets

\* What the theorems ask of the mouse.
\* The movements of the first packet hold nothing that could begin one.
QuietFirst ==
    \A p \in FirstPackets :
        ~Has(p[2], PS2_FIRST_BYTE) /\ ~Has(p[3], PS2_FIRST_BYTE)

\* A movement of -256 is not sent (the handler loses it).
NoLongestMove ==
    \A p \in Packets : /\ Has(p[1], PS2_X_SIGN) => p[2] # 0
                       /\ Has(p[1], PS2_Y_SIGN) => p[3] # 0

VARIABLES
    mouse,      \* the handler's state, a record of MousePackets
    stale,      \* the controller still holds the acknowledgement
    sending,    \* the packet in transmission
    sent,       \* how many of its bytes have been handled
    whole,      \* its first byte was not skipped
    last,       \* the last packet of which every byte was handled
    intended    \* where the packets handled as a whole move the pointer

vars == <<mouse, stale, sending, sent, whole, last, intended>>
link == <<sending, sent, whole, last, intended>>

-----------------------------------------------------------------------------
\* What a packet means: 9-bit two's complement movements, the eight bits of
\* the byte below the sign in the first byte; an overflow adds 255 that way.
Signed(byte, negative, overflow) ==
    IF negative
    THEN byte - 256 - (IF overflow THEN 255 ELSE 0)
    ELSE byte + (IF overflow THEN 255 ELSE 0)

Displaced(pos, p) ==
    [X |-> Bounded(pos.X + Signed(p[2], Has(p[1], PS2_X_SIGN),
                                        Has(p[1], PS2_X_OVERFLOW)), XMax),
     Y |-> Bounded(pos.Y - Signed(p[3], Has(p[1], PS2_Y_SIGN),
                                        Has(p[1], PS2_Y_OVERFLOW)), YMax)]

-----------------------------------------------------------------------------
Init ==
    /\ mouse = PowerOn
    /\ stale \in BOOLEAN
    /\ sending = <<>> /\ sent = 0 /\ whole = FALSE
    /\ last = <<>> /\ intended = Origin

\* The byte that is in the controller from before the interrupts.
StaleByte ==
    /\ stale
    /\ mouse' = HandleMouse(mouse, Acknowledge)
    /\ stale' = FALSE
    /\ UNCHANGED link

\* The first byte of a packet.
BeginPacket(p) ==
    /\ ~stale /\ sending = <<>>
    /\ mouse.skip => p \in FirstPackets
    /\ mouse' = HandleMouse(mouse, p[1])
    /\ sending' = p /\ sent' = 1 /\ whole' = ~mouse.skip
    /\ UNCHANGED <<stale, last, intended>>

\* The second byte.
ContinuePacket ==
    /\ sent = 1
    /\ mouse' = HandleMouse(mouse, sending[2])
    /\ sent' = 2
    /\ UNCHANGED <<stale, sending, whole, last, intended>>

\* The third byte.
EndPacket ==
    /\ sent = 2
    /\ mouse' = HandleMouse(mouse, sending[3])
    /\ sending' = <<>> /\ sent' = 0 /\ whole' = FALSE
    /\ IF whole
       THEN last' = sending /\ intended' = Displaced(intended, sending)
       ELSE UNCHANGED <<last, intended>>
    /\ UNCHANGED stale

Next == StaleByte \/ (\E p \in Packets : BeginPacket(p)) \/ ContinuePacket \/ EndPacket
Spec == Init /\ [][Next]_vars

-----------------------------------------------------------------------------
\* The handler's state has its type, and the pointer is in the frame buffer
\* whatever the movements add up to (mouse.cpp, "Bound mouse position").
TypeOK ==
    /\ mouse \in [cycle : 0 .. 2, packet : Bytes \X Bytes \X Bytes,
                  ready : BOOLEAN, skip : BOOLEAN,
                  position : [X : 0 .. XMax, Y : 0 .. YMax],
                  old : [X : 0 .. XMax, Y : 0 .. YMax]]
    /\ stale \in BOOLEAN /\ whole \in BOOLEAN
    /\ sending \in {<<>>} \cup Packets /\ sent \in 0 .. 2
    /\ last \in {<<>>} \cup Packets
    /\ intended \in [X : 0 .. XMax, Y : 0 .. YMax]

\* The three bytes the handler puts together are those of one packet, never
\* the end of one and the beginning of the next (mouse.cpp, "4th bit must
\* always be 1, otherwise we are out of sync").
PacketsGenuine == mouse.ready => mouse.packet = last

\* The pointer is where the packets handled so far move it, but for the last
\* one: handle_ps2_mouse processes a packet with the first byte of the next.
MovesApplied ==
    intended = IF mouse.ready THEN Displaced(mouse.position, mouse.packet)
                              ELSE mouse.position
=============================================================================
