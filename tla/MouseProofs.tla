------------------------------ MODULE MouseProofs ------------------------------
(***************************************************************************)
(* Theorems about the mouse interrupt handler, for every size of the       *)
(* screen and every set of packets.                                        *)
(***************************************************************************)
EXTENDS Mouse, TLAPS

Packet == Bytes \X Bytes \X Bytes
Place == [X : 0 .. XMax, Y : 0 .. YMax]
State == [cycle : 0 .. 2, packet : Packet, ready : BOOLEAN, skip : BOOLEAN,
          position : Place, old : Place]

-----------------------------------------------------------------------------
\* A packet, byte by byte, and what storing one byte makes of it.
LEMMA PacketBytes ==
    ASSUME NEW t \in Packet
    PROVE  /\ t[1] \in Bytes /\ t[2] \in Bytes /\ t[3] \in Bytes
           /\ t = <<t[1], t[2], t[3]>>
           /\ DOMAIN t = 1 .. 3
BY DEF Packet

LEMMA ByteStored ==
    ASSUME NEW t \in Packet, NEW i \in 0 .. 2, NEW b \in Bytes
    PROVE  [t EXCEPT ![i + 1] = b] \in Packet
PROOF
<1>1. /\ [t EXCEPT ![1] = b] = <<b, t[2], t[3]>>
      /\ [t EXCEPT ![2] = b] = <<t[1], b, t[3]>>
      /\ [t EXCEPT ![3] = b] = <<t[1], t[2], b>>
  BY PacketBytes
<1>2. i = 0 \/ i = 1 \/ i = 2
  OBVIOUS
<1> QED BY <1>1, <1>2, PacketBytes DEF Packet

\* The pointer stays on the screen (Bounded), and what the operators of
\* MousePackets do to the handler's state.
LEMMA BoundedInRange ==
    ASSUME NEW z \in Int, NEW max \in Nat
    PROVE  Bounded(z, max) \in 0 .. max
BY DEF Bounded

LEMMA TargetOnScreen ==
    ASSUME NEW m \in State
    PROVE  Target(m) \in Place
PROOF
<1>1. \A byte \in Bytes : \A negative, overflow \in BOOLEAN :
          Movement(byte, negative, overflow) \in Int
  BY DEF Movement, Magnitude, Bytes
<1>2. m.packet[2] \in Bytes /\ m.packet[3] \in Bytes
  BY PacketBytes DEF State
<1>3. \A byte, mask : Has(byte, mask) \in BOOLEAN
  BY DEF Has
<1>4. m.position.X \in Int /\ m.position.Y \in Int
  BY EdgeAssumption DEF State, Place
<1> DEFINE flags == m.packet[1]
           dx == Movement(m.packet[2], Has(flags, PS2_X_SIGN), Has(flags, PS2_X_OVERFLOW))
           dy == Movement(m.packet[3], Has(flags, PS2_Y_SIGN), Has(flags, PS2_Y_OVERFLOW))
<1>5. dx \in Int /\ dy \in Int
  BY <1>1, <1>2, <1>3
<1>6. Target(m) = [X |-> Bounded(m.position.X + dx, XMax),
                   Y |-> Bounded(m.position.Y - dy, YMax)]
  BY Zenon DEF Target
<1> HIDE DEF dx, dy
<1>7. /\ Bounded(m.position.X + dx, XMax) \in 0 .. XMax
      /\ Bounded(m.position.Y - dy, YMax) \in 0 .. YMax
  BY <1>4, <1>5, EdgeAssumption DEF Bounded
<1> QED BY <1>6, <1>7 DEF Place

LEMMA Processed ==
    ASSUME NEW m \in State
    PROVE  LET p == Process(m)
           IN  /\ p \in State
               /\ ~p.ready /\ p.skip = m.skip /\ p.cycle = m.cycle
               /\ p.position = IF m.ready THEN Target(m) ELSE m.position
               /\ ~m.ready => p = m
PROOF
<1>1. m.packet[1] \in Bytes /\ m.packet[2] \in Bytes /\ m.packet[3] \in Bytes
  BY PacketBytes DEF State
<1>2. \A byte \in Bytes : \A negative : Magnitude(byte, negative) \in Bytes
  BY DEF Magnitude, Bytes
<1>3. <<m.packet[1], Magnitude(m.packet[2], Has(m.packet[1], PS2_X_SIGN)),
        Magnitude(m.packet[3], Has(m.packet[1], PS2_Y_SIGN))>> \in Packet
  BY <1>1, <1>2 DEF Packet
<1> QED BY <1>3, TargetOnScreen DEF Process, State

LEMMA Handled ==
    ASSUME NEW m \in State, NEW data \in Bytes
    PROVE  LET h == HandleMouse(m, data)
               p == Process(m)
           IN  /\ h \in State
               /\ ~h.skip /\ h.position = p.position
               /\ m.skip => ~h.ready /\ h.cycle = m.cycle
               /\ ~m.skip /\ m.cycle = 0 /\ ~Has(data, PS2_FIRST_BYTE) =>
                      ~h.ready /\ h.cycle = 0
               /\ ~m.skip /\ (m.cycle # 0 \/ Has(data, PS2_FIRST_BYTE)) =>
                      /\ h.packet = [p.packet EXCEPT ![m.cycle + 1] = data]
                      /\ h.cycle = (m.cycle + 1) % 3
                      /\ h.ready <=> m.cycle = 2
PROOF
<1> DEFINE p == Process(m)
<1>1. /\ p \in State
      /\ ~p.ready /\ p.skip = m.skip /\ p.cycle = m.cycle
  BY Processed
<1>2. HandleMouse(m, data) =
          IF p.skip
          THEN [p EXCEPT !.skip = FALSE]
          ELSE IF p.cycle = 0 /\ ~Has(data, PS2_FIRST_BYTE)
          THEN p
          ELSE [p EXCEPT !.packet = [p.packet EXCEPT ![p.cycle + 1] = data],
                         !.cycle = (p.cycle + 1) % 3,
                         !.ready = (p.cycle = 2)]
  BY <1>1 DEF HandleMouse, State
<1> HIDE DEF p
<1>3. [p.packet EXCEPT ![p.cycle + 1] = data] \in Packet
  BY <1>1, ByteStored DEF State
<1>4. (p.cycle + 1) % 3 \in 0 .. 2 /\ (p.cycle = 2) \in BOOLEAN
  BY <1>1 DEF State
<1> QED BY <1>1, <1>2, <1>3, <1>4 DEF State, p

-----------------------------------------------------------------------------
\* A packet is in transmission or none.
LinkOK == sent = 0 <=> sending = <<>>

(***************************************************************************)
(* The handler and the mouse agree on the packet: as long as a byte is     *)
(* still to be skipped nothing was taken, of a packet whose first byte was *)
(* skipped nothing is taken, and of any other the handler has the bytes    *)
(* that were sent.                                                         *)
(***************************************************************************)
InStep ==
    /\ mouse.skip \/ sent = 0 \/ ~whole =>
           mouse.cycle = 0 /\ (mouse.skip \/ sent # 0 => ~mouse.ready)
    /\ stale => mouse.skip
    /\ mouse.skip => sent = 0
    /\ sent = 0 => ~whole
    /\ sent # 0 /\ ~whole => sending \in FirstPackets
    /\ whole => /\ mouse.cycle = sent /\ ~mouse.ready
                /\ mouse.packet[1] = sending[1]
                /\ sent = 2 => mouse.packet[2] = sending[2]

LEMMA PacketsAreBytes ==
    \A p \in Packets : p \in Packet /\ Has(p[1], PS2_FIRST_BYTE) /\ p # <<>>
PROOF
<1>1. \A p \in Packets : p \in Packet /\ Has(p[1], PS2_FIRST_BYTE)
  BY PacketAssumption DEF Packet
<1>2. <<>> \notin Packet
  BY DEF Packet
<1> QED BY <1>1, <1>2

\* What a packet means keeps the pointer on the screen.
LEMMA DisplacedOnScreen ==
    ASSUME NEW pos \in Place, NEW p \in Packets
    PROVE  Displaced(pos, p) \in Place
PROOF
<1>1. \A byte \in Bytes : \A negative, overflow \in BOOLEAN :
          Signed(byte, negative, overflow) \in Int
  BY DEF Signed, Bytes
<1>2. p[2] \in Bytes /\ p[3] \in Bytes
  BY PacketsAreBytes, PacketBytes
<1>3. \A byte, mask : Has(byte, mask) \in BOOLEAN
  BY DEF Has
<1> DEFINE dx == Signed(p[2], Has(p[1], PS2_X_SIGN), Has(p[1], PS2_X_OVERFLOW))
           dy == Signed(p[3], Has(p[1], PS2_Y_SIGN), Has(p[1], PS2_Y_OVERFLOW))
<1>4. dx \in Int /\ dy \in Int
  BY <1>1, <1>2, <1>3
<1>5. Displaced(pos, p) = [X |-> Bounded(pos.X + dx, XMax), Y |-> Bounded(pos.Y - dy, YMax)]
  BY Zenon DEF Displaced
<1>6. pos.X \in Int /\ pos.Y \in Int
  BY EdgeAssumption DEF Place
<1> HIDE DEF dx, dy
<1>7. /\ Bounded(pos.X + dx, XMax) \in 0 .. XMax
      /\ Bounded(pos.Y - dy, YMax) \in 0 .. YMax
  BY <1>4, <1>6, EdgeAssumption DEF Bounded
<1> QED BY <1>5, <1>7 DEF Place

LEMMA TypeState == TypeOK => mouse \in State
BY DEF TypeOK, State, Packet, Place

LEMMA InitType == Init => TypeOK
PROOF
<1>1. Origin \in Place
  BY EdgeAssumption DEF Origin, Place
<1>2. <<0, 0, 0>> \in Packet
  BY DEF Packet, Bytes
<1>3. PowerOn \in State
  BY <1>1, <1>2 DEF PowerOn, State
<1>4. State = [cycle : 0 .. 2, packet : Bytes \X Bytes \X Bytes,
               ready : BOOLEAN, skip : BOOLEAN,
               position : [X : 0 .. XMax, Y : 0 .. YMax],
               old : [X : 0 .. XMax, Y : 0 .. YMax]]
  BY DEF State, Packet, Place
<1>5. Init => /\ mouse \in State /\ intended \in Place /\ sent \in 0 .. 2
              /\ sending \in {<<>>} \cup Packets /\ last \in {<<>>} \cup Packets
  BY <1>1, <1>3 DEF Init
<1>6. Init => stale \in BOOLEAN /\ whole \in BOOLEAN
  BY Zenon DEF Init
<1> QED BY <1>4, <1>5, <1>6, Zenon DEF TypeOK, Place

LEMMA NextType == TypeOK /\ LinkOK /\ [Next]_vars => TypeOK' /\ LinkOK'
PROOF
<1> SUFFICES ASSUME TypeOK, LinkOK, [Next]_vars
             PROVE  TypeOK' /\ LinkOK'
  OBVIOUS
<1>0. LinkOK'
  BY PacketsAreBytes DEF Next, StaleByte, BeginPacket, ContinuePacket, EndPacket, vars, link, LinkOK
<1>1. mouse \in State
  BY TypeState
<1>2. ASSUME NEW data \in Bytes, mouse' = HandleMouse(mouse, data)
      PROVE  mouse' \in State
  BY <1>1, <1>2, Handled
<1>3. mouse' \in State /\ UNCHANGED <<sending, sent, whole, last, intended>>
          /\ stale' \in BOOLEAN => TypeOK'
  BY DEF TypeOK, State, Packet, Place
<1>4. CASE StaleByte
  <2>1. Acknowledge \in Bytes
    BY DEF Acknowledge, Bytes
  <2> QED BY <1>0, <1>2, <1>3, <1>4, <2>1 DEF StaleByte, link
<1>5. ASSUME NEW p \in Packets, BeginPacket(p)
      PROVE  TypeOK'
  <2>1. mouse' \in State
    BY <1>2, <1>5, PacketsAreBytes, PacketBytes DEF BeginPacket
  <2>2. whole' \in BOOLEAN
    BY <1>1, <1>5 DEF BeginPacket, State
  <2> QED BY <2>1, <2>2, <1>5 DEF BeginPacket, TypeOK, State, Packet, Place
<1>6. CASE ContinuePacket
  <2>1. sending \in Packets
    BY <1>6 DEF ContinuePacket, LinkOK, TypeOK
  <2>2. mouse' \in State
    BY <1>2, <1>6, <2>1, PacketsAreBytes, PacketBytes DEF ContinuePacket
  <2> QED BY <1>0, <2>2, <1>6 DEF ContinuePacket, TypeOK, State, Packet, Place
<1>7. CASE EndPacket
  <2>1. sending \in Packets
    BY <1>7 DEF EndPacket, LinkOK, TypeOK
  <2>2. mouse' \in State
    BY <1>2, <1>7, <2>1, PacketsAreBytes, PacketBytes DEF EndPacket
  <2>3. Displaced(intended, sending) \in Place
    BY <2>1, DisplacedOnScreen DEF TypeOK, Place
  <2>4. last' \in {<<>>} \cup Packets /\ intended' \in Place
    BY <2>1, <2>3, <1>7 DEF EndPacket, TypeOK, Place
  <2>5. sent' \in 0 .. 2 /\ sending' \in {<<>>} \cup Packets
    BY <1>7 DEF EndPacket
  <2>6. stale' \in BOOLEAN /\ whole' \in BOOLEAN
    BY <1>7, Zenon DEF EndPacket, TypeOK
  <2> QED BY <1>0, <2>2, <2>4, <2>5, <2>6, Zenon DEF TypeOK, State, Packet, Place
<1>8. CASE UNCHANGED vars
  BY <1>0, <1>8 DEF vars, TypeOK
<1> QED BY <1>0, <1>4, <1>5, <1>6, <1>7, <1>8 DEF Next

\* The handler's state, the bytes under way and the pointer have their types
\* in every reachable state: the pointer never leaves the frame buffer
\* (mouse.cpp, "Bound mouse position"), whatever packets the mouse sends.
THEOREM TypeCorrect == Spec => []TypeOK
PROOF
<1>1. Init => TypeOK /\ LinkOK
  BY InitType DEF Init, LinkOK
<1> QED BY <1>1, NextType, PTL DEF Spec

LEMMA SpecLink == Spec => []LinkOK
PROOF
<1>1. Init => TypeOK /\ LinkOK
  BY InitType DEF Init, LinkOK
<1> QED BY <1>1, NextType, PTL DEF Spec

-----------------------------------------------------------------------------
\* A byte that is neither skipped nor dropped is stored, at its place.
LEMMA Stored ==
    ASSUME NEW m \in State, NEW data \in Bytes, ~m.skip,
           m.cycle # 0 \/ Has(data, PS2_FIRST_BYTE)
    PROVE  LET h == HandleMouse(m, data)
               p == Process(m)
           IN  /\ ~h.skip
               /\ m.cycle = 0 => /\ h.cycle = 1 /\ ~h.ready
                                 /\ h.packet = [p.packet EXCEPT ![1] = data]
               /\ m.cycle = 1 => /\ h.cycle = 2 /\ ~h.ready
                                 /\ h.packet = [p.packet EXCEPT ![2] = data]
               /\ m.cycle = 2 => /\ h.cycle = 0 /\ h.ready
                                 /\ h.packet = [p.packet EXCEPT ![3] = data]
PROOF
<1> DEFINE h == HandleMouse(m, data)
           p == Process(m)
<1>1. /\ ~h.skip
      /\ h.packet = [p.packet EXCEPT ![m.cycle + 1] = data]
      /\ h.cycle = (m.cycle + 1) % 3
      /\ h.ready <=> m.cycle = 2
  BY Handled
<1> HIDE DEF h, p
<1>2. ASSUME NEW n \in 0 .. 2, m.cycle = n
      PROVE  /\ h.packet = [p.packet EXCEPT ![n + 1] = data]
             /\ h.cycle = (n + 1) % 3
             /\ h.ready <=> n = 2
  BY <1>1, <1>2
<1>3. m.cycle = 0 => /\ h.cycle = 1 /\ ~h.ready
                     /\ h.packet = [p.packet EXCEPT ![1] = data]
  BY <1>2
<1>4. m.cycle = 1 => /\ h.cycle = 2 /\ ~h.ready
                     /\ h.packet = [p.packet EXCEPT ![2] = data]
  BY <1>2
<1>5. m.cycle = 2 => /\ h.cycle = 0 /\ h.ready
                     /\ h.packet = [p.packet EXCEPT ![3] = data]
  BY <1>2
<1> QED BY <1>1, <1>3, <1>4, <1>5 DEF h, p

\* Only the last byte of a packet, all of which was taken, completes one.
Completes == /\ mouse'.ready => (EndPacket /\ whole) \/ UNCHANGED vars
             /\ EndPacket /\ whole => mouse'.ready

LEMMA StepsInStep ==
    ASSUME QuietFirst
    PROVE  TypeOK /\ LinkOK /\ InStep /\ PacketsGenuine /\ [Next]_vars
               => InStep' /\ PacketsGenuine' /\ Completes
PROOF
<1> SUFFICES ASSUME TypeOK, LinkOK, InStep, PacketsGenuine, [Next]_vars
             PROVE  InStep' /\ PacketsGenuine' /\ Completes
  OBVIOUS
<1> DEFINE q == Process(mouse)
<1>0. /\ mouse \in State
      /\ sent \in 0 .. 2
      /\ sent # 0 => sending \in Packets
  BY TypeState DEF TypeOK, LinkOK
<1>1. /\ q \in State
      /\ ~mouse.ready => q = mouse
  BY <1>0, Processed
<1> HIDE DEF q
<1>2. DOMAIN q.packet = 1 .. 3 /\ mouse.cycle \in 0 .. 2
  BY <1>0, <1>1, PacketBytes DEF State
<1>3. CASE StaleByte
  <2>1. Acknowledge \in Bytes
    BY DEF Acknowledge, Bytes
  <2>2. ~mouse'.skip /\ ~mouse'.ready /\ mouse'.cycle = mouse.cycle
    BY <1>0, <1>3, <2>1, Handled DEF StaleByte, InStep
  <2> QED BY <1>3, <2>2 DEF StaleByte, EndPacket, link, InStep, PacketsGenuine, Completes
<1>4. ASSUME NEW p \in Packets, BeginPacket(p)
      PROVE  InStep' /\ PacketsGenuine' /\ Completes
  <2>1. p[1] \in Bytes /\ Has(p[1], PS2_FIRST_BYTE)
    BY PacketsAreBytes, PacketBytes
  <2>2. sent = 0 /\ mouse.cycle = 0
    BY <1>4 DEF BeginPacket, InStep, LinkOK
  <2>3. CASE mouse.skip
    <3>1. ~mouse'.skip /\ ~mouse'.ready /\ mouse'.cycle = 0
      BY <1>0, <1>4, <2>1, <2>2, <2>3, Handled DEF BeginPacket
    <3> QED BY <1>4, <2>3, <3>1 DEF BeginPacket, EndPacket, InStep, PacketsGenuine, Completes
  <2>4. CASE ~mouse.skip
    <3>1. /\ ~mouse'.skip /\ ~mouse'.ready /\ mouse'.cycle = 1
          /\ mouse'.packet = [q.packet EXCEPT ![1] = p[1]]
      BY <1>0, <1>4, <2>1, <2>2, <2>4, Stored DEF BeginPacket, q
    <3>2. mouse'.packet[1] = p[1]
      BY <1>2, <3>1
    <3>3. whole'
      BY <1>4, <2>4, Zenon DEF BeginPacket
    <3> QED BY <1>4, <2>4, <3>1, <3>2, <3>3 DEF BeginPacket, EndPacket, InStep, PacketsGenuine, Completes
  <2> QED BY <2>3, <2>4
<1>5. CASE ContinuePacket
  <2>1. sending[2] \in Bytes
    BY <1>0, <1>5, PacketsAreBytes, PacketBytes DEF ContinuePacket
  <2>2. ~mouse.skip /\ ~mouse.ready
    BY <1>5 DEF ContinuePacket, InStep
  <2>3. CASE whole
    <3>1. /\ ~mouse'.skip /\ ~mouse'.ready /\ mouse'.cycle = 2
          /\ mouse'.packet = [mouse.packet EXCEPT ![2] = sending[2]]
      <4>1. mouse.cycle = 1
        BY <1>5, <2>3 DEF ContinuePacket, InStep
      <4>2. mouse' = HandleMouse(mouse, sending[2]) /\ mouse.cycle # 0
        BY <1>5, <4>1 DEF ContinuePacket
      <4>3. q = mouse
        BY <1>1, <2>2
      <4> QED BY <1>0, <2>1, <2>2, <4>1, <4>2, <4>3, Stored DEF q
    <3>2. mouse'.packet[1] = sending[1] /\ mouse'.packet[2] = sending[2]
      BY <1>1, <1>2, <2>2, <2>3, <3>1 DEF InStep
    <3> QED BY <1>5, <2>3, <3>1, <3>2 DEF ContinuePacket, EndPacket, InStep, PacketsGenuine, Completes
  <2>4. CASE ~whole
    <3>1. ~Has(sending[2], PS2_FIRST_BYTE)
      BY <1>5, <2>4 DEF ContinuePacket, InStep, QuietFirst
    <3>2. ~mouse'.skip /\ ~mouse'.ready /\ mouse'.cycle = 0
      BY <1>0, <1>5, <2>1, <2>2, <2>4, <3>1, Handled DEF ContinuePacket, InStep
    <3> QED BY <1>5, <2>4, <3>2 DEF ContinuePacket, EndPacket, InStep, PacketsGenuine, Completes
  <2> QED BY <2>3, <2>4
<1>6. CASE EndPacket
  <2>1. sending[3] \in Bytes /\ sending \in Packet
    BY <1>0, <1>6, PacketsAreBytes, PacketBytes DEF EndPacket
  <2>2. ~mouse.skip /\ ~mouse.ready
    BY <1>6 DEF EndPacket, InStep
  <2>3. CASE whole
    <3>1. /\ ~mouse'.skip /\ mouse'.ready /\ mouse'.cycle = 0
          /\ mouse'.packet = [mouse.packet EXCEPT ![3] = sending[3]]
      <4>1. mouse.cycle = 2
        BY <1>6, <2>3 DEF EndPacket, InStep
      <4>2. mouse' = HandleMouse(mouse, sending[3]) /\ mouse.cycle # 0
        BY <1>6, <4>1 DEF EndPacket
      <4>3. q = mouse
        BY <1>1, <2>2
      <4> QED BY <1>0, <2>1, <2>2, <4>1, <4>2, <4>3, Stored DEF q
    <3>2. mouse'.packet = <<sending[1], sending[2], sending[3]>>
      <4>1. mouse.packet = <<sending[1], sending[2], mouse.packet[3]>>
        BY <1>0, <1>6, <2>3, PacketBytes DEF EndPacket, InStep, State
      <4> QED BY <3>1, <4>1
    <3>3. mouse'.packet = sending
      BY <2>1, <3>2, PacketBytes
    <3> QED BY <1>6, <2>3, <3>1, <3>3 DEF EndPacket, InStep, PacketsGenuine, Completes
  <2>4. CASE ~whole
    <3>1. ~Has(sending[3], PS2_FIRST_BYTE)
      BY <1>6, <2>4 DEF EndPacket, InStep, QuietFirst
    <3>2. ~mouse'.skip /\ ~mouse'.ready /\ mouse'.cycle = 0
      BY <1>0, <1>6, <2>1, <2>2, <2>4, <3>1, Handled DEF EndPacket, InStep
    <3> QED BY <1>6, <2>4, <3>2 DEF EndPacket, InStep, PacketsGenuine, Completes
  <2> QED BY <2>3, <2>4
<1>7. CASE UNCHANGED vars
  BY <1>7 DEF vars, EndPacket, InStep, PacketsGenuine, Completes
<1> QED BY <1>3, <1>4, <1>5, <1>6, <1>7 DEF Next

LEMMA InitInStep == Init => InStep /\ PacketsGenuine
BY DEF Init, PowerOn, InStep, PacketsGenuine

\* The three bytes the handler processes are those of one packet (mouse.cpp,
\* "4th bit must always be 1, otherwise we are out of sync").
THEOREM PacketsAreGenuine ==
    ASSUME QuietFirst
    PROVE  Spec => []PacketsGenuine
BY InitInStep, StepsInStep, TypeCorrect, SpecLink, PTL DEF Spec

-----------------------------------------------------------------------------
\* The handler's arithmetic on magnitudes in a byte gives the same place as
\* the packet's 9-bit two's complement numbers.
LEMMA TargetIsDisplaced ==
    ASSUME NoLongestMove, NEW m \in State, m.packet \in Packets
    PROVE  Target(m) = Displaced(m.position, m.packet)
PROOF
<1> DEFINE p == m.packet
<1>1. p[2] \in Bytes /\ p[3] \in Bytes
  BY PacketBytes DEF State
<1>2. ASSUME NEW byte \in Bytes, NEW negative \in BOOLEAN, NEW overflow \in BOOLEAN,
             negative => byte # 0
      PROVE  Movement(byte, negative, overflow) = Signed(byte, negative, overflow)
  BY <1>2 DEF Movement, Magnitude, Signed, Bytes
<1>3. \A byte, mask : Has(byte, mask) \in BOOLEAN
  BY DEF Has
<1>4. /\ Has(p[1], PS2_X_SIGN) => p[2] # 0
      /\ Has(p[1], PS2_Y_SIGN) => p[3] # 0
  BY DEF NoLongestMove
<1>5. /\ Movement(p[2], Has(p[1], PS2_X_SIGN), Has(p[1], PS2_X_OVERFLOW))
             = Signed(p[2], Has(p[1], PS2_X_SIGN), Has(p[1], PS2_X_OVERFLOW))
      /\ Movement(p[3], Has(p[1], PS2_Y_SIGN), Has(p[1], PS2_Y_OVERFLOW))
             = Signed(p[3], Has(p[1], PS2_Y_SIGN), Has(p[1], PS2_Y_OVERFLOW))
  BY <1>1, <1>2, <1>3, <1>4
<1> QED BY <1>5, Zenon DEF Target, Displaced

\* Handling a byte brings the pointer to where the packets handled so far
\* move it.
LEMMA StepsMove ==
    ASSUME QuietFirst, NoLongestMove
    PROVE  TypeOK /\ LinkOK /\ InStep /\ PacketsGenuine /\ MovesApplied /\ [Next]_vars
               => MovesApplied'
PROOF
<1> SUFFICES ASSUME TypeOK, LinkOK, InStep, PacketsGenuine, MovesApplied, [Next]_vars
             PROVE  MovesApplied'
  OBVIOUS
<1>1. mouse \in State /\ last \in {<<>>} \cup Packets
  BY TypeState DEF TypeOK
<1>2. PacketsGenuine' /\ Completes
  BY StepsInStep
<1>3. CASE UNCHANGED vars
  BY <1>3 DEF vars, MovesApplied
<1>4. CASE Next
  <2>1. PICK data \in Bytes : mouse' = HandleMouse(mouse, data)
    <3>1. CASE StaleByte
      BY <3>1 DEF StaleByte, Acknowledge, Bytes
    <3>2. ASSUME NEW p \in Packets, BeginPacket(p)
          PROVE  \E data \in Bytes : mouse' = HandleMouse(mouse, data)
      BY <3>2, PacketsAreBytes, PacketBytes DEF BeginPacket
    <3>3. CASE ContinuePacket \/ EndPacket
      <4>1. sending \in Packets
        BY <3>3 DEF ContinuePacket, EndPacket, TypeOK, LinkOK
      <4> QED BY <3>3, <4>1, PacketsAreBytes, PacketBytes DEF ContinuePacket, EndPacket
    <3> QED BY <1>4, <3>1, <3>2, <3>3 DEF Next
  <2>2. mouse'.position = IF mouse.ready THEN Target(mouse) ELSE mouse.position
    <3>1. mouse'.position = Process(mouse).position
      BY <1>1, <2>1, Handled
    <3> QED BY <1>1, <3>1, Processed
  <2>3. mouse.ready => Target(mouse) = Displaced(mouse.position, mouse.packet)
    <3>1. mouse.ready => mouse.packet = last /\ last # <<>>
      <4>1. mouse.packet \in Packet /\ <<>> \notin Packet
        BY <1>1 DEF State, Packet
      <4> QED BY <4>1 DEF PacketsGenuine
    <3> QED BY <1>1, <3>1, TargetIsDisplaced
  <2>4. mouse'.position = intended
    BY <2>2, <2>3 DEF MovesApplied
  <2>5. CASE mouse'.ready /\ EndPacket /\ whole
    BY <1>2, <2>4, <2>5 DEF EndPacket, PacketsGenuine, MovesApplied
  <2>6. CASE ~mouse'.ready
    <3>1. CASE EndPacket /\ whole
      <4>1. mouse'.ready
        BY <1>2, <3>1 DEF Completes
      <4> QED BY <2>6, <4>1
    <3>2. CASE ~(EndPacket /\ whole)
      <4>1. intended' = intended
        BY <1>4, <3>2 DEF Next, StaleByte, BeginPacket, ContinuePacket, EndPacket, link
      <4> QED BY <2>4, <2>6, <4>1 DEF MovesApplied
    <3> QED BY <3>1, <3>2
  <2>7. mouse'.ready => (EndPacket /\ whole) \/ UNCHANGED vars
    BY <1>2 DEF Completes
  <2> QED BY <1>3, <2>5, <2>6, <2>7
<1> QED BY <1>3, <1>4

\* The pointer is where the packets move it, the last one being processed
\* with the byte that follows it (process_mouse_packet).
THEOREM PointerFollowsMouse ==
    ASSUME QuietFirst, NoLongestMove
    PROVE  Spec => []MovesApplied
PROOF
<1>1. Init => MovesApplied
  BY DEF Init, PowerOn, MovesApplied
<1> QED BY <1>1, InitInStep, StepsInStep, StepsMove, TypeCorrect, SpecLink, PTL DEF Spec
=============================================================================
