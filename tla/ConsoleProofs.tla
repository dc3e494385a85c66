----------------------------- MODULE ConsoleProofs -----------------------------
(***************************************************************************)
(* Theorems about the screen of the running kernel, for every size of the  *)
(* frame buffer, font, pointer image, text and sequence of keys and        *)
(* packets.  What the mouse handler does is taken from MouseProofs.        *)
(***************************************************************************)
EXTENDS Console, TLAPS

MP == INSTANCE MouseProofs WITH XMax <- Width - 1, YMax <- Height - 1,
                                FirstPackets <- Packets

Place == [X : 0 .. Width - 1, Y : 0 .. Height - 1]
Frame == [X : Nat, Y : Nat, pixels : [Addresses -> Colours],
          saved : [Pointer -> Colours], drawn : [Pointer -> Colours]]

-----------------------------------------------------------------------------
(***************************************************************************)
(* The mouse.  The theorems of MouseProofs are about the same operators as *)
(* the instance of Mouse in Console.                                       *)
(***************************************************************************)
LEMMA SameMouse ==
    /\ M!Next <=> MP!Next
    /\ M!TypeOK <=> MP!TypeOK
    /\ M!Init <=> MP!Init
    /\ \A m : M!Target(m) = MP!Target(m)
PROOF
<1>1. \A b, m : M!Has(b, m) <=> MP!Has(b, m)
  BY DEF M!Has, MP!Has
<1>2. \A z, m : M!Bounded(z, m) = MP!Bounded(z, m)
  BY DEF M!Bounded, MP!Bounded
<1>3. \A z, m : M!Magnitude(z, m) = MP!Magnitude(z, m)
  BY DEF M!Magnitude, MP!Magnitude
<1>4. \A z, m, b : M!Movement(z, m, b) = MP!Movement(z, m, b)
  BY <1>3 DEF M!Movement, MP!Movement
<1>5. \A m : M!Target(m) = MP!Target(m)
  BY <1>1, <1>2, <1>4 DEF M!Target, MP!Target, M!PS2_X_SIGN, MP!PS2_X_SIGN,
         M!PS2_Y_SIGN, MP!PS2_Y_SIGN, M!PS2_X_OVERFLOW, MP!PS2_X_OVERFLOW,
         M!PS2_Y_OVERFLOW, MP!PS2_Y_OVERFLOW
<1>6. \A m : M!Process(m) = MP!Process(m)
  BY <1>1, <1>3, <1>5 DEF M!Process, MP!Process, M!PS2_X_SIGN, MP!PS2_X_SIGN,
         M!PS2_Y_SIGN, MP!PS2_Y_SIGN
<1>7. \A m, d : M!HandleMouse(m, d) = MP!HandleMouse(m, d)
  BY <1>1, <1>6 DEF M!HandleMouse, MP!HandleMouse, M!PS2_FIRST_BYTE, MP!PS2_FIRST_BYTE
<1>8. \A z, n, o : M!Signed(z, n, o) = MP!Signed(z, n, o)
  BY DEF M!Signed, MP!Signed
<1>9. \A pos, p : M!Displaced(pos, p) = MP!Displaced(pos, p)
  BY <1>1, <1>2, <1>8 DEF M!Displaced, MP!Displaced, M!PS2_X_SIGN, MP!PS2_X_SIGN,
         M!PS2_Y_SIGN, MP!PS2_Y_SIGN, M!PS2_X_OVERFLOW, MP!PS2_X_OVERFLOW,
         M!PS2_Y_OVERFLOW, MP!PS2_Y_OVERFLOW
<1>10. M!StaleByte <=> MP!StaleByte
  BY <1>7 DEF M!StaleByte, MP!StaleByte, M!Acknowledge, MP!Acknowledge, M!link, MP!link
<1>11. ASSUME NEW p PROVE M!BeginPacket(p) <=> MP!BeginPacket(p)
  BY <1>7 DEF M!BeginPacket, MP!BeginPacket
<1>12. M!ContinuePacket <=> MP!ContinuePacket
  BY <1>7 DEF M!ContinuePacket, MP!ContinuePacket
<1>13. M!EndPacket <=> MP!EndPacket
  BY <1>7, <1>9 DEF M!EndPacket, MP!EndPacket
<1>14. M!Next <=> MP!Next
  BY <1>10, <1>11, <1>12, <1>13 DEF M!Next, MP!Next
<1>15. M!TypeOK <=> MP!TypeOK
  BY DEF M!TypeOK, MP!TypeOK, M!Bytes, MP!Bytes
<1>16. M!Init <=> MP!Init
  BY DEF M!Init, MP!Init, M!PowerOn, MP!PowerOn, M!Origin, MP!Origin
<1> QED BY <1>5, <1>14, <1>15, <1>16

\* A packet is in transmission or none, as in MouseProofs.
MouseOK == M!TypeOK /\ MP!LinkOK

LEMMA MouseAssumptions == MP!EdgeAssumption /\ MP!PacketAssumption
PROOF
<1>1. Width - 1 \in Nat /\ Height - 1 \in Nat
  BY ScreenAssumption
<1>2. Packets \subseteq {p \in MP!Bytes \X MP!Bytes \X MP!Bytes :
                             MP!Has(p[1], MP!PS2_FIRST_BYTE)}
  BY InputAssumption DEF M!Bytes, MP!Bytes, M!Has, MP!Has, M!PS2_FIRST_BYTE, MP!PS2_FIRST_BYTE
<1> QED BY <1>1, <1>2 DEF MP!EdgeAssumption, MP!PacketAssumption

LEMMA MouseInit == M!Init => MouseOK /\ mouse.old = M!Origin
PROOF
<1>1. M!Init => MP!TypeOK
  BY MouseAssumptions, SameMouse, MP!InitType
<1> QED BY <1>1, SameMouse DEF MouseOK, M!Init, M!PowerOn, MP!LinkOK

LEMMA MouseNext == MouseOK /\ M!Next => MouseOK'
PROOF
<1>1. MP!TypeOK /\ MP!LinkOK /\ [MP!Next]_(MP!vars) => MP!TypeOK' /\ MP!LinkOK'
  BY MouseAssumptions, MP!NextType
<1>2. M!TypeOK' <=> MP!TypeOK'
  BY DEF M!TypeOK, MP!TypeOK, M!Bytes, MP!Bytes
<1> QED BY <1>1, <1>2, SameMouse DEF MouseOK

LEMMA MouseStays == MouseOK /\ UNCHANGED mice => MouseOK'
BY DEF MouseOK, mice, M!TypeOK, MP!LinkOK

\* Where the pointer is drawn after a byte: a packet that was ready moved it.
LEMMA PointerMoved ==
    ASSUME MouseOK, M!Next
    PROVE  /\ mouse.old \in Place /\ mouse'.old \in Place
           /\ mouse'.old = IF mouse.ready THEN M!Target(mouse) ELSE mouse.old
PROOF
<1>1. mouse.old \in Place /\ mouse'.old \in Place
  BY MouseNext DEF MouseOK, M!TypeOK, Place
<1>2. PICK data : mouse' = M!HandleMouse(mouse, data)
  BY DEF M!Next, M!StaleByte, M!BeginPacket, M!ContinuePacket, M!EndPacket
<1> DEFINE Fields == [cycle : 0 .. 2, packet : M!Bytes \X M!Bytes \X M!Bytes,
                      ready : BOOLEAN, skip : BOOLEAN,
                      position : [X : 0 .. Width - 1, Y : 0 .. Height - 1],
                      old : [X : 0 .. Width - 1, Y : 0 .. Height - 1]]
           p == M!Process(mouse)
<1>3. mouse \in Fields
  BY DEF MouseOK, M!TypeOK
<1>4. p.old = IF mouse.ready THEN M!Target(mouse) ELSE mouse.old
  BY <1>3 DEF M!Process
<1>5. DOMAIN p = DOMAIN mouse
  BY DEF M!Process
<1>6. DOMAIN p = {"cycle", "packet", "ready", "skip", "position", "old"}
  BY <1>3, <1>5
<1>7. mouse' = IF p.skip
              THEN [p EXCEPT !.skip = FALSE]
              ELSE IF p.cycle = 0 /\ ~M!Has(data, M!PS2_FIRST_BYTE)
              THEN p
              ELSE [p EXCEPT !.packet = [p.packet EXCEPT ![p.cycle + 1] = data],
                             !.cycle = (p.cycle + 1) % 3,
                             !.ready = (p.cycle = 2)]
  BY <1>2, <1>6 DEF M!HandleMouse
<1> HIDE DEF p
<1>8. mouse'.old = p.old
  BY <1>6, <1>7
<1> QED BY <1>1, <1>4, <1>8

-----------------------------------------------------------------------------
(***************************************************************************)
(* Where pixels are.  A pixel that is shown has one column and one row.    *)
(***************************************************************************)
LEMMA RowAndColumn ==
    ASSUME NEW x \in 0 .. Scanline - 1, NEW y \in Nat
    PROVE  /\ At(x, y) \in Nat
           /\ At(x, y) % Scanline = x
           /\ At(x, y) \div Scanline = y
PROOF
<1>1. Scanline \in Nat /\ x \in Nat /\ x < Scanline
  BY ScreenAssumption
<1>2. y * Scanline \in Nat
  BY <1>1
<1>3. At(x, y) = x + y * Scanline
  BY DEF At
<1> QED BY <1>1, <1>2, <1>3

LEMMA InFrameBuffer ==
    ASSUME NEW x \in 0 .. Scanline - 1, NEW y \in 0 .. Height - 1
    PROVE  At(x, y) \in Addresses
PROOF
<1>1. Scanline \in Nat /\ Height \in Nat /\ x \in Nat /\ y \in Nat
          /\ x <= Scanline - 1 /\ y <= Height - 1
  BY ScreenAssumption
<1>2. y * Scanline \in Nat /\ (Height - 1) * Scanline \in Nat
  BY <1>1
<1>3. y * Scanline <= (Height - 1) * Scanline
  BY <1>1
<1>4. (Height - 1) * Scanline = Scanline * Height - Scanline
  BY <1>1
<1>5. Scanline * Height \in Nat
  BY <1>1
<1> QED BY <1>1, <1>2, <1>3, <1>4, <1>5 DEF At, Addresses

\* What is visible of the pointer is in the frame buffer.
LEMMA SpotsInFrameBuffer ==
    ASSUME NEW pos \in Place, NEW d \in Visible(pos)
    PROVE  d \in Pointer /\ Spot(pos, d) \in Addresses
PROOF
<1>1. d \in Pointer /\ d[1] \in Nat /\ d[2] \in Nat
          /\ pos.X + d[1] < Width /\ pos.Y + d[2] < Height
  BY ScreenAssumption DEF Visible
<1>2. pos.X \in Nat /\ pos.Y \in Nat /\ Width \in Nat /\ Height \in Nat
          /\ Scanline \in Nat /\ Width <= Scanline
  BY ScreenAssumption DEF Place
<1>3. pos.X + d[1] \in 0 .. Scanline - 1 /\ pos.Y + d[2] \in 0 .. Height - 1
  BY <1>1, <1>2
<1> QED BY <1>1, <1>3, InFrameBuffer DEF Spot

-----------------------------------------------------------------------------
(***************************************************************************)
(* What the operators of Screen do, pixel by pixel.                        *)
(***************************************************************************)
LEMMA Painted ==
    ASSUME NEW s \in Frame, NEW P, NEW colour \in Colours
    PROVE  LET t == Paint(s, P, colour)
           IN  /\ t \in Frame
               /\ t.X = s.X /\ t.Y = s.Y /\ t.saved = s.saved /\ t.drawn = s.drawn
               /\ \A i \in Addresses :
                     t.pixels[i] = IF i \in P THEN colour ELSE s.pixels[i]
PROOF
<1> DEFINE f == [i \in Addresses |-> IF i \in P THEN colour ELSE s.pixels[i]]
<1>1. f \in [Addresses -> Colours]
  BY DEF Frame
<1>2. Paint(s, P, colour) = [s EXCEPT !.pixels = f]
  BY DEF Paint, Frame
<1>3. \A i \in Addresses : f[i] = IF i \in P THEN colour ELSE s.pixels[i]
  OBVIOUS
<1> HIDE DEF f
<1> QED BY <1>1, <1>2, <1>3 DEF Frame

LEMMA CellSizes == CellWidth \in Nat /\ CellHeight \in Nat /\ Width \in Nat
                       /\ CellWidth > 0 /\ CellHeight > 0 /\ CellWidth <= Width
BY ScreenAssumption

LEMMA CharacterPut ==
    ASSUME NEW s \in Frame, NEW glyph
    PROVE  LET t == PutChar(s, glyph)
           IN  /\ t \in Frame
               /\ t.saved = s.saved /\ t.drawn = s.drawn
               /\ IF s.X + CellWidth + CellWidth > Width
                  THEN t.X = 0 /\ t.Y = s.Y + CellHeight
                  ELSE t.X = s.X + CellWidth /\ t.Y = s.Y
               /\ \A i \in Addresses :
                     t.pixels[i] = IF i \in GlyphAt(glyph, s.X, s.Y)
                                   THEN "white" ELSE s.pixels[i]
PROOF
<1> DEFINE g == DrawGlyph(s, glyph)
<1>1. /\ g \in Frame
      /\ g.X = s.X /\ g.Y = s.Y /\ g.saved = s.saved /\ g.drawn = s.drawn
      /\ \A i \in Addresses :
            g.pixels[i] = IF i \in GlyphAt(glyph, s.X, s.Y) THEN "white" ELSE s.pixels[i]
  BY Painted DEF DrawGlyph, DrawGlyphAt, Colours
<1> DEFINE m == [g EXCEPT !.X = g.X + CellWidth]
<1>2. PutChar(s, glyph) = IF m.X + CellWidth > Width
                          THEN [m EXCEPT !.X = 0, !.Y = m.Y + CellHeight]
                          ELSE m
  BY <1>1 DEF PutChar, NextLine, AtRowEnd, Frame
<1> HIDE DEF g
<1>3. /\ m \in Frame /\ m.X = s.X + CellWidth /\ m.Y = s.Y
      /\ m.saved = s.saved /\ m.drawn = s.drawn /\ m.pixels = g.pixels
  BY <1>1, CellSizes DEF Frame
<1> HIDE DEF m
<1>4. m.X \in Nat /\ m.Y + CellHeight \in Nat
  BY <1>3, CellSizes DEF Frame
<1>5. CASE m.X + CellWidth > Width
  <2>1. PutChar(s, glyph) = [m EXCEPT !.X = 0, !.Y = m.Y + CellHeight]
    BY <1>2, <1>5
  <2> DEFINE t == [m EXCEPT !.X = 0, !.Y = m.Y + CellHeight]
  <2>2. /\ t \in Frame /\ t.X = 0 /\ t.Y = m.Y + CellHeight
        /\ t.saved = m.saved /\ t.drawn = m.drawn /\ t.pixels = m.pixels
    BY <1>3, <1>4 DEF Frame
  <2> HIDE DEF t
  <2>3. PutChar(s, glyph) = t
    BY <2>1 DEF t
  <2> QED BY <1>1, <1>3, <1>5, <2>2, <2>3
<1>6. CASE ~(m.X + CellWidth > Width)
  <2>1. PutChar(s, glyph) = m
    BY <1>2, <1>6
  <2> QED BY <1>1, <1>3, <1>6, <2>1
<1> QED BY <1>5, <1>6

LEMMA CharacterCleared ==
    ASSUME NEW s \in Frame, ~(s.X = 0 /\ s.Y = 0)
    PROVE  LET t == ClearChar(s)
           IN  /\ t \in Frame
               /\ t.saved = s.saved /\ t.drawn = s.drawn
               /\ IF s.X >= CellWidth
                  THEN t.X = s.X - CellWidth /\ t.Y = s.Y
                  ELSE /\ t.X = s.X - CellWidth + Width
                       /\ t.Y = IF s.Y < CellHeight THEN 0 ELSE s.Y - CellHeight
               /\ \A i \in Addresses :
                     t.pixels[i] = IF i \in CellAt(t.X, t.Y)
                                   THEN "black" ELSE s.pixels[i]
PROOF
<1> DEFINE b == CellBack(s)
<1>1. /\ b \in Frame
      /\ b.saved = s.saved /\ b.drawn = s.drawn /\ b.pixels = s.pixels
      /\ IF s.X >= CellWidth
         THEN b.X = s.X - CellWidth /\ b.Y = s.Y
         ELSE /\ b.X = s.X - CellWidth + Width
              /\ b.Y = IF s.Y < CellHeight THEN 0 ELSE s.Y - CellHeight
  <2>1. CASE s.X >= CellWidth
    <3>1. b = [s EXCEPT !.X = s.X - CellWidth] /\ s.X - CellWidth \in Nat
      BY <2>1, CellSizes DEF CellBack, Frame
    <3> HIDE DEF b
    <3> QED BY <2>1, <3>1 DEF Frame
  <2>2. CASE ~(s.X >= CellWidth)
    <3> DEFINE y == IF s.Y < CellHeight THEN 0 ELSE s.Y - CellHeight
    <3>1. b = [s EXCEPT !.X = s.X - CellWidth + Width, !.Y = y]
      BY <2>2 DEF CellBack, Frame
    <3>2. s.X - CellWidth + Width \in Nat /\ y \in Nat
      BY CellSizes DEF Frame
    <3> HIDE DEF b, y
    <3>3. /\ b \in Frame
          /\ b.saved = s.saved /\ b.drawn = s.drawn /\ b.pixels = s.pixels
          /\ b.X = s.X - CellWidth + Width /\ b.Y = y
      BY <3>1, <3>2 DEF Frame
    <3> QED BY <2>2, <3>3 DEF y
  <2> QED BY <2>1, <2>2
<1>2. ClearChar(s) = Paint(b, CellAt(b.X, b.Y), "black")
  BY DEF ClearChar
<1> HIDE DEF b
<1> DEFINE t == Paint(b, CellAt(b.X, b.Y), "black")
<1>3. /\ t \in Frame
      /\ t.X = b.X /\ t.Y = b.Y /\ t.saved = b.saved /\ t.drawn = b.drawn
      /\ \A i \in Addresses :
            t.pixels[i] = IF i \in CellAt(b.X, b.Y) THEN "black" ELSE b.pixels[i]
  BY <1>1, Painted DEF Colours
<1> HIDE DEF t
<1>4. ClearChar(s) = t
  BY <1>2 DEF t
<1> QED BY <1>1, <1>3, <1>4

LEMMA PointerDrawn ==
    ASSUME NEW s \in Frame, NEW pos \in Place
    PROVE  LET t == DrawPointer(s, pos)
           IN  /\ t \in Frame
               /\ t.X = s.X /\ t.Y = s.Y
               /\ \A i \in Addresses :
                     t.pixels[i] = IF \E d \in Visible(pos) : i = Spot(pos, d)
                                   THEN "white" ELSE s.pixels[i]
               /\ \A d \in Visible(pos) : /\ t.saved[d] = s.pixels[Spot(pos, d)]
                                          /\ t.drawn[d] = "white"
PROOF
<1> DEFINE p == Paint(s, {Spot(pos, d) : d \in Visible(pos)}, "white")
           saved == [d \in Pointer |->
                        IF d \in Visible(pos) THEN s.pixels[Spot(pos, d)] ELSE s.saved[d]]
           drawn == [d \in Pointer |->
                        IF d \in Visible(pos) THEN "white" ELSE s.drawn[d]]
<1>1. /\ p \in Frame
      /\ p.X = s.X /\ p.Y = s.Y /\ p.saved = s.saved /\ p.drawn = s.drawn
      /\ \A i \in Addresses :
            p.pixels[i] = IF i \in {Spot(pos, d) : d \in Visible(pos)}
                          THEN "white" ELSE s.pixels[i]
  BY Painted DEF Colours
<1>2. saved \in [Pointer -> Colours] /\ drawn \in [Pointer -> Colours]
  BY SpotsInFrameBuffer DEF Frame, Colours
<1>3. DrawPointer(s, pos) = [p EXCEPT !.saved = saved, !.drawn = drawn]
  BY <1>1 DEF DrawPointer, Frame
<1>4. \A d \in Visible(pos) : saved[d] = s.pixels[Spot(pos, d)] /\ drawn[d] = "white"
  BY SpotsInFrameBuffer
<1> HIDE DEF p, saved, drawn
<1>5. DrawPointer(s, pos) \in Frame
  BY <1>1, <1>2, <1>3 DEF Frame
<1>6. /\ DrawPointer(s, pos).saved = saved /\ DrawPointer(s, pos).drawn = drawn
      /\ DrawPointer(s, pos).pixels = p.pixels
      /\ DrawPointer(s, pos).X = s.X /\ DrawPointer(s, pos).Y = s.Y
  BY <1>1, <1>3 DEF Frame
<1> QED BY <1>1, <1>4, <1>5, <1>6

\* A pixel of the pointer that was not overwritten gets back what was saved.
Restored(s, t, pos) ==
    \A i \in Addresses :
        \/ \E d \in Visible(pos) : /\ Spot(pos, d) = i /\ s.pixels[i] = s.drawn[d]
                                   /\ t.pixels[i] = s.saved[d]
        \/ /\ t.pixels[i] = s.pixels[i]
           /\ \A d \in Visible(pos) : Spot(pos, d) = i => s.pixels[i] # s.drawn[d]

LEMMA PointerCleared ==
    ASSUME NEW s \in Frame, NEW pos \in Place
    PROVE  LET t == ClearPointer(s, pos)
           IN  /\ t \in Frame
               /\ t.X = s.X /\ t.Y = s.Y
               /\ Restored(s, t, pos)
PROOF
<1> DEFINE kept == {d \in Visible(pos) : s.pixels[Spot(pos, d)] = s.drawn[d]}
           f == [i \in Addresses |->
                    IF \E d \in kept : Spot(pos, d) = i
                    THEN s.saved[CHOOSE d \in kept : Spot(pos, d) = i]
                    ELSE s.pixels[i]]
<1>1. ClearPointer(s, pos) = [s EXCEPT !.pixels = f]
  BY DEF ClearPointer, Frame
<1>2. ASSUME NEW i \in Addresses
      PROVE  /\ f[i] \in Colours
             /\ \/ \E d \in Visible(pos) : /\ Spot(pos, d) = i /\ s.pixels[i] = s.drawn[d]
                                           /\ f[i] = s.saved[d]
                \/ /\ f[i] = s.pixels[i]
                   /\ \A d \in Visible(pos) : Spot(pos, d) = i => s.pixels[i] # s.drawn[d]
  <2>1. CASE \E d \in kept : Spot(pos, d) = i
    <3> DEFINE c == CHOOSE d \in kept : Spot(pos, d) = i
    <3>1. c \in kept /\ Spot(pos, c) = i
      BY <2>1
    <3>2. f[i] = s.saved[c]
      BY <2>1
    <3> HIDE DEF c, f
    <3>3. c \in Visible(pos) /\ s.pixels[i] = s.drawn[c] /\ c \in Pointer
      BY <3>1, SpotsInFrameBuffer
    <3>4. f[i] \in Colours
      BY <3>2, <3>3 DEF Frame
    <3> QED BY <3>1, <3>2, <3>3, <3>4
  <2>2. CASE ~\E d \in kept : Spot(pos, d) = i
    <3>1. f[i] = s.pixels[i]
      BY <2>2
    <3>2. f[i] \in Colours
      BY <3>1 DEF Frame
    <3> QED BY <2>2, <3>1, <3>2
  <2> QED BY <2>1, <2>2
<1>3. f = [i \in Addresses |-> f[i]]
  OBVIOUS
<1> HIDE DEF f
<1>4. f \in [Addresses -> Colours]
  BY <1>2, <1>3
<1>5. ClearPointer(s, pos) \in Frame /\ ClearPointer(s, pos).pixels = f
          /\ ClearPointer(s, pos).X = s.X /\ ClearPointer(s, pos).Y = s.Y
  BY <1>1, <1>4 DEF Frame
<1> QED BY <1>2, <1>5 DEF Restored

-----------------------------------------------------------------------------
(***************************************************************************)
(* Types.  _start is inside a character until its text is printed.         *)
(***************************************************************************)
Printing == pc \notin {"char", "hlt"} => printed < Len(Text)
TypeInv == TypeOK /\ MP!LinkOK /\ Printing

LEMMA TypeFacts ==
    TypeInv => /\ screen \in Frame /\ MouseOK
               /\ screen.X \in Nat /\ screen.Y \in Nat
BY DEF TypeInv, TypeOK, MouseOK, Frame

\* The screen that is cleared, and the listing of the devices on it.
BlankScreen(s) == /\ s \in Frame /\ s.X = 0 /\ s.Y = 0
                  /\ \A i \in Addresses : s.pixels[i] = "black"

LEMMA BlankType ==
    ASSUME NEW g \in [saved : Colours, drawn : Colours]
    PROVE  BlankScreen(Blank([d \in Pointer |-> g.saved], [d \in Pointer |-> g.drawn]))
PROOF
<1>1. AllBlack \in [Addresses -> Colours] /\ \A i \in Addresses : AllBlack[i] = "black"
  BY DEF AllBlack, Colours
<1> QED BY <1>1 DEF BlankScreen, Blank, Frame

LEMMA ListingPrinted ==
    ASSUME NEW s, BlankScreen(s), NEW l, l.rows \in Nat
    PROVE  /\ Listed(s, l) \in Frame
           /\ Listed(s, l).X = 0 /\ Listed(s, l).Y = l.rows * CellHeight
           /\ \A i \in Addresses : Listed(s, l).pixels[i] =
                  IF i \in l.lit THEN "white" ELSE "black"
PROOF
<1> DEFINE y == l.rows * CellHeight
           t == [s EXCEPT !.Y = y]
<1>1. y \in Nat
  BY CellSizes
<1>2. Listed(s, l) = Paint(t, l.lit, "white")
  BY DEF Listed
<1> HIDE DEF y
<1>3. t \in Frame /\ t.X = 0 /\ t.Y = y /\ t.pixels = s.pixels
  BY <1>1 DEF BlankScreen, Frame
<1> HIDE DEF t
<1>4. "white" \in Colours
  BY DEF Colours
<1> DEFINE p == Paint(t, l.lit, "white")
<1>5. /\ p \in Frame /\ p.X = t.X /\ p.Y = t.Y
      /\ \A i \in Addresses : p.pixels[i] = IF i \in l.lit THEN "white" ELSE t.pixels[i]
  BY <1>3, <1>4, Painted
<1>6. Listed(s, l) = p
  BY <1>2
<1> HIDE DEF p
<1> QED BY <1>3, <1>5, <1>6 DEF BlankScreen, y

LEMMA InitType == Init => TypeInv
PROOF
<1> SUFFICES ASSUME Init PROVE TypeInv
  OBVIOUS
<1>1. MouseOK
  BY MouseInit DEF Init
<1>2. screen \in Frame
  <2>1. PICK g \in Garbage, l \in Listings :
            screen = Listed(Blank([d \in Pointer |-> g.saved],
                                  [d \in Pointer |-> g.drawn]), l)
    BY DEF Init
  <2>2. g \in [saved : Colours, drawn : Colours] /\ l.rows \in Nat
    BY InputAssumption
  <2> DEFINE b == Blank([d \in Pointer |-> g.saved], [d \in Pointer |-> g.drawn])
  <2>3. screen = Listed(b, l) /\ BlankScreen(b)
    BY <2>1, <2>2, BlankType
  <2> HIDE DEF b
  <2> QED BY <2>2, <2>3, ListingPrinted
<1>3. Len(Text) \in Nat /\ MaxKeys \in Nat
  BY InputAssumption
<1>4. /\ shift \subseteq Shifts /\ keys \in 0 .. MaxKeys /\ printed \in 0 .. Len(Text)
      /\ reg \in Nat /\ text \subseteq Addresses /\ hidden \subseteq text /\ Printing
      /\ pc = "char" /\ place \in [X : Nat, Y : Nat]
  BY <1>3, InputAssumption DEF Init, Nowhere, Printing
<1>5. raced \in BOOLEAN
  BY Zenon DEF Init
<1> QED BY <1>1, <1>2, <1>4, <1>5 DEF TypeInv, TypeOK, MouseOK, Frame

LEMMA PrintStepType == TypeInv /\ PrintStep => TypeInv'
PROOF
<1> SUFFICES ASSUME TypeInv, PrintStep PROVE TypeInv'
  OBVIOUS
<1>1. screen \in Frame /\ screen.X \in Nat /\ screen.Y \in Nat
  BY TypeFacts
<1>2. Len(Text) \in Nat /\ printed \in Nat
  BY InputAssumption DEF TypeInv, TypeOK
<1>3. UNCHANGED <<shift, keys, mice, raced>>
  BY DEF PrintStep, PrintNewline, LoadArguments, LoadPlace, PrintGlyph, PrintEnd, LoadX, StoreX, TestRowEnd,
         ZeroX, LoadY, StoreY, StartUnchanged
<1>4. MouseOK'
  BY <1>3, TypeFacts, MouseStays
<1>5. shift' \subseteq Shifts /\ keys' \in 0 .. MaxKeys /\ raced' \in BOOLEAN
  BY <1>3 DEF TypeInv, TypeOK
<1>6. screen' \in Frame
  <2>1. CASE PrintGlyph
    BY <1>1, <2>1, Painted DEF PrintGlyph, DrawGlyphAt, Colours
  <2>2. CASE StoreX
    <3>1. reg + CellWidth \in Nat
      BY CellSizes DEF TypeInv, TypeOK
    <3> QED BY <1>1, <2>2, <3>1 DEF StoreX, Frame
  <2>3. CASE StoreY
    <3>1. reg + CellHeight \in Nat
      BY CellSizes DEF TypeInv, TypeOK
    <3> QED BY <1>1, <2>3, <3>1 DEF StoreY, Frame
  <2>4. CASE ZeroX
    BY <1>1, <2>4 DEF ZeroX, Frame
  <2> QED BY <1>1, <2>1, <2>2, <2>3, <2>4
          DEF PrintStep, PrintNewline, LoadArguments, LoadPlace, PrintEnd, LoadX,
              TestRowEnd, LoadY
<1>7. text' \subseteq Addresses /\ hidden' \subseteq text'
  <2>1. CASE PrintGlyph
    BY <2>1 DEF PrintGlyph, TextDrawn, TypeInv, TypeOK
  <2> QED BY <2>1 DEF PrintStep, PrintNewline, LoadArguments, LoadPlace, PrintEnd, LoadX,
                      StoreX, TestRowEnd, ZeroX, LoadY, StoreY, TypeInv, TypeOK
<1>8. /\ pc' \in {"char", "placeX", "placeY", "draw", "loadX", "storeX", "test", "zeroX",
                  "loadY", "storeY", "hlt"}
      /\ printed' \in 0 .. Len(Text) /\ reg' \in Nat
      /\ Printing'
  BY <1>1, <1>2 DEF PrintStep, PrintNewline, LoadArguments, LoadPlace, PrintGlyph,
                    PrintEnd, LoadX, StoreX, TestRowEnd, ZeroX, LoadY, StoreY, Printing,
                    TypeInv, TypeOK
<1>9. place' \in [X : Nat, Y : Nat]
  <2>1. place \in [X : Nat, Y : Nat] /\ Nowhere \in [X : Nat, Y : Nat]
    BY DEF TypeInv, TypeOK, Nowhere
  <2> QED BY <1>1, <2>1 DEF PrintStep, PrintNewline, LoadArguments, LoadPlace, PrintGlyph,
                            PrintEnd, LoadX, StoreX, TestRowEnd, ZeroX, LoadY, StoreY
<1> QED BY <1>4, <1>5, <1>6, <1>7, <1>8, <1>9 DEF TypeInv, TypeOK, MouseOK, Frame

LEMMA KeyType == TypeInv /\ KeyboardInterrupt => TypeInv'
PROOF
<1> SUFFICES ASSUME TypeInv, KeyboardInterrupt PROVE TypeInv'
  OBVIOUS
<1>1. screen \in Frame /\ screen.X \in Nat /\ screen.Y \in Nat
  BY TypeFacts
<1>2. Key
  BY DEF KeyboardInterrupt, ShiftKey, CharacterKey, OtherKey, EnterKey, BackspaceKey
<1>3. MouseOK'
  BY <1>2, TypeFacts, MouseStays DEF Key
<1>4. UNCHANGED starts /\ keys' \in 0 .. MaxKeys
  BY <1>2, InputAssumption DEF Key, TypeInv, TypeOK
<1>5. raced' \in BOOLEAN
  BY <1>2, Zenon DEF Key
<1>6. shift' \subseteq Shifts
  BY DEF KeyboardInterrupt, ShiftKey, CharacterKey, OtherKey, EnterKey, BackspaceKey,
         TypeInv, TypeOK
<1>7. /\ screen' \in Frame
      /\ text' \subseteq Addresses /\ hidden' \subseteq text'
  <2>1. CASE UNCHANGED <<screen, text, hidden>>
    BY <1>1, <2>1 DEF TypeInv, TypeOK
  <2>2. ASSUME NEW code \in ScanCodes, CharacterKey(code)
        PROVE  /\ screen' \in Frame
               /\ text' \subseteq Addresses /\ hidden' \subseteq text'
    BY <1>1, <2>2, CharacterPut DEF CharacterKey, TextDrawn, TypeInv, TypeOK
  <2>3. CASE EnterKey
    <3>1. screen.Y + CellHeight \in Nat
      BY <1>1, CellSizes
    <3> QED BY <1>1, <2>3, <3>1 DEF EnterKey, NextLine, TypeInv, TypeOK, Frame
  <2>4. CASE BackspaceKey
    <3>1. CASE screen.X = 0 /\ screen.Y = 0
      BY <1>1, <2>4, <3>1 DEF BackspaceKey, ClearChar, TypeInv, TypeOK
    <3>2. CASE ~(screen.X = 0 /\ screen.Y = 0)
      BY <1>1, <2>4, <3>2, CharacterCleared DEF BackspaceKey, TextCleared, TypeInv, TypeOK
    <3> QED BY <3>1, <3>2
  <2> QED BY <2>1, <2>2, <2>3, <2>4 DEF KeyboardInterrupt, ShiftKey, OtherKey
<1> QED BY <1>3, <1>4, <1>5, <1>6, <1>7
        DEF TypeInv, TypeOK, MouseOK, Frame, Printing, starts

\* What the mouse handler does to the screen when it processes a packet.
LEMMA MouseScreen ==
    ASSUME TypeInv, MouseInterrupt
    PROVE  /\ screen' \in Frame
           /\ screen'.X = screen.X /\ screen'.Y = screen.Y
           /\ MouseOK'
PROOF
<1>1. screen \in Frame /\ MouseOK /\ M!Next
  BY TypeFacts DEF MouseInterrupt
<1>2. /\ mouse.old \in Place /\ mouse'.old \in Place
      /\ mouse'.old = IF mouse.ready THEN M!Target(mouse) ELSE mouse.old
  BY <1>1, PointerMoved
<1>3. CASE mouse.ready
  <2> DEFINE cleared == ClearPointer(screen, mouse.old)
  <2>1. cleared \in Frame /\ cleared.X = screen.X /\ cleared.Y = screen.Y
    BY <1>1, <1>2, PointerCleared
  <2>2. screen' = DrawPointer(cleared, mouse'.old)
    BY <1>2, <1>3 DEF MouseInterrupt, Redrawn
  <2> HIDE DEF cleared
  <2> QED BY <1>1, <1>2, <2>1, <2>2, PointerDrawn, MouseNext
<1>4. CASE ~mouse.ready
  BY <1>1, <1>4, MouseNext DEF MouseInterrupt
<1> QED BY <1>3, <1>4

LEMMA NextType == TypeInv /\ [Next]_vars => TypeInv'
PROOF
<1> SUFFICES ASSUME TypeInv, [Next]_vars PROVE TypeInv'
  OBVIOUS
<1>1. CASE MouseInterrupt
  BY <1>1, MouseScreen DEF MouseInterrupt, TypeInv, TypeOK, MouseOK, Frame, Printing, starts
<1>2. CASE UNCHANGED vars
  <2>1. MouseOK'
    BY <1>2, TypeFacts, MouseStays DEF vars
  <2> QED BY <1>2, <2>1 DEF vars, starts, TypeInv, TypeOK, MouseOK, Printing
<1> QED BY <1>1, <1>2, PrintStepType, KeyType DEF Next

\* Cursor, pixels, buffers, keys and mouse keep their types: the cursor is
\* never left or above of the frame buffer, and the handlers put nothing but
\* colours they read or draw with into the buffers.
THEOREM TypeCorrect == Spec => []TypeOK
PROOF
<1>1. TypeInv => TypeOK
  BY DEF TypeInv
<1> QED BY <1>1, InitType, NextType, PTL DEF Spec

-----------------------------------------------------------------------------
(***************************************************************************)
(* Arithmetic of the grid of cells.                                        *)
(***************************************************************************)
LEMMA Multiple ==
    ASSUME NEW c \in Nat, c > 0, NEW a \in Nat, a % c = 0
    PROVE  \E k \in Nat : a = k * c
PROOF
<1> DEFINE k == a \div c
<1>1. k \in Int
  OBVIOUS
<1>2. c * k <= a /\ a < c * k + c
  OBVIOUS
<1>3. a = c * k
  OBVIOUS
<1> HIDE DEF k
<1>4. k >= 0
  <2>1. CASE k <= -1
    <3>1. c * k <= c * (-1)
      BY <1>1, <2>1
    <3> QED BY <1>1, <1>3, <3>1
  <2> QED BY <1>1, <2>1
<1>5. c * k = k * c
  BY <1>1
<1> QED BY <1>1, <1>3, <1>4, <1>5

LEMMA OfMultiple ==
    ASSUME NEW c \in Nat, c > 0, NEW k \in Nat
    PROVE  (k * c) % c = 0
OBVIOUS

LEMMA NextCell ==
    ASSUME NEW c \in Nat, c > 0, NEW a \in Nat, a % c = 0
    PROVE  /\ (a + c) % c = 0
           /\ a >= c => (a - c) % c = 0
           /\ a < c => a = 0
PROOF
<1>1. PICK k \in Nat : a = k * c
  BY Multiple
<1>2. (k + 1) * c = a + c
  BY <1>1
<1>3. (a + c) % c = 0
  <2> DEFINE n == k + 1
  <2>1. n \in Nat /\ a + c = n * c
    BY <1>2
  <2> HIDE DEF n
  <2>2. (n * c) % c = 0
    BY <2>1, OfMultiple
  <2> QED BY <2>1, <2>2
<1>4. ASSUME a >= c PROVE (a - c) % c = 0
  <2>1. k # 0
    BY <1>1, <1>4
  <2> DEFINE n == k - 1
  <2>2. n \in Nat /\ a - c = n * c
    BY <1>1, <2>1
  <2> HIDE DEF n
  <2>3. (n * c) % c = 0
    BY <2>2, OfMultiple
  <2> QED BY <2>2, <2>3
<1>5. a < c => a = 0
  OBVIOUS
<1> QED BY <1>3, <1>4, <1>5

\* A start of a cell in the row leaves a whole cell or is the row's end.
LEMMA LastCell ==
    ASSUME NEW c \in Nat, c > 0, NEW a \in Nat, a % c = 0, NEW b \in Nat, b % c = 0,
           a <= b, a + c > b
    PROVE  a = b
PROOF
<1>1. PICK k \in Nat : a = k * c
  BY Multiple
<1>2. PICK n \in Nat : b = n * c
  BY Multiple
<1>3. CASE k < n
  <2>1. k + 1 <= n
    BY <1>3
  <2>2. (k + 1) * c <= n * c
    BY <2>1
  <2>3. (k + 1) * c = a + c
    BY <1>1
  <2> QED BY <1>2, <2>2, <2>3
<1>4. CASE k >= n
  <2>1. n * c <= k * c
    BY <1>4
  <2> QED BY <1>1, <1>2, <2>1
<1> QED BY <1>3, <1>4

(***************************************************************************)
(* The cursor.  It stays at the start of a cell of its row; print leaves   *)
(* the row only between the store of X and next, and what it holds in its  *)
(* register is on the grid too.                                            *)
(***************************************************************************)
CursorInv ==
    /\ screen.X % CellWidth = 0 /\ screen.Y % CellHeight = 0
    /\ screen.X <= Width
    /\ AtRowEnd(screen) => pc \in {"test", "zeroX"}
    /\ pc = "storeX" => reg % CellWidth = 0 /\ reg + CellWidth <= Width
    /\ pc = "storeY" => reg % CellHeight = 0

(***************************************************************************)
(* The cells ahead.  EmptyAhead at each point of print: between the store  *)
(* of the glyph and that of X it holds of the next cell, and from there to *)
(* the store of Y of the row that next goes to.                            *)
(***************************************************************************)
EmptyFrom(T, x, y) ==
    \A i \in T : ~ /\ i \div Scanline >= y
                   /\ \/ i % Scanline >= x
                      \/ i \div Scanline >= y + CellHeight
InRow(T) == \A i \in T : i % Scanline < Width

EmptyInv ==
    ~raced =>
        /\ InRow(text)
        /\ pc \in {"char", "placeX", "placeY", "draw", "hlt", "test"} =>
               EmptyFrom(text, screen.X, screen.Y)
        /\ pc \in {"placeY", "draw"} => place.X = screen.X
        /\ pc \in {"placeX", "draw"} => place.Y = screen.Y
        /\ pc \in {"loadX", "storeX"} =>
               EmptyFrom(text, screen.X + CellWidth, screen.Y)
        /\ pc \in {"zeroX", "loadY", "storeY"} =>
               EmptyFrom(text, 0, screen.Y + CellHeight)
        /\ pc = "storeX" => reg = screen.X
        /\ pc = "storeY" => reg = screen.Y
        /\ pc \in {"loadY", "storeY"} => screen.X = 0

(***************************************************************************)
(* The pixels.  What is neither text nor pointer is black, and so is what  *)
(* the buffer holds for it, unless it was below the pointer at the first   *)
(* packet, when the buffers are uninitialized.  Text that was there before *)
(* the pointer is saved in the buffer; text written after it is hidden.    *)
(***************************************************************************)
Saved(d) ==
    LET i == Spot(mouse.old, d)
    IN  /\ i \notin OriginShape => screen.drawn[d] = "white"
        /\ i \notin text \cup OriginShape =>
               \/ screen.pixels[i] = "white" /\ screen.saved[d] = "black"
               \/ screen.pixels[i] = "black"
        /\ i \in text \ hidden => screen.saved[d] = "white"

PixelInv == /\ NoTrails /\ PointerSparesText
            /\ \A d \in Visible(mouse.old) : Saved(d)

-----------------------------------------------------------------------------
(***************************************************************************)
(* The cursor is on the grid.                                              *)
(***************************************************************************)
LEMMA CursorFacts ==
    ASSUME WholeCells, TypeInv, CursorInv
    PROVE  /\ screen.X \in Nat /\ screen.Y \in Nat
           /\ screen.X <= Width
           /\ screen.X + CellWidth > Width => screen.X = Width
           /\ (screen.X + CellWidth) % CellWidth = 0
           /\ (screen.Y + CellHeight) % CellHeight = 0
           /\ screen.X < CellWidth => screen.X = 0
           /\ screen.Y < CellHeight => screen.Y = 0
           /\ screen.X >= CellWidth => (screen.X - CellWidth) % CellWidth = 0
           /\ screen.Y >= CellHeight => (screen.Y - CellHeight) % CellHeight = 0
           /\ (Width - CellWidth) % CellWidth = 0
PROOF
<1>1. /\ screen.X \in Nat /\ screen.Y \in Nat
      /\ screen.X % CellWidth = 0 /\ screen.Y % CellHeight = 0 /\ screen.X <= Width
  BY TypeFacts DEF CursorInv
<1>2. Width % CellWidth = 0
  BY DEF WholeCells
<1>3. screen.X + CellWidth > Width => screen.X = Width
  BY <1>1, <1>2, CellSizes, LastCell
<1>4. /\ (screen.X + CellWidth) % CellWidth = 0
      /\ screen.X < CellWidth => screen.X = 0
      /\ screen.X >= CellWidth => (screen.X - CellWidth) % CellWidth = 0
  BY <1>1, CellSizes, NextCell
<1>5. /\ (screen.Y + CellHeight) % CellHeight = 0
      /\ screen.Y < CellHeight => screen.Y = 0
      /\ screen.Y >= CellHeight => (screen.Y - CellHeight) % CellHeight = 0
  BY <1>1, CellSizes, NextCell
<1>6. (Width - CellWidth) % CellWidth = 0
  BY <1>2, CellSizes, NextCell
<1> QED BY <1>1, <1>3, <1>4, <1>5, <1>6

LEMMA ZeroOnGrid == 0 % CellWidth = 0 /\ 0 % CellHeight = 0
BY CellSizes

LEMMA PrintStepCursor ==
    ASSUME WholeCells
    PROVE  TypeInv /\ CursorInv /\ PrintStep => CursorInv'
PROOF
<1> SUFFICES ASSUME TypeInv, CursorInv, PrintStep PROVE CursorInv'
  OBVIOUS
<1>1. /\ screen \in Frame /\ screen.X \in Nat /\ screen.Y \in Nat
      /\ reg \in Nat
  BY TypeFacts DEF TypeInv, TypeOK
<1>2. /\ screen.X % CellWidth = 0 /\ screen.Y % CellHeight = 0 /\ screen.X <= Width
      /\ screen.X + CellWidth > Width => pc \in {"test", "zeroX"}
  BY DEF CursorInv, AtRowEnd
<1>3. CASE PrintNewline \/ LoadArguments \/ PrintEnd \/ TestRowEnd
  <2>1. screen' = screen /\ pc' \in {"placeX", "placeY", "draw", "zeroX", "hlt", "char"}
        /\ (AtRowEnd(screen) => pc' \in {"test", "zeroX"})
    BY <1>3 DEF PrintNewline, LoadArguments, LoadPlace, PrintEnd, TestRowEnd, CursorInv
  <2> QED BY <1>2, <2>1 DEF CursorInv, AtRowEnd
<1>4. CASE PrintGlyph
  <2>1. screen'.X = screen.X /\ screen'.Y = screen.Y
    BY <1>1, <1>4, Painted DEF PrintGlyph, DrawGlyphAt, Colours
  <2>2. pc = "draw" /\ pc' = "loadX"
    BY <1>4 DEF PrintGlyph
  <2> QED BY <1>2, <2>1, <2>2 DEF CursorInv, AtRowEnd
<1>5. CASE LoadX
  <2>1. reg' = screen.X /\ screen' = screen /\ pc = "loadX" /\ pc' = "storeX"
    BY <1>5 DEF LoadX
  <2>2. reg' + CellWidth <= Width
    BY <1>1, <1>2, <2>1, CellSizes
  <2> QED BY <1>2, <2>1, <2>2 DEF CursorInv, AtRowEnd
<1>6. CASE StoreX
  <2>1. screen'.X = reg + CellWidth /\ screen'.Y = screen.Y
    BY <1>1, <1>6 DEF StoreX, Frame
  <2>2. (reg + CellWidth) % CellWidth = 0 /\ reg + CellWidth <= Width
    BY <1>1, <1>6, CellSizes, NextCell DEF StoreX, CursorInv
  <2> QED BY <1>2, <1>6, <2>1, <2>2 DEF StoreX, CursorInv
<1>7. CASE ZeroX
  <2>1. screen'.X = 0 /\ screen'.Y = screen.Y /\ pc' = "loadY"
    BY <1>1, <1>7 DEF ZeroX, Frame
  <2> QED BY <1>2, <2>1, ZeroOnGrid, CellSizes DEF CursorInv, AtRowEnd
<1>8. CASE LoadY
  <2>1. reg' = screen.Y /\ screen' = screen /\ pc = "loadY" /\ pc' = "storeY"
    BY <1>8 DEF LoadY
  <2> QED BY <1>2, <2>1 DEF CursorInv, AtRowEnd
<1>9. CASE StoreY
  <2>1. screen'.X = screen.X /\ screen'.Y = reg + CellHeight /\ pc = "storeY" /\ pc' = "char"
    BY <1>1, <1>9 DEF StoreY, Frame
  <2>2. (reg + CellHeight) % CellHeight = 0
    BY <1>1, <2>1, CellSizes, NextCell DEF CursorInv
  <2> QED BY <1>2, <2>1, <2>2 DEF CursorInv, AtRowEnd
<1> QED BY <1>3, <1>4, <1>5, <1>6, <1>7, <1>8, <1>9 DEF PrintStep

LEMMA KeyCursor ==
    ASSUME WholeCells
    PROVE  TypeInv /\ CursorInv /\ KeyboardInterrupt => CursorInv'
PROOF
<1> SUFFICES ASSUME TypeInv, CursorInv, KeyboardInterrupt PROVE CursorInv'
  OBVIOUS
<1>1. /\ screen \in Frame /\ screen.X \in Nat /\ screen.Y \in Nat
  BY TypeFacts
<1>2. UNCHANGED <<pc, reg>>
  BY DEF KeyboardInterrupt, ShiftKey, CharacterKey, OtherKey, EnterKey, BackspaceKey,
         Key, starts
<1>3. ASSUME /\ screen'.X \in Nat /\ screen'.Y \in Nat
             /\ screen'.X % CellWidth = 0 /\ screen'.Y % CellHeight = 0
             /\ screen'.X + CellWidth <= Width
      PROVE  CursorInv'
  <2>1. screen'.X <= Width /\ ~(screen'.X + CellWidth > Width)
    BY <1>3, CellSizes
  <2> QED BY <1>2, <1>3, <2>1 DEF CursorInv, AtRowEnd
<1>4. CASE UNCHANGED screen
  BY <1>2, <1>4 DEF CursorInv, AtRowEnd
<1>5. /\ screen.X % CellWidth = 0 /\ screen.Y % CellHeight = 0
      /\ (screen.X + CellWidth) % CellWidth = 0
      /\ (screen.Y + CellHeight) % CellHeight = 0
      /\ screen.X <= Width
      /\ screen.X < CellWidth => screen.X = 0
      /\ screen.X >= CellWidth => (screen.X - CellWidth) % CellWidth = 0
      /\ screen.Y >= CellHeight => (screen.Y - CellHeight) % CellHeight = 0
      /\ (Width - CellWidth) % CellWidth = 0
      /\ 0 % CellWidth = 0 /\ 0 % CellHeight = 0 /\ 0 + CellWidth <= Width
      /\ 0 \in Nat /\ screen.Y + CellHeight \in Nat
  <2>1. /\ screen.X % CellWidth = 0 /\ screen.Y % CellHeight = 0
        /\ screen.Y + CellHeight \in Nat /\ 0 + CellWidth <= Width
    BY <1>1, CellSizes DEF CursorInv
  <2> QED BY <2>1, CursorFacts, ZeroOnGrid
<1>6. ASSUME NEW code \in ScanCodes, CharacterKey(code)
      PROVE  CursorInv'
  <2>1. IF screen.X + CellWidth + CellWidth > Width
        THEN screen'.X = 0 /\ screen'.Y = screen.Y + CellHeight
        ELSE screen'.X = screen.X + CellWidth /\ screen'.Y = screen.Y
    BY <1>1, <1>6, CharacterPut DEF CharacterKey
  <2>2. CASE screen.X + CellWidth + CellWidth > Width
    <3>1. screen'.X = 0 /\ screen'.Y = screen.Y + CellHeight
      BY <2>1, <2>2
    <3> QED BY <1>3, <1>5, <3>1
  <2>3. CASE ~(screen.X + CellWidth + CellWidth > Width)
    <3>1. screen'.X = screen.X + CellWidth /\ screen'.Y = screen.Y
      BY <2>1, <2>3
    <3>2. screen'.X + CellWidth <= Width /\ screen'.X \in Nat
      BY <1>1, <2>3, <3>1, CellSizes
    <3> QED BY <1>1, <1>3, <1>5, <3>1, <3>2
  <2> QED BY <2>2, <2>3
<1>7. CASE EnterKey
  <2>1. screen'.X = 0 /\ screen'.Y = screen.Y + CellHeight
    BY <1>1, <1>7 DEF EnterKey, NextLine, Frame
  <2> QED BY <1>3, <1>5, <2>1
<1>8. CASE BackspaceKey
  <2>1. CASE screen.X = 0 /\ screen.Y = 0
    BY <1>4, <1>8, <2>1 DEF BackspaceKey, ClearChar
  <2>2. CASE ~(screen.X = 0 /\ screen.Y = 0)
    <3>1. IF screen.X >= CellWidth
          THEN screen'.X = screen.X - CellWidth /\ screen'.Y = screen.Y
          ELSE /\ screen'.X = screen.X - CellWidth + Width
               /\ screen'.Y = IF screen.Y < CellHeight THEN 0 ELSE screen.Y - CellHeight
      BY <1>1, <1>8, <2>2, CharacterCleared DEF BackspaceKey
    <3>2. CASE screen.X >= CellWidth
      <4>1. screen'.X = screen.X - CellWidth /\ screen'.Y = screen.Y
        BY <3>1, <3>2
      <4>2. screen'.X + CellWidth <= Width /\ screen'.X \in Nat
        BY <1>1, <1>5, <3>2, <4>1, CellSizes
      <4> QED BY <1>1, <1>3, <1>5, <3>2, <4>1, <4>2
    <3>3. CASE ~(screen.X >= CellWidth)
      <4>1. screen.X = 0
        BY <1>1, <1>5, <3>3, CellSizes
      <4>2. screen'.X = Width - CellWidth
        BY <3>1, <3>3, <4>1, CellSizes
      <4>3. screen'.X + CellWidth <= Width /\ screen'.X \in Nat
        BY <4>2, CellSizes
      <4>4. screen'.Y \in Nat /\ screen'.Y % CellHeight = 0
        <5>1. CASE screen.Y < CellHeight
          BY <1>5, <3>1, <3>3, <5>1
        <5>2. CASE ~(screen.Y < CellHeight)
          <6>1. screen'.Y = screen.Y - CellHeight
            BY <3>1, <3>3, <5>2
          <6>2. screen.Y >= CellHeight /\ screen.Y - CellHeight \in Nat
            BY <1>1, <5>2, CellSizes
          <6> QED BY <1>5, <6>1, <6>2
        <5> QED BY <5>1, <5>2
      <4> QED BY <1>3, <1>5, <4>2, <4>3, <4>4
    <3> QED BY <3>2, <3>3
  <2> QED BY <2>1, <2>2
<1> QED BY <1>4, <1>6, <1>7, <1>8 DEF KeyboardInterrupt, ShiftKey, OtherKey

LEMMA NextCursor ==
    ASSUME WholeCells
    PROVE  TypeInv /\ CursorInv /\ [Next]_vars => CursorInv'
PROOF
<1> SUFFICES ASSUME TypeInv, CursorInv, [Next]_vars PROVE CursorInv'
  OBVIOUS
<1>1. CASE MouseInterrupt
  BY <1>1, MouseScreen DEF MouseInterrupt, starts, CursorInv, AtRowEnd
<1>2. CASE UNCHANGED vars
  BY <1>2 DEF vars, starts, CursorInv, AtRowEnd
<1> QED BY <1>1, <1>2, PrintStepCursor, KeyCursor DEF Next

LEMMA InitListing ==
    Init => \E l \in Listings :
                /\ l.rows \in Nat
                /\ screen.X = 0 /\ screen.Y = l.rows * CellHeight
                /\ text = l.lit /\ hidden = l.lit \cap OriginShape
                /\ \A i \in Addresses :
                      screen.pixels[i] = IF i \in l.lit THEN "white" ELSE "black"
PROOF
<1> SUFFICES ASSUME Init PROVE \E l \in Listings :
                /\ l.rows \in Nat
                /\ screen.X = 0 /\ screen.Y = l.rows * CellHeight
                /\ text = l.lit /\ hidden = l.lit \cap OriginShape
                /\ \A i \in Addresses :
                      screen.pixels[i] = IF i \in l.lit THEN "white" ELSE "black"
  OBVIOUS
<1>1. PICK g \in Garbage, l \in Listings :
          /\ screen = Listed(Blank([d \in Pointer |-> g.saved],
                                   [d \in Pointer |-> g.drawn]), l)
          /\ text = l.lit /\ hidden = l.lit \cap OriginShape
  BY DEF Init
<1>2. g \in [saved : Colours, drawn : Colours] /\ l.rows \in Nat
  BY InputAssumption
<1> DEFINE b == Blank([d \in Pointer |-> g.saved], [d \in Pointer |-> g.drawn])
<1>3. screen = Listed(b, l) /\ BlankScreen(b)
  BY <1>1, <1>2, BlankType
<1> HIDE DEF b
<1>4. /\ screen.X = 0 /\ screen.Y = l.rows * CellHeight
      /\ \A i \in Addresses :
            screen.pixels[i] = IF i \in l.lit THEN "white" ELSE "black"
  BY <1>2, <1>3, ListingPrinted
<1> QED BY <1>1, <1>2, <1>4

LEMMA InitCursor == Init => CursorInv
PROOF
<1> SUFFICES ASSUME Init PROVE CursorInv
  OBVIOUS
<1>1. PICK l \in Listings : /\ screen.X = 0 /\ screen.Y = l.rows * CellHeight
                            /\ l.rows \in Nat
  BY InitListing
<1>2. (l.rows * CellHeight) % CellHeight = 0
  BY <1>1, CellSizes, OfMultiple
<1>3. pc = "char"
  BY DEF Init
<1> QED BY <1>1, <1>2, <1>3, ZeroOnGrid, CellSizes DEF CursorInv, AtRowEnd

\* print, put_char, next and clear_char agree on a grid of cells, however the
\* keyboard interrupt falls into the loads and stores of print: the cursor is
\* at the start of a cell of its row, or past the last one while print is
\* about to go to the next row.
THEOREM CursorStaysOnGrid ==
    ASSUME WholeCells
    PROVE  Spec => []CursorOnGrid
PROOF
<1>1. TypeInv /\ CursorInv => CursorOnGrid
  BY CursorFacts DEF CursorInv, CursorOnGrid, AtRowEnd
<1> QED BY <1>1, InitType, InitCursor, NextType, NextCursor, PTL DEF Spec

-----------------------------------------------------------------------------
(***************************************************************************)
(* Cells and what is written in them.                                      *)
(***************************************************************************)
Offsets == (0 .. CellWidth - 1) \X (0 .. CellHeight - 1)

\* What a key or a character of the text puts on the screen has a glyph.
LEMMA TableEntries == \A n \in 1 .. 58 : ascii_table[n] \in 0 .. 127
BY DEF ascii_table

LEMMA CharacterGlyph ==
    ASSUME NEW code \in ScanCodes
    PROVE  Font[Character(code)] \subseteq Offsets
PROOF
<1>1. code \in 0 .. 255
  BY InputAssumption
<1>2. Len(ascii_table) = 58
  BY DEF ascii_table
<1>3. ASSUME NEW upper_case \in BOOLEAN
      PROVE  translate(code, upper_case) \in Characters
  <2> DEFINE entry == IF code = 58 THEN BehindTable ELSE ascii_table[code + 1]
  <2>1. translate(code, upper_case) = IF code > 58 THEN 0
            ELSE IF upper_case THEN AsChar(entry - 32) ELSE entry
    BY <1>2 DEF translate
  <2>2. code <= 58 => entry \in Characters
    BY <1>1, TableEntries, TableAssumption DEF Characters
  <2> HIDE DEF entry
  <2>3. \A n \in Int : AsChar(n) \in Characters
    BY DEF AsChar, Characters
  <2>4. code <= 58 => entry - 32 \in Int
    BY <2>2 DEF Characters
  <2>5. 0 \in Characters
    BY DEF Characters
  <2> QED BY <1>1, <2>1, <2>2, <2>3, <2>4, <2>5
<1>4. 32 \in Characters
  BY DEF Characters
<1>5. (shift # {}) \in BOOLEAN
  OBVIOUS
<1>6. Character(code) \in Characters
  BY <1>3, <1>4, <1>5 DEF Character
<1> QED BY <1>6, InputAssumption DEF Offsets

\* The pixels of a cell.
LEMMA GlyphInCell ==
    ASSUME NEW x \in Nat, NEW y \in Nat, x + CellWidth <= Width,
           NEW glyph, glyph \subseteq Offsets, NEW i \in GlyphAt(glyph, x, y)
    PROVE  /\ i % Scanline \in x .. x + CellWidth - 1
           /\ i \div Scanline \in y .. y + CellHeight - 1
PROOF
<1>1. PICK d \in glyph : i = At(x + d[1], y + d[2])
  BY DEF GlyphAt
<1>2. d[1] \in 0 .. CellWidth - 1 /\ d[2] \in 0 .. CellHeight - 1
  BY <1>1 DEF Offsets
<1>3. Scanline \in Nat /\ Width <= Scanline
  BY ScreenAssumption
<1>4. x + d[1] \in 0 .. Scanline - 1 /\ y + d[2] \in Nat
  BY <1>2, <1>3, CellSizes
<1>5. i % Scanline = x + d[1] /\ i \div Scanline = y + d[2]
  BY <1>1, <1>4, RowAndColumn
<1> QED BY <1>2, <1>5, CellSizes

LEMMA CellHolds ==
    ASSUME NEW x \in Nat, NEW y \in Nat, NEW i \in Addresses,
           i % Scanline \in x .. x + CellWidth - 1,
           i \div Scanline \in y .. y + CellHeight - 1
    PROVE  i \in CellAt(x, y)
PROOF
<1> DEFINE column == i % Scanline
           row == i \div Scanline
<1>1. Scanline \in Nat /\ Scanline > 0 /\ Height \in Nat
  BY ScreenAssumption
<1>2. i \in Nat
  BY <1>1 DEF Addresses
<1>3. column \in Nat /\ row \in Int /\ i = column + Scanline * row
  BY <1>1, <1>2
<1> HIDE DEF column, row
<1>4. column \in x .. x + CellWidth - 1 /\ row \in y .. y + CellHeight - 1
  BY DEF column, row
<1>5. column - x \in 0 .. CellWidth - 1 /\ row - y \in 0 .. CellHeight - 1
  BY <1>3, <1>4, CellSizes
<1> DEFINE d == <<column - x, row - y>>
<1>6. d \in Offsets /\ d[1] = column - x /\ d[2] = row - y
  BY <1>5 DEF Offsets
<1>7. x + d[1] = column /\ y + d[2] = row
  BY <1>3, <1>6
<1>8. i = At(x + d[1], y + d[2])
  BY <1>1, <1>3, <1>7 DEF At
<1> QED BY <1>6, <1>8 DEF CellAt, GlyphAt, Offsets

LEMMA AddressParts ==
    ASSUME NEW i \in Addresses
    PROVE  i % Scanline \in Nat /\ i \div Scanline \in Int
PROOF
<1>1. Scanline \in Nat /\ Scanline > 0 /\ Height \in Nat
  BY ScreenAssumption
<1> QED BY <1>1 DEF Addresses

\* The glyph drawn at the cursor leaves the next cell and the next row empty.
LEMMA GlyphAhead ==
    ASSUME NEW T \in SUBSET Addresses, NEW x \in Nat, NEW y \in Nat,
           x + CellWidth <= Width, NEW glyph, glyph \subseteq Offsets,
           EmptyFrom(T, x, y), InRow(T),
           NEW U \in SUBSET Addresses, U \subseteq T \cup GlyphAt(glyph, x, y)
    PROVE  EmptyFrom(U, x + CellWidth, y) /\ EmptyFrom(U, 0, y + CellHeight) /\ InRow(U)
PROOF
<1>1. ASSUME NEW i \in U
      PROVE  /\ ~ /\ i \div Scanline >= y
                  /\ i % Scanline >= x + CellWidth \/ i \div Scanline >= y + CellHeight
             /\ ~(i \div Scanline >= y + CellHeight)
             /\ i % Scanline < Width
  <2>1. i % Scanline \in Nat /\ i \div Scanline \in Int
    BY AddressParts
  <2>2. CASE i \in T
    <3>1. ~ /\ i \div Scanline >= y
            /\ i % Scanline >= x \/ i \div Scanline >= y + CellHeight
      BY <2>2 DEF EmptyFrom
    <3>2. i % Scanline < Width
      BY <2>2 DEF InRow
    <3> DEFINE row == i \div Scanline
               column == i % Scanline
    <3> HIDE DEF row, column
    <3>3. /\ row \in Int /\ column \in Nat
          /\ ~(row >= y /\ (column >= x \/ row >= y + CellHeight))
      BY <2>1, <3>1 DEF row, column
    <3>4. /\ ~(row >= y /\ (column >= x + CellWidth \/ row >= y + CellHeight))
          /\ ~(row >= y + CellHeight)
      BY <3>3, CellSizes
    <3> QED BY <3>2, <3>4 DEF row, column
  <2>3. CASE i \in GlyphAt(glyph, x, y)
    <3>1. /\ i % Scanline \in x .. x + CellWidth - 1
          /\ i \div Scanline \in y .. y + CellHeight - 1
      BY <2>3, GlyphInCell
    <3> DEFINE row == i \div Scanline
               column == i % Scanline
    <3> HIDE DEF row, column
    <3>2. row \in y .. y + CellHeight - 1 /\ column \in x .. x + CellWidth - 1
      BY <3>1 DEF row, column
    <3>3. /\ ~(column >= x + CellWidth) /\ ~(row >= y + CellHeight)
          /\ column < Width
      BY <3>2, CellSizes
    <3> QED BY <3>3 DEF row, column
  <2> QED BY <2>2, <2>3
<1>2. EmptyFrom(U, x + CellWidth, y)
  BY <1>1 DEF EmptyFrom
<1>3. InRow(U)
  BY <1>1 DEF InRow
<1>4. ASSUME NEW i \in U
      PROVE  ~ /\ i \div Scanline >= y + CellHeight
               /\ i % Scanline >= 0 \/ i \div Scanline >= y + CellHeight + CellHeight
  BY <1>1
<1> QED BY <1>2, <1>3, <1>4 DEF EmptyFrom

LEMMA RowAhead ==
    ASSUME NEW T \in SUBSET Addresses, NEW x \in Nat, NEW y \in Nat, EmptyFrom(T, x, y)
    PROVE  EmptyFrom(T, 0, y + CellHeight)
PROOF
<1>1. ASSUME NEW i \in T
      PROVE  ~(i \div Scanline >= y + CellHeight)
  <2> DEFINE row == i \div Scanline
  <2>1. row \in Int /\ (row >= y => ~(row >= y + CellHeight))
    BY AddressParts DEF EmptyFrom
  <2> HIDE DEF row
  <2>2. ~(row >= y + CellHeight)
    BY <2>1, CellSizes
  <2> QED BY <2>2 DEF row
<1> QED BY <1>1 DEF EmptyFrom

\* A cell that is cleared is empty, and so is what was ahead of it: back in
\* the row, and back to the end of the row above.
LEMMA CellFreed ==
    ASSUME NEW T \in SUBSET Addresses, NEW x \in Nat, NEW y \in Nat,
           x >= CellWidth, EmptyFrom(T, x, y)
    PROVE  EmptyFrom(T \ CellAt(x - CellWidth, y), x - CellWidth, y)
PROOF
<1> SUFFICES ASSUME NEW i \in T \ CellAt(x - CellWidth, y)
             PROVE  ~ /\ i \div Scanline >= y
                      /\ \/ i % Scanline >= x - CellWidth
                         \/ i \div Scanline >= y + CellHeight
  BY DEF EmptyFrom
<1> DEFINE row == i \div Scanline
           column == i % Scanline
<1>1. i \in Addresses /\ row \in Int /\ column \in Nat
  BY AddressParts
<1>2. ~(row >= y /\ (column >= x \/ row >= y + CellHeight))
  BY DEF EmptyFrom
<1>3. x - CellWidth \in Nat
  BY CellSizes
<1>4. ~ /\ column \in x - CellWidth .. (x - CellWidth) + CellWidth - 1
        /\ row \in y .. y + CellHeight - 1
  BY <1>1, <1>3, CellHolds
<1> HIDE DEF row, column
<1>5. ~(row >= y /\ (column >= x - CellWidth \/ row >= y + CellHeight))
  BY <1>1, <1>2, <1>4, CellSizes
<1> QED BY <1>5 DEF row, column

LEMMA RowFreed ==
    ASSUME NEW T \in SUBSET Addresses, NEW y \in Nat,
           y >= CellHeight, EmptyFrom(T, 0, y), InRow(T)
    PROVE  EmptyFrom(T \ CellAt(Width - CellWidth, y - CellHeight),
                     Width - CellWidth, y - CellHeight)
PROOF
<1> SUFFICES ASSUME NEW i \in T \ CellAt(Width - CellWidth, y - CellHeight)
             PROVE  ~ /\ i \div Scanline >= y - CellHeight
                      /\ \/ i % Scanline >= Width - CellWidth
                         \/ i \div Scanline >= (y - CellHeight) + CellHeight
  BY DEF EmptyFrom
<1> DEFINE row == i \div Scanline
           column == i % Scanline
<1>1. i \in Addresses /\ row \in Int /\ column \in Nat
  BY AddressParts
<1>2. ~(row >= y /\ (column >= 0 \/ row >= y + CellHeight)) /\ column < Width
  BY DEF EmptyFrom, InRow
<1>3. Width - CellWidth \in Nat /\ y - CellHeight \in Nat
  BY CellSizes
<1>4. ~ /\ column \in Width - CellWidth .. (Width - CellWidth) + CellWidth - 1
        /\ row \in y - CellHeight .. (y - CellHeight) + CellHeight - 1
  BY <1>1, <1>3, CellHolds
<1> HIDE DEF row, column
<1>5. ~ /\ row >= y - CellHeight
        /\ \/ column >= Width - CellWidth
           \/ row >= (y - CellHeight) + CellHeight
  BY <1>1, <1>2, <1>4, CellSizes
<1> QED BY <1>5 DEF row, column

-----------------------------------------------------------------------------
(***************************************************************************)
(* A character is written on an empty cell.                                *)
(***************************************************************************)
LEMMA PrintStepEmpty ==
    TypeInv /\ CursorInv /\ EmptyInv /\ PrintStep => EmptyInv'
PROOF
<1> SUFFICES ASSUME TypeInv, CursorInv, EmptyInv, PrintStep, ~raced'
             PROVE  EmptyInv'
  BY DEF EmptyInv
<1>1. /\ screen \in Frame /\ screen.X \in Nat /\ screen.Y \in Nat /\ reg \in Nat
      /\ text \in SUBSET Addresses /\ text' \in SUBSET Addresses
  BY TypeFacts, PrintStepType DEF TypeInv, TypeOK
<1>2. ~raced
  BY DEF PrintStep, PrintNewline, LoadArguments, LoadPlace, PrintGlyph, PrintEnd, LoadX,
         StoreX, TestRowEnd, ZeroX, LoadY, StoreY, StartUnchanged
<1>3. CASE PrintGlyph
  <2>1. screen'.X = screen.X /\ screen'.Y = screen.Y
    BY <1>1, <1>3, Painted DEF PrintGlyph, DrawGlyphAt, Colours
  <2>2. screen.X + CellWidth <= Width
    BY <1>1, <1>3, CellSizes DEF PrintGlyph, CursorInv, AtRowEnd
  <2> DEFINE glyph == Font[Text[printed + 1]]
  <2>3. glyph \subseteq Offsets
    <3>1. printed + 1 \in 1 .. Len(Text)
      BY <1>3, InputAssumption DEF PrintGlyph, TypeInv, TypeOK, Printing
    <3>2. Text[printed + 1] \in Characters
      BY <3>1, InputAssumption
    <3> QED BY <3>2, InputAssumption DEF Offsets
  <2>4. text' \subseteq text \cup GlyphAt(glyph, screen.X, screen.Y)
    <3>1. place.X = screen.X /\ place.Y = screen.Y
      BY <1>2, <1>3 DEF PrintGlyph, EmptyInv
    <3> QED BY <1>3, <3>1 DEF PrintGlyph, TextDrawn
  <2>5. EmptyFrom(text, screen.X, screen.Y) /\ InRow(text)
    BY <1>2, <1>3 DEF PrintGlyph, EmptyInv
  <2> HIDE DEF glyph
  <2>6. EmptyFrom(text', screen.X + CellWidth, screen.Y) /\ InRow(text')
    BY <1>1, <2>2, <2>3, <2>4, <2>5, GlyphAhead
  <2> QED BY <1>3, <2>1, <2>6 DEF PrintGlyph, EmptyInv
<1>4. CASE PrintNewline \/ TestRowEnd
  <2>1. /\ screen' = screen /\ text' = text /\ InRow(text')
        /\ pc' \in {"zeroX", "char"} /\ EmptyFrom(text, screen.X, screen.Y)
    BY <1>2, <1>4 DEF PrintNewline, TestRowEnd, EmptyInv
  <2>2. EmptyFrom(text, 0, screen.Y + CellHeight)
    BY <1>1, <2>1, RowAhead
  <2> QED BY <2>1, <2>2 DEF EmptyInv
<1>5. CASE PrintEnd
  BY <1>2, <1>5 DEF PrintEnd, EmptyInv
<1>6. CASE LoadX
  BY <1>2, <1>6 DEF LoadX, EmptyInv
<1>7. CASE StoreX
  <2>1. screen'.X = reg + CellWidth /\ screen'.Y = screen.Y
    BY <1>1, <1>7 DEF StoreX, Frame
  <2> QED BY <1>2, <1>7, <2>1 DEF StoreX, EmptyInv
<1>8. CASE ZeroX
  <2>1. screen'.X = 0 /\ screen'.Y = screen.Y
    BY <1>1, <1>8 DEF ZeroX, Frame
  <2> QED BY <1>2, <1>8, <2>1 DEF ZeroX, EmptyInv
<1>9. CASE LoadY
  BY <1>2, <1>9 DEF LoadY, EmptyInv
<1>10. CASE StoreY
  <2>1. screen'.X = screen.X /\ screen'.Y = reg + CellHeight
    BY <1>1, <1>10 DEF StoreY, Frame
  <2> QED BY <1>2, <1>10, <2>1 DEF StoreY, EmptyInv
<1>11. CASE LoadArguments
  <2>1. place \in [X : Nat, Y : Nat]
    BY DEF TypeInv, TypeOK
  <2>2. screen' = screen /\ text' = text /\ pc \in {"char", "placeX", "placeY"}
    BY <1>11 DEF LoadArguments, LoadPlace
  <2>3. /\ pc' \in {"placeX", "placeY", "draw"}
        /\ pc' \in {"placeY", "draw"} => place'.X = screen.X
        /\ pc' \in {"placeX", "draw"} => place'.Y = screen.Y
    BY <1>2, <1>11, <2>1 DEF LoadArguments, LoadPlace, EmptyInv
  <2> QED BY <1>2, <2>2, <2>3 DEF EmptyInv
<1> QED BY <1>3, <1>4, <1>5, <1>6, <1>7, <1>8, <1>9, <1>10, <1>11 DEF PrintStep

LEMMA KeyEmpty ==
    ASSUME WholeCells
    PROVE  TypeInv /\ CursorInv /\ EmptyInv /\ KeyboardInterrupt => EmptyInv'
PROOF
<1> SUFFICES ASSUME TypeInv, CursorInv, EmptyInv, KeyboardInterrupt, ~raced'
             PROVE  EmptyInv'
  BY DEF EmptyInv
<1>1. /\ screen \in Frame /\ screen.X \in Nat /\ screen.Y \in Nat
      /\ text \in SUBSET Addresses /\ text' \in SUBSET Addresses
  BY TypeFacts, KeyType DEF TypeInv, TypeOK
<1>2. ~raced /\ pc \in {"char", "hlt"} /\ pc' = pc
  BY DEF KeyboardInterrupt, ShiftKey, CharacterKey, OtherKey, EnterKey, BackspaceKey,
         Key, starts
<1>3. EmptyFrom(text, screen.X, screen.Y) /\ InRow(text)
  BY <1>2 DEF EmptyInv
<1>4. ASSUME EmptyFrom(text', screen'.X, screen'.Y), InRow(text')
      PROVE  EmptyInv'
  BY <1>2, <1>4 DEF EmptyInv
<1>5. screen.X + CellWidth <= Width
  BY <1>1, <1>2, CellSizes DEF CursorInv, AtRowEnd
<1>6. CASE UNCHANGED <<screen, text>>
  BY <1>3, <1>4, <1>6
<1>7. ASSUME NEW code \in ScanCodes, CharacterKey(code)
      PROVE  EmptyInv'
  <2> DEFINE glyph == Font[Character(code)]
  <2>1. IF screen.X + CellWidth + CellWidth > Width
        THEN screen'.X = 0 /\ screen'.Y = screen.Y + CellHeight
        ELSE screen'.X = screen.X + CellWidth /\ screen'.Y = screen.Y
    BY <1>1, <1>7, CharacterPut DEF CharacterKey
  <2>2. glyph \subseteq Offsets
    BY CharacterGlyph
  <2>3. text' \subseteq text \cup GlyphAt(glyph, screen.X, screen.Y)
    BY <1>7 DEF CharacterKey, TextDrawn
  <2> HIDE DEF glyph
  <2>4. /\ EmptyFrom(text', screen.X + CellWidth, screen.Y)
        /\ EmptyFrom(text', 0, screen.Y + CellHeight)
        /\ InRow(text')
    BY <1>1, <1>3, <1>5, <2>2, <2>3, GlyphAhead
  <2> QED BY <1>4, <2>1, <2>4
<1>8. CASE EnterKey
  <2>1. screen'.X = 0 /\ screen'.Y = screen.Y + CellHeight /\ text' = text
    BY <1>1, <1>8 DEF EnterKey, NextLine, Frame
  <2> QED BY <1>1, <1>3, <1>4, <2>1, RowAhead
<1>9. CASE BackspaceKey
  <2>1. CASE screen.X = 0 /\ screen.Y = 0
    BY <1>6, <1>9, <2>1 DEF BackspaceKey, ClearChar
  <2>2. CASE ~(screen.X = 0 /\ screen.Y = 0)
    <3>1. IF screen.X >= CellWidth
          THEN screen'.X = screen.X - CellWidth /\ screen'.Y = screen.Y
          ELSE /\ screen'.X = screen.X - CellWidth + Width
               /\ screen'.Y = IF screen.Y < CellHeight THEN 0 ELSE screen.Y - CellHeight
      BY <1>1, <1>9, <2>2, CharacterCleared DEF BackspaceKey
    <3>2. text' = text \ CellAt(screen'.X, screen'.Y)
      BY <1>9, <2>2 DEF BackspaceKey, TextCleared
    <3>3. InRow(text')
      BY <1>3, <3>2 DEF InRow
    <3>4. CASE screen.X >= CellWidth
      BY <1>1, <1>3, <1>4, <3>1, <3>2, <3>3, <3>4, CellFreed
    <3>5. CASE ~(screen.X >= CellWidth)
      <4>1. screen.X = 0
        BY <1>1, <3>5, CursorFacts, CellSizes
      <4>2. screen.Y >= CellHeight
        BY <1>1, <2>2, <4>1, CursorFacts, CellSizes
      <4>3. screen'.X = Width - CellWidth /\ screen'.Y = screen.Y - CellHeight
        BY <1>1, <3>1, <3>5, <4>1, <4>2, CellSizes
      <4> QED BY <1>1, <1>3, <1>4, <3>2, <3>3, <4>1, <4>2, <4>3, RowFreed
    <3> QED BY <3>4, <3>5
  <2> QED BY <2>1, <2>2
<1> QED BY <1>6, <1>7, <1>8, <1>9 DEF KeyboardInterrupt, ShiftKey, OtherKey

LEMMA NextEmpty ==
    ASSUME WholeCells
    PROVE  TypeInv /\ CursorInv /\ EmptyInv /\ [Next]_vars => EmptyInv'
PROOF
<1> SUFFICES ASSUME TypeInv, CursorInv, EmptyInv, [Next]_vars PROVE EmptyInv'
  OBVIOUS
<1>1. CASE MouseInterrupt
  BY <1>1, MouseScreen DEF MouseInterrupt, starts, EmptyInv
<1>2. CASE UNCHANGED vars
  BY <1>2 DEF vars, starts, EmptyInv
<1> QED BY <1>1, <1>2, PrintStepEmpty, KeyEmpty DEF Next

\* As long as no key comes while _start is inside a character, what print,
\* put_char, next and clear_char do to the cursor leaves every cell from the
\* cursor on empty: no character is written over another.
THEOREM CharactersOnEmptyCells ==
    ASSUME WholeCells
    PROVE  Spec => []WritesOnEmptyCells
PROOF
<1>1. ASSUME Init PROVE EmptyInv
  <2>1. PICK l \in Listings : text = l.lit /\ screen.Y = l.rows * CellHeight
    BY <1>1, InitListing
  <2>2. l.rows \in Nat /\ \A i \in l.lit : /\ i \in Addresses /\ i % Scanline < Width
                                          /\ i \div Scanline < l.rows * CellHeight
    BY InputAssumption
  <2> DEFINE y == l.rows * CellHeight
  <2>3. y \in Nat
    BY <2>2, CellSizes
  <2>4. \A i \in text : i \div Scanline \in Int
    BY <2>1, <2>2, ScreenAssumption DEF Addresses
  <2>5. \A i \in text : i \div Scanline < y
    BY <2>1, <2>2
  <2>6. screen.Y = y
    BY <2>1
  <2> HIDE DEF y
  <2>7. EmptyFrom(text, screen.X, screen.Y)
    BY <2>3, <2>4, <2>5, <2>6 DEF EmptyFrom
  <2>8. InRow(text)
    BY <2>1, <2>2 DEF InRow
  <2> QED BY <1>1, <2>7, <2>8 DEF Init, EmptyInv
<1>2. EmptyInv => WritesOnEmptyCells
  BY DEF EmptyInv, EmptyFrom, WritesOnEmptyCells, EmptyAhead
<1> QED BY <1>1, <1>2, InitType, InitCursor, NextType, NextCursor, NextEmpty, PTL DEF Spec

-----------------------------------------------------------------------------
(***************************************************************************)
(* The pixels: first what leaves the pointer where it is.                  *)
(***************************************************************************)
PointerUnmoved == /\ mouse'.old = mouse.old
                  /\ screen'.saved = screen.saved /\ screen'.drawn = screen.drawn

LEMMA SpotFacts ==
    ASSUME TypeInv
    PROVE  /\ screen \in Frame
           /\ text \subseteq Addresses
           /\ \A d \in Visible(mouse.old) :
                 Spot(mouse.old, d) \in Addresses /\ Spot(mouse.old, d) \in PointerShape
           /\ \A i \in PointerShape : i \in Addresses
PROOF
<1>1. mouse.old \in Place
  BY TypeFacts DEF MouseOK, M!TypeOK, Place
<1> QED BY <1>1, TypeFacts, SpotsInFrameBuffer DEF PointerShape, TypeInv, TypeOK

LEMMA GlyphPixels ==
    ASSUME TypeInv, PixelInv, PointerUnmoved, NEW N,
           text' = text \cup (N \cap Addresses),
           hidden' = (hidden \ (N \cap Addresses)) \cup (N \cap Addresses \cap PointerShape),
           \A i \in Addresses :
               screen'.pixels[i] = IF i \in N THEN "white" ELSE screen.pixels[i]
    PROVE  PixelInv'
PROOF
<1>1. PointerShape' = PointerShape /\ OriginShape' = OriginShape
  BY DEF PointerUnmoved, PointerShape, OriginShape
<1>2. NoTrails'
  BY <1>1 DEF PixelInv, NoTrails
<1>3. PointerSparesText'
  BY SpotFacts DEF PixelInv, PointerSparesText
<1>4. ASSUME NEW d \in Visible(mouse.old) PROVE Saved(d)'
  <2> DEFINE i == Spot(mouse.old, d)
  <2>1. i \in Addresses /\ i \in PointerShape
    BY SpotFacts
  <2>2. Saved(d)
    BY DEF PixelInv
  <2>3. i \notin text' => i \notin text /\ screen'.pixels[i] = screen.pixels[i]
    BY <2>1
  <2>4. i \in text' \ hidden' => i \in text \ hidden
    BY <2>1
  <2> HIDE DEF i
  <2>5. Spot(mouse.old, d) = i /\ Spot(mouse'.old, d) = i
    BY DEF PointerUnmoved, i
  <2> QED BY <1>1, <2>1, <2>2, <2>3, <2>4, <2>5 DEF Saved, PointerUnmoved
<1> QED BY <1>2, <1>3, <1>4 DEF PixelInv, PointerUnmoved

LEMMA CellPixels ==
    ASSUME TypeInv, PixelInv, PointerUnmoved, NEW N,
           text' = text \ N, hidden' = hidden \ N,
           \A i \in Addresses :
               screen'.pixels[i] = IF i \in N THEN "black" ELSE screen.pixels[i]
    PROVE  PixelInv'
PROOF
<1>1. PointerShape' = PointerShape /\ OriginShape' = OriginShape
  BY DEF PointerUnmoved, PointerShape, OriginShape
<1>2. NoTrails'
  BY <1>1 DEF PixelInv, NoTrails
<1>3. PointerSparesText'
  BY SpotFacts DEF PixelInv, PointerSparesText
<1>4. ASSUME NEW d \in Visible(mouse.old) PROVE Saved(d)'
  <2> DEFINE i == Spot(mouse.old, d)
  <2>1. i \in Addresses
    BY SpotFacts
  <2>2. Saved(d)
    BY DEF PixelInv
  <2>3. screen'.pixels[i] = "black" \/ (i \notin N /\ screen'.pixels[i] = screen.pixels[i])
    BY <2>1
  <2> HIDE DEF i
  <2>4. Spot(mouse.old, d) = i /\ Spot(mouse'.old, d) = i
    BY DEF PointerUnmoved, i
  <2> QED BY <1>1, <2>2, <2>3, <2>4 DEF Saved, PointerUnmoved
<1> QED BY <1>2, <1>3, <1>4 DEF PixelInv, PointerUnmoved

LEMMA SamePixels ==
    ASSUME PixelInv, PointerUnmoved, UNCHANGED <<text, hidden>>,
           screen'.pixels = screen.pixels
    PROVE  PixelInv'
PROOF
<1>1. PointerShape' = PointerShape /\ OriginShape' = OriginShape
  BY DEF PointerUnmoved, PointerShape, OriginShape
<1>2. NoTrails' /\ PointerSparesText'
  BY <1>1 DEF PixelInv, NoTrails, PointerSparesText
<1>3. \A d \in Visible(mouse.old) : Saved(d)'
  BY <1>1 DEF PixelInv, Saved, PointerUnmoved
<1> QED BY <1>2, <1>3 DEF PixelInv, PointerUnmoved

LEMMA PrintStepPixels == TypeInv /\ PixelInv /\ PrintStep => PixelInv'
PROOF
<1> SUFFICES ASSUME TypeInv, PixelInv, PrintStep PROVE PixelInv'
  OBVIOUS
<1>1. screen \in Frame
  BY TypeFacts
<1>2. mouse' = mouse
  BY DEF PrintStep, PrintNewline, LoadArguments, LoadPlace, PrintGlyph, PrintEnd, LoadX, StoreX, TestRowEnd,
         ZeroX, LoadY, StoreY, StartUnchanged, mice
<1>3. CASE PrintGlyph
  <2> DEFINE N == GlyphAt(Font[Text[printed + 1]], place.X, place.Y)
  <2>1. /\ screen'.saved = screen.saved /\ screen'.drawn = screen.drawn
        /\ \A i \in Addresses :
              screen'.pixels[i] = IF i \in N THEN "white" ELSE screen.pixels[i]
    BY <1>1, <1>3, Painted DEF PrintGlyph, DrawGlyphAt, Colours
  <2>2. /\ text' = text \cup (N \cap Addresses)
        /\ hidden' = (hidden \ (N \cap Addresses))
                         \cup (N \cap Addresses \cap PointerShape)
    BY <1>3 DEF PrintGlyph, TextDrawn
  <2> HIDE DEF N
  <2> QED BY <1>2, <2>1, <2>2, GlyphPixels DEF PointerUnmoved
<1>4. CASE ~PrintGlyph
  <2>1. /\ UNCHANGED <<text, hidden>>
        /\ screen'.pixels = screen.pixels
        /\ screen'.saved = screen.saved /\ screen'.drawn = screen.drawn
    BY <1>1, <1>4 DEF PrintStep, PrintNewline, LoadArguments, LoadPlace, PrintEnd, LoadX,
                      StoreX, TestRowEnd, ZeroX, LoadY, StoreY, Frame
  <2> QED BY <1>2, <2>1, SamePixels DEF PointerUnmoved
<1> QED BY <1>3, <1>4

LEMMA KeyPixels == TypeInv /\ PixelInv /\ KeyboardInterrupt => PixelInv'
PROOF
<1> SUFFICES ASSUME TypeInv, PixelInv, KeyboardInterrupt PROVE PixelInv'
  OBVIOUS
<1>1. screen \in Frame
  BY TypeFacts
<1>2. mouse' = mouse
  BY DEF KeyboardInterrupt, ShiftKey, CharacterKey, OtherKey, EnterKey, BackspaceKey,
         Key, mice
<1>3. CASE UNCHANGED <<screen, text, hidden>>
  BY <1>2, <1>3, SamePixels DEF PointerUnmoved
<1>4. ASSUME NEW code \in ScanCodes, CharacterKey(code)
      PROVE  PixelInv'
  <2> DEFINE N == GlyphAt(Font[Character(code)], screen.X, screen.Y)
  <2>1. /\ screen'.saved = screen.saved /\ screen'.drawn = screen.drawn
        /\ \A i \in Addresses :
              screen'.pixels[i] = IF i \in N THEN "white" ELSE screen.pixels[i]
    BY <1>1, <1>4, CharacterPut DEF CharacterKey
  <2>2. /\ text' = text \cup (N \cap Addresses)
        /\ hidden' = (hidden \ (N \cap Addresses))
                         \cup (N \cap Addresses \cap PointerShape)
    BY <1>4 DEF CharacterKey, TextDrawn
  <2> HIDE DEF N
  <2> QED BY <1>2, <2>1, <2>2, GlyphPixels DEF PointerUnmoved
<1>5. CASE EnterKey
  <2>1. /\ UNCHANGED <<text, hidden>>
        /\ screen'.pixels = screen.pixels
        /\ screen'.saved = screen.saved /\ screen'.drawn = screen.drawn
    BY <1>1, <1>5 DEF EnterKey, NextLine, Frame
  <2> QED BY <1>2, <2>1, SamePixels DEF PointerUnmoved
<1>6. CASE BackspaceKey
  <2>1. CASE screen.X = 0 /\ screen.Y = 0
    BY <1>3, <1>6, <2>1 DEF BackspaceKey, ClearChar
  <2>2. CASE ~(screen.X = 0 /\ screen.Y = 0)
    <3> DEFINE N == CellAt(screen'.X, screen'.Y)
    <3>1. /\ screen'.saved = screen.saved /\ screen'.drawn = screen.drawn
          /\ \A i \in Addresses :
                screen'.pixels[i] = IF i \in N THEN "black" ELSE screen.pixels[i]
      BY <1>1, <1>6, <2>2, CharacterCleared DEF BackspaceKey
    <3>2. text' = text \ N /\ hidden' = hidden \ N
      BY <1>6, <2>2 DEF BackspaceKey, TextCleared
    <3> HIDE DEF N
    <3> QED BY <1>2, <3>1, <3>2, CellPixels DEF PointerUnmoved
  <2> QED BY <2>1, <2>2
<1> QED BY <1>3, <1>4, <1>5, <1>6 DEF KeyboardInterrupt, ShiftKey, OtherKey

-----------------------------------------------------------------------------
(***************************************************************************)
(* The pointer moves.  Cleared, it leaves black what is not text; drawn,   *)
(* it saves black for what is not text and white for text.                 *)
(***************************************************************************)
LEMMA ClearedPixels ==
    ASSUME TypeInv, PixelInv, NEW t, Restored(screen, t, mouse.old)
    PROVE  /\ \A i \in Addresses : i \notin text \cup OriginShape => t.pixels[i] = "black"
           /\ \A i \in text \ hidden : t.pixels[i] = "white"
PROOF
<1>1. ASSUME NEW i \in Addresses, i \notin text \cup OriginShape
      PROVE  t.pixels[i] = "black"
  <2>1. CASE i \in PointerShape
    <3>1. PICK d \in Visible(mouse.old) : i = Spot(mouse.old, d)
      BY <2>1 DEF PointerShape
    <3>2. \A e \in Visible(mouse.old) : Spot(mouse.old, e) = i =>
              /\ screen.drawn[e] = "white"
              /\ \/ screen.pixels[i] = "white" /\ screen.saved[e] = "black"
                 \/ screen.pixels[i] = "black"
      BY <1>1 DEF PixelInv, Saved
    <3>3. CASE screen.pixels[i] = "white"
      BY <3>1, <3>2, <3>3 DEF Restored
    <3>4. CASE screen.pixels[i] = "black"
      BY <3>1, <3>2, <3>4 DEF Restored
    <3> QED BY <3>1, <3>2, <3>3, <3>4
  <2>2. CASE i \notin PointerShape
    <3>1. screen.pixels[i] = "black"
      BY <1>1, <2>2 DEF PixelInv, NoTrails
    <3>2. t.pixels[i] = screen.pixels[i]
      BY <2>2 DEF Restored, PointerShape
    <3> QED BY <3>1, <3>2
  <2> QED BY <2>1, <2>2
<1>2. ASSUME NEW i \in text \ hidden
      PROVE  t.pixels[i] = "white"
  <2>1. i \in Addresses /\ screen.pixels[i] = "white"
    BY SpotFacts DEF PixelInv, PointerSparesText
  <2>2. \A d \in Visible(mouse.old) : Spot(mouse.old, d) = i => screen.saved[d] = "white"
    BY DEF PixelInv, Saved
  <2> QED BY <2>1, <2>2 DEF Restored
<1> QED BY <1>1, <1>2

LEMMA PointerPixels == TypeInv /\ PixelInv /\ MouseInterrupt => PixelInv'
PROOF
<1> SUFFICES ASSUME TypeInv, PixelInv, MouseInterrupt PROVE PixelInv'
  OBVIOUS
<1>1. screen \in Frame /\ MouseOK /\ M!Next /\ UNCHANGED <<text, hidden>>
  BY TypeFacts DEF MouseInterrupt
<1>2. /\ mouse.old \in Place /\ mouse'.old \in Place
      /\ mouse'.old = IF mouse.ready THEN M!Target(mouse) ELSE mouse.old
  BY <1>1, PointerMoved
<1>3. CASE mouse.ready
  <2> DEFINE t == ClearPointer(screen, mouse.old)
  <2>1. t \in Frame /\ Restored(screen, t, mouse.old)
    BY <1>1, <1>2, PointerCleared
  <2>2. screen' = DrawPointer(t, mouse'.old)
    BY <1>2, <1>3 DEF MouseInterrupt, Redrawn
  <2> HIDE DEF t
  <2>3. /\ \A i \in Addresses : i \notin text \cup OriginShape => t.pixels[i] = "black"
        /\ \A i \in text \ hidden : t.pixels[i] = "white"
    BY <2>1, ClearedPixels
  <2>4. /\ \A i \in Addresses :
              screen'.pixels[i] = IF \E d \in Visible(mouse'.old) : i = Spot(mouse'.old, d)
                                  THEN "white" ELSE t.pixels[i]
        /\ \A d \in Visible(mouse'.old) :
              /\ screen'.saved[d] = t.pixels[Spot(mouse'.old, d)]
              /\ screen'.drawn[d] = "white"
    BY <1>2, <2>1, <2>2, PointerDrawn
  <2>5. OriginShape' = OriginShape
    BY DEF OriginShape
  <2>6. NoTrails'
    <3> SUFFICES ASSUME NEW i \in Addresses, screen'.pixels[i] # "black",
                        i \notin text \cup OriginShape
                 PROVE  i \in PointerShape'
      BY <1>1, <2>5 DEF NoTrails
    <3> QED BY <2>3, <2>4 DEF PointerShape
  <2>7. PointerSparesText'
    BY <1>1, <2>3, <2>4, SpotFacts DEF PointerSparesText
  <2>8. ASSUME NEW d \in Visible(mouse'.old) PROVE Saved(d)'
    <3> DEFINE i == Spot(mouse'.old, d)
    <3>1. i \in Addresses
      BY <1>2, SpotsInFrameBuffer
    <3>2. /\ screen'.drawn[d] = "white" /\ screen'.pixels[i] = "white"
          /\ screen'.saved[d] = t.pixels[i]
      BY <2>4, <3>1
    <3>3. i \notin text \cup OriginShape => screen'.saved[d] = "black"
      BY <2>3, <3>1, <3>2
    <3>4. i \in text \ hidden => screen'.saved[d] = "white"
      BY <2>3, <3>2
    <3> QED BY <1>1, <2>5, <3>2, <3>3, <3>4 DEF Saved
  <2> QED BY <2>6, <2>7, <2>8 DEF PixelInv
<1>4. CASE ~mouse.ready
  <2>1. screen' = screen /\ mouse'.old = mouse.old
    BY <1>2, <1>4 DEF MouseInterrupt
  <2> QED BY <1>1, <2>1, SamePixels DEF PointerUnmoved
<1> QED BY <1>3, <1>4

LEMMA NextPixels == TypeInv /\ PixelInv /\ [Next]_vars => PixelInv'
PROOF
<1> SUFFICES ASSUME TypeInv, PixelInv, [Next]_vars PROVE PixelInv'
  OBVIOUS
<1>1. CASE UNCHANGED vars
  BY <1>1, SamePixels DEF vars, mice, PointerUnmoved
<1> QED BY <1>1, PrintStepPixels, KeyPixels, PointerPixels DEF Next

LEMMA InitPixels == Init => PixelInv
PROOF
<1> SUFFICES ASSUME Init PROVE PixelInv
  OBVIOUS
<1>1. mouse.old = M!Origin
  BY MouseInit DEF Init
<1>2. /\ hidden = text \cap OriginShape
      /\ \A i \in Addresses : screen.pixels[i] = IF i \in text THEN "white" ELSE "black"
      /\ text \subseteq Addresses
  BY InitListing, InitType DEF TypeInv, TypeOK
<1>3. \A d \in Visible(mouse.old) : Spot(mouse.old, d) \in OriginShape
  BY <1>1 DEF OriginShape
<1> QED BY <1>1, <1>2, <1>3 DEF PixelInv, NoTrails, PointerSparesText, Saved

\* Whatever text is written and cleared below and around it, the pointer
\* leaves no pixel behind where it is moved away from (clear_mouse_cursor), but
\* for what the uninitialized buffers put at the top left at the first packet.
THEOREM PointerLeavesNoTrail == Spec => []NoTrails
PROOF
<1>1. PixelInv => NoTrails
  BY DEF PixelInv
<1> QED BY <1>1, InitType, InitPixels, NextType, NextPixels, PTL DEF Spec

\* Text that was not written below the pointer is on the screen until it is
\* cleared, however often the pointer is drawn over it and moved away.
THEOREM PointerTakesNoText == Spec => []PointerSparesText
PROOF
<1>1. PixelInv => PointerSparesText
  BY DEF PixelInv
<1> QED BY <1>1, InitType, InitPixels, NextType, NextPixels, PTL DEF Spec
=============================================================================
