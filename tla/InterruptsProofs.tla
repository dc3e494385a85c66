--------------------------- MODULE InterruptsProofs ---------------------------
(***************************************************************************)
(* Theorems about the interrupt controllers, the handlers and the          *)
(* sleeping client, for every state the firmware may leave the controllers *)
(* in, every timer and every choice of keys, delays and frequencies.       *)
(* First come lemmas about the operators of PIC: what the initialization,  *)
(* the masks, a raised or lowered line, an acknowledged request and an end *)
(* of interrupt make of the two controllers, whatever the firmware left in *)
(* them.                                                                   *)
(***************************************************************************)
EXTENDS Interrupts, FiniteSetTheorems, TLAPS


Pair == [master : Chip, slave : Chip]

-----------------------------------------------------------------------------
\* The bytes the kernel writes, bit by bit: ICW1 starts the initialization,
\* the end of interrupt does not, the masks leave open the lines 0 to 2 of
\* the master and line 4 of the slave, and the slave is wired to line 2.
LEMMA KernelBytes ==
    /\ 4 \in Bits(ICW1) /\ 4 \notin Bits(PIC_EOI)
    /\ \A i \in 0 .. 7 : i \in Bits(248) <=> i >= 3
    /\ \A i \in 0 .. 7 : i \in Bits(239) <=> i # 4
    /\ \A i : i \in Bits(4) <=> i = 2
BY DEF Bits, ICW1, PIC_EOI

\* The line with the lowest number, of those the kernel uses.
LEMMA FirstOfThree ==
    ASSUME NEW S, S \subseteq {0, 1, 2}
    PROVE  /\ 0 \in S => First(S) = 0
           /\ 0 \notin S /\ 1 \in S => First(S) = 1
           /\ S = {2} => First(S) = 2
PROOF
<1>1. S # {} => \E l \in S : \A k \in S : l <= k
  <2>1. CASE 0 \in S
    BY <2>1
  <2>2. CASE 0 \notin S /\ 1 \in S
    BY <2>2
  <2>3. CASE 0 \notin S /\ 1 \notin S
    <3>1. \A k \in S : k = 2
      BY <2>3
    <3>2. CASE S # {}
      <4>1. PICK l \in S : TRUE
        BY <3>2
      <4>2. l = 2
        BY <3>1
      <4> QED BY <3>1, <4>2
    <3> QED BY <3>2
  <2> QED BY <2>1, <2>2, <2>3
<1>2. S # {} => First(S) \in S /\ \A k \in S : First(S) <= k
  BY <1>1, Zenon DEF First
<1> HIDE DEF First
<1>3. S # {} => First(S) \in {0, 1, 2}
  BY <1>2
<1> QED BY <1>2, <1>3

LEMMA FirstOfOne == \A l \in Nat : First({l}) = l
PROOF
<1> SUFFICES ASSUME NEW l \in Nat PROVE First({l}) = l
  OBVIOUS
<1>1. \E r \in {l} : \A k \in {l} : r <= k
  OBVIOUS
<1>2. First({l}) \in {l}
  BY <1>1, Zenon DEF First
<1> QED BY <1>2

-----------------------------------------------------------------------------
\* What a chip is set up to: remap_pic never lets it change again but for the
\* mask.
SetUp(c, offset, wiring, requests) ==
    /\ c \in Chip
    /\ c.offset = offset /\ c.wiring = wiring /\ c.icw = 0
    /\ c.irr \subseteq requests

Remapped(p) ==
    /\ p \in Pair
    /\ SetUp(p.master, 32, 4, {0, 1})
    /\ SetUp(p.slave, 40, 2, {4})

Unmasked(p) == p.master.imr = 248 /\ p.slave.imr = 239
Idle(p) == p.master.isr = {} /\ p.slave.isr = {}

\* The lines in service while the handler of a source runs.
InService(p, source) ==
    /\ p.master.isr = CASE source = "timer" -> {0}
                        [] source = "keyboard" -> {1}
                        [] source = "mouse" -> {2}
    /\ p.slave.isr = IF source = "mouse" THEN {4} ELSE {}

\* The request of a source.
Raises(p, source) == CASE source = "timer" -> 0 \in p.master.irr
                       [] source = "keyboard" -> 1 \in p.master.irr
                       [] source = "mouse" -> 4 \in p.slave.irr

LEMMA LinesOf ==
    ASSUME NEW p, Remapped(p)
    PROVE  /\ \A source \in Sources : Line(source) \in PendingLines(p) <=> Raises(p, source)
           /\ PendingLines(p) \subseteq {0, 1, 12}
           /\ Idle(p) => ServedLines(p) = {}
           /\ \A source \in Sources :
                  InService(p, source) => ServedLines(p) = {Line(source)}
PROOF
<1>1. PendingLines(p) = p.master.irr \cup {8 + l : l \in p.slave.irr}
  BY DEF PendingLines
<1>2. p.master.irr \subseteq {0, 1} /\ p.slave.irr \subseteq {4}
  BY DEF Remapped, SetUp
<1>3. \A source \in Sources : Line(source) \in PendingLines(p) <=> Raises(p, source)
  <2>1. 0 \in PendingLines(p) <=> 0 \in p.master.irr
    BY <1>1, <1>2
  <2>2. 1 \in PendingLines(p) <=> 1 \in p.master.irr
    BY <1>1, <1>2
  <2>3. 12 \in PendingLines(p) <=> 4 \in p.slave.irr
    BY <1>1, <1>2
  <2> QED BY <2>1, <2>2, <2>3 DEF Sources, Ports, Line, Raises
<1>4. PendingLines(p) \subseteq {0, 1, 12}
  BY <1>1, <1>2
<1>5. Idle(p) => ServedLines(p) = {}
  BY DEF Idle, ServedLines
<1>6. ASSUME NEW source \in Sources, InService(p, source)
      PROVE  ServedLines(p) = {Line(source)}
  BY <1>6 DEF InService, ServedLines, Sources, Ports, Line
<1> QED BY <1>3, <1>4, <1>5, <1>6

\* A byte written to the data port, according to what the chip expects.
Written(c, value, d) ==
    /\ d \in Chip
    /\ d.irr = c.irr /\ d.isr = c.isr
    /\ d.imr = IF c.icw = 0 THEN value ELSE c.imr
    /\ d.offset = IF c.icw = 2 THEN value ELSE c.offset
    /\ d.wiring = IF c.icw = 3 THEN value ELSE c.wiring
    /\ d.icw = IF c.icw = 2 THEN 3 ELSE IF c.icw = 3 THEN 4 ELSE 0

LEMMA DataWritten ==
    ASSUME NEW c \in Chip, NEW value \in 0 .. 255
    PROVE  Written(c, value, WriteData(c, value))
PROOF
<1>1. c.icw \in {0, 2, 3, 4}
  BY DEF Chip
<1>2. ASSUME NEW d, c.icw = 2, d = [c EXCEPT !.offset = value, !.icw = 3]
      PROVE  Written(c, value, d)
  <2>1. d \in Chip
    BY <1>2, Zenon DEF Chip
  <2> QED BY <1>2, <2>1 DEF Chip, Written
<1>3. ASSUME NEW d, c.icw = 3, d = [c EXCEPT !.wiring = value, !.icw = 4]
      PROVE  Written(c, value, d)
  <2>1. d \in Chip
    BY <1>3, Zenon DEF Chip
  <2> QED BY <1>3, <2>1 DEF Chip, Written
<1>4. ASSUME NEW d, c.icw = 4, d = [c EXCEPT !.icw = 0]
      PROVE  Written(c, value, d)
  <2>1. d \in Chip
    BY <1>4, Zenon DEF Chip
  <2> QED BY <1>4, <2>1 DEF Chip, Written
<1>5. ASSUME NEW d, c.icw = 0, d = [c EXCEPT !.imr = value]
      PROVE  Written(c, value, d)
  <2>1. d \in Chip
    BY <1>5 DEF Chip
  <2> QED BY <1>5, <2>1 DEF Chip, Written
<1>6. /\ c.icw = 2 => WriteData(c, value) = [c EXCEPT !.offset = value, !.icw = 3]
      /\ c.icw = 3 => WriteData(c, value) = [c EXCEPT !.wiring = value, !.icw = 4]
      /\ c.icw = 4 => WriteData(c, value) = [c EXCEPT !.icw = 0]
      /\ c.icw = 0 => WriteData(c, value) = [c EXCEPT !.imr = value]
  BY DEF WriteData
<1> QED BY <1>1, <1>2, <1>3, <1>4, <1>5, <1>6

\* remap_pic, whatever the firmware left: requests and lines in service are
\* gone, the masks stay.
LEMMA RemapSetsUp ==
    ASSUME NEW p \in Pair
    PROVE  /\ Remapped(remap_pic(p)) /\ Idle(remap_pic(p))
           /\ PendingLines(remap_pic(p)) = {}
PROOF
<1>1. ASSUME NEW c \in Chip, NEW offset \in 0 .. 255, NEW wiring \in 0 .. 255
      PROVE  /\ SetUp(Initialized(c, offset, wiring), offset, wiring, {})
             /\ Initialized(c, offset, wiring).isr = {}
  <2>1. \E c1, c2, c3, c4, c5 :
            /\ c1 = WriteCommand(c, ICW1) /\ c2 = WriteData(c1, offset)
            /\ c3 = WriteData(c2, wiring) /\ c4 = WriteData(c3, ICW4_8086)
            /\ c5 = WriteData(c4, c.imr) /\ Initialized(c, offset, wiring) = c5
    BY Zenon DEF Initialized
  <2>2. PICK c1, c2, c3, c4, c5 :
            /\ c1 = WriteCommand(c, ICW1) /\ c2 = WriteData(c1, offset)
            /\ c3 = WriteData(c2, wiring) /\ c4 = WriteData(c3, ICW4_8086)
            /\ c5 = WriteData(c4, c.imr) /\ Initialized(c, offset, wiring) = c5
    BY <2>1
  <2>3. c1 \in Chip /\ c1.irr = {} /\ c1.isr = {} /\ c1.icw = 2
    <3>1. c1 = [c EXCEPT !.irr = {}, !.isr = {}, !.imr = 0, !.icw = 2]
      BY <2>2, KernelBytes DEF WriteCommand
    <3>2. c1 \in Chip
      <4>1. {} \in SUBSET (0 .. 7) /\ 0 \in 0 .. 255 /\ 2 \in {0, 2, 3, 4}
        OBVIOUS
      <4> QED BY <3>1, <4>1, Zenon DEF Chip
    <3>3. c1.irr = {} /\ c1.isr = {} /\ c1.icw = 2
      BY <3>1 DEF Chip
    <3> QED BY <3>2, <3>3
  <2>4. ICW4_8086 \in 0 .. 255 /\ c.imr \in 0 .. 255
    BY DEF ICW4_8086, Chip
  <2>5. c2 \in Chip /\ c2.irr = {} /\ c2.isr = {} /\ c2.icw = 3 /\ c2.offset = offset
    <3>1. Written(c1, offset, c2)
      BY <2>2, <2>3, DataWritten
    <3> QED BY <2>3, <3>1 DEF Written
  <2>6. /\ c3 \in Chip /\ c3.irr = {} /\ c3.isr = {} /\ c3.icw = 4
        /\ c3.offset = offset /\ c3.wiring = wiring
    <3>1. Written(c2, wiring, c3)
      BY <2>2, <2>5, DataWritten
    <3> QED BY <2>5, <3>1 DEF Written
  <2>7. /\ c4 \in Chip /\ c4.irr = {} /\ c4.isr = {} /\ c4.icw = 0
        /\ c4.offset = offset /\ c4.wiring = wiring
    <3>1. Written(c3, ICW4_8086, c4)
      BY <2>2, <2>4, <2>6, DataWritten
    <3> QED BY <2>6, <3>1 DEF Written
  <2>8. /\ c5 \in Chip /\ c5.irr = {} /\ c5.isr = {} /\ c5.icw = 0
        /\ c5.offset = offset /\ c5.wiring = wiring
    <3>1. Written(c4, c.imr, c5)
      BY <2>2, <2>4, <2>7, DataWritten
    <3> QED BY <2>7, <3>1 DEF Written
  <2> QED BY <2>2, <2>8 DEF SetUp
<1>2. p.master \in Chip /\ p.slave \in Chip
  BY DEF Pair
<1> DEFINE m == Initialized(p.master, 32, 4)
           s == Initialized(p.slave, 40, 2)
<1>3. remap_pic(p) = [master |-> m, slave |-> s]
  BY DEF remap_pic
<1>4. /\ SetUp(m, 32, 4, {}) /\ m.isr = {}
      /\ SetUp(s, 40, 2, {}) /\ s.isr = {}
  <2>1. 32 \in 0 .. 255 /\ 4 \in 0 .. 255 /\ 40 \in 0 .. 255 /\ 2 \in 0 .. 255
    OBVIOUS
  <2> QED BY <1>1, <1>2, <2>1, Zenon
<1> HIDE DEF m, s
<1> QED BY <1>3, <1>4 DEF Remapped, SetUp, Idle, PendingLines, Pair

-----------------------------------------------------------------------------
\* A chip with other requests and other lines in service.
Changed(c, d, requests, served) ==
    /\ d \in Chip /\ d.irr = requests /\ d.isr = served
    /\ d.imr = c.imr /\ d.offset = c.offset /\ d.wiring = c.wiring /\ d.icw = c.icw

LEMMA ChangedIs ==
    ASSUME NEW c \in Chip, NEW R \in SUBSET (0 .. 7), NEW S \in SUBSET (0 .. 7)
    PROVE  /\ Changed(c, [c EXCEPT !.irr = R], R, c.isr)
           /\ Changed(c, [c EXCEPT !.isr = S], c.irr, S)
           /\ Changed(c, [c EXCEPT !.irr = R, !.isr = S], R, S)
PROOF
<1>1. ASSUME NEW d, d = [c EXCEPT !.irr = R]
      PROVE  Changed(c, d, R, c.isr)
  <2>1. d \in Chip
    BY <1>1, Zenon DEF Chip
  <2> QED BY <1>1, <2>1 DEF Chip, Changed
<1>2. ASSUME NEW d, d = [c EXCEPT !.isr = S]
      PROVE  Changed(c, d, c.irr, S)
  <2>1. d \in Chip
    BY <1>2, Zenon DEF Chip
  <2> QED BY <1>2, <2>1 DEF Chip, Changed
<1>3. ASSUME NEW d, d = [c EXCEPT !.irr = R, !.isr = S]
      PROVE  Changed(c, d, R, S)
  <2>1. d \in Chip
    BY <1>3, Zenon DEF Chip
  <2> QED BY <1>3, <2>1 DEF Chip, Changed
<1> QED BY <1>1, <1>2, <1>3

-----------------------------------------------------------------------------
\* Only the latched requests differ.
Requested(p, q, m, s) ==
    /\ q \in Pair
    /\ q.master.irr = m /\ q.slave.irr = s
    /\ q.master.isr = p.master.isr /\ q.slave.isr = p.slave.isr
    /\ q.master.imr = p.master.imr /\ q.slave.imr = p.slave.imr
    /\ q.master.offset = p.master.offset /\ q.slave.offset = p.slave.offset
    /\ q.master.wiring = p.master.wiring /\ q.slave.wiring = p.slave.wiring
    /\ q.master.icw = p.master.icw /\ q.slave.icw = p.slave.icw

LEMMA RequestsSet ==
    ASSUME NEW p \in Pair, NEW m \in SUBSET (0 .. 7), NEW s \in SUBSET (0 .. 7)
    PROVE  /\ Requested(p, [p EXCEPT !.master.irr = m], m, p.slave.irr)
           /\ Requested(p, [p EXCEPT !.slave.irr = s], p.master.irr, s)
PROOF
<1>1. p.master \in Chip /\ p.slave \in Chip
  BY DEF Pair
<1>2. Requested(p, [p EXCEPT !.master.irr = m], m, p.slave.irr)
  <2>1. PICK d : d = [p.master EXCEPT !.irr = m]
    OBVIOUS
  <2>2. Changed(p.master, d, m, p.master.isr)
    BY <1>1, <2>1, ChangedIs, Zenon
  <2>3. [p EXCEPT !.master.irr = m] = [p EXCEPT !.master = d]
    BY <2>1
  <2> QED BY <2>2, <2>3 DEF Changed, Requested, Pair
<1>3. Requested(p, [p EXCEPT !.slave.irr = s], p.master.irr, s)
  <2>1. PICK d : d = [p.slave EXCEPT !.irr = s]
    OBVIOUS
  <2>2. Changed(p.slave, d, s, p.slave.isr)
    BY <1>1, <2>1, ChangedIs, Zenon
  <2>3. [p EXCEPT !.slave.irr = s] = [p EXCEPT !.slave = d]
    BY <2>1
  <2> QED BY <2>2, <2>3 DEF Changed, Requested, Pair
<1> QED BY <1>2, <1>3

\* A line raised or lowered changes the requests of that line.
LEMMA RaisedIs ==
    ASSUME NEW p \in Pair, NEW line \in {0, 1, 12}
    PROVE  Requested(p, Raised(p, line),
                     p.master.irr \cup ({line} \cap {0, 1}),
                     p.slave.irr \cup (IF line = 12 THEN {4} ELSE {}))
PROOF
<1>1. p.master.irr \in SUBSET (0 .. 7) /\ p.slave.irr \in SUBSET (0 .. 7)
  BY DEF Pair, Chip
<1>2. CASE line \in {0, 1}
  <2>1. Raised(p, line) = [p EXCEPT !.master.irr = p.master.irr \cup {line}]
    BY <1>2 DEF Raised
  <2>2. p.master.irr \cup {line} \in SUBSET (0 .. 7)
    BY <1>1, <1>2
  <2>3. /\ p.master.irr \cup {line} = p.master.irr \cup ({line} \cap {0, 1})
        /\ p.slave.irr = p.slave.irr \cup (IF line = 12 THEN {4} ELSE {})
    <3>1. {line} = {line} \cap {0, 1}
      BY <1>2, Zenon
    <3>2. {} = IF line = 12 THEN {4} ELSE {}
      BY <1>2
    <3>3. p.slave.irr = p.slave.irr \cup {}
      OBVIOUS
    <3> QED BY <3>1, <3>2, <3>3, Zenon
  <2>4. Requested(p, Raised(p, line), p.master.irr \cup {line}, p.slave.irr)
    BY <1>1, <2>1, <2>2, RequestsSet, Zenon
  <2> HIDE DEF Requested
  <2> QED BY <2>3, <2>4, Zenon
<1>3. CASE line = 12
  <2>1. Raised(p, line) = [p EXCEPT !.slave.irr = p.slave.irr \cup {4}]
    BY <1>3 DEF Raised
  <2>2. p.slave.irr \cup {4} \in SUBSET (0 .. 7)
    BY <1>1
  <2>3. /\ p.master.irr = p.master.irr \cup ({line} \cap {0, 1})
        /\ {4} = IF line = 12 THEN {4} ELSE {}
    BY <1>3
  <2>4. Requested(p, Raised(p, line), p.master.irr, p.slave.irr \cup {4})
    BY <1>1, <2>1, <2>2, RequestsSet, Zenon
  <2> QED BY <2>3, <2>4, Zenon
<1> QED BY <1>2, <1>3

LEMMA WithdrawnIs ==
    ASSUME NEW p \in Pair, NEW line \in {0, 1, 12}
    PROVE  Requested(p, Withdrawn(p, line),
                     p.master.irr \ ({line} \cap {0, 1}),
                     p.slave.irr \ (IF line = 12 THEN {4} ELSE {}))
PROOF
<1>1. p.master.irr \in SUBSET (0 .. 7) /\ p.slave.irr \in SUBSET (0 .. 7)
  BY DEF Pair, Chip
<1>2. CASE line \in {0, 1}
  <2>1. Withdrawn(p, line) = [p EXCEPT !.master.irr = p.master.irr \ {line}]
    BY <1>2 DEF Withdrawn
  <2>2. p.master.irr \ {line} \in SUBSET (0 .. 7)
    BY <1>1
  <2>3. /\ p.master.irr \ {line} = p.master.irr \ ({line} \cap {0, 1})
        /\ p.slave.irr = p.slave.irr \ (IF line = 12 THEN {4} ELSE {})
    <3>1. {line} = {line} \cap {0, 1}
      BY <1>2, Zenon
    <3>2. {} = IF line = 12 THEN {4} ELSE {}
      BY <1>2
    <3>3. p.slave.irr = p.slave.irr \ {}
      OBVIOUS
    <3> QED BY <3>1, <3>2, <3>3, Zenon
  <2>4. Requested(p, Withdrawn(p, line), p.master.irr \ {line}, p.slave.irr)
    BY <1>1, <2>1, <2>2, RequestsSet, Zenon
  <2> QED BY <2>3, <2>4, Zenon
<1>3. CASE line = 12
  <2>1. Withdrawn(p, line) = [p EXCEPT !.slave.irr = p.slave.irr \ {4}]
    BY <1>3 DEF Withdrawn
  <2>2. p.slave.irr \ {4} \in SUBSET (0 .. 7)
    BY <1>1
  <2>3. /\ p.master.irr = p.master.irr \ ({line} \cap {0, 1})
        /\ {4} = IF line = 12 THEN {4} ELSE {}
    BY <1>3
  <2>4. Requested(p, Withdrawn(p, line), p.master.irr, p.slave.irr \ {4})
    BY <1>1, <2>1, <2>2, RequestsSet, Zenon
  <2> QED BY <2>3, <2>4, Zenon
<1> QED BY <1>2, <1>3

\* What a change of the requests of the devices keeps.
LEMMA RequestedKeeps ==
    ASSUME NEW p, NEW q, NEW m \in SUBSET {0, 1}, NEW s \in SUBSET {4},
           Requested(p, q, m, s), Remapped(p)
    PROVE  /\ Remapped(q)
           /\ Unmasked(p) => Unmasked(q)
           /\ Idle(p) => Idle(q)
           /\ \A source \in Sources : InService(p, source) => InService(q, source)
PROOF
<1>1. Remapped(q)
  <2>1. q.master \in Chip /\ q.slave \in Chip
    BY DEF Requested, Pair
  <2> QED BY <2>1 DEF Requested, Remapped, SetUp
<1>2. Unmasked(p) => Unmasked(q)
  BY DEF Requested, Unmasked
<1>3. Idle(p) => Idle(q)
  BY DEF Requested, Idle
<1>4. \A source \in Sources : InService(p, source) => InService(q, source)
  BY DEF Requested, InService
<1> QED BY <1>1, <1>2, <1>3, <1>4

-----------------------------------------------------------------------------
\* Idle chips with the masks of the kernel pass every request on, those of the
\* slave by line 2.
LEMMA Passing ==
    ASSUME NEW p, Remapped(p), Unmasked(p), Idle(p)
    PROVE  /\ FromSlave(p) = p.slave.irr
           /\ ToProcessor(p) = p.master.irr \cup (IF p.slave.irr = {} THEN {} ELSE {2})
PROOF
<1>1. /\ p.master.irr \subseteq {0, 1} /\ p.slave.irr \subseteq {4}
      /\ p.slave.wiring = 2 /\ p.master.wiring = 4
  BY DEF Remapped, SetUp
<1>2. ASSUME NEW c, c.imr = 248, c.isr = {}, NEW S, S \subseteq {0, 1, 2}
      PROVE  Passed(c, S) = S
  <2>1. \A l \in S : l \notin Bits(248)
    BY <1>2, KernelBytes
  <2> QED BY <1>2, <2>1 DEF Passed
<1>3. FromSlave(p) = p.slave.irr
  <2>1. p.slave.imr = 239 /\ p.slave.isr = {}
    BY DEF Unmasked, Idle
  <2>2. \A l \in p.slave.irr : l \notin Bits(239)
    BY <1>1, KernelBytes
  <2> QED BY <2>1, <2>2 DEF FromSlave, Passed
<1>4. {p.slave.wiring} \cap Bits(p.master.wiring) = {2}
  BY <1>1, KernelBytes
<1>5. ToProcessor(p) = Passed(p.master, p.master.irr \cup
                                  (IF p.slave.irr = {} THEN {} ELSE {2}))
  BY <1>3, <1>4, Zenon DEF ToProcessor
<1>6. p.master.irr \cup (IF p.slave.irr = {} THEN {} ELSE {2}) \subseteq {0, 1, 2}
  BY <1>1
<1>7. p.master.imr = 248 /\ p.master.isr = {}
  BY DEF Unmasked, Idle
<1>8. Passed(p.master, p.master.irr \cup (IF p.slave.irr = {} THEN {} ELSE {2}))
        = p.master.irr \cup (IF p.slave.irr = {} THEN {} ELSE {2})
  BY <1>2, <1>6, <1>7
<1> QED BY <1>3, <1>5, <1>8, Zenon

\* The processor fetches the vector of a source that waits, and of the first:
\* its handler is entered, and its line, no other, goes into service.
Fetches(p, q, source) ==
    /\ Raises(p, source) /\ \A k \in PendingLines(p) : Line(source) <= k
    /\ Gate(Vector(p)) = source
    /\ Remapped(q) /\ Unmasked(q) /\ InService(q, source)
    /\ PendingLines(q) = PendingLines(p) \ {Line(source)}

LEMMA AcknowledgeFetches ==
    ASSUME NEW p, Remapped(p), Unmasked(p), Idle(p), ToProcessor(p) # {}
    PROVE  \E source \in Sources : Fetches(p, Acknowledge(p), source)
PROOF
<1>1. PICK q : q = Acknowledge(p)
  OBVIOUS
<1>2. /\ p.master.irr \subseteq {0, 1} /\ p.slave.irr \subseteq {4}
      /\ p.master.offset = 32 /\ p.slave.offset = 40 /\ p.master.wiring = 4
      /\ p.slave.wiring = 2 /\ p.master.icw = 0 /\ p.slave.icw = 0
      /\ p.master \in Chip /\ p.slave \in Chip
  BY DEF Remapped, SetUp
<1>3. /\ p.master.isr = {} /\ p.slave.isr = {} /\ p.master.imr = 248 /\ p.slave.imr = 239
  BY DEF Unmasked, Idle
<1>4. /\ FromSlave(p) = p.slave.irr
      /\ ToProcessor(p) = p.master.irr \cup (IF p.slave.irr = {} THEN {} ELSE {2})
  BY Passing
<1>5. PendingLines(p) = p.master.irr \cup {8 + l : l \in p.slave.irr}
  BY DEF PendingLines
<1>6. ASSUME NEW c \in Chip, NEW line \in 0 .. 7
      PROVE  Changed(c, Acknowledged(c, line), c.irr \ {line}, c.isr \cup {line})
  <2>1. Acknowledged(c, line) = [c EXCEPT !.irr = c.irr \ {line}, !.isr = c.isr \cup {line}]
    BY DEF Acknowledged
  <2>2. c.irr \ {line} \in SUBSET (0 .. 7) /\ c.isr \cup {line} \in SUBSET (0 .. 7)
    BY DEF Chip
  <2> QED BY <2>1, <2>2, ChangedIs, Zenon
<1>7. q = [master |-> Acknowledged(p.master, First(ToProcessor(p))),
           slave |-> IF Cascaded(p) THEN Acknowledged(p.slave, First(FromSlave(p)))
                                    ELSE p.slave]
  BY <1>1 DEF Acknowledge
<1>8. ASSUME NEW line \in {0, 1}, First(ToProcessor(p)) = line, line \in p.master.irr,
             \A k \in p.master.irr : line <= k
      PROVE  LET source == IF line = 0 THEN "timer" ELSE "keyboard"
             IN  Fetches(p, q, source)
  <2> DEFINE source == IF line = 0 THEN "timer" ELSE "keyboard"
  <2>1. ~Cascaded(p)
    BY <1>2, <1>8, KernelBytes DEF Cascaded
  <2>2. PICK d : d = Acknowledged(p.master, line)
    OBVIOUS
  <2>3. q = [master |-> d, slave |-> p.slave]
    BY <1>7, <1>8, <2>1, <2>2, Zenon
  <2>4. line \in 0 .. 7
    OBVIOUS
  <2>5. Changed(p.master, d, p.master.irr \ {line}, p.master.isr \cup {line})
    BY <1>2, <1>6, <2>2, <2>4, Zenon
  <2>6. Line(source) = line
    BY DEF Line
  <2>7. Vector(p) = 32 + line
    BY <1>2, <1>8, <2>1 DEF Vector
  <2>8. Gate(Vector(p)) = source
    BY <2>7 DEF Gate
  <2>9. Raises(p, source)
    BY <1>8 DEF Raises
  <2>10. \A k \in PendingLines(p) : Line(source) <= k
    BY <1>2, <1>5, <1>8, <2>6
  <2>11. Remapped(q)
    BY <1>2, <2>3, <2>5 DEF Changed, Remapped, SetUp, Pair
  <2>12. Unmasked(q)
    BY <1>3, <2>3, <2>5 DEF Changed, Unmasked
  <2>13. InService(q, source)
    BY <1>3, <2>3, <2>5 DEF Changed, InService
  <2>14. PendingLines(q) = PendingLines(p) \ {Line(source)}
    <3>1. PendingLines(q) = (p.master.irr \ {line}) \cup {8 + l : l \in p.slave.irr}
      BY <2>3, <2>5 DEF Changed, PendingLines
    <3> QED BY <1>2, <1>5, <2>6, <3>1
  <2> HIDE DEF source
  <2>15. Fetches(p, q, source)
    BY <2>8, <2>9, <2>10, <2>11, <2>12, <2>13, <2>14 DEF Fetches
  <2> QED BY <2>15 DEF source
<1>9. ASSUME First(ToProcessor(p)) = 2, p.master.irr = {}, p.slave.irr = {4}
      PROVE  Fetches(p, q, "mouse")
  <2>1. Cascaded(p)
    BY <1>2, <1>9, KernelBytes DEF Cascaded
  <2>2. First(FromSlave(p)) = 4
    BY <1>4, <1>9, FirstOfOne
  <2>3. PICK d, e : d = Acknowledged(p.master, 2) /\ e = Acknowledged(p.slave, 4)
    OBVIOUS
  <2>4. q = [master |-> d, slave |-> e]
    BY <1>7, <1>9, <2>1, <2>2, <2>3, Zenon
  <2>5. 2 \in 0 .. 7 /\ 4 \in 0 .. 7
    OBVIOUS
  <2>6. Changed(p.master, d, p.master.irr \ {2}, p.master.isr \cup {2})
    BY <1>2, <1>6, <2>3, <2>5, Zenon
  <2>7. Changed(p.slave, e, p.slave.irr \ {4}, p.slave.isr \cup {4})
    BY <1>2, <1>6, <2>3, <2>5, Zenon
  <2>8. Vector(p) = 44
    BY <1>2, <2>1, <2>2 DEF Vector
  <2>9. Gate(Vector(p)) = "mouse"
    BY <2>8 DEF Gate
  <2>10. Raises(p, "mouse")
    BY <1>9 DEF Raises
  <2>11. Line("mouse") = 12
    BY DEF Line
  <2>12. PendingLines(p) = {12}
    BY <1>5, <1>9
  <2>13. Remapped(q)
    BY <1>2, <2>4, <2>6, <2>7 DEF Changed, Remapped, SetUp, Pair
  <2>14. Unmasked(q)
    BY <1>3, <2>4, <2>6, <2>7 DEF Changed, Unmasked
  <2>15. InService(q, "mouse")
    BY <1>3, <2>4, <2>6, <2>7 DEF Changed, InService
  <2>16. PendingLines(q) = {}
    BY <1>9, <2>4, <2>6, <2>7 DEF Changed, PendingLines
  <2> QED BY <2>9, <2>10, <2>11, <2>12, <2>13, <2>14, <2>15, <2>16 DEF Fetches
<1>10. ToProcessor(p) \subseteq {0, 1, 2}
  BY <1>2, <1>4
<1>11. CASE 0 \in p.master.irr
  <2>1. First(ToProcessor(p)) = 0
    BY <1>4, <1>10, <1>11, FirstOfThree
  <2>2. \A k \in p.master.irr : 0 <= k
    BY <1>2
  <2>3. Fetches(p, q, "timer")
    BY <1>8, <1>11, <2>1, <2>2
  <2> QED BY <1>1, <2>3 DEF Sources
<1>12. CASE 0 \notin p.master.irr /\ 1 \in p.master.irr
  <2>1. First(ToProcessor(p)) = 1
    BY <1>4, <1>10, <1>12, FirstOfThree
  <2>2. \A k \in p.master.irr : 1 <= k
    BY <1>2, <1>12
  <2>3. Fetches(p, q, "keyboard")
    BY <1>8, <1>12, <2>1, <2>2
  <2> QED BY <1>1, <2>3 DEF Sources, Ports
<1>13. CASE p.master.irr = {}
  <2>1. p.slave.irr = {4} /\ ToProcessor(p) = {2}
    BY <1>2, <1>4, <1>13
  <2>2. First(ToProcessor(p)) = 2
    BY <2>1, FirstOfThree
  <2>3. Fetches(p, q, "mouse")
    BY <1>9, <1>13, <2>1, <2>2
  <2> QED BY <1>1, <2>3 DEF Sources, Ports
<1> QED BY <1>2, <1>11, <1>12, <1>13

\* The end of interrupt of the handler that runs ends the service of its line,
\* of the slave and of the line it is wired to.
LEMMA EndServes ==
    ASSUME NEW p, NEW source \in Sources, Remapped(p), InService(p, source),
           NEW q, q = IF source = "mouse" THEN pic_end_slave(p) ELSE pic_end_master(p)
    PROVE  /\ Remapped(q) /\ Idle(q) /\ (Unmasked(p) => Unmasked(q))
           /\ PendingLines(q) = PendingLines(p)
           /\ \A s \in Sources : Raises(q, s) <=> Raises(p, s)
PROOF
<1>1. p \in Pair /\ p.master \in Chip /\ p.slave \in Chip
  BY DEF Remapped, SetUp
<1>2. ASSUME NEW c \in Chip, NEW line \in Nat, c.isr = {line}
      PROVE  Changed(c, WriteCommand(c, PIC_EOI), c.irr, {})
  <2>1. First({line}) = line
    BY FirstOfOne
  <2>2. WriteCommand(c, PIC_EOI) = [c EXCEPT !.isr = {}]
    <3>1. WriteCommand(c, PIC_EOI) = [c EXCEPT !.isr = c.isr \ {First(c.isr)}]
      BY <1>2, KernelBytes DEF WriteCommand
    <3>2. c.isr \ {First(c.isr)} = {}
      BY <1>2, <2>1
    <3> QED BY <3>1, <3>2
  <2> QED BY <2>2, ChangedIs, Zenon
<1>3. PICK d, e : d = WriteCommand(p.master, PIC_EOI) /\ e = WriteCommand(p.slave, PIC_EOI)
  OBVIOUS
<1>4. Changed(p.master, d, p.master.irr, {})
  <2>1. PICK line \in Nat : p.master.isr = {line}
    BY DEF InService, Sources, Ports
  <2> QED BY <1>1, <1>2, <1>3, <2>1
<1>5. CASE source = "mouse"
  <2>1. q = [p EXCEPT !.slave = e, !.master = d]
    BY <1>3, <1>5 DEF pic_end_slave
  <2>2. Changed(p.slave, e, p.slave.irr, {})
    BY <1>1, <1>2, <1>3, <1>5 DEF InService
  <2>3. q \in Pair /\ q.master = d /\ q.slave = e
    BY <1>1, <1>4, <2>1, <2>2 DEF Changed, Pair
  <2>4. Remapped(q)
    BY <1>4, <2>2, <2>3 DEF Changed, Remapped, SetUp
  <2>5. Idle(q) /\ (Unmasked(p) => Unmasked(q))
    BY <1>4, <2>2, <2>3 DEF Changed, Idle, Unmasked
  <2>6. q.master.irr = p.master.irr /\ q.slave.irr = p.slave.irr
    BY <1>4, <2>2, <2>3 DEF Changed
  <2> QED BY <2>4, <2>5, <2>6 DEF PendingLines, Raises
<1>6. CASE source # "mouse"
  <2>1. q = [p EXCEPT !.master = d]
    BY <1>3, <1>6 DEF pic_end_master
  <2>2. p.slave.isr = {}
    BY <1>6 DEF InService
  <2>3. q \in Pair /\ q.master = d /\ q.slave = p.slave
    BY <1>1, <1>4, <2>1 DEF Changed, Pair
  <2>4. Remapped(q)
    BY <1>4, <2>2, <2>3 DEF Changed, Remapped, SetUp
  <2>5. Idle(q) /\ (Unmasked(p) => Unmasked(q))
    BY <1>4, <2>2, <2>3 DEF Changed, Idle, Unmasked
  <2>6. q.master.irr = p.master.irr /\ q.slave.irr = p.slave.irr
    BY <1>4, <2>2, <2>3 DEF Changed
  <2> QED BY <2>4, <2>5, <2>6 DEF PendingLines, Raises
<1> QED BY <1>5, <1>6

\* The masks of the kernel, written to chips whose initialization is over.
LEMMA MasksSet ==
    ASSUME NEW p, Remapped(p), Idle(p),
           NEW q, q = [master |-> WriteData(p.master, 248), slave |-> WriteData(p.slave, 239)]
    PROVE  /\ Remapped(q) /\ Idle(q) /\ Unmasked(q)
           /\ PendingLines(q) = PendingLines(p)
           /\ \A s \in Sources : Raises(q, s) <=> Raises(p, s)
PROOF
<1>1. 248 \in 0 .. 255 /\ 239 \in 0 .. 255 /\ p.master \in Chip /\ p.slave \in Chip
  BY DEF Remapped, SetUp
<1>2. Written(p.master, 248, q.master) /\ Written(p.slave, 239, q.slave)
  BY <1>1, DataWritten
<1>3. q \in Pair
  BY <1>2 DEF Written, Pair
<1>4. p.master.icw = 0 /\ p.slave.icw = 0
  BY DEF Remapped, SetUp
<1>5. Remapped(q)
  BY <1>2, <1>3, <1>4 DEF Written, Remapped, SetUp
<1>6. Idle(q) /\ Unmasked(q)
  BY <1>2, <1>4 DEF Written, Idle, Unmasked
<1>7. q.master.irr = p.master.irr /\ q.slave.irr = p.slave.irr
  BY <1>2 DEF Written
<1> QED BY <1>5, <1>6, <1>7 DEF PendingLines, Raises

-----------------------------------------------------------------------------
\* A step of a device: it may change the requests of the sources, and leaves
\* the rest of the controllers alone.
Touched(p, q) ==
    /\ q \in Pair
    /\ Remapped(p) => Remapped(q)
    /\ Unmasked(p) => Unmasked(q)
    /\ Idle(p) => Idle(q)
    /\ \A source \in Sources : InService(p, source) => InService(q, source)
    /\ ServedLines(q) = ServedLines(p)

LEMMA RaisedTouches ==
    ASSUME NEW p \in Pair, NEW source \in Sources
    PROVE  /\ Touched(p, Raised(p, Line(source)))
           /\ PendingLines(Raised(p, Line(source))) = PendingLines(p) \cup {Line(source)}
PROOF
<1> DEFINE line == Line(source)
           q == Raised(p, line)
           m == p.master.irr \cup ({line} \cap {0, 1})
           s == p.slave.irr \cup (IF line = 12 THEN {4} ELSE {})
<1>1. line \in {0, 1, 12}
  BY DEF Line, Sources, Ports
<1> HIDE DEF line
<1>2. Requested(p, q, m, s)
  BY <1>1, RaisedIs
<1> HIDE DEF q
<1>3. p.master.irr \subseteq 0 .. 7 /\ p.slave.irr \subseteq 0 .. 7
  BY DEF Pair, Chip
<1>4. PendingLines(q) = PendingLines(p) \cup {line}
  <2>1. PendingLines(q) = m \cup {8 + l : l \in s}
    BY <1>2 DEF Requested, PendingLines
  <2>2. PendingLines(p) = p.master.irr \cup {8 + l : l \in p.slave.irr}
    BY DEF PendingLines
  <2>3. CASE line = 12
    <3>1. m = p.master.irr /\ s = p.slave.irr \cup {4}
      BY <2>3
    <3> QED BY <2>1, <2>2, <2>3, <3>1
  <2>4. CASE line \in {0, 1}
    <3>1. m = p.master.irr \cup {line} /\ s = p.slave.irr
      <4>1. {line} = {line} \cap {0, 1}
        BY <2>4, Zenon
      <4>2. {} = IF line = 12 THEN {4} ELSE {}
        BY <2>4
      <4> QED BY <4>1, <4>2
    <3> QED BY <2>1, <2>2, <3>1
  <2> QED BY <1>1, <2>3, <2>4
<1>5. Touched(p, q)
  <2>1. Remapped(p) => m \in SUBSET {0, 1} /\ s \in SUBSET {4}
    BY DEF Remapped, SetUp
  <2> HIDE DEF m, s
  <2>2. Remapped(p) => Remapped(q)
    BY <1>2, <2>1, RequestedKeeps
  <2>3. Unmasked(p) => Unmasked(q)
    BY <1>2 DEF Requested, Unmasked
  <2>4. Idle(p) => Idle(q)
    BY <1>2 DEF Requested, Idle
  <2>5. \A t \in Sources : InService(p, t) => InService(q, t)
    BY <1>2 DEF Requested, InService
  <2>6. ServedLines(q) = ServedLines(p) /\ q \in Pair
    BY <1>2 DEF Requested, ServedLines
  <2> QED BY <2>2, <2>3, <2>4, <2>5, <2>6 DEF Touched
<1> QED BY <1>4, <1>5 DEF q, line

LEMMA WithdrawnTouches ==
    ASSUME NEW p \in Pair, NEW source \in Sources
    PROVE  /\ Touched(p, Withdrawn(p, Line(source)))
           /\ PendingLines(Withdrawn(p, Line(source))) = PendingLines(p) \ {Line(source)}
PROOF
<1> DEFINE line == Line(source)
           q == Withdrawn(p, line)
           m == p.master.irr \ ({line} \cap {0, 1})
           s == p.slave.irr \ (IF line = 12 THEN {4} ELSE {})
<1>1. line \in {0, 1, 12}
  BY DEF Line, Sources, Ports
<1> HIDE DEF line
<1>2. Requested(p, q, m, s)
  BY <1>1, WithdrawnIs
<1> HIDE DEF q
<1>3. p.master.irr \subseteq 0 .. 7 /\ p.slave.irr \subseteq 0 .. 7
  BY DEF Pair, Chip
<1>4. PendingLines(q) = PendingLines(p) \ {line}
  <2>1. PendingLines(q) = m \cup {8 + l : l \in s}
    BY <1>2 DEF Requested, PendingLines
  <2>2. PendingLines(p) = p.master.irr \cup {8 + l : l \in p.slave.irr}
    BY DEF PendingLines
  <2>3. CASE line = 12
    <3>1. m = p.master.irr /\ s = p.slave.irr \ {4}
      BY <2>3
    <3> QED BY <1>3, <2>1, <2>2, <2>3, <3>1
  <2>4. CASE line \in {0, 1}
    <3>1. m = p.master.irr \ {line} /\ s = p.slave.irr
      <4>1. {line} = {line} \cap {0, 1}
        BY <2>4, Zenon
      <4>2. {} = IF line = 12 THEN {4} ELSE {}
        BY <2>4
      <4> QED BY <4>1, <4>2
    <3> QED BY <1>3, <2>1, <2>2, <2>4, <3>1
  <2> QED BY <1>1, <2>3, <2>4
<1>5. Touched(p, q)
  <2>1. Remapped(p) => m \in SUBSET {0, 1} /\ s \in SUBSET {4}
    BY DEF Remapped, SetUp
  <2> HIDE DEF m, s
  <2>2. Remapped(p) => Remapped(q)
    BY <1>2, <2>1, RequestedKeeps
  <2>3. Unmasked(p) => Unmasked(q)
    BY <1>2 DEF Requested, Unmasked
  <2>4. Idle(p) => Idle(q)
    BY <1>2 DEF Requested, Idle
  <2>5. \A t \in Sources : InService(p, t) => InService(q, t)
    BY <1>2 DEF Requested, InService
  <2>6. ServedLines(q) = ServedLines(p) /\ q \in Pair
    BY <1>2 DEF Requested, ServedLines
  <2> QED BY <2>2, <2>3, <2>4, <2>5, <2>6 DEF Touched
<1> QED BY <1>4, <1>5 DEF q, line

\* Nothing comes to the processor if and only if nothing waits.
LEMMA NothingPasses ==
    ASSUME NEW p, Remapped(p), Unmasked(p), Idle(p)
    PROVE  ToProcessor(p) = {} <=> PendingLines(p) = {}
PROOF
<1>1. p.slave.irr # {} => PendingLines(p) # {}
  <2>1. \A l \in p.slave.irr : 8 + l \in PendingLines(p)
    BY DEF PendingLines
  <2> QED BY <2>1
<1> QED BY <1>1, Passing DEF PendingLines

-----------------------------------------------------------------------------
(***************************************************************************)
(* The system around the chips.                                            *)
(***************************************************************************)
Threads == Setup \cup {"unmask", "idle"} \cup Sleeping
Running == thread \in {"idle"} \cup Sleeping

-----------------------------------------------------------------------------
\* The types of the controller's buffer and answers.  Of the three commands
\* that init_ps2_mouse sends, as many have an answer under way as were sent.
Commands(t) ==
    CASE t \in {"prepare", "ask"} -> 0
      [] t \in {"status", "configure", "reset"} -> 1
      [] t \in {"resetAck", "enable"} -> 2
      [] OTHER -> 3

ControllerOK ==
    /\ thread \in Threads /\ fresh \subseteq Sources
    /\ buffer = {} \/ \E b \in Byte : buffer = {b}
    /\ data \in Byte /\ config \subseteq Ports /\ status \subseteq Ports
    /\ reporting \in BOOLEAN
    /\ replies \in Seq(Byte) /\ Len(replies) <= Commands(thread)

\* The byte that port 0x60 gives.
LEMMA DataIsByte ==
    ASSUME ControllerOK
    PROVE  /\ Data \in Byte
           /\ buffer # {} => buffer = {Data}
PROOF
<1>1. CASE buffer = {}
  BY <1>1 DEF Data, ControllerOK
<1>2. CASE buffer # {}
  <2>1. PICK b \in Byte : buffer = {b}
    BY <1>2 DEF ControllerOK
  <2>2. (CHOOSE c \in buffer : TRUE) \in buffer
    BY <1>2, Zenon
  <2> QED BY <1>2, <2>1, <2>2 DEF Data
<1> QED BY <1>1, <1>2

LEMMA BytesInstances ==
    /\ Ack \in Byte
    /\ \A bits \in SUBSET Ports : ScanCode(bits) \in Byte
    /\ \A bits \in SUBSET Ports : [from |-> "controller", enables |-> bits] \in Byte
    /\ [from |-> "mouse", enables |-> {}] \in Byte
    /\ \A b \in Byte : b.enables \subseteq Ports /\ Port(b) \in Ports
BY DEF Ack, Byte, Ports, Port, ScanCode

LEMMA FillKeepsTypes ==
    ASSUME ControllerOK, NEW b \in Byte, Fill(b),
           fresh' \subseteq Sources, reporting' = reporting,
           replies' \in Seq(Byte), Len(replies') <= Len(replies)
    PROVE  ControllerOK'
PROOF
<1>1. /\ thread' = thread /\ data' = data /\ config' = config /\ status' = status
      /\ buffer' = {b}
  BY DEF Fill
<1>2. Commands(thread)' = Commands(thread)
  BY <1>1
<1>3. Len(replies') <= Commands(thread)
  <2>1. Commands(thread) \in Nat /\ Len(replies) \in Nat /\ Len(replies') \in Nat
    BY DEF Commands, ControllerOK
  <2> QED BY <2>1 DEF ControllerOK
<1> QED BY <1>1, <1>2, <1>3 DEF ControllerOK

LEMMA ReadKeepsTypes ==
    ASSUME ControllerOK, ReadData
    PROVE  /\ data' \in Byte /\ buffer' = {}
           /\ config' = config /\ replies' = replies /\ reporting' = reporting
BY DataIsByte DEF ReadData

LEMMA ControllerPreserved ==
    ASSUME ControllerOK, MachineAssumption, [Next]_vars
    PROVE  ControllerOK'
PROOF
<1> USE MachineAssumption
<1>1. /\ thread \in Threads /\ fresh \subseteq Sources
      /\ buffer = {} \/ \E b \in Byte : buffer = {b}
      /\ data \in Byte /\ config \subseteq Ports /\ status \subseteq Ports
      /\ reporting \in BOOLEAN
      /\ replies \in Seq(Byte) /\ Len(replies) <= Commands(thread)
  BY DEF ControllerOK
<1>2. CASE Reply
  <2>1. replies # <<>> /\ replies' = Tail(replies) /\ Fill(Head(replies))
    BY <1>2 DEF Reply
  <2>2. Head(replies) \in Byte /\ Tail(replies) \in Seq(Byte) /\ Len(Tail(replies)) <= Len(replies)
    BY <1>1, <2>1
  <2>3. fresh' \subseteq Sources /\ reporting' = reporting
    BY <1>1, <1>2 DEF Reply
  <2> QED BY <2>1, <2>2, <2>3, FillKeepsTypes, Zenon
<1>3. CASE Key
  <2>1. PICK bits \in ScanBits : Fill(ScanCode(bits))
    BY <1>3 DEF Key
  <2>2. ScanCode(bits) \in Byte
    BY BytesInstances DEF MachineAssumption, Ports
  <2>3. replies' = replies /\ reporting' = reporting /\ fresh' \subseteq Sources
    BY <1>1, <1>3 DEF Key
  <2>4. Len(replies') <= Len(replies)
    BY <1>1, <2>3
  <2> QED BY <1>1, <2>1, <2>2, <2>3, <2>4, FillKeepsTypes, Zenon
<1>4. CASE Movement
  <2>1. Fill([from |-> "mouse", enables |-> {}])
    BY <1>4 DEF Movement
  <2>2. replies' = replies /\ reporting' = reporting /\ fresh' \subseteq Sources
    BY <1>1, <1>4 DEF Movement
  <2>3. Len(replies') <= Len(replies)
    BY <1>1, <2>2
  <2> QED BY <1>1, <2>1, <2>2, <2>3, BytesInstances, FillKeepsTypes, Zenon
<1>5. CASE TimerPulse
  <2>1. fresh' \subseteq Sources /\ UNCHANGED <<thread, buffer, data, config, replies, reporting, status>>
    BY <1>1, <1>5 DEF TimerPulse, controller
  <2> QED BY <1>1, <2>1 DEF ControllerOK
<1>6. CASE PrepareInterrupts
  <2>1. /\ thread' = "ask" /\ thread = "prepare" /\ fresh' = Sources
        /\ UNCHANGED <<buffer, data, config, replies, reporting, status>>
    BY <1>6 DEF PrepareInterrupts, Run, controller
  <2> QED BY <1>1, <2>1 DEF ControllerOK, Commands, Threads, Setup
<1>7. CASE AskStatus
  <2>1. /\ thread' = "status" /\ thread = "ask" /\ fresh' = Sources
        /\ replies' = Append(replies, [from |-> "controller", enables |-> config])
        /\ UNCHANGED <<buffer, data, config, reporting, status>>
    BY <1>7 DEF AskStatus, Run
  <2>2. [from |-> "controller", enables |-> config] \in Byte
    BY <1>1, BytesInstances
  <2>3. replies' \in Seq(Byte) /\ Len(replies') = Len(replies) + 1
    BY <1>1, <2>1, <2>2
  <2> QED BY <1>1, <2>1, <2>3 DEF ControllerOK, Commands, Threads, Setup
<1>8. CASE ReadStatus
  <2>1. /\ thread' = "configure" /\ thread = "status" /\ fresh' = Sources
        /\ ReadData /\ status' = Data.enables \cup {"mouse"}
    BY <1>8 DEF ReadStatus, Run
  <2>2. status' \subseteq Ports
    BY <2>1, DataIsByte, BytesInstances DEF Ports
  <2> QED BY <1>1, <2>1, <2>2, ReadKeepsTypes DEF ControllerOK, Commands, Threads, Setup
<1>9. CASE Configure
  <2>1. /\ thread' = "reset" /\ thread = "configure" /\ fresh' = Sources /\ config' = status
        /\ UNCHANGED <<buffer, data, replies, reporting, status>>
    BY <1>9 DEF Configure, Run
  <2> QED BY <1>1, <2>1 DEF ControllerOK, Commands, Threads, Setup
<1>10. CASE CommandMouse
  <2>1. /\ \/ thread = "reset" /\ thread' = "resetAck"
           \/ thread = "enable" /\ thread' = "enableAck"
        /\ fresh' = Sources /\ replies' = Append(replies, Ack)
        /\ UNCHANGED <<buffer, data, config, status>>
    BY <1>10 DEF CommandMouse, Run
  <2>2. reporting' \in BOOLEAN
    BY <1>10, Zenon DEF CommandMouse
  <2>3. replies' \in Seq(Byte) /\ Len(replies') = Len(replies) + 1
    BY <1>1, <2>1, BytesInstances
  <2> QED BY <1>1, <2>1, <2>2, <2>3 DEF ControllerOK, Commands, Threads, Setup
<1>11. CASE ReadAck
  <2>1. /\ \/ thread = "resetAck" /\ thread' = "enable"
           \/ thread = "enableAck" /\ thread' = "unmask"
        /\ fresh' = Sources /\ ReadData /\ status' = status
    BY <1>11 DEF ReadAck, Run
  <2> QED BY <1>1, <2>1, ReadKeepsTypes DEF ControllerOK, Commands, Threads, Setup
<1>12. CASE EnableInterrupts \/ Sleep \/ SetFrequency \/ Test \/ Halt \/ Rest
  <2>1. /\ thread \in {"unmask", "idle", "test", "hlt", "halted"}
        /\ thread' \in {"idle", "test", "hlt", "halted"}
        /\ fresh' = Sources
        /\ UNCHANGED <<buffer, data, config, replies, reporting, status>>
    BY <1>12 DEF EnableInterrupts, Sleep, SetFrequency, Test, Halt, Rest, Run, controller
  <2> QED BY <1>1, <2>1 DEF ControllerOK, Commands, Threads, Setup, Sleeping
<1>13. CASE Deliver
  <2>1. /\ thread' = Woken(thread) 
        /\ UNCHANGED <<buffer, data, config, replies, reporting, status, fresh>>
    BY <1>13 DEF Deliver, controller
  <2> QED BY <1>1, <2>1 DEF ControllerOK, Commands, Threads, Setup, Sleeping, Woken
<1>14. CASE HandleByte
  <2>1. ReadData /\ UNCHANGED <<thread, status, fresh>>
    BY <1>14 DEF HandleByte
  <2> QED BY <1>1, <2>1, ReadKeepsTypes DEF ControllerOK
<1>15. CASE HandleTick \/ EndOfInterrupt \/ ReturnFromInterrupt \/ Fault
            \/ Spin \/ UNCHANGED vars
  <2>1. UNCHANGED <<thread, buffer, data, config, replies, reporting, status, fresh>>
    BY <1>15 DEF HandleTick, EndOfInterrupt, ReturnFromInterrupt, Fault, Spin, vars, controller
  <2> QED BY <1>1, <2>1 DEF ControllerOK
<1> QED BY <1>2, <1>3, <1>4, <1>5, <1>6, <1>7, <1>8, <1>9, <1>10, <1>11, <1>12,
           <1>13, <1>14, <1>15
        DEF Next, Device, Processor, Start, Sleeper, Handler, Client

-----------------------------------------------------------------------------
\* The two chips, the flag and the handler go together.
ChipsOK ==
    /\ pics \in Pair
    /\ IF thread = "prepare" THEN Idle(pics) ELSE Remapped(pics)
    /\ Running => Unmasked(pics)
    /\ interrupts \in BOOLEAN /\ (interrupts <=> Running /\ serving = "none")
    /\ serving \in Sources \cup {"none", "panic"}
    /\ serving \in Sources => /\ Running /\ thread # "halted"
                              /\ step \in {"enter", "end", "return"}
    /\ serving = "none" => step = "none"
    /\ serving = "panic" => step = "spin" /\ thread # "prepare"
    /\ serving \in Sources /\ step \in {"enter", "end"} => InService(pics, serving)
    /\ serving = "none" \/ step = "return" => Idle(pics)

\* A step of a device or of port 0x60 leaves that so.
LEMMA TouchedKeeps ==
    ASSUME ChipsOK, Touched(pics, pics'),
           thread' = thread \/ (thread # "prepare" /\ ~Running /\ thread' # "prepare" /\ ~Running'),
           UNCHANGED <<interrupts, serving, step>>
    PROVE  ChipsOK'
PROOF
<1>1. pics' \in Pair /\ (thread' = "prepare" <=> thread = "prepare") /\ (Running' <=> Running)
  BY DEF Touched, Running
<1>2. IF thread' = "prepare" THEN Idle(pics') ELSE Remapped(pics')
  BY <1>1 DEF ChipsOK, Touched
<1>3. Running' => Unmasked(pics')
  BY <1>1 DEF ChipsOK, Touched
<1>4. interrupts' <=> Running' /\ serving' = "none"
  BY <1>1 DEF ChipsOK
<1>5. serving \in Sources => thread' = thread
  BY DEF ChipsOK
<1>6. serving \in Sources /\ step \in {"enter", "end"} => InService(pics', serving)
  BY DEF ChipsOK, Touched
<1>7. serving = "none" \/ step = "return" => Idle(pics')
  BY DEF ChipsOK, Touched
<1> QED BY <1>1, <1>2, <1>3, <1>4, <1>5, <1>6, <1>7 DEF ChipsOK, Running

\* What Fill and ReadData do to the chips.
LEMMA FillTouches ==
    ASSUME pics \in Pair, NEW b \in Byte, Fill(b)
    PROVE  /\ Touched(pics, pics')
           /\ PendingLines(pics') =
                  PendingLines(pics) \cup (IF Port(b) \in config THEN {Line(Port(b))} ELSE {})
           /\ buffer = {} /\ buffer' = {b}
           /\ UNCHANGED <<thread, interrupts, serving, step, data, config, status, timer>>
PROOF
<1>1. Port(b) \in Sources
  BY BytesInstances DEF Sources
<1>2. CASE Port(b) \in config
  <2>1. pics' = Raised(pics, Line(Port(b)))
    BY <1>2 DEF Fill
  <2> QED BY <1>1, <1>2, <2>1, RaisedTouches DEF Fill
<1>3. CASE Port(b) \notin config
  <2>1. pics' = pics
    BY <1>3 DEF Fill
  <2> QED BY <1>3, <2>1 DEF Fill, Touched
<1> QED BY <1>2, <1>3

LEMMA ReadTouches ==
    ASSUME pics \in Pair, ControllerOK, ReadData
    PROVE  /\ Touched(pics, pics') /\ buffer' = {}
           /\ \/ PendingLines(pics') = PendingLines(pics)
              \/ /\ buffer = {Data} /\ Port(Data) \in Ports
                 /\ PendingLines(pics') = PendingLines(pics) \ {Line(Port(Data))}
PROOF
<1>1. CASE pics' = pics
  BY <1>1 DEF ReadData, Touched
<1>2. CASE buffer # {} /\ pics' = Withdrawn(pics, Line(Port(Data)))
  <2>1. Port(Data) \in Ports /\ buffer = {Data}
    BY <1>2, DataIsByte, BytesInstances
  <2>2. Port(Data) \in Sources
    BY <2>1 DEF Sources
  <2> QED BY <1>2, <2>1, <2>2, WithdrawnTouches DEF ReadData
<1> QED BY <1>1, <1>2 DEF ReadData

\* What the end of interrupt does to them.
LEMMA EndTouches ==
    ASSUME ChipsOK, EndOfInterrupt
    PROVE  /\ serving \in Sources /\ Running /\ Running' /\ thread' = thread
           /\ Remapped(pics') /\ Idle(pics') /\ Unmasked(pics')
           /\ PendingLines(pics') = PendingLines(pics)
PROOF
<1>1. step = "end" /\ UNCHANGED <<thread, serving>>
      /\ pics' = IF serving = "mouse" THEN pic_end_slave(pics) ELSE pic_end_master(pics)
  BY DEF EndOfInterrupt
<1>2. serving \in Sources
  BY <1>1 DEF ChipsOK
<1>3. Running /\ Running' /\ InService(pics, serving) /\ Remapped(pics) /\ Unmasked(pics)
  BY <1>1, <1>2 DEF ChipsOK, Running, Sleeping
<1> QED BY <1>1, <1>2, <1>3, EndServes

\* What an interrupt does to them.
LEMMA DeliverFetches ==
    ASSUME ChipsOK, Deliver
    PROVE  /\ serving' \in Sources /\ Fetches(pics, pics', serving')
           /\ serving = "none" /\ step' = "enter" /\ interrupts' = FALSE
           /\ Running /\ Running' /\ thread' = Woken(thread) /\ thread' # "halted"
           /\ Remapped(pics) /\ Idle(pics) /\ PendingLines(pics) # {}
PROOF
<1>1. /\ Interrupted /\ serving = "none" /\ pics' = Acknowledge(pics)
      /\ serving' = Gate(Vector(pics)) /\ thread' = Woken(thread)
  BY DEF Deliver
<1>2. interrupts /\ ToProcessor(pics) # {}
  BY <1>1 DEF Interrupted
<1>3. Running
  BY <1>2 DEF ChipsOK
<1>4. Remapped(pics) /\ Unmasked(pics) /\ Idle(pics)
  BY <1>1, <1>3 DEF ChipsOK, Running, Sleeping
<1>5. PICK source \in Sources : Fetches(pics, Acknowledge(pics), source)
  BY <1>2, <1>4, AcknowledgeFetches
<1>6. serving' = source
  BY <1>1, <1>5 DEF Fetches
<1>7. Running' /\ thread' # "halted"
  BY <1>1, <1>3 DEF Running, Sleeping, Woken
<1>8. PendingLines(pics) # {}
  BY <1>2, <1>4, NothingPasses
<1>9. step' = "enter" /\ interrupts' = FALSE
  BY DEF Deliver
<1> QED BY <1>1, <1>3, <1>4, <1>5, <1>6, <1>7, <1>8, <1>9

\* A step of the thread: no handler runs and nothing waits behind an open flag.
LEMMA RunRests ==
    ASSUME ChipsOK, NEW from, NEW to, Run(from, to)
    PROVE  /\ thread = from /\ thread' = to /\ fresh' = Sources
           /\ serving = "none" /\ step = "none" /\ serving' = "none" /\ step' = "none"
           /\ Idle(pics)
           /\ Running => PendingLines(pics) = {}
PROOF
<1>1. thread = from /\ thread' = to /\ fresh' = Sources /\ serving = "none"
      /\ ~Interrupted /\ serving' = serving /\ step' = step
  BY DEF Run
<1>2. Idle(pics) /\ step = "none"
  BY <1>1 DEF ChipsOK
<1>3. ASSUME Running PROVE PendingLines(pics) = {}
  <2>1. Remapped(pics) /\ Unmasked(pics)
    BY <1>3 DEF ChipsOK, Running, Sleeping
  <2>2. interrupts
    BY <1>1, <1>3 DEF ChipsOK
  <2> QED BY <1>1, <1>2, <2>1, <2>2, NothingPasses DEF Interrupted
<1> QED BY <1>1, <1>2, <1>3

LEMMA ChipsPreserved ==
    ASSUME ControllerOK, ChipsOK, MachineAssumption, [Next]_vars
    PROVE  ChipsOK'
PROOF
<1> USE MachineAssumption
<1>1. pics \in Pair
  BY DEF ChipsOK
<1>2. CASE Reply
  <2>1. replies # <<>> /\ Fill(Head(replies))
    BY <1>2 DEF Reply
  <2>2. Head(replies) \in Byte
    BY <2>1 DEF ControllerOK
  <2> QED BY <1>1, <2>1, <2>2, FillTouches, TouchedKeeps
<1>3. CASE Key
  <2>1. PICK bits \in ScanBits : Fill(ScanCode(bits))
    BY <1>3 DEF Key
  <2>2. ScanCode(bits) \in Byte
    BY BytesInstances DEF MachineAssumption, Ports
  <2> QED BY <1>1, <2>1, <2>2, FillTouches, TouchedKeeps
<1>4. CASE Movement
  <2>1. Fill([from |-> "mouse", enables |-> {}])
    BY <1>4 DEF Movement
  <2> QED BY <1>1, <2>1, BytesInstances, FillTouches, TouchedKeeps
<1>5. CASE TimerPulse
  <2>1. pics' = Raised(pics, Line("timer")) /\ UNCHANGED <<thread, interrupts, serving, step>>
    BY <1>5 DEF TimerPulse
  <2>2. "timer" \in Sources
    BY DEF Sources
  <2> QED BY <1>1, <2>1, <2>2, RaisedTouches, TouchedKeeps
<1>6. CASE PrepareInterrupts
  <2>1. Run("prepare", "ask") /\ pics' = remap_pic(pics) /\ interrupts' = interrupts
    BY <1>6 DEF PrepareInterrupts
  <2>2. Remapped(pics') /\ Idle(pics')
    BY <1>1, <2>1, RemapSetsUp
  <2>3. ~Running /\ ~Running' /\ thread' # "prepare"
    BY <2>1, RunRests DEF Running, Sleeping
  <2>4. interrupts' <=> Running' /\ serving' = "none"
    BY <2>1, <2>3 DEF ChipsOK
  <2> QED BY <2>1, <2>2, <2>3, <2>4, RunRests DEF ChipsOK, Remapped, Sources, Ports
<1>7. CASE AskStatus \/ Configure \/ CommandMouse
  <2>1. /\ thread # "prepare" /\ thread' # "prepare" /\ ~Running /\ ~Running'
        /\ UNCHANGED <<interrupts, serving, step, pics>>
    BY <1>7, RunRests DEF AskStatus, Configure, CommandMouse, Running, Sleeping
  <2>2. Touched(pics, pics')
    BY <1>1, <2>1 DEF Touched
  <2> QED BY <2>1, <2>2, TouchedKeeps
<1>8. CASE ReadStatus \/ ReadAck
  <2>1. /\ thread # "prepare" /\ thread' # "prepare" /\ ~Running /\ ~Running'
        /\ UNCHANGED <<interrupts, serving, step>> /\ ReadData
    BY <1>8, RunRests DEF ReadStatus, ReadAck, Running, Sleeping
  <2> QED BY <1>1, <2>1, ReadTouches, TouchedKeeps
<1>9. CASE EnableInterrupts
  <2>1. /\ Run("unmask", "idle") /\ interrupts' = TRUE
        /\ pics' = [master |-> WriteData(pics.master, 248),
                    slave |-> WriteData(pics.slave, 239)]
    BY <1>9 DEF EnableInterrupts
  <2>2. /\ thread = "unmask" /\ thread' = "idle" /\ Idle(pics)
        /\ serving' = "none" /\ step' = "none" /\ Running'
    BY <2>1, RunRests DEF Running
  <2>3. Remapped(pics)
    BY <2>2 DEF ChipsOK
  <2>4. Remapped(pics') /\ Idle(pics') /\ Unmasked(pics')
    BY <2>1, <2>2, <2>3, MasksSet
  <2>5. interrupts' <=> Running' /\ serving' = "none"
    BY <2>1, <2>2
  <2> QED BY <2>2, <2>4, <2>5 DEF ChipsOK, Remapped, Sources, Ports
<1>10. CASE Sleep \/ SetFrequency \/ Test \/ Halt \/ Rest
  <2>1. /\ Running /\ Running' /\ UNCHANGED <<interrupts, pics, serving, step>>
        /\ serving = "none" /\ step = "none" /\ thread # "prepare" /\ thread' # "prepare"
    BY <1>10, RunRests DEF Sleep, SetFrequency, Test, Halt, Rest, Running, Sleeping
  <2> QED BY <2>1 DEF ChipsOK, Sources, Ports, Running
<1>11. CASE Deliver
  <2>1. /\ serving' \in Sources /\ Fetches(pics, pics', serving')
        /\ step' = "enter" /\ interrupts' = FALSE /\ Running' /\ thread' # "halted"
    BY <1>11, DeliverFetches
  <2>2. Remapped(pics') /\ Unmasked(pics') /\ InService(pics', serving')
    BY <2>1 DEF Fetches
  <2>3. serving' # "none" /\ serving' # "panic" /\ thread' # "prepare"
    BY <2>1 DEF Sources, Ports, Running, Sleeping
  <2>4. interrupts' <=> Running' /\ serving' = "none"
    BY <2>1, <2>3
  <2> QED BY <2>1, <2>2, <2>3, <2>4 DEF ChipsOK, Remapped
<1>12. CASE HandleByte
  <2>1. /\ serving \in Ports /\ step = "enter" /\ step' = "end"
        /\ ReadData /\ UNCHANGED <<thread, interrupts, serving>>
    BY <1>12 DEF HandleByte
  <2>2. Touched(pics, pics')
    BY <1>1, <2>1, ReadTouches
  <2>3. InService(pics', serving) /\ pics' \in Pair
    BY <2>1, <2>2 DEF ChipsOK, Touched, Sources
  <2>4. Running' <=> Running
    BY <2>1 DEF Running
  <2> QED BY <2>1, <2>2, <2>3, <2>4 DEF ChipsOK, Touched, Sources, Ports
<1>13. CASE HandleTick
  <2>1. /\ serving = "timer" /\ step = "enter" /\ step' = "end"
        /\ UNCHANGED <<thread, interrupts, serving, pics>>
    BY <1>13 DEF HandleTick
  <2>2. Running' <=> Running
    BY <2>1 DEF Running
  <2> QED BY <2>1, <2>2 DEF ChipsOK, Sources
<1>14. CASE EndOfInterrupt
  <2>1. step' = "return" /\ UNCHANGED <<thread, interrupts, serving>>
    BY <1>14 DEF EndOfInterrupt
  <2> QED BY <1>14, <2>1, EndTouches DEF ChipsOK, Remapped, Sources, Ports
<1>15. CASE ReturnFromInterrupt
  <2>1. /\ step = "return" /\ step' = "none" /\ serving' = "none" /\ interrupts' = TRUE
        /\ UNCHANGED <<thread, pics>>
    BY <1>15 DEF ReturnFromInterrupt
  <2>2. Running /\ Running'
    BY <2>1 DEF ChipsOK, Running
  <2>3. interrupts' <=> Running' /\ serving' = "none"
    BY <2>1, <2>2
  <2> QED BY <2>1, <2>2, <2>3 DEF ChipsOK, Sources, Ports
<1>16. CASE Fault
  <2>1. /\ thread # "prepare" /\ serving' = "panic" /\ step' = "spin" /\ interrupts' = FALSE
        /\ UNCHANGED <<thread, pics>>
    BY <1>16 DEF Fault, Gate
  <2>2. (Running' <=> Running) /\ (interrupts' <=> Running' /\ serving' = "none")
    BY <2>1 DEF Running
  <2> QED BY <2>1, <2>2 DEF ChipsOK, Sources, Ports
<1>17. CASE Spin \/ UNCHANGED vars
  <2>1. UNCHANGED <<thread, pics, interrupts, serving, step>>
    BY <1>17 DEF Spin, vars
  <2> QED BY <2>1 DEF ChipsOK, Running
<1> QED BY <1>2, <1>3, <1>4, <1>5, <1>6, <1>7, <1>8, <1>9, <1>10, <1>11, <1>12,
           <1>13, <1>14, <1>15, <1>16, <1>17
        DEF Next, Device, Processor, Start, Sleeper, Handler, Client

-----------------------------------------------------------------------------
\* The timer: any divisor that set_divisor takes.
TimerOK == divisor \in MinDivisor .. Word - 1 /\ left \in Nat /\ late \in Nat

LEMMA DivisorTaken ==
    ASSUME TimerAssumption, NEW f \in Nat \ {0}
    PROVE  DivisorFor(f) \in MinDivisor .. Word - 1
PROOF
<1>1. base_frequency \div f \in Int
  BY DEF TimerAssumption
<1>2. \A q \in Int : q % Word \in 0 .. Word - 1
  BY DEF TimerAssumption
<1>3. (base_frequency \div f) % Word \in 0 .. Word - 1
  BY <1>1, <1>2
<1> QED BY <1>3 DEF DivisorFor, TimerAssumption

LEMMA TickLengthNat ==
    ASSUME TimerAssumption, TimerOK
    PROVE  TickLength(divisor) \in Nat
PROOF
<1>1. \A a \in Nat, b \in Nat \ {0} : a \div b \in Nat /\ (b <= a => a \div b # 0)
  OBVIOUS
<1>2. base_frequency \in Nat /\ divisor \in Nat \ {0} /\ divisor <= base_frequency
      /\ Scale \in Nat
  BY DEF TimerAssumption, TimerOK
<1>3. get_frequency(divisor) \in Nat \ {0}
  BY <1>1, <1>2 DEF get_frequency
<1> QED BY <1>1, <1>2, <1>3 DEF TickLength

LEMMA TimerPreserved ==
    ASSUME TimerOK, MachineAssumption, TimerAssumption, [Next]_vars
    PROVE  TimerOK'
PROOF
<1>1. CASE UNCHANGED timer
  BY <1>1 DEF timer, TimerOK
<1>2. CASE Sleep
  <2>1. left' \in Nat /\ late' = 0 /\ divisor' = divisor
    BY <1>2 DEF Sleep, MachineAssumption
  <2> QED BY <2>1 DEF TimerOK
<1>3. CASE SetFrequency
  <2>1. divisor' \in MinDivisor .. Word - 1 /\ UNCHANGED <<left, late>>
    BY <1>3, DivisorTaken DEF SetFrequency, MachineAssumption
  <2> QED BY <2>1 DEF TimerOK
<1>4. CASE HandleTick
  <2>1. left' = IF left > TickLength(divisor) THEN left - TickLength(divisor) ELSE 0
    BY <1>4 DEF HandleTick
  <2>2. left' \in Nat
    BY <2>1, TickLengthNat DEF TimerOK
  <2>3. late' \in Nat /\ divisor' = divisor
    BY <1>4 DEF HandleTick, TimerOK
  <2> QED BY <2>2, <2>3 DEF TimerOK
<1> QED BY <1>1, <1>2, <1>3, <1>4
        DEF Next, Device, Processor, Start, Sleeper, Handler, Client, Reply, Key, Movement,
            Fill, TimerPulse, PrepareInterrupts, AskStatus, ReadStatus, Configure,
            CommandMouse, ReadAck, EnableInterrupts, Test, Halt, Rest, Deliver, HandleByte,
            EndOfInterrupt, ReturnFromInterrupt, Fault, Spin, vars

-----------------------------------------------------------------------------
IInv == ControllerOK /\ ChipsOK /\ TimerOK

LEMMA InitInv ==
    ASSUME MachineAssumption, TimerAssumption, Init
    PROVE  IInv
PROOF
<1>1. ControllerOK
  <2>1. /\ thread = "prepare" /\ data = Ack /\ config = {"keyboard"}
        /\ replies = <<>> /\ status = {} /\ fresh = Sources
    BY DEF Init
  <2>4. buffer = {} \/ \E bits \in ScanBits : buffer = {ScanCode(bits)}
    BY DEF Init
  <2>5. buffer = {} \/ \E b \in Byte : buffer = {b}
    <3>1. \A bits \in ScanBits : ScanCode(bits) \in Byte
      BY BytesInstances DEF MachineAssumption, Ports
    <3> QED BY <2>4, <3>1
  <2>2. reporting \in BOOLEAN
    BY Zenon DEF Init
  <2>3. replies \in Seq(Byte) /\ Len(replies) = 0
    BY <2>1
  <2> QED BY <2>1, <2>2, <2>3, <2>5, BytesInstances
          DEF ControllerOK, Commands, Threads, Setup, Ports
<1>2. ChipsOK
  <2>1. pics \in Pair /\ Idle(pics)
    BY DEF Init, MachineAssumption, Idle, Pair
  <2>2. ~Running /\ thread = "prepare" /\ serving = "none" /\ step = "none"
    BY DEF Init, Running, Sleeping
  <2>3. interrupts \in BOOLEAN /\ ~interrupts
    BY Zenon DEF Init
  <2> QED BY <2>1, <2>2, <2>3 DEF ChipsOK, Sources, Ports
<1>3. TimerOK
  BY DEF Init, TimerOK, TimerAssumption, PowerOnDivisor
<1> QED BY <1>1, <1>2, <1>3 DEF IInv

LEMMA Invariant == Spec => []IInv
PROOF
<1>1. MachineAssumption /\ TimerAssumption
  BY MachineAssumption, TimerAssumption
<1>2. Init => IInv
  BY <1>1, InitInv
<1>3. IInv /\ [Next]_vars => IInv'
  BY <1>1, ControllerPreserved, ChipsPreserved, TimerPreserved DEF IInv
<1> QED BY <1>2, <1>3, PTL DEF Spec

\* Every variable keeps its type: above all, no more than three answers of the
\* mouse controller are ever under way, and the divisor written to the timer
\* fits its word whatever frequency was asked for.
THEOREM TypeCorrect == Spec => []TypeOK
PROOF
<1>1. IInv => TypeOK
  <2> SUFFICES ASSUME IInv PROVE TypeOK
    OBVIOUS
  <2>1. thread \in Setup \cup {"unmask", "idle"} \cup Sleeping
    BY DEF IInv, ControllerOK, Threads
  <2>2. pics \in [master : Chip, slave : Chip] /\ interrupts \in BOOLEAN
    BY DEF IInv, ChipsOK, Pair
  <2>3. /\ serving \in Sources \cup {"none", "panic"}
        /\ step \in {"none", "enter", "end", "return", "spin"}
    BY DEF IInv, ChipsOK
  <2>4. buffer \subseteq Byte /\ Cardinality(buffer) <= 1
    <3>1. CASE buffer = {}
      BY <3>1, FS_EmptySet
    <3>2. CASE \E b \in Byte : buffer = {b}
      <4>1. PICK b \in Byte : buffer = {b}
        BY <3>2
      <4>2. Cardinality({b}) = 1
        BY FS_Singleton, Zenon
      <4> QED BY <4>1, <4>2
    <3> QED BY <3>1, <3>2 DEF IInv, ControllerOK
  <2>5. Len(replies) <= 3
    BY DEF IInv, ControllerOK, Commands
  <2> QED BY <2>1, <2>2, <2>3, <2>4, <2>5 DEF IInv, ControllerOK, TimerOK, TypeOK
<1> QED BY <1>1, Invariant, PTL

\* A handler runs for the line of its own device, and no other line is in
\* service until its end of interrupt: after remap_pic the vectors are those
\* of the gates, whatever requests and masks the firmware left.
THEOREM HandlersServeTheirLine == Spec => []ServesItsLine
PROOF
<1>1. IInv => ServesItsLine
  <2> SUFFICES ASSUME IInv, serving # "panic"
               PROVE  ServedLines(pics) =
                          IF step \in {"enter", "end"} THEN {Line(serving)} ELSE {}
    BY DEF ServesItsLine
  <2>1. CASE step \in {"enter", "end"}
    <3>1. serving \in Sources /\ Running /\ InService(pics, serving)
      BY <2>1 DEF IInv, ChipsOK
    <3>2. Remapped(pics)
      BY <3>1 DEF IInv, ChipsOK, Running, Sleeping
    <3> QED BY <2>1, <3>1, <3>2, LinesOf
  <2>2. CASE step \notin {"enter", "end"}
    <3>1. Idle(pics)
      BY <2>2 DEF IInv, ChipsOK
    <3> QED BY <2>2, <3>1 DEF Idle, ServedLines
  <2> QED BY <2>1, <2>2
<1> QED BY <1>1, Invariant, PTL

-----------------------------------------------------------------------------
\* The controller's answer to the question for its configuration, as it is
\* when nothing else gets into the buffer.
Answer == [from |-> "controller", enables |-> {"keyboard"}]

\* How far the configuration has come.
ConfigOK ==
    /\ thread \in {"prepare", "ask", "configure"} => buffer = {} /\ replies = <<>>
    /\ thread = "status" => \/ buffer = {} /\ replies = <<Answer>>
                            \/ buffer = {Answer} /\ replies = <<>>
    /\ thread = "configure" => status = Ports
    /\ config = IF thread \in {"prepare", "ask", "status", "configure"}
                THEN {"keyboard"} ELSE Ports
    /\ reporting => thread \in {"enableAck", "unmask"} \/ Running

\* Without early keys a byte that gets into the buffer is one the controller
\* is configured to announce.
LEMMA FillsConfigured ==
    ASSUME ~EarlyKeys, ControllerOK, ConfigOK, Reply \/ Key \/ Movement
    PROVE  \E b \in Byte : /\ Fill(b) /\ Port(b) \in config
                           /\ thread \notin {"prepare", "ask", "configure"}
                           /\ thread = "status" => b = Answer /\ replies' = <<>>
                           /\ UNCHANGED reporting
PROOF
<1>1. CASE Reply
  <2>1. replies # <<>> /\ replies' = Tail(replies) /\ Fill(Head(replies))
        /\ UNCHANGED reporting
    BY <1>1 DEF Reply
  <2>2. Head(replies) \in Byte
    BY <2>1 DEF ControllerOK
  <2>3. thread \notin {"prepare", "ask", "configure"}
    BY <2>1 DEF ConfigOK
  <2>4. CASE thread = "status"
    <3>1. replies = <<Answer>> /\ config = {"keyboard"}
      BY <2>1, <2>4 DEF ConfigOK
    <3>2. Head(replies) = Answer /\ replies' = <<>> /\ Port(Answer) \in config
      BY <2>1, <3>1 DEF Answer, Port
    <3> QED BY <2>1, <2>2, <2>3, <3>2, Zenon
  <2>5. CASE thread # "status"
    <3>1. config = Ports
      BY <2>3, <2>5 DEF ConfigOK
    <3> QED BY <2>1, <2>2, <2>3, <2>5, <3>1, BytesInstances
  <2> QED BY <2>4, <2>5
<1>2. CASE Key
  <2>1. PICK bits \in ScanBits : Fill(ScanCode(bits))
    BY <1>2 DEF Key
  <2>2. thread \notin Setup /\ UNCHANGED reporting
    BY <1>2 DEF Key
  <2>3. ScanCode(bits) \in Byte
    BY MachineAssumption, BytesInstances DEF MachineAssumption, Ports
  <2>4. config = Ports
    BY <2>2 DEF ConfigOK, Setup
  <2> QED BY <2>1, <2>2, <2>3, <2>4, BytesInstances DEF Setup
<1>3. CASE Movement
  <2>1. reporting /\ Fill([from |-> "mouse", enables |-> {}]) /\ UNCHANGED reporting
    BY <1>3 DEF Movement
  <2>2. thread \in {"enableAck", "unmask"} \/ Running
    BY <2>1 DEF ConfigOK
  <2>3. config = Ports
    BY <2>2 DEF ConfigOK, Running, Sleeping
  <2> QED BY <2>1, <2>2, <2>3, BytesInstances DEF Running, Sleeping
<1> QED BY <1>1, <1>2, <1>3

LEMMA ConfigPreserved ==
    ASSUME ~EarlyKeys, ControllerOK, ChipsOK, ConfigOK, [Next]_vars
    PROVE  ConfigOK'
PROOF
<1>1. CASE Reply \/ Key \/ Movement
  <2>1. PICK b \in Byte : /\ Fill(b) /\ Port(b) \in config
                          /\ thread \notin {"prepare", "ask", "configure"}
                          /\ thread = "status" => b = Answer /\ replies' = <<>>
                          /\ UNCHANGED reporting
    BY <1>1, FillsConfigured
  <2>2. buffer' = {b} /\ UNCHANGED <<thread, config, status>>
    BY <2>1 DEF Fill
  <2> QED BY <2>1, <2>2 DEF ConfigOK, Running
<1>2. CASE PrepareInterrupts
  <2>1. thread = "prepare" /\ thread' = "ask"
        /\ UNCHANGED <<buffer, config, replies, reporting, status>>
    BY <1>2 DEF PrepareInterrupts, Run, controller
  <2> QED BY <2>1 DEF ConfigOK, Running, Sleeping
<1>3. CASE AskStatus
  <2>1. /\ thread = "ask" /\ thread' = "status"
        /\ replies' = Append(replies, [from |-> "controller", enables |-> config])
        /\ UNCHANGED <<buffer, config, reporting>>
    BY <1>3 DEF AskStatus, Run
  <2>2. replies = <<>> /\ buffer = {} /\ config = {"keyboard"} /\ ~reporting
    BY <2>1 DEF ConfigOK, Running, Sleeping
  <2>3. replies' = <<Answer>>
    BY <2>1, <2>2 DEF Answer
  <2> QED BY <2>1, <2>2, <2>3 DEF ConfigOK
<1>4. CASE ReadStatus
  <2>1. /\ thread = "status" /\ thread' = "configure" /\ buffer # {}
        /\ ReadData /\ status' = Data.enables \cup {"mouse"}
    BY <1>4 DEF ReadStatus, Run
  <2>2. buffer = {Answer} /\ replies = <<>> /\ config = {"keyboard"} /\ ~reporting
    BY <2>1 DEF ConfigOK, Running, Sleeping
  <2>3. Data = Answer
    BY <2>2, DataIsByte
  <2>4. status' = Ports
    BY <2>1, <2>3 DEF Answer, Ports
  <2> QED BY <2>1, <2>2, <2>4, ReadKeepsTypes DEF ConfigOK
<1>5. CASE Configure
  <2>1. thread = "configure" /\ thread' = "reset" /\ config' = status
        /\ UNCHANGED <<reporting>>
    BY <1>5 DEF Configure, Run
  <2> QED BY <2>1 DEF ConfigOK, Running, Sleeping
<1>6. CASE CommandMouse
  <2>1. /\ \/ thread = "reset" /\ thread' = "resetAck"
           \/ thread = "enable" /\ thread' = "enableAck"
        /\ config' = config
    BY <1>6 DEF CommandMouse, Run
  <2>2. reporting' => thread = "enable"
    BY <1>6, <2>1 DEF CommandMouse, ConfigOK, Running, Sleeping
  <2> QED BY <2>1, <2>2 DEF ConfigOK
<1>7. CASE ReadAck
  <2>1. /\ \/ thread = "resetAck" /\ thread' = "enable"
           \/ thread = "enableAck" /\ thread' = "unmask"
        /\ ReadData
    BY <1>7 DEF ReadAck, Run
  <2> QED BY <2>1, ReadKeepsTypes DEF ConfigOK, Running, Sleeping
<1>8. CASE EnableInterrupts \/ Sleep \/ SetFrequency \/ Test \/ Halt \/ Rest
  <2>1. /\ thread \in {"unmask", "idle", "test", "hlt", "halted"}
        /\ thread' \in {"idle", "test", "hlt", "halted"}
        /\ config' = config
    BY <1>8 DEF EnableInterrupts, Sleep, SetFrequency, Test, Halt, Rest, Run, controller
  <2> QED BY <2>1 DEF ConfigOK, Running, Sleeping
<1>9. CASE Deliver
  <2>1. Running /\ Running' /\ config' = config
    BY <1>9, DeliverFetches DEF Deliver, controller
  <2> QED BY <2>1 DEF ConfigOK, Running, Sleeping
<1>10. CASE HandleByte
  <2>1. Running /\ Running' /\ config' = config
    BY <1>10 DEF HandleByte, ReadData, ChipsOK, Sources, Running
  <2> QED BY <2>1 DEF ConfigOK, Running, Sleeping
<1>11. CASE TimerPulse \/ HandleTick \/ EndOfInterrupt \/ ReturnFromInterrupt \/ Fault
            \/ Spin \/ UNCHANGED vars
  <2>1. UNCHANGED <<thread, buffer, config, replies, reporting, status>>
    BY <1>11 DEF TimerPulse, HandleTick, EndOfInterrupt, ReturnFromInterrupt, Fault, Spin,
                 vars, controller
  <2> QED BY <2>1 DEF ConfigOK, Running
<1> QED BY <1>1, <1>2, <1>3, <1>4, <1>5, <1>6, <1>7, <1>8, <1>9, <1>10, <1>11
        DEF Next, Device, Processor, Start, Sleeper, Handler, Client

LEMMA LinesDiffer ==
    /\ \A s, t \in Sources : Line(s) = Line(t) => s = t
    /\ Ports \subseteq Sources
    /\ Line("timer") = 0 /\ Line("keyboard") = 1 /\ Line("mouse") = 12
PROOF
<1>1. Line("timer") = 0 /\ Line("keyboard") = 1 /\ Line("mouse") = 12
  BY DEF Line
<1> QED BY <1>1 DEF Sources, Ports

\* An interrupt moves the request of its source to the handler.
LEMMA DeliverKeepsAnnounced ==
    ASSUME ChipsOK, Deliver, NEW p \in Ports, Announced(p)
    PROVE  Announced(p)'
PROOF
<1>1. /\ serving' \in Sources /\ Fetches(pics, pics', serving') /\ serving = "none"
      /\ step' = "enter"
  BY DeliverFetches
<1>2. Line(p) \in PendingLines(pics)
  BY <1>1 DEF Announced, Reading, Requests, Ports
<1>3. PendingLines(pics') = PendingLines(pics) \ {Line(serving')}
  BY <1>1 DEF Fetches
<1>4. CASE p = serving'
  BY <1>1, <1>4 DEF Announced, Reading
<1>5. CASE p # serving'
  <2>1. Line(p) # Line(serving')
    BY <1>1, <1>5, LinesDiffer
  <2> QED BY <1>2, <1>3, <2>1 DEF Announced, Requests
<1> QED BY <1>4, <1>5

LEMMA AnnouncedPreserved ==
    ASSUME ~EarlyKeys, ControllerOK, ChipsOK, ConfigOK, BytesAnnounced, [Next]_vars
    PROVE  BytesAnnounced'
PROOF
<1>1. CASE Reply \/ Key \/ Movement
  <2>1. PICK b \in Byte : Fill(b) /\ Port(b) \in config
    BY <1>1, FillsConfigured
  <2>2. buffer' = {b} /\ Line(Port(b)) \in PendingLines(pics')
    BY <2>1, FillTouches DEF ChipsOK
  <2>3. Port(b) \in Ports
    BY BytesInstances
  <2> QED BY <2>2, <2>3 DEF BytesAnnounced, Announced, Requests
<1>2. CASE TimerPulse
  <2>1. pics' = Raised(pics, Line("timer")) /\ UNCHANGED <<serving, step, buffer>>
    BY <1>2 DEF TimerPulse, controller
  <2>2. PendingLines(pics) \subseteq PendingLines(pics')
    BY <2>1, RaisedTouches DEF ChipsOK, Sources
  <2> QED BY <2>1, <2>2 DEF BytesAnnounced, Announced, Requests, Reading
<1>3. CASE PrepareInterrupts
  <2>1. thread = "prepare" /\ UNCHANGED buffer
    BY <1>3 DEF PrepareInterrupts, Run, controller
  <2>2. buffer' = {}
    BY <2>1 DEF ConfigOK
  <2> QED BY <2>2 DEF BytesAnnounced
<1>4. CASE ReadStatus \/ ReadAck \/ HandleByte
  <2>1. buffer' = {}
    BY <1>4 DEF ReadStatus, ReadAck, HandleByte, ReadData
  <2> QED BY <2>1 DEF BytesAnnounced
<1>5. CASE EnableInterrupts
  <2>1. /\ Run("unmask", "idle")
        /\ pics' = [master |-> WriteData(pics.master, 248),
                    slave |-> WriteData(pics.slave, 239)]
        /\ UNCHANGED buffer
    BY <1>5 DEF EnableInterrupts, controller
  <2>2. Remapped(pics) /\ Idle(pics) /\ serving' = serving /\ step' = step
    BY <2>1, RunRests DEF ChipsOK
  <2>3. PendingLines(pics') = PendingLines(pics)
    BY <2>1, <2>2, MasksSet
  <2> QED BY <2>1, <2>2, <2>3 DEF BytesAnnounced, Announced, Requests, Reading
<1>6. CASE Deliver
  <2>1. UNCHANGED buffer /\ serving = "none"
    BY <1>6 DEF Deliver, controller
  <2>2. \A b \in buffer : Announced(Port(b)) /\ Port(b) \in Ports
    BY <2>1, BytesInstances DEF BytesAnnounced, ControllerOK
  <2> QED BY <1>6, <2>1, <2>2, DeliverKeepsAnnounced DEF BytesAnnounced
<1>7. CASE HandleTick
  <2>1. serving = "timer" /\ UNCHANGED <<buffer, pics, serving>>
    BY <1>7 DEF HandleTick, controller
  <2> QED BY <2>1 DEF BytesAnnounced, Announced, Requests, Reading, Ports
<1>8. CASE EndOfInterrupt
  <2>1. step = "end" /\ UNCHANGED <<buffer, serving>>
    BY <1>8 DEF EndOfInterrupt, controller
  <2>2. PendingLines(pics') = PendingLines(pics)
    BY <1>8, EndTouches
  <2> QED BY <2>1, <2>2 DEF BytesAnnounced, Announced, Requests, Reading
<1>9. CASE ReturnFromInterrupt
  <2>1. step = "return" /\ UNCHANGED <<buffer, pics>>
    BY <1>9 DEF ReturnFromInterrupt, controller
  <2>2. serving # "panic"
    BY <2>1 DEF ChipsOK
  <2> QED BY <2>1, <2>2 DEF BytesAnnounced, Announced, Requests, Reading
<1>10. CASE Fault
  <2>1. serving' = "panic"
    BY <1>10 DEF Fault, Gate
  <2> QED BY <2>1 DEF BytesAnnounced
<1>11. CASE AskStatus \/ Configure \/ CommandMouse \/ Sleep \/ SetFrequency \/ Test \/ Halt
            \/ Rest \/ Spin \/ UNCHANGED vars
  <2>1. UNCHANGED <<buffer, pics, serving, step>>
    BY <1>11 DEF AskStatus, Configure, CommandMouse, Sleep, SetFrequency, Test, Halt, Rest,
                 Run, Spin, vars, controller
  <2> QED BY <2>1 DEF BytesAnnounced, Announced, Requests, Reading
<1> QED BY <1>1, <1>2, <1>3, <1>4, <1>5, <1>6, <1>7, <1>8, <1>9, <1>10, <1>11
        DEF Next, Device, Processor, Start, Sleeper, Handler, Client

LEMMA AnnouncedInvariant ==
    ASSUME ~EarlyKeys
    PROVE  Spec => [](IInv /\ ConfigOK /\ BytesAnnounced)
PROOF
<1>1. Init => ConfigOK /\ BytesAnnounced
  <2> SUFFICES ASSUME Init PROVE ConfigOK /\ BytesAnnounced
    OBVIOUS
  <2>1. /\ thread = "prepare" /\ buffer = {} /\ replies = <<>> /\ config = {"keyboard"}
    BY DEF Init
  <2>2. ~reporting
    BY Zenon DEF Init
  <2> QED BY <2>1, <2>2 DEF ConfigOK, BytesAnnounced
<1>2. IInv /\ ConfigOK /\ BytesAnnounced /\ [Next]_vars => ConfigOK' /\ BytesAnnounced'
  BY ConfigPreserved, AnnouncedPreserved DEF IInv
<1> QED BY <1>1, <1>2, Invariant, PTL DEF Spec

\* No byte of the keyboard or the mouse is left in the controller's buffer
\* without an interrupt that fetches it, unless the kernel panics: with no key
\* pressed while init_ps2_mouse polls the buffer.
THEOREM EveryByteAnnounced == ASSUME ~EarlyKeys PROVE Spec => []BytesAnnounced
BY AnnouncedInvariant, PTL

\* The configuration that init_ps2_mouse writes turns both interrupts on, under
\* the same assumption.
THEOREM BothInterruptsConfigured ==
    ASSUME ~EarlyKeys PROVE Spec => []InterruptsConfigured
PROOF
<1>1. ConfigOK => InterruptsConfigured
  BY DEF ConfigOK, InterruptsConfigured
<1> QED BY <1>1, AnnouncedInvariant, PTL

-----------------------------------------------------------------------------
\* The number of requests for a byte.
Count(holds) == IF holds THEN 1 ELSE 0

LEMMA PortsCounted ==
    ASSUME NEW R \in SUBSET Ports
    PROVE  Cardinality(R) = Count("keyboard" \in R) + Count("mouse" \in R)
PROOF
<1>1. R \subseteq {"keyboard", "mouse"}
  BY DEF Ports
<1>2. /\ Cardinality({}) = 0 /\ Cardinality({"keyboard"}) = 1
      /\ Cardinality({"mouse"}) = 1 /\ Cardinality({"keyboard", "mouse"}) = 2
  <2>1. Cardinality({"keyboard", "mouse"}) = 2
    <3>1. {"keyboard", "mouse"} = {"keyboard"} \cup {"mouse"}
      OBVIOUS
    <3>2. IsFiniteSet({"keyboard"}) /\ Cardinality({"keyboard"}) = 1
      BY FS_Singleton
    <3>3. "mouse" \notin {"keyboard"}
      OBVIOUS
    <3> QED BY <3>1, <3>2, <3>3, FS_AddElement
  <2> QED BY <2>1, FS_EmptySet, FS_Singleton
<1>3. R = {} \/ R = {"keyboard"} \/ R = {"mouse"} \/ R = {"keyboard", "mouse"}
  BY <1>1
<1> QED BY <1>2, <1>3 DEF Count

LEMMA BufferCounted ==
    ASSUME NEW B, B = {} \/ \E b \in Byte : B = {b}
    PROVE  Cardinality(B) = Count(B # {})
PROOF
<1>1. CASE B = {}
  BY <1>1, FS_EmptySet DEF Count
<1>2. CASE \E b \in Byte : B = {b}
  BY <1>2, FS_Singleton DEF Count
<1> QED BY <1>1, <1>2

\* The interrupts in surplus, counted by line.
Excess(waiting, reading, B) ==
    Count(1 \in waiting) + Count(12 \in waiting) + Count(reading) - Count(B # {})

LEMMA SurplusCounted ==
    /\ ControllerOK => Surplus = Excess(PendingLines(pics), Reading, buffer)
    /\ ControllerOK' => Surplus' = Excess(PendingLines(pics'), Reading', buffer')
PROOF
<1>1. /\ Requests \subseteq Ports
      /\ "keyboard" \in Requests <=> 1 \in PendingLines(pics)
      /\ "mouse" \in Requests <=> 12 \in PendingLines(pics)
  BY LinesDiffer DEF Requests, Ports
<1>2. /\ Requests' \subseteq Ports
      /\ "keyboard" \in Requests' <=> 1 \in PendingLines(pics')
      /\ "mouse" \in Requests' <=> 12 \in PendingLines(pics')
  BY LinesDiffer DEF Requests, Ports
<1>3. ASSUME ControllerOK
      PROVE  Surplus = Excess(PendingLines(pics), Reading, buffer)
  <2>1. Cardinality(buffer) = Count(buffer # {})
    BY <1>3, BufferCounted DEF ControllerOK
  <2>2. Cardinality(Requests) = Count("keyboard" \in Requests) + Count("mouse" \in Requests)
    BY <1>1, PortsCounted
  <2> QED BY <1>1, <2>1, <2>2 DEF Surplus, Excess, Count
<1>4. ASSUME ControllerOK'
      PROVE  Surplus' = Excess(PendingLines(pics'), Reading', buffer')
  <2>1. Cardinality(buffer') = Count(buffer' # {})
    BY <1>4, BufferCounted DEF ControllerOK
  <2>2. Cardinality(Requests') = Count("keyboard" \in Requests') + Count("mouse" \in Requests')
    BY <1>2, PortsCounted
  <2> QED BY <1>2, <2>1, <2>2 DEF Surplus, Excess, Count
<1> QED BY <1>3, <1>4

LEMMA SurplusStep ==
    ASSUME ControllerOK, ChipsOK, [Next]_vars, thread \notin Setup, serving' # "panic"
    PROVE  Excess(PendingLines(pics'), Reading', buffer')
               <= Excess(PendingLines(pics), Reading, buffer)
PROOF
<1>1. ASSUME NEW b \in Byte, Fill(b)
      PROVE  Excess(PendingLines(pics'), Reading', buffer')
                 <= Excess(PendingLines(pics), Reading, buffer)
  <2>1. /\ \/ PendingLines(pics') = PendingLines(pics) \cup {Line(Port(b))}
           \/ PendingLines(pics') = PendingLines(pics)
        /\ buffer = {} /\ buffer' = {b} /\ UNCHANGED <<serving, step>>
    BY <1>1, FillTouches DEF ChipsOK
  <2>2. Line(Port(b)) = 1 \/ Line(Port(b)) = 12
    BY BytesInstances, LinesDiffer DEF Ports
  <2>3. Reading' <=> Reading
    BY <2>1 DEF Reading
  <2>4. buffer' # {}
    BY <2>1
  <2> QED BY <2>1, <2>2, <2>3, <2>4 DEF Excess, Count
<1>2. CASE Reply \/ Key \/ Movement
  <2>1. \E b \in Byte : Fill(b)
    <3>1. CASE Reply
      BY <3>1 DEF Reply, ControllerOK
    <3>2. CASE Key
      <4>1. \A bits \in ScanBits : ScanCode(bits) \in Byte
        BY MachineAssumption, BytesInstances DEF MachineAssumption, Ports
      <4> QED BY <3>2, <4>1 DEF Key
    <3>3. CASE Movement
      BY <3>3, BytesInstances DEF Movement
    <3> QED BY <1>2, <3>1, <3>2, <3>3
  <2> QED BY <1>1, <2>1
<1>3. CASE TimerPulse
  <2>1. pics' = Raised(pics, Line("timer")) /\ UNCHANGED <<serving, step, buffer>>
    BY <1>3 DEF TimerPulse, controller
  <2>2. PendingLines(pics') = PendingLines(pics) \cup {0}
    BY <2>1, RaisedTouches, LinesDiffer DEF ChipsOK, Sources
  <2>3. Reading' <=> Reading
    BY <2>1 DEF Reading
  <2> QED BY <2>1, <2>2, <2>3 DEF Excess, Count
<1>4. CASE EnableInterrupts
  <2>1. /\ Run("unmask", "idle")
        /\ pics' = [master |-> WriteData(pics.master, 248),
                    slave |-> WriteData(pics.slave, 239)]
        /\ UNCHANGED buffer
    BY <1>4 DEF EnableInterrupts, controller
  <2>2. Remapped(pics) /\ Idle(pics) /\ serving' = serving /\ step' = step
    BY <2>1, RunRests DEF ChipsOK
  <2>3. PendingLines(pics') = PendingLines(pics)
    BY <2>1, <2>2, MasksSet
  <2>4. Reading' <=> Reading
    BY <2>2 DEF Reading
  <2> QED BY <2>1, <2>3, <2>4 DEF Excess, Count
<1>5. CASE Deliver
  <2>1. /\ serving' \in Sources /\ serving = "none" /\ step' = "enter" /\ Remapped(pics)
        /\ Raises(pics, serving') /\ UNCHANGED buffer
        /\ PendingLines(pics') = PendingLines(pics) \ {Line(serving')}
    BY <1>5, DeliverFetches DEF Fetches, Deliver, controller
  <2>2. Line(serving') \in PendingLines(pics)
    BY <2>1, LinesOf
  <2>3. ~Reading /\ (Reading' <=> serving' \in Ports)
    BY <2>1 DEF Reading, Ports
  <2>4. CASE serving' = "timer"
    BY <2>1, <2>3, <2>4, LinesDiffer DEF Excess, Count, Ports
  <2>5. CASE serving' = "keyboard"
    BY <2>1, <2>2, <2>3, <2>5, LinesDiffer DEF Excess, Count, Ports
  <2>6. CASE serving' = "mouse"
    BY <2>1, <2>2, <2>3, <2>6, LinesDiffer DEF Excess, Count, Ports
  <2> QED BY <2>1, <2>4, <2>5, <2>6 DEF Sources, Ports
<1>6. CASE HandleByte
  <2>1. Reading /\ ReadData /\ ~Reading'
    BY <1>6 DEF HandleByte, Reading
  <2>2. buffer' = {}
    BY <2>1, ReadTouches DEF ChipsOK
  <2>3. /\ 1 \in PendingLines(pics') => 1 \in PendingLines(pics)
        /\ 12 \in PendingLines(pics') => 12 \in PendingLines(pics)
    BY <2>1, ReadTouches DEF ChipsOK
  <2> QED BY <2>1, <2>2, <2>3 DEF Excess, Count
<1>7. CASE EndOfInterrupt
  <2>1. step = "end" /\ step' = "return" /\ UNCHANGED buffer
    BY <1>7 DEF EndOfInterrupt, controller
  <2>2. PendingLines(pics') = PendingLines(pics)
    BY <1>7, EndTouches
  <2> QED BY <2>1, <2>2 DEF Excess, Count, Reading
<1>8. CASE HandleTick \/ ReturnFromInterrupt
  <2>1. UNCHANGED <<pics, buffer>> /\ ~Reading'
    BY <1>8 DEF HandleTick, ReturnFromInterrupt, Reading, controller
  <2> QED BY <2>1 DEF Excess, Count
<1>9. CASE Fault
  BY <1>9 DEF Fault, Gate
<1>10. CASE Sleep \/ SetFrequency \/ Test \/ Halt \/ Rest \/ Spin \/ UNCHANGED vars
  <2>1. UNCHANGED <<pics, buffer, serving, step>>
    BY <1>10 DEF Sleep, SetFrequency, Test, Halt, Rest, Run, Spin, vars, controller
  <2> QED BY <2>1 DEF Excess, Count, Reading
<1>11. ~(PrepareInterrupts \/ AskStatus \/ ReadStatus \/ Configure \/ CommandMouse \/ ReadAck)
  BY DEF PrepareInterrupts, AskStatus, ReadStatus, Configure, CommandMouse, ReadAck, Run, Setup
<1> QED BY <1>2, <1>3, <1>4, <1>5, <1>6, <1>7, <1>8, <1>9, <1>10, <1>11
        DEF Next, Device, Processor, Start, Sleeper, Handler, Client

\* From the end of init_ps2_mouse on no interrupt comes for which there is no
\* byte, beyond those that polling left behind: whatever keys were pressed
\* before.
THEOREM HandlersAddNoSurplus == Spec => SurplusNeverGrows
PROOF
<1>1. ASSUME IInv, IInv', [Next]_vars
      PROVE  [thread \notin Setup /\ serving' # "panic" => Surplus' <= Surplus]_vars
  <2> SUFFICES ASSUME thread \notin Setup, serving' # "panic" PROVE Surplus' <= Surplus
    OBVIOUS
  <2>1. Excess(PendingLines(pics'), Reading', buffer')
            <= Excess(PendingLines(pics), Reading, buffer)
    BY <1>1, SurplusStep DEF IInv
  <2> QED BY <1>1, <2>1, SurplusCounted DEF IInv
<1> QED BY <1>1, Invariant, PTL DEF Spec, SurplusNeverGrows

-----------------------------------------------------------------------------
\* The ticks that come before the thread moves on: one the timer may still
\* raise, one that waits, one whose handler has not counted it yet.  A sleeper
\* has at most one of them, and none at a hlt behind the end of its time.
Ticking == serving = "timer" /\ step = "enter"
Ticks == Count("timer" \in fresh) + Count(0 \in PendingLines(pics)) + Count(Ticking)

SleepOK ==
    /\ thread \in Setup \cup {"unmask"} => late = 0
    /\ late <= 1
    /\ thread \in Sleeping => /\ Ticks <= 1
                              /\ left > 0 => late = 0
                              /\ left = 0 => late + Ticks <= 1
    /\ thread = "hlt" /\ left = 0 => Ticks = 0 /\ late = 0
    /\ thread = "halted" => late = 0

LEMMA LessAhead == \A l, m, n \in Int : m <= n /\ l + n <= 1 => l + m <= 1
OBVIOUS

\* Fewer ticks ahead leave that so.
LEMMA FewerTicks ==
    ASSUME SleepOK, TimerOK, Ticks' \in 0 .. Ticks, UNCHANGED timer,
           thread' = thread
    PROVE  SleepOK'
PROOF
<1>1. left' = left /\ late' = late /\ left \in Nat /\ late \in Nat
  BY DEF timer, TimerOK
<1>2. Ticks \in Int /\ Ticks' \in Int /\ 0 <= Ticks' /\ Ticks' <= Ticks
  BY DEF Ticks, Count
<1> HIDE DEF Ticks
<1>3. thread' \in Setup \cup {"unmask"} => late' = 0
  BY <1>1 DEF SleepOK
<1>4. ASSUME thread' \in Sleeping
      PROVE  Ticks' <= 1 /\ (left' > 0 => late' = 0) /\ (left' = 0 => late' + Ticks' <= 1)
  <2>1. Ticks <= 1 /\ (left > 0 => late = 0) /\ (left = 0 => late + Ticks <= 1)
    BY <1>4 DEF SleepOK
  <2>3. Ticks' <= 1
    BY <1>2, <2>1
  <2>4. ASSUME left = 0 PROVE late + Ticks' <= 1
    <3>1. late + Ticks <= 1
      BY <2>1, <2>4
    <3>2. late \in Int
      BY <1>1
    <3> QED BY <1>2, <3>1, <3>2, LessAhead, Zenon
  <2> QED BY <1>1, <2>1, <2>3, <2>4
<1>5. thread' = "hlt" /\ left' = 0 => Ticks' = 0 /\ late' = 0
  BY <1>1, <1>2 DEF SleepOK
<1> QED BY <1>1, <1>3, <1>4, <1>5 DEF SleepOK

LEMMA SleepPreserved ==
    ASSUME ControllerOK, ChipsOK, TimerOK, TimerOK', SleepOK, [Next]_vars
    PROVE  SleepOK'
PROOF
<1> DEFINE Fewer == Ticks' \in 0 .. Ticks /\ UNCHANGED timer /\ thread' = thread
<1>1. ASSUME "timer" \in fresh' => "timer" \in fresh,
             0 \in PendingLines(pics') => 0 \in PendingLines(pics),
             Ticking' => Ticking
      PROVE  Ticks' \in 0 .. Ticks
  BY <1>1 DEF Ticks, Count
<1>2. ASSUME NEW b \in Byte, Fill(b), "timer" \in fresh' => "timer" \in fresh
      PROVE  Fewer
  <2>1. /\ \/ PendingLines(pics') = PendingLines(pics) \cup {Line(Port(b))}
           \/ PendingLines(pics') = PendingLines(pics)
        /\ UNCHANGED <<thread, serving, step, timer>>
    BY <1>2, FillTouches DEF ChipsOK
  <2>2. Line(Port(b)) # 0
    BY BytesInstances, LinesDiffer DEF Ports
  <2> QED BY <1>1, <1>2, <2>1, <2>2 DEF Ticking
<1>3. CASE Reply \/ Key \/ Movement
  <2>1. (\E b \in Byte : Fill(b)) /\ ("timer" \in fresh' => "timer" \in fresh)
    <3>1. CASE Reply
      BY <3>1 DEF Reply, ControllerOK
    <3>2. CASE Key
      <4>1. \A bits \in ScanBits : ScanCode(bits) \in Byte
        BY MachineAssumption, BytesInstances DEF MachineAssumption, Ports
      <4> QED BY <3>2, <4>1 DEF Key
    <3>3. CASE Movement
      BY <3>3, BytesInstances DEF Movement
    <3> QED BY <1>3, <3>1, <3>2, <3>3
  <2> QED BY <1>2, <2>1, FewerTicks
<1>4. CASE TimerPulse
  <2>1. /\ pics' = Raised(pics, Line("timer")) /\ UNCHANGED <<thread, serving, step, timer>>
        /\ "timer" \in fresh /\ fresh' = fresh \ {"timer"}
    BY <1>4 DEF TimerPulse
  <2>2. Ticking' <=> Ticking
    BY <2>1 DEF Ticking
  <2>3. Ticks' \in 0 .. Ticks
    BY <2>1, <2>2 DEF Ticks, Count
  <2> QED BY <2>1, <2>3, FewerTicks
<1>5. CASE PrepareInterrupts \/ AskStatus \/ ReadStatus \/ Configure \/ CommandMouse \/ ReadAck
           \/ EnableInterrupts
  <2>1. /\ UNCHANGED timer /\ thread \in Setup \cup {"unmask"}
        /\ thread' \in Setup \cup {"unmask", "idle"}
    BY <1>5 DEF PrepareInterrupts, AskStatus, ReadStatus, Configure, CommandMouse, ReadAck,
                EnableInterrupts, Run, Setup
  <2> QED BY <2>1 DEF SleepOK, timer, Setup, Sleeping
<1>6. CASE Sleep \/ SetFrequency \/ Test \/ Halt \/ Rest
  <2>1. \E from, to \in {"idle", "test", "hlt", "halted"} : Run(from, to)
    BY <1>6 DEF Sleep, SetFrequency, Test, Halt, Rest
  <2>2. Running /\ Running' /\ PendingLines(pics) = {} /\ fresh' = Sources /\ ~Ticking'
    BY <2>1, RunRests DEF Running, Sleeping, Ticking
  <2>3. PendingLines(pics') = PendingLines(pics)
    BY <1>6 DEF Sleep, SetFrequency, Test, Halt, Rest
  <2>4. Ticks' = 1
    BY <2>2, <2>3 DEF Ticks, Count, Sources
  <2>5. CASE Sleep
    BY <2>4, <2>5 DEF Sleep, Run, SleepOK, Sleeping, Setup
  <2>6. CASE SetFrequency
    BY <2>6 DEF SetFrequency, Run, SleepOK, Sleeping, Setup
  <2>7. CASE Test
    <3>1. /\ thread = "test" /\ thread' = IF left > 0 THEN "hlt" ELSE "idle"
          /\ left' = left /\ late' = late
      BY <2>7 DEF Test, Run, timer
    <3> QED BY <2>4, <3>1 DEF SleepOK, Sleeping, Setup
  <2>8. CASE Halt
    <3>1. thread = "hlt" /\ thread' = "halted" /\ left' = left /\ late' = late
      BY <2>8 DEF Halt, Run, timer
    <3>2. late = 0 /\ left \in Nat
      BY <3>1 DEF SleepOK, Sleeping, TimerOK
    <3> QED BY <2>4, <3>1, <3>2 DEF SleepOK, Sleeping, Setup
  <2>9. CASE Rest
    <3>1. thread' = thread /\ thread \in {"idle", "halted"} /\ left' = left /\ late' = late
      BY <2>9 DEF Rest, Run, timer
    <3> QED BY <2>4, <3>1 DEF SleepOK, Sleeping, Setup
  <2> QED BY <1>6, <2>5, <2>6, <2>7, <2>8, <2>9
<1>7. CASE Deliver
  <2>1. /\ serving' \in Sources /\ serving = "none" /\ step' = "enter" /\ Remapped(pics)
        /\ Raises(pics, serving') /\ thread' = Woken(thread)
        /\ PendingLines(pics') = PendingLines(pics) \ {Line(serving')}
        /\ UNCHANGED timer /\ UNCHANGED fresh
    BY <1>7, DeliverFetches DEF Fetches, Deliver
  <2>2. Line(serving') \in PendingLines(pics)
    BY <2>1, LinesOf
  <2>3. Ticks' \in 0 .. Ticks
    <3>1. ~Ticking /\ (Ticking' <=> serving' = "timer")
      BY <2>1 DEF Ticking
    <3> QED BY <2>1, <2>2, <3>1, LinesDiffer DEF Ticks, Count
  <2>4. CASE thread # "halted"
    BY <2>1, <2>3, <2>4, FewerTicks DEF Woken
  <2>5. CASE thread = "halted"
    <3>1. thread' = "test" /\ left' = left /\ late' = late
      BY <2>1, <2>5 DEF Woken, timer
    <3>2. Ticks \in Int /\ Ticks' \in Int
      BY DEF Ticks, Count
    <3>3. /\ Ticks <= 1 /\ late = 0
          /\ left = 0 => late + Ticks <= 1
      BY <2>5 DEF SleepOK, Sleeping
    <3> HIDE DEF Ticks
    <3>4. Ticks' <= 1 /\ (left = 0 => late + Ticks' <= 1)
      <4>1. 0 <= Ticks' /\ Ticks' <= Ticks
        BY <2>3, <3>2
      <4>2. Ticks' <= 1
        BY <3>2, <3>3, <4>1
      <4>3. ASSUME left = 0 PROVE late + Ticks' <= 1
        <5>1. late + Ticks <= 1 /\ late \in Int
          BY <3>3, <4>3
        <5> QED BY <3>2, <4>1, <5>1, LessAhead, Zenon
      <4> QED BY <4>2, <4>3
    <3> QED BY <3>1, <3>3, <3>4 DEF SleepOK, Sleeping, Setup
  <2> QED BY <2>4, <2>5
<1>8. CASE HandleByte
  <2>1. /\ step' = "end" /\ ReadData /\ UNCHANGED <<thread, timer, fresh>>
    BY <1>8 DEF HandleByte
  <2>2. 0 \in PendingLines(pics') => 0 \in PendingLines(pics)
    BY <2>1, ReadTouches DEF ChipsOK
  <2> QED BY <1>1, <2>1, <2>2, FewerTicks DEF Ticking
<1>9. CASE HandleTick
  <2>1. /\ Ticking /\ ~Ticking' /\ UNCHANGED <<thread, pics, fresh>>
        /\ left' = IF left > TickLength(divisor) THEN left - TickLength(divisor) ELSE 0
        /\ late' = IF thread \in Sleeping /\ left = 0 THEN late + 1 ELSE late
    BY <1>9 DEF HandleTick, Ticking
  <2>2. Ticks' = Ticks - 1 /\ Ticks >= 1 /\ Ticks \in Int
    BY <2>1 DEF Ticks, Count
  <2>3. left \in Nat /\ late \in Nat /\ left' \in Nat
    BY DEF TimerOK
  <2>4. thread # "halted"
    BY <2>1 DEF Ticking, ChipsOK, Sources
  <2> HIDE DEF Ticks
  <2>5. CASE thread \in Sleeping /\ left = 0
    <3>1. late + Ticks <= 1 /\ thread = "test"
      BY <2>2, <2>4, <2>5 DEF SleepOK, Sleeping
    <3>2. Ticks' = 0 /\ late' <= 1
      BY <2>1, <2>2, <2>3, <2>5, <3>1
    <3>3. left' = 0
      BY <2>1, <2>5, TickLengthNat, TimerAssumption
    <3>4. late' + Ticks' <= 1
      BY <2>1, <2>2, <2>3, <2>5, <3>1
    <3> QED BY <2>1, <3>1, <3>2, <3>3, <3>4 DEF SleepOK, Sleeping, Setup
  <2>6. CASE thread \in Sleeping /\ left # 0
    <3>1. Ticks <= 1 /\ late = 0
      BY <2>3, <2>6 DEF SleepOK
    <3>2. Ticks' = 0 /\ late' = 0
      BY <2>1, <2>2, <2>6, <3>1
    <3> QED BY <2>1, <2>3, <2>4, <2>6, <3>2 DEF SleepOK, Sleeping, Setup
  <2>7. CASE thread \notin Sleeping
    BY <2>1, <2>7 DEF SleepOK, Sleeping
  <2> QED BY <2>5, <2>6, <2>7
<1>10. CASE EndOfInterrupt
  <2>1. step' = "return" /\ UNCHANGED <<thread, timer, fresh>>
    BY <1>10 DEF EndOfInterrupt
  <2>2. PendingLines(pics') = PendingLines(pics)
    BY <1>10, EndTouches
  <2> QED BY <1>1, <2>1, <2>2, FewerTicks DEF Ticking
<1>11. CASE ReturnFromInterrupt \/ Fault
  <2>1. ~Ticking' /\ UNCHANGED <<thread, timer, fresh, pics>>
    BY <1>11 DEF ReturnFromInterrupt, Fault, Ticking
  <2> QED BY <1>1, <2>1, FewerTicks
<1>12. CASE Spin \/ UNCHANGED vars
  <2>1. UNCHANGED <<thread, timer, fresh, pics, serving, step>>
    BY <1>12 DEF Spin, vars
  <2> QED BY <1>1, <2>1, FewerTicks DEF Ticking
<1> QED BY <1>3, <1>4, <1>5, <1>6, <1>7, <1>8, <1>9, <1>10, <1>11, <1>12
        DEF Next, Device, Processor, Start, Sleeper, Handler, Client

\* A sleeper is at most one tick late, however the ticks fall between its test
\* of the time and its hlt, and whatever other interrupts wake it: with every
\* divisor, and a frequency set while no one sleeps.
THEOREM SleepersWakeInTime == Spec => []SleepsNotTooLong
PROOF
<1>1. Init => SleepOK
  BY DEF Init, SleepOK, Sleeping
<1>2. IInv /\ IInv' /\ SleepOK /\ [Next]_vars => SleepOK'
  BY SleepPreserved DEF IInv
<1>3. SleepOK => SleepsNotTooLong
  BY DEF SleepOK, SleepsNotTooLong
<1> QED BY <1>1, <1>2, <1>3, Invariant, PTL DEF Spec

-----------------------------------------------------------------------------
\* The two chips as one set of lines: what a step does to those that wait and
\* to the one in service.
RaisesOne == \E l \in 0 .. 15 : /\ PendingLines(pics') = PendingLines(pics) \cup {l}
                                /\ ServedLines(pics') = ServedLines(pics)
DropsOne == \E l \in 0 .. 15 : /\ PendingLines(pics') = PendingLines(pics) \ {l}
                               /\ ServedLines(pics') = ServedLines(pics)
ServesFirst == \E l \in 0 .. 15 :
    /\ ServedLines(pics) = {} /\ ServedLines(pics') = {l}
    /\ l \in PendingLines(pics) /\ \A k \in PendingLines(pics) : l <= k
    /\ PendingLines(pics') = PendingLines(pics) \ {l}
IsReset == ServedLines(pics) = {} /\ ServedLines(pics') = {} /\ PendingLines(pics') = {}
Finishes == /\ ServedLines(pics) # {} /\ ServedLines(pics') = {}
            /\ PendingLines(pics') = PendingLines(pics)
Rests == PendingLines(pics') = PendingLines(pics) /\ ServedLines(pics') = ServedLines(pics)

LEMMA ChipSteps ==
    ASSUME ControllerOK, ChipsOK, [Next]_vars
    PROVE  RaisesOne \/ DropsOne \/ ServesFirst \/ IsReset \/ Finishes \/ Rests
PROOF
<1> \A s \in Sources : Line(s) \in 0 .. 15
  BY LinesDiffer DEF Sources, Ports
<1>1. pics \in Pair
  BY DEF ChipsOK
<1>2. ASSUME NEW b \in Byte, Fill(b) PROVE RaisesOne \/ Rests
  <2>1. Port(b) \in Sources
    BY BytesInstances DEF Sources
  <2>2. /\ \/ PendingLines(pics') = PendingLines(pics) \cup {Line(Port(b))}
           \/ PendingLines(pics') = PendingLines(pics)
        /\ ServedLines(pics') = ServedLines(pics)
    BY <1>1, <1>2, FillTouches DEF Touched
  <2> QED BY <2>1, <2>2 DEF RaisesOne, Rests
<1>3. CASE Reply \/ Key \/ Movement
  <2>1. \E b \in Byte : Fill(b)
    <3>1. CASE Reply
      BY <3>1 DEF Reply, ControllerOK
    <3>2. CASE Key
      <4>1. \A bits \in ScanBits : ScanCode(bits) \in Byte
        BY MachineAssumption, BytesInstances DEF MachineAssumption, Ports
      <4> QED BY <3>2, <4>1 DEF Key
    <3>3. CASE Movement
      BY <3>3, BytesInstances DEF Movement
    <3> QED BY <1>3, <3>1, <3>2, <3>3
  <2> QED BY <1>2, <2>1
<1>4. CASE TimerPulse
  <2>1. pics' = Raised(pics, Line("timer")) /\ "timer" \in Sources
    BY <1>4 DEF TimerPulse, Sources
  <2>2. /\ PendingLines(pics') = PendingLines(pics) \cup {Line("timer")}
        /\ ServedLines(pics') = ServedLines(pics)
    BY <1>1, <2>1, RaisedTouches DEF Touched
  <2> QED BY <2>1, <2>2 DEF RaisesOne
<1>5. CASE PrepareInterrupts
  <2>1. Run("prepare", "ask") /\ pics' = remap_pic(pics)
    BY <1>5 DEF PrepareInterrupts
  <2>2. Idle(pics) /\ Idle(pics') /\ PendingLines(pics') = {}
    BY <1>1, <2>1, RunRests, RemapSetsUp
  <2> QED BY <2>2 DEF IsReset, Idle, ServedLines
<1>6. CASE ReadStatus \/ ReadAck \/ HandleByte
  <2>1. ReadData
    BY <1>6 DEF ReadStatus, ReadAck, HandleByte
  <2>2. /\ ServedLines(pics') = ServedLines(pics)
        /\ \/ PendingLines(pics') = PendingLines(pics)
           \/ /\ Port(Data) \in Sources
              /\ PendingLines(pics') = PendingLines(pics) \ {Line(Port(Data))}
    BY <1>1, <2>1, ReadTouches DEF Touched, Sources
  <2> QED BY <2>2 DEF DropsOne, Rests
<1>7. CASE EnableInterrupts
  <2>1. /\ Run("unmask", "idle")
        /\ pics' = [master |-> WriteData(pics.master, 248),
                    slave |-> WriteData(pics.slave, 239)]
    BY <1>7 DEF EnableInterrupts
  <2>2. Remapped(pics) /\ Idle(pics)
    BY <2>1, RunRests DEF ChipsOK
  <2>3. PendingLines(pics') = PendingLines(pics) /\ Idle(pics')
    BY <2>1, <2>2, MasksSet
  <2> QED BY <2>2, <2>3 DEF Rests, Idle, ServedLines
<1>8. CASE Deliver
  <2>1. /\ serving' \in Sources /\ Remapped(pics) /\ Idle(pics)
        /\ Fetches(pics, pics', serving')
    BY <1>8, DeliverFetches
  <2>2. Line(serving') \in PendingLines(pics) /\ ServedLines(pics) = {}
    BY <2>1, LinesOf DEF Fetches
  <2>3. ServedLines(pics') = {Line(serving')}
    BY <2>1, LinesOf DEF Fetches
  <2> QED BY <2>1, <2>2, <2>3 DEF Fetches, ServesFirst
<1>9. CASE EndOfInterrupt
  <2>1. /\ serving \in Sources /\ Idle(pics')
        /\ PendingLines(pics') = PendingLines(pics)
    BY <1>9, EndTouches
  <2>2. InService(pics, serving) /\ Remapped(pics)
    BY <1>9, <2>1 DEF EndOfInterrupt, ChipsOK, Running, Sleeping
  <2>3. ServedLines(pics) = {Line(serving)}
    BY <2>1, <2>2, LinesOf
  <2> QED BY <2>1, <2>3 DEF Finishes, Idle, ServedLines
<1>10. CASE \/ AskStatus \/ Configure \/ CommandMouse \/ Sleep \/ SetFrequency \/ Test \/ Halt
            \/ Rest \/ HandleTick \/ ReturnFromInterrupt \/ Fault \/ Spin \/ UNCHANGED vars
  <2>1. pics' = pics
    BY <1>10 DEF AskStatus, Configure, CommandMouse, Sleep, SetFrequency, Test, Halt, Rest,
                 HandleTick, ReturnFromInterrupt, Fault, Spin, vars
  <2> QED BY <2>1 DEF Rests
<1> QED BY <1>3, <1>4, <1>5, <1>6, <1>7, <1>8, <1>9, <1>10
        DEF Next, Device, Processor, Start, Sleeper, Handler, Client

\* The two chips, their initialization, the handlers and the two ends of
\* interrupt are one set of lines, served one at a time in the order of their
\* numbers: no request is lost but to the initialization and to a read of the
\* byte it was for, and none is served while another is.
THEOREM ChipsAreLines == Spec => LinesSpec
PROOF
<1>1. ASSUME Init PROVE Chips!Init
  <2>1. pics \in Pair /\ Idle(pics)
    BY <1>1, MachineAssumption DEF Init, MachineAssumption, Idle, Pair
  <2>2. pics.master.irr \subseteq 0 .. 7 /\ pics.slave.irr \subseteq 0 .. 7
    BY <2>1 DEF Pair, Chip
  <2>3. PendingLines(pics) \subseteq 0 .. 15
    BY <2>2 DEF PendingLines
  <2> QED BY <2>1, <2>3 DEF Chips!Init, Idle, ServedLines
<1>2. ASSUME IInv, [Next]_vars
      PROVE  [Chips!Next]_<<PendingLines(pics), ServedLines(pics)>>
  <2>1. RaisesOne \/ DropsOne \/ ServesFirst \/ IsReset \/ Finishes \/ Rests
    BY <1>2, ChipSteps DEF IInv
  <2>2. CASE RaisesOne
    BY <2>2 DEF RaisesOne, Chips!Next, Chips!Raise
  <2>3. CASE DropsOne
    BY <2>3 DEF DropsOne, Chips!Next, Chips!Withdraw
  <2>4. CASE ServesFirst
    BY <2>4 DEF ServesFirst, Chips!Next, Chips!Serve
  <2>5. CASE IsReset
    BY <2>5 DEF IsReset, Chips!Next, Chips!Reset
  <2>6. CASE Finishes
    BY <2>6 DEF Finishes, Chips!Next, Chips!Finish
  <2>7. CASE Rests
    BY <2>7 DEF Rests
  <2> QED BY <2>1, <2>2, <2>3, <2>4, <2>5, <2>6, <2>7
<1> QED BY <1>1, <1>2, Invariant, PTL DEF Spec, LinesSpec, Chips!Spec
=============================================================================
