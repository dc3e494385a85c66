---------------------------------- MODULE PIC ----------------------------------
(***************************************************************************)
(* The two 8259A interrupt controllers of the PC and what the kernel       *)
(* writes to them (kernel/src/interrupts/interrupts.cpp).  A chip is a     *)
(* record:                                                                 *)
(*                                                                         *)
(*   irr      the lines with a latched request                             *)
(*   isr      the lines in service, until they are ended                   *)
(*   imr      the mask, a byte: a 1 for every line that is held back       *)
(*   offset   the vector of line 0                                         *)
(*   wiring   the master: a 1 for the line of the slave; the slave: the    *)
(*            number of that line                                          *)
(*   icw      0, or which initialization word the chip expects next        *)
(*                                                                         *)
(* A pair of them is [master, slave]; the lines of the slave count from 8. *)
(***************************************************************************)
EXTENDS Integers, FiniteSets

PIC_EOI == 32
ICW1 == 17        \* ICW1_INIT | ICW1_ICW4
ICW4_8086 == 1

Bits(byte) ==
    {i \in 0 .. 7 : (byte \div <<1, 2, 4, 8, 16, 32, 64, 128>>[i + 1]) % 2 = 1}
First(lines) == CHOOSE l \in lines : \A k \in lines : l <= k

Chip == [irr : SUBSET (0 .. 7), isr : SUBSET (0 .. 7), imr : 0 .. 255,
         offset : 0 .. 255, wiring : 0 .. 255, icw : {0, 2, 3, 4}]

-----------------------------------------------------------------------------
\* The command port: ICW1 starts the initialization; the end of interrupt
\* ends the line of the highest priority.
WriteCommand(c, value) ==
    IF 4 \in Bits(value)
    THEN [c EXCEPT !.irr = {}, !.isr = {}, !.imr = 0, !.icw = 2]
    ELSE IF value = PIC_EOI /\ c.isr # {}
    THEN [c EXCEPT !.isr = @ \ {First(@)}]
    ELSE c

\* The data port: the rest of the initialization, else the mask.
WriteData(c, value) ==
    CASE c.icw = 2 -> [c EXCEPT !.offset = value, !.icw = 3]
      [] c.icw = 3 -> [c EXCEPT !.wiring = value, !.icw = 4]
      [] c.icw = 4 -> [c EXCEPT !.icw = 0]
      [] c.icw = 0 -> [c EXCEPT !.imr = value]

-----------------------------------------------------------------------------
\* A device raises its line, or lowers it before it was served.
Raised(p, line) == IF line < 8 THEN [p EXCEPT !.master.irr = @ \cup {line}]
                               ELSE [p EXCEPT !.slave.irr = @ \cup {line - 8}]
Withdrawn(p, line) == IF line < 8 THEN [p EXCEPT !.master.irr = @ \ {line}]
                                  ELSE [p EXCEPT !.slave.irr = @ \ {line - 8}]

\* The requests that a chip passes on: not masked, and of a higher priority
\* than what is in service.
Passed(c, requests) == {l \in requests \ Bits(c.imr) : \A s \in c.isr : l < s}
FromSlave(p) == Passed(p.slave, p.slave.irr)
ToProcessor(p) ==
    Passed(p.master, p.master.irr \cup
               (IF FromSlave(p) = {} THEN {}
                ELSE {p.slave.wiring} \cap Bits(p.master.wiring)))

\* The processor acknowledges the request of the highest priority and is told
\* its vector.
Acknowledged(c, line) == [c EXCEPT !.irr = @ \ {line}, !.isr = @ \cup {line}]
Cascaded(p) == First(ToProcessor(p)) \in Bits(p.master.wiring)

Acknowledge(p) ==
    [master |-> Acknowledged(p.master, First(ToProcessor(p))),
     slave |-> IF Cascaded(p) THEN Acknowledged(p.slave, First(FromSlave(p)))
                              ELSE p.slave]
Vector(p) ==
    IF Cascaded(p) THEN p.slave.offset + First(FromSlave(p))
                   ELSE p.master.offset + First(ToProcessor(p))

\* The lines that wait, and the one in service, as the devices number them.
PendingLines(p) == p.master.irr \cup {8 + l : l \in p.slave.irr}
ServedLines(p) ==
    IF p.slave.isr # {} THEN {8 + l : l \in p.slave.isr} ELSE p.master.isr

-----------------------------------------------------------------------------
pic_end_master(p) == [p EXCEPT !.master = WriteCommand(@, PIC_EOI)]

\* An end that the master is not told of.
pic_end_slave_only(p) == [p EXCEPT !.slave = WriteCommand(@, PIC_EOI)]

pic_end_slave(p) ==
    [p EXCEPT !.slave = WriteCommand(@, PIC_EOI),
              !.master = WriteCommand(@, PIC_EOI)]

\* What remap_pic writes to a chip; the chips do not see one another's.
Initialized(c, offset, wiring) ==
    LET reset == WriteCommand(c, ICW1)
        wired == WriteData(WriteData(reset, offset), wiring)
    IN  WriteData(WriteData(wired, ICW4_8086), c.imr)

remap_pic(p) ==
    [master |-> Initialized(p.master, 32, 4), slave |-> Initialized(p.slave, 40, 2)]
=============================================================================
