------------------------------ MODULE Interrupts ------------------------------
(***************************************************************************)
(* The processor, the interrupt controllers, the keyboard controller with  *)
(* its one buffer for keyboard and mouse, and the timer, from              *)
(* prepare_interrupts on.  The start-up polls the buffer with the          *)
(* interrupts off; from sti on each byte is fetched by an interrupt        *)
(* handler.  Every handler has the steps of its code (entry, the read of   *)
(* port 0x60 or the tick, the end of interrupt, iret), and the devices may *)
(* act between any two of them.  After the start-up a client may set the   *)
(* frequency of the timer and sleep.                                       *)
(***************************************************************************)
EXTENDS PIC, Timer, Sequences

CONSTANTS
    FirmwarePics,    \* the controllers as the firmware may leave them
    ScanBits,        \* the low two bits of scan codes, as interrupt enables
    EarlyKeys,       \* keys may be pressed until the start-up has polled the
                     \* buffer, so that the firmware may leave one there, too
    Delays,          \* how long the client may sleep
    Frequencies      \* what it may set the timer to

ASSUME MachineAssumption ==
    /\ \A p \in FirmwarePics : /\ p \in [master : Chip, slave : Chip]
                                /\ p.master.isr = {} /\ p.slave.isr = {}
    /\ ScanBits \subseteq SUBSET {"keyboard", "mouse"} /\ EarlyKeys \in BOOLEAN
    /\ Delays \subseteq Nat /\ Frequencies \subseteq Nat \ {0}

Ports == {"keyboard", "mouse"}
Sources == Ports \cup {"timer"}

\* A byte of the buffer: where it comes from, and its two low bits, which
\* enable the interrupts when it is taken for the controller's configuration.
Byte == [from : Ports \cup {"controller"}, enables : SUBSET Ports]
Ack == [from |-> "mouse", enables |-> {"mouse"}]     \* 0xfa
ScanCode(bits) == [from |-> "keyboard", enables |-> bits]
Port(b) == IF b.from = "mouse" THEN "mouse" ELSE "keyboard"
Line(source) ==
    CASE source = "timer" -> 0 [] source = "keyboard" -> 1 [] source = "mouse" -> 12

VARIABLES
    thread,      \* where initialize_kernel, later the client, is
    pics, interrupts,                  \* the controllers; the interrupt flag
    serving, step,                     \* the handler that runs, and its step
    buffer, data,                      \* a byte not yet read; the last one read
    config, replies, reporting,        \* the enables; answers under way; the
                                       \* mouse was told to send movements
    status,                            \* the configuration read
    divisor, left, late,               \* the timer; a sleeper's remaining time,
                                       \* and the ticks since it was over
    fresh        \* the devices that may act before the processor comes to rest

controller == <<buffer, data, config, replies, reporting>>
timer == <<divisor, left, late>>
vars == <<thread, pics, interrupts, serving, step, controller, status, timer, fresh>>

Setup == {"prepare", "ask", "status", "configure", "reset", "resetAck",
          "enable", "enableAck"}
Sleeping == {"test", "hlt", "halted"}

Init ==
    /\ thread = "prepare"
    /\ pics \in FirmwarePics /\ interrupts = FALSE
    /\ serving = "none" /\ step = "none"
    /\ buffer \in {{}} \cup {{ScanCode(bits)} : bits \in IF EarlyKeys THEN ScanBits ELSE {}}
    /\ data = Ack /\ config = {"keyboard"}
    /\ replies = <<>> /\ reporting = FALSE
    /\ status = {}
    /\ divisor = PowerOnDivisor /\ left = 0 /\ late = 0
    /\ fresh = Sources

-----------------------------------------------------------------------------
\* The devices.  A byte goes into the buffer when it is empty and raises the
\* interrupt of its port.
Fill(b) ==
    /\ buffer = {} /\ buffer' = {b}
    /\ pics' = IF Port(b) \in config THEN Raised(pics, Line(Port(b))) ELSE pics
    /\ UNCHANGED <<thread, interrupts, serving, step, data, config, status, timer>>

Reply ==
    /\ replies # <<>> /\ replies' = Tail(replies)
    /\ Fill(Head(replies))
    /\ UNCHANGED <<reporting, fresh>>
Key ==
    /\ "keyboard" \in fresh /\ fresh' = fresh \ {"keyboard"}
    /\ EarlyKeys \/ thread \notin Setup
    /\ \E bits \in ScanBits : Fill(ScanCode(bits))
    /\ UNCHANGED <<replies, reporting>>
Movement ==
    /\ "mouse" \in fresh /\ fresh' = fresh \ {"mouse"}
    /\ reporting /\ replies = <<>>
    /\ Fill([from |-> "mouse", enables |-> {}])
    /\ UNCHANGED <<replies, reporting>>
TimerPulse ==
    /\ "timer" \in fresh /\ fresh' = fresh \ {"timer"}
    /\ pics' = Raised(pics, Line("timer"))
    /\ UNCHANGED <<thread, interrupts, serving, step, controller, status, timer>>

Device == Reply \/ Key \/ Movement \/ TimerPulse

-----------------------------------------------------------------------------
\* inb(0x60): an empty buffer gives the last byte again.  Reading lowers the
\* line; a request that is still latched is kept or withdrawn, as the chips
\* have it.
Data == IF buffer = {} THEN data ELSE CHOOSE b \in buffer : TRUE

ReadData ==
    /\ data' = Data /\ buffer' = {}
    /\ \/ UNCHANGED pics
       \/ buffer # {} /\ pics' = Withdrawn(pics, Line(Port(Data)))
    /\ UNCHANGED <<config, replies, reporting>>

\* The thread runs between two interrupts.
Interrupted == interrupts /\ ToProcessor(pics) # {}
Run(from, to) ==
    /\ serving = "none" /\ ~Interrupted
    /\ thread = from /\ thread' = to
    /\ fresh' = Sources
    /\ UNCHANGED <<serving, step>>

-----------------------------------------------------------------------------
\* prepare_interrupts: the gates, which are set before the controllers are
\* remapped and long before interrupts are enabled.
Gate(vector) ==
    CASE vector \in {8, 13, 14} -> "panic"
      [] vector = 33 -> "keyboard" [] vector = 44 -> "mouse"
      [] vector = 32 -> "timer" [] OTHER -> "unset"

PrepareInterrupts ==
    /\ Run("prepare", "ask")
    /\ pics' = remap_pic(pics)
    /\ UNCHANGED <<interrupts, controller, status, timer>>

\* init_ps2_mouse.  The controller takes a command as soon as it is written
\* (mouse_wait); whatever byte is in the buffer is taken for the answer.
AskStatus ==
    /\ Run("ask", "status")
    /\ replies' = Append(replies, [from |-> "controller", enables |-> config])
    /\ UNCHANGED <<pics, interrupts, buffer, data, config, reporting, status, timer>>
\* The answer written back as it came.
ReadStatusOnly ==
    /\ Run("status", "configure")
    /\ buffer # {}
    /\ ReadData
    /\ status' = Data.enables
    /\ UNCHANGED <<interrupts, timer>>

ReadStatus ==
    /\ Run("status", "configure")
    /\ buffer # {}
    /\ ReadData
    /\ status' = Data.enables \cup {"mouse"}
    /\ UNCHANGED <<interrupts, timer>>
Configure ==
    /\ Run("configure", "reset")
    /\ config' = status
    /\ UNCHANGED <<pics, interrupts, buffer, data, replies, reporting, status, timer>>

\* mouse_write: set defaults, then report movements; the mouse acknowledges.
CommandMouse ==
    /\ Run("reset", "resetAck") \/ Run("enable", "enableAck")
    /\ replies' = Append(replies, Ack)
    /\ reporting' = (reporting \/ thread = "enable")
    /\ UNCHANGED <<pics, interrupts, buffer, data, config, status, timer>>

\* mouse_read: a mouse that does not answer in time is not waited for.
ReadAck ==
    /\ Run("resetAck", "enable") \/ Run("enableAck", "unmask")
    /\ ReadData
    /\ UNCHANGED <<interrupts, status, timer>>

\* A mask that holds back the line of the slave.
EnableInterruptsUncascaded ==
    /\ Run("unmask", "idle")
    /\ pics' = [master |-> WriteData(pics.master, 252),
                slave |-> WriteData(pics.slave, 239)]
    /\ interrupts' = TRUE
    /\ UNCHANGED <<controller, status, timer>>

\* The end of initialize_kernel: the masks (master 0b11111000, slave
\* 0b11101111), and sti.
EnableInterrupts ==
    /\ Run("unmask", "idle")
    /\ pics' = [master |-> WriteData(pics.master, 248),
                slave |-> WriteData(pics.slave, 239)]
    /\ interrupts' = TRUE
    /\ UNCHANGED <<controller, status, timer>>

Start == PrepareInterrupts \/ AskStatus \/ ReadStatus \/ Configure
         \/ CommandMouse \/ ReadAck \/ EnableInterrupts

-----------------------------------------------------------------------------
\* A client of PIT: sleepd tests the time and halts; any interrupt ends hlt.
Sleep ==
    /\ Run("idle", "test")
    /\ left' \in Delays /\ late' = 0
    /\ UNCHANGED <<pics, interrupts, controller, status, divisor>>
Test ==
    /\ Run("test", IF left > 0 THEN "hlt" ELSE "idle")
    /\ UNCHANGED <<pics, interrupts, controller, status, timer>>
Halt ==
    /\ Run("hlt", "halted")
    /\ UNCHANGED <<pics, interrupts, controller, status, timer>>
SetFrequency ==
    /\ Run("idle", "idle")
    /\ \E f \in Frequencies : divisor' = DivisorFor(f)
    /\ UNCHANGED <<pics, interrupts, controller, status, left, late>>

\* Nothing to do but to wait: the loop of hlt in _start, or in sleepd.
Rest ==
    /\ Run("idle", "idle") \/ Run("halted", "halted")
    /\ UNCHANGED <<pics, interrupts, controller, status, timer>>

Client == Sleep \/ SetFrequency
Sleeper == Test \/ Halt \/ Rest

-----------------------------------------------------------------------------
\* A sleeper that halts again without a look at the time.
WokenUntested(t) == IF t = "halted" THEN "hlt" ELSE t

\* Every interrupt ends hlt.
Woken(t) == IF t = "halted" THEN "test" ELSE t

\* An interrupt: the processor fetches the vector and enters its handler.
\* The gates are interrupt gates: the interrupt flag is cleared.
Deliver ==
    /\ Interrupted /\ serving = "none"
    /\ pics' = Acknowledge(pics) /\ interrupts' = FALSE
    /\ serving' = Gate(Vector(pics)) /\ step' = "enter"
    /\ thread' = Woken(thread)
    /\ UNCHANGED <<controller, status, timer, fresh>>

\* keyboard_interrupt_handler and mouse_interrupt_handler read the byte.
HandleByte ==
    /\ serving \in Ports /\ step = "enter" /\ step' = "end"
    /\ ReadData
    /\ UNCHANGED <<thread, interrupts, serving, status, timer, fresh>>

\* pit_interrupt_handler: tick.
HandleTick ==
    /\ serving = "timer" /\ step = "enter" /\ step' = "end"
    /\ left' = IF left > TickLength(divisor) THEN left - TickLength(divisor) ELSE 0
    /\ late' = IF thread \in Sleeping /\ left = 0 THEN late + 1 ELSE late
    /\ UNCHANGED <<thread, pics, interrupts, serving, controller, status, divisor, fresh>>

\* A handler that empties the buffer again before it returns.
EndOfInterruptFlushing ==
    /\ step = "end" /\ step' = "return"
    /\ pics' = IF serving = "mouse" THEN pic_end_slave(pics) ELSE pic_end_master(pics)
    /\ data' = Data /\ buffer' = {}
    /\ UNCHANGED <<thread, interrupts, serving, config, replies, reporting,
                   status, timer, fresh>>

EndOfInterrupt ==
    /\ step = "end" /\ step' = "return"
    /\ pics' = IF serving = "mouse" THEN pic_end_slave(pics) ELSE pic_end_master(pics)
    /\ UNCHANGED <<thread, interrupts, serving, controller, status, timer, fresh>>
ReturnFromInterrupt ==
    /\ step = "return" /\ step' = "none" /\ serving' = "none" /\ interrupts' = TRUE
    /\ UNCHANGED <<thread, pics, controller, status, timer, fresh>>

Handler == Deliver \/ HandleByte \/ HandleTick \/ EndOfInterrupt \/ ReturnFromInterrupt

\* An exception, wherever the processor is: panic, and while (true).
Fault ==
    /\ thread # "prepare" /\ serving # "panic"
    /\ serving' = Gate(14) /\ step' = "spin" /\ interrupts' = FALSE
    /\ UNCHANGED <<thread, pics, controller, status, timer, fresh>>
Spin == serving = "panic" /\ UNCHANGED vars

Processor == Start \/ Sleeper \/ Handler
Next == Device \/ Processor \/ Client \/ Fault \/ Spin

\* The processor runs on; the controller and the timer do their work.
Fairness == WF_vars(Processor) /\ WF_vars(Reply) /\ WF_vars(TimerPulse)
Spec == Init /\ [][Next]_vars /\ Fairness

-----------------------------------------------------------------------------
\* The state has its type.
TypeOK ==
    /\ thread \in Setup \cup {"unmask", "idle"} \cup Sleeping
    /\ pics \in [master : Chip, slave : Chip] /\ interrupts \in BOOLEAN
    /\ serving \in Sources \cup {"none", "panic"}
    /\ step \in {"none", "enter", "end", "return", "spin"}
    /\ buffer \subseteq Byte /\ data \in Byte /\ Cardinality(buffer) <= 1
    /\ config \subseteq Ports /\ status \subseteq Ports
    /\ replies \in Seq(Byte) /\ Len(replies) <= 3 /\ reporting \in BOOLEAN
    /\ divisor \in MinDivisor .. Word - 1 /\ left \in Nat /\ late \in Nat
    /\ fresh \subseteq Sources

\* A handler runs for the line of its own device and has that line, and no
\* other, in service until its end of interrupt (prepare_interrupts, "PIC was
\* remapped to 0x20 and keyboard was the second interrupt hence 0x21").
ServesItsLine ==
    serving # "panic" =>
        ServedLines(pics) = IF step \in {"enter", "end"} THEN {Line(serving)} ELSE {}

\* The requests for a byte: latched, or with a handler that is about to read.
Requests == {p \in Ports : Line(p) \in PendingLines(pics)}
Reading == serving \in Ports /\ step = "enter"
Announced(p) == p \in Requests \/ (Reading /\ serving = p)

\* No byte is left in the buffer without an interrupt that fetches it, or
\* neither device would ever be heard of again.
BytesAnnounced ==
    serving # "panic" => \A b \in buffer : Announced(Port(b))

\* The interrupts for which there is no byte.
Surplus ==
    Cardinality(Requests) + (IF Reading THEN 1 ELSE 0) - Cardinality(buffer)

\* Only polling leaves interrupts in surplus: from sti on they do not grow.
SurplusNeverGrows ==
    [][thread \notin Setup /\ serving' # "panic" => Surplus' <= Surplus]_vars

\* After init_ps2_mouse the controller raises both interrupts ("Check the
\* mouse status", "Setting the correct bit").  A key pressed meanwhile breaks
\* it: its scan code is taken for the configuration.
InterruptsConfigured ==
    thread \notin {"prepare", "ask", "status", "configure"} => config = Ports

\* The two chips with their ends of interrupt serve one line at a time, the
\* first of those that wait.
Chips == INSTANCE InterruptLines
             WITH Lines <- 0 .. 15,
                  pending <- PendingLines(pics), serving <- ServedLines(pics)
LinesSpec == Chips!Spec

\* Every byte is fetched, and every sleeper wakes, unless the kernel panics.
BytesFetched == buffer # {} ~> buffer = {} \/ serving = "panic"
SleeperWakes == thread \in Sleeping ~> thread = "idle" \/ serving = "panic"

\* A tick between the test and hlt is made up for by the next one: at most
\* one tick is handled after the time is over.
SleepsNotTooLong == late <= 1
=============================================================================
