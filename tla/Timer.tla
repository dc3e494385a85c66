--------------------------------- MODULE Timer ---------------------------------
(***************************************************************************)
(* The arithmetic of kernel/src/scheduling/pit/pit.cpp.  The kernel never  *)
(* reads the timer: its clock is the number of interrupts, each counted as *)
(* the reciprocal of a frequency in whole hertz.  Time is in units of      *)
(* 1 / Scale of a second; the doubles of the code are taken as exact.      *)
(***************************************************************************)
EXTENDS Integers

CONSTANTS base_frequency, Word, MinDivisor, Scale

\* The divisor is a word, and the clock of every divisor is a whole number of
\* units.
ASSUME TimerAssumption ==
    /\ base_frequency \in Nat /\ Word \in Nat /\ MinDivisor \in 1 .. Word - 1
    /\ Word <= base_frequency /\ Scale \in Nat

PowerOnDivisor == Word - 1

get_frequency(divisor) == base_frequency \div divisor

\* A set_divisor that takes any divisor.
DivisorForAny(frequency) == (base_frequency \div frequency) % Word

\* set_frequency: the divisor is cut to a word on its way to set_divisor,
\* which raises it to the least that it takes.
DivisorFor(frequency) ==
    LET divisor == (base_frequency \div frequency) % Word
    IN  IF divisor < MinDivisor THEN MinDivisor ELSE divisor

\* 1 / get_frequency() without the conversion to double.
TickLengthWhole(divisor) == Scale * (1 \div get_frequency(divisor))

\* What one interrupt adds to time_since_boot.
TickLength(divisor) == Scale \div get_frequency(divisor)
=============================================================================
