------------------------------- MODULE Keyboard -------------------------------
(***************************************************************************)
(* What kernel/src/userinput/keyboard.cpp and kbScancodeTranslation.cpp    *)
(* make of a scan code: which keys are special, and which character the    *)
(* others stand for.  Characters are the numbers of a signed char.         *)
(***************************************************************************)
EXTENDS Integers, Sequences

CONSTANT BehindTable   \* the byte behind ascii_table, which code 58 reads

Characters == -128 .. 127
ASSUME TableAssumption == BehindTable \in Characters

LEFT_SHIFT == 42
RIGHT_SHIFT == 54
ENTER == 28
BACKSPACE == 14
SPACEBAR == 57
RELEASED_DELTA == 128

Shifts == {LEFT_SHIFT, RIGHT_SHIFT}
Special == Shifts \cup {s + RELEASED_DELTA : s \in Shifts}
                  \cup {ENTER, BACKSPACE, SPACEBAR}

\* ascii_table from its entry 0 on: 58 entries.
ascii_table ==
    <<0, 0, 49, 50, 51, 52, 53, 54, 55, 56, 57, 48, 45, 61, 0, 0,
      113, 119, 101, 114, 116, 121, 117, 105, 111, 112, 91, 93, 0, 0, 97, 115,
      100, 102, 103, 104, 106, 107, 108, 59, 39, 96, 0, 92, 122, 120, 99, 118,
      98, 110, 109, 44, 46, 47, 0, 42, 0, 32>>

\* The value an int has when it is returned as a char.
AsChar(n) == ((n + 128) % 256) - 128

\* translate: upper case is 32 less, whatever the entry; the bounds check
\* lets the code 58 through, one behind the table.
translate(scan_code, upper_case) ==
    LET entry == IF scan_code = Len(ascii_table) THEN BehindTable
                 ELSE ascii_table[scan_code + 1]
    IN  IF scan_code > 58 THEN 0
        ELSE IF upper_case THEN AsChar(entry - 32) ELSE entry
=============================================================================
