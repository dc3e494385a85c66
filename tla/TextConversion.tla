---------------------------- MODULE TextConversion ----------------------------
(***************************************************************************)
(* utility/cstr.cpp: the conversions of numbers to text.  Each has a       *)
(* static buffer of its own and returns a pointer to it, so a text lasts   *)
(* until the conversion is called again, if nothing else writes there.     *)
(* The buffers lie one behind the other in the order of Layout, which is   *)
(* that of the linked kernel, and the conversions to hexadecimal write     *)
(* below the start of theirs: they take twice as many steps as bytes.      *)
(*                                                                         *)
(* Characters are numbers: digits, and the few below.                      *)
(***************************************************************************)
EXTENDS Integers, Sequences

CONSTANTS
    BufferSize,     \* 128
    Layout,         \* the conversions, in the order of their buffers
    Naturals64, Integers64, HexValues,  \* the numbers converted
    Doubles,        \* the doubles converted, as multiples of 1/Unit
    Unit,           \* up to 2^49, so that the arithmetic on them is exact
    IntLimit,       \* 2^31, where the range of int ends
    LongLimit,      \* 2^63, the same for int64_t
    Places,         \* the places asked for
    MostPlaces,     \* 20, the most there are
    Garbage,        \* values the uninitialized size may have
    MaxCalls

Nul == -1
Minus == -2
Point == -3
Junk == -4

Decimals == {"uint", "int", "double"}
Hexadecimals == {"hex64", "hex32", "hex16", "hex8"}
Conversions == Decimals \cup Hexadecimals

\* The bytes of a value.
Bytes(c) == CASE c = "hex64" -> 8 [] c = "hex32" -> 4 [] c = "hex16" -> 2 [] c = "hex8" -> 1

Abs(value) == IF value < 0 THEN -value ELSE value
Sign(value) == IF value < 0 THEN 1 ELSE 0
Truncated(double) == IF double < 0 THEN -((-double) \div Unit) ELSE double \div Unit

\* What is left of a value after k divisions by the radix, as the loops go on
\* dividing, up to the most digits a number of 64 bits has.
MostDigits == 20
Quotients(value, radix) ==
    LET q[k \in 0 .. MostDigits] == IF k = 0 THEN value ELSE q[k - 1] \div radix
    IN  q
Fits(value, radix, digits) == Quotients(value, radix)[digits] = 0

\* Each conversion has one buffer, with room for the longest text and what
\* the conversion behind it writes below its own.  Numbers have 64 bits; the
\* least of Integers64, which has no opposite, is left out.  The whole part
\* of a double is an int64_t, but not always an int.
ASSUME TextAssumption ==
    /\ BufferSize \in Nat /\ BufferSize >= 64
    /\ Layout \in Seq(Conversions)
    /\ \A c \in Conversions : \E i \in DOMAIN Layout :
           \A j \in DOMAIN Layout : Layout[j] = c <=> j = i
    /\ Naturals64 \subseteq Nat /\ Integers64 \subseteq Int /\ HexValues \subseteq Nat
    /\ Doubles \subseteq Int /\ Unit \in Nat \ {0}
    /\ IntLimit \in Nat /\ IntLimit > 9 /\ LongLimit \in Nat
    /\ Places \subseteq Nat /\ MostPlaces \in 0 .. 20 /\ Garbage \subseteq 0 .. 255
    /\ \A v \in Naturals64 : Fits(v, 10, MostDigits)
    /\ \A v \in Integers64 : Abs(v) < LongLimit /\ Fits(Abs(v), 10, MostDigits)
    /\ \A d \in Doubles : /\ Abs(Truncated(d)) < LongLimit
                           /\ Fits(Abs(Truncated(d)), 10, MostDigits)

VARIABLES memory, promised, calls
vars == <<memory, promised, calls>>

\* The text that is due in a buffer: of a number and, for doubles, its places.
None == [value |-> 0, places |-> -1]

Base(c) == BufferSize * ((CHOOSE i \in DOMAIN Layout : Layout[i] = c) - 1)

Init == /\ memory = [a \in 0 .. BufferSize * Len(Layout) - 1 |-> Nul]
        /\ promised = [c \in Conversions |-> None]
        /\ calls = 0

\* Some characters written from a buffer on, at offsets from its start.
Written(mem, c, text) ==
    LET base == Base(c)
        cells == {base + o : o \in DOMAIN text}
    IN  [a \in DOMAIN mem |-> IF a \in cells THEN text[a - base] ELSE mem[a]]

-----------------------------------------------------------------------------
\* The number of decimal digits, and the k-th from the right.
Length(value) == CHOOSE n \in 1 .. MostDigits :
                     Fits(value, 10, n) /\ \A m \in 1 .. n - 1 : ~Fits(value, 10, m)
Digit(value, k) == Quotients(value, 10)[k] % 10

\* to_string: size, a byte that is never set to zero, counts the digits but
\* one.  The texts of two conversions: with a sign in front, or without one.
Size(value, garbage) == (garbage + Length(value) - 1) % 256

\* A conversion that leaves the end of the text to the zeros in the buffer.
DecimalUnended(value, sign, garbage) ==
    LET size == Size(value, garbage)
    IN  [o \in sign + size - Length(value) + 1 .. sign + size |->
            Digit(value, sign + size - o)]

Decimal(value, sign, garbage) ==
    LET size == Size(value, garbage)
    IN  [o \in sign + size - Length(value) + 1 .. sign + size + 1 |->
            IF o = sign + size + 1 THEN Nul ELSE Digit(value, sign + size - o)]

\* Whether the digits stay in the buffer.
Tame(value, sign, garbage) ==
    LET size == Size(value, garbage)
    IN  size >= Length(value) - 1 /\ sign + size + 1 < BufferSize

\* A text is due if its size was right; and none is, any more, after one that
\* was written outside its buffer.
Due(due, tame, c, text, garbage) ==
    IF tame THEN [due EXCEPT ![c] = IF garbage = 0 THEN text ELSE None]
            ELSE [d \in Conversions |-> None]
Text(value, places) == [value |-> value, places |-> places]

Call == calls < MaxCalls /\ calls' = calls + 1

ToStringUnsigned(value, garbage) ==
    /\ Call
    /\ memory' = Written(memory, "uint", Decimal(value, 0, garbage))
    /\ promised' = Due(promised, Tame(value, 0, garbage), "uint", Text(value, 0), garbage)

SignedMemory(value, garbage) ==
    LET signed == IF value < 0 THEN Written(memory, "int", [o \in {0} |-> Minus]) ELSE memory
    IN  Written(signed, "int", Decimal(Abs(value), Sign(value), garbage))
SignedDue(value, garbage) ==
    Due(promised, Tame(Abs(value), Sign(value), garbage), "int", Text(value, 0), garbage)

ToStringSigned(value, garbage) ==
    /\ Call
    /\ memory' = SignedMemory(value, garbage)
    /\ promised' = SignedDue(value, garbage)

-----------------------------------------------------------------------------
\* to_hstring: the bytes of a value of so many, the ones on the stack behind
\* it too; two digits for each, downwards from offset size.
HexDigit(c, value, k) == IF k >= 2 * Bytes(c) THEN Junk ELSE Quotients(value, 16)[k] % 16
Hexadecimal(c, value) ==
    LET size == 2 * Bytes(c) - 1
    IN  [o \in -size + 1 .. size + 1 |->
            IF o = size + 1 THEN Nul ELSE HexDigit(c, value, size - o)]

ToHstring(c, value) ==
    /\ Call
    /\ memory' = Written(memory, c, Hexadecimal(c, value))
    /\ promised' = [promised EXCEPT ![c] = Text(value, 0)]

-----------------------------------------------------------------------------
\* What there is in a buffer, up to the first zero.
Found(mem, c) ==
    LET base == Base(c)
        end == CHOOSE e \in 0 .. BufferSize - 1 :
                   /\ mem[base + e] = Nul
                   /\ \A o \in 0 .. e - 1 : mem[base + o] # Nul
    IN  [i \in 1 .. end |-> mem[base + i - 1]]

\* (int) of a double that is not negative: where it does not fit, the
\* processor answers the least int.
Int32(double) == IF double \div Unit < IntLimit THEN double \div Unit ELSE -IntLimit

\* What is left of a double when its whole part and k digits are taken off,
\* and those digits, cut off in turn: characters, which are bytes.
Rest(double) ==
    LET shifted[k \in 0 .. MostPlaces] ==
            IF k = 0 THEN double
            ELSE 10 * (shifted[k - 1] - Int32(shifted[k - 1]) * Unit)
    IN  shifted
Fraction(double, places) == [k \in 1 .. places |-> Int32(Rest(Abs(double))[k]) % 256]

\* to_string of a double: the text of the integer part, a point, and places
\* digits of the fraction.
ToStringDouble(double, decimal_places, garbage) ==
    LET value == Truncated(double)
        places == IF decimal_places > MostPlaces THEN MostPlaces ELSE decimal_places
        mem == SignedMemory(value, garbage)
        text == Found(mem, "int") \o <<Point>> \o Fraction(double, places) \o <<Nul>>
        tame == Tame(Abs(value), Sign(value), garbage) /\ Len(text) <= BufferSize
    IN  /\ Call
        /\ memory' = Written(mem, "double", [o \in 0 .. Len(text) - 1 |-> text[o + 1]])
        /\ promised' = Due(SignedDue(value, garbage), tame, "double",
                           Text(double, places), garbage)

Next ==
    \/ \E g \in Garbage :
         \/ \E v \in Naturals64 : ToStringUnsigned(v, g)
         \/ \E v \in Integers64 : ToStringSigned(v, g)
         \/ \E d \in Doubles, p \in Places : ToStringDouble(d, p, g)
    \/ \E c \in Hexadecimals, v \in HexValues : Fits(v, 16, 2 * Bytes(c)) /\ ToHstring(c, v)
Spec == Init /\ [][Next]_vars

-----------------------------------------------------------------------------
(***************************************************************************)
(* A text that is due is there and denotes its number, whatever the other  *)
(* conversions did since: in decimal without a zero in front, in           *)
(* hexadecimal with all digits of the type, for a double with as many      *)
(* places as were asked for, MostPlaces at most.  Its fraction is cut off  *)
(* there; it is wrong, and nothing is said of it, if the whole part is not *)
(* an int.  Doubles between -1 and 0 have no sign.                         *)
(***************************************************************************)
Number(digits, radix) ==
    LET n[i \in 0 .. Len(digits)] == IF i = 0 THEN 0 ELSE n[i - 1] * radix + digits[i]
    IN  n[Len(digits)]
IsNumeral(digits, radix) ==
    Len(digits) > 0 /\ \A i \in DOMAIN digits : digits[i] \in 0 .. radix - 1
IsDecimal(text, value) ==
    LET digits == IF value < 0 THEN Tail(text) ELSE text
    IN  /\ value < 0 => text # <<>> /\ text[1] = Minus
        /\ IsNumeral(digits, 10) /\ (Len(digits) > 1 => digits[1] # 0)
        /\ Number(digits, 10) = Abs(value)
Scaled(value, places) ==
    LET x[k \in 0 .. MostPlaces] == IF k = 0 THEN value ELSE 10 * x[k - 1]
    IN  x[places]
IsFraction(digits, double) ==
    LET scaled == Scaled(Abs(double) % Unit, Len(digits))
        number == Number(digits, 10)
    IN  /\ \A i \in DOMAIN digits : digits[i] \in 0 .. 9
        /\ number * Unit <= scaled /\ scaled < (number + 1) * Unit
IsDouble(text, double, places) ==
    LET point == Len(text) - places
    IN  /\ point > 1 /\ text[point] = Point
        /\ IsDecimal(SubSeq(text, 1, point - 1), Truncated(double))
        /\ Abs(Truncated(double)) < IntLimit =>
               IsFraction(SubSeq(text, point + 1, Len(text)), double)
Denotes(c, text, due) ==
    CASE c \in {"uint", "int"} -> IsDecimal(text, due.value)
      [] c = "double" -> IsDouble(text, due.value, due.places)
      [] OTHER -> /\ Len(text) = 2 * Bytes(c) /\ IsNumeral(text, 16)
                  /\ Number(text, 16) = due.value
TextsIntact ==
    \A c \in Conversions : promised[c] # None => Denotes(c, Found(memory, c), promised[c])
=============================================================================
