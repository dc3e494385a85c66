------------------------------ MODULE TextProofs ------------------------------
(***************************************************************************)
(* That the texts of the conversions stay and denote their numbers, for    *)
(* every order of the buffers and all numbers of 64 bits.  The digits come *)
(* from repeated division and the number of a text from repeated           *)
(* multiplication; that they meet is shown by least counterexamples.       *)
(***************************************************************************)
EXTENDS TextConversion, SequenceTheorems, WellFoundedInduction, TLAPS

-----------------------------------------------------------------------------
(***************************************************************************)
(* Functions defined by recursion on a number.                             *)
(***************************************************************************)

\* A nonempty set of natural numbers has a least element.
LEMMA Least ==
    ASSUME NEW S, S \subseteq Nat, S # {}
    PROVE  \E p \in S : \A q \in S : p <= q
PROOF
<1> DEFINE R == {pq \in Nat \X Nat : pq[1] < pq[2]}
<1>1. IsWellFoundedOn(R, Nat)
  BY NatLessThanWellFounded, Zenon DEF OpToRel
<1>2. PICK p \in S : \A q \in S : ~ (<<q, p>> \in R)
  <2> HIDE DEF R
  <2> QED BY <1>1, WFMin
<1>3. \A q \in S : p <= q
  <2> SUFFICES ASSUME NEW q \in S, ~ (p <= q) PROVE FALSE
    OBVIOUS
  <2>1. <<q, p>> \in R
    OBVIOUS
  <2> QED BY <2>1, <1>2
<1> QED BY <1>3

\* The loops: a value is divided again and again, scaled, cut off digit by
\* digit, or digits are put behind it one by one.
Left(value) == value - Int32(value) * Unit
After(loop, f, n) ==
    IF n = 0 THEN loop.start
    ELSE IF loop.does = "divide" THEN f[n - 1] \div loop.radix
    ELSE IF loop.does = "scale" THEN 10 * f[n - 1]
    ELSE IF loop.does = "cut" THEN 10 * Left(f[n - 1])
    ELSE f[n - 1] * loop.radix + loop.digits[n]

LEMMA LoopExists ==
    ASSUME NEW loop, NEW N \in Nat
    PROVE  \E f : f = [n \in 0 .. N |-> After(loop, f, n)]
PROOF
<1> DEFINE P(m) == \E f : f = [n \in 0 .. m |-> After(loop, f, n)]
           Bad == {m \in Nat : ~P(m)}
<1>1. SUFFICES ASSUME Bad # {} PROVE FALSE
  OBVIOUS
<1>2. PICK m \in Bad : \A k \in Bad : m <= k
  <2>1. Bad \subseteq Nat
    OBVIOUS
  <2> HIDE DEF Bad
  <2> QED BY <1>1, <2>1, Least
<1>3. m \in Nat /\ ~P(m) /\ \A k \in Nat : k < m => P(k)
  <2> HIDE DEF P
  <2> QED BY <1>2
<1>4. m # 0
  <2> DEFINE f == [n \in 0 .. 0 |-> loop.start]
  <2>1. f = [n \in 0 .. 0 |-> After(loop, f, n)]
    BY DEF After
  <2>2. P(0)
    BY <2>1
  <2> QED BY <1>3, <2>2
<1>5. P(m - 1)
  <2> HIDE DEF P
  <2> QED BY <1>3, <1>4
<1>6. PICK g : g = [n \in 0 .. m - 1 |-> After(loop, g, n)]
  BY <1>5
<1> DEFINE f == [n \in 0 .. m |-> IF n < m THEN g[n] ELSE After(loop, g, m)]
<1>7. ASSUME NEW n \in 0 .. m PROVE f[n] = After(loop, f, n)
  <2>1. n # 0 => f[n - 1] = g[n - 1]
    BY <1>3
  <2>2. After(loop, f, n) = After(loop, g, n)
    BY <2>1, <1>3 DEF After
  <2>3. CASE n < m
    <3>1. f[n] = g[n]
      BY <2>3
    <3>2. g[n] = After(loop, g, n)
      <4>1. n \in 0 .. m - 1
        BY <1>3, <2>3
      <4> QED BY <4>1, <1>6, Zenon
    <3> QED BY <3>1, <3>2, <2>2
  <2>4. CASE n = m
    BY <2>4, <2>2, <1>3
  <2> QED BY <2>3, <2>4, <1>3
<1>8. f = [n \in 0 .. m |-> After(loop, f, n)]
  <2>1. DOMAIN f = 0 .. m /\ f = [n \in 0 .. m |-> f[n]]
    OBVIOUS
  <2> HIDE DEF f
  <2> QED BY <2>1, <1>7
<1> QED BY <1>8, <1>3

LEMMA QuotientSteps ==
    ASSUME NEW value, NEW radix
    PROVE  /\ DOMAIN Quotients(value, radix) = 0 .. MostDigits
           /\ Quotients(value, radix)[0] = value
           /\ \A k \in 1 .. MostDigits :
                 Quotients(value, radix)[k] = Quotients(value, radix)[k - 1] \div radix
PROOF
<1> DEFINE q == Quotients(value, radix)
           loop == [does |-> "divide", start |-> value, radix |-> radix]
           Loop(f) == f = [k \in 0 .. MostDigits |-> After(loop, f, k)]
<1>1. \E f : Loop(f)
  <2>1. MostDigits \in Nat
    BY DEF MostDigits
  <2> QED BY <2>1, LoopExists
<1>2. q = CHOOSE f : Loop(f)
  BY DEF Quotients, After
<1>3. Loop(q)
  <2> HIDE DEF Loop, q
  <2> QED BY <1>1, <1>2, Zenon
<1> HIDE DEF q
<1>4. /\ DOMAIN q = 0 .. MostDigits
      /\ \A k \in 0 .. MostDigits : q[k] = After(loop, q, k)
  <2>1. DOMAIN q = 0 .. MostDigits
    BY <1>3
  <2>2. ASSUME NEW k \in 0 .. MostDigits PROVE q[k] = After(loop, q, k)
    BY <1>3, Zenon
  <2> QED BY <2>1, <2>2
<1> QED BY <1>4 DEF After, MostDigits, q

LEMMA NumberSteps ==
    ASSUME NEW digits, Len(digits) \in Nat, NEW radix
    PROVE  \E n : /\ n[0] = 0
                  /\ \A i \in 1 .. Len(digits) : n[i] = n[i - 1] * radix + digits[i]
                  /\ Number(digits, radix) = n[Len(digits)]
PROOF
<1> DEFINE loop == [does |-> "multiply", start |-> 0, radix |-> radix, digits |-> digits]
           Loop(f) == f = [i \in 0 .. Len(digits) |-> After(loop, f, i)]
           n == CHOOSE f : Loop(f)
<1>1. \E f : Loop(f)
  BY LoopExists
<1>2. Number(digits, radix) = n[Len(digits)]
  BY DEF Number, After
<1>3. Loop(n)
  <2> HIDE DEF Loop
  <2> QED BY <1>1, Zenon
<1> HIDE DEF n
<1>4. ASSUME NEW i \in 0 .. Len(digits) PROVE n[i] = After(loop, n, i)
  BY <1>3, Zenon
<1>5. n[0] = 0 /\ \A i \in 1 .. Len(digits) : n[i] = n[i - 1] * radix + digits[i]
  BY <1>4 DEF After
<1> QED BY <1>2, <1>5

-----------------------------------------------------------------------------
(***************************************************************************)
(* Numerals.                                                               *)
(***************************************************************************)
LEMMA Division ==
    ASSUME NEW x \in Nat, NEW radix \in {10, 16}
    PROVE  /\ x \div radix \in Nat /\ x % radix \in 0 .. radix - 1
           /\ x = (x \div radix) * radix + (x % radix)
           /\ x \div radix = 0 => x % radix = x
PROOF
<1>1. /\ x \div 10 \in Nat /\ x % 10 \in 0 .. 9
      /\ x = (x \div 10) * 10 + (x % 10)
  OBVIOUS
<1>2. /\ x \div 16 \in Nat /\ x % 16 \in 0 .. 15
      /\ x = (x \div 16) * 16 + (x % 16)
  OBVIOUS
<1>3. CASE radix = 10
  BY <1>1, <1>3
<1>4. CASE radix = 16
  BY <1>2, <1>4
<1> QED BY <1>3, <1>4

LEMMA QuotientsAreNumbers ==
    ASSUME NEW value \in Nat, NEW radix \in {10, 16}
    PROVE  \A k \in 0 .. MostDigits : Quotients(value, radix)[k] \in Nat
PROOF
<1> DEFINE q == Quotients(value, radix)
           Bad == {k \in 0 .. MostDigits : q[k] \notin Nat}
<1>1. /\ q[0] = value
      /\ \A k \in 1 .. MostDigits : q[k] = q[k - 1] \div radix
  BY QuotientSteps
<1> HIDE DEF q
<1>2. ASSUME Bad # {} PROVE FALSE
  <2>1. PICK m \in Bad : \A k \in Bad : m <= k
    <3>1. Bad \subseteq Nat
      BY DEF MostDigits
    <3> HIDE DEF Bad
    <3> QED BY <1>2, <3>1, Least
  <2>2. m \in 1 .. MostDigits
    BY <1>1 DEF MostDigits
  <2>3. q[m - 1] \in Nat
    <3>1. m - 1 \in 0 .. MostDigits /\ ~(m <= m - 1)
      BY <2>2 DEF MostDigits
    <3> QED BY <3>1, <2>1
  <2>4. q[m] = q[m - 1] \div radix
    BY <1>1, <2>2
  <2>5. q[m] \in Nat
    BY <2>3, <2>4, Division
  <2> QED BY <2>5
<1> QED BY <1>2 DEF q

\* A value that fits is the number of the remainders, the last one first.
LEMMA NumeralDenotes ==
    ASSUME NEW value \in Nat, NEW radix \in {10, 16}, NEW L \in 1 .. MostDigits,
           Fits(value, radix, L),
           NEW digits, Len(digits) = L,
           \A i \in 1 .. L : digits[i] = Quotients(value, radix)[L - i] % radix
    PROVE  Number(digits, radix) = value
PROOF
<1> DEFINE q == Quotients(value, radix)
<1>1. /\ q[0] = value /\ q[L] = 0
      /\ \A k \in 1 .. MostDigits : q[k] = q[k - 1] \div radix
      /\ \A k \in 0 .. MostDigits : q[k] \in Nat
  <2>1. q[L] = 0
    BY DEF Fits
  <2>2. /\ q[0] = value
        /\ \A k \in 1 .. MostDigits : q[k] = q[k - 1] \div radix
    BY QuotientSteps
  <2>3. \A k \in 0 .. MostDigits : q[k] \in Nat
    BY QuotientsAreNumbers
  <2> QED BY <2>1, <2>2, <2>3
<1>2. L \in Nat /\ L >= 1 /\ L <= MostDigits /\ MostDigits \in Nat
  BY DEF MostDigits
<1>3. PICK n : /\ n[0] = 0
               /\ \A i \in 1 .. L : n[i] = n[i - 1] * radix + digits[i]
               /\ Number(digits, radix) = n[L]
  BY <1>2, NumberSteps
<1>4. \A i \in 1 .. L : digits[i] = q[L - i] % radix
  OBVIOUS
<1> HIDE DEF q
<1> DEFINE Bad == {i \in 0 .. L : n[i] # q[L - i]}
<1>5. ASSUME Bad # {} PROVE FALSE
  <2>1. PICK m \in Bad : \A k \in Bad : m <= k
    <3>1. Bad \subseteq Nat
      BY <1>2
    <3> HIDE DEF Bad
    <3> QED BY <1>5, <3>1, Least
  <2>2. m \in 1 .. L
    BY <1>1, <1>2, <1>3
  <2>3. n[m - 1] = q[L - (m - 1)]
    <3>1. m - 1 \in 0 .. L /\ ~(m <= m - 1)
      BY <2>2, <1>2
    <3> QED BY <3>1, <2>1
  <2> DEFINE x == q[L - m]
  <2>4. q[L - (m - 1)] = x \div radix /\ x \in Nat
    <3>1. L - (m - 1) \in 1 .. MostDigits /\ L - (m - 1) - 1 = L - m /\ L - m \in 0 .. MostDigits
      BY <2>2, <1>2
    <3> QED BY <3>1, <1>1
  <2>5. n[m] = n[m - 1] * radix + digits[m] /\ digits[m] = x % radix
    BY <2>2, <1>3, <1>4
  <2> HIDE DEF x
  <2>6. n[m] = x
    <3>1. x = (x \div radix) * radix + (x % radix)
      BY <2>4, Division
    <3> QED BY <3>1, <2>3, <2>4, <2>5
  <2> QED BY <2>6 DEF x
<1>6. n[L] = q[L - L]
  BY <1>2, <1>5
<1> QED BY <1>1, <1>2, <1>3, <1>6

\* The digits counted are as many as are needed, the first one not zero.
LEMMA LengthCounts ==
    ASSUME NEW value \in Nat, Fits(value, 10, MostDigits)
    PROVE  /\ Length(value) \in 1 .. MostDigits
           /\ Fits(value, 10, Length(value))
           /\ Length(value) > 1 => Digit(value, Length(value) - 1) # 0
           /\ \A k \in 0 .. MostDigits : Digit(value, k) \in 0 .. 9
PROOF
<1> DEFINE Enough == {n \in 1 .. MostDigits : Fits(value, 10, n)}
           L == Length(value)
<1>1. PICK p \in Enough : \A n \in Enough : p <= n
  <2>1. MostDigits \in Enough /\ Enough \subseteq Nat
    BY DEF MostDigits
  <2> HIDE DEF Enough
  <2> QED BY <2>1, Least
<1>2. Fits(value, 10, p) /\ \A m \in 1 .. p - 1 : ~Fits(value, 10, m)
  <2>1. \A m \in 1 .. p - 1 : m \in 1 .. MostDigits /\ ~(p <= m)
    BY DEF MostDigits
  <2> QED BY <2>1, <1>1
<1>3. /\ L \in 1 .. MostDigits
      /\ Fits(value, 10, L) /\ \A m \in 1 .. L - 1 : ~Fits(value, 10, m)
  BY <1>2, Zenon DEF Length
<1> HIDE DEF L
<1>4. L > 1 => Digit(value, L - 1) # 0
  <2> SUFFICES ASSUME L > 1 PROVE Digit(value, L - 1) # 0
    OBVIOUS
  <2>1. L - 1 \in 1 .. L - 1 /\ L - 1 \in 0 .. MostDigits /\ L \in 1 .. MostDigits
    BY <1>3 DEF MostDigits
  <2> DEFINE x == Quotients(value, 10)[L - 1]
  <2>2. x # 0 /\ x \in Nat /\ x \div 10 = 0
    BY <1>3, <2>1, QuotientSteps, QuotientsAreNumbers DEF Fits
  <2> HIDE DEF x
  <2>3. x % 10 # 0
    BY <2>2
  <2> QED BY <2>3 DEF Digit, x
<1>5. ASSUME NEW k \in 0 .. MostDigits PROVE Digit(value, k) \in 0 .. 9
  <2>1. Quotients(value, 10)[k] \in Nat
    BY QuotientsAreNumbers
  <2> QED BY <2>1, Division DEF Digit
<1> QED BY <1>3, <1>4, <1>5 DEF L

-----------------------------------------------------------------------------
(***************************************************************************)
(* The memory of the buffers.                                              *)
(***************************************************************************)
Cells == 0 .. BufferSize * Len(Layout) - 1
MemoryOK(mem) == DOMAIN mem = Cells

\* The text t is in the buffer of c, with its end.
Holds(mem, c, t) ==
    /\ t \in Seq(Int) /\ Len(t) < 50
    /\ \A i \in 1 .. Len(t) : t[i] # Nul /\ mem[Base(c) + i - 1] = t[i]
    /\ mem[Base(c) + Len(t)] = Nul

\* Buffers are apart, and every cell of one is a cell.
LEMMA BuffersApart ==
    ASSUME NEW c \in Conversions
    PROVE  /\ Base(c) \in Nat /\ Base(c) + BufferSize <= BufferSize * Len(Layout)
           /\ \A d \in Conversions \ {c} : \/ Base(c) + BufferSize <= Base(d)
                                           \/ Base(d) + BufferSize <= Base(c)
PROOF
<1> DEFINE place(d) == CHOOSE i \in DOMAIN Layout : Layout[i] = d
<1>1. BufferSize \in Nat /\ Len(Layout) \in Nat /\ DOMAIN Layout = 1 .. Len(Layout)
  BY TextAssumption
<1>2. ASSUME NEW d \in Conversions
      PROVE  place(d) \in 1 .. Len(Layout) /\ Layout[place(d)] = d
  <2>1. \E i \in DOMAIN Layout : Layout[i] = d
    BY TextAssumption
  <2>2. place(d) \in DOMAIN Layout /\ Layout[place(d)] = d
    BY <2>1, Zenon
  <2> QED BY <1>1, <2>2
<1>3. \A d : Base(d) = BufferSize * (place(d) - 1)
  BY DEF Base
<1> HIDE DEF place
<1>4. ASSUME NEW m \in Nat, NEW n \in Nat, m < n
      PROVE  BufferSize * m \in Nat /\ BufferSize * m + BufferSize <= BufferSize * n
  <2>1. BufferSize * (n - m - 1) >= 0
    BY <1>1, <1>4
  <2>2. BufferSize * (n - m - 1) = BufferSize * n - BufferSize * m - BufferSize
    BY <1>1
  <2>3. BufferSize * m \in Nat /\ BufferSize * n \in Nat
    BY <1>1
  <2> QED BY <1>1, <2>1, <2>2, <2>3
<1>5. Base(c) \in Nat /\ Base(c) + BufferSize <= BufferSize * Len(Layout)
  <2>1. place(c) - 1 \in Nat /\ place(c) - 1 < Len(Layout)
    BY <1>1, <1>2
  <2> QED BY <1>1, <1>3, <1>4, <2>1
<1>6. ASSUME NEW d \in Conversions, d # c
      PROVE  \/ Base(c) + BufferSize <= Base(d)
             \/ Base(d) + BufferSize <= Base(c)
  <2>1. place(c) - 1 \in Nat /\ place(d) - 1 \in Nat /\ place(c) # place(d)
    BY <1>2, <1>6
  <2>2. CASE place(c) < place(d)
    BY <2>1, <2>2, <1>3, <1>4, <1>2
  <2>3. CASE place(d) < place(c)
    BY <2>1, <2>3, <1>3, <1>4, <1>2
  <2> QED BY <2>1, <2>2, <2>3, <1>2
<1> QED BY <1>5, <1>6

LEMMA WrittenKeeps ==
    ASSUME NEW mem, MemoryOK(mem), NEW c, NEW text
    PROVE  MemoryOK(Written(mem, c, text))
BY DEF Written, MemoryOK

LEMMA WrittenCells ==
    ASSUME NEW mem, MemoryOK(mem), NEW c \in Conversions,
           NEW text, DOMAIN text \subseteq Int
    PROVE  \A a \in Cells : Written(mem, c, text)[a] =
              IF a - Base(c) \in DOMAIN text THEN text[a - Base(c)] ELSE mem[a]
PROOF
<1> DEFINE w == Written(mem, c, text)
           cells == {Base(c) + o : o \in DOMAIN text}
<1>1. Base(c) \in Nat /\ Cells \subseteq Int
  BY BuffersApart DEF Cells
<1>2. \A a \in Cells : a \in cells <=> a - Base(c) \in DOMAIN text
  <2> SUFFICES ASSUME NEW a \in Cells PROVE a \in cells <=> a - Base(c) \in DOMAIN text
    OBVIOUS
  <2>1. ASSUME a \in cells PROVE a - Base(c) \in DOMAIN text
    <3>1. PICK o \in DOMAIN text : a = Base(c) + o
      BY <2>1
    <3>2. a - Base(c) = o
      BY <3>1, <1>1
    <3> QED BY <3>2
  <2>2. ASSUME a - Base(c) \in DOMAIN text PROVE a \in cells
    <3>1. a = Base(c) + (a - Base(c))
      BY <1>1
    <3> QED BY <3>1, <2>2
  <2> QED BY <2>1, <2>2
<1>3. /\ DOMAIN w = Cells
      /\ \A a \in Cells : w[a] = IF a \in cells THEN text[a - Base(c)] ELSE mem[a]
  BY DEF Written, MemoryOK
<1> HIDE DEF w, cells
<1>4. \A a \in Cells : w[a] = IF a - Base(c) \in DOMAIN text THEN text[a - Base(c)] ELSE mem[a]
  BY <1>2, <1>3
<1> QED BY <1>4 DEF w

\* What is written to another buffer, or up to 14 cells below one, leaves a
\* text as it is.
LEMMA TextStays ==
    ASSUME NEW mem, MemoryOK(mem), NEW c \in Conversions, NEW d \in Conversions, c # d,
           NEW text, DOMAIN text \subseteq -14 .. BufferSize - 1,
           NEW t, Holds(mem, d, t)
    PROVE  Holds(Written(mem, c, text), d, t)
PROOF
<1>1. /\ Base(c) \in Nat /\ Base(d) \in Nat /\ BufferSize \in Nat /\ BufferSize >= 64
      /\ Base(d) + BufferSize <= BufferSize * Len(Layout)
      /\ Base(c) + BufferSize <= Base(d) \/ Base(d) + BufferSize <= Base(c)
      /\ Len(Layout) \in Nat
  BY BuffersApart, TextAssumption
<1>2. Len(t) \in Nat /\ Len(t) < 50
  BY DEF Holds
<1>3. ASSUME NEW o \in 0 .. 49 PROVE Written(mem, c, text)[Base(d) + o] = mem[Base(d) + o]
  <2> DEFINE a == Base(d) + o
  <2>1. a \in Cells
    BY <1>1 DEF Cells
  <2>2. a - Base(c) \notin -14 .. BufferSize - 1
    BY <1>1
  <2>3. DOMAIN text \subseteq Int
    BY <1>1
  <2> HIDE DEF a
  <2>4. Written(mem, c, text)[a] = mem[a]
    BY <2>1, <2>2, <2>3, WrittenCells
  <2> QED BY <2>4 DEF a
<1>4. ASSUME NEW i \in 1 .. Len(t) PROVE Written(mem, c, text)[Base(d) + i - 1] = mem[Base(d) + i - 1]
  <2>1. i - 1 \in 0 .. 49 /\ Base(d) + i - 1 = Base(d) + (i - 1)
    BY <1>1, <1>2
  <2> QED BY <2>1, <1>3
<1>5. Written(mem, c, text)[Base(d) + Len(t)] = mem[Base(d) + Len(t)]
  <2> DEFINE n == Len(t)
  <2>1. n \in Nat /\ n < 50
    BY <1>2
  <2> HIDE DEF n
  <2>2. n \in 0 .. 49
    BY <2>1
  <2>3. Written(mem, c, text)[Base(d) + n] = mem[Base(d) + n]
    BY <2>2, <1>3
  <2> QED BY <2>3 DEF n
<1> QED BY <1>4, <1>5 DEF Holds

\* A text that is written with its end is there.
LEMMA TextPlaced ==
    ASSUME NEW mem, MemoryOK(mem), NEW c \in Conversions,
           NEW text, DOMAIN text \subseteq Int,
           NEW t \in Seq(Int), Len(t) < 50, \A i \in 1 .. Len(t) : t[i] # Nul,
           NEW first \in Nat, first <= Len(t),
           \A o \in first .. Len(t) : o \in DOMAIN text,
           \A o \in first .. Len(t) - 1 : text[o] = t[o + 1],
           text[Len(t)] = Nul,
           \A o \in 0 .. first - 1 : o \notin DOMAIN text /\ mem[Base(c) + o] = t[o + 1]
    PROVE  Holds(Written(mem, c, text), c, t)
PROOF
<1>1. /\ Base(c) \in Nat /\ BufferSize \in Nat /\ BufferSize >= 64
      /\ Base(c) + BufferSize <= BufferSize * Len(Layout)
      /\ Len(Layout) \in Nat /\ Len(t) \in Nat
  BY BuffersApart, TextAssumption
<1>2. ASSUME NEW o \in 0 .. Len(t)
      PROVE  Written(mem, c, text)[Base(c) + o] =
                IF o \in DOMAIN text THEN text[o] ELSE mem[Base(c) + o]
  <2> DEFINE a == Base(c) + o
  <2>1. a \in Cells /\ a - Base(c) = o
    BY <1>1 DEF Cells
  <2> HIDE DEF a
  <2>2. Written(mem, c, text)[a] = IF o \in DOMAIN text THEN text[o] ELSE mem[a]
    BY <2>1, WrittenCells
  <2> QED BY <2>2 DEF a
<1>3. ASSUME NEW i \in 1 .. Len(t) PROVE Written(mem, c, text)[Base(c) + i - 1] = t[i]
  <2> DEFINE o == i - 1
  <2>1. o \in 0 .. Len(t) /\ o + 1 = i /\ Base(c) + i - 1 = Base(c) + o /\ o <= Len(t) - 1
    BY <1>1
  <2> HIDE DEF o
  <2>2. CASE o < first
    <3>1. o \in 0 .. first - 1
      BY <2>1, <2>2
    <3> QED BY <3>1, <2>1, <1>2
  <2>3. CASE o >= first
    <3>1. o \in first .. Len(t) - 1 /\ o \in first .. Len(t)
      BY <2>1, <2>3
    <3> QED BY <3>1, <2>1, <1>2
  <2> QED BY <2>1, <2>2, <2>3
<1>4. Written(mem, c, text)[Base(c) + Len(t)] = Nul
  <2>1. Len(t) \in first .. Len(t) /\ Len(t) \in 0 .. Len(t)
    BY <1>1
  <2> QED BY <2>1, <1>2
<1> QED BY <1>3, <1>4 DEF Holds

\* The caller finds the text.
LEMMA TextFound ==
    ASSUME NEW mem, NEW c \in Conversions, NEW t, Holds(mem, c, t)
    PROVE  Found(mem, c) = t
PROOF
<1> DEFINE base == Base(c)
           IsEnd(e) == mem[base + e] = Nul /\ \A o \in 0 .. e - 1 : mem[base + o] # Nul
           end == CHOOSE e \in 0 .. BufferSize - 1 : IsEnd(e)
<1>1. /\ base \in Nat /\ BufferSize \in Nat /\ BufferSize >= 64
      /\ t \in Seq(Int) /\ Len(t) \in Nat /\ Len(t) < 50 /\ mem[base + Len(t)] = Nul
  BY BuffersApart, TextAssumption DEF Holds
<1>2. ASSUME NEW o \in 0 .. Len(t) - 1 PROVE mem[base + o] # Nul /\ mem[base + o] = t[o + 1]
  <2>1. o + 1 \in 1 .. Len(t) /\ base + (o + 1) - 1 = base + o
    BY <1>1
  <2>2. t[o + 1] # Nul /\ mem[base + (o + 1) - 1] = t[o + 1]
    BY <2>1, <1>1 DEF Holds
  <2> QED BY <2>1, <2>2
<1> HIDE DEF base
<1>3. Len(t) \in 0 .. BufferSize - 1 /\ IsEnd(Len(t))
  BY <1>1, <1>2
<1>4. end \in 0 .. BufferSize - 1 /\ IsEnd(end)
  <2> HIDE DEF IsEnd
  <2> QED BY <1>3, Zenon
<1> HIDE DEF end
<1>5. end = Len(t)
  <2>1. CASE end < Len(t)
    <3>1. end \in 0 .. Len(t) - 1
      BY <1>1, <1>4, <2>1
    <3> QED BY <3>1, <1>2, <1>4
  <2>2. CASE Len(t) < end
    <3>1. Len(t) \in 0 .. end - 1
      BY <1>1, <1>4, <2>2
    <3> QED BY <3>1, <1>1, <1>4
  <2> QED BY <1>1, <1>4, <2>1, <2>2
<1>6. Found(mem, c) = [i \in 1 .. end |-> mem[base + i - 1]]
  BY DEF Found, end, base
<1>7. ASSUME NEW i \in 1 .. Len(t) PROVE mem[base + i - 1] = t[i]
  BY DEF Holds, base
<1>8. t = [i \in 1 .. Len(t) |-> t[i]]
  BY <1>1
<1> QED BY <1>5, <1>6, <1>7, <1>8

\* However the buffer was filled: with a zero in it a text is found, and no
\* more than the buffer.
LEMMA SomethingFound ==
    ASSUME NEW mem, MemoryOK(mem), NEW c \in Conversions,
           NEW z \in 0 .. BufferSize - 1, mem[Base(c) + z] = Nul
    PROVE  \E S : Found(mem, c) \in Seq(S)
PROOF
<1> DEFINE base == Base(c)
           IsEnd(e) == mem[base + e] = Nul /\ \A o \in 0 .. e - 1 : mem[base + o] # Nul
           end == CHOOSE e \in 0 .. BufferSize - 1 : IsEnd(e)
           Zeros == {e \in 0 .. BufferSize - 1 : mem[base + e] = Nul}
<1>1. /\ base \in Nat /\ BufferSize \in Nat /\ Len(Layout) \in Nat
      /\ base + BufferSize <= BufferSize * Len(Layout)
  BY BuffersApart, TextAssumption
<1>2. PICK e \in Zeros : \A o \in Zeros : e <= o
  <2>1. z \in Zeros /\ Zeros \subseteq Nat
    BY <1>1
  <2> HIDE DEF Zeros
  <2> QED BY <2>1, Least
<1>3. e \in 0 .. BufferSize - 1 /\ IsEnd(e)
  <2>1. \A o \in 0 .. e - 1 : o \in 0 .. BufferSize - 1 /\ ~(e <= o)
    BY <1>1, <1>2
  <2> QED BY <2>1, <1>2
<1>4. end \in 0 .. BufferSize - 1
  <2> HIDE DEF IsEnd
  <2> QED BY <1>3, Zenon
<1>5. Found(mem, c) = [i \in 1 .. end |-> mem[base + i - 1]]
  BY DEF Found
<1> HIDE DEF end, base
<1>6. end \in Nat
  BY <1>1, <1>4
<1> DEFINE S == {mem[base + i - 1] : i \in 1 .. end}
<1>7. [i \in 1 .. end |-> mem[base + i - 1]] \in Seq(S)
  <2>1. \A i \in 1 .. end : mem[base + i - 1] \in S
    OBVIOUS
  <2> HIDE DEF S
  <2> QED BY <1>6, <2>1
<1> HIDE DEF S
<1> QED BY <1>5, <1>7

-----------------------------------------------------------------------------
(***************************************************************************)
(* The texts.                                                              *)
(***************************************************************************)

\* The text of an integer.
Spelling(v) ==
    [i \in 1 .. Sign(v) + Length(Abs(v)) |->
        IF i <= Sign(v) THEN Minus ELSE Digit(Abs(v), Sign(v) + Length(Abs(v)) - i)]

LEMMA Signs ==
    ASSUME NEW v \in Int
    PROVE  /\ Abs(v) \in Nat /\ Sign(v) \in {0, 1} /\ (v < 0 <=> Sign(v) = 1)
           /\ v >= 0 => Abs(v) = v
BY DEF Abs, Sign

LEMMA SpellingDenotes ==
    ASSUME NEW v \in Int, Fits(Abs(v), 10, MostDigits)
    PROVE  /\ Spelling(v) \in Seq(Int) /\ Length(Abs(v)) \in 1 .. 20
           /\ Len(Spelling(v)) = Sign(v) + Length(Abs(v))
           /\ \A i \in 1 .. Len(Spelling(v)) : Spelling(v)[i] # Nul
           /\ IsDecimal(Spelling(v), v)
PROOF
<1> DEFINE a == Abs(v)
           s == Sign(v)
           L == Length(a)
           t == Spelling(v)
<1>1. a \in Nat /\ s \in {0, 1} /\ (v < 0 <=> s = 1)
  BY Signs
<1>2. /\ L \in 1 .. 20 /\ Fits(a, 10, L)
      /\ L > 1 => Digit(a, L - 1) # 0
      /\ \A k \in 0 .. 20 : Digit(a, k) \in 0 .. 9
  BY <1>1, LengthCounts DEF MostDigits
<1>3. t = [i \in 1 .. s + L |-> IF i <= s THEN Minus ELSE Digit(a, s + L - i)]
  BY DEF Spelling
<1> HIDE DEF t, s, L, a
<1>4. ASSUME NEW i \in 1 .. s + L
      PROVE  /\ i <= s => t[i] = Minus
             /\ i > s => t[i] = Digit(a, s + L - i) /\ t[i] \in 0 .. 9
  <2>1. t[i] = IF i <= s THEN Minus ELSE Digit(a, s + L - i)
    BY <1>3
  <2>2. i > s => s + L - i \in 0 .. 20 /\ ~(i <= s)
    BY <1>1, <1>2
  <2>3. i > s => Digit(a, s + L - i) \in 0 .. 9
    BY <2>2, <1>2
  <2> QED BY <2>1, <2>2, <2>3
<1>5. t \in Seq(Int) /\ Len(t) = s + L
  <2>1. \A i \in 1 .. s + L : t[i] \in Int
    <3> SUFFICES ASSUME NEW i \in 1 .. s + L PROVE t[i] \in Int
      OBVIOUS
    <3>1. i <= s \/ i > s
      BY <1>1, <1>2
    <3> QED BY <3>1, <1>4 DEF Minus
  <2>2. s + L \in Nat
    BY <1>1, <1>2
  <2> QED BY <2>1, <2>2, <1>3
<1>6. \A i \in 1 .. Len(t) : t[i] # Nul
  <2> SUFFICES ASSUME NEW i \in 1 .. s + L PROVE t[i] # Nul
    BY <1>5
  <2>1. i <= s \/ i > s
    BY <1>1, <1>2
  <2> QED BY <2>1, <1>4 DEF Minus, Nul
<1> DEFINE digits == IF v < 0 THEN Tail(t) ELSE t
<1>7. Len(digits) = L /\ DOMAIN digits = 1 .. L
      /\ \A i \in 1 .. L : digits[i] = t[s + i]
  <2>1. CASE v < 0
    <3>0. s = 1 /\ L + 1 - 1 = L /\ L + 1 # 0 /\ 1 + L = L + 1
      BY <1>1, <1>2, <2>1
    <3>1. s = 1 /\ Len(t) = L + 1 /\ L + 1 - 1 = L /\ t # <<>>
      <4>1. Len(t) = L + 1
        BY <3>0, <1>5
      <4>2. Len(<<>>) = 0
        OBVIOUS
      <4> QED BY <3>0, <4>1, <4>2, Zenon
    <3>2. /\ Tail(t) \in Seq(Int) /\ Len(Tail(t)) = Len(t) - 1
          /\ \A i \in 1 .. Len(Tail(t)) : Tail(t)[i] = t[i + 1]
      BY <3>1, <1>5, HeadTailProperties
    <3>3. digits = Tail(t)
      BY <2>1
    <3> HIDE DEF digits
    <3>4. Len(digits) = L
      <4>1. Len(t) - 1 = L
        BY <3>1, <1>2
      <4> QED BY <4>1, <3>2, <3>3, Zenon
    <3>5. DOMAIN digits = 1 .. L
      <4>1. DOMAIN Tail(t) = 1 .. Len(Tail(t))
        BY <3>2, LenProperties, Zenon
      <4> QED BY <4>1, <3>3, <3>4, Zenon
    <3>6. \A i \in 1 .. L : digits[i] = t[s + i]
      <4> SUFFICES ASSUME NEW i \in 1 .. L PROVE digits[i] = t[s + i]
        OBVIOUS
      <4>1. s + i = i + 1
        BY <3>1, <1>2
      <4> QED BY <4>1, <3>2, <3>3, <3>4
    <3> QED BY <3>4, <3>5, <3>6
  <2>2. CASE ~(v < 0)
    <3>1. s = 0 /\ digits = t /\ Len(t) = L
      BY <2>2, <1>1, <1>2, <1>5
    <3>2. DOMAIN t = 1 .. L
      BY <3>1, <1>5, LenProperties
    <3>3. \A i \in 1 .. L : s + i = i
      BY <3>1, <1>2
    <3> HIDE DEF digits
    <3> QED BY <3>1, <3>2, <3>3
  <2> QED BY <2>1, <2>2
<1> HIDE DEF digits
<1>8. \A i \in 1 .. L : digits[i] = Digit(a, L - i) /\ digits[i] \in 0 .. 9
  <2> SUFFICES ASSUME NEW i \in 1 .. L
               PROVE  digits[i] = Digit(a, L - i) /\ digits[i] \in 0 .. 9
    OBVIOUS
  <2>1. s + i \in 1 .. s + L /\ s + i > s /\ s + L - (s + i) = L - i
    BY <1>1, <1>2
  <2> QED BY <2>1, <1>4, <1>7
<1>9. Number(digits, 10) = a
  <2>1. \A i \in 1 .. L : digits[i] = Quotients(a, 10)[L - i] % 10
    BY <1>8 DEF Digit
  <2>2. L \in 1 .. MostDigits
    BY <1>2 DEF MostDigits
  <2> QED BY <2>1, <2>2, <1>1, <1>2, <1>7, NumeralDenotes
<1>10. IsNumeral(digits, 10) /\ (Len(digits) > 1 => digits[1] # 0)
  <2>1. IsNumeral(digits, 10)
    <3>1. Len(digits) > 0 /\ 10 - 1 = 9
      BY <1>2, <1>7
    <3> QED BY <3>1, <1>7, <1>8, Zenon DEF IsNumeral
  <2>2. digits[1] = Digit(a, L - 1)
    BY <1>2, <1>8
  <2> QED BY <2>1, <2>2, <1>2, <1>7
<1>11. v < 0 => t # <<>> /\ t[1] = Minus
  <2> SUFFICES ASSUME v < 0 PROVE t # <<>> /\ t[1] = Minus
    OBVIOUS
  <2>1. s = 1 /\ 1 \in 1 .. s + L /\ s + L # 0 /\ 1 <= s
    BY <1>1, <1>2
  <2>2. Len(<<>>) = 0
    OBVIOUS
  <2>3. t # <<>>
    BY <2>1, <2>2, <1>5, Zenon
  <2> QED BY <2>1, <2>3, <1>4
<1>12. IsDecimal(t, v)
  BY <1>9, <1>10, <1>11 DEF IsDecimal, digits, a
<1> QED BY <1>2, <1>5, <1>6, <1>12 DEF t, s, L, a

\* What to_string writes of the digits, with any size and with the right one.
LEMMA DecimalCells ==
    ASSUME NEW value \in Nat, Fits(value, 10, MostDigits), NEW sign \in {0, 1},
           NEW garbage \in 0 .. 255
    PROVE  LET text == Decimal(value, sign, garbage)
               L == Length(value)
           IN  /\ DOMAIN text \subseteq Int
               /\ Tame(value, sign, garbage) =>
                     /\ DOMAIN text \subseteq sign .. BufferSize - 1
                     /\ \E z \in 0 .. BufferSize - 1 : z \in DOMAIN text /\ text[z] = Nul
               /\ garbage = 0 =>
                     /\ DOMAIN text = sign .. sign + L
                     /\ \A o \in sign .. sign + L - 1 : text[o] = Digit(value, sign + L - 1 - o)
                     /\ text[sign + L] = Nul
PROOF
<1> DEFINE text == Decimal(value, sign, garbage)
           L == Length(value)
           size == Size(value, garbage)
<1>1. L \in 1 .. 20 /\ \A k \in 0 .. 20 : Digit(value, k) \in 0 .. 9
  BY LengthCounts DEF MostDigits
<1>2. size \in 0 .. 255 /\ (garbage = 0 => size = L - 1)
  <2> DEFINE sum == garbage + L - 1
  <2>1. sum \in Nat /\ (garbage = 0 => sum = L - 1) /\ (garbage = 0 => sum < 256)
    BY <1>1
  <2>2. size = sum % 256
    BY DEF Size
  <2> HIDE DEF sum, size
  <2>3. sum % 256 \in 0 .. 255 /\ (sum < 256 => sum % 256 = sum)
    BY <2>1
  <2> QED BY <2>1, <2>2, <2>3
<1>3. text = [o \in sign + size - L + 1 .. sign + size + 1 |->
                 IF o = sign + size + 1 THEN Nul ELSE Digit(value, sign + size - o)]
  BY DEF Decimal
<1>4. Tame(value, sign, garbage) <=> size >= L - 1 /\ sign + size + 1 < BufferSize
  BY DEF Tame
<1> HIDE DEF text, size, L
<1>5. /\ DOMAIN text = sign + size - L + 1 .. sign + size + 1
      /\ text[sign + size + 1] = Nul
      /\ \A o \in sign + size - L + 1 .. sign + size : text[o] = Digit(value, sign + size - o)
  BY <1>1, <1>2, <1>3
<1>6. DOMAIN text \subseteq Int
  BY <1>1, <1>2, <1>5
<1>7. ASSUME Tame(value, sign, garbage)
      PROVE  /\ DOMAIN text \subseteq sign .. BufferSize - 1
             /\ \E z \in 0 .. BufferSize - 1 : z \in DOMAIN text /\ text[z] = Nul
  <2>1. BufferSize \in Nat
    BY TextAssumption
  <2>2. size >= L - 1 /\ sign + size + 1 < BufferSize
    BY <1>4, <1>7
  <2>3. DOMAIN text \subseteq sign .. BufferSize - 1
    BY <2>1, <2>2, <1>1, <1>2, <1>5
  <2>4. sign + size + 1 \in 0 .. BufferSize - 1 /\ sign + size + 1 \in DOMAIN text
    BY <2>1, <2>2, <1>1, <1>2, <1>5
  <2> QED BY <2>3, <2>4, <1>5
<1>8. ASSUME garbage = 0
      PROVE  /\ DOMAIN text = sign .. sign + L
             /\ \A o \in sign .. sign + L - 1 : text[o] = Digit(value, sign + L - 1 - o)
             /\ text[sign + L] = Nul
  <2>1. size = L - 1 /\ sign + size - L + 1 = sign /\ sign + size + 1 = sign + L
        /\ sign + size = sign + L - 1
    BY <1>1, <1>2, <1>8
  <2> QED BY <2>1, <1>5
<1> QED BY <1>6, <1>7, <1>8 DEF text, L

\* A number written in decimal: its memory, what that leaves alone, and the
\* text, which in front of the digits has the sign that was there.
LEMMA DecimalWritten ==
    ASSUME NEW mem, MemoryOK(mem), NEW c \in Decimals,
           NEW v \in Int, Fits(Abs(v), 10, MostDigits), NEW garbage \in 0 .. 255
    PROVE  LET after == Written(mem, c, Decimal(Abs(v), Sign(v), garbage))
           IN  /\ MemoryOK(after)
               /\ Tame(Abs(v), Sign(v), garbage) =>
                     /\ \A d \in Conversions \ {c} : \A t : Holds(mem, d, t) => Holds(after, d, t)
                     /\ \E z \in 0 .. BufferSize - 1 : after[Base(c) + z] = Nul
               /\ garbage = 0 /\ (v < 0 => mem[Base(c)] = Minus) => Holds(after, c, Spelling(v))
PROOF
<1> DEFINE text == Decimal(Abs(v), Sign(v), garbage)
           after == Written(mem, c, text)
           tame == Tame(Abs(v), Sign(v), garbage)
           t == Spelling(v)
           s == Sign(v)
           L == Length(Abs(v))
<1>1. c \in Conversions /\ BufferSize \in Nat /\ BufferSize >= 64
  BY TextAssumption DEF Conversions
<1>2. s \in {0, 1} /\ Abs(v) \in Nat /\ (v < 0 <=> s = 1)
  BY Signs
<1>3. /\ DOMAIN text \subseteq Int
      /\ tame => /\ DOMAIN text \subseteq s .. BufferSize - 1
                 /\ \E z \in 0 .. BufferSize - 1 : z \in DOMAIN text /\ text[z] = Nul
      /\ garbage = 0 =>
            /\ DOMAIN text = s .. s + L
            /\ \A o \in s .. s + L - 1 : text[o] = Digit(Abs(v), s + L - 1 - o)
            /\ text[s + L] = Nul
  BY <1>2, DecimalCells
<1>4. /\ t \in Seq(Int) /\ L \in 1 .. 20 /\ Len(t) = s + L
      /\ \A i \in 1 .. Len(t) : t[i] # Nul
  BY SpellingDenotes
<1>5. t = [i \in 1 .. s + L |-> IF i <= s THEN Minus ELSE Digit(Abs(v), s + L - i)]
  BY DEF Spelling
<1> HIDE DEF text, tame, t, s, L
<1>6. MemoryOK(after)
  BY WrittenKeeps
<1>7. ASSUME tame, NEW d \in Conversions \ {c}, NEW u, Holds(mem, d, u)
      PROVE  Holds(after, d, u)
  <2>1. DOMAIN text \subseteq -14 .. BufferSize - 1
    BY <1>1, <1>2, <1>3, <1>7
  <2> QED BY <1>1, <1>7, <2>1, TextStays
<1>8. ASSUME tame PROVE \E z \in 0 .. BufferSize - 1 : after[Base(c) + z] = Nul
  <2>1. PICK z \in 0 .. BufferSize - 1 : z \in DOMAIN text /\ text[z] = Nul
    BY <1>3, <1>8
  <2> DEFINE a == Base(c) + z
  <2>2. a \in Cells /\ a - Base(c) = z
    <3>1. Base(c) \in Nat /\ Base(c) + BufferSize <= BufferSize * Len(Layout) /\ Len(Layout) \in Nat
      BY <1>1, BuffersApart, TextAssumption
    <3> QED BY <3>1, <1>1 DEF Cells
  <2> HIDE DEF a
  <2>3. after[a] = Nul
    BY <2>1, <2>2, <1>1, <1>3, WrittenCells
  <2> QED BY <2>3 DEF a
<1>9. ASSUME garbage = 0, v < 0 => mem[Base(c)] = Minus PROVE Holds(after, c, t)
  <2>1. /\ Len(t) < 50 /\ s \in Nat /\ s <= Len(t) /\ Len(t) = s + L
        /\ \A o \in s .. Len(t) : o \in DOMAIN text
        /\ text[Len(t)] = Nul
    BY <1>2, <1>3, <1>4, <1>9
  <2>2. \A o \in s .. Len(t) - 1 : text[o] = t[o + 1]
    <3> SUFFICES ASSUME NEW o \in s .. Len(t) - 1 PROVE text[o] = t[o + 1]
      OBVIOUS
    <3>0. o \in s .. s + L - 1
      <4> DEFINE n == Len(t)
      <4>1. n = s + L /\ s \in Int /\ L \in Int /\ o \in s .. n - 1
        BY <1>2, <1>4
      <4> HIDE DEF n
      <4> QED BY <4>1
    <3>1. /\ o + 1 \in 1 .. s + L /\ ~(o + 1 <= s)
          /\ s + L - (o + 1) = s + L - 1 - o
      BY <3>0, <1>2, <1>4
    <3> QED BY <3>0, <3>1, <1>3, <1>5, <1>9
  <2>3. \A o \in 0 .. s - 1 : o \notin DOMAIN text /\ mem[Base(c) + o] = t[o + 1]
    <3> SUFFICES ASSUME NEW o \in 0 .. s - 1
                 PROVE  o \notin DOMAIN text /\ mem[Base(c) + o] = t[o + 1]
      OBVIOUS
    <3>1. s = 1 /\ o = 0 /\ o + 1 = 1 /\ 1 \in 1 .. s + L /\ 1 <= s
      BY <1>2, <1>4
    <3>2. Base(c) + o = Base(c) /\ o \notin s .. s + L
      BY <3>1, <1>1, <1>4, BuffersApart
    <3> QED BY <3>1, <3>2, <1>2, <1>3, <1>5, <1>9
  <2> QED BY <1>1, <1>3, <1>4, <2>1, <2>2, <2>3, TextPlaced
<1> QED BY <1>6, <1>7, <1>8, <1>9 DEF text, tame, t, s

\* An integer, with the sign written first.
LEMMA SignedWritten ==
    ASSUME MemoryOK(memory),
           NEW v \in Int, Fits(Abs(v), 10, MostDigits), NEW garbage \in 0 .. 255
    PROVE  LET after == SignedMemory(v, garbage)
           IN  /\ MemoryOK(after)
               /\ Tame(Abs(v), Sign(v), garbage) =>
                     /\ \A d \in Conversions \ {"int"} :
                           \A t : Holds(memory, d, t) => Holds(after, d, t)
                     /\ \E z \in 0 .. BufferSize - 1 : after[Base("int") + z] = Nul
               /\ garbage = 0 => Holds(after, "int", Spelling(v))
PROOF
<1> DEFINE minus == [o \in {0} |-> Minus]
           signed == IF v < 0 THEN Written(memory, "int", minus) ELSE memory
<1>1. "int" \in Decimals /\ "int" \in Conversions /\ BufferSize \in Nat /\ BufferSize >= 64
  BY TextAssumption DEF Decimals, Conversions
<1>2. MemoryOK(signed)
  BY WrittenKeeps
<1>3. ASSUME v < 0 PROVE signed[Base("int")] = Minus
  <2>1. /\ Base("int") \in Nat /\ Base("int") + BufferSize <= BufferSize * Len(Layout)
        /\ Len(Layout) \in Nat
    BY <1>1, BuffersApart, TextAssumption
  <2>2. Base("int") \in Cells /\ Base("int") - Base("int") = 0
    BY <1>1, <2>1 DEF Cells
  <2>3. DOMAIN minus = {0} /\ minus[0] = Minus /\ {0} \subseteq Int
    OBVIOUS
  <2> HIDE DEF minus
  <2>4. Written(memory, "int", minus)[Base("int")] = Minus
    BY <1>1, <2>2, <2>3, WrittenCells
  <2> QED BY <2>4, <1>3
<1>4. ASSUME NEW d \in Conversions \ {"int"}, NEW t, Holds(memory, d, t)
      PROVE  Holds(signed, d, t)
  <2>1. DOMAIN minus \subseteq -14 .. BufferSize - 1
    BY <1>1
  <2> HIDE DEF minus
  <2>2. Holds(Written(memory, "int", minus), d, t)
    BY <1>1, <1>4, <2>1, TextStays
  <2> QED BY <2>2, <1>4
<1>5. SignedMemory(v, garbage) = Written(signed, "int", Decimal(Abs(v), Sign(v), garbage))
  BY DEF SignedMemory
<1> HIDE DEF signed, minus
<1> QED BY <1>1, <1>2, <1>3, <1>4, <1>5, DecimalWritten


-----------------------------------------------------------------------------
(***************************************************************************)
(* Hexadecimal.                                                            *)
(***************************************************************************)
HexSpelling(c, value) ==
    [i \in 1 .. 2 * Bytes(c) |-> Quotients(value, 16)[2 * Bytes(c) - i] % 16]

LEMMA HexSpellingDenotes ==
    ASSUME NEW c \in Hexadecimals, NEW value \in Nat, Fits(value, 16, 2 * Bytes(c))
    PROVE  /\ HexSpelling(c, value) \in Seq(Int) /\ Len(HexSpelling(c, value)) = 2 * Bytes(c)
           /\ Bytes(c) \in 1 .. 8
           /\ \A i \in 1 .. 2 * Bytes(c) : HexSpelling(c, value)[i] # Nul
           /\ Denotes(c, HexSpelling(c, value), Text(value, 0))
PROOF
<1> DEFINE t == HexSpelling(c, value)
           n == 2 * Bytes(c)
<1>1. Bytes(c) \in 1 .. 8 /\ c \notin {"uint", "int"} /\ c # "double"
  BY DEF Hexadecimals, Bytes
<1>2. n \in 1 .. MostDigits /\ n \in 1 .. 16
  BY <1>1 DEF MostDigits
<1>3. t = [i \in 1 .. n |-> Quotients(value, 16)[n - i] % 16]
  BY DEF HexSpelling
<1> HIDE DEF t, n
<1>4. \A i \in 1 .. n : t[i] = Quotients(value, 16)[n - i] % 16 /\ t[i] \in 0 .. 15
  <2> SUFFICES ASSUME NEW i \in 1 .. n
               PROVE  t[i] = Quotients(value, 16)[n - i] % 16 /\ t[i] \in 0 .. 15
    OBVIOUS
  <2>1. n - i \in 0 .. MostDigits
    BY <1>2 DEF MostDigits
  <2>2. Quotients(value, 16)[n - i] \in Nat
    BY <2>1, QuotientsAreNumbers
  <2>3. t[i] = Quotients(value, 16)[n - i] % 16
    BY <1>3
  <2>4. \A x \in Nat : x % 16 \in 0 .. 15
    OBVIOUS
  <2> QED BY <2>2, <2>3, <2>4
<1>5. t \in Seq(Int) /\ Len(t) = n
  <2>1. n \in Nat /\ \A i \in 1 .. n : t[i] \in Int
    BY <1>2, <1>4
  <2> QED BY <2>1, <1>3
<1>6. Number(t, 16) = value
  <2>1. Fits(value, 16, n)
    BY DEF n
  <2> QED BY <2>1, <1>2, <1>4, <1>5, NumeralDenotes
<1>7. IsNumeral(t, 16)
  <2>1. Len(t) > 0 /\ DOMAIN t = 1 .. n /\ 16 - 1 = 15
    BY <1>2, <1>5, <1>3
  <2> QED BY <2>1, <1>4, Zenon DEF IsNumeral
<1>8. Denotes(c, t, Text(value, 0))
  BY <1>1, <1>5, <1>6, <1>7 DEF Denotes, Text, n
<1>9. \A i \in 1 .. n : t[i] # Nul
  BY <1>4 DEF Nul
<1> QED BY <1>1, <1>5, <1>8, <1>9 DEF t, n

LEMMA HexWritten ==
    ASSUME NEW mem, MemoryOK(mem), NEW c \in Hexadecimals,
           NEW value \in Nat, Fits(value, 16, 2 * Bytes(c))
    PROVE  LET after == Written(mem, c, Hexadecimal(c, value))
           IN  /\ MemoryOK(after)
               /\ \A d \in Conversions \ {c} : \A t : Holds(mem, d, t) => Holds(after, d, t)
               /\ Holds(after, c, HexSpelling(c, value))
PROOF
<1> DEFINE t == HexSpelling(c, value)
           n == 2 * Bytes(c)
           text == Hexadecimal(c, value)
           after == Written(mem, c, text)
<1>1. c \in Conversions /\ BufferSize \in Nat /\ BufferSize >= 64
  BY TextAssumption DEF Conversions
<1>2. /\ t \in Seq(Int) /\ Len(t) = n /\ Bytes(c) \in 1 .. 8
      /\ \A i \in 1 .. n : t[i] # Nul
  BY HexSpellingDenotes
<1>3. n \in 2 .. 16
  <2>1. Bytes(c) \in 1 .. 8
    BY <1>2, Zenon
  <2> QED BY <2>1
<1>4. t = [i \in 1 .. n |-> Quotients(value, 16)[n - i] % 16]
  BY DEF HexSpelling
<1>5. text = [o \in -(n - 1) + 1 .. n - 1 + 1 |->
                 IF o = n - 1 + 1 THEN Nul ELSE HexDigit(c, value, n - 1 - o)]
  BY DEF Hexadecimal
<1> DEFINE m == -(n - 1) + 1
<1>6. n - 1 + 1 = n /\ m \in -14 .. 0
  BY <1>3
<1>7. text = [o \in m .. n |-> IF o = n THEN Nul ELSE HexDigit(c, value, n - 1 - o)]
  BY <1>5, <1>6
<1>8. \A k \in 0 .. n - 1 : HexDigit(c, value, k) = Quotients(value, 16)[k] % 16
  <2> SUFFICES ASSUME NEW k \in 0 .. n - 1
               PROVE  HexDigit(c, value, k) = Quotients(value, 16)[k] % 16
    OBVIOUS
  <2>1. HexDigit(c, value, k) = IF k >= n THEN Junk ELSE Quotients(value, 16)[k] % 16
    BY DEF HexDigit
  <2> HIDE DEF n
  <2>2. ~(k >= n)
    BY <1>3
  <2> QED BY <2>1, <2>2
<1> HIDE DEF t, n, text, m
<1>9. DOMAIN text = m .. n /\ text[n] = Nul
  <2>1. n \in m .. n
    BY <1>3, <1>6
  <2> QED BY <2>1, <1>7
<1>10. \A d \in Conversions \ {c} : \A u : Holds(mem, d, u) => Holds(after, d, u)
  <2>1. DOMAIN text \subseteq -14 .. BufferSize - 1
    BY <1>1, <1>3, <1>6, <1>9
  <2> QED BY <1>1, <2>1, TextStays
<1>11. Holds(after, c, t)
  <2>1. /\ DOMAIN text \subseteq Int /\ Len(t) < 50 /\ 0 \in Nat /\ 0 <= Len(t)
        /\ \A o \in 0 .. Len(t) : o \in DOMAIN text
        /\ text[Len(t)] = Nul
        /\ \A o \in 0 .. 0 - 1 : o \notin DOMAIN text /\ mem[Base(c) + o] = t[o + 1]
    BY <1>2, <1>3, <1>6, <1>9
  <2>2. \A o \in 0 .. Len(t) - 1 : text[o] = t[o + 1]
    <3> SUFFICES ASSUME NEW o \in 0 .. n - 1 PROVE text[o] = t[o + 1]
      BY <1>2, Zenon
    <3>1. /\ o \in m .. n /\ o # n /\ n - 1 - o \in 0 .. n - 1
          /\ o + 1 \in 1 .. n /\ n - (o + 1) = n - 1 - o
      BY <1>3, <1>6
    <3>2. text[o] = HexDigit(c, value, n - 1 - o)
      BY <3>1, <1>7
    <3>3. t[o + 1] = Quotients(value, 16)[n - 1 - o] % 16
      BY <3>1, <1>4
    <3> QED BY <3>1, <3>2, <3>3, <1>8
  <2>3. \A i \in 1 .. Len(t) : t[i] # Nul
    BY <1>2
  <2> HIDE DEF after
  <2> QED BY <1>1, <1>2, <2>1, <2>2, <2>3, TextPlaced DEF after
<1>12. MemoryOK(after)
  BY WrittenKeeps
<1> QED BY <1>10, <1>11, <1>12 DEF text, t


-----------------------------------------------------------------------------
(***************************************************************************)
(* Doubles.                                                                *)
(***************************************************************************)
DoubleSpelling(d, places) == Spelling(Truncated(d)) \o <<Point>> \o Fraction(d, places)

LEMMA RestSteps ==
    ASSUME NEW double
    PROVE  /\ Rest(double)[0] = double
           /\ \A k \in 1 .. MostPlaces : Rest(double)[k] = 10 * Left(Rest(double)[k - 1])
PROOF
<1> DEFINE q == Rest(double)
           loop == [does |-> "cut", start |-> double]
           Loop(f) == f = [k \in 0 .. MostPlaces |-> After(loop, f, k)]
<1>1. \E f : Loop(f)
  <2>1. MostPlaces \in Nat
    BY TextAssumption
  <2> QED BY <2>1, LoopExists
<1>2. q = CHOOSE f : Loop(f)
  BY DEF Rest, After, Left
<1>3. Loop(q)
  <2> HIDE DEF Loop, q
  <2> QED BY <1>1, <1>2, Zenon
<1> HIDE DEF q
<1>4. ASSUME NEW k \in 0 .. MostPlaces PROVE q[k] = After(loop, q, k)
  BY <1>3, Zenon
<1> QED BY <1>4, TextAssumption DEF After, q

LEMMA ScaledSteps ==
    ASSUME NEW value, NEW places
    PROVE  \E x : /\ x[0] = value
                  /\ \A k \in 1 .. MostPlaces : x[k] = 10 * x[k - 1]
                  /\ Scaled(value, places) = x[places]
PROOF
<1> DEFINE loop == [does |-> "scale", start |-> value]
           Loop(f) == f = [k \in 0 .. MostPlaces |-> After(loop, f, k)]
           x == CHOOSE f : Loop(f)
<1>1. \E f : Loop(f)
  <2>1. MostPlaces \in Nat
    BY TextAssumption
  <2> QED BY <2>1, LoopExists
<1>2. Scaled(value, places) = x[places]
  BY DEF Scaled, After
<1>3. Loop(x)
  <2> HIDE DEF Loop
  <2> QED BY <1>1, Zenon
<1> HIDE DEF x
<1>4. ASSUME NEW k \in 0 .. MostPlaces PROVE x[k] = After(loop, x, k)
  BY <1>3, Zenon
<1>5. x[0] = value /\ \A k \in 1 .. MostPlaces : x[k] = 10 * x[k - 1]
  BY <1>4, TextAssumption DEF After
<1> QED BY <1>2, <1>5

\* What one cut leaves of a number, and the digit it takes.
LEMMA OneCut ==
    ASSUME NEW x \in Int
    PROVE  /\ Int32(x) \in Int /\ Left(x) \in Int
           /\ x \in Nat /\ x \div Unit < IntLimit =>
                 /\ Int32(x) = x \div Unit /\ Left(x) = x % Unit
                 /\ Left(x) \in 0 .. Unit - 1
           /\ x \in Nat /\ x < 10 * Unit =>
                 /\ Int32(x) \in 0 .. 9
                 /\ Left(x) \in 0 .. Unit - 1
PROOF
<1>1. Unit \in Nat \ {0} /\ IntLimit \in Nat /\ IntLimit > 9
  BY TextAssumption
<1>2. x \div Unit \in Int
  BY <1>1
<1>3. Int32(x) \in Int /\ Left(x) \in Int
  BY <1>1, <1>2 DEF Int32, Left
<1>4. ASSUME x \in Nat
      PROVE  /\ x \div Unit \in Nat /\ x % Unit \in 0 .. Unit - 1
             /\ x = (x \div Unit) * Unit + (x % Unit)
  BY <1>1, <1>4
<1>5. ASSUME x \in Nat, x \div Unit < IntLimit
      PROVE  /\ Int32(x) = x \div Unit /\ Left(x) = x % Unit /\ Left(x) \in 0 .. Unit - 1
  <2>1. Int32(x) = x \div Unit
    BY <1>5 DEF Int32
  <2>2. Left(x) = x - (x \div Unit) * Unit
    BY <2>1 DEF Left
  <2> DEFINE q == x \div Unit
             r == x % Unit
             z == q * Unit
  <2>3. z \in Int /\ r \in Int /\ x = z + r
    BY <1>1, <1>4, <1>5
  <2> HIDE DEF q, r, z
  <2>4. x - z = r
    BY <2>3
  <2> QED BY <1>4, <1>5, <2>1, <2>2, <2>4 DEF q, r, z
<1>6. ASSUME x \in Nat, x < 10 * Unit PROVE x \div Unit \in 0 .. 9
  <2> DEFINE q == x \div Unit
  <2>1. q \in Nat /\ q * Unit <= x
    BY <1>1, <1>4, <1>6
  <2> HIDE DEF q
  <2>2. ASSUME q >= 10 PROVE FALSE
    <3>1. q * Unit >= 10 * Unit
      BY <1>1, <2>1, <2>2
    <3> QED BY <1>1, <1>6, <2>1, <3>1
  <2> QED BY <2>1, <2>2 DEF q
<1> QED BY <1>1, <1>3, <1>5, <1>6

\* Cutting on and on leaves less than one part of a whole, and takes digits.
LEMMA CutsSmall ==
    ASSUME NEW double \in Nat, double \div Unit < IntLimit
    PROVE  /\ Left(double) = double % Unit
           /\ \A k \in 0 .. MostPlaces : Left(Rest(double)[k]) \in 0 .. Unit - 1
           /\ \A k \in 1 .. MostPlaces : Int32(Rest(double)[k]) \in 0 .. 9
PROOF
<1> DEFINE q == Rest(double)
           Bad == {k \in 0 .. MostPlaces : Left(q[k]) \notin 0 .. Unit - 1}
<1>1. q[0] = double /\ \A k \in 1 .. MostPlaces : q[k] = 10 * Left(q[k - 1])
  BY RestSteps
<1>2. Unit \in Nat \ {0} /\ MostPlaces \in Nat
  BY TextAssumption
<1> HIDE DEF q
<1>3. ASSUME NEW k \in 1 .. MostPlaces, Left(q[k - 1]) \in 0 .. Unit - 1
      PROVE  Int32(q[k]) \in 0 .. 9 /\ Left(q[k]) \in 0 .. Unit - 1
  <2> DEFINE x == Left(q[k - 1])
  <2>1. q[k] = 10 * x
    BY <1>1
  <2>2. x \in 0 .. Unit - 1
    BY <1>3
  <2> HIDE DEF x
  <2>3. 10 * x \in Nat /\ 10 * x < 10 * Unit
    BY <1>2, <2>2
  <2> QED BY <2>1, <2>3, OneCut
<1>4. ASSUME Bad # {} PROVE FALSE
  <2>1. PICK m \in Bad : \A k \in Bad : m <= k
    <3>1. Bad \subseteq Nat
      BY <1>2
    <3> HIDE DEF Bad
    <3> QED BY <1>4, <3>1, Least
  <2>2. m \in 1 .. MostPlaces
    <3>1. Left(q[0]) \in 0 .. Unit - 1
      BY <1>1, OneCut
    <3> QED BY <3>1, <1>2, <2>1
  <2>3. Left(q[m - 1]) \in 0 .. Unit - 1
    <3>1. m - 1 \in 0 .. MostPlaces /\ ~(m <= m - 1)
      BY <1>2, <2>2
    <3> QED BY <3>1, <2>1
  <2> QED BY <1>3, <2>1, <2>2, <2>3
<1>5. \A k \in 0 .. MostPlaces : Left(q[k]) \in 0 .. Unit - 1
  BY <1>4
<1>6. \A k \in 1 .. MostPlaces : Int32(q[k]) \in 0 .. 9
  <2> SUFFICES ASSUME NEW k \in 1 .. MostPlaces PROVE Int32(q[k]) \in 0 .. 9
    OBVIOUS
  <2>1. k - 1 \in 0 .. MostPlaces
    BY <1>2
  <2> QED BY <2>1, <1>3, <1>5
<1>7. Left(double) = double % Unit
  BY OneCut
<1> QED BY <1>5, <1>6, <1>7 DEF q

LEMMA RestIsInteger ==
    ASSUME NEW double \in Int
    PROVE  \A k \in 0 .. MostPlaces : Rest(double)[k] \in Int
PROOF
<1> DEFINE q == Rest(double)
           Bad == {k \in 0 .. MostPlaces : q[k] \notin Int}
<1>1. q[0] = double /\ \A k \in 1 .. MostPlaces : q[k] = 10 * Left(q[k - 1])
  BY RestSteps
<1>2. MostPlaces \in Nat
  BY TextAssumption
<1> HIDE DEF q
<1>3. ASSUME Bad # {} PROVE FALSE
  <2>1. PICK m \in Bad : \A k \in Bad : m <= k
    <3>1. Bad \subseteq Nat
      BY <1>2
    <3> HIDE DEF Bad
    <3> QED BY <1>3, <3>1, Least
  <2>2. m \in 1 .. MostPlaces
    BY <1>1, <1>2, <2>1
  <2>3. q[m - 1] \in Int
    <3>1. m - 1 \in 0 .. MostPlaces /\ ~(m <= m - 1)
      BY <1>2, <2>2
    <3> QED BY <3>1, <2>1
  <2>4. Left(q[m - 1]) \in Int
    BY <2>3, OneCut
  <2>5. q[m] = 10 * Left(q[m - 1])
    BY <1>1, <2>2
  <2> QED BY <2>1, <2>4, <2>5
<1> QED BY <1>3 DEF q

\* Truncating is dividing, without the sign.
LEMMA WholePart ==
    ASSUME NEW d \in Int
    PROVE  Truncated(d) \in Int /\ Abs(Truncated(d)) = Abs(d) \div Unit
PROOF
<1> DEFINE x == Abs(d)
           q == x \div Unit
<1>1. x \in Nat
  BY Signs
<1>2. q \in Nat
  <2> HIDE DEF x
  <2> QED BY <1>1, TextAssumption
<1>3. Truncated(d) = IF d < 0 THEN -q ELSE q
  <2>1. CASE d < 0
    <3>1. x = -d
      BY <2>1 DEF Abs
    <3>2. Truncated(d) = -((-d) \div Unit)
      BY <2>1, Zenon DEF Truncated
    <3> HIDE DEF x
    <3> QED BY <2>1, <3>1, <3>2, Zenon
  <2>2. CASE ~(d < 0)
    BY <2>2 DEF Truncated, Abs
  <2> QED BY <2>1, <2>2
<1> HIDE DEF q
<1>4. Truncated(d) \in Int /\ Abs(Truncated(d)) = q
  <2>1. q = 0 \/ -q < 0
    BY <1>2
  <2>2. Abs(q) = q /\ Abs(-q) = q
    BY <1>2, <2>1 DEF Abs
  <2> QED BY <1>2, <1>3, <2>2
<1> QED BY <1>4 DEF q

LEMMA FractionIs ==
    ASSUME NEW d \in Int, NEW places \in 0 .. MostPlaces
    PROVE  /\ Fraction(d, places) \in Seq(Int) /\ Len(Fraction(d, places)) = places
           /\ \A i \in 1 .. places : Fraction(d, places)[i] # Nul
           /\ Abs(Truncated(d)) < IntLimit => IsFraction(Fraction(d, places), d)
PROOF
<1> DEFINE a == Abs(d)
           q == Rest(a)
           f == Fraction(d, places)
<1>1. a \in Nat
  BY Signs
<1>2. f = [k \in 1 .. places |-> Int32(q[k]) % 256]
  BY DEF Fraction
<1>3. \A k \in 0 .. MostPlaces : q[k] \in Int
  BY <1>1, RestIsInteger
<1>4. MostPlaces \in Nat /\ Unit \in Nat /\ (\A k \in 1 .. places : k \in 1 .. MostPlaces)
      /\ \A k \in 1 .. MostPlaces : k \in 0 .. MostPlaces
  BY TextAssumption
<1> HIDE DEF f
<1>5. ASSUME NEW k \in 1 .. places PROVE f[k] \in Int /\ f[k] # Nul
  <2> DEFINE y == Int32(q[k])
  <2>1. y \in Int
    BY <1>3, <1>4, OneCut
  <2>2. f[k] = y % 256
    BY <1>2
  <2> HIDE DEF y
  <2>3. y % 256 \in 0 .. 255
    BY <2>1
  <2> QED BY <2>2, <2>3 DEF Nul
<1>6. f \in Seq(Int) /\ Len(f) = places
  <2>1. places \in Nat
    BY <1>4
  <2> QED BY <2>1, <1>2, <1>5
<1>7. ASSUME Abs(Truncated(d)) < IntLimit PROVE IsFraction(f, d)
  <2>1. /\ Left(a) = a % Unit
        /\ \A k \in 0 .. MostPlaces : Left(q[k]) \in 0 .. Unit - 1
        /\ \A k \in 1 .. MostPlaces : Int32(q[k]) \in 0 .. 9
    BY <1>1, <1>7, WholePart, CutsSmall
  <2>2. q[0] = a /\ \A k \in 1 .. MostPlaces : q[k] = 10 * Left(q[k - 1])
    BY RestSteps
  <2>3. PICK x : /\ x[0] = a % Unit
                 /\ \A k \in 1 .. MostPlaces : x[k] = 10 * x[k - 1]
                 /\ Scaled(a % Unit, places) = x[places]
    BY ScaledSteps
  <2>4. PICK n : /\ n[0] = 0
                 /\ \A i \in 1 .. Len(f) : n[i] = n[i - 1] * 10 + f[i]
                 /\ Number(f, 10) = n[Len(f)]
    <3>1. Len(f) \in Nat
      BY <1>6, <1>4
    <3> QED BY <3>1, NumberSteps
  <2> HIDE DEF a, q
  <2>5. ASSUME NEW k \in 1 .. places PROVE f[k] = Int32(q[k]) /\ f[k] \in 0 .. 9
    <3> DEFINE y == Int32(q[k])
    <3>1. y \in 0 .. 9
      BY <1>4, <2>1
    <3>2. f[k] = y % 256
      BY <1>2
    <3> HIDE DEF y
    <3>3. y % 256 = y
      BY <3>1
    <3> QED BY <3>1, <3>2, <3>3 DEF y
  <2> DEFINE Exact(k) == n[k] \in Int /\ x[k] \in Int /\ n[k] * Unit + Left(q[k]) = x[k]
             Bad == {k \in 0 .. places : ~Exact(k)}
  <2>6. Exact(0)
    <3>1. Left(q[0]) \in 0 .. Unit - 1 /\ Left(q[0]) = x[0]
      BY <1>4, <2>1, <2>2, <2>3
    <3> DEFINE y == Left(q[0])
    <3>2. y \in Int /\ 0 * Unit + y = y
      BY <1>4, <3>1
    <3> HIDE DEF y
    <3>3. n[0] = 0 /\ x[0] = y
      BY <2>4, <3>1 DEF y
    <3> QED BY <3>2, <3>3 DEF y
  <2>7. ASSUME NEW k \in 1 .. places, Exact(k - 1) PROVE Exact(k)
    <3> DEFINE r == Left(q[k - 1])
               y == f[k]
               m == n[k - 1]
    <3>1. k - 1 \in 0 .. MostPlaces
      BY <1>4
    <3>2. /\ m \in Int /\ r \in Int /\ y \in Int /\ x[k - 1] \in Int
          /\ m * Unit + r = x[k - 1]
      BY <1>4, <2>1, <2>5, <2>7, <3>1
    <3>3. n[k] = m * 10 + y
      BY <1>6, <2>4
    <3>4. x[k] = 10 * x[k - 1]
      BY <1>4, <2>3
    <3>5. Left(q[k]) = 10 * r - y * Unit
      BY <1>4, <2>2, <2>5 DEF Left
    <3> HIDE DEF r, y, m
    <3>6. (m * 10 + y) * Unit + (10 * r - y * Unit) = 10 * x[k - 1]
      BY <1>4, <3>2
    <3>7. n[k] \in Int /\ x[k] \in Int
      BY <3>2, <3>3, <3>4
    <3> QED BY <3>3, <3>4, <3>5, <3>6, <3>7
  <2> HIDE DEF Exact
  <2>8. ASSUME Bad # {} PROVE FALSE
    <3>1. PICK m \in Bad : \A k \in Bad : m <= k
      <4>1. Bad \subseteq Nat
        BY <1>4
      <4> HIDE DEF Bad
      <4> QED BY <2>8, <4>1, Least
    <3>2. m \in 1 .. places
      BY <1>4, <2>6, <3>1
    <3>3. Exact(m - 1)
      <4>1. m - 1 \in 0 .. places /\ ~(m <= m - 1)
        BY <1>4, <3>2
      <4> QED BY <4>1, <3>1
    <3> QED BY <2>7, <3>1, <3>2, <3>3
  <2>9. Exact(places)
    <3>1. places \in 0 .. places
      BY <1>4
    <3> QED BY <3>1, <2>8
  <2> DEFINE N == n[places]
             S == x[places]
             r == Left(q[places])
  <2>10. N \in Int /\ S \in Int /\ N * Unit + r = S /\ r \in 0 .. Unit - 1
    <3>1. places \in 0 .. MostPlaces
      BY <1>4
    <3> QED BY <3>1, <2>1, <2>9 DEF Exact
  <2>11. Number(f, 10) = N /\ Scaled(a % Unit, Len(f)) = S
    BY <1>6, <2>3, <2>4
  <2> HIDE DEF N, S, r
  <2>12. N * Unit <= S /\ S < (N + 1) * Unit
    BY <1>4, <2>10
  <2>13. \A i \in DOMAIN f : f[i] \in 0 .. 9
    <3>1. DOMAIN f = 1 .. places
      BY <1>2
    <3> QED BY <3>1, <2>5
  <2> QED BY <2>11, <2>12, <2>13 DEF IsFraction, a
<1> QED BY <1>5, <1>6, <1>7 DEF f

LEMMA DoubleSpellingDenotes ==
    ASSUME NEW d \in Int, NEW places \in 0 .. MostPlaces,
           Fits(Abs(Truncated(d)), 10, MostDigits)
    PROVE  LET t == DoubleSpelling(d, places)
           IN  /\ t \in Seq(Int) /\ Len(t) < 50
               /\ \A i \in 1 .. Len(t) : t[i] # Nul
               /\ IsDouble(t, d, places)
PROOF
<1> DEFINE v == Truncated(d)
           u == Spelling(v)
           n == Len(u)
           f == Fraction(d, places)
           p == u \o <<Point>>
           t == DoubleSpelling(d, places)
<1>0. places \in 0 .. 20
  BY TextAssumption
<1>1. v \in Int
  BY WholePart
<1>2. /\ u \in Seq(Int) /\ n \in 1 .. 21
      /\ \A i \in 1 .. n : u[i] # Nul
      /\ IsDecimal(u, v)
  <2>1. /\ u \in Seq(Int) /\ Length(Abs(v)) \in 1 .. 20 /\ n = Sign(v) + Length(Abs(v))
        /\ \A i \in 1 .. n : u[i] # Nul
        /\ IsDecimal(u, v)
    BY <1>1, SpellingDenotes
  <2> HIDE DEF u, v, n
  <2>2. Sign(v) \in {0, 1}
    BY <1>1, Signs
  <2>3. n \in 1 .. 21
    <3> DEFINE a == Sign(v)
               b == Length(Abs(v))
    <3>1. a \in {0, 1} /\ b \in 1 .. 20 /\ n = a + b
      BY <2>1, <2>2
    <3> HIDE DEF a, b
    <3> QED BY <3>1
  <2> QED BY <2>1, <2>3
<1>3. /\ f \in Seq(Int) /\ Len(f) = places
      /\ \A i \in 1 .. places : f[i] # Nul
      /\ Abs(v) < IntLimit => IsFraction(f, d)
  BY FractionIs
<1>4. t = p \o f
  BY DEF DoubleSpelling
<1> HIDE DEF v, u, f, t
<1>5. /\ p \in Seq(Int) /\ Len(p) = n + 1
      /\ \A i \in 1 .. n : p[i] = u[i]
      /\ p[n + 1] = Point
  <2>1. <<Point>> \in Seq(Int) /\ Len(<<Point>>) = 1 /\ <<Point>>[1] = Point
    BY DEF Point
  <2>2. /\ p \in Seq(Int) /\ Len(p) = Len(u) + Len(<<Point>>)
        /\ \A i \in 1 .. Len(u) + Len(<<Point>>) : p[i] =
              IF i <= Len(u) THEN u[i] ELSE <<Point>>[i - Len(u)]
    BY <2>1, <1>2, ConcatProperties
  <2> HIDE DEF p
  <2>3. \A i \in 1 .. n + 1 : p[i] = IF i <= n THEN u[i] ELSE <<Point>>[i - n]
    BY <2>1, <2>2, Zenon
  <2>4. Len(p) = n + 1
    BY <2>1, <2>2, Zenon
  <2> HIDE DEF n
  <2>5. \A i \in 1 .. n : i \in 1 .. n + 1 /\ i <= n
    BY <1>2
  <2>6. n + 1 \in 1 .. n + 1 /\ ~(n + 1 <= n) /\ n + 1 - n = 1
    BY <1>2
  <2> QED BY <2>1, <2>2, <2>3, <2>4, <2>5, <2>6
<1> HIDE DEF p
<1>6. /\ t \in Seq(Int) /\ Len(t) = n + 1 + places
      /\ \A i \in 1 .. n + 1 : t[i] = p[i]
      /\ \A i \in n + 2 .. n + 1 + places : t[i] = f[i - (n + 1)]
  <2>1. /\ t \in Seq(Int) /\ Len(t) = Len(p) + Len(f)
        /\ \A i \in 1 .. Len(p) + Len(f) : t[i] =
              IF i <= Len(p) THEN p[i] ELSE f[i - Len(p)]
    BY <1>3, <1>4, <1>5, ConcatProperties
  <2>2. /\ Len(t) = n + 1 + places
        /\ \A i \in 1 .. n + 1 + places : t[i] = IF i <= n + 1 THEN p[i] ELSE f[i - (n + 1)]
    BY <2>1, <1>3, <1>5, Zenon
  <2> HIDE DEF n
  <2>3. \A i \in 1 .. n + 1 : i \in 1 .. n + 1 + places /\ i <= n + 1
    BY <1>2
  <2>4. \A i \in n + 2 .. n + 1 + places : i \in 1 .. n + 1 + places /\ ~(i <= n + 1)
    BY <1>2
  <2> QED BY <2>1, <2>2, <2>3, <2>4
<1> DEFINE m == Len(t)
<1>7. m = n + 1 + places /\ m - places = n + 1 /\ m < 50 /\ n + 1 - 1 = n
  <2>1. m = n + 1 + places
    BY <1>6
  <2> HIDE DEF n, m
  <2> QED BY <2>1, <1>0, <1>2
<1>8. \A i \in 1 .. n : t[i] = u[i]
  <2>1. \A i \in 1 .. n : i \in 1 .. n + 1
    <3> HIDE DEF n
    <3> QED BY <1>2
  <2> QED BY <2>1, <1>5, <1>6
<1>9. t[n + 1] = Point
  <2>1. n + 1 \in 1 .. n + 1
    <3> HIDE DEF n
    <3> QED BY <1>2
  <2> QED BY <2>1, <1>5, <1>6
<1>10. \A i \in n + 2 .. m : t[i] = f[i - (n + 1)] /\ i - (n + 1) \in 1 .. places
  <2>1. \A i \in n + 2 .. m : i \in n + 2 .. n + 1 + places /\ i - (n + 1) \in 1 .. places
    <3> HIDE DEF n, m
    <3> QED BY <1>2, <1>7
  <2> QED BY <2>1, <1>6
<1> HIDE DEF m, n
<1>11. \A i \in 1 .. m : t[i] # Nul
  <2> SUFFICES ASSUME NEW i \in 1 .. m PROVE t[i] # Nul
    OBVIOUS
  <2>1. CASE i <= n
    <3>1. i \in 1 .. n
      BY <1>2, <2>1
    <3> QED BY <3>1, <1>2, <1>8
  <2>2. CASE i = n + 1
    BY <2>2, <1>9 DEF Point, Nul
  <2>3. CASE i > n + 1
    <3>1. i \in n + 2 .. m
      BY <1>2, <1>7, <2>3
    <3> QED BY <3>1, <1>3, <1>10
  <2> QED BY <1>0, <1>2, <1>7, <2>1, <2>2, <2>3
<1>12. SubSeq(t, 1, n) = u
  <2>1. \A i \in 1 .. n : t[i] \in Int
    <3>1. \A i \in 1 .. n : u[i] \in Int
      BY <1>2 DEF n
    <3> QED BY <3>1, <1>8
  <2>2. 1 <= n /\ n - 1 + 1 = n /\ n \in Int /\ 1 \in Int /\ (\A i \in 1 .. n : 1 + i - 1 = i)
    BY <1>2
  <2>3. /\ SubSeq(t, 1, n) \in Seq(Int) /\ Len(SubSeq(t, 1, n)) = n
        /\ \A i \in 1 .. n : SubSeq(t, 1, n)[i] = t[i]
    <3>1. /\ SubSeq(t, 1, n) \in Seq(Int)
          /\ Len(SubSeq(t, 1, n)) = IF 1 <= n THEN n - 1 + 1 ELSE 0
          /\ \A i \in 1 .. n - 1 + 1 : SubSeq(t, 1, n)[i] = t[1 + i - 1]
      BY <2>1, <2>2, SubSeqProperties
    <3> QED BY <3>1, <2>2
  <2>4. Len(u) = n
    BY DEF n
  <2> QED BY <2>3, <2>4, <1>2, <1>8, SeqEqual
<1>13. SubSeq(t, n + 2, m) = f
  <2> DEFINE g == SubSeq(t, n + 2, m)
  <2>1. /\ n + 2 \in Int /\ m \in Int
        /\ (IF n + 2 <= m THEN m - (n + 2) + 1 ELSE 0) = places
        /\ m - (n + 2) + 1 = places
        /\ \A i \in 1 .. places : n + 2 + i - 1 \in n + 2 .. m /\ n + 2 + i - 1 - (n + 1) = i
    BY <1>0, <1>2, <1>7
  <2>2. \A i \in n + 2 .. m : t[i] \in Int
    BY <1>3, <1>10
  <2>3. /\ g \in Seq(Int)
        /\ Len(g) = IF n + 2 <= m THEN m - (n + 2) + 1 ELSE 0
        /\ \A i \in 1 .. m - (n + 2) + 1 : g[i] = t[n + 2 + i - 1]
    BY <2>1, <2>2, SubSeqProperties
  <2> HIDE DEF g
  <2>4. g \in Seq(Int) /\ Len(g) = places /\ \A i \in 1 .. places : g[i] = t[n + 2 + i - 1]
    BY <2>1, <2>3
  <2>5. \A i \in 1 .. places : g[i] = f[i]
    <3> SUFFICES ASSUME NEW i \in 1 .. places PROVE g[i] = f[i]
      OBVIOUS
    <3> DEFINE j == n + 2 + i - 1
    <3>1. j \in n + 2 .. m /\ j - (n + 1) = i
      BY <1>0, <1>2, <1>7
    <3>2. g[i] = t[j]
      BY <2>4
    <3> HIDE DEF j
    <3>3. t[j] = f[j - (n + 1)]
      BY <3>1, <1>10
    <3> QED BY <3>1, <3>2, <3>3
  <2>6. g = f
    BY <2>4, <2>5, <1>3, SeqEqual
  <2> QED BY <2>6 DEF g
<1>14. IsDouble(t, d, places)
  <2>1. n + 1 > 1 /\ n + 1 + 1 = n + 2
    BY <1>2
  <2>2. Len(t) - places = n + 1 /\ Len(t) = m
    BY <1>7 DEF m
  <2> DEFINE point == Len(t) - places
  <2>3. point = n + 1
    BY <2>2
  <2> HIDE DEF point
  <2>4. /\ point > 1 /\ t[point] = Point
        /\ IsDecimal(SubSeq(t, 1, point - 1), Truncated(d))
    <3>1. point > 1 /\ t[point] = Point
      BY <2>1, <2>3, <1>9
    <3>2. point - 1 = n /\ n + 1 - 1 = n
      BY <1>2, <2>3
    <3>3. IsDecimal(SubSeq(t, 1, n), Truncated(d))
      BY <1>2, <1>12, Zenon DEF v
    <3>4. IsDecimal(SubSeq(t, 1, point - 1), Truncated(d))
      BY <3>2, <3>3, Zenon
    <3> QED BY <3>1, <3>4
  <2>5. Abs(Truncated(d)) < IntLimit => IsFraction(SubSeq(t, point + 1, Len(t)), d)
    <3>1. SubSeq(t, point + 1, Len(t)) = f
      BY <2>1, <2>2, <2>3, <1>13, Zenon
    <3> QED BY <3>1, <1>3 DEF v
  <2> QED BY <2>4, <2>5, Zenon DEF IsDouble, point
<1> QED BY <1>6, <1>7, <1>11, <1>14 DEF t, m


\* A double: the integer part is converted in its own buffer and its text
\* copied, whatever it is.
LEMMA DoubleWritten ==
    ASSUME NEW mem, MemoryOK(mem), NEW h \in Int, Fits(Abs(Truncated(h)), 10, MostDigits),
           NEW places \in 0 .. MostPlaces,
           NEW text,
           text = Found(mem, "int") \o <<Point>> \o Fraction(h, places) \o <<Nul>>
    PROVE  LET after == Written(mem, "double", [o \in 0 .. Len(text) - 1 |-> text[o + 1]])
           IN  /\ MemoryOK(after)
               /\ (\E z \in 0 .. BufferSize - 1 : mem[Base("int") + z] = Nul)
                  /\ Len(text) <= BufferSize
                  => \A d \in Conversions \ {"double"} :
                        \A t : Holds(mem, d, t) => Holds(after, d, t)
               /\ Holds(mem, "int", Spelling(Truncated(h)))
                  => Holds(after, "double", DoubleSpelling(h, places))
PROOF
<1> DEFINE cells == [o \in 0 .. Len(text) - 1 |-> text[o + 1]]
           after == Written(mem, "double", cells)
           f == Fraction(h, places)
<1>1. /\ "int" \in Conversions /\ "double" \in Conversions
      /\ BufferSize \in Nat /\ BufferSize >= 64
  BY TextAssumption DEF Conversions, Decimals
<1>2. MemoryOK(after)
  BY WrittenKeeps
<1>3. f \in Seq(Int)
  BY FractionIs
<1>4. ASSUME NEW z \in 0 .. BufferSize - 1, mem[Base("int") + z] = Nul, Len(text) <= BufferSize,
             NEW d \in Conversions \ {"double"}, NEW t, Holds(mem, d, t)
      PROVE  Holds(after, d, t)
  <2> DEFINE u == Found(mem, "int")
  <2>1. PICK S : u \in Seq(S)
    BY <1>1, <1>4, SomethingFound
  <2> DEFINE T == S \cup Int
  <2>2. /\ u \in Seq(T) /\ <<Point>> \in Seq(T) /\ f \in Seq(T) /\ <<Nul>> \in Seq(T)
    <3>1. S \subseteq T /\ Int \subseteq T /\ Point \in T /\ Nul \in T
      BY DEF Point, Nul
    <3> HIDE DEF T, u, f
    <3> QED BY <2>1, <3>1, <1>3
  <2> HIDE DEF T, u, f
  <2>3. u \o <<Point>> \in Seq(T)
    BY <2>2, ConcatProperties
  <2>4. u \o <<Point>> \o f \in Seq(T)
    BY <2>2, <2>3, ConcatProperties
  <2>5. u \o <<Point>> \o f \o <<Nul>> \in Seq(T)
    BY <2>2, <2>4, ConcatProperties
  <2>6. Len(text) \in Nat
    BY <2>5, LenProperties DEF u, f
  <2>7. DOMAIN cells \subseteq -14 .. BufferSize - 1
    <3> DEFINE n == Len(text)
    <3>1. DOMAIN cells = 0 .. n - 1
      OBVIOUS
    <3>2. n \in Nat /\ n <= BufferSize
      BY <2>6, <1>4
    <3> HIDE DEF n, cells
    <3> QED BY <3>1, <3>2, <1>1
  <2> HIDE DEF cells
  <2> QED BY <1>1, <1>4, <2>7, TextStays
<1>5. ASSUME Holds(mem, "int", Spelling(Truncated(h)))
      PROVE  Holds(after, "double", DoubleSpelling(h, places))
  <2> DEFINE t == DoubleSpelling(h, places)
             n == Len(t)
  <2>1. t \in Seq(Int) /\ n < 50 /\ \A i \in 1 .. n : t[i] # Nul
    BY DoubleSpellingDenotes
  <2>2. Found(mem, "int") = Spelling(Truncated(h))
    BY <1>1, <1>5, TextFound
  <2>3. text = t \o <<Nul>>
    BY <2>2 DEF DoubleSpelling
  <2> HIDE DEF t
  <2>4. n \in Nat
    BY <2>1, LenProperties
  <2>5. /\ Len(text) = n + 1
        /\ \A i \in 1 .. n : text[i] = t[i]
        /\ text[n + 1] = Nul
    <3>1. <<Nul>> \in Seq(Int) /\ Len(<<Nul>>) = 1 /\ <<Nul>>[1] = Nul
      BY DEF Nul
    <3>2. /\ Len(text) = Len(t) + Len(<<Nul>>)
          /\ \A i \in 1 .. Len(t) + Len(<<Nul>>) : text[i] =
                IF i <= Len(t) THEN t[i] ELSE <<Nul>>[i - Len(t)]
      <4>1. /\ Len(t \o <<Nul>>) = Len(t) + Len(<<Nul>>)
            /\ \A i \in 1 .. Len(t) + Len(<<Nul>>) : (t \o <<Nul>>)[i] =
                  IF i <= Len(t) THEN t[i] ELSE <<Nul>>[i - Len(t)]
        BY <3>1, <2>1, ConcatProperties
      <4> QED BY <4>1, <2>3, Zenon
    <3>3. \A i \in 1 .. n + 1 : text[i] = IF i <= n THEN t[i] ELSE <<Nul>>[i - n]
      BY <3>1, <3>2, Zenon
    <3>4. Len(text) = n + 1
      BY <3>1, <3>2, Zenon
    <3> HIDE DEF n
    <3>5. /\ \A i \in 1 .. n : i \in 1 .. n + 1 /\ i <= n
          /\ n + 1 \in 1 .. n + 1 /\ ~(n + 1 <= n) /\ n + 1 - n = 1
      BY <2>4
    <3> QED BY <3>1, <3>3, <3>4, <3>5
  <2>6. cells = [o \in 0 .. n |-> text[o + 1]]
    <3>1. Len(text) - 1 = n
      <4> HIDE DEF n
      <4> QED BY <2>4, <2>5
    <3> QED BY <3>1, Zenon
  <2> HIDE DEF cells, n
  <2>7. /\ DOMAIN cells \subseteq Int /\ 0 \in Nat /\ 0 <= n
        /\ \A o \in 0 .. n : o \in DOMAIN cells
        /\ cells[n] = Nul
        /\ \A o \in 0 .. 0 - 1 : o \notin DOMAIN cells /\ mem[Base("double") + o] = t[o + 1]
    <3>1. n \in 0 .. n
      BY <2>4
    <3> QED BY <3>1, <2>4, <2>5, <2>6
  <2>8. \A o \in 0 .. n - 1 : cells[o] = t[o + 1]
    <3> SUFFICES ASSUME NEW o \in 0 .. n - 1 PROVE cells[o] = t[o + 1]
      OBVIOUS
    <3>1. o \in 0 .. n /\ o + 1 \in 1 .. n
      BY <2>4
    <3> QED BY <3>1, <2>5, <2>6
  <2> HIDE DEF after
  <2> QED BY <1>1, <2>1, <2>7, <2>8, TextPlaced DEF n, t, after
<1> QED BY <1>2, <1>4, <1>5 DEF cells

-----------------------------------------------------------------------------
(***************************************************************************)
(* Every text that is due is in its buffer.                                *)
(***************************************************************************)
Owed(mem, due) ==
    \A c \in Conversions :
        due[c] # None => \E t : Holds(mem, c, t) /\ Denotes(c, t, due[c])
TextInv == MemoryOK(memory) /\ DOMAIN promised = Conversions /\ Owed(memory, promised)

\* Other texts stay, and the new one is there if it is due.
LEMMA StillOwed ==
    ASSUME NEW mem, NEW due, DOMAIN due = Conversions, Owed(mem, due),
           NEW after, NEW c \in Conversions,
           \A d \in Conversions \ {c} : \A t : Holds(mem, d, t) => Holds(after, d, t),
           NEW x, x # None => \E t : Holds(after, c, t) /\ Denotes(c, t, x)
    PROVE  /\ DOMAIN [due EXCEPT ![c] = x] = Conversions
           /\ Owed(after, [due EXCEPT ![c] = x])
PROOF
<1> DEFINE now == [due EXCEPT ![c] = x]
<1>1. DOMAIN now = Conversions /\ now[c] = x /\ \A d \in Conversions \ {c} : now[d] = due[d]
  OBVIOUS
<1> HIDE DEF now
<1>2. ASSUME NEW d \in Conversions, now[d] # None
      PROVE  \E t : Holds(after, d, t) /\ Denotes(d, t, now[d])
  <2>1. CASE d = c
    BY <1>1, <1>2, <2>1
  <2>2. CASE d # c
    <3>1. now[d] = due[d]
      BY <1>1, <2>2
    <3>2. PICK t : Holds(mem, d, t) /\ Denotes(d, t, due[d])
      BY <1>2, <3>1 DEF Owed
    <3> QED BY <2>2, <3>1, <3>2
  <2> QED BY <2>1, <2>2
<1> QED BY <1>1, <1>2 DEF Owed, now

\* The same for a conversion to decimal, which may leave nothing due.
LEMMA DueOwed ==
    ASSUME NEW mem, NEW due, DOMAIN due = Conversions, Owed(mem, due),
           NEW after, NEW c \in Conversions, NEW tame \in BOOLEAN, NEW garbage,
           tame => \A d \in Conversions \ {c} : \A t : Holds(mem, d, t) => Holds(after, d, t),
           NEW x, garbage = 0 => \E t : Holds(after, c, t) /\ Denotes(c, t, x)
    PROVE  /\ DOMAIN Due(due, tame, c, x, garbage) = Conversions
           /\ Owed(after, Due(due, tame, c, x, garbage))
PROOF
<1>1. CASE tame
  <2> DEFINE y == IF garbage = 0 THEN x ELSE None
  <2>1. Due(due, tame, c, x, garbage) = [due EXCEPT ![c] = y]
    BY <1>1 DEF Due
  <2>2. y # None => \E t : Holds(after, c, t) /\ Denotes(c, t, y)
    OBVIOUS
  <2> HIDE DEF y
  <2>3. \A d \in Conversions \ {c} : \A t : Holds(mem, d, t) => Holds(after, d, t)
    BY <1>1
  <2>4. /\ DOMAIN [due EXCEPT ![c] = y] = Conversions
        /\ Owed(after, [due EXCEPT ![c] = y])
    BY <2>2, <2>3, StillOwed
  <2> QED BY <2>1, <2>4, Zenon
<1>2. CASE ~tame
  <2>1. Due(due, tame, c, x, garbage) = [d \in Conversions |-> None]
    BY <1>2 DEF Due
  <2> QED BY <2>1 DEF Owed
<1> QED BY <1>1, <1>2

LEMMA TextInit == Init => TextInv
PROOF
<1>1. MemoryOK([a \in 0 .. BufferSize * Len(Layout) - 1 |-> Nul])
  BY DEF MemoryOK, Cells
<1>2. Owed(memory, [c \in Conversions |-> None])
  BY DEF Owed
<1> QED BY <1>1, <1>2 DEF Init, TextInv


LEMMA UnsignedStep ==
    ASSUME TextInv, NEW v \in Naturals64, NEW garbage \in Garbage, ToStringUnsigned(v, garbage)
    PROVE  TextInv'
PROOF
<1> DEFINE tame == Tame(Abs(v), Sign(v), garbage)
<1>1. /\ v \in Int /\ Abs(v) = v /\ Sign(v) = 0 /\ Fits(Abs(v), 10, MostDigits)
      /\ garbage \in 0 .. 255
  <2>1. v \in Nat /\ Fits(v, 10, MostDigits) /\ garbage \in 0 .. 255
    BY TextAssumption
  <2>2. Abs(v) = v /\ Sign(v) = 0
    BY <2>1 DEF Abs, Sign
  <2> QED BY <2>1, <2>2
<1>2. /\ "uint" \in Decimals /\ "uint" \in Conversions
      /\ MemoryOK(memory) /\ DOMAIN promised = Conversions /\ Owed(memory, promised)
  BY DEF Decimals, Conversions, TextInv
<1>3. /\ memory' = Written(memory, "uint", Decimal(Abs(v), Sign(v), garbage))
      /\ promised' = Due(promised, tame, "uint", Text(v, 0), garbage)
  BY <1>1 DEF ToStringUnsigned
<1>4. /\ MemoryOK(memory')
      /\ tame => \A d \in Conversions \ {"uint"} :
                    \A t : Holds(memory, d, t) => Holds(memory', d, t)
      /\ garbage = 0 => Holds(memory', "uint", Spelling(v))
  <2>1. v < 0 => memory[Base("uint")] = Minus
    BY <1>1 DEF Abs, Sign
  <2> HIDE DEF tame
  <2> QED BY <1>1, <1>2, <1>3, <2>1, DecimalWritten DEF tame
<1>5. Denotes("uint", Spelling(v), Text(v, 0))
  BY <1>1, SpellingDenotes DEF Denotes, Text
<1>6. tame \in BOOLEAN
  BY DEF Tame
<1> HIDE DEF tame
<1>7. /\ DOMAIN Due(promised, tame, "uint", Text(v, 0), garbage) = Conversions
      /\ Owed(memory', Due(promised, tame, "uint", Text(v, 0), garbage))
  BY <1>2, <1>4, <1>5, <1>6, DueOwed
<1> QED BY <1>3, <1>4, <1>7 DEF TextInv, MemoryOK, Owed, Holds

\* An integer, whether it is asked for or the whole part of a double.
LEMMA SignedOwed ==
    ASSUME TextInv, NEW v \in Int, Fits(Abs(v), 10, MostDigits), NEW garbage \in 0 .. 255
    PROVE  /\ DOMAIN SignedDue(v, garbage) = Conversions
           /\ Owed(SignedMemory(v, garbage), SignedDue(v, garbage))
PROOF
<1> DEFINE tame == Tame(Abs(v), Sign(v), garbage)
           after == SignedMemory(v, garbage)
<1>1. /\ "int" \in Conversions
      /\ MemoryOK(memory) /\ DOMAIN promised = Conversions /\ Owed(memory, promised)
  BY DEF Decimals, Conversions, TextInv
<1>2. /\ tame => \A d \in Conversions \ {"int"} :
                    \A t : Holds(memory, d, t) => Holds(after, d, t)
      /\ garbage = 0 => Holds(after, "int", Spelling(v))
  BY <1>1, SignedWritten
<1>3. Denotes("int", Spelling(v), Text(v, 0))
  BY SpellingDenotes DEF Denotes, Text
<1>4. tame \in BOOLEAN
  BY DEF Tame
<1>5. SignedDue(v, garbage) = Due(promised, tame, "int", Text(v, 0), garbage)
  BY DEF SignedDue
<1> HIDE DEF tame, after
<1>6. /\ DOMAIN Due(promised, tame, "int", Text(v, 0), garbage) = Conversions
      /\ Owed(after, Due(promised, tame, "int", Text(v, 0), garbage))
  BY <1>1, <1>2, <1>3, <1>4, DueOwed
<1> QED BY <1>5, <1>6 DEF after

LEMMA SignedStep ==
    ASSUME TextInv, NEW v \in Integers64, NEW garbage \in Garbage, ToStringSigned(v, garbage)
    PROVE  TextInv'
PROOF
<1>1. v \in Int /\ Fits(Abs(v), 10, MostDigits) /\ garbage \in 0 .. 255
  BY TextAssumption
<1>2. memory' = SignedMemory(v, garbage) /\ promised' = SignedDue(v, garbage)
  BY DEF ToStringSigned
<1>3. MemoryOK(SignedMemory(v, garbage))
  BY <1>1, SignedWritten DEF TextInv
<1>4. /\ DOMAIN SignedDue(v, garbage) = Conversions
      /\ Owed(SignedMemory(v, garbage), SignedDue(v, garbage))
  BY <1>1, SignedOwed
<1> QED BY <1>2, <1>3, <1>4 DEF TextInv, MemoryOK, Owed, Holds

LEMMA HexStep ==
    ASSUME TextInv, NEW c \in Hexadecimals, NEW v \in HexValues, Fits(v, 16, 2 * Bytes(c)),
           ToHstring(c, v)
    PROVE  TextInv'
PROOF
<1> DEFINE after == Written(memory, c, Hexadecimal(c, v))
<1>1. /\ v \in Nat /\ c \in Conversions
      /\ MemoryOK(memory) /\ DOMAIN promised = Conversions /\ Owed(memory, promised)
  BY TextAssumption DEF Conversions, TextInv
<1>2. memory' = after /\ promised' = [promised EXCEPT ![c] = Text(v, 0)]
  BY DEF ToHstring
<1>3. /\ MemoryOK(after)
      /\ \A d \in Conversions \ {c} : \A t : Holds(memory, d, t) => Holds(after, d, t)
      /\ Holds(after, c, HexSpelling(c, v))
  BY <1>1, HexWritten
<1>4. Denotes(c, HexSpelling(c, v), Text(v, 0))
  BY <1>1, HexSpellingDenotes
<1> HIDE DEF after
<1>5. /\ DOMAIN [promised EXCEPT ![c] = Text(v, 0)] = Conversions
      /\ Owed(after, [promised EXCEPT ![c] = Text(v, 0)])
  BY <1>1, <1>3, <1>4, StillOwed
<1> QED BY <1>2, <1>3, <1>5 DEF TextInv, MemoryOK, Owed, Holds

LEMMA DoubleStep ==
    ASSUME TextInv, NEW h \in Doubles, NEW decimal_places \in Places,
           NEW garbage \in Garbage, ToStringDouble(h, decimal_places, garbage)
    PROVE  TextInv'
PROOF
<1> DEFINE v == Truncated(h)
           places == IF decimal_places > MostPlaces THEN MostPlaces ELSE decimal_places
           mem == SignedMemory(v, garbage)
           due == SignedDue(v, garbage)
           text == Found(mem, "int") \o <<Point>> \o Fraction(h, places) \o <<Nul>>
           tame == Tame(Abs(v), Sign(v), garbage) /\ Len(text) <= BufferSize
           after == Written(mem, "double", [o \in 0 .. Len(text) - 1 |-> text[o + 1]])
<1>1. /\ h \in Int /\ Fits(Abs(v), 10, MostDigits) /\ garbage \in 0 .. 255
      /\ places \in 0 .. MostPlaces
  BY TextAssumption
<1>2. v \in Int
  BY <1>1, WholePart
<1>3. /\ memory' = after
      /\ promised' = Due(due, tame, "double", Text(h, places), garbage)
  BY DEF ToStringDouble
<1>4. "double" \in Conversions
  BY DEF Decimals, Conversions
<1>5. DOMAIN due = Conversions /\ Owed(mem, due)
  BY <1>1, <1>2, SignedOwed
<1>6. /\ MemoryOK(mem)
      /\ Tame(Abs(v), Sign(v), garbage) =>
            \E z \in 0 .. BufferSize - 1 : mem[Base("int") + z] = Nul
      /\ garbage = 0 => Holds(mem, "int", Spelling(v))
  BY <1>1, <1>2, SignedWritten DEF TextInv
<1>7. Denotes("double", DoubleSpelling(h, places), Text(h, places))
  <2>1. IsDouble(DoubleSpelling(h, places), h, places)
    BY <1>1, DoubleSpellingDenotes
  <2> HIDE DEF places
  <2> QED BY <2>1 DEF Denotes, Text
<1> HIDE DEF mem, due, places
<1>8. /\ MemoryOK(after)
      /\ (\E z \in 0 .. BufferSize - 1 : mem[Base("int") + z] = Nul)
         /\ Len(text) <= BufferSize
         => \A d \in Conversions \ {"double"} :
               \A t : Holds(mem, d, t) => Holds(after, d, t)
      /\ Holds(mem, "int", Spelling(v)) => Holds(after, "double", DoubleSpelling(h, places))
  <2> HIDE DEF text
  <2> QED BY <1>1, <1>6, DoubleWritten DEF text
<1>9. tame \in BOOLEAN
  BY DEF Tame
<1> HIDE DEF text, after
<1>10. tame => \A d \in Conversions \ {"double"} :
                  \A t : Holds(mem, d, t) => Holds(after, d, t)
  BY <1>6, <1>8
<1>11. garbage = 0 => \E t : Holds(after, "double", t) /\ Denotes("double", t, Text(h, places))
  BY <1>6, <1>7, <1>8
<1> HIDE DEF tame
<1>12. /\ DOMAIN Due(due, tame, "double", Text(h, places), garbage) = Conversions
       /\ Owed(after, Due(due, tame, "double", Text(h, places), garbage))
  <2> DEFINE x == Text(h, places)
  <2>1. garbage = 0 => \E t : Holds(after, "double", t) /\ Denotes("double", t, x)
    BY <1>11
  <2> HIDE DEF x
  <2>2. /\ DOMAIN Due(due, tame, "double", x, garbage) = Conversions
        /\ Owed(after, Due(due, tame, "double", x, garbage))
    BY <1>4, <1>5, <1>9, <1>10, <2>1, DueOwed
  <2> QED BY <2>2 DEF x
<1> QED BY <1>3, <1>8, <1>12 DEF TextInv, MemoryOK, Owed, Holds

LEMMA TextStep == TextInv /\ [Next]_vars => TextInv'
PROOF
<1> SUFFICES ASSUME TextInv, [Next]_vars PROVE TextInv'
  OBVIOUS
<1>1. CASE UNCHANGED vars
  BY <1>1 DEF vars, TextInv, MemoryOK, Owed, Holds
<1>2. CASE \E g \in Garbage, v \in Naturals64 : ToStringUnsigned(v, g)
  BY <1>2, UnsignedStep
<1>3. CASE \E g \in Garbage, v \in Integers64 : ToStringSigned(v, g)
  BY <1>3, SignedStep
<1>4. CASE \E g \in Garbage, d \in Doubles, p \in Places : ToStringDouble(d, p, g)
  BY <1>4, DoubleStep
<1>5. CASE \E c \in Hexadecimals, v \in HexValues : Fits(v, 16, 2 * Bytes(c)) /\ ToHstring(c, v)
  BY <1>5, HexStep
<1> QED BY <1>1, <1>2, <1>3, <1>4, <1>5 DEF Next

\* A text that is due is found where the caller was told it is, and denotes
\* the number that was converted: none of the conversions of cstr.cpp writes
\* into the text of another, those to hexadecimal not even with the digits
\* they write in front of their own buffers, in whatever order these lie.
THEOREM TextsStayIntact == Spec => []TextsIntact
PROOF
<1>1. TextInv => TextsIntact
  <2> SUFFICES ASSUME TextInv, NEW c \in Conversions, promised[c] # None
               PROVE  Denotes(c, Found(memory, c), promised[c])
    BY DEF TextsIntact
  <2>1. PICK t : Holds(memory, c, t) /\ Denotes(c, t, promised[c])
    BY DEF TextInv, Owed
  <2> QED BY <2>1, TextFound
<1> QED BY <1>1, TextInit, TextStep, PTL DEF Spec


=============================================================================
