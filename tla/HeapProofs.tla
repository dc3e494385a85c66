------------------------------ MODULE HeapProofs ------------------------------
(***************************************************************************)
(* Theorems about the kernel heap, for every size of its pages and headers *)
(* and every set of sizes asked for: its types for every client, and the   *)
(* soundness of the list, the separation of the blocks and the bound on    *)
(* the expansions for careful clients, which all of the kernel's code is.  *)
(***************************************************************************)
EXTENDS Heap, FiniteSetTheorems, WellFoundedInduction, TLAPS

-----------------------------------------------------------------------------
(***************************************************************************)
(* Numbers.                                                                *)
(***************************************************************************)

\* A nonempty set of natural numbers has a least element.
LEMMA Least ==
    ASSUME NEW S, S \subseteq Nat, S # {}
    PROVE  \E p \in S : \A q \in S : p <= q
PROOF
<1> DEFINE R == {pq \in Nat \X Nat : pq[1] < pq[2]}
<1>1. IsWellFoundedOn(R, Nat)
  BY NatLessThanWellFounded, Zenon DEF OpToRel
<1>2. PICK p \in S : \A q \in S : ~ (<<q, p>> \in R)
  <2> HIDE DEF R
  <2> QED BY <1>1, WFMin
<1>3. \A q \in S : p <= q
  <2> SUFFICES ASSUME NEW q \in S, ~ (p <= q) PROVE FALSE
    OBVIOUS
  <2>1. <<q, p>> \in R
    OBVIOUS
  <2> QED BY <2>1, <1>2
<1> QED BY <1>3

\* A number that fits a word is not changed by the arithmetic of words.
LEMMA SmallModulo ==
    ASSUME NEW n \in Nat, NEW w \in Nat, n < w
    PROVE  n % w = n
OBVIOUS

\* RoundUp gives the room asked for and less than a unit more.
LEMMA Rounded ==
    ASSUME NEW n \in Nat, n > 0, NEW unit \in Nat, unit > 0
    PROVE  /\ RoundUp(n, unit) \in Nat
           /\ n <= RoundUp(n, unit)
           /\ RoundUp(n, unit) < n + unit
PROOF
<1>1. ASSUME NEW x \in Nat
      PROVE  /\ (x \div unit) * unit \in Nat
             /\ (x \div unit) * unit <= x
             /\ x < (x \div unit) * unit + unit
  <2>1. x \div unit \in Nat
    OBVIOUS
  <2>2. (x \div unit) * unit \in Nat
    BY <2>1
  <2> QED BY <2>2
<1>2. n + unit - 1 \in Nat
  OBVIOUS
<1>3. PICK r : r = ((n + unit - 1) \div unit) * unit
  OBVIOUS
<1>4. r \in Nat /\ r <= n + unit - 1 /\ n + unit - 1 < r + unit
  BY <1>1, <1>2, <1>3
<1> QED BY <1>3, <1>4 DEF RoundUp

-----------------------------------------------------------------------------
(***************************************************************************)
(* The walk of malloc's loop.  Walk is defined by a recursion; that there  *)
(* is a function that satisfies it is shown first.                         *)
(***************************************************************************)
After(h, w, n) == IF n = 0 THEN HeapStart
                  ELSE IF w[n - 1] = NULL THEN NULL ELSE h[w[n - 1]].next

LEMMA WalkExists ==
    ASSUME NEW h, NEW N \in Nat
    PROVE  \E w : w = [n \in 0 .. N |-> After(h, w, n)]
PROOF
<1> DEFINE P(m) == \E w : w = [n \in 0 .. m |-> After(h, w, n)]
           Bad == {m \in Nat : ~P(m)}
<1>1. SUFFICES ASSUME Bad # {} PROVE FALSE
  OBVIOUS
<1>2. PICK m \in Bad : \A k \in Bad : m <= k
  <2>1. Bad \subseteq Nat
    OBVIOUS
  <2> HIDE DEF Bad
  <2> QED BY <1>1, <2>1, Least
<1>3. m \in Nat /\ ~P(m) /\ \A k \in Nat : k < m => P(k)
  <2> HIDE DEF P
  <2> QED BY <1>2
<1>4. m # 0
  <2> DEFINE w == [n \in 0 .. 0 |-> HeapStart]
  <2>1. w = [n \in 0 .. 0 |-> After(h, w, n)]
    BY DEF After
  <2>2. P(0)
    BY <2>1
  <2> QED BY <1>3, <2>2
<1>5. P(m - 1)
  <2> HIDE DEF P
  <2> QED BY <1>3, <1>4
<1>6. PICK v : v = [n \in 0 .. m - 1 |-> After(h, v, n)]
  BY <1>5
<1> DEFINE w == [n \in 0 .. m |-> IF n < m THEN v[n] ELSE After(h, v, m)]
<1>7. ASSUME NEW n \in 0 .. m PROVE w[n] = After(h, w, n)
  <2>1. n # 0 => w[n - 1] = v[n - 1]
    BY <1>3
  <2>2. After(h, w, n) = After(h, v, n)
    BY <2>1, <1>3 DEF After
  <2>3. CASE n < m
    <3>1. w[n] = v[n]
      BY <2>3
    <3>2. v[n] = After(h, v, n)
      <4>1. n \in 0 .. m - 1
        BY <1>3, <2>3
      <4> QED BY <4>1, <1>6, Zenon
    <3> QED BY <3>1, <3>2, <2>2
  <2>4. CASE n = m
    BY <2>4, <2>2, <1>3
  <2> QED BY <2>3, <2>4, <1>3
<1>8. w = [n \in 0 .. m |-> After(h, w, n)]
  <2>1. DOMAIN w = 0 .. m /\ w = [n \in 0 .. m |-> w[n]]
    OBVIOUS
  <2> HIDE DEF w
  <2> QED BY <2>1, <1>7
<1> QED BY <1>8, <1>3

LEMMA WalkSteps ==
    ASSUME IsFiniteSet(DOMAIN hdr)
    PROVE  /\ Cardinality(DOMAIN hdr) \in Nat
           /\ DOMAIN Walk = 0 .. Cardinality(DOMAIN hdr)
           /\ Walk[0] = HeapStart
           /\ \A n \in DOMAIN Walk :
                n # 0 => Walk[n] = IF Walk[n - 1] = NULL THEN NULL ELSE hdr[Walk[n - 1]].next
PROOF
<1>1. Cardinality(DOMAIN hdr) \in Nat
  BY FS_CardinalityType
<1> DEFINE Steps(w) == w = [n \in 0 .. Cardinality(DOMAIN hdr) |-> After(hdr, w, n)]
<1>2. \E w : Steps(w)
  BY <1>1, WalkExists
<1>3. Walk = CHOOSE w : Steps(w)
  BY DEF Walk, After
<1>4. Steps(Walk)
  <2> HIDE DEF Steps
  <2> QED BY <1>2, <1>3, Zenon
<1> QED BY <1>1, <1>4 DEF After

-----------------------------------------------------------------------------
(***************************************************************************)
(* Types, for every client.                                                *)
(***************************************************************************)

\* Headers are where the pointers say, and the pointers at headers.
ListOK(h, l) ==
    /\ DOMAIN h \subseteq Nat /\ IsFiniteSet(DOMAIN h)
    /\ NULL \in DOMAIN h /\ HeapStart \in DOMAIN h
    /\ \A a \in DOMAIN h : /\ h[a] \in Header
                           /\ h[a].next \in DOMAIN h /\ h[a].last \in DOMAIN h
    /\ l \in DOMAIN h \ {NULL}

CallOK ==
    /\ asked \in Nat /\ request \in Nat /\ expansions \in Nat
    /\ request # 0 => request + PageBytes <= Word

TypeInv ==
    /\ client \in Clients
    /\ ListOK(hdr, last_header)
    /\ heap_end \in Nat \ {0}
    /\ CallOK
    /\ \A b \in blocks : b.addr - HeaderBytes \in DOMAIN hdr \ {NULL}

LEMMA Layout ==
    /\ HeapStart \in Nat /\ HeapStart > 0
    /\ InitialPages \in Nat /\ InitialPages > 0
    /\ HeaderBytes \in Nat /\ HeaderBytes > 0
    /\ PageBytes \in Nat /\ PageBytes > HeaderBytes
    /\ Word \in Nat /\ Word > 0
    /\ NullLength \in 0 .. Word - 1
    /\ InitialPages * PageBytes \in Nat /\ InitialPages * PageBytes <= Word
    /\ PageBytes <= InitialPages * PageBytes
PROOF
<1>1. /\ HeapStart \in Nat /\ HeapStart > 0
      /\ InitialPages \in Nat /\ InitialPages > 0
      /\ HeaderBytes \in Nat /\ HeaderBytes > 0
      /\ PageBytes \in Nat /\ PageBytes > HeaderBytes
      /\ Word \in Nat /\ NullLength \in 0 .. Word - 1
      /\ InitialPages * PageBytes <= Word
  BY LayoutAssumption
<1>2. InitialPages * PageBytes \in Nat /\ PageBytes <= InitialPages * PageBytes
  BY <1>1
<1>3. Word > 0
  BY <1>1
<1> QED BY <1>1, <1>2, <1>3

LEMMA HeaderFields ==
    ASSUME NEW x \in Header
    PROVE  /\ x.length \in Nat /\ x.length < Word
           /\ x.next \in Nat /\ x.last \in Nat /\ x.free \in BOOLEAN
PROOF
<1>1. x.free \in BOOLEAN
  BY Zenon DEF Header
<1>2. x.length \in 0 .. Word - 1 /\ x.next \in Nat /\ x.last \in Nat
  BY Zenon DEF Header
<1>3. x.length \in Nat /\ x.length < Word
  BY <1>2, Layout
<1> QED BY <1>1, <1>2, <1>3, Zenon

LEMMA NextSet ==
    ASSUME NEW x \in Header, NEW y \in Nat
    PROVE  /\ [x EXCEPT !.next = y] \in Header
           /\ [x EXCEPT !.next = y].next = y
           /\ [x EXCEPT !.next = y].length = x.length
           /\ [x EXCEPT !.next = y].last = x.last
           /\ [x EXCEPT !.next = y].free = x.free
PROOF
<1>1. [x EXCEPT !.next = y] \in Header
  BY Zenon DEF Header
<1>2. x = [length |-> x.length, next |-> x.next, last |-> x.last, free |-> x.free]
  BY DEF Header
<1>3. /\ [x EXCEPT !.next = y].next = y
      /\ [x EXCEPT !.next = y].length = x.length
      /\ [x EXCEPT !.next = y].last = x.last
      /\ [x EXCEPT !.next = y].free = x.free
  BY <1>2, Zenon
<1> QED BY <1>1, <1>3, Zenon

LEMMA LastSet ==
    ASSUME NEW x \in Header, NEW y \in Nat
    PROVE  /\ [x EXCEPT !.last = y] \in Header
           /\ [x EXCEPT !.last = y].last = y
           /\ [x EXCEPT !.last = y].length = x.length
           /\ [x EXCEPT !.last = y].next = x.next
           /\ [x EXCEPT !.last = y].free = x.free
PROOF
<1>1. [x EXCEPT !.last = y] \in Header
  BY Zenon DEF Header
<1>2. x = [length |-> x.length, next |-> x.next, last |-> x.last, free |-> x.free]
  BY DEF Header
<1>3. /\ [x EXCEPT !.last = y].last = y
      /\ [x EXCEPT !.last = y].length = x.length
      /\ [x EXCEPT !.last = y].next = x.next
      /\ [x EXCEPT !.last = y].free = x.free
  BY <1>2, Zenon
<1> QED BY <1>1, <1>3, Zenon

LEMMA LengthSet ==
    ASSUME NEW x \in Header, NEW y \in 0 .. Word - 1
    PROVE  /\ [x EXCEPT !.length = y] \in Header
           /\ [x EXCEPT !.length = y].length = y
           /\ [x EXCEPT !.length = y].next = x.next
           /\ [x EXCEPT !.length = y].last = x.last
           /\ [x EXCEPT !.length = y].free = x.free
PROOF
<1>1. [x EXCEPT !.length = y] \in Header
  BY Zenon DEF Header
<1>2. x = [length |-> x.length, next |-> x.next, last |-> x.last, free |-> x.free]
  BY DEF Header
<1>3. /\ [x EXCEPT !.length = y].length = y
      /\ [x EXCEPT !.length = y].next = x.next
      /\ [x EXCEPT !.length = y].last = x.last
      /\ [x EXCEPT !.length = y].free = x.free
  BY <1>2, Zenon
<1> QED BY <1>1, <1>3, Zenon

LEMMA FreeSet ==
    ASSUME NEW x \in Header, NEW y \in BOOLEAN
    PROVE  /\ [x EXCEPT !.free = y] \in Header
           /\ [x EXCEPT !.free = y].free = y
           /\ [x EXCEPT !.free = y].length = x.length
           /\ [x EXCEPT !.free = y].next = x.next
           /\ [x EXCEPT !.free = y].last = x.last
PROOF
<1>1. [x EXCEPT !.free = y] \in Header
  BY Zenon DEF Header
<1>2. x = [length |-> x.length, next |-> x.next, last |-> x.last, free |-> x.free]
  BY DEF Header
<1>3. /\ [x EXCEPT !.free = y].free = y
      /\ [x EXCEPT !.free = y].length = x.length
      /\ [x EXCEPT !.free = y].next = x.next
      /\ [x EXCEPT !.free = y].last = x.last
  BY <1>2, Zenon
<1> QED BY <1>1, <1>3, Zenon

Pointing(h, D) ==
    /\ DOMAIN h \subseteq Nat /\ D \subseteq Nat
    /\ \A a \in DOMAIN h : h[a] \in Header /\ h[a].next \in D /\ h[a].last \in D

LEMMA NextWritten ==
    ASSUME NEW h, NEW D, Pointing(h, D), NEW a \in DOMAIN h, NEW y \in D
    PROVE  /\ Pointing([h EXCEPT ![a].next = y], D)
           /\ Pointing([h EXCEPT ![a].last = y], D)
PROOF
<1>1. y \in Nat /\ h[a] \in Header /\ h[a].next \in D /\ h[a].last \in D
  BY DEF Pointing
<1>2. ASSUME NEW x \in Header, x.next \in D, x.last \in D
      PROVE  Pointing([h EXCEPT ![a] = x], D)
  BY <1>2 DEF Pointing
<1>3. /\ [h[a] EXCEPT !.next = y] \in Header /\ [h[a] EXCEPT !.next = y].next = y
      /\ [h[a] EXCEPT !.next = y].last = h[a].last
      /\ [h[a] EXCEPT !.last = y] \in Header /\ [h[a] EXCEPT !.last = y].last = y
      /\ [h[a] EXCEPT !.last = y].next = h[a].next
  BY <1>1, NextSet, LastSet
<1>4. Pointing([h EXCEPT ![a] = [h[a] EXCEPT !.next = y]], D)
  BY <1>1, <1>2, <1>3, Zenon
<1>5. Pointing([h EXCEPT ![a] = [h[a] EXCEPT !.last = y]], D)
  BY <1>1, <1>2, <1>3, Zenon
<1> QED BY <1>4, <1>5, Zenon

LEMMA LengthWritten ==
    ASSUME NEW h, NEW D, Pointing(h, D), NEW a \in DOMAIN h
    PROVE  /\ \A y \in 0 .. Word - 1 : Pointing([h EXCEPT ![a].length = y], D)
           /\ \A y \in BOOLEAN : Pointing([h EXCEPT ![a].free = y], D)
PROOF
<1>1. h[a] \in Header /\ h[a].next \in D /\ h[a].last \in D
  BY DEF Pointing
<1>2. ASSUME NEW x \in Header, x.next \in D, x.last \in D
      PROVE  Pointing([h EXCEPT ![a] = x], D)
  BY <1>2 DEF Pointing
<1>3. ASSUME NEW y \in 0 .. Word - 1 PROVE Pointing([h EXCEPT ![a].length = y], D)
  <2>1. /\ [h[a] EXCEPT !.length = y] \in Header
        /\ [h[a] EXCEPT !.length = y].next = h[a].next
        /\ [h[a] EXCEPT !.length = y].last = h[a].last
    BY <1>1, LengthSet
  <2>2. Pointing([h EXCEPT ![a] = [h[a] EXCEPT !.length = y]], D)
    BY <1>1, <1>2, <2>1, Zenon
  <2> QED BY <2>2, Zenon
<1>4. ASSUME NEW y \in BOOLEAN PROVE Pointing([h EXCEPT ![a].free = y], D)
  <2>1. /\ [h[a] EXCEPT !.free = y] \in Header
        /\ [h[a] EXCEPT !.free = y].next = h[a].next
        /\ [h[a] EXCEPT !.free = y].last = h[a].last
    BY <1>1, FreeSet
  <2>2. Pointing([h EXCEPT ![a] = [h[a] EXCEPT !.free = y]], D)
    BY <1>1, <1>2, <2>1, Zenon
  <2> QED BY <2>2, Zenon
<1> QED BY <1>3, <1>4

LEMMA HeaderAdded ==
    ASSUME NEW h, NEW D, Pointing(h, D), NEW a \in Nat,
           NEW x \in Header, x.next \in D, x.last \in D
    PROVE  /\ Pointing(Put(h, a, x), D)
           /\ DOMAIN Put(h, a, x) = DOMAIN h \cup {a}
BY DEF Pointing, Put

LEMMA ListPointing ==
    ASSUME NEW h, NEW l, DOMAIN h \subseteq Nat
    PROVE  ListOK(h, l) <=> /\ Pointing(h, DOMAIN h) /\ IsFiniteSet(DOMAIN h)
                            /\ NULL \in DOMAIN h /\ HeapStart \in DOMAIN h
                            /\ l \in DOMAIN h \ {NULL}
BY DEF ListOK, Pointing

LEMMA CombinedForward ==
    ASSUME NEW h, NEW l, ListOK(h, l), NEW this \in DOMAIN h \ {NULL}
    PROVE  LET s == CombineForward([hdr |-> h, last |-> l], this)
           IN  ListOK(s.hdr, s.last) /\ DOMAIN s.hdr = DOMAIN h
PROOF
<1> DEFINE s == CombineForward([hdr |-> h, last |-> l], this)
           merged == h[this].next
           behind == h[merged].next
           linked == IF behind = NULL THEN h ELSE [h EXCEPT ![behind].last = this]
           sum(x) == (x + h[behind].length + HeaderBytes) % Word
<1>1. /\ Pointing(h, DOMAIN h) /\ DOMAIN h \subseteq Nat /\ this \in DOMAIN h
      /\ l \in DOMAIN h \ {NULL}
  BY ListPointing DEF ListOK
<1>2. CASE merged = NULL \/ ~h[merged].free
  <2>1. s = [hdr |-> h, last |-> l]
    BY <1>2, Zenon DEF CombineForward
  <2> QED BY <2>1
<1>3. CASE ~(merged = NULL \/ ~h[merged].free)
  <2>1. s = [hdr |-> [linked EXCEPT ![this].next = behind, ![this].length = sum(@)],
             last |-> IF merged = l THEN this ELSE l]
    BY <1>3 DEF CombineForward
  <2>2. merged \in DOMAIN h /\ behind \in DOMAIN h
    BY <1>1 DEF Pointing
  <2>3. Pointing(linked, DOMAIN h) /\ DOMAIN linked = DOMAIN h
    <3>1. Pointing([h EXCEPT ![behind].last = this], DOMAIN h)
      BY <1>1, <2>2, NextWritten, Zenon
    <3> QED BY <1>1, <3>1, Zenon
  <2> DEFINE forth == [linked EXCEPT ![this].next = behind]
  <2>4. Pointing(forth, DOMAIN h) /\ DOMAIN forth = DOMAIN h
    <3> HIDE DEF linked, behind
    <3>1. this \in DOMAIN linked
      BY <2>3, <1>1
    <3> QED BY <3>1, <2>2, <2>3, NextWritten, Zenon
  <2>5. sum(forth[this].length) \in 0 .. Word - 1
    <3>1. forth[this] \in Header /\ h[behind] \in Header
      BY <2>2, <2>4, <1>1, Zenon DEF Pointing
    <3>2. forth[this].length \in Nat /\ h[behind].length \in Nat
      BY <3>1, HeaderFields, Zenon
    <3> HIDE DEF forth, behind
    <3> QED BY <3>2, Layout
  <2>6. s.hdr = [forth EXCEPT ![this].length = sum(forth[this].length)]
    <3> HIDE DEF linked, behind, s, sum
    <3> QED BY <2>1, Zenon
  <2>7. Pointing(s.hdr, DOMAIN h) /\ DOMAIN s.hdr = DOMAIN h
    <3> HIDE DEF forth, s, sum
    <3>1. this \in DOMAIN forth
      BY <2>4, <1>1
    <3>2. \A y \in 0 .. Word - 1 : Pointing([forth EXCEPT ![this].length = y], DOMAIN h)
      BY <3>1, <2>4, LengthWritten
    <3> QED BY <3>1, <3>2, <2>4, <2>5, <2>6
  <2>8. s.last \in DOMAIN h \ {NULL}
    <3> HIDE DEF s, merged, linked, behind, sum
    <3>1. s.last = IF merged = l THEN this ELSE l
      BY <2>1
    <3> QED BY <3>1, <1>1
  <2>9. ListOK(s.hdr, s.last)
    <3> HIDE DEF s
    <3> QED BY <2>7, <2>8, <1>1, ListPointing DEF ListOK
  <2> QED BY <2>7, <2>9, Zenon
<1> QED BY <1>2, <1>3, Zenon

LEMMA CombinedBackward ==
    ASSUME NEW h, NEW l, ListOK(h, l), NEW this \in DOMAIN h \ {NULL}
    PROVE  LET s == CombineBackward([hdr |-> h, last |-> l], this)
           IN  ListOK(s.hdr, s.last) /\ DOMAIN s.hdr = DOMAIN h
PROOF
<1> DEFINE s == CombineBackward([hdr |-> h, last |-> l], this)
           before == h[this].last
<1>1. before \in DOMAIN h
  BY DEF ListOK
<1>2. CASE before # NULL /\ h[before].free
  <2>1. s = CombineForward([hdr |-> h, last |-> l], before)
    BY <1>2 DEF CombineBackward
  <2>2. before \in DOMAIN h \ {NULL}
    BY <1>1, <1>2
  <2>3. ListOK(s.hdr, s.last) /\ DOMAIN s.hdr = DOMAIN h
    <3> HIDE DEF before, s
    <3> QED BY <2>2, <2>1, CombinedForward
  <2> QED BY <2>3, Zenon
<1>3. CASE ~(before # NULL /\ h[before].free)
  <2>1. s = [hdr |-> h, last |-> l]
    BY <1>3 DEF CombineBackward
  <2> QED BY <2>1
<1> QED BY <1>2, <1>3, Zenon

\* What split makes of the list, when the remainder is long enough.
SplitHeader(h, this, size) ==
    [length |-> Remainder(h, this, size), next |-> h[this].next,
     last |-> this, free |-> h[this].free]

LEMMA SplitIs ==
    ASSUME NEW h, NEW l, NEW this, NEW size
    PROVE  LET s == Split([hdr |-> h, last |-> l], this, size)
               new == this + size + HeaderBytes
               next == h[this].next
           IN  IF Splits(h, this, size)
               THEN s = [hdr |-> Put([[[h EXCEPT ![next].last = new]
                                          EXCEPT ![this].next = new]
                                          EXCEPT ![this].length = size],
                                     new, SplitHeader(h, this, size)),
                         last |-> IF l = this THEN new ELSE l]
               ELSE s = [hdr |-> h, last |-> l]
BY DEF Split, SplitHeader

LEMMA RemainderIsWord ==
    ASSUME NEW h, NEW this, h[this] \in Header, NEW size \in Nat
    PROVE  Remainder(h, this, size) \in 0 .. Word - 1
PROOF
<1>1. h[this].length \in Nat
  BY HeaderFields
<1> QED BY <1>1, Layout DEF Remainder

LEMMA SplitList ==
    ASSUME NEW h, NEW l, ListOK(h, l), NEW this \in DOMAIN h \ {NULL},
           NEW size \in Nat, size < Word
    PROVE  LET s == Split([hdr |-> h, last |-> l], this, size)
           IN  ListOK(s.hdr, s.last) /\ DOMAIN h \subseteq DOMAIN s.hdr
PROOF
<1> DEFINE s == Split([hdr |-> h, last |-> l], this, size)
           new == this + size + HeaderBytes
           next == h[this].next
           D == DOMAIN h \cup {new}
           h1 == [h EXCEPT ![next].last = new]
           h2 == [h1 EXCEPT ![this].next = new]
           h3 == [h2 EXCEPT ![this].length = size]
<1>1. /\ this \in Nat /\ this \in DOMAIN h /\ DOMAIN h \subseteq Nat
         /\ h[this] \in Header
      /\ next \in DOMAIN h /\ IsFiniteSet(DOMAIN h) /\ l \in DOMAIN h
  BY DEF ListOK
<1>2. new \in Nat /\ new > 0
  BY <1>1, Layout
<1>3. CASE ~Splits(h, this, size)
  <2>1. s = [hdr |-> h, last |-> l]
    BY <1>3, SplitIs, Zenon
  <2> QED BY <2>1
<1>4. CASE Splits(h, this, size)
  <2>1. s = [hdr |-> Put(h3, new, SplitHeader(h, this, size)),
             last |-> IF l = this THEN new ELSE l]
    BY <1>4, SplitIs, Zenon
  <2>2. Pointing(h, D)
    BY <1>2 DEF ListOK, Pointing
  <2>3. Pointing(h1, D) /\ DOMAIN h1 = DOMAIN h
    <3> HIDE DEF D, next
    <3>1. next \in DOMAIN h /\ new \in D
      BY <1>1 DEF D
    <3> QED BY <3>1, <2>2, NextWritten
  <2>4. Pointing(h2, D) /\ DOMAIN h2 = DOMAIN h
    <3> HIDE DEF D, h1
    <3>1. this \in DOMAIN h1 /\ new \in D
      BY <1>1, <2>3 DEF D
    <3> QED BY <3>1, <2>3, NextWritten
  <2>5. Pointing(h3, D) /\ DOMAIN h3 = DOMAIN h
    <3> HIDE DEF D, h2
    <3>1. this \in DOMAIN h2 /\ size \in 0 .. Word - 1
      BY <1>1, <2>4, Layout
    <3> QED BY <3>1, <2>4, LengthWritten
  <2>6. /\ SplitHeader(h, this, size) \in Header
        /\ SplitHeader(h, this, size).next \in D
        /\ SplitHeader(h, this, size).last \in D
    <3>1. Remainder(h, this, size) \in 0 .. Word - 1
      BY <1>1, RemainderIsWord
    <3>2. h[this].free \in BOOLEAN
      BY <1>1, HeaderFields, Zenon
    <3>3. next \in Nat
      BY <1>1
    <3>4. SplitHeader(h, this, size) \in Header
      <4> HIDE DEF next
      <4> QED BY <3>1, <3>2, <3>3, <1>1, Zenon DEF SplitHeader, Header, next
    <3> QED BY <3>4, <1>1 DEF SplitHeader
  <2>7. Pointing(s.hdr, D) /\ DOMAIN s.hdr = D
    <3> HIDE DEF s, h3, new, D
    <3>1. s.hdr = Put(h3, new, SplitHeader(h, this, size))
      BY <2>1
    <3>2. new \in Nat
      BY <1>2
    <3>3. /\ Pointing(Put(h3, new, SplitHeader(h, this, size)), D)
          /\ DOMAIN Put(h3, new, SplitHeader(h, this, size)) = DOMAIN h3 \cup {new}
      BY <2>5, <2>6, <3>2 DEF Pointing, Put
    <3>4. DOMAIN s.hdr = DOMAIN h3 \cup {new} /\ Pointing(s.hdr, D)
      BY <3>1, <3>3
    <3> QED BY <3>4, <2>5 DEF D
  <2>8. s.last \in D \ {NULL}
    <3>1. s.last = IF l = this THEN new ELSE l
      BY <2>1
    <3>2. l # NULL /\ new # NULL
      BY <1>2 DEF ListOK, NULL
    <3> HIDE DEF s, new
    <3> QED BY <3>1, <3>2, <1>1 DEF D
  <2>9. IsFiniteSet(D)
    BY <1>1, FS_AddElement
  <2>10. ListOK(s.hdr, s.last)
    <3>1. D \subseteq Nat /\ NULL \in D /\ HeapStart \in D
      BY <1>1, <1>2 DEF ListOK
    <3> HIDE DEF s, D
    <3> QED BY <3>1, <2>7, <2>8, <2>9, ListPointing
  <2> QED BY <2>7, <2>10
<1> QED BY <1>3, <1>4, Zenon

\* malloc's loop walks over headers, and what it finds fits.
LEMMA WalkedHeaders ==
    ASSUME ListOK(hdr, last_header)
    PROVE  \A n \in DOMAIN Walk : Walk[n] \in DOMAIN hdr
PROOF
<1> DEFINE Bad == {n \in DOMAIN Walk : Walk[n] \notin DOMAIN hdr}
<1>1. /\ Cardinality(DOMAIN hdr) \in Nat
      /\ DOMAIN Walk = 0 .. Cardinality(DOMAIN hdr)
      /\ Walk[0] = HeapStart
      /\ \A n \in DOMAIN Walk :
           n # 0 => Walk[n] = IF Walk[n - 1] = NULL THEN NULL ELSE hdr[Walk[n - 1]].next
  BY WalkSteps DEF ListOK
<1>2. SUFFICES ASSUME Bad # {} PROVE FALSE
  OBVIOUS
<1>3. PICK n \in Bad : \A m \in Bad : n <= m
  <2>1. Bad \subseteq Nat
    BY <1>1
  <2> HIDE DEF Bad
  <2> QED BY <1>2, <2>1, Least
<1>4. n \in DOMAIN Walk /\ n \in Nat /\ Walk[n] \notin DOMAIN hdr
  BY <1>1
<1>5. n # 0
  BY <1>1, <1>4 DEF ListOK
<1>6. n - 1 \in DOMAIN Walk /\ n - 1 < n
  BY <1>1, <1>4, <1>5
<1>7. Walk[n - 1] \in DOMAIN hdr
  BY <1>3, <1>4, <1>6
<1>8. Walk[n] = IF Walk[n - 1] = NULL THEN NULL ELSE hdr[Walk[n - 1]].next
  BY <1>1, <1>4, <1>5
<1> QED BY <1>4, <1>7, <1>8 DEF ListOK

LEMMA FirstFitFits ==
    ASSUME ListOK(hdr, last_header), Fitting # {}
    PROVE  \E n \in DOMAIN Walk : FirstFit = Walk[n] /\ Fits(FirstFit)
PROOF
<1>1. Fitting \subseteq Nat
  BY WalkSteps DEF Fitting, ListOK
<1> DEFINE First(n) == n \in Fitting /\ \A m \in Fitting : n <= m
<1>2. \E n : First(n)
  BY <1>1, Least
<1>3. FirstFit = Walk[CHOOSE n \in Fitting : \A m \in Fitting : n <= m]
  BY DEF FirstFit
<1>4. PICK k : k = CHOOSE n \in Fitting : \A m \in Fitting : n <= m
  OBVIOUS
<1>5. k \in Fitting
  BY <1>2, <1>4, Zenon
<1> QED BY <1>3, <1>4, <1>5 DEF Fitting

LEMMA InitTypes == Init => TypeInv
PROOF
<1> SUFFICES ASSUME Init PROVE TypeInv
  OBVIOUS
<1>1. DOMAIN hdr = {NULL, HeapStart} /\ last_header = HeapStart
  BY DEF Init
<1>2. InitialPages * PageBytes - HeaderBytes \in 0 .. Word - 1
  BY Layout
<1>3. /\ hdr[NULL] = [length |-> NullLength, next |-> NULL, last |-> NULL, free |-> FALSE]
      /\ hdr[HeapStart] = [length |-> InitialPages * PageBytes - HeaderBytes,
                           next |-> NULL, last |-> NULL, free |-> TRUE]
  BY Layout DEF Init, NULL
<1>4. hdr[NULL] \in Header /\ hdr[HeapStart] \in Header
  BY <1>2, <1>3, Layout DEF Header, NULL
<1>5. IsFiniteSet(DOMAIN hdr)
  <2>1. IsFiniteSet({NULL}) /\ IsFiniteSet({NULL} \cup {HeapStart})
    BY FS_Singleton, FS_AddElement
  <2>2. DOMAIN hdr = {NULL} \cup {HeapStart}
    BY <1>1
  <2> QED BY <2>1, <2>2
<1>6. ListOK(hdr, last_header)
  <2>1. \A a \in DOMAIN hdr : /\ hdr[a] \in Header
                               /\ hdr[a].next \in DOMAIN hdr
                                  /\ hdr[a].last \in DOMAIN hdr
    <3>1. /\ hdr[NULL].next = NULL /\ hdr[NULL].last = NULL
          /\ hdr[HeapStart].next = NULL /\ hdr[HeapStart].last = NULL
      BY <1>3
    <3> QED BY <1>1, <1>4, <3>1
  <2> QED BY <1>1, <1>5, <2>1, Layout DEF ListOK, NULL
<1>7. heap_end \in Nat \ {0}
  BY Layout DEF Init
<1> QED BY <1>6, <1>7 DEF Init, TypeInv, CallOK

LEMMA CallTypes == ASSUME NEW size \in client.sizes PROVE TypeInv
/\ Call(size) => TypeInv'
PROOF
<1> SUFFICES ASSUME TypeInv, Call(size) PROVE TypeInv'
  OBVIOUS
<1>1. size \in Nat /\ size > 0 /\ RoundUp(size, Unit) + PageBytes <= Word
  BY ClientAssumption DEF TypeInv
<1>2. RoundUp(size, Unit) \in Nat
  BY <1>1, Rounded DEF Unit
<1>3. CallOK'
  BY <1>1, <1>2 DEF Call, CallOK
<1> QED BY <1>3 DEF Call, TypeInv

LEMMA AllocateTypes == TypeInv /\ Allocate => TypeInv'
PROOF
<1> SUFFICES ASSUME TypeInv, Allocate PROVE TypeInv'
  OBVIOUS
<1>1. /\ ListOK(hdr, last_header) /\ Fitting # {}
      /\ request \in Nat /\ request # 0 /\ request + PageBytes <= Word
  BY DEF TypeInv, Allocate, CallOK
<1>2. FirstFit \in DOMAIN hdr \ {NULL} /\ FirstFit \in Nat
  BY <1>1, FirstFitFits, WalkedHeaders DEF Fits, ListOK
<1>3. PICK this, s :
        /\ this = FirstFit
        /\ s = IF hdr[this].length > request THEN Split(Now, this, request) ELSE Now
        /\ Become([s EXCEPT !.hdr[this].free = FALSE])
        /\ blocks' = blocks \cup {[addr |-> this + HeaderBytes, size |-> asked]}
  BY Zenon DEF Allocate
<1>4. ListOK(s.hdr, s.last) /\ DOMAIN hdr \subseteq DOMAIN s.hdr
  <2>1. request < Word
    BY <1>1, Layout
  <2>2. LET r == Split([hdr |-> hdr, last |-> last_header], this, request)
        IN  ListOK(r.hdr, r.last) /\ DOMAIN hdr \subseteq DOMAIN r.hdr
    BY <1>1, <1>2, <1>3, <2>1, SplitList
  <2> QED BY <1>1, <1>3, <2>2 DEF Now
<1>5. s = [hdr |-> s.hdr, last |-> s.last]
  BY <1>3 DEF Split, Now
<1>6. hdr' = [s.hdr EXCEPT ![this].free = FALSE] /\ last_header' = s.last
  BY <1>3, <1>5 DEF Become
<1>7. ListOK(hdr', last_header') /\ DOMAIN hdr' = DOMAIN s.hdr
  <2>1. this \in DOMAIN s.hdr
    BY <1>2, <1>3, <1>4
  <2>2. Pointing(s.hdr, DOMAIN s.hdr) /\ DOMAIN s.hdr \subseteq Nat
    BY <1>4, ListPointing DEF ListOK
  <2>3. Pointing([s.hdr EXCEPT ![this].free = FALSE], DOMAIN s.hdr)
    BY <2>1, <2>2, LengthWritten
  <2>4. Pointing(hdr', DOMAIN hdr') /\ DOMAIN hdr' = DOMAIN s.hdr
    BY <1>6, <2>3
  <2> QED BY <1>4, <1>6, <2>2, <2>4, ListPointing DEF ListOK
<1>8. \A b \in blocks' : b.addr - HeaderBytes \in DOMAIN hdr' \ {NULL}
  <2>1. this + HeaderBytes - HeaderBytes = this
    BY <1>2, <1>3, Layout
  <2>2. this \in DOMAIN hdr' \ {NULL} /\ DOMAIN hdr \subseteq DOMAIN hdr'
    BY <1>2, <1>3, <1>4, <1>7
  <2>3. \A b \in blocks : b.addr - HeaderBytes \in DOMAIN hdr' \ {NULL}
    BY <2>2 DEF TypeInv
  <2>4. ASSUME NEW b \in blocks', b \notin blocks
        PROVE  b.addr - HeaderBytes \in DOMAIN hdr' \ {NULL}
    <3>1. b = [addr |-> this + HeaderBytes, size |-> asked]
      BY <1>3, <2>4
    <3>2. b.addr = this + HeaderBytes
      BY <3>1
    <3>3. b.addr - HeaderBytes = this
      BY <1>2, <1>3, <3>2, Layout
    <3> QED BY <2>2, <3>3, Zenon
  <2> QED BY <2>3, <2>4
<1> QED BY <1>7, <1>8 DEF Allocate, TypeInv, CallOK

LEMMA ExpandTypes == TypeInv /\ Expand => TypeInv'
PROOF
<1> SUFFICES ASSUME TypeInv, Expand PROVE TypeInv'
  OBVIOUS
<1> DEFINE D == DOMAIN hdr \cup {heap_end}
<1>1. /\ ListOK(hdr, last_header) /\ DOMAIN hdr \subseteq Nat
      /\ last_header \in DOMAIN hdr \ {NULL}
      /\ request \in Nat /\ request > 0 /\ request + PageBytes <= Word
      /\ heap_end \in Nat /\ heap_end > 0
  <2>1. ListOK(hdr, last_header) /\ CallOK /\ heap_end \in Nat \ {0}
        /\ request # 0
    BY DEF TypeInv, Expand
  <2>2. DOMAIN hdr \subseteq Nat /\ last_header \in DOMAIN hdr \ {NULL}
    BY <2>1 DEF ListOK
  <2>3. request \in Nat /\ request > 0 /\ request + PageBytes <= Word
    BY <2>1 DEF CallOK
  <2>4. heap_end \in Nat /\ heap_end > 0
    BY <2>1
  <2> QED BY <2>1, <2>2, <2>3, <2>4
<1>2. PICK bytes, appended, s :
        /\ bytes = RoundUp(request, PageBytes)
        /\ appended = Put([hdr EXCEPT ![last_header].next = heap_end], heap_end,
                          [length |-> bytes - HeaderBytes, next |-> NULL,
                           last |-> last_header, free |-> TRUE])
        /\ s = CombineBackward([hdr |-> appended, last |-> heap_end], heap_end)
        /\ hdr' = s.hdr /\ last_header' = s.last
        /\ heap_end' = heap_end + bytes
  BY Zenon DEF Expand, Become
<1>3. bytes \in Nat /\ bytes - HeaderBytes \in 0 .. Word - 1
  <2>1. PageBytes \in Nat /\ PageBytes > HeaderBytes /\ HeaderBytes \in Nat
        /\ Word \in Nat
          /\ HeaderBytes > 0
    BY Layout
  <2>2. bytes \in Nat /\ request <= bytes /\ bytes < request + PageBytes
    BY <1>1, <1>2, <2>1, Rounded
  <2>3. bytes >= PageBytes
    <3>1. ASSUME NEW q \in Int, q * PageBytes > 0 PROVE q * PageBytes >= PageBytes
      <4>1. q > 0
        BY <2>1, <3>1
      <4> QED BY <2>1, <4>1
    <3>2. (request + PageBytes - 1) \div PageBytes \in Int
      BY <1>1, <2>1
    <3> QED BY <3>1, <3>2, <2>2, <1>1, <1>2 DEF RoundUp
  <2> QED BY <1>1, <2>1, <2>2, <2>3
<1>4. Pointing(appended, D) /\ DOMAIN appended = D
  <2>1. Pointing(hdr, D)
    BY <1>1 DEF ListOK, Pointing
  <2>2. /\ Pointing([hdr EXCEPT ![last_header].next = heap_end], D)
        /\ DOMAIN [hdr EXCEPT ![last_header].next = heap_end] = DOMAIN hdr
    <3>1. heap_end \in D /\ last_header \in DOMAIN hdr
      BY <1>1
    <3> HIDE DEF D
    <3> QED BY <2>1, <3>1, NextWritten
  <2>3. [length |-> bytes - HeaderBytes, next |-> NULL,
         last |-> last_header, free |-> TRUE] \in Header
    BY <1>1, <1>3 DEF Header, NULL
  <2>4. NULL \in D /\ last_header \in D
    BY <1>1 DEF ListOK
  <2> HIDE DEF D
  <2> QED BY <1>1, <1>2, <2>2, <2>3, <2>4 DEF Pointing, Put, D
<1>5. ListOK(appended, heap_end)
  <2>1. D \subseteq Nat /\ NULL \in D /\ HeapStart \in D
        /\ heap_end \in D \ {NULL}
    <3>1. NULL \in DOMAIN hdr /\ HeapStart \in DOMAIN hdr
      BY <1>1 DEF ListOK
    <3>2. heap_end # NULL
      BY <1>1 DEF NULL
    <3> QED BY <1>1, <3>1, <3>2
  <2>2. IsFiniteSet(D)
    BY <1>1, FS_AddElement DEF ListOK
  <2> HIDE DEF D
  <2> QED BY <1>4, <2>1, <2>2, ListPointing
<1>6. ListOK(hdr', last_header') /\ DOMAIN hdr' = D
  <2>1. heap_end \in DOMAIN appended \ {NULL}
    BY <1>1, <1>4 DEF NULL
  <2>2. LET r == CombineBackward([hdr |-> appended, last |-> heap_end], heap_end)
        IN  ListOK(r.hdr, r.last) /\ DOMAIN r.hdr = DOMAIN appended
    BY <1>5, <2>1, CombinedBackward, Zenon
  <2> QED BY <1>2, <1>4, <2>2, Zenon
<1>7. CallOK'
  BY DEF Expand, TypeInv, CallOK
<1>8. \A b \in blocks' : b.addr - HeaderBytes \in DOMAIN hdr' \ {NULL}
  BY <1>6 DEF Expand, TypeInv
<1>9. heap_end' \in Nat \ {0}
  BY <1>1, <1>2, <1>3
<1> QED BY <1>6, <1>7, <1>8, <1>9 DEF Expand, TypeInv

LEMMA FreeTypes == ASSUME NEW b \in blocks PROVE TypeInv /\ Free(b) => TypeInv'
PROOF
<1> SUFFICES ASSUME TypeInv, Free(b) PROVE TypeInv'
  OBVIOUS
<1>1. PICK this, h, s :
        /\ this = b.addr - HeaderBytes
        /\ h = [hdr EXCEPT ![this].free = TRUE]
        /\ s = CombineForward([hdr |-> h, last |-> last_header], this)
        /\ Become(CombineBackward(s, this))
  BY Zenon DEF Free
<1>2. this \in DOMAIN hdr \ {NULL} /\ ListOK(hdr, last_header)
  BY <1>1 DEF TypeInv
<1>3. ListOK(h, last_header) /\ DOMAIN h = DOMAIN hdr
  <2>1. Pointing(hdr, DOMAIN hdr) /\ DOMAIN hdr \subseteq Nat
    BY <1>2, ListPointing DEF ListOK
  <2>2. Pointing(h, DOMAIN hdr)
    BY <1>1, <1>2, <2>1, LengthWritten
  <2>3. DOMAIN h = DOMAIN hdr
    BY <1>1
  <2> QED BY <1>2, <2>1, <2>2, <2>3, ListPointing
<1>4. ListOK(s.hdr, s.last) /\ DOMAIN s.hdr = DOMAIN hdr
  <2>1. LET r == CombineForward([hdr |-> h, last |-> last_header], this)
        IN  ListOK(r.hdr, r.last) /\ DOMAIN r.hdr = DOMAIN h
    BY <1>2, <1>3, CombinedForward
  <2> QED BY <1>1, <1>3, <2>1, Zenon
<1>5. s = [hdr |-> s.hdr, last |-> s.last]
  BY <1>1 DEF CombineForward
<1>6. ListOK(hdr', last_header') /\ DOMAIN hdr' = DOMAIN hdr
  <2>1. LET r == CombineBackward([hdr |-> s.hdr, last |-> s.last], this)
        IN  ListOK(r.hdr, r.last) /\ DOMAIN r.hdr = DOMAIN s.hdr
    BY <1>2, <1>4, CombinedBackward
  <2> QED BY <1>1, <1>4, <1>5, <2>1, Zenon DEF Become
<1>7. \A c \in blocks' : c.addr - HeaderBytes \in DOMAIN hdr' \ {NULL}
  BY <1>6 DEF Free, TypeInv
<1> QED BY <1>6, <1>7 DEF Free, TypeInv, CallOK

LEMMA NextTypes == TypeInv /\ [Next]_vars => TypeInv'
PROOF
<1> SUFFICES ASSUME TypeInv, [Next]_vars PROVE TypeInv'
  OBVIOUS
<1>1. CASE \E size \in client.sizes : Call(size)
  BY <1>1, CallTypes
<1>2. CASE Allocate
  BY <1>2, AllocateTypes
<1>3. CASE Expand
  BY <1>3, ExpandTypes
<1>4. CASE \E b \in blocks : Free(b)
  BY <1>4, FreeTypes
<1>5. CASE UNCHANGED vars
  BY <1>5 DEF vars, TypeInv, CallOK
<1> QED BY <1>1, <1>2, <1>3, <1>4, <1>5 DEF Next

LEMMA TypeInvariant == Spec => []TypeInv
BY InitTypes, NextTypes, PTL DEF Spec

\* Whatever is asked for and freed in whatever order, pointers lead to
\* headers, lengths are words, and last_header is a header: what is wrong
\* with combine_forward never takes the list out of the headers written.
THEOREM TypeCorrect == Spec => []TypeOK
PROOF
<1>1. TypeInv => TypeOK
  BY DEF TypeInv, TypeOK, ListOK, CallOK
<1> QED BY <1>1, TypeInvariant, PTL

-----------------------------------------------------------------------------
(***************************************************************************)
(* Careful clients.  S is the set of the segments; what the code relies on *)
(* is stated of S and not of the walk, and holds of one S.                 *)
(***************************************************************************)
\* The word of kernel code at NULL, which split writes next to.
NullWord == hdr[NULL].length = NullLength /\ hdr[NULL].next = NULL

\* What follows is said of headers h with last header l and heap end e, so
\* that it can be said of the state before a step and of that behind it.
EndIn(h, e, a) == IF h[a].next = NULL THEN e ELSE h[a].next

\* S in ascending order is a doubly linked list from HeapStart to the last
\* header, with room between neighbours.
Chain(h, l, e, S) ==
    /\ S \subseteq DOMAIN h /\ NULL \notin S
    /\ HeapStart \in S /\ l \in S
    /\ \A a \in S : /\ HeapStart <= a /\ a + HeaderBytes < EndIn(h, e, a)
                    /\ h[a].next \in S \cup {NULL}
                    /\ h[a].next = NULL <=> a = l
                    /\ h[a].next # NULL => h[h[a].next].last = a
    /\ \A a, b \in S : a < b => h[a].next # NULL /\ h[a].next <= b

\* Every block of B has a segment in use to itself, and lies in it.
BlocksIn(B, h, e, S) ==
    /\ \A b \in B : /\ b.addr \in Nat /\ b.size \in Nat
                    /\ b.addr - HeaderBytes \in S
                    /\ ~h[b.addr - HeaderBytes].free
                    /\ b.addr + b.size <= EndIn(h, e, b.addr - HeaderBytes)
    /\ \A b, c \in B : b.addr = c.addr => b = c

\* The length of a free segment is what is behind its header, except that
\* of the last one when expand_heap has just grown it by the word at NULL:
\* then it is the only one that fits the request r, there is room for it,
\* and split will see a negative remainder and not cut the segment.
Honest(h, e, a) == a + HeaderBytes + h[a].length = EndIn(h, e, a)
Grown(h, l, e, r, S, a) ==
    /\ r # 0 /\ a = l
    /\ h[a].length >= r
    /\ Negative(Remainder(h, a, r))
    /\ a + HeaderBytes + r <= e
    /\ \A c \in S : h[c].free /\ h[c].length >= r => c = a

\* A segment that was grown and handed out in an earlier call.  It still has
\* the length that expand_heap gave it: should it be freed, it fits whatever
\* is asked for next, and is handed out whole again.
Stale(h, e, a) ==
    \A size \in client.sizes :
        /\ h[a].length >= RoundUp(size, Unit)
        /\ Negative(Remainder(h, a, RoundUp(size, Unit)))
        /\ a + HeaderBytes + RoundUp(size, Unit) <= EndIn(h, e, a)

FreeIn(h, l, e, r, S) ==
    \A a \in S : h[a].free => \/ Honest(h, e, a) \/ Stale(h, e, a)
                             \/ Grown(h, l, e, r, S, a)

\* Where blocks are freed, this matters of segments in use, too.
KeptIn(h, e, S) ==
    client.frees = "between" => \A a \in S : Honest(h, e, a) \/ Stale(h, e, a)

\* One expansion leaves the last segment free, a second one makes it fit.
CallIn(S) ==
    /\ request # 0 => asked \in client.sizes /\ request = RoundUp(asked, Unit)
    /\ expansions \in 0 .. 2
    /\ request # 0 /\ expansions = 1 => hdr[last_header].free
    /\ request # 0 /\ expansions = 2 => \E a \in S : Fits(a)

SegmentsAre(S) ==
    /\ Chain(hdr, last_header, heap_end, S)
    /\ BlocksIn(blocks, hdr, heap_end, S)
    /\ FreeIn(hdr, last_header, heap_end, request, S)
    /\ KeptIn(hdr, heap_end, S)
    /\ CallIn(S)

KeepInv ==
    /\ Careful(client) /\ NullWord
    /\ \E S : SegmentsAre(S)

\* The parts of the invariant for the state behind a step.
LEMMA SegmentsNext ==
    ASSUME UNCHANGED client, NEW T, Chain(hdr', last_header', heap_end', T),
           BlocksIn(blocks', hdr', heap_end', T),
           FreeIn(hdr', last_header', heap_end', request', T),
           KeptIn(hdr', heap_end', T), CallIn(T)'
    PROVE  SegmentsAre(T)'
BY DEF SegmentsAre, FreeIn, KeptIn, Stale

LEMMA ChainFacts ==
    ASSUME TypeInv, NEW S, Chain(hdr, last_header, heap_end, S)
    PROVE  /\ S \subseteq Nat /\ IsFiniteSet(S)
           /\ \A a \in S : hdr[a] \in Header /\ EndIn(hdr, heap_end, a) \in Nat
                           /\ a <= last_header
           /\ EndIn(hdr, heap_end, last_header) = heap_end
           /\ \A a \in S : EndIn(hdr, heap_end, a) <= heap_end
           /\ \A a, b \in S : a < b => EndIn(hdr, heap_end, a) <= b
PROOF
<1>1. /\ DOMAIN hdr \subseteq Nat /\ IsFiniteSet(DOMAIN hdr) /\ heap_end \in Nat
      /\ \A a \in DOMAIN hdr : hdr[a] \in Header /\ hdr[a].next \in DOMAIN hdr
  BY DEF TypeInv, ListOK
<1>2. S \subseteq Nat /\ S \subseteq DOMAIN hdr /\ last_header \in S
  BY <1>1 DEF Chain
<1>3. IsFiniteSet(S)
  BY <1>1, <1>2, FS_Subset
<1>4. \A a \in S : hdr[a] \in Header /\ EndIn(hdr, heap_end, a) \in Nat
  BY <1>1, <1>2 DEF EndIn
<1>5. hdr[last_header].next = NULL
  BY <1>2 DEF Chain
<1>6. \A a \in S : a <= last_header
  BY <1>2, <1>5 DEF Chain
<1>7. EndIn(hdr, heap_end, last_header) = heap_end
  BY <1>5 DEF EndIn
<1>8. \A a, b \in S : a < b => EndIn(hdr, heap_end, a) <= b
  BY <1>2 DEF Chain, EndIn
<1>9. ASSUME NEW a \in S PROVE EndIn(hdr, heap_end, a) <= heap_end
  <2>1. CASE a = last_header
    BY <2>1, <1>7, <1>1
  <2>2. CASE a # last_header
    <3>1. EndIn(hdr, heap_end, a) <= last_header
      BY <2>2, <1>2, <1>6, <1>8
    <3>2. last_header + HeaderBytes < heap_end
      BY <1>2, <1>7 DEF Chain
    <3> QED BY <3>1, <3>2, <1>1, <1>2, <1>4, Layout
  <2> QED BY <2>1, <2>2
<1> QED BY <1>2, <1>3, <1>4, <1>6, <1>7, <1>8, <1>9

\* The segment in front of one that is not the first.
LEMMA Before ==
    ASSUME TypeInv, NEW S, Chain(hdr, last_header, heap_end, S), NEW a \in S,
           a # HeapStart
    PROVE  \E p \in S : /\ p < a /\ hdr[p].next = a
                        /\ \A b \in S : b < a <=> b < p \/ b = p
PROOF
<1>1. S \subseteq Nat /\ HeapStart \in S /\ HeapStart < a
  BY ChainFacts DEF Chain
<1> DEFINE B == {b \in S : b < a}
           Gaps == {a - b : b \in B}
<1>2. Gaps \subseteq Nat /\ Gaps # {}
  BY <1>1
<1>3. PICK g \in Gaps : \A k \in Gaps : g <= k
  <2> HIDE DEF Gaps
  <2> QED BY <1>2, Least
<1>4. PICK p \in B : g = a - p
  BY <1>3
<1>5. p \in S /\ p < a
  BY <1>4
<1>6. \A b \in B : b <= p
  <2> SUFFICES ASSUME NEW b \in B PROVE b <= p
    OBVIOUS
  <2>1. a - b \in Gaps
    OBVIOUS
  <2>2. a - p <= a - b
    BY <2>1, <1>3, <1>4
  <2> QED BY <2>2, <1>1
<1>7. PICK n \in S : n = hdr[p].next /\ n # NULL /\ n <= a
  BY <1>5 DEF Chain
<1>8. p < n
  <2>1. p + HeaderBytes < n
    BY <1>5, <1>7 DEF Chain, EndIn
  <2>2. p \in Nat /\ n \in Nat /\ HeaderBytes \in Nat
    BY <1>1, <1>5, Layout
  <2> QED BY <2>1, <2>2
<1>9. hdr[p].next = a
  <2>1. n < a => n \in B
    OBVIOUS
  <2>2. n \in Nat /\ p \in Nat /\ a \in Nat
    BY <1>1, <1>5
  <2> HIDE DEF B
  <2>3. ~ (n < a)
    BY <2>1, <2>2, <1>6, <1>8
  <2> QED BY <1>7, <2>2, <2>3
<1>10. \A b \in S : b < a <=> b < p \/ b = p
  <2> SUFFICES ASSUME NEW b \in S PROVE b < a <=> b < p \/ b = p
    OBVIOUS
  <2>1. b < a => b \in B
    OBVIOUS
  <2>2. b \in Nat /\ p \in Nat /\ a \in Nat
    BY <1>1, <1>5
  <2> HIDE DEF B
  <2> QED BY <2>1, <2>2, <1>5, <1>6
<1> QED BY <1>5, <1>9, <1>10

LEMMA ChainWalked ==
    ASSUME TypeInv, NEW S, Chain(hdr, last_header, heap_end, S)
    PROVE  /\ Segments = S
           /\ \A a \in S : \E n \in DOMAIN Walk : Walk[n] = a
           /\ \A n \in DOMAIN Walk : Walk[n] \in S \cup {NULL}
PROOF
<1> DEFINE C == Cardinality(DOMAIN hdr)
<1>1. /\ C \in Nat
      /\ DOMAIN Walk = 0 .. C
      /\ Walk[0] = HeapStart
      /\ \A n \in DOMAIN Walk :
           n # 0 => Walk[n] = IF Walk[n - 1] = NULL THEN NULL ELSE hdr[Walk[n - 1]].next
  BY WalkSteps DEF TypeInv, ListOK
<1>2. /\ S \subseteq Nat /\ IsFiniteSet(S) /\ S \subseteq DOMAIN hdr
      /\ HeapStart \in S /\ NULL \notin S
      /\ \A a \in S : hdr[a].next \in S \cup {NULL}
  BY ChainFacts DEF Chain
<1> HIDE DEF C
<1>3. ASSUME NEW n \in DOMAIN Walk PROVE Walk[n] \in S \cup {NULL}
  <2> DEFINE Bad == {m \in DOMAIN Walk : Walk[m] \notin S \cup {NULL}}
  <2>1. SUFFICES ASSUME Bad # {} PROVE FALSE
    OBVIOUS
  <2>2. PICK m \in Bad : \A k \in Bad : m <= k
    <3>1. Bad \subseteq Nat
      BY <1>1
    <3> HIDE DEF Bad
    <3> QED BY <2>1, <3>1, Least
  <2>3. m \in DOMAIN Walk /\ m # 0 /\ m - 1 \in DOMAIN Walk
    BY <1>1, <1>2
  <2>4. Walk[m - 1] \in S \cup {NULL}
    BY <2>2, <2>3, <1>1
  <2>5. Walk[m] = IF Walk[m - 1] = NULL THEN NULL ELSE hdr[Walk[m - 1]].next
    BY <1>1, <2>3
  <2> QED BY <2>2, <2>4, <2>5, <1>2
<1> DEFINE Below(a) == {b \in S : b < a}
           Rank(a) == Cardinality(Below(a))
<1>4. \A a \in S : IsFiniteSet(Below(a)) /\ Rank(a) \in 0 .. C
  <2> SUFFICES ASSUME NEW a \in S
               PROVE  IsFiniteSet(Below(a)) /\ Rank(a) \in 0 .. C
    OBVIOUS
  <2>1. Below(a) \in SUBSET DOMAIN hdr /\ IsFiniteSet(DOMAIN hdr)
    BY <1>2 DEF TypeInv, ListOK
  <2> HIDE DEF Below
  <2>2. IsFiniteSet(Below(a)) /\ Rank(a) <= C
    BY <2>1, FS_Subset DEF C
  <2> QED BY <2>2, <1>1, FS_CardinalityType
<1>5. ASSUME NEW a \in S PROVE Walk[Rank(a)] = a
  <2> DEFINE Bad == {b \in S : Walk[Rank(b)] # b}
  <2>1. SUFFICES ASSUME Bad # {} PROVE FALSE
    OBVIOUS
  <2>2. PICK b \in Bad : \A c \in Bad : b <= c
    <3>1. Bad \subseteq Nat
      BY <1>2
    <3> HIDE DEF Bad
    <3> QED BY <2>1, <3>1, Least
  <2>3. b \in S /\ Walk[Rank(b)] # b
    OBVIOUS
  <2>4. b # HeapStart
    <3>1. SUFFICES ASSUME b = HeapStart PROVE FALSE
      OBVIOUS
    <3>2. Below(b) = {}
      BY <3>1, <1>2 DEF Chain
    <3>3. Rank(b) = 0
      BY <3>2, FS_EmptySet
    <3> HIDE DEF Rank
    <3> QED BY <3>1, <3>3, <2>3, <1>1
  <2>5. PICK p \in S : /\ p < b /\ hdr[p].next = b
                       /\ \A c \in S : c < b <=> c < p \/ c = p
    BY <2>3, <2>4, Before
  <2>6. Walk[Rank(p)] = p
    <3>1. ~ (b <= p)
      BY <1>2, <2>3, <2>5
    <3> HIDE DEF Rank
    <3> QED BY <3>1, <2>2, <2>5
  <2>7. Rank(b) = Rank(p) + 1
    <3>1. Below(b) = Below(p) \cup {p} /\ p \notin Below(p)
      <4>1. p \in Nat
        BY <1>2, <2>5
      <4>2. \A c \in S : c < p => c # p
        BY <1>2, <4>1
      <4>3. Below(b) = {c \in S : c < p \/ c = p}
        BY <2>5, Zenon
      <4> QED BY <2>5, <4>2, <4>3
    <3>2. IsFiniteSet(Below(p))
      BY <1>4, <2>5
    <3> HIDE DEF Below
    <3> QED BY <3>1, <3>2, FS_AddElement
  <2>8. Rank(p) \in 0 .. C /\ Rank(b) \in 0 .. C
    BY <1>4, <2>3, <2>5, Zenon
  <2> HIDE DEF Rank
  <2>9. Rank(b) \in DOMAIN Walk /\ Rank(b) # 0 /\ Rank(b) - 1 = Rank(p)
    BY <1>1, <2>7, <2>8
  <2>10. Walk[Rank(b)] = hdr[p].next
    <3>1. p # NULL
      BY <1>2, <2>5
    <3> QED BY <1>1, <2>6, <2>9, <3>1
  <2> QED BY <2>3, <2>5, <2>10
<1>6. \A a \in S : \E n \in DOMAIN Walk : Walk[n] = a
  <2> HIDE DEF Rank
  <2> QED BY <1>1, <1>4, <1>5
<1>7. Segments = S
  <2>1. \A a : a \in Segments => a \in S
    BY <1>3 DEF Segments
  <2>2. \A a \in S : a \in Segments
    BY <1>2, <1>6 DEF Segments
  <2> QED BY <2>1, <2>2, Zenon
<1> QED BY <1>3, <1>6, <1>7, Zenon

LEMMA SizeFacts ==
    ASSUME TypeInv, NegativeAtNull, NEW S, CallIn(S), request # 0
    PROVE  /\ request \in Nat /\ request > 0 /\ asked \in Nat /\ asked <= request
           /\ request < Word /\ NullLength \in Nat
           /\ Word \div 2 \in Nat
           /\ Word \div 2 + request <= NullLength
           /\ NullLength + request + HeaderBytes <= Word
           /\ asked \in client.sizes /\ request = RoundUp(asked, Unit)
PROOF
<1>1. client \in Clients /\ asked \in client.sizes
      /\ request = RoundUp(asked, Unit)
  BY DEF TypeInv, CallIn
<1>2. asked \in Nat /\ asked > 0 /\ request + PageBytes <= Word
  BY <1>1, ClientAssumption
<1>3. request \in Nat /\ asked <= request
  BY <1>1, <1>2, Rounded DEF Unit
<1>4. /\ Word \div 2 + request <= NullLength
      /\ NullLength + request + HeaderBytes <= Word
  BY <1>1 DEF NegativeAtNull
<1>5. Word \div 2 \in Nat /\ NullLength \in Nat
  BY Layout
<1> QED BY <1>1, <1>2, <1>3, <1>4, <1>5, Layout

\* The segment that was found.
LEMMA Found ==
    ASSUME TypeInv, NEW S, Chain(hdr, last_header, heap_end, S),
           FreeIn(hdr, last_header, heap_end, request, S), Allocate
    PROVE  /\ FirstFit \in S /\ Fits(FirstFit)
           /\ \/ Honest(hdr, heap_end, FirstFit) \/ Stale(hdr, heap_end, FirstFit)
              \/ Grown(hdr, last_header, heap_end, request, S, FirstFit)
           /\ \A a \in S : a # FirstFit /\ hdr[a].free =>
                             Honest(hdr, heap_end, a) \/ Stale(hdr, heap_end, a)
PROOF
<1>1. Fitting # {} /\ ListOK(hdr, last_header)
  BY DEF Allocate, TypeInv
<1>2. FirstFit \in S \cup {NULL} /\ Fits(FirstFit)
  BY <1>1, FirstFitFits, ChainWalked
<1>3. FirstFit \in S /\ hdr[FirstFit].free /\ hdr[FirstFit].length >= request
  BY <1>2 DEF Fits
<1>4. \A a \in S : hdr[a].free => \/ Honest(hdr, heap_end, a) \/ Stale(hdr, heap_end, a)
                                  \/ a = FirstFit
  BY <1>2, <1>3 DEF FreeIn, Grown
<1> QED BY <1>2, <1>3, <1>4 DEF FreeIn

\* In a call that must expand, no segment fits and all free ones are honest.
LEMMA NothingFits ==
    ASSUME TypeInv, NEW S, Chain(hdr, last_header, heap_end, S),
           FreeIn(hdr, last_header, heap_end, request, S), Fitting = {},
           asked \in client.sizes, request = RoundUp(asked, Unit)
    PROVE  /\ \A a \in S : ~Fits(a)
           /\ \A a \in S : hdr[a].free => Honest(hdr, heap_end, a)
                           /\ hdr[a].length < request
PROOF
<1>1. \A a \in S : ~Fits(a)
  BY ChainWalked DEF Fitting
<1>2. \A a \in S : a # NULL /\ hdr[a] \in Header
  BY ChainFacts DEF Chain
<1>3. ASSUME NEW a \in S, hdr[a].free PROVE Honest(hdr, heap_end, a)
             /\ hdr[a].length < request
  <2>1. hdr[a].length \in Nat /\ request \in Nat
    BY <1>2, HeaderFields DEF TypeInv, CallOK
  <2>2. hdr[a].length < request
    BY <1>1, <1>2, <1>3, <2>1 DEF Fits
  <2>3. ~Grown(hdr, last_header, heap_end, request, S, a) /\ ~Stale(hdr, heap_end, a)
    BY <2>1, <2>2 DEF Grown, Stale
  <2> QED BY <2>2, <2>3, <1>3 DEF FreeIn
<1> QED BY <1>1, <1>3

\* The list after split and the mark, header by header.
Cut(this, new, next) ==
    /\ DOMAIN hdr' = DOMAIN hdr \cup {new}
    /\ hdr'[new] = SplitHeader(hdr, this, request)
    /\ hdr'[this].next = new /\ hdr'[this].last = hdr[this].last
    /\ ~hdr'[this].free /\ hdr'[this].length = request
    /\ hdr'[next].last = new /\ hdr'[next].next = hdr[next].next
    /\ hdr'[next].length = hdr[next].length /\ hdr'[next].free = hdr[next].free
    /\ \A a \in DOMAIN hdr : a \notin {this, new, next} => hdr'[a] = hdr[a]

LEMMA SplitMarked ==
    ASSUME TypeInv, NEW this \in DOMAIN hdr \ {NULL}, Splits(hdr, this, request),
           NEW new, new = this + request + HeaderBytes,
           NEW next, next = hdr[this].next, next # this, next # new,
           request \in Nat, request < Word,
           NEW s, s = Split(Now, this, request),
           hdr' = [s.hdr EXCEPT ![this].free = FALSE]
    PROVE  /\ s.last = IF last_header = this THEN new ELSE last_header
           /\ Cut(this, new, next)
PROOF
<1> DEFINE h1 == [hdr EXCEPT ![next].last = new]
           h2 == [h1 EXCEPT ![this].next = new]
           h3 == [h2 EXCEPT ![this].length = request]
           h4 == Put(h3, new, SplitHeader(hdr, this, request))
<1>1. /\ this \in Nat /\ this \in DOMAIN hdr /\ next \in DOMAIN hdr
      /\ hdr[this] \in Header /\ hdr[next] \in Header
  BY DEF TypeInv, ListOK
<1>2. new \in Nat /\ new # this
  BY <1>1, Layout
<1>3. s = [hdr |-> h4, last |-> IF last_header = this THEN new ELSE last_header]
  BY SplitIs, Zenon DEF Now
<1>4. s.hdr = h4 /\ s.last = IF last_header = this THEN new ELSE last_header
  <2> HIDE DEF h4
  <2> QED BY <1>3
<1>5. /\ DOMAIN h1 = DOMAIN hdr /\ h1[next] = [hdr[next] EXCEPT !.last = new]
      /\ \A a \in DOMAIN hdr : a # next => h1[a] = hdr[a]
  BY <1>1
<1>6. /\ DOMAIN h2 = DOMAIN hdr /\ h2[this] = [hdr[this] EXCEPT !.next = new]
      /\ \A a \in DOMAIN hdr : a # this => h2[a] = h1[a]
  <2> HIDE DEF h1
  <2> QED BY <1>1, <1>5
<1>7. /\ DOMAIN h3 = DOMAIN hdr /\ h3[this] = [h2[this] EXCEPT !.length = request]
      /\ \A a \in DOMAIN hdr : a # this => h3[a] = h2[a]
  <2> HIDE DEF h2
  <2> QED BY <1>1, <1>6
<1>8. /\ DOMAIN h4 = DOMAIN hdr \cup {new}
         /\ h4[new] = SplitHeader(hdr, this, request)
      /\ \A a \in DOMAIN hdr : a # new => h4[a] = h3[a]
  <2> HIDE DEF h3
  <2> QED BY <1>1, <1>7 DEF Put
<1>9. /\ DOMAIN hdr' = DOMAIN hdr \cup {new}
      /\ hdr'[this] = [h4[this] EXCEPT !.free = FALSE]
      /\ \A a \in DOMAIN hdr' : a # this => hdr'[a] = h4[a]
  <2> HIDE DEF h4
  <2> QED BY <1>1, <1>4, <1>8
<1> HIDE DEF h1, h2, h3, h4
<1>10. /\ h2[this] \in Header /\ h2[this].next = new
          /\ h2[this].last = hdr[this].last
  <2>1. \A y \in Nat : /\ [hdr[this] EXCEPT !.next = y] \in Header
                       /\ [hdr[this] EXCEPT !.next = y].next = y
                       /\ [hdr[this] EXCEPT !.next = y].last = hdr[this].last
    BY <1>1, NextSet
  <2> QED BY <1>2, <1>6, <2>1
<1>11. /\ h3[this] \in Header /\ h3[this].next = new
       /\ h3[this].last = hdr[this].last /\ h3[this].length = request
  <2>1. request \in 0 .. Word - 1
    BY Layout
  <2> QED BY <1>7, <1>10, <2>1, LengthSet
<1>12. h4[this] = h3[this]
  BY <1>1, <1>2, <1>8
<1>13. /\ hdr'[this].next = new /\ hdr'[this].last = hdr[this].last
       /\ ~hdr'[this].free /\ hdr'[this].length = request
  <2>1. \A y \in BOOLEAN : /\ [h3[this] EXCEPT !.free = y].last = h3[this].last
                           /\ [h3[this] EXCEPT !.free = y].length = h3[this].length
                           /\ [h3[this] EXCEPT !.free = y].next = h3[this].next
                           /\ [h3[this] EXCEPT !.free = y].free = y
    BY <1>11, FreeSet
  <2> QED BY <1>9, <1>11, <1>12, <2>1
<1>14. hdr'[next] = [hdr[next] EXCEPT !.last = new]
  <2>1. hdr'[next] = h4[next] /\ h4[next] = h3[next]
    BY <1>1, <1>8, <1>9
  <2>2. h3[next] = h2[next] /\ h2[next] = h1[next]
    BY <1>1, <1>6, <1>7
  <2> QED BY <2>1, <2>2, <1>5
<1>15. /\ hdr'[next].last = new /\ hdr'[next].next = hdr[next].next
       /\ hdr'[next].length = hdr[next].length /\ hdr'[next].free = hdr[next].free
  <2>1. /\ [hdr[next] EXCEPT !.last = new].last = new
        /\ [hdr[next] EXCEPT !.last = new].next = hdr[next].next
        /\ [hdr[next] EXCEPT !.last = new].length = hdr[next].length
        /\ [hdr[next] EXCEPT !.last = new].free = hdr[next].free
    BY <1>1, <1>2, LastSet, Zenon
  <2> QED BY <1>14, <2>1, Zenon
<1>16. ASSUME NEW a \in DOMAIN hdr,
              a \notin {this, new, next} PROVE hdr'[a] = hdr[a]
  BY <1>5, <1>6, <1>7, <1>8, <1>9, <1>16
<1>17. hdr'[new] = SplitHeader(hdr, this, request)
  BY <1>2, <1>8, <1>9
<1> QED BY <1>4, <1>9, <1>13, <1>15, <1>16, <1>17 DEF Cut

\* A step that takes the segment this for a block and leaves the others.
Claims(S, this) ==
    /\ hdr[this].free /\ ~hdr'[this].free
    /\ \A a \in S : a # this =>
         /\ hdr'[a].free = hdr[a].free
         /\ EndIn(hdr', heap_end', a) = EndIn(hdr, heap_end, a)
    /\ this + HeaderBytes + asked <= EndIn(hdr', heap_end', this)
    /\ blocks' = blocks \cup {[addr |-> this + HeaderBytes, size |-> asked]}

\* The new block has the segment that was found to itself.
LEMMA BlockAdded ==
    ASSUME TypeInv, NEW S, Chain(hdr, last_header, heap_end, S),
           BlocksIn(blocks, hdr, heap_end, S), NEW T, S \subseteq T,
           NEW this \in S, asked \in Nat, Claims(S, this)
    PROVE  BlocksIn(blocks', hdr', heap_end', T)
PROOF
<1>1. this \in Nat /\ HeaderBytes \in Nat
  BY ChainFacts, Layout
<1> DEFINE new == [addr |-> this + HeaderBytes, size |-> asked]
<1>2. /\ new.addr \in Nat /\ new.size \in Nat
      /\ new.addr - HeaderBytes = this
         /\ new.addr + new.size = this + HeaderBytes + asked
  BY <1>1
<1>3. ASSUME NEW b \in blocks
      PROVE  /\ b.addr \in Nat /\ b.size \in Nat
             /\ b.addr - HeaderBytes \in S /\ b.addr # new.addr
             /\ ~hdr'[b.addr - HeaderBytes].free
             /\ b.addr + b.size <= EndIn(hdr', heap_end', b.addr - HeaderBytes)
  <2>1. /\ b.addr \in Nat /\ b.size \in Nat /\ b.addr - HeaderBytes \in S
        /\ ~hdr[b.addr - HeaderBytes].free
        /\ b.addr + b.size <= EndIn(hdr, heap_end, b.addr - HeaderBytes)
    BY DEF BlocksIn
  <2>2. PICK a \in S : a = b.addr - HeaderBytes
    BY <2>1
  <2>3. a # this
    BY <2>1, <2>2 DEF Claims
  <2>4. hdr'[a].free = hdr[a].free
        /\ EndIn(hdr', heap_end', a) = EndIn(hdr, heap_end, a)
    BY <2>3 DEF Claims
  <2>5. b.addr # new.addr
    BY <1>2, <2>2, <2>3
  <2> HIDE DEF new
  <2> QED BY <2>1, <2>2, <2>4, <2>5
<1> HIDE DEF new
<1>4. \A b \in blocks' : b \in blocks \/ b = new
  BY DEF new, Claims
<1>5. \A b, c \in blocks' : b.addr = c.addr => b = c
  BY <1>3, <1>4 DEF BlocksIn
<1>6. ASSUME NEW b \in blocks'
      PROVE  /\ b.addr \in Nat /\ b.size \in Nat /\ b.addr - HeaderBytes \in T
             /\ ~hdr'[b.addr - HeaderBytes].free
             /\ b.addr + b.size <= EndIn(hdr', heap_end', b.addr - HeaderBytes)
  <2>1. CASE b \in blocks
    BY <2>1, <1>3
  <2>2. CASE b = new
    BY <2>2, <1>2 DEF Claims
  <2> QED BY <2>1, <2>2, <1>4
<1> QED BY <1>5, <1>6 DEF BlocksIn

\* A segment of which only the mark changes.
LEMMA Marked ==
    ASSUME TypeInv, NullWord, NEW S, Chain(hdr, last_header, heap_end, S),
           NEW this \in S, NEW mark \in BOOLEAN,
           hdr' = [hdr EXCEPT ![this].free = mark],
           UNCHANGED <<last_header, heap_end>>
    PROVE  /\ NullWord' /\ Chain(hdr', last_header', heap_end', S)
           /\ hdr'[this].free = mark
           /\ \A a \in S : /\ a # this => hdr'[a].free = hdr[a].free
                           /\ hdr'[a].length = hdr[a].length
                           /\ EndIn(hdr', heap_end', a) = EndIn(hdr, heap_end, a)
PROOF
<1>1. /\ this \in DOMAIN hdr /\ this # NULL /\ S \subseteq DOMAIN hdr
      /\ hdr[this] \in Header /\ NULL \in DOMAIN hdr
  BY ChainFacts DEF Chain, TypeInv, ListOK
<1>2. /\ DOMAIN hdr' = DOMAIN hdr /\ hdr'[this].free = mark
      /\ hdr'[this].next = hdr[this].next /\ hdr'[this].last = hdr[this].last
      /\ hdr'[this].length = hdr[this].length
      /\ \A a \in DOMAIN hdr : a # this => hdr'[a] = hdr[a]
  <2>1. hdr'[this] = [hdr[this] EXCEPT !.free = mark]
    BY <1>1
  <2>2. /\ [hdr[this] EXCEPT !.free = mark].next = hdr[this].next
        /\ [hdr[this] EXCEPT !.free = mark].last = hdr[this].last
        /\ [hdr[this] EXCEPT !.free = mark].length = hdr[this].length
        /\ [hdr[this] EXCEPT !.free = mark].free = mark
    BY <1>1, FreeSet
  <2> QED BY <1>1, <2>1, <2>2
<1>3. \A a \in DOMAIN hdr : /\ hdr'[a].next = hdr[a].next
                            /\ hdr'[a].last = hdr[a].last
                            /\ hdr'[a].length = hdr[a].length
  BY <1>2
<1>4. \A a \in S : EndIn(hdr', heap_end', a) = EndIn(hdr, heap_end, a)
  BY <1>1, <1>3 DEF EndIn
<1>5. NullWord'
  BY <1>1, <1>2 DEF NullWord
<1>6. Chain(hdr', last_header', heap_end', S)
  <2>1. ASSUME NEW a \in S
        PROVE  /\ hdr'[a].next = hdr[a].next
               /\ hdr[a].next # NULL => hdr'[hdr[a].next].last = hdr[hdr[a].next].last
    BY <1>1, <1>3 DEF Chain
  <2>2. ASSUME NEW a \in S
        PROVE  /\ HeapStart <= a /\ a + HeaderBytes < EndIn(hdr', heap_end', a)
               /\ hdr'[a].next \in S \cup {NULL}
               /\ hdr'[a].next = NULL <=> a = last_header'
               /\ hdr'[a].next # NULL => hdr'[hdr'[a].next].last = a
    BY <1>4, <2>1 DEF Chain
  <2>3. \A a, b \in S : a < b => hdr'[a].next # NULL /\ hdr'[a].next <= b
    BY <2>1 DEF Chain
  <2> QED BY <1>2, <2>2, <2>3 DEF Chain
<1> QED BY <1>1, <1>2, <1>3, <1>4, <1>5, <1>6

\* What is said of a length stays true of a segment that keeps it.
LEMMA SameLength ==
    ASSUME NEW a, hdr'[a].length = hdr[a].length,
           EndIn(hdr', heap_end', a) = EndIn(hdr, heap_end, a)
    PROVE  /\ Honest(hdr, heap_end, a) => Honest(hdr', heap_end', a)
           /\ Stale(hdr, heap_end, a) => Stale(hdr', heap_end', a)
BY DEF Honest, Stale, Remainder

\* A segment that is taken as it is.
LEMMA TakenWhole ==
    ASSUME TypeInv, NullWord, NEW S,
           Chain(hdr, last_header, heap_end, S),
           BlocksIn(blocks, hdr, heap_end, S), KeptIn(hdr, heap_end, S),
           NEW this \in S, hdr[this].free, asked \in Nat,
           \A a \in S : a # this /\ hdr[a].free =>
                            Honest(hdr, heap_end, a) \/ Stale(hdr, heap_end, a),
           this + HeaderBytes + asked <= EndIn(hdr, heap_end, this),
           hdr' = [hdr EXCEPT ![this].free = FALSE],
           UNCHANGED <<last_header, heap_end>>,
           blocks' = blocks \cup {[addr |-> this + HeaderBytes, size |-> asked]}
    PROVE  /\ NullWord' /\ Chain(hdr', last_header', heap_end', S)
           /\ BlocksIn(blocks', hdr', heap_end', S)
           /\ FreeIn(hdr', last_header', heap_end', request', S)
           /\ KeptIn(hdr', heap_end', S)
PROOF
<1>1. /\ NullWord' /\ Chain(hdr', last_header', heap_end', S)
      /\ hdr'[this].free = FALSE
      /\ \A a \in S : /\ a # this => hdr'[a].free = hdr[a].free
                      /\ hdr'[a].length = hdr[a].length
                      /\ EndIn(hdr', heap_end', a) = EndIn(hdr, heap_end, a)
  BY Marked
<1>2. BlocksIn(blocks', hdr', heap_end', S)
  <2>1. Claims(S, this)
    BY <1>1 DEF Claims
  <2> QED BY <2>1, BlockAdded
<1>3. \A a \in S : /\ Honest(hdr, heap_end, a) => Honest(hdr', heap_end', a)
                   /\ Stale(hdr, heap_end, a) => Stale(hdr', heap_end', a)
  BY <1>1, SameLength
<1>4. FreeIn(hdr', last_header', heap_end', request', S)
  BY <1>1, <1>3 DEF FreeIn
<1>5. KeptIn(hdr', heap_end', S)
  BY <1>3 DEF KeptIn
<1> QED BY <1>1, <1>2, <1>4, <1>5

\* A segment that is split: the rest of it is a segment of its own.
LEMMA TakenSplit ==
    ASSUME TypeInv, TypeInv', NullWord, NEW S,
           Chain(hdr, last_header, heap_end, S),
           BlocksIn(blocks, hdr, heap_end, S), KeptIn(hdr, heap_end, S),
           NEW this \in S, hdr[this].free, Honest(hdr, heap_end, this),
           \A a \in S : a # this /\ hdr[a].free =>
                            Honest(hdr, heap_end, a) \/ Stale(hdr, heap_end, a),
           request \in Nat, request > 0, request < Word,
           asked \in Nat, asked <= request,
           Splits(hdr, this, request),
           Remainder(hdr, this, request) = hdr[this].length - request - HeaderBytes,
           NEW s, s = Split(Now, this, request),
           hdr' = [s.hdr EXCEPT ![this].free = FALSE],
           last_header' = s.last, UNCHANGED heap_end,
           blocks' = blocks \cup {[addr |-> this + HeaderBytes, size |-> asked]}
    PROVE  \E T : /\ NullWord' /\ Chain(hdr', last_header', heap_end', T)
                 /\ BlocksIn(blocks', hdr', heap_end', T)
                 /\ FreeIn(hdr', last_header', heap_end', request', T)
                 /\ KeptIn(hdr', heap_end', T)
PROOF
<1> DEFINE new == this + request + HeaderBytes
           next == hdr[this].next
           T == S \cup {new}
<1>1. /\ this \in DOMAIN hdr /\ this # NULL /\ S \subseteq DOMAIN hdr
         /\ S \subseteq Nat
      /\ hdr[this] \in Header /\ NULL \in DOMAIN hdr /\ NULL \notin S
      /\ EndIn(hdr, heap_end, this) \in Nat /\ HeapStart <= this
         /\ last_header \in S
      /\ hdr[this].length \in Nat /\ HeaderBytes \in Nat /\ HeaderBytes > 0
      /\ HeapStart \in Nat /\ HeapStart > 0 /\ heap_end \in Nat
  <2>1. hdr[this] \in Header
    BY ChainFacts
  <2>2. hdr[this].length \in Nat
    BY <2>1, HeaderFields
  <2> QED BY <2>1, <2>2, ChainFacts, Layout DEF Chain, TypeInv, ListOK, NULL
<1>2. /\ new \in Nat /\ this < new
         /\ new + HeaderBytes < EndIn(hdr, heap_end, this)
      /\ new + HeaderBytes + Remainder(hdr, this, request) = EndIn(hdr, heap_end, this)
      /\ this + HeaderBytes < new /\ this + HeaderBytes + asked <= new
  <2>1. Remainder(hdr, this, request) >= 16
    BY DEF Splits, Unit
  <2>2. this + HeaderBytes + hdr[this].length = EndIn(hdr, heap_end, this)
    BY DEF Honest
  <2>3. this \in Nat
    BY <1>1
  <2> QED BY <1>1, <2>1, <2>2, <2>3
<1>3. \A a, b \in S : a < b => hdr[a].next # NULL /\ hdr[a].next <= b
                      /\ EndIn(hdr, heap_end, a) <= b
  BY ChainFacts DEF Chain
<1>4. new \notin S /\ new # NULL /\ new # this
  <2>1. new # NULL /\ new # this
    BY <1>1, <1>2 DEF NULL
  <2>2. ASSUME new \in S PROVE FALSE
    <3>1. EndIn(hdr, heap_end, this) <= new
      BY <1>2, <1>3, <2>2
    <3> QED BY <1>1, <1>2, <3>1
  <2> QED BY <2>1, <2>2
<1>5. /\ next \in S \cup {NULL} /\ next # new /\ next # this
  <2>1. next \in S \cup {NULL}
    BY DEF Chain
  <2>2. next # NULL => next = EndIn(hdr, heap_end, this)
    BY DEF EndIn
  <2>3. next # this
    BY <1>1, <1>2, <2>2
  <2> QED BY <2>1, <2>3, <1>4
<1> HIDE DEF new, next
<1>6. /\ s.last = IF last_header = this THEN new ELSE last_header
      /\ DOMAIN hdr' = DOMAIN hdr \cup {new}
      /\ hdr'[new] = SplitHeader(hdr, this, request)
      /\ hdr'[this].next = new /\ hdr'[this].last = hdr[this].last
      /\ ~hdr'[this].free /\ hdr'[this].length = request
      /\ hdr'[next].last = new /\ hdr'[next].next = hdr[next].next
      /\ hdr'[next].length = hdr[next].length /\ hdr'[next].free = hdr[next].free
      /\ \A a \in DOMAIN hdr : a \notin {this, new, next} => hdr'[a] = hdr[a]
  <2>1. this \in DOMAIN hdr \ {NULL}
    BY <1>1
  <2>2. new = this + request + HeaderBytes /\ next = hdr[this].next
    BY DEF new, next
  <2>3. /\ s.last = IF last_header = this THEN new ELSE last_header
        /\ Cut(this, new, next)
    BY <2>1, <2>2, <1>5, SplitMarked
  <2> QED BY <2>3 DEF Cut
<1>7. /\ hdr'[new].length = Remainder(hdr, this, request) /\ hdr'[new].next = next
      /\ hdr'[new].last = this
  BY <1>6 DEF SplitHeader, next
<1>8. \A a \in S : a # this => /\ hdr'[a].next = hdr[a].next
                               /\ hdr'[a].length = hdr[a].length
                               /\ hdr'[a].free = hdr[a].free
                               /\ a # next => hdr'[a].last = hdr[a].last
  BY <1>1, <1>4, <1>6
<1>9. /\ EndIn(hdr', heap_end', this) = new
         /\ EndIn(hdr', heap_end', new) = EndIn(hdr, heap_end, this)
      /\ \A a \in S : a # this => EndIn(hdr', heap_end', a) = EndIn(hdr, heap_end, a)
  <2>1. EndIn(hdr', heap_end', this) = new
    BY <1>4, <1>6 DEF EndIn
  <2>2. EndIn(hdr', heap_end', new) = EndIn(hdr, heap_end, this)
    BY <1>7 DEF EndIn, next
  <2> QED BY <2>1, <2>2, <1>8 DEF EndIn
<1>10. NullWord'
  <2>1. CASE next = NULL
    BY <2>1, <1>6 DEF NullWord
  <2>2. CASE next # NULL
    <3>1. hdr'[NULL] = hdr[NULL]
      BY <2>2, <1>1, <1>4, <1>6
    <3> QED BY <3>1 DEF NullWord
  <2> QED BY <2>1, <2>2
<1>11. last_header' = IF last_header = this THEN new ELSE last_header
  BY <1>6
<1>12. Chain(hdr', last_header', heap_end', T)
  <2>1. /\ T \subseteq DOMAIN hdr' /\ NULL \notin T /\ HeapStart \in T
           /\ last_header' \in T
    BY <1>1, <1>4, <1>6, <1>11 DEF Chain
  <2>2. ASSUME NEW a \in T
        PROVE  /\ HeapStart <= a /\ a + HeaderBytes < EndIn(hdr', heap_end', a)
               /\ hdr'[a].next \in T \cup {NULL}
               /\ hdr'[a].next = NULL <=> a = last_header'
               /\ hdr'[a].next # NULL => hdr'[hdr'[a].next].last = a
    <3>1. CASE a = this
      <4>1. HeapStart <= a /\ a + HeaderBytes < EndIn(hdr', heap_end', a)
        BY <3>1, <1>1, <1>2, <1>9 DEF new
      <4>2. hdr'[a].next = new /\ new # NULL /\ a # last_header'
            /\ hdr'[new].last = a
        BY <3>1, <1>4, <1>6, <1>7, <1>11
      <4> QED BY <4>1, <4>2
    <3>2. CASE a = new
      <4>1. HeapStart <= a /\ a + HeaderBytes < EndIn(hdr', heap_end', a)
        <5>1. this \in Nat /\ this < new /\ new \in Nat
          BY <1>1, <1>2 DEF new
        <5>2. HeapStart <= new
          BY <5>1, <1>1
        <5>3. new + HeaderBytes < EndIn(hdr, heap_end, this)
          BY <1>2 DEF new
        <5> QED BY <3>2, <5>2, <5>3, <1>9
      <4>2. hdr'[a].next = next /\ next \in T \cup {NULL}
        BY <3>2, <1>5, <1>7
      <4>3. next = NULL <=> this = last_header
        BY DEF Chain, next
      <4>4. last_header' = new <=> this = last_header
        BY <1>4, <1>11, <1>1
      <4>5. next # NULL => hdr'[next].last = a
        BY <3>2, <1>6
      <4> QED BY <3>2, <4>1, <4>2, <4>3, <4>4, <4>5
    <3>3. CASE a \in S /\ a # this
      <4>1. HeapStart <= a /\ a + HeaderBytes < EndIn(hdr', heap_end', a)
        BY <3>3, <1>9 DEF Chain
      <4>2. hdr'[a].next = hdr[a].next /\ hdr[a].next \in S \cup {NULL}
        BY <3>3, <1>8 DEF Chain
      <4>3. hdr[a].next = NULL <=> a = last_header'
        BY <3>3, <1>4, <1>11 DEF Chain
      <4>4. hdr[a].next # NULL => hdr'[hdr[a].next].last = a
        <5> SUFFICES ASSUME hdr[a].next # NULL PROVE hdr'[hdr[a].next].last = a
          OBVIOUS
        <5>1. PICK m \in S : m = hdr[a].next
          BY <4>2
        <5>2. hdr[m].last = a /\ m # NULL
          BY <3>3, <5>1 DEF Chain
        <5>3. m # next
          <6>1. next # NULL => hdr[next].last = this
            BY DEF Chain, next
          <6> QED BY <3>3, <5>1, <5>2, <6>1
        <5>4. hdr'[m].last = hdr[m].last
          BY <5>3, <1>6, <1>8
        <5> QED BY <5>1, <5>2, <5>4
      <4> QED BY <4>1, <4>2, <4>3, <4>4
    <3> QED BY <3>1, <3>2, <3>3
  <2>3. ASSUME NEW a \in T, NEW b \in T, a < b
        PROVE  hdr'[a].next # NULL /\ hdr'[a].next <= b
    <3>1. CASE a \in S /\ a # this /\ b \in S
      BY <3>1, <2>3, <1>3, <1>8
    <3>2. CASE a = this
      <4>1. hdr'[a].next = new /\ new # NULL
        BY <3>2, <1>4, <1>6
      <4>2. CASE b = new
        BY <4>1, <4>2, <1>2 DEF new
      <4>3. CASE b \in S
        <5>1. EndIn(hdr, heap_end, this) <= b
          BY <3>2, <4>3, <2>3, <1>3
        <5>2. new <= b
          BY <5>1, <4>3, <1>1, <1>2 DEF new
        <5> QED BY <4>1, <5>2
      <4> QED BY <4>2, <4>3
    <3>3. CASE a = new
      <4>1. b \in S
        BY <3>3, <2>3, <1>2 DEF new
      <4>2. this < b
        BY <3>3, <4>1, <2>3, <1>1, <1>2 DEF new
      <4>3. next # NULL /\ next <= b
        BY <4>1, <4>2, <1>3 DEF next
      <4> QED BY <3>3, <4>3, <1>7
    <3>4. CASE a \in S /\ a # this /\ b = new
      <4>1. a < this
        <5> SUFFICES ASSUME this < a PROVE FALSE
          BY <3>4, <1>1
        <5>1. EndIn(hdr, heap_end, this) <= a
          BY <3>4, <1>3
        <5> QED BY <5>1, <3>4, <2>3, <1>1, <1>2 DEF new
      <4>2. hdr[a].next # NULL /\ hdr[a].next <= this /\ hdr[a].next \in S
        BY <3>4, <4>1, <1>3 DEF Chain
      <4>3. hdr[a].next <= new
        BY <4>2, <1>1, <1>2 DEF new
      <4> QED BY <3>4, <4>2, <4>3, <1>8
    <3> QED BY <3>1, <3>2, <3>3, <3>4
  <2> HIDE DEF T
  <2> QED BY <2>1, <2>2, <2>3 DEF Chain
<1>13. BlocksIn(blocks', hdr', heap_end', T)
  <2>1. Claims(S, this)
    BY <1>2, <1>6, <1>8, <1>9 DEF Claims, new
  <2>2. S \subseteq T
    OBVIOUS
  <2> HIDE DEF T
  <2> QED BY <2>1, <2>2, BlockAdded
<1>14. /\ Honest(hdr', heap_end', new) /\ Honest(hdr', heap_end', this)
       /\ \A a \in S : a # this =>
             /\ Honest(hdr, heap_end, a) => Honest(hdr', heap_end', a)
             /\ Stale(hdr, heap_end, a) => Stale(hdr', heap_end', a)
  <2>1. Honest(hdr', heap_end', new)
    BY <1>2, <1>7, <1>9 DEF Honest, new
  <2>2. Honest(hdr', heap_end', this)
    <3>1. new = this + HeaderBytes + request
      BY <1>1 DEF new
    <3>2. hdr'[this].length = request /\ EndIn(hdr', heap_end', this) = new
      BY <1>6, <1>9
    <3> QED BY <3>1, <3>2 DEF Honest
  <2>3. ASSUME NEW a \in S, a # this
        PROVE  /\ Honest(hdr, heap_end, a) => Honest(hdr', heap_end', a)
               /\ Stale(hdr, heap_end, a) => Stale(hdr', heap_end', a)
    <3>1. /\ hdr'[a].length = hdr[a].length
          /\ EndIn(hdr', heap_end', a) = EndIn(hdr, heap_end, a)
      BY <2>3, <1>8, <1>9
    <3> QED BY <3>1, SameLength
  <2> QED BY <2>1, <2>2, <2>3
<1>15. FreeIn(hdr', last_header', heap_end', request', T)
  BY <1>6, <1>8, <1>14 DEF FreeIn
<1>16. KeptIn(hdr', heap_end', T)
  BY <1>14 DEF KeptIn
<1> QED BY <1>10, <1>12, <1>13, <1>15, <1>16

\* The remainder of a segment that fits is its real one, or negative.
LEMMA RemainderIs ==
    ASSUME TypeInv, NEW this, hdr[this] \in Header,
           request \in Nat, hdr[this].length >= request,
           Word \div 2 \in Nat,
           Word \div 2 + request + request + HeaderBytes <= Word
    PROVE  \/ Remainder(hdr, this, request) = hdr[this].length - request - HeaderBytes
           \/ Negative(Remainder(hdr, this, request))
PROOF
<1> DEFINE x == hdr[this].length - request - HeaderBytes
           half == Word \div 2
<1>1. /\ hdr[this].length \in Nat /\ hdr[this].length < Word
      /\ HeaderBytes \in Nat /\ Word \in Nat /\ Word > 0
  BY HeaderFields, Layout
<1>2. x \in Int /\ x < Word /\ x >= -HeaderBytes
  BY <1>1
<1>3. Remainder(hdr, this, request) = x % Word
  BY DEF Remainder
<1>4. CASE x >= 0
  <2>1. x % Word = x
    <3> HIDE DEF x
    <3>1. x \in Nat /\ Word \in Nat
      BY <1>1, <1>2, <1>4
    <3> QED BY <3>1, <1>2, SmallModulo
  <2> QED BY <1>3, <2>1
<1>5. CASE x < 0
  <2>1. half \in Nat /\ half + HeaderBytes <= Word
    BY <1>1
  <2> HIDE DEF x, half
  <2>2. x % Word = x + Word
    BY <1>1, <1>2, <1>5, <2>1
  <2>3. x % Word >= half
    BY <1>1, <1>2, <2>1, <2>2
  <2> QED BY <1>3, <2>3 DEF Negative, half
<1> QED BY <1>2, <1>4, <1>5

LEMMA AllocateKeeps ==
    TypeInv /\ TypeInv' /\ NegativeAtNull /\ KeepInv /\ Allocate => KeepInv'
PROOF
<1> SUFFICES ASSUME TypeInv, TypeInv', NegativeAtNull, KeepInv, Allocate
             PROVE  KeepInv'
  OBVIOUS
<1>1. PICK S : SegmentsAre(S)
  BY DEF KeepInv
<1>2. /\ Chain(hdr, last_header, heap_end, S)
      /\ BlocksIn(blocks, hdr, heap_end, S)
      /\ FreeIn(hdr, last_header, heap_end, request, S)
      /\ KeptIn(hdr, heap_end, S) /\ CallIn(S)
      /\ NullWord /\ Careful(client) /\ request # 0
  BY <1>1 DEF SegmentsAre, KeepInv, Allocate
<1>3. /\ request \in Nat /\ request > 0 /\ asked \in Nat /\ asked <= request
      /\ request < Word /\ NullLength \in Nat
      /\ Word \div 2 \in Nat
      /\ Word \div 2 + request <= NullLength
      /\ NullLength + request + HeaderBytes <= Word
      /\ asked \in client.sizes /\ request = RoundUp(asked, Unit)
  BY <1>2, SizeFacts
<1>4. PICK this, s :
        /\ this = FirstFit
        /\ s = IF hdr[this].length > request THEN Split(Now, this, request) ELSE Now
        /\ Become([s EXCEPT !.hdr[this].free = FALSE])
        /\ blocks' = blocks \cup {[addr |-> this + HeaderBytes, size |-> asked]}
  BY Zenon DEF Allocate
<1>5. /\ this \in S /\ Fits(this)
      /\ \/ Honest(hdr, heap_end, this) \/ Stale(hdr, heap_end, this)
         \/ Grown(hdr, last_header, heap_end, request, S, this)
      /\ \A a \in S : a # this /\ hdr[a].free =>
                       Honest(hdr, heap_end, a) \/ Stale(hdr, heap_end, a)
  BY <1>2, <1>4, Found
<1>6. /\ hdr[this].free /\ hdr[this].length >= request
      /\ hdr[this] \in Header /\ hdr[this].length \in Nat /\ this \in Nat
      /\ HeaderBytes \in Nat
  <2>1. hdr[this] \in Header /\ this \in Nat
    BY <1>2, <1>5, ChainFacts
  <2> QED BY <1>5, <2>1, HeaderFields, Layout DEF Fits
<1>7. s = [hdr |-> s.hdr, last |-> s.last]
  BY <1>4 DEF Split, Now
<1>8. hdr' = [s.hdr EXCEPT ![this].free = FALSE] /\ last_header' = s.last
  BY <1>4, <1>7 DEF Become
<1>9. UNCHANGED <<client, heap_end, asked, expansions>> /\ request' = 0
  BY DEF Allocate
<1>10. \E T : /\ NullWord' /\ Chain(hdr', last_header', heap_end', T)
              /\ BlocksIn(blocks', hdr', heap_end', T)
              /\ FreeIn(hdr', last_header', heap_end', request', T)
              /\ KeptIn(hdr', heap_end', T)
  <2>1. CASE hdr[this].length > request /\ Splits(hdr, this, request)
    <3>1. s = Split(Now, this, request)
      BY <1>4, <2>1
    <3>2. ~Negative(Remainder(hdr, this, request))
      BY <2>1 DEF Splits
    <3>3. Honest(hdr, heap_end, this)
      BY <1>3, <1>5, <3>2 DEF Grown, Stale
    <3>4. Remainder(hdr, this, request) = hdr[this].length - request - HeaderBytes
      <4>1. Word \div 2 + request + request + HeaderBytes <= Word
        <5> DEFINE half == Word \div 2
        <5>1. /\ half \in Nat /\ half + request <= NullLength
              /\ NullLength + request + HeaderBytes <= Word
          BY <1>3
        <5>2. Word \in Nat /\ NullLength \in Nat
          BY Layout
        <5> HIDE DEF half
        <5>3. half + request + request + HeaderBytes <= Word
          BY <1>3, <1>6, <5>1, <5>2
        <5> QED BY <5>3 DEF half
      <4> QED BY <1>3, <1>6, <3>2, <4>1, RemainderIs
    <3> QED BY <1>2, <1>3, <1>4, <1>5, <1>6, <1>8, <1>9, <2>1, <3>1, <3>3, <3>4,
    TakenSplit
  <2>2. CASE ~(hdr[this].length > request /\ Splits(hdr, this, request))
    <3>1. s = [hdr |-> hdr, last |-> last_header]
      BY <1>4, <2>2, SplitIs DEF Now
    <3>2. hdr' = [hdr EXCEPT ![this].free = FALSE] /\ last_header' = last_header
      BY <1>8, <3>1
    <3>3. this + HeaderBytes + asked <= EndIn(hdr, heap_end, this)
      <4>1. EndIn(hdr, heap_end, this) \in Nat
            /\ EndIn(hdr, heap_end, last_header) = heap_end
        BY <1>2, <1>5, ChainFacts
      <4>2. CASE Honest(hdr, heap_end, this)
        BY <4>1, <4>2, <1>3, <1>6 DEF Honest
      <4>3. CASE Grown(hdr, last_header, heap_end, request, S, this)
        BY <4>1, <4>3, <1>3, <1>6 DEF Grown
      <4>4. CASE Stale(hdr, heap_end, this)
        <5>1. this + HeaderBytes + request <= EndIn(hdr, heap_end, this)
          BY <4>4, <1>3 DEF Stale
        <5> QED BY <5>1, <4>1, <1>3, <1>6
      <4> QED BY <1>5, <4>2, <4>3, <4>4
    <3> QED BY <1>2, <1>3, <1>4, <1>5, <1>6, <1>9, <3>2, <3>3, TakenWhole
  <2> QED BY <2>1, <2>2
<1>11. PICK T : /\ NullWord' /\ Chain(hdr', last_header', heap_end', T)
                /\ BlocksIn(blocks', hdr', heap_end', T)
                /\ FreeIn(hdr', last_header', heap_end', request', T)
                /\ KeptIn(hdr', heap_end', T)
  BY <1>10
<1>12. CallIn(T)'
  BY <1>2, <1>9 DEF CallIn
<1>13. SegmentsAre(T)'
  BY <1>9, <1>11, <1>12, SegmentsNext
<1> QED BY <1>2, <1>9, <1>11, <1>13 DEF KeepInv

LEMMA InitKeeps == Init /\ Careful(client) => KeepInv
PROOF
<1> SUFFICES ASSUME Init, Careful(client) PROVE KeepInv
  OBVIOUS
<1> DEFINE S == {HeapStart}
<1>1. DOMAIN hdr = {NULL, HeapStart} /\ last_header = HeapStart
      /\ HeapStart # NULL
  BY Layout DEF Init, NULL
<1>2. /\ hdr[NULL] = [length |-> NullLength, next |-> NULL, last |-> NULL, free |-> FALSE]
      /\ hdr[HeapStart] = [length |-> InitialPages * PageBytes - HeaderBytes,
                           next |-> NULL, last |-> NULL, free |-> TRUE]
  BY <1>1 DEF Init
<1>3. NullWord
  BY <1>2 DEF NullWord
<1>4. /\ heap_end = HeapStart + InitialPages * PageBytes
      /\ EndIn(hdr, heap_end, HeapStart) = heap_end
  BY <1>2 DEF Init, EndIn
<1>5. HeapStart + HeaderBytes < heap_end
  <2> DEFINE size == InitialPages * PageBytes
  <2>1. size \in Nat /\ PageBytes <= size
    BY Layout
  <2>2. HeapStart \in Nat /\ HeaderBytes \in Nat /\ PageBytes \in Nat
        /\ HeaderBytes < PageBytes
    BY Layout
  <2> HIDE DEF size
  <2>3. HeapStart + HeaderBytes < HeapStart + size
    BY <2>1, <2>2
  <2> QED BY <2>3, <1>4 DEF size
<1>6. Chain(hdr, last_header, heap_end, S)
  BY <1>1, <1>2, <1>4, <1>5, Layout DEF Chain
<1>7. FreeIn(hdr, last_header, heap_end, request, S) /\ KeptIn(hdr, heap_end, S)
  <2> DEFINE size == InitialPages * PageBytes
  <2>1. size \in Nat /\ HeapStart \in Nat /\ HeaderBytes \in Nat
    BY Layout
  <2>2. hdr[HeapStart].length = size - HeaderBytes /\ heap_end = HeapStart + size
    BY <1>2, <1>4
  <2> HIDE DEF size
  <2>3. Honest(hdr, heap_end, HeapStart)
    BY <1>4, <2>1, <2>2 DEF Honest
  <2> QED BY <2>3 DEF FreeIn, KeptIn
<1>8. BlocksIn(blocks, hdr, heap_end, S) /\ CallIn(S)
  BY DEF Init, BlocksIn, CallIn
<1> QED BY <1>3, <1>6, <1>7, <1>8 DEF KeepInv, SegmentsAre

LEMMA CallKeeps ==
    ASSUME NEW size \in client.sizes
    PROVE  KeepInv /\ Call(size) => KeepInv'
PROOF
<1> SUFFICES ASSUME KeepInv, Call(size) PROVE KeepInv'
  OBVIOUS
<1>1. PICK S : SegmentsAre(S)
  BY DEF KeepInv
<1>2. /\ request = 0 /\ request' = RoundUp(size, Unit) /\ asked' = size
         /\ expansions' = 0
      /\ UNCHANGED <<client, hdr, heap_end, last_header, blocks>>
  BY DEF Call
<1>3. FreeIn(hdr', last_header', heap_end', request', S)
  <2>1. \A a \in S : ~Grown(hdr, last_header, heap_end, request, S, a)
    BY <1>2 DEF Grown
  <2> QED BY <1>1, <1>2, <2>1 DEF SegmentsAre, FreeIn
<1>4. CallIn(S)' /\ KeptIn(hdr', heap_end', S)
  BY <1>1, <1>2 DEF CallIn, SegmentsAre
<1>5. SegmentsAre(S)'
  BY <1>1, <1>2, <1>3, <1>4, SegmentsNext DEF SegmentsAre
<1>6. NullWord' /\ Careful(client')
  BY <1>2 DEF KeepInv, NullWord
<1> QED BY <1>5, <1>6 DEF KeepInv

\* The pages that expand_heap appends, behind a segment in use.
LEMMA Appended ==
    ASSUME TypeInv, NullWord, NEW S, SegmentsAre(S), ~hdr[last_header].free,
           \A a \in S : hdr[a].free => Honest(hdr, heap_end, a),
           NEW bytes \in Nat, bytes > HeaderBytes,
           hdr' = Put([hdr EXCEPT ![last_header].next = heap_end], heap_end,
                      [length |-> bytes - HeaderBytes, next |-> NULL,
                       last |-> last_header, free |-> TRUE]),
           last_header' = heap_end, heap_end' = heap_end + bytes, UNCHANGED blocks
    PROVE  LET T == S \cup {heap_end}
           IN  /\ NullWord' /\ Chain(hdr', last_header', heap_end', T)
               /\ BlocksIn(blocks', hdr', heap_end', T)
               /\ FreeIn(hdr', last_header', heap_end', request', T)
               /\ KeptIn(hdr', heap_end', T)
               /\ hdr'[last_header'].free
PROOF
<1> DEFINE T == S \cup {heap_end}
<1>1. /\ Chain(hdr, last_header, heap_end, S)
      /\ BlocksIn(blocks, hdr, heap_end, S)
      /\ KeptIn(hdr, heap_end, S)
  BY DEF SegmentsAre
<1>2. /\ S \subseteq Nat /\ S \subseteq DOMAIN hdr /\ NULL \notin S
         /\ NULL \in DOMAIN hdr
      /\ last_header \in S /\ HeapStart \in S
      /\ heap_end \in Nat /\ heap_end > 0 /\ HeaderBytes \in Nat
         /\ HeaderBytes > 0
      /\ hdr[last_header] \in Header
  <2>1. S \subseteq Nat /\ hdr[last_header] \in Header
    BY <1>1, ChainFacts DEF Chain
  <2>2. S \subseteq DOMAIN hdr /\ NULL \notin S /\ last_header \in S
        /\ HeapStart \in S
    BY <1>1 DEF Chain
  <2>3. NULL \in DOMAIN hdr /\ heap_end \in Nat /\ heap_end > 0
    BY DEF TypeInv, ListOK
  <2> QED BY <2>1, <2>2, <2>3, Layout
<1>3. \A a \in S : a < heap_end /\ a <= last_header
                   /\ EndIn(hdr, heap_end, a) \in Nat
                   /\ EndIn(hdr, heap_end, a) <= heap_end
  <2> SUFFICES ASSUME NEW a \in S
               PROVE  a < heap_end /\ a <= last_header
                      /\ EndIn(hdr, heap_end, a) \in Nat
                      /\ EndIn(hdr, heap_end, a) <= heap_end
    OBVIOUS
  <2>1. /\ EndIn(hdr, heap_end, a) \in Nat /\ EndIn(hdr, heap_end, a) <= heap_end
        /\ a <= last_header
    BY <1>1, ChainFacts
  <2>2. a + HeaderBytes < EndIn(hdr, heap_end, a)
    BY <1>1 DEF Chain
  <2> QED BY <2>1, <2>2, <1>2
<1>4. heap_end \notin S /\ heap_end # NULL
  BY <1>2, <1>3 DEF NULL
<1>5. /\ DOMAIN hdr' = DOMAIN hdr \cup {heap_end}
      /\ hdr'[heap_end] = [length |-> bytes - HeaderBytes, next |-> NULL,
                           last |-> last_header, free |-> TRUE]
      /\ hdr'[last_header] = [hdr[last_header] EXCEPT !.next = heap_end]
      /\ \A a \in DOMAIN hdr : a # last_header /\ a # heap_end => hdr'[a] = hdr[a]
  BY <1>2, <1>4 DEF Put
<1>6. /\ hdr'[heap_end].length = bytes - HeaderBytes /\ hdr'[heap_end].next = NULL
      /\ hdr'[heap_end].last = last_header /\ hdr'[heap_end].free
  BY <1>5
<1>7. /\ hdr'[last_header].next = heap_end
      /\ hdr'[last_header].last = hdr[last_header].last
      /\ hdr'[last_header].free = hdr[last_header].free
      /\ hdr'[last_header].length = hdr[last_header].length
  <2>1. /\ [hdr[last_header] EXCEPT !.next = heap_end].next = heap_end
        /\ [hdr[last_header] EXCEPT !.next = heap_end].length = hdr[last_header].length
        /\ [hdr[last_header] EXCEPT !.next = heap_end].last = hdr[last_header].last
        /\ [hdr[last_header] EXCEPT !.next = heap_end].free = hdr[last_header].free
    BY <1>2, NextSet
  <2> QED BY <1>5, <2>1, Zenon
<1>8. \A a \in S : /\ a # last_header => hdr'[a] = hdr[a]
                   /\ hdr'[a].last = hdr[a].last /\ hdr'[a].free = hdr[a].free
                   /\ hdr'[a].length = hdr[a].length
  BY <1>2, <1>4, <1>5, <1>7
<1>9. \A a \in S : EndIn(hdr', heap_end', a) = EndIn(hdr, heap_end, a)
  <2>1. EndIn(hdr', heap_end', last_header) = heap_end
    BY <1>4, <1>7 DEF EndIn
  <2>2. EndIn(hdr, heap_end, last_header) = heap_end
    BY <1>1, ChainFacts
  <2>3. ASSUME NEW a \in S, a # last_header
        PROVE  EndIn(hdr', heap_end', a) = EndIn(hdr, heap_end, a)
    <3>1. hdr[a].next # NULL /\ hdr'[a] = hdr[a]
      BY <1>1, <1>8, <2>3 DEF Chain
    <3> QED BY <3>1 DEF EndIn
  <2> QED BY <2>1, <2>2, <2>3
<1>10. EndIn(hdr', heap_end', heap_end) = heap_end + bytes
  BY <1>6 DEF EndIn
<1>11. NullWord'
  <2>1. hdr'[NULL] = hdr[NULL]
    BY <1>2, <1>4, <1>5
  <2> QED BY <2>1 DEF NullWord
<1>12. Chain(hdr', last_header', heap_end', T)
  <2>1. /\ T \subseteq DOMAIN hdr' /\ NULL \notin T /\ HeapStart \in T
           /\ last_header' \in T
    BY <1>2, <1>4, <1>5
  <2>2. ASSUME NEW a \in T
        PROVE  /\ HeapStart <= a /\ a + HeaderBytes < EndIn(hdr', heap_end', a)
               /\ hdr'[a].next \in T \cup {NULL}
               /\ hdr'[a].next = NULL <=> a = last_header'
               /\ hdr'[a].next # NULL => hdr'[hdr'[a].next].last = a
    <3>1. CASE a = heap_end
      <4>1. HeapStart <= a
        BY <3>1, <1>2, <1>3
      <4>2. a + HeaderBytes < EndIn(hdr', heap_end', a)
        BY <3>1, <1>2, <1>10
      <4> QED BY <3>1, <4>1, <4>2, <1>6
    <3>2. CASE a = last_header
      <4>1. HeapStart <= a /\ a + HeaderBytes < EndIn(hdr', heap_end', a)
        BY <3>2, <1>1, <1>2, <1>9 DEF Chain
      <4> QED BY <3>2, <4>1, <1>2, <1>4, <1>6, <1>7
    <3>3. CASE a \in S /\ a # last_header
      <4>1. HeapStart <= a /\ a + HeaderBytes < EndIn(hdr', heap_end', a)
        BY <3>3, <1>1, <1>9 DEF Chain
      <4>2. hdr'[a] = hdr[a] /\ hdr[a].next \in S /\ hdr[a].next # NULL
        BY <3>3, <1>1, <1>8 DEF Chain
      <4>3. hdr[hdr[a].next].last = a
        BY <3>3, <4>2, <1>1 DEF Chain
      <4>4. hdr'[hdr[a].next].last = a
        BY <4>2, <4>3, <1>8
      <4> QED BY <3>3, <4>1, <4>2, <4>4, <1>4
    <3> QED BY <3>1, <3>2, <3>3
  <2>3. ASSUME NEW a \in T, NEW b \in T, a < b
        PROVE  hdr'[a].next # NULL /\ hdr'[a].next <= b
    <3>1. a \in S
      BY <2>3, <1>2, <1>3
    <3>2. CASE a = last_header
      <4>1. b = heap_end
        BY <3>2, <2>3, <1>2, <1>3
      <4> QED BY <3>2, <4>1, <1>2, <1>4, <1>7
    <3>3. CASE a # last_header
      <4>1. hdr'[a] = hdr[a] /\ hdr[a].next # NULL /\ hdr[a].next \in S
        BY <3>1, <3>3, <1>1, <1>8 DEF Chain
      <4>2. CASE b \in S
        BY <3>1, <4>1, <4>2, <2>3, <1>1 DEF Chain
      <4>3. CASE b = heap_end
        BY <4>1, <4>3, <1>2, <1>3
      <4> QED BY <4>2, <4>3
    <3> QED BY <3>2, <3>3
  <2> HIDE DEF T
  <2> QED BY <2>1, <2>2, <2>3 DEF Chain
<1>13. BlocksIn(blocks', hdr', heap_end', T)
  <2>1. ASSUME NEW b \in blocks
        PROVE  /\ b.addr \in Nat /\ b.size \in Nat /\ b.addr - HeaderBytes \in T
               /\ ~hdr'[b.addr - HeaderBytes].free
               /\ b.addr + b.size <= EndIn(hdr', heap_end', b.addr - HeaderBytes)
    BY <1>1, <1>8, <1>9 DEF BlocksIn
  <2> HIDE DEF T
  <2> QED BY <1>1, <2>1 DEF BlocksIn
<1>14. Honest(hdr', heap_end', heap_end)
  BY <1>2, <1>6, <1>10 DEF Honest
<1>15. \A a \in S : /\ Honest(hdr, heap_end, a) => Honest(hdr', heap_end', a)
                    /\ Stale(hdr, heap_end, a) => Stale(hdr', heap_end', a)
  BY <1>8, <1>9, SameLength
<1>16. FreeIn(hdr', last_header', heap_end', request', T)
  BY <1>8, <1>14, <1>15 DEF FreeIn
<1>17. KeptIn(hdr', heap_end', T)
  BY <1>1, <1>14, <1>15 DEF KeptIn
<1> QED BY <1>6, <1>11, <1>12, <1>13, <1>16, <1>17

\* The pages that expand_heap appends, behind a free segment: it grows over
\* them, by the word at NULL instead of their length.
LEMMA Merged ==
    ASSUME TypeInv, NullWord, NEW S, SegmentsAre(S), hdr[last_header].free,
           \A a \in S : ~Fits(a),
           \A a \in S : hdr[a].free => Honest(hdr, heap_end, a)
                        /\ hdr[a].length < request,
           request \in Nat, request > 0, NullLength \in Nat,
           Word \div 2 \in Nat, Word \div 2 + request <= NullLength,
           NullLength + request + HeaderBytes <= Word,
           NegativeAtNull, Careful(client),
           NEW bytes \in Nat, bytes >= request, bytes >= PageBytes,
           NEW appended,
           appended = Put([hdr EXCEPT ![last_header].next = heap_end], heap_end,
                          [length |-> bytes - HeaderBytes, next |-> NULL,
                           last |-> last_header, free |-> TRUE]),
           hdr' = [appended EXCEPT ![last_header].next = NULL,
                                   ![last_header].length =
                                      (@ + appended[NULL].length + HeaderBytes) % Word],
           last_header' = last_header, heap_end' = heap_end + bytes,
           UNCHANGED <<blocks, request>>
    PROVE  /\ NullWord' /\ Chain(hdr', last_header', heap_end', S)
           /\ BlocksIn(blocks', hdr', heap_end', S)
           /\ FreeIn(hdr', last_header', heap_end', request', S)
           /\ KeptIn(hdr', heap_end', S)
           /\ hdr'[last_header].free /\ hdr'[last_header].length >= request
PROOF
<1>1. /\ Chain(hdr, last_header, heap_end, S)
      /\ BlocksIn(blocks, hdr, heap_end, S)
      /\ KeptIn(hdr, heap_end, S)
  BY DEF SegmentsAre
<1>2. /\ S \subseteq Nat /\ S \subseteq DOMAIN hdr /\ NULL \notin S
         /\ NULL \in DOMAIN hdr
      /\ last_header \in S /\ HeapStart \in S
      /\ heap_end \in Nat /\ heap_end > 0 /\ HeaderBytes \in Nat
         /\ HeaderBytes > 0
      /\ hdr[last_header] \in Header /\ Word \in Nat
  <2>1. S \subseteq Nat /\ hdr[last_header] \in Header
    BY <1>1, ChainFacts DEF Chain
  <2>2. S \subseteq DOMAIN hdr /\ NULL \notin S /\ last_header \in S
        /\ HeapStart \in S
    BY <1>1 DEF Chain
  <2>3. NULL \in DOMAIN hdr /\ heap_end \in Nat /\ heap_end > 0
    BY DEF TypeInv, ListOK
  <2> QED BY <2>1, <2>2, <2>3, Layout
<1>3. \A a \in S : a < heap_end /\ EndIn(hdr, heap_end, a) \in Nat
  <2> SUFFICES ASSUME NEW a \in S
               PROVE  a < heap_end /\ EndIn(hdr, heap_end, a) \in Nat
    OBVIOUS
  <2>1. EndIn(hdr, heap_end, a) \in Nat /\ EndIn(hdr, heap_end, a) <= heap_end
    BY <1>1, ChainFacts
  <2>2. a + HeaderBytes < EndIn(hdr, heap_end, a)
    BY <1>1 DEF Chain
  <2> QED BY <2>1, <2>2, <1>2
<1>4. heap_end \notin S /\ heap_end # NULL
  BY <1>2, <1>3 DEF NULL
<1>5. /\ DOMAIN appended = DOMAIN hdr \cup {heap_end}
      /\ appended[last_header] = [hdr[last_header] EXCEPT !.next = heap_end]
      /\ \A a \in DOMAIN hdr : a # last_header
                               /\ a # heap_end => appended[a] = hdr[a]
  BY <1>2, <1>4 DEF Put
<1>6. appended[NULL].length = NullLength
  BY <1>2, <1>4, <1>5 DEF NullWord
<1> DEFINE old == hdr[last_header].length
           long == (old + NullLength + HeaderBytes) % Word
           x == [hdr[last_header] EXCEPT !.next = heap_end]
           y == [x EXCEPT !.next = NULL]
           z == [y EXCEPT !.length = long]
<1>7. /\ x \in Header /\ x.length = old /\ x.last = hdr[last_header].last
      /\ x.free = hdr[last_header].free
  BY <1>2, NextSet, Zenon
<1>8. /\ y \in Header /\ y.length = old /\ y.last = hdr[last_header].last
      /\ y.free = hdr[last_header].free /\ y.next = NULL
  <2>1. NULL \in Nat
    BY DEF NULL
  <2> HIDE DEF x, old
  <2> QED BY <2>1, <1>7, NextSet
<1>9. old \in Nat /\ old < request /\ long = old + NullLength + HeaderBytes
  <2>1. old \in Nat /\ old < request
    BY <1>2, HeaderFields
  <2> DEFINE sum == old + NullLength + HeaderBytes
  <2> HIDE DEF old
  <2>2. sum \in Nat /\ sum < Word
    BY <2>1, <1>2
  <2> HIDE DEF sum
  <2>3. sum % Word = sum
    <3>1. Word \in Nat
      BY <1>2
    <3> QED BY <3>1, <2>2, SmallModulo
  <2> QED BY <2>1, <2>3 DEF sum
<1>10. long \in 0 .. Word - 1
  <2> HIDE DEF old, long
  <2> QED BY <1>2, <1>9
<1>11. /\ z.length = long /\ z.next = NULL /\ z.last = hdr[last_header].last
       /\ z.free = hdr[last_header].free
  <2> HIDE DEF y, old, long
  <2> QED BY <1>8, <1>10, LengthSet
<1>12. /\ DOMAIN hdr' = DOMAIN hdr \cup {heap_end}
       /\ hdr'[last_header] = z
       /\ \A a \in DOMAIN hdr : a # last_header
                                /\ a # heap_end => hdr'[a] = hdr[a]
  <2> DEFINE g == [appended EXCEPT ![last_header].next = NULL]
  <2>1. /\ DOMAIN g = DOMAIN appended /\ g[last_header] = y
        /\ \A a \in DOMAIN appended : a # last_header => g[a] = appended[a]
    BY <1>2, <1>5
  <2>2. hdr' = [g EXCEPT ![last_header].length = (@ + NullLength + HeaderBytes) % Word]
    BY <1>6
  <2> HIDE DEF g, y
  <2>3. hdr'[last_header] = [y EXCEPT !.length = (y.length + NullLength + HeaderBytes) % Word]
    BY <2>1, <2>2, <1>2, <1>5
  <2>4. hdr'[last_header] = z
    BY <2>3, <1>8, Zenon
  <2>5. DOMAIN hdr' = DOMAIN g
        /\ \A a \in DOMAIN g : a # last_header => hdr'[a] = g[a]
    BY <2>2
  <2> QED BY <2>1, <2>4, <2>5, <1>5
<1> HIDE DEF x, y, z
<1>13. /\ hdr'[last_header].length = long /\ hdr'[last_header].next = NULL
       /\ hdr'[last_header].last = hdr[last_header].last
       /\ hdr'[last_header].free = hdr[last_header].free
  BY <1>11, <1>12
<1> HIDE DEF old, long
<1>14. hdr[last_header].next = NULL
  BY <1>1, <1>2 DEF Chain
<1>15. \A a \in S : /\ hdr'[a].next = hdr[a].next /\ hdr'[a].last = hdr[a].last
                    /\ hdr'[a].free = hdr[a].free
                    /\ a # last_header => hdr'[a] = hdr[a]
  BY <1>2, <1>4, <1>12, <1>13, <1>14
<1>16. /\ \A a \in S :
            a # last_header =>
              /\ hdr[a].next # NULL
              /\ EndIn(hdr', heap_end', a) = EndIn(hdr, heap_end, a)
       /\ EndIn(hdr', heap_end', last_header) = heap_end + bytes
       /\ EndIn(hdr, heap_end, last_header) = heap_end
  <2>1. \A a \in S : a # last_header => hdr[a].next # NULL
    BY <1>1 DEF Chain
  <2>2. /\ EndIn(hdr', heap_end', last_header) = heap_end'
        /\ EndIn(hdr, heap_end, last_header) = heap_end
    BY <1>13, <1>14 DEF EndIn
  <2>3. \A a \in S : a # last_header => EndIn(hdr', heap_end', a) = EndIn(hdr, heap_end, a)
    BY <2>1, <1>15 DEF EndIn
  <2> QED BY <2>1, <2>2, <2>3
<1>17. NullWord'
  <2>1. hdr'[NULL] = hdr[NULL]
    BY <1>2, <1>4, <1>12
  <2> QED BY <2>1 DEF NullWord
<1>18. Chain(hdr', last_header', heap_end', S)
  <2>1. ASSUME NEW a \in S
        PROVE  /\ HeapStart <= a /\ a + HeaderBytes < EndIn(hdr', heap_end', a)
               /\ hdr'[a].next \in S \cup {NULL}
               /\ hdr'[a].next = NULL <=> a = last_header
               /\ hdr'[a].next # NULL => hdr'[hdr'[a].next].last = a
    <3>1. HeapStart <= a /\ a + HeaderBytes < EndIn(hdr, heap_end, a)
      BY <1>1 DEF Chain
    <3>2. a + HeaderBytes < EndIn(hdr', heap_end', a)
      <4>1. CASE a = last_header
        <5>1. last_header + HeaderBytes < heap_end
          BY <3>1, <4>1, <1>16
        <5>2. last_header + HeaderBytes < heap_end + bytes
          BY <5>1, <1>2
        <5> QED BY <4>1, <5>2, <1>16
      <4>2. CASE a # last_header
        BY <3>1, <4>2, <1>16
      <4> QED BY <4>1, <4>2
    <3>3. /\ hdr[a].next \in S \cup {NULL}
          /\ hdr[a].next = NULL <=> a = last_header
          /\ hdr[a].next # NULL => hdr[hdr[a].next].last = a
      BY <1>1 DEF Chain
    <3> QED BY <3>1, <3>2, <3>3, <1>15
  <2>2. \A a, b \in S : a < b => hdr'[a].next # NULL /\ hdr'[a].next <= b
    BY <1>1, <1>15 DEF Chain
  <2> QED BY <2>1, <2>2, <1>2, <1>12 DEF Chain
<1>19. BlocksIn(blocks', hdr', heap_end', S)
  <2>1. ASSUME NEW b \in blocks
        PROVE  /\ b.addr \in Nat /\ b.size \in Nat /\ b.addr - HeaderBytes \in S
               /\ ~hdr'[b.addr - HeaderBytes].free
               /\ b.addr + b.size <= EndIn(hdr', heap_end', b.addr - HeaderBytes)
    <3>1. PICK a \in S : a = b.addr - HeaderBytes
      BY <1>1 DEF BlocksIn
    <3>2. /\ b.addr \in Nat /\ b.size \in Nat /\ ~hdr[a].free
          /\ b.addr + b.size <= EndIn(hdr, heap_end, a)
      BY <1>1, <3>1 DEF BlocksIn
    <3>3. a # last_header
      BY <3>2
    <3> QED BY <3>1, <3>2, <3>3, <1>15, <1>16
  <2> QED BY <1>1, <2>1 DEF BlocksIn
<1>20. /\ hdr'[last_header].length >= request
       /\ Negative(Remainder(hdr', last_header, request))
  <2> DEFINE half == Word \div 2
             r == long - request - HeaderBytes
  <2>1. half \in Nat /\ half + request <= NullLength
    OBVIOUS
  <2> HIDE DEF half
  <2>2. long >= request /\ long \in Nat
    BY <2>1, <1>2, <1>9
  <2>3. r \in Nat /\ r < Word /\ r >= half
    BY <2>1, <1>2, <1>9
  <2>4. Remainder(hdr', last_header, request) = r % Word
    BY <1>13 DEF Remainder
  <2> HIDE DEF r
  <2>5. r % Word = r
    <3>1. Word \in Nat
      BY <1>2
    <3> QED BY <3>1, <2>3, SmallModulo
  <2> QED BY <2>2, <2>3, <2>4, <2>5, <1>13 DEF Negative, half
<1>21. last_header + HeaderBytes + request <= heap_end'
  <2>1. last_header + HeaderBytes < heap_end
    BY <1>1, <1>2, <1>16 DEF Chain
  <2> QED BY <2>1, <1>2
<1>22. FreeIn(hdr', last_header', heap_end', request', S)
  <2>1. \A c \in S : hdr'[c].free /\ hdr'[c].length >= request => c = last_header
    <3> SUFFICES ASSUME NEW c \in S, c # last_header, hdr'[c].free,
                        hdr'[c].length >= request
                 PROVE  FALSE
      OBVIOUS
    <3>1. hdr[c].free /\ hdr[c].length >= request /\ c # NULL
      BY <1>2, <1>15
    <3> QED BY <3>1 DEF Fits
  <2>2. Grown(hdr', last_header', heap_end', request', S, last_header)
    <3>1. request' = request /\ request # 0
      OBVIOUS
    <3> QED BY <2>1, <3>1, <1>20, <1>21, Zenon DEF Grown
  <2>3. ASSUME NEW a \in S, a # last_header,
               hdr'[a].free PROVE Honest(hdr', heap_end', a)
    <3>1. hdr'[a] = hdr[a] /\ hdr[a].free
      BY <2>3, <1>15
    <3> QED BY <2>3, <3>1, <1>16 DEF Honest
  <2> QED BY <2>2, <2>3 DEF FreeIn
<1>23. ASSUME client.frees = "between" PROVE Stale(hdr', heap_end', last_header)
  <2> SUFFICES ASSUME NEW size \in client.sizes, NEW q, q = RoundUp(size, Unit)
               PROVE  /\ hdr'[last_header].length >= q
                      /\ Negative(Remainder(hdr', last_header, q))
                      /\ last_header + HeaderBytes + q <= EndIn(hdr', heap_end', last_header)
    BY Zenon DEF Stale
  <2> DEFINE half == Word \div 2
             r == long - q - HeaderBytes
  <2>1. client \in Clients /\ q <= PageBytes
    BY <1>23 DEF Careful, TypeInv
  <2>2. size \in Nat /\ size > 0
    BY <2>1, ClientAssumption
  <2>3. q \in Nat
    BY <2>2, Rounded DEF Unit
  <2>4. half \in Nat /\ half + q <= NullLength
    BY <2>1 DEF NegativeAtNull
  <2> HIDE DEF half
  <2>5. long >= q /\ long \in Nat /\ r \in Nat /\ r < Word /\ r >= half
    BY <2>3, <2>4, <1>2, <1>9
  <2>6. Remainder(hdr', last_header, q) = r % Word
    BY <1>13 DEF Remainder
  <2> HIDE DEF r
  <2>7. r % Word = r
    <3>1. Word \in Nat
      BY <1>2
    <3> QED BY <3>1, <2>5, SmallModulo
  <2>8. Negative(Remainder(hdr', last_header, q))
    BY <2>5, <2>6, <2>7 DEF Negative, half
  <2>9. last_header + HeaderBytes + q <= heap_end + bytes
    <3>1. last_header + HeaderBytes < heap_end
      BY <1>1, <1>2, <1>16 DEF Chain
    <3> QED BY <3>1, <2>1, <2>3, <1>2, Layout
  <2> QED BY <2>5, <2>8, <2>9, <1>13, <1>16
<1>24. KeptIn(hdr', heap_end', S)
  <2>1. ASSUME NEW a \in S, a # last_header
        PROVE  /\ Honest(hdr, heap_end, a) => Honest(hdr', heap_end', a)
               /\ Stale(hdr, heap_end, a) => Stale(hdr', heap_end', a)
    <3>1. /\ hdr'[a].length = hdr[a].length
          /\ EndIn(hdr', heap_end', a) = EndIn(hdr, heap_end, a)
      BY <2>1, <1>15, <1>16
    <3> QED BY <3>1, SameLength
  <2> QED BY <2>1, <1>1, <1>23 DEF KeptIn
<1> QED BY <1>13, <1>17, <1>18, <1>19, <1>20, <1>22, <1>24

LEMMA ExpandKeeps == TypeInv /\ NegativeAtNull /\ KeepInv /\ Expand => KeepInv'
PROOF
<1> SUFFICES ASSUME TypeInv, NegativeAtNull, KeepInv, Expand PROVE KeepInv'
  OBVIOUS
<1>1. PICK S : SegmentsAre(S)
  BY DEF KeepInv
<1>2. /\ Chain(hdr, last_header, heap_end, S)
      /\ FreeIn(hdr, last_header, heap_end, request, S) /\ CallIn(S)
      /\ NullWord /\ Careful(client) /\ request # 0 /\ Fitting = {}
  BY <1>1 DEF SegmentsAre, KeepInv, Expand
<1>3. /\ request \in Nat /\ request > 0
      /\ request < Word /\ NullLength \in Nat
      /\ Word \div 2 \in Nat
      /\ Word \div 2 + request <= NullLength
      /\ NullLength + request + HeaderBytes <= Word
      /\ asked \in client.sizes /\ request = RoundUp(asked, Unit)
  BY <1>2, SizeFacts
<1>4. /\ \A a \in S : ~Fits(a)
      /\ \A a \in S : hdr[a].free => Honest(hdr, heap_end, a)
                      /\ hdr[a].length < request
  BY <1>2, <1>3, NothingFits
<1>5. PICK bytes, appended, s :
        /\ bytes = RoundUp(request, PageBytes)
        /\ appended = Put([hdr EXCEPT ![last_header].next = heap_end], heap_end,
                          [length |-> bytes - HeaderBytes, next |-> NULL,
                           last |-> last_header, free |-> TRUE])
        /\ s = CombineBackward([hdr |-> appended, last |-> heap_end], heap_end)
        /\ hdr' = s.hdr /\ last_header' = s.last
        /\ heap_end' = heap_end + bytes
  BY Zenon DEF Expand, Become
<1>6. bytes \in Nat /\ bytes >= request /\ bytes >= PageBytes /\ bytes > HeaderBytes
  <2>1. PageBytes \in Nat /\ PageBytes > HeaderBytes /\ HeaderBytes \in Nat
    BY Layout
  <2>2. bytes \in Nat /\ request <= bytes
    BY <1>3, <1>5, <2>1, Rounded
  <2>3. ASSUME NEW q \in Int, q * PageBytes > 0 PROVE q * PageBytes >= PageBytes
    <3>1. q > 0
      BY <2>1, <2>3
    <3> QED BY <2>1, <3>1
  <2>4. (request + PageBytes - 1) \div PageBytes \in Int
    BY <1>3, <2>1
  <2>5. bytes >= PageBytes
    BY <2>2, <2>3, <2>4, <1>3, <1>5 DEF RoundUp
  <2> QED BY <2>1, <2>2, <2>5
<1>7. UNCHANGED <<client, request, asked, blocks>> /\ expansions' = expansions + 1
  BY DEF Expand
<1>8. /\ last_header \in DOMAIN hdr /\ last_header # NULL /\ heap_end # NULL
      /\ last_header # heap_end /\ last_header \in S
  <2>1. last_header \in S /\ S \subseteq DOMAIN hdr /\ NULL \notin S
    BY <1>2 DEF Chain
  <2>2. last_header + HeaderBytes < heap_end
    BY <1>2, <2>1, ChainFacts DEF Chain
  <2>3. last_header \in Nat /\ HeaderBytes \in Nat /\ heap_end \in Nat
    BY <2>1, Layout DEF TypeInv, ListOK
  <2>4. heap_end # NULL /\ last_header # heap_end
    BY <2>2, <2>3 DEF NULL
  <2> QED BY <2>1, <2>4
<1>9. /\ appended[heap_end] = [length |-> bytes - HeaderBytes, next |-> NULL,
                               last |-> last_header, free |-> TRUE]
      /\ appended[last_header] = [hdr[last_header] EXCEPT !.next = heap_end]
  BY <1>5, <1>8 DEF Put
<1>10. /\ appended[heap_end].last = last_header /\ appended[heap_end].free
       /\ appended[heap_end].next = NULL
  BY <1>9
<1>11. /\ appended[last_header].free = hdr[last_header].free
       /\ appended[last_header].next = heap_end
  <2>1. hdr[last_header] \in Header /\ heap_end \in Nat
    BY <1>8 DEF TypeInv, ListOK
  <2>2. /\ [hdr[last_header] EXCEPT !.next = heap_end].free = hdr[last_header].free
        /\ [hdr[last_header] EXCEPT !.next = heap_end].next = heap_end
    BY <2>1, NextSet
  <2> QED BY <1>9, <2>2, Zenon
<1>12. expansions \in 0 .. 1 /\ (expansions = 1 => hdr[last_header].free)
  BY <1>2, <1>4 DEF CallIn
<1>13. Careful(client')
  BY <1>2, <1>7
<1>14. CASE ~hdr[last_header].free
  <2>1. s = [hdr |-> appended, last |-> heap_end]
    BY <1>5, <1>10, <1>11, <1>14 DEF CombineBackward
  <2>2. hdr' = appended /\ last_header' = heap_end
    BY <1>5, <2>1
  <2>3. LET T == S \cup {heap_end}
        IN  /\ NullWord' /\ Chain(hdr', last_header', heap_end', T)
            /\ BlocksIn(blocks', hdr', heap_end', T)
            /\ FreeIn(hdr', last_header', heap_end', request', T)
            /\ KeptIn(hdr', heap_end', T)
            /\ hdr'[last_header'].free
    BY <1>1, <1>2, <1>4, <1>5, <1>6, <1>7, <1>14, <2>2, Appended
  <2>4. PICK T : T = S \cup {heap_end}
    OBVIOUS
  <2>5. CallIn(T)'
    BY <1>2, <1>7, <1>12, <1>14, <2>3 DEF CallIn
  <2>6. SegmentsAre(T)'
    BY <2>3, <2>4, <2>5, <1>7, SegmentsNext
  <2> QED BY <1>13, <2>3, <2>6 DEF KeepInv
<1>15. CASE hdr[last_header].free
  <2>1. s = CombineForward([hdr |-> appended, last |-> heap_end], last_header)
    BY <1>5, <1>8, <1>10, <1>11, <1>15 DEF CombineBackward
  <2>2. s = [hdr |-> [appended EXCEPT ![last_header].next = NULL,
                                      ![last_header].length =
                                        (@ + appended[NULL].length + HeaderBytes) % Word],
             last |-> last_header]
    BY <2>1, <1>8, <1>10, <1>11 DEF CombineForward
  <2>3. /\ hdr' = [appended EXCEPT ![last_header].next = NULL,
                                   ![last_header].length =
                                     (@ + appended[NULL].length + HeaderBytes) % Word]
        /\ last_header' = last_header
    <3>1. PICK h : h = [appended EXCEPT ![last_header].next = NULL,
                                        ![last_header].length =
                                          (@ + appended[NULL].length + HeaderBytes) % Word]
      OBVIOUS
    <3>2. s = [hdr |-> h, last |-> last_header]
      BY <2>2, <3>1, Zenon
    <3>3. s.hdr = h /\ s.last = last_header
      BY <3>2
    <3> QED BY <1>5, <3>1, <3>3, Zenon
  <2>4. /\ NullWord' /\ Chain(hdr', last_header', heap_end', S)
        /\ BlocksIn(blocks', hdr', heap_end', S)
        /\ FreeIn(hdr', last_header', heap_end', request', S)
        /\ KeptIn(hdr', heap_end', S)
        /\ hdr'[last_header].free /\ hdr'[last_header].length >= request
    BY <1>1, <1>2, <1>3, <1>4, <1>5, <1>6, <1>7, <1>15, <2>3, Merged
  <2>5. Fits(last_header)'
    BY <1>7, <1>8, <2>3, <2>4 DEF Fits
  <2>6. CallIn(S)'
    <3>1. expansions' \in 0 .. 2
      BY <1>7, <1>12
    <3>2. \E a \in S : Fits(a)'
      BY <1>8, <2>3, <2>5
    <3> QED BY <1>2, <1>7, <2>3, <2>4, <3>1, <3>2 DEF CallIn
  <2>7. SegmentsAre(S)'
    BY <2>4, <2>6, <1>7, SegmentsNext
  <2> QED BY <1>13, <2>4, <2>7 DEF KeepInv
<1> QED BY <1>14, <1>15

\* Between used neighbours combine_forward and combine_backward do nothing.
LEMMA FreeKeeps ==
    ASSUME NEW b \in blocks
    PROVE  TypeInv /\ KeepInv /\ Free(b) => KeepInv'
PROOF
<1> SUFFICES ASSUME TypeInv, KeepInv, Free(b) PROVE KeepInv'
  OBVIOUS
<1>1. PICK S : SegmentsAre(S)
  BY DEF KeepInv
<1>2. /\ Chain(hdr, last_header, heap_end, S)
      /\ BlocksIn(blocks, hdr, heap_end, S)
      /\ FreeIn(hdr, last_header, heap_end, request, S)
      /\ KeptIn(hdr, heap_end, S) /\ CallIn(S)
      /\ NullWord /\ Careful(client) /\ request = 0
  BY <1>1 DEF SegmentsAre, KeepInv, Free
<1>3. PICK this \in S : this = b.addr - HeaderBytes
  BY <1>2 DEF BlocksIn
<1>4. /\ client.frees = "between"
      /\ hdr[this].next # NULL /\ ~hdr[hdr[this].next].free
      /\ hdr[this].last = NULL \/ ~hdr[hdr[this].last].free
  BY <1>2, <1>3 DEF Free, CanFree, Careful
<1>5. /\ this \in DOMAIN hdr /\ this # NULL /\ hdr[this] \in Header
      /\ hdr[this].next \in DOMAIN hdr /\ hdr[this].last \in DOMAIN hdr
      /\ hdr[this].next # this
  <2>1. this \in Nat /\ HeaderBytes \in Nat /\ HeaderBytes > 0
    BY <1>2, ChainFacts, Layout
  <2>2. hdr[this].next # this
    BY <1>2, <1>4, <2>1 DEF Chain, EndIn
  <2> QED BY <1>2, <2>2, ChainFacts DEF Chain, TypeInv, ListOK
<1>6. PICK h : h = [hdr EXCEPT ![this].free = TRUE]
  OBVIOUS
<1>7. /\ h[this].next = hdr[this].next /\ h[this].last = hdr[this].last
      /\ \A a \in DOMAIN hdr : a # this => h[a] = hdr[a]
  <2>1. h[this] = [hdr[this] EXCEPT !.free = TRUE]
    BY <1>5, <1>6
  <2> QED BY <1>5, <1>6, <2>1, FreeSet
<1>8. PICK s : s = [hdr |-> h, last |-> last_header]
  OBVIOUS
<1>9. s.hdr = h /\ s.last = last_header
  BY <1>8
<1>10. CombineForward(s, this) = s
  <2>1. s.hdr[this].next = hdr[this].next /\ ~s.hdr[hdr[this].next].free
    BY <1>4, <1>5, <1>7, <1>9
  <2> QED BY <2>1, Zenon DEF CombineForward
<1>11. CombineBackward(s, this) = s
  <2>1. s.hdr[this].last = hdr[this].last
    BY <1>7, <1>9
  <2>2. CASE hdr[this].last = this
    BY <2>1, <2>2, <1>10 DEF CombineBackward
  <2>3. CASE hdr[this].last # this
    <3>1. hdr[this].last = NULL \/ ~s.hdr[hdr[this].last].free
      BY <2>3, <1>4, <1>5, <1>7, <1>9
    <3> QED BY <2>1, <3>1, Zenon DEF CombineBackward
  <2> QED BY <2>2, <2>3
<1>12. /\ hdr' = h /\ last_header' = last_header /\ blocks' = blocks \ {b}
       /\ UNCHANGED <<client, heap_end, request, asked, expansions>>
  <2>1. /\ Become(CombineBackward(CombineForward(s, this), this))
        /\ blocks' = blocks \ {b}
        /\ UNCHANGED <<client, heap_end, request, asked, expansions>>
    BY <1>3, <1>6, <1>8, Zenon DEF Free
  <2>2. Become(s)
    BY <2>1, <1>10, <1>11
  <2> QED BY <2>1, <2>2, <1>9 DEF Become
<1>13. /\ NullWord' /\ Chain(hdr', last_header', heap_end', S)
       /\ \A a \in S : /\ a # this => hdr'[a].free = hdr[a].free
                       /\ hdr'[a].length = hdr[a].length
                       /\ EndIn(hdr', heap_end', a) = EndIn(hdr, heap_end, a)
  BY <1>2, <1>6, <1>12, Marked
<1>14. BlocksIn(blocks', hdr', heap_end', S)
  <2>1. ASSUME NEW c \in blocks, c # b
        PROVE  /\ c.addr \in Nat /\ c.size \in Nat /\ c.addr - HeaderBytes \in S
               /\ ~hdr'[c.addr - HeaderBytes].free
               /\ c.addr + c.size <= EndIn(hdr', heap_end', c.addr - HeaderBytes)
    <3>1. PICK a \in S : a = c.addr - HeaderBytes
      BY <1>2 DEF BlocksIn
    <3>2. /\ c.addr \in Nat /\ c.size \in Nat /\ ~hdr[a].free
          /\ c.addr + c.size <= EndIn(hdr, heap_end, a)
      BY <1>2, <3>1 DEF BlocksIn
    <3>3. a # this
      <4>1. c.addr # b.addr /\ c.addr \in Nat /\ b.addr \in Nat
        BY <1>2, <2>1 DEF BlocksIn
      <4> QED BY <4>1, <1>3, <3>1, Layout
    <3> QED BY <3>1, <3>2, <3>3, <1>13
  <2> QED BY <1>2, <1>12, <2>1 DEF BlocksIn
<1>15. \A a \in S : /\ Honest(hdr, heap_end, a) => Honest(hdr', heap_end', a)
                    /\ Stale(hdr, heap_end, a) => Stale(hdr', heap_end', a)
  BY <1>13, SameLength
<1>16. \A a \in S : Honest(hdr', heap_end', a) \/ Stale(hdr', heap_end', a)
  BY <1>2, <1>4, <1>15 DEF KeptIn
<1>17. /\ FreeIn(hdr', last_header', heap_end', request', S)
       /\ KeptIn(hdr', heap_end', S)
  BY <1>16 DEF FreeIn, KeptIn
<1>18. CallIn(S)'
  BY <1>2, <1>12 DEF CallIn
<1>19. SegmentsAre(S)'
  BY <1>12, <1>13, <1>14, <1>17, <1>18, SegmentsNext
<1> QED BY <1>2, <1>12, <1>13, <1>19 DEF KeepInv

LEMMA NextKeeps ==
    TypeInv /\ TypeInv' /\ NegativeAtNull /\ KeepInv /\ [Next]_vars => KeepInv'
PROOF
<1> SUFFICES ASSUME TypeInv, TypeInv', NegativeAtNull, KeepInv, [Next]_vars
             PROVE  KeepInv'
  OBVIOUS
<1>1. CASE \E size \in client.sizes : Call(size)
  BY <1>1, CallKeeps
<1>2. CASE Allocate
  BY <1>2, AllocateKeeps
<1>3. CASE Expand
  BY <1>3, ExpandKeeps
<1>4. CASE \E b \in blocks : Free(b)
  BY <1>4, FreeKeeps
<1>5. CASE UNCHANGED vars
  BY <1>5 DEF vars, KeepInv, NullWord, SegmentsAre, CallIn, Fits, FreeIn, KeptIn, Stale
<1> QED BY <1>1, <1>2, <1>3, <1>4, <1>5 DEF Next

LEMMA KeepInvariant ==
    ASSUME NegativeAtNull PROVE Spec /\ Careful(client) => [](TypeInv /\ KeepInv)
PROOF
<1>1. Init /\ Careful(client) => KeepInv
  BY InitKeeps
<1>2. TypeInv /\ TypeInv' /\ KeepInv /\ [Next]_vars => KeepInv'
  BY NextKeeps
<1> QED BY <1>1, <1>2, TypeInvariant, PTL DEF Spec

\* Blocks never overlap, headers included, and lie inside the heap, for a
\* careful client: although expand_heap gives the segments it grows the word
\* at NULL for a length, a block that starts in one is as long as it should
\* be, and no later one starts there as long as it is in use.
THEOREM BlocksStaySeparate ==
    ASSUME NegativeAtNull PROVE Spec /\ Careful(client) => []BlocksSeparate
PROOF
<1>1. TypeInv /\ KeepInv => BlocksSeparate
  <2> SUFFICES ASSUME TypeInv, KeepInv PROVE BlocksSeparate
    OBVIOUS
  <2>1. PICK S : SegmentsAre(S)
    BY DEF KeepInv
  <2>2. /\ Chain(hdr, last_header, heap_end, S)
           /\ BlocksIn(blocks, hdr, heap_end, S)
    BY <2>1 DEF SegmentsAre
  <2>3. /\ S \subseteq Nat /\ HeaderBytes \in Nat /\ heap_end \in Nat
           /\ HeapStart \in Nat
        /\ \A a \in S : /\ EndIn(hdr, heap_end, a) \in Nat
                        /\ EndIn(hdr, heap_end, a) <= heap_end /\ HeapStart <= a
        /\ \A a, b \in S : a < b => EndIn(hdr, heap_end, a) <= b
    BY <2>2, ChainFacts, Layout DEF TypeInv, Chain
  <2>4. ASSUME NEW b \in blocks
        PROVE  \E a \in S : /\ b.addr = a + HeaderBytes /\ b.size \in Nat
                            /\ b.addr + b.size <= EndIn(hdr, heap_end, a)
    <3>1. PICK a \in S : a = b.addr - HeaderBytes
      BY <2>2 DEF BlocksIn
    <3>2. b.addr \in Nat /\ b.size \in Nat
          /\ b.addr + b.size <= EndIn(hdr, heap_end, a)
      BY <2>2, <3>1 DEF BlocksIn
    <3> QED BY <2>3, <3>1, <3>2
  <2>5. ASSUME NEW b \in blocks
        PROVE  HeapStart + HeaderBytes <= b.addr /\ b.addr + b.size <= heap_end
    <3>1. PICK a \in S : /\ b.addr = a + HeaderBytes /\ b.size \in Nat
                         /\ b.addr + b.size <= EndIn(hdr, heap_end, a)
      BY <2>4
    <3>2. a \in Nat /\ HeapStart <= a /\ EndIn(hdr, heap_end, a) \in Nat
          /\ EndIn(hdr, heap_end, a) <= heap_end
      BY <2>3
    <3>3. b.addr \in Nat /\ HeapStart + HeaderBytes <= b.addr
      BY <2>3, <3>1, <3>2
    <3>4. b.addr + b.size \in Nat /\ b.addr + b.size <= heap_end
      BY <2>3, <3>1, <3>2, <3>3
    <3> QED BY <3>3, <3>4
  <2>6. ASSUME NEW b \in blocks, NEW c \in blocks, b # c
        PROVE  \/ b.addr + b.size + HeaderBytes <= c.addr
               \/ c.addr + c.size + HeaderBytes <= b.addr
    <3>1. PICK p \in S : /\ b.addr = p + HeaderBytes /\ b.size \in Nat
                         /\ b.addr + b.size <= EndIn(hdr, heap_end, p)
      BY <2>4
    <3>2. PICK q \in S : /\ c.addr = q + HeaderBytes /\ c.size \in Nat
                         /\ c.addr + c.size <= EndIn(hdr, heap_end, q)
      BY <2>4
    <3>3. p # q
      BY <2>2, <2>6, <3>1, <3>2 DEF BlocksIn
    <3>4. p \in Nat /\ q \in Nat
      BY <2>3
    <3>5. CASE p < q
      <4>1. EndIn(hdr, heap_end, p) <= q /\ EndIn(hdr, heap_end, p) \in Nat
        BY <2>3, <3>5
      <4>2. b.addr + b.size + HeaderBytes <= c.addr
        BY <2>3, <3>1, <3>2, <3>4, <4>1
      <4> QED BY <4>2
    <3>6. CASE q < p
      <4>1. EndIn(hdr, heap_end, q) <= p /\ EndIn(hdr, heap_end, q) \in Nat
        BY <2>3, <3>6
      <4>2. c.addr + c.size + HeaderBytes <= b.addr
        BY <2>3, <3>1, <3>2, <3>4, <4>1
      <4> QED BY <4>2
    <3> QED BY <3>3, <3>4, <3>5, <3>6
  <2> QED BY <2>5, <2>6 DEF BlocksSeparate
<1> QED BY <1>1, KeepInvariant, PTL

\* The list covers the heap in ascending order and mirrors itself, and
\* last_header is its end: splits and growths leave no segment out.
THEOREM ListStaysSound ==
    ASSUME NegativeAtNull PROVE Spec /\ Careful(client) => []ListSound
PROOF
<1>1. TypeInv /\ KeepInv => ListSound
  <2> SUFFICES ASSUME TypeInv, KeepInv PROVE ListSound
    OBVIOUS
  <2>1. PICK S : SegmentsAre(S)
    BY DEF KeepInv
  <2>2. Chain(hdr, last_header, heap_end, S)
    BY <2>1 DEF SegmentsAre
  <2>3. Segments = S
    BY <2>2, ChainWalked
  <2> QED BY <2>2, <2>3 DEF Chain, ListSound, EndIn, EndOf
<1> QED BY <1>1, KeepInvariant, PTL

\* What malloc may hand out next holds no byte of a block.
THEOREM FreeSegmentsStayUnused ==
    ASSUME NegativeAtNull PROVE Spec /\ Careful(client) => []FreeSegmentsUnused
PROOF
<1>1. TypeInv /\ KeepInv => FreeSegmentsUnused
  <2> SUFFICES ASSUME TypeInv, KeepInv PROVE FreeSegmentsUnused
    OBVIOUS
  <2>1. PICK S : SegmentsAre(S)
    BY DEF KeepInv
  <2>2. /\ Chain(hdr, last_header, heap_end, S)
           /\ BlocksIn(blocks, hdr, heap_end, S)
    BY <2>1 DEF SegmentsAre
  <2>3. Segments = S
    BY <2>2, ChainWalked
  <2>4. \A a \in S : EndOf(a) = EndIn(hdr, heap_end, a)
    BY DEF EndOf, EndIn
  <2>5. ASSUME NEW a \in S, hdr[a].free, NEW b \in blocks
        PROVE  b.addr + b.size <= a \/ EndOf(a) + HeaderBytes <= b.addr
    <3>1. PICK p \in S : p = b.addr - HeaderBytes
      BY <2>2 DEF BlocksIn
    <3>2. /\ b.addr \in Nat /\ b.size \in Nat /\ ~hdr[p].free
          /\ b.addr + b.size <= EndIn(hdr, heap_end, p)
      BY <2>2, <3>1 DEF BlocksIn
    <3>3. /\ a \in Nat /\ p \in Nat /\ HeaderBytes \in Nat /\ a # p
          /\ EndIn(hdr, heap_end, a) \in Nat /\ EndIn(hdr, heap_end, p) \in Nat
      BY <2>2, <2>5, <3>2, ChainFacts, Layout
    <3>4. CASE p < a
      <4>1. EndIn(hdr, heap_end, p) <= a
        BY <2>2, <3>4, ChainFacts
      <4>2. b.addr + b.size <= a
        BY <3>2, <3>3, <4>1
      <4> QED BY <4>2
    <3>5. CASE a < p
      <4>1. EndIn(hdr, heap_end, a) <= p
        BY <2>2, <3>5, ChainFacts
      <4>2. EndIn(hdr, heap_end, a) + HeaderBytes <= b.addr
        BY <3>1, <3>2, <3>3, <4>1
      <4> QED BY <2>4, <4>2
    <3> QED BY <3>3, <3>4, <3>5
  <2> QED BY <2>3, <2>5 DEF FreeSegmentsUnused
<1> QED BY <1>1, KeepInvariant, PTL

\* The recursion of malloc is at most two deep, for every size asked for and
\* every size of the pages.
THEOREM ExpansionsBounded ==
    ASSUME NegativeAtNull PROVE Spec /\ Careful(client) => []TwoExpansionsSuffice
PROOF
<1>1. TypeInv /\ KeepInv => TwoExpansionsSuffice
  BY DEF KeepInv, SegmentsAre, CallIn, TwoExpansionsSuffice
<1> QED BY <1>1, KeepInvariant, PTL

=============================================================================
