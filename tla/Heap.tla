--------------------------------- MODULE Heap ---------------------------------
(***************************************************************************)
(* The kernel heap (kernel/src/memory/heap.cpp): a doubly linked list of   *)
(* segments, each behind a header, searched first-fit, split on            *)
(* allocation, merged on free and extended by whole pages.                 *)
(*                                                                         *)
(* Addresses and lengths are in bytes.  A length is a size_t: it is        *)
(* counted modulo Word.  The kernel is linked and loaded at address 0 and  *)
(* maps it, so a header at NULL is kernel code: it can be read and, as     *)
(* split does, written.  hdr[NULL] is that header.                         *)
(*                                                                         *)
(* malloc calls itself after expand_heap; a call is the steps Call, then   *)
(* Expand as long as no segment fits, then Allocate.  The heap is used by  *)
(* boot code only, so the calls do not overlap.                            *)
(***************************************************************************)
EXTENDS Integers, FiniteSets, Functions

CONSTANTS
    HeapStart,      \* heap_address (0x100000000000)
    InitialPages,   \* page_count at initialization (0x10)
    PageBytes,      \* 0x1000
    HeaderBytes,    \* sizeof(HeapSegmentHeader), 32
    Word,           \* 2^64
    NullLength,     \* the word of kernel code at address 0
    Clients,        \* users of the heap: [sizes, frees], see CanFree
    MaxBlocks,      \* bound: blocks a client holds at a time
    MaxExpansions   \* bound: expand_heap calls in one call of malloc

NULL == 0
Unit == 16          \* allocations are multiples of 0x10

ASSUME LayoutAssumption ==
    /\ HeapStart \in Nat \ {0}
    /\ InitialPages \in Nat \ {0}
    /\ HeaderBytes \in Nat \ {0}
    /\ PageBytes \in Nat /\ PageBytes > HeaderBytes
    /\ Word \in Nat /\ NullLength \in 0 .. Word - 1
    /\ InitialPages * PageBytes <= Word

RoundUp(n, unit) == ((n + unit - 1) \div unit) * unit

\* Nothing is asked for that the arithmetic of malloc and expand_heap wraps on.
ASSUME ClientAssumption ==
    \A c \in Clients : \A size \in c.sizes :
        /\ size \in Nat \ {0}
        /\ RoundUp(size, Unit) + PageBytes <= Word

\* The word at NULL is negative as an int64_t, and further from both ends of
\* the negative numbers than any size asked for.
NegativeAtNull ==
    \A c \in Clients : \A size \in c.sizes :
        /\ Word \div 2 + RoundUp(size, Unit) <= NullLength
        /\ NullLength + RoundUp(size, Unit) + HeaderBytes <= Word

VARIABLES
    client,         \* who uses the heap
    hdr,            \* the headers written so far, and the one at NULL
    heap_end,
    last_header,
    request,        \* the size malloc looks for, rounded; 0 between calls
    asked,          \* the size it was called with
    expansions,     \* expand_heap calls of this call of malloc
    blocks          \* what the client holds: [addr, size]

vars == <<client, hdr, heap_end, last_header, request, asked, expansions, blocks>>
list == <<hdr, last_header>>

Header == [length : 0 .. Word - 1, next : Nat, last : Nat, free : BOOLEAN]

TypeOK ==
    /\ client \in Clients
    /\ {NULL, HeapStart} \subseteq DOMAIN hdr
    /\ \A a \in DOMAIN hdr :
         hdr[a] \in Header /\ {hdr[a].next, hdr[a].last} \subseteq DOMAIN hdr
    /\ last_header \in DOMAIN hdr \ {NULL}
    /\ heap_end \in Nat /\ request \in Nat /\ asked \in Nat /\ expansions \in Nat
    /\ \A b \in blocks : b.addr - HeaderBytes \in DOMAIN hdr

-----------------------------------------------------------------------------
\* A header written at a, whatever was there.
Put(h, a, header) == [x \in DOMAIN h \cup {a} |-> IF x = a THEN header ELSE h[x]]

\* combine_forward on [hdr, last]: the length is read through next after
\* next has moved on, so it is that of the segment behind the merged one,
\* or the word at NULL.
CombineForward(s, this) ==
    LET merged == s.hdr[this].next
        behind == s.hdr[merged].next
        linked == IF behind = NULL THEN s.hdr
                  ELSE [s.hdr EXCEPT ![behind].last = this]
    IN  IF merged = NULL \/ ~s.hdr[merged].free THEN s
        ELSE [hdr |-> [linked EXCEPT
                         ![this].next = behind,
                         ![this].length = (@ + s.hdr[behind].length + HeaderBytes) % Word],
              last |-> IF merged = s.last THEN this ELSE s.last]

\* A faulty form, as if the previous segment were never free.
CombineBackwardNever(s, this) == s

CombineBackward(s, this) ==
    LET before == s.hdr[this].last
    IN  IF before # NULL /\ s.hdr[before].free THEN CombineForward(s, before) ELSE s

\* split: nothing when the remainder, as an int64_t, is under 0x10.  The
\* next header's last pointer is written even if next is NULL.
Remainder(h, this, size) == (h[this].length - size - HeaderBytes) % Word
Negative(word) == word >= Word \div 2
Splits(h, this, size) ==
    /\ ~Negative(Remainder(h, this, size))
    /\ Remainder(h, this, size) >= Unit

\* Faulty forms: the new header is not written, lies where the block ends
\* rather than behind its header, or last_header is not moved to it.
SplitUnwritten(s, this, size) ==
    IF ~Splits(s.hdr, this, size) THEN s
    ELSE [s EXCEPT !.hdr[this].next = this + size + HeaderBytes,
                   !.hdr[this].length = size]

SplitTooEarly(s, this, size) ==
    LET new == this + size
        next == s.hdr[this].next
        inserted == [s.hdr EXCEPT ![next].last = new,
                                  ![this].next = new,
                                  ![this].length = size]
    IN  IF ~Splits(s.hdr, this, size) THEN s
        ELSE [hdr |-> Put(inserted, new,
                          [length |-> Remainder(s.hdr, this, size), next |-> next,
                           last |-> this, free |-> s.hdr[this].free]),
              last |-> IF s.last = this THEN new ELSE s.last]

SplitKeepsLast(s, this, size) ==
    LET new == this + size + HeaderBytes
        next == s.hdr[this].next
        inserted == [s.hdr EXCEPT ![next].last = new,
                                  ![this].next = new,
                                  ![this].length = size]
    IN  IF ~Splits(s.hdr, this, size) THEN s
        ELSE [hdr |-> Put(inserted, new,
                          [length |-> Remainder(s.hdr, this, size), next |-> next,
                           last |-> this, free |-> s.hdr[this].free]),
              last |-> s.last]

Split(s, this, size) ==
    LET new == this + size + HeaderBytes
        next == s.hdr[this].next
        inserted == [s.hdr EXCEPT ![next].last = new,
                                  ![this].next = new,
                                  ![this].length = size]
    IN  IF ~Splits(s.hdr, this, size) THEN s
        ELSE [hdr |-> Put(inserted, new,
                          [length |-> Remainder(s.hdr, this, size), next |-> next,
                           last |-> this, free |-> s.hdr[this].free]),
              last |-> IF s.last = this THEN new ELSE s.last]

\* The segments malloc's loop walks over, in its order.
Walk[n \in 0 .. Cardinality(DOMAIN hdr)] ==
    IF n = 0 THEN HeapStart
    ELSE IF Walk[n - 1] = NULL THEN NULL ELSE hdr[Walk[n - 1]].next
Fits(a) == a # NULL /\ hdr[a].free /\ hdr[a].length >= request
Fitting == {n \in DOMAIN Walk : Fits(Walk[n])}
FirstFit == Walk[CHOOSE n \in Fitting : \A m \in Fitting : n <= m]

Now == [hdr |-> hdr, last |-> last_header]
Become(s) == hdr' = s.hdr /\ last_header' = s.last

-----------------------------------------------------------------------------
\* After initialize_heap: one free segment.
Init ==
    /\ client \in Clients
    /\ hdr = [a \in {NULL, HeapStart} |->
                IF a = NULL
                THEN [length |-> NullLength, next |-> NULL, last |-> NULL, free |-> FALSE]
                ELSE [length |-> InitialPages * PageBytes - HeaderBytes,
                      next |-> NULL, last |-> NULL, free |-> TRUE]]
    /\ heap_end = HeapStart + InitialPages * PageBytes
    /\ last_header = HeapStart
    /\ request = 0 /\ asked = 0 /\ expansions = 0
    /\ blocks = {}

\* malloc(size), up to the search.
Call(size) ==
    /\ request = 0
    /\ Cardinality(blocks) < MaxBlocks
    /\ request' = RoundUp(size, Unit)
    /\ asked' = size
    /\ expansions' = 0
    /\ UNCHANGED <<client, hdr, heap_end, last_header, blocks>>

\* The search finds a free segment that is long enough; a faulty form
\* leaves it marked free.
AllocateStaysFree ==
    /\ request # 0
    /\ Fitting # {}
    /\ \E this \in {FirstFit} :
         /\ Become(IF hdr[this].length > request THEN Split(Now, this, request) ELSE Now)
         /\ blocks' = blocks \cup {[addr |-> this + HeaderBytes, size |-> asked]}
    /\ request' = 0
    /\ UNCHANGED <<client, heap_end, asked, expansions>>

Allocate ==
    /\ request # 0
    /\ Fitting # {}
    /\ \E this \in {FirstFit} :
         /\ \E s \in {IF hdr[this].length > request THEN Split(Now, this, request) ELSE Now} :
              Become([s EXCEPT !.hdr[this].free = FALSE])
         /\ blocks' = blocks \cup {[addr |-> this + HeaderBytes, size |-> asked]}
    /\ request' = 0
    /\ UNCHANGED <<client, heap_end, asked, expansions>>

\* The search fails: expand_heap appends the pages the request needs and
\* merges them with the last segment if that is free.  A faulty form never
\* links them to it.
ExpandUnlinked ==
    LET bytes == RoundUp(request, PageBytes)
        new == heap_end
        appended == Put(hdr, new,
                        [length |-> bytes - HeaderBytes, next |-> NULL,
                         last |-> last_header, free |-> TRUE])
    IN  /\ request # 0 /\ expansions < MaxExpansions
        /\ Fitting = {}
        /\ heap_end' = heap_end + bytes
        /\ Become(CombineBackward([hdr |-> appended, last |-> new], new))
        /\ expansions' = expansions + 1
        /\ UNCHANGED <<client, request, asked, blocks>>

Expand ==
    LET bytes == RoundUp(request, PageBytes)
        new == heap_end
        appended == Put([hdr EXCEPT ![last_header].next = new], new,
                        [length |-> bytes - HeaderBytes, next |-> NULL,
                         last |-> last_header, free |-> TRUE])
    IN  /\ request # 0 /\ expansions < MaxExpansions
        /\ Fitting = {}
        /\ heap_end' = heap_end + bytes
        /\ Become(CombineBackward([hdr |-> appended, last |-> new], new))
        /\ expansions' = expansions + 1
        /\ UNCHANGED <<client, request, asked, blocks>>

\* The clients: one never frees, one frees a block only while both its
\* neighbours are in use, so that nothing is merged, one frees any block.
CanFree(b) ==
    LET this == b.addr - HeaderBytes
        InUse(a) == a # NULL /\ ~hdr[a].free
    IN  \/ client.frees = "any"
        \/ /\ client.frees = "between"
           /\ InUse(hdr[this].next)
           /\ hdr[this].last = NULL \/ InUse(hdr[this].last)

\* Whom the heap serves well in spite of its combine_forward: a client that
\* never frees, like all of the kernel's code, and one that frees between
\* used neighbours and asks for no more than a page.
Careful(c) ==
    \/ c.frees = "never"
    \/ c.frees = "between" /\ \A size \in c.sizes : RoundUp(size, Unit) <= PageBytes

\* free
Free(b) ==
    /\ request = 0
    /\ CanFree(b)
    /\ LET this == b.addr - HeaderBytes
           released == [hdr |-> [hdr EXCEPT ![this].free = TRUE], last |-> last_header]
       IN  Become(CombineBackward(CombineForward(released, this), this))
    /\ blocks' = blocks \ {b}
    /\ UNCHANGED <<client, heap_end, request, asked, expansions>>

Next ==
    \/ \E size \in client.sizes : Call(size)
    \/ Allocate
    \/ Expand
    \/ \E b \in blocks : Free(b)

Spec == Init /\ [][Next]_vars /\ WF_vars(Allocate \/ Expand)

-----------------------------------------------------------------------------
\* The bytes a client asked for are its own: every block lies inside the
\* heap, behind its header, and no two blocks overlap, headers included.
BlocksSeparate ==
    /\ \A b \in blocks : /\ HeapStart + HeaderBytes <= b.addr
                         /\ b.addr + b.size <= heap_end
    /\ \A b, c \in blocks :
         b # c => \/ b.addr + b.size + HeaderBytes <= c.addr
                  \/ c.addr + c.size + HeaderBytes <= b.addr

\* Where the next segment starts, or the heap ends.
EndOf(a) == IF hdr[a].next = NULL THEN heap_end ELSE hdr[a].next
Segments == {Walk[n] : n \in DOMAIN Walk} \ {NULL}

\* The list covers the heap in ascending order, the last pointers mirror the
\* next pointers, and last_header is its end, across splits and merges.
ListSound ==
    /\ \A a \in Segments : /\ a + HeaderBytes < EndOf(a)
                           /\ hdr[a].next # NULL => hdr[hdr[a].next].last = a
                           /\ hdr[a].next = NULL => last_header = a

\* No segment in use is on offer: what the search may hand out (a free
\* segment) holds no byte of a block.
FreeSegmentsUnused ==
    \A a \in Segments : hdr[a].free =>
        \A b \in blocks : b.addr + b.size <= a \/ EndOf(a) + HeaderBytes <= b.addr

\* malloc expands the heap at most twice before its search succeeds.
TwoExpansionsSuffice == expansions <= 2

\* malloc returns: its recursion ends.
MallocReturns == request # 0 ~> request = 0
=============================================================================
