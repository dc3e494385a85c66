---------------------------- MODULE FrameAllocator ----------------------------
(***************************************************************************)
(* The physical page frame allocator of the nerOS kernel                   *)
(* (kernel/src/paging/PageFrameAllocator.cpp and utility/Bitmap.cpp) as    *)
(* operators on the record that holds the allocator's state:               *)
(*                                                                         *)
(*   initialized  allocator_initialized                                    *)
(*   size         page_bitmap.size, in bytes                               *)
(*   buffer       page_bitmap.buffer, as a page number                     *)
(*   bits         the indices whose bit in page_bitmap is 1                *)
(*   index        page_bitmap_index, where the next search starts          *)
(*   free, used, reserved   the three counters, in pages                   *)
(*                                                                         *)
(* Addresses are page numbers: every address the kernel passes is a        *)
(* multiple of 0x1000.  The counters are multiples of 0x1000 kept in a     *)
(* uint64_t, so in pages they are counted modulo WordPages.                *)
(***************************************************************************)
EXTENDS Integers, FiniteSets, Sequences, FiniteSetsExt, Functions

CONSTANTS
    LowPages,     \* pages below 1 MB (0x100), reserved for the BIOS
    PageBytes,    \* bytes in a page (0x1000)
    IntPages,     \* pages a 32-bit byte offset tells apart (2^20)
    WordPages     \* pages a 64-bit byte count tells apart (2^52)

ASSUME LayoutAssumption ==
    /\ LowPages \in Nat \ {0}
    /\ PageBytes \in Nat \ {0}
    /\ IntPages \in Nat \ {0}
    /\ IntPages = 2 * (IntPages \div 2)
    /\ WordPages \in Nat \ {0}

\* The NULL that request_page returns is the address of page 0.
NULL == 0

Lowest(S) == CHOOSE p \in S : \A q \in S : p <= q

-----------------------------------------------------------------------------
\* uint64_t arithmetic on the counters: it wraps, and here by at most once.
Plus(a, c)  == IF a + c < WordPages THEN a + c ELSE a + c - WordPages
Minus(a, c) == IF c <= a THEN a - c ELSE a - c + WordPages

\* The loops over pages compute address + t * 0x1000 with an int t: the
\* product is a 32-bit int, so from 2 GB on it is negative.
IntOffset(t) == ((t + IntPages \div 2) % IntPages) - IntPages \div 2
LoopPages(start, count) ==
    {(start + IntOffset(t)) % WordPages : t \in 0 .. count - 1}

\* Bitmap::get and Bitmap::set accept index = size * 8, one bit too many.
Addressable(a) == 0 .. a.size * 8
\* The bits that request_page searches.
Searched(a) == 0 .. a.size * 8 - 1
FreePages(a) == Searched(a) \ a.bits

-----------------------------------------------------------------------------
\* reserve_page, lock_page, unreserve_page and free_page over a set of
\* pages.  Each is a no-op on a bit that has its value already and on an
\* index out of bounds, so the order of the pages does not matter.

\* Faulty forms, each a slip the code could have made; the checks of the
\* properties are tried on them.  Here: reserve_page without its early
\* return, so that a page reserved twice is counted twice.
ReservePagesRecounted(a, P) ==
    LET inside == P \cap Addressable(a)
    IN  [a EXCEPT !.bits = a.bits \cup inside,
                  !.free = Minus(a.free, Cardinality(inside)),
                  !.reserved = Plus(a.reserved, Cardinality(inside))]

ReservePages(a, P) ==
    LET new == (P \cap Addressable(a)) \ a.bits
    IN  [a EXCEPT !.bits = a.bits \cup new,
                  !.free = Minus(a.free, Cardinality(new)),
                  !.reserved = Plus(a.reserved, Cardinality(new))]

\* lock_page without the bounds check of Bitmap::set.
LockPagesUnchecked(a, P) ==
    LET new == P \ a.bits
    IN  [a EXCEPT !.bits = a.bits \cup new,
                  !.free = Minus(a.free, Cardinality(new)),
                  !.used = Plus(a.used, Cardinality(new))]

\* lock_page that forgets used_memory.
LockPagesUncounted(a, P) ==
    LET new == (P \cap Addressable(a)) \ a.bits
    IN  [a EXCEPT !.bits = a.bits \cup new,
                  !.free = Minus(a.free, Cardinality(new))]

LockPages(a, P) ==
    LET new == (P \cap Addressable(a)) \ a.bits
    IN  [a EXCEPT !.bits = a.bits \cup new,
                  !.free = Minus(a.free, Cardinality(new)),
                  !.used = Plus(a.used, Cardinality(new))]

UnreservePages(a, P) ==
    LET old == P \cap a.bits
    IN  [a EXCEPT !.bits = a.bits \ old,
                  !.index = Lowest({a.index} \cup old),
                  !.free = Plus(a.free, Cardinality(old)),
                  !.reserved = Minus(a.reserved, Cardinality(old))]

\* free_page that forgets to lower page_bitmap_index.
ReleasePagesKeepingIndex(a, P) ==
    LET old == P \cap a.bits
    IN  [a EXCEPT !.bits = a.bits \ old,
                  !.free = Plus(a.free, Cardinality(old)),
                  !.used = Minus(a.used, Cardinality(old))]

ReleasePages(a, P) ==
    LET old == P \cap a.bits
    IN  [a EXCEPT !.bits = a.bits \ old,
                  !.index = Lowest({a.index} \cup old),
                  !.free = Plus(a.free, Cardinality(old)),
                  !.used = Minus(a.used, Cardinality(old))]

\* request_page: the first clear bit from page_bitmap_index on is locked and
\* its page returned; the index stays on it.  Without one the loop leaves
\* the index at the end of the bitmap and returns NULL.
Candidates(a) == FreePages(a) \cap (a.index .. a.size * 8 - 1)
RequestedPage(a) == IF Candidates(a) = {} THEN NULL ELSE Lowest(Candidates(a))

\* request_page that returns the page without locking it.
AfterRequestUnlocked(a) ==
    IF Candidates(a) = {}
    THEN [a EXCEPT !.index = IF a.index < a.size * 8 THEN a.size * 8 ELSE a.index]
    ELSE [a EXCEPT !.index = RequestedPage(a)]

AfterRequest(a) ==
    IF Candidates(a) = {}
    THEN [a EXCEPT !.index = IF a.index < a.size * 8 THEN a.size * 8 ELSE a.index]
    ELSE LockPages([a EXCEPT !.index = RequestedPage(a)], {RequestedPage(a)})

-----------------------------------------------------------------------------
\* An EFI memory map is a sequence of descriptors
\* [conventional |-> type = 7, start |-> physAddr, pages |-> numPages].
Conventional(map) == {i \in DOMAIN map : map[i].conventional}

\* get_memory_size: the pages of every descriptor, whatever its type.
MemoryPages(map) == SumFunction([i \in DOMAIN map |-> map[i].pages])

\* The first of the largest conventional segments (the comparison is strict);
\* NULL when there is none.
LargestFreeSegment(map) ==
    LET largest == {i \in Conventional(map) :
                      /\ map[i].pages > 0
                      /\ \A j \in Conventional(map) : map[j].pages <= map[i].pages}
    IN  IF largest = {} THEN NULL ELSE map[Lowest(largest)].start

BufferPages(a) == LoopPages(a.buffer, a.size \div PageBytes + 1)

Uninitialized ==
    [initialized |-> FALSE, size |-> 0, buffer |-> NULL, bits |-> {},
     index |-> 0, free |-> 0, used |-> 0, reserved |-> 0]

\* init_bitmap: size bytes are zeroed at the buffer.  stray is what the byte
\* behind them, which Bitmap::get also reads, happens to hold: {} or the
\* set with the one extra index.
InitBitmap(a, map, stray) ==
    [a EXCEPT !.initialized = TRUE,
              !.size = MemoryPages(map) \div 8 + 1,
              !.buffer = LargestFreeSegment(map),
              !.bits = stray,
              !.free = MemoryPages(map)]

\* read_efi_memory_map that reserves the low megabyte too early.
ClaimMemoryLowFirst(a, map) ==
    LET all == ReservePages(a, LoopPages(0, MemoryPages(map) + 1))
        high == ReservePages(all, LoopPages(0, LowPages))
        usable == UnreservePages(high,
                    UNION {LoopPages(map[i].start, map[i].pages) : i \in Conventional(map)})
    IN  LockPages(usable, BufferPages(usable))

\* read_efi_memory_map from the first reserve_pages on: everything is
\* reserved, the conventional segments are unreserved, the low megabyte is
\* reserved again and the bitmap's own pages are locked.
ClaimMemory(a, map) ==
    LET all == ReservePages(a, LoopPages(0, MemoryPages(map) + 1))
        usable == UnreservePages(all,
                    UNION {LoopPages(map[i].start, map[i].pages) : i \in Conventional(map)})
        high == ReservePages(usable, LoopPages(0, LowPages))
    IN  LockPages(high, BufferPages(high))
=============================================================================
