--------------------------- MODULE PageFramesProofs ---------------------------
(***************************************************************************)
(* Theorems about the page frame allocator, for every memory map and every *)
(* value of the constants.  The first part is about the operators of       *)
(* FrameAllocator: each primitive keeps AllocatorOK.  The second part      *)
(* lifts them to the actions of PageFrames.                                *)
(***************************************************************************)
EXTENDS PageFrames, FiniteSetTheorems, WellFoundedInduction, TLAPS

-----------------------------------------------------------------------------
\* The lowest element of a nonempty set of natural numbers exists
\* (page_bitmap_index and the page handed out are both defined by it).
LEMMA LowestExists ==
    ASSUME NEW S, S \subseteq Nat, S # {}
    PROVE  Lowest(S) \in S /\ \A q \in S : Lowest(S) <= q
PROOF
<1> DEFINE R == {pq \in Nat \X Nat : pq[1] < pq[2]}
<1>1. IsWellFoundedOn(R, Nat)
  BY NatLessThanWellFounded, Zenon DEF OpToRel
<1>2. PICK p \in S : \A q \in S : ~ (<<q, p>> \in R)
  <2> HIDE DEF R
  <2> QED BY <1>1, WFMin
<1>3. \A q \in S : p <= q
  <2> SUFFICES ASSUME NEW q \in S, ~ (p <= q) PROVE FALSE
    OBVIOUS
  <2>1. <<q, p>> \in R
    OBVIOUS
  <2> QED BY <2>1, <1>2
<1> HIDE DEF R
<1>4. \E r \in S : \A q \in S : r <= q
  BY <1>3
<1> QED BY <1>4, Zenon DEF Lowest

\* Taking c pages from free_memory keeps its relation to a count n of set
\* bits that grows by c, and giving them back to a count that shrinks.
LEMMA FreeFollowsCount ==
    ASSUME NEW M \in Nat, NEW W \in Nat, W = WordPages, M < W,
           NEW x \in 0 .. W - 1, NEW n \in Nat, NEW c \in Nat, NEW stray \in {0, 1},
           x \in {M + stray - n, M + stray - n + W}
    PROVE  /\ n + c < W =>
                 Minus(x, c) \in {M + stray - (n + c), M + stray - (n + c) + W}
           /\ (c <= n /\ n < W /\ M + stray < W) =>
                 Plus(x, c) \in {M + stray - (n - c), M + stray - (n - c) + W}
BY DEF Minus, Plus

-----------------------------------------------------------------------------
\* What every operation of the allocator keeps, M being the memory size.
AllocatorType(a) ==
    /\ a \in [initialized : BOOLEAN, size : Nat, buffer : Nat,
              bits : SUBSET Nat, index : Nat,
              free : 0 .. WordPages - 1, used : 0 .. WordPages - 1,
              reserved : 0 .. WordPages - 1]
    /\ a.bits \subseteq Addressable(a)
    /\ a.index <= a.size * 8

NothingFreeBelowIndex(a) == \A p \in Searched(a) : p < a.index => p \in a.bits

SumOK(a, M) == a.free + a.used + a.reserved
                   \in {M, M + WordPages, M + 2 * WordPages}

CountOK(a, M) == \E stray \in {0, 1} :
    a.free \in {M + stray - Cardinality(a.bits),
                M + stray - Cardinality(a.bits) + WordPages}

AllocatorOK(a, M) ==
    /\ AllocatorType(a)
    /\ NothingFreeBelowIndex(a)
    /\ SumOK(a, M)
    /\ CountOK(a, M)

\* The bitmap is smaller than a word counts, with room for the stray bit.
Fits(a, M) == a.size * 8 + 2 < WordPages /\ M + 2 < WordPages

\* Bits that are added to or removed from the bitmap are counted exactly.
LEMMA BitCount ==
    ASSUME NEW a, AllocatorType(a), NEW new, new \subseteq Addressable(a) \ a.bits,
           NEW old, old \subseteq a.bits
    PROVE  /\ Cardinality(a.bits) \in Nat
           /\ Cardinality(new) \in Nat
           /\ Cardinality(old) \in Nat
           /\ Cardinality(a.bits) + Cardinality(new) <= a.size * 8 + 1
           /\ Cardinality(a.bits \cup new) = Cardinality(a.bits) + Cardinality(new)
           /\ Cardinality(old) <= Cardinality(a.bits)
           /\ Cardinality(a.bits \ old) = Cardinality(a.bits) - Cardinality(old)
PROOF
<1>1. a.size * 8 \in Nat /\ a.bits \subseteq Addressable(a)
  BY DEF AllocatorType
<1>2. /\ IsFiniteSet(Addressable(a))
      /\ Cardinality(Addressable(a)) = a.size * 8 + 1
  <2> DEFINE n == a.size * 8
  <2>1. n \in Nat
    BY <1>1
  <2> HIDE DEF n
  <2>2. IsFiniteSet(0 .. n) /\ Cardinality(0 .. n) = n + 1
    BY <2>1, FS_Interval
  <2> QED BY <2>2 DEF Addressable, n
<1>3. IsFiniteSet(a.bits) /\ IsFiniteSet(new) /\ IsFiniteSet(old)
  BY <1>1, <1>2, FS_Subset
<1>4. /\ Cardinality(a.bits) \in Nat
      /\ Cardinality(new) \in Nat
      /\ Cardinality(old) \in Nat
  BY <1>3, FS_CardinalityType
<1>5. Cardinality(a.bits \cup new) = Cardinality(a.bits) + Cardinality(new)
  <2>1. a.bits \cap new = {}
    OBVIOUS
  <2>2. Cardinality(a.bits \cup new)
          = Cardinality(a.bits) + Cardinality(new) - Cardinality(a.bits \cap new)
    BY <1>3, FS_Union, Zenon
  <2>3. Cardinality(a.bits \cap new) = 0
    BY <2>1, FS_EmptySet
  <2> QED BY <1>4, <2>2, <2>3
<1>6. Cardinality(a.bits \cup new) <= a.size * 8 + 1
  <2>1. a.bits \cup new \in SUBSET Addressable(a)
    BY <1>1
  <2> QED BY <2>1, <1>2, FS_Subset
<1>7. /\ Cardinality(old) <= Cardinality(a.bits)
      /\ Cardinality(a.bits \ old) = Cardinality(a.bits) - Cardinality(old)
  <2>1. a.bits \cap old = old
    OBVIOUS
  <2>2. Cardinality(old) <= Cardinality(a.bits)
    BY <1>3, FS_Subset
  <2>3. Cardinality(a.bits \ old) = Cardinality(a.bits) - Cardinality(a.bits \cap old)
    BY <1>3, FS_Difference
  <2> QED BY <2>1, <2>2, <2>3
<1> QED BY <1>4, <1>5, <1>6, <1>7

\* The record after setting, or clearing, bits.
BitsSet(a, new, u, r) ==
    [a EXCEPT !.bits = a.bits \cup new,
              !.free = Minus(a.free, Cardinality(new)),
              !.used = u, !.reserved = r]
BitsCleared(a, old, u, r) ==
    [a EXCEPT !.bits = a.bits \ old,
              !.index = Lowest({a.index} \cup old),
              !.free = Plus(a.free, Cardinality(old)),
              !.used = u, !.reserved = r]

\* Setting bits and moving their pages from free_memory to one of the other
\* counters keeps the allocator in order.
LEMMA SettingBits ==
    ASSUME NEW a, NEW M \in Nat, AllocatorOK(a, M), Fits(a, M),
           NEW new, new \subseteq Addressable(a) \ a.bits,
           NEW u, NEW r,
           \/ u = a.used /\ r = Plus(a.reserved, Cardinality(new))
           \/ u = Plus(a.used, Cardinality(new)) /\ r = a.reserved
    PROVE  LET b == BitsSet(a, new, u, r)
           IN  /\ AllocatorOK(b, M)
               /\ b.size = a.size /\ b.index = a.index
               /\ b.initialized = a.initialized /\ b.buffer = a.buffer
               /\ b.bits = a.bits \cup new
PROOF
<1> DEFINE c == Cardinality(new)
           b == BitsSet(a, new, u, r)
<1>0. b = [a EXCEPT !.bits = a.bits \cup new, !.free = Minus(a.free, c),
                    !.used = u, !.reserved = r]
  BY DEF BitsSet
<1>c. \/ u = a.used /\ r = Plus(a.reserved, c)
      \/ u = Plus(a.used, c) /\ r = a.reserved
  OBVIOUS
<1>1. AllocatorType(a) /\ WordPages \in Nat
  BY LayoutAssumption DEF AllocatorOK
<1>2. /\ c \in Nat
      /\ Cardinality(a.bits) \in Nat
      /\ Cardinality(a.bits) + c <= a.size * 8 + 1
      /\ Cardinality(a.bits \cup new) = Cardinality(a.bits) + c
  BY <1>1, BitCount
<1> HIDE DEF b, c
<1>3. /\ Minus(a.free, c) \in 0 .. WordPages - 1
      /\ u \in 0 .. WordPages - 1 /\ r \in 0 .. WordPages - 1
      /\ Minus(a.free, c) + u + r \in {M, M + WordPages, M + 2 * WordPages}
  <2>1. /\ a.free \in 0 .. WordPages - 1
        /\ a.used \in 0 .. WordPages - 1
        /\ a.reserved \in 0 .. WordPages - 1
    BY <1>1 DEF AllocatorType
  <2>2. c < WordPages /\ M < WordPages
    BY <1>1, <1>2 DEF Fits, AllocatorType
  <2>3. a.free + a.used + a.reserved \in {M, M + WordPages, M + 2 * WordPages}
    BY DEF AllocatorOK, SumOK
  <2> QED BY <2>1, <2>2, <2>3, <1>1, <1>2, <1>c DEF Plus, Minus
<1>4. /\ b \in [initialized : BOOLEAN, size : Nat, buffer : Nat,
                bits : SUBSET Nat, index : Nat,
                free : 0 .. WordPages - 1, used : 0 .. WordPages - 1,
                reserved : 0 .. WordPages - 1]
      /\ b.size = a.size /\ b.index = a.index
      /\ b.initialized = a.initialized /\ b.buffer = a.buffer
      /\ b.used = u /\ b.reserved = r
      /\ b.bits = a.bits \cup new
      /\ b.free = Minus(a.free, c)
  <2>1. new \subseteq Nat
    BY DEF Addressable
  <2> QED BY <2>1, <1>0, <1>1, <1>3 DEF AllocatorType
<1>5. AllocatorType(b)
  BY <1>4, <1>1 DEF AllocatorType, Addressable
<1>6. NothingFreeBelowIndex(b)
  BY <1>4 DEF AllocatorOK, NothingFreeBelowIndex, Searched
<1>7. SumOK(b, M)
  BY <1>3, <1>4 DEF SumOK
<1>8. CountOK(b, M)
  <2>1. PICK stray \in {0, 1} :
            a.free \in {M + stray - Cardinality(a.bits),
                        M + stray - Cardinality(a.bits) + WordPages}
    BY DEF AllocatorOK, CountOK
  <2>2. a.free \in 0 .. WordPages - 1 /\ a.size * 8 \in Nat
    BY <1>1 DEF AllocatorType
  <2>3. Cardinality(a.bits) + c < WordPages /\ M < WordPages
    BY <1>1, <1>2, <2>2 DEF Fits
  <2>4. Minus(a.free, c) \in {M + stray - (Cardinality(a.bits) + c),
                              M + stray - (Cardinality(a.bits) + c) + WordPages}
    BY <2>1, <2>2, <2>3, <1>1, <1>2, FreeFollowsCount
  <2> QED BY <2>4, <1>2, <1>4 DEF CountOK
<1> QED BY <1>4, <1>5, <1>6, <1>7, <1>8 DEF AllocatorOK, b

\* Clearing bits, giving their pages back to free_memory and lowering the
\* search index to the lowest of them keeps the allocator in order.
LEMMA ClearingBits ==
    ASSUME NEW a, NEW M \in Nat, AllocatorOK(a, M), Fits(a, M),
           NEW old, old \subseteq a.bits,
           NEW u, NEW r,
           \/ u = a.used /\ r = Minus(a.reserved, Cardinality(old))
           \/ u = Minus(a.used, Cardinality(old)) /\ r = a.reserved
    PROVE  LET b == BitsCleared(a, old, u, r)
           IN  /\ AllocatorOK(b, M)
               /\ b.size = a.size
               /\ b.initialized = a.initialized /\ b.buffer = a.buffer
               /\ b.bits = a.bits \ old
PROOF
<1> DEFINE c == Cardinality(old)
           b == BitsCleared(a, old, u, r)
<1>0. b = [a EXCEPT !.bits = a.bits \ old,
                    !.index = Lowest({a.index} \cup old),
                    !.free = Plus(a.free, c),
                    !.used = u, !.reserved = r]
  BY DEF BitsCleared
<1>c. \/ u = a.used /\ r = Minus(a.reserved, c)
      \/ u = Minus(a.used, c) /\ r = a.reserved
  OBVIOUS
<1>1. AllocatorType(a) /\ WordPages \in Nat
  BY LayoutAssumption DEF AllocatorOK
<1>2. /\ c \in Nat
      /\ Cardinality(a.bits) \in Nat
      /\ Cardinality(a.bits) <= a.size * 8 + 1
      /\ c <= Cardinality(a.bits)
      /\ Cardinality(a.bits \ old) = Cardinality(a.bits) - c
  <2>1. {} \subseteq Addressable(a) \ a.bits
    OBVIOUS
  <2>2. a.size * 8 \in Nat
    BY <1>1 DEF AllocatorType
  <2>3. /\ Cardinality({}) \in Nat
        /\ Cardinality(a.bits) \in Nat
        /\ Cardinality(a.bits) + Cardinality({}) <= a.size * 8 + 1
    BY <1>1, <2>1, BitCount
  <2>4. /\ c \in Nat
        /\ c <= Cardinality(a.bits)
        /\ Cardinality(a.bits \ old) = Cardinality(a.bits) - c
    BY <1>1, <2>1, BitCount
  <2> QED BY <2>2, <2>3, <2>4
<1> HIDE DEF b, c
<1>3. /\ Plus(a.free, c) \in 0 .. WordPages - 1
      /\ u \in 0 .. WordPages - 1 /\ r \in 0 .. WordPages - 1
      /\ Plus(a.free, c) + u + r \in {M, M + WordPages, M + 2 * WordPages}
  <2>1. /\ a.free \in 0 .. WordPages - 1
        /\ a.used \in 0 .. WordPages - 1
        /\ a.reserved \in 0 .. WordPages - 1
    BY <1>1 DEF AllocatorType
  <2>2. c < WordPages /\ M < WordPages
    BY <1>1, <1>2 DEF Fits, AllocatorType
  <2>3. a.free + a.used + a.reserved \in {M, M + WordPages, M + 2 * WordPages}
    BY DEF AllocatorOK, SumOK
  <2> QED BY <2>1, <2>2, <2>3, <1>1, <1>2, <1>c DEF Plus, Minus
<1>4. LET low == Lowest({a.index} \cup old)
      IN  /\ low \in Nat
          /\ low <= a.index
          /\ \A p \in old : low <= p
  <2>1. {a.index} \cup old \subseteq Nat
    BY <1>1 DEF AllocatorType
  <2> QED BY <2>1, LowestExists
<1> DEFINE low == Lowest({a.index} \cup old)
<1> HIDE DEF low
<1>5. /\ b \in [initialized : BOOLEAN, size : Nat, buffer : Nat,
                bits : SUBSET Nat, index : Nat,
                free : 0 .. WordPages - 1, used : 0 .. WordPages - 1,
                reserved : 0 .. WordPages - 1]
      /\ b.size = a.size /\ b.index = low
      /\ b.initialized = a.initialized /\ b.buffer = a.buffer
      /\ b.used = u /\ b.reserved = r
      /\ b.bits = a.bits \ old
      /\ b.free = Plus(a.free, c)
  <2> DEFINE kept == a.bits \ old
             f == Plus(a.free, c)
  <2>1. low \in Nat /\ kept \subseteq Nat /\ f \in 0 .. WordPages - 1
    BY <1>1, <1>3, <1>4 DEF low, AllocatorType
  <2>2. b = [a EXCEPT !.bits = kept, !.index = low, !.free = f,
                      !.used = u, !.reserved = r]
    BY <1>0 DEF low
  <2> HIDE DEF kept, f
  <2>3. b \in [initialized : BOOLEAN, size : Nat, buffer : Nat,
               bits : SUBSET Nat, index : Nat,
               free : 0 .. WordPages - 1, used : 0 .. WordPages - 1,
               reserved : 0 .. WordPages - 1]
    BY <2>1, <2>2, <1>1, <1>3 DEF AllocatorType
  <2>4. /\ b.size = a.size /\ b.index = low
        /\ b.initialized = a.initialized /\ b.buffer = a.buffer
        /\ b.used = u /\ b.reserved = r
        /\ b.bits = kept
        /\ b.free = f
    BY <2>2, <1>1 DEF AllocatorType
  <2> QED BY <2>3, <2>4 DEF kept, f
<1>6. AllocatorType(b)
  <2>1. low <= a.index /\ low \in Nat
    BY <1>4 DEF low
  <2>2. a.size * 8 \in Nat /\ a.index \in Nat /\ a.index <= a.size * 8
    BY <1>1 DEF AllocatorType
  <2>3. b.index <= b.size * 8
    BY <2>1, <2>2, <1>5
  <2> QED BY <2>3, <1>5, <1>1 DEF AllocatorType, Addressable
<1>7. NothingFreeBelowIndex(b)
  <2> SUFFICES ASSUME NEW p \in Searched(b), p < b.index PROVE p \in b.bits
    BY DEF NothingFreeBelowIndex
  <2>1. p \in Searched(a) /\ p \in Nat
    BY <1>5 DEF Searched
  <2>2. p < low
    BY <1>5
  <2>3. /\ low \in Nat /\ low <= a.index
        /\ \A q \in old : low <= q
    BY <1>4 DEF low
  <2>4. p < a.index /\ p \notin old
    BY <2>1, <2>2, <2>3, <1>1 DEF AllocatorType
  <2> QED BY <2>1, <2>4, <1>5 DEF AllocatorOK, NothingFreeBelowIndex
<1>8. SumOK(b, M)
  BY <1>3, <1>5 DEF SumOK
<1>9. CountOK(b, M)
  <2>1. PICK stray \in {0, 1} :
            a.free \in {M + stray - Cardinality(a.bits),
                        M + stray - Cardinality(a.bits) + WordPages}
    BY DEF AllocatorOK, CountOK
  <2>2. a.free \in 0 .. WordPages - 1 /\ a.size * 8 \in Nat
    BY <1>1 DEF AllocatorType
  <2>3. Cardinality(a.bits) < WordPages /\ M < WordPages /\ M + stray < WordPages
    BY <1>1, <1>2, <2>2 DEF Fits
  <2>4. Plus(a.free, c) \in {M + stray - (Cardinality(a.bits) - c),
                             M + stray - (Cardinality(a.bits) - c) + WordPages}
    BY <2>1, <2>2, <2>3, <1>1, <1>2, FreeFollowsCount
  <2> QED BY <2>4, <1>2, <1>5 DEF CountOK
<1> QED BY <1>5, <1>6, <1>7, <1>8, <1>9 DEF AllocatorOK, b

\* reserve_page, lock_page, unreserve_page and free_page over any set of
\* pages keep the allocator in order and change just the bits of the set.
LEMMA ReserveInOrder ==
    ASSUME NEW a, NEW M \in Nat, AllocatorOK(a, M), Fits(a, M), NEW P
    PROVE  LET b == ReservePages(a, P)
           IN  /\ AllocatorOK(b, M)
               /\ b.size = a.size /\ b.index = a.index
               /\ b.initialized = a.initialized /\ b.buffer = a.buffer
               /\ b.bits = a.bits \cup (P \cap Addressable(a))
PROOF
<1> DEFINE new == (P \cap Addressable(a)) \ a.bits
           b == ReservePages(a, P)
<1>1. new \subseteq Addressable(a) \ a.bits
  OBVIOUS
<1> DEFINE u == a.used
           r == Plus(a.reserved, Cardinality(new))
<1>2. b = BitsSet(a, new, u, r)
  BY DEF ReservePages, BitsSet, AllocatorOK, AllocatorType
<1>3. a.bits \cup new = a.bits \cup (P \cap Addressable(a))
  OBVIOUS
<1>4. \/ u = a.used /\ r = Plus(a.reserved, Cardinality(new))
      \/ u = Plus(a.used, Cardinality(new)) /\ r = a.reserved
  OBVIOUS
<1> HIDE DEF new, u, r, b
<1>5. /\ AllocatorOK(b, M)
      /\ b.size = a.size /\ b.index = a.index
      /\ b.initialized = a.initialized /\ b.buffer = a.buffer
      /\ b.bits = a.bits \cup new
  BY <1>1, <1>2, <1>4, SettingBits
<1> QED BY <1>3, <1>5 DEF b

LEMMA LockInOrder ==
    ASSUME NEW a, NEW M \in Nat, AllocatorOK(a, M), Fits(a, M), NEW P
    PROVE  LET b == LockPages(a, P)
           IN  /\ AllocatorOK(b, M)
               /\ b.size = a.size /\ b.index = a.index
               /\ b.initialized = a.initialized /\ b.buffer = a.buffer
               /\ b.bits = a.bits \cup (P \cap Addressable(a))
PROOF
<1> DEFINE new == (P \cap Addressable(a)) \ a.bits
           b == LockPages(a, P)
<1>1. new \subseteq Addressable(a) \ a.bits
  OBVIOUS
<1> DEFINE u == Plus(a.used, Cardinality(new))
           r == a.reserved
<1>2. b = BitsSet(a, new, u, r)
  BY DEF LockPages, BitsSet, AllocatorOK, AllocatorType
<1>3. a.bits \cup new = a.bits \cup (P \cap Addressable(a))
  OBVIOUS
<1>4. \/ u = a.used /\ r = Plus(a.reserved, Cardinality(new))
      \/ u = Plus(a.used, Cardinality(new)) /\ r = a.reserved
  OBVIOUS
<1> HIDE DEF new, u, r, b
<1>5. /\ AllocatorOK(b, M)
      /\ b.size = a.size /\ b.index = a.index
      /\ b.initialized = a.initialized /\ b.buffer = a.buffer
      /\ b.bits = a.bits \cup new
  BY <1>1, <1>2, <1>4, SettingBits
<1> QED BY <1>3, <1>5 DEF b

LEMMA UnreserveInOrder ==
    ASSUME NEW a, NEW M \in Nat, AllocatorOK(a, M), Fits(a, M), NEW P
    PROVE  LET b == UnreservePages(a, P)
           IN  /\ AllocatorOK(b, M)
               /\ b.size = a.size
               /\ b.initialized = a.initialized /\ b.buffer = a.buffer
               /\ b.bits = a.bits \ P
PROOF
<1> DEFINE old == P \cap a.bits
           b == UnreservePages(a, P)
<1>1. old \subseteq a.bits
  OBVIOUS
<1> DEFINE u == a.used
           r == Minus(a.reserved, Cardinality(old))
<1>2. b = BitsCleared(a, old, u, r)
  BY DEF UnreservePages, BitsCleared, AllocatorOK, AllocatorType
<1>3. a.bits \ old = a.bits \ P
  OBVIOUS
<1>4. \/ u = a.used /\ r = Minus(a.reserved, Cardinality(old))
      \/ u = Minus(a.used, Cardinality(old)) /\ r = a.reserved
  OBVIOUS
<1> HIDE DEF old, u, r, b
<1>5. /\ AllocatorOK(b, M)
      /\ b.size = a.size
      /\ b.initialized = a.initialized /\ b.buffer = a.buffer
      /\ b.bits = a.bits \ old
  BY <1>1, <1>2, <1>4, ClearingBits
<1> QED BY <1>3, <1>5 DEF b

LEMMA ReleaseInOrder ==
    ASSUME NEW a, NEW M \in Nat, AllocatorOK(a, M), Fits(a, M), NEW P
    PROVE  LET b == ReleasePages(a, P)
           IN  /\ AllocatorOK(b, M)
               /\ b.size = a.size
               /\ b.initialized = a.initialized /\ b.buffer = a.buffer
               /\ b.bits = a.bits \ P
PROOF
<1> DEFINE old == P \cap a.bits
           b == ReleasePages(a, P)
<1>1. old \subseteq a.bits
  OBVIOUS
<1> DEFINE u == Minus(a.used, Cardinality(old))
           r == a.reserved
<1>2. b = BitsCleared(a, old, u, r)
  BY DEF ReleasePages, BitsCleared, AllocatorOK, AllocatorType
<1>3. a.bits \ old = a.bits \ P
  OBVIOUS
<1>4. \/ u = a.used /\ r = Minus(a.reserved, Cardinality(old))
      \/ u = Minus(a.used, Cardinality(old)) /\ r = a.reserved
  OBVIOUS
<1> HIDE DEF old, u, r, b
<1>5. /\ AllocatorOK(b, M)
      /\ b.size = a.size
      /\ b.initialized = a.initialized /\ b.buffer = a.buffer
      /\ b.bits = a.bits \ old
  BY <1>1, <1>2, <1>4, ClearingBits
<1> QED BY <1>3, <1>5 DEF b

\* A request finds a page exactly when a searched bit is clear, finds the
\* lowest one, and keeps the allocator in order.
LEMMA RequestInOrder ==
    ASSUME NEW a, NEW M \in Nat, AllocatorOK(a, M), Fits(a, M)
    PROVE  LET b == AfterRequest(a)
               p == RequestedPage(a)
           IN  /\ AllocatorOK(b, M)
               /\ b.size = a.size
               /\ b.initialized = a.initialized /\ b.buffer = a.buffer
               /\ Candidates(a) = FreePages(a)
               /\ FreePages(a) = {} => b.bits = a.bits /\ p = NULL
               /\ FreePages(a) # {} =>
                    /\ p \in FreePages(a)
                    /\ \A q \in FreePages(a) : p <= q
                    /\ b.bits = a.bits \cup {p}
PROOF
<1> DEFINE b == AfterRequest(a)
           p == RequestedPage(a)
<1>1. AllocatorType(a)
  BY DEF AllocatorOK
<1>2. Candidates(a) = FreePages(a)
  BY <1>1 DEF AllocatorOK, AllocatorType, NothingFreeBelowIndex, Candidates, FreePages, Searched
<1>3. CASE FreePages(a) = {}
  <2>1. p = NULL
    BY <1>2, <1>3 DEF RequestedPage
  <2> DEFINE i == IF a.index < a.size * 8 THEN a.size * 8 ELSE a.index
  <2>2. b = [a EXCEPT !.index = i]
    BY <1>2, <1>3 DEF AfterRequest
  <2>3. i \in Nat /\ i <= a.size * 8
    BY <1>1 DEF AllocatorType
  <2> HIDE DEF i, b
  <2>4. AllocatorType(b) /\ b.index = i /\ b.bits = a.bits /\ b.size = a.size
        /\ b.initialized = a.initialized /\ b.buffer = a.buffer
        /\ b.free = a.free /\ b.used = a.used /\ b.reserved = a.reserved
    BY <2>2, <2>3, <1>1 DEF AllocatorType, Addressable
  <2>5. AllocatorOK(b, M)
    BY <2>4, <1>3 DEF AllocatorOK, NothingFreeBelowIndex, FreePages, Searched, SumOK, CountOK
  <2> QED BY <2>1, <2>4, <2>5, <1>2, <1>3 DEF b
<1>4. CASE FreePages(a) # {}
  <2>1. FreePages(a) \subseteq Nat
    BY DEF FreePages, Searched
  <2>2. /\ p \in FreePages(a)
        /\ \A q \in FreePages(a) : p <= q
    BY <2>1, <1>2, <1>4, LowestExists DEF RequestedPage
  <2> DEFINE at == [a EXCEPT !.index = p]
  <2>3. b = LockPages(at, {p})
    BY <1>2, <1>4 DEF AfterRequest
  <2> HIDE DEF p, b
  <2>4. p \in Nat /\ p < a.size * 8
    BY <2>2, <1>1 DEF FreePages, Searched, AllocatorType
  <2>5. /\ AllocatorType(at) /\ at.index = p
        /\ at.bits = a.bits /\ at.size = a.size
        /\ at.initialized = a.initialized /\ at.buffer = a.buffer
        /\ at.free = a.free /\ at.used = a.used /\ at.reserved = a.reserved
    BY <2>4, <1>1 DEF AllocatorType, Addressable
  <2> HIDE DEF at
  <2>6. NothingFreeBelowIndex(at)
    BY <2>2, <2>4, <2>5 DEF NothingFreeBelowIndex, FreePages, Searched
  <2>7. AllocatorOK(at, M) /\ Fits(at, M)
    BY <2>5, <2>6 DEF AllocatorOK, SumOK, CountOK, Fits
  <2>8. /\ AllocatorOK(b, M)
        /\ b.size = at.size
        /\ b.initialized = at.initialized /\ b.buffer = at.buffer
        /\ b.bits = at.bits \cup ({p} \cap Addressable(at))
    BY <2>3, <2>7, LockInOrder
  <2>9. p \in Addressable(at)
    BY <2>4, <2>5, <1>1 DEF Addressable, AllocatorType
  <2> QED BY <2>2, <2>5, <2>8, <2>9, <1>2, <1>4 DEF p, b
<1> QED BY <1>3, <1>4

-----------------------------------------------------------------------------
\* Initialization: the zeroed bitmap, and then everything that
\* read_efi_memory_map reserves, unreserves and locks.
LEMMA InitBitmapInOrder ==
    ASSUME NEW map \in MemoryMaps, NEW stray,
           stray \in SUBSET {(MemoryPages(map) \div 8 + 1) * 8}
    PROVE  LET a == InitBitmap(Uninitialized, map, stray)
           IN  /\ AllocatorOK(a, MemoryPages(map))
               /\ Fits(a, MemoryPages(map))
               /\ a.initialized
               /\ a.size = MemoryPages(map) \div 8 + 1
PROOF
<1> DEFINE a == InitBitmap(Uninitialized, map, stray)
           M == MemoryPages(map)
           S == M \div 8 + 1
<1>1. /\ M \in Nat /\ M + 16 < WordPages /\ WordPages \in Nat
      /\ LargestFreeSegment(map) \in Nat
  BY MapAssumption, LayoutAssumption
<1>2. S \in Nat /\ S * 8 <= M + 8 /\ S * 8 \in Nat
  BY <1>1
<1>3. /\ a.initialized = TRUE /\ a.size = S
      /\ a.bits = stray /\ a.index = 0
      /\ a.free = M /\ a.used = 0 /\ a.reserved = 0
      /\ a \in [initialized : BOOLEAN, size : Nat, buffer : Nat,
                bits : SUBSET Nat, index : Nat,
                free : 0 .. WordPages - 1, used : 0 .. WordPages - 1,
                reserved : 0 .. WordPages - 1]
  <2> DEFINE L == LargestFreeSegment(map)
  <2>1. a = [Uninitialized EXCEPT !.initialized = TRUE, !.size = S, !.buffer = L,
                                  !.bits = stray, !.free = M]
    BY DEF InitBitmap
  <2>2. stray \subseteq Nat
    BY <1>2
  <2>3. L \in Nat
    BY <1>1
  <2> DEFINE e == Uninitialized
  <2>4. /\ e \in [initialized : BOOLEAN, size : Nat, buffer : Nat,
                  bits : SUBSET Nat, index : Nat,
                  free : 0 .. WordPages - 1, used : 0 .. WordPages - 1,
                  reserved : 0 .. WordPages - 1]
        /\ e.index = 0 /\ e.used = 0 /\ e.reserved = 0
    BY <1>1 DEF Uninitialized, NULL
  <2> HIDE DEF a, M, S, L, e
  <2>5. a = [e EXCEPT !.initialized = TRUE, !.size = S, !.buffer = L,
                      !.bits = stray, !.free = M]
    BY <2>1 DEF e
  <2>6. M \in 0 .. WordPages - 1 /\ S \in Nat
    BY <1>1, <1>2
  <2>7. /\ a.initialized = TRUE /\ a.size = S
        /\ a.bits = stray /\ a.index = e.index
        /\ a.free = M /\ a.used = e.used /\ a.reserved = e.reserved
    BY <2>5, <2>4
  <2>8. a \in [initialized : BOOLEAN, size : Nat, buffer : Nat,
               bits : SUBSET Nat, index : Nat,
               free : 0 .. WordPages - 1, used : 0 .. WordPages - 1,
               reserved : 0 .. WordPages - 1]
    BY <2>5, <2>2, <2>3, <2>4, <2>6
  <2> QED BY <2>4, <2>7, <2>8
<1>4. stray = {} \/ stray = {S * 8}
  BY DEF S
<1>5. Cardinality(stray) \in {0, 1}
  BY <1>4, FS_EmptySet, FS_Singleton
<1> HIDE DEF a, M, S
<1>6. AllocatorType(a)
  BY <1>1, <1>2, <1>3, <1>4 DEF AllocatorType, Addressable
<1>7. NothingFreeBelowIndex(a)
  BY <1>3, <1>2 DEF NothingFreeBelowIndex, Searched
<1>8. SumOK(a, M)
  BY <1>1, <1>3 DEF SumOK
<1>9. CountOK(a, M)
  BY <1>1, <1>3, <1>5 DEF CountOK
<1>10. Fits(a, M)
  BY <1>1, <1>2, <1>3 DEF Fits
<1> QED BY <1>3, <1>6, <1>7, <1>8, <1>9, <1>10 DEF AllocatorOK, a, M, S

SegmentPages(map) ==
    UNION {LoopPages(map[i].start, map[i].pages) : i \in Conventional(map)}

LEMMA ClaimMemoryInOrder ==
    ASSUME NEW a, NEW map \in MemoryMaps,
           AllocatorOK(a, MemoryPages(map)), Fits(a, MemoryPages(map))
    PROVE  LET b == ClaimMemory(a, map)
           IN  /\ AllocatorOK(b, MemoryPages(map))
               /\ b.size = a.size /\ b.initialized = a.initialized
               /\ b.buffer = a.buffer
               /\ \A p \in Addressable(a) \ b.bits :
                    /\ p \in LoopPages(0, MemoryPages(map) + 1) => p \in SegmentPages(map)
                    /\ p \notin LoopPages(0, LowPages)
                    /\ p \notin BufferPages(b)
PROOF
<1> DEFINE M == MemoryPages(map)
           all == ReservePages(a, LoopPages(0, M + 1))
           usable == UnreservePages(all, SegmentPages(map))
           high == ReservePages(usable, LoopPages(0, LowPages))
           b == LockPages(high, BufferPages(high))
<1>1. b = ClaimMemory(a, map)
  BY DEF ClaimMemory, SegmentPages
<1>2. M \in Nat
  BY MapAssumption
<1> HIDE DEF M
<1>a. AllocatorOK(a, M) /\ Fits(a, M)
  BY DEF M
<1>3. /\ AllocatorOK(all, M) /\ Fits(all, M)
      /\ all.size = a.size /\ all.initialized = a.initialized
      /\ all.buffer = a.buffer
      /\ all.bits = a.bits \cup (LoopPages(0, M + 1) \cap Addressable(a))
  BY <1>2, <1>a, ReserveInOrder DEF Fits
<1> HIDE DEF all
<1>4. /\ AllocatorOK(usable, M) /\ Fits(usable, M)
      /\ usable.size = a.size /\ usable.initialized = a.initialized
      /\ usable.buffer = a.buffer
      /\ usable.bits = all.bits \ SegmentPages(map)
  BY <1>2, <1>3, UnreserveInOrder DEF Fits
<1> HIDE DEF usable
<1>5. /\ AllocatorOK(high, M) /\ Fits(high, M)
      /\ high.size = a.size /\ high.initialized = a.initialized
      /\ high.buffer = a.buffer
      /\ high.bits = usable.bits \cup (LoopPages(0, LowPages) \cap Addressable(usable))
  BY <1>2, <1>4, ReserveInOrder DEF Fits
<1> HIDE DEF high
<1>6. /\ AllocatorOK(b, M)
      /\ b.size = a.size /\ b.initialized = a.initialized
      /\ b.buffer = a.buffer
      /\ b.bits = high.bits \cup (BufferPages(high) \cap Addressable(high))
  BY <1>2, <1>5, LockInOrder
<1> HIDE DEF b
<1>7. BufferPages(b) = BufferPages(high)
  BY <1>5, <1>6 DEF BufferPages
<1>8. Addressable(usable) = Addressable(a) /\ Addressable(high) = Addressable(a)
  BY <1>4, <1>5 DEF Addressable
<1>9. \A p \in Addressable(a) \ b.bits :
        /\ p \in LoopPages(0, M + 1) => p \in SegmentPages(map)
        /\ p \notin LoopPages(0, LowPages)
        /\ p \notin BufferPages(b)
  BY <1>3, <1>4, <1>5, <1>6, <1>7, <1>8
<1> QED BY <1>1, <1>6, <1>9 DEF M

-----------------------------------------------------------------------------
\* The inductive invariant.  The safety invariants of PageFrames speak of
\* the allocator once it is initialized; the invariant adds that its size is
\* the one the memory map gives it (so that the counters cannot lap), and
\* that nothing happened before.
Booted ==
    /\ allocator.initialized =>
         /\ AllocatorOK(allocator, Memory)
         /\ Fits(allocator, Memory)
    /\ ~allocator.initialized => allocator = Uninitialized /\ granted = {}

IInv ==
    /\ memory_map \in MemoryMaps
    /\ granted \subseteq Nat
    /\ answer \in Nat
    /\ allocator.initialized \in BOOLEAN
    /\ Booted
    /\ HeldPagesLocked

LEMMA InitIInv == Init => IInv
BY LayoutAssumption DEF Init, IInv, Booted, HeldPagesLocked, Uninitialized, NULL

LEMMA NextIInv == IInv /\ [Next]_vars => IInv'
PROOF
<1> SUFFICES ASSUME IInv, [Next]_vars PROVE IInv'
  OBVIOUS
<1> DEFINE M == Memory
<1>0. M \in Nat
  BY MapAssumption DEF IInv, Memory
<1>1. CASE ReadEfiMemoryMap
  <2>1. /\ ~allocator.initialized
        /\ allocator = Uninitialized /\ granted = {}
    BY <1>1 DEF ReadEfiMemoryMap, IInv, Booted
  <2>2. PICK stray \in SUBSET {(MemoryPages(memory_map) \div 8 + 1) * 8} :
            allocator' = ClaimMemory(InitBitmap(Uninitialized, memory_map, stray), memory_map)
    BY <1>1, <2>1 DEF ReadEfiMemoryMap, Memory
  <2> DEFINE a == InitBitmap(Uninitialized, memory_map, stray)
  <2>3. /\ AllocatorOK(a, M) /\ Fits(a, M)
        /\ a.initialized
    BY InitBitmapInOrder DEF IInv, Memory
  <2> HIDE DEF a
  <2>4. /\ AllocatorOK(allocator', M) /\ Fits(allocator', M)
        /\ allocator'.initialized
    BY <2>2, <2>3, ClaimMemoryInOrder DEF IInv, Memory, Fits, a
  <2>5. UNCHANGED <<memory_map, granted, answer>>
    BY <1>1 DEF ReadEfiMemoryMap
  <2>6. Memory' = M
    BY <2>5 DEF Memory
  <2> QED BY <2>1, <2>4, <2>5, <2>6 DEF IInv, Booted, HeldPagesLocked
<1>2. CASE RequestPage
  <2>1. /\ allocator.initialized
        /\ AllocatorOK(allocator, M) /\ Fits(allocator, M)
    BY <1>2 DEF RequestPage, IInv, Booted
  <2> DEFINE b == AfterRequest(allocator)
             p == RequestedPage(allocator)
  <2>2. /\ AllocatorOK(b, M)
        /\ b.size = allocator.size
        /\ b.initialized = allocator.initialized
        /\ Candidates(allocator) = FreePages(allocator)
        /\ FreePages(allocator) = {} => b.bits = allocator.bits /\ p = NULL
        /\ FreePages(allocator) # {} =>
             /\ p \in FreePages(allocator)
             /\ b.bits = allocator.bits \cup {p}
    BY <2>1, <1>0, RequestInOrder
  <2>3. /\ allocator' = b /\ answer' = p /\ memory_map' = memory_map
        /\ granted' = IF Candidates(allocator) = {} THEN granted ELSE granted \cup {p}
    BY <1>2 DEF RequestPage
  <2> HIDE DEF b, p
  <2>4. Memory' = M /\ Fits(allocator', M)
    BY <2>1, <2>2, <2>3 DEF Memory, Fits
  <2>5. p \in Nat
    BY <2>2 DEF FreePages, Searched, NULL
  <2>6. HeldPagesLocked'
    BY <2>2, <2>3 DEF IInv, HeldPagesLocked, FreePages, Searched
  <2> QED BY <2>1, <2>2, <2>3, <2>4, <2>5, <2>6 DEF IInv, Booted
<1>3. ASSUME NEW r \in LockRanges, LockRange(r) PROVE IInv'
  <2> DEFINE P == LoopPages(r.start, r.pages)
  <2>1. /\ allocator.initialized
        /\ AllocatorOK(allocator, M) /\ Fits(allocator, M)
        /\ allocator' = LockPages(allocator, P)
        /\ UNCHANGED <<memory_map, granted, answer>>
    BY <1>3 DEF LockRange, IInv, Booted
  <2> HIDE DEF P
  <2>2. /\ AllocatorOK(allocator', M)
        /\ allocator'.size = allocator.size
        /\ allocator'.initialized = allocator.initialized
        /\ allocator.bits \subseteq allocator'.bits
    <3> DEFINE b == LockPages(allocator, P)
    <3>1. /\ AllocatorOK(b, M)
          /\ b.size = allocator.size
          /\ b.initialized = allocator.initialized
          /\ b.bits = allocator.bits \cup (P \cap Addressable(allocator))
      BY <2>1, <1>0, LockInOrder
    <3>2. allocator' = b
      BY <2>1
    <3> HIDE DEF b
    <3> QED BY <3>1, <3>2
  <2>3. Memory' = M /\ Fits(allocator', M)
    BY <2>1, <2>2 DEF Memory, Fits
  <2>4. HeldPagesLocked'
    BY <2>1, <2>2 DEF IInv, HeldPagesLocked, Searched
  <2> QED BY <2>1, <2>2, <2>3, <2>4 DEF IInv, Booted
<1>4. ASSUME NEW start \in granted, NEW pages \in 1 .. FreeRun, FreeRange(start, pages)
      PROVE  IInv'
  <2> DEFINE P == LoopPages(start, pages)
  <2>1. /\ allocator.initialized
        /\ AllocatorOK(allocator, M) /\ Fits(allocator, M)
        /\ allocator' = ReleasePages(allocator, P)
        /\ granted' = granted \ P
        /\ UNCHANGED <<memory_map, answer>>
    BY <1>4 DEF FreeRange, IInv, Booted
  <2> HIDE DEF P
  <2>2. /\ AllocatorOK(allocator', M)
        /\ allocator'.size = allocator.size
        /\ allocator'.initialized = allocator.initialized
        /\ allocator'.bits = allocator.bits \ P
    BY <2>1, <1>0, ReleaseInOrder
  <2>3. Memory' = M /\ Fits(allocator', M)
    BY <2>1, <2>2 DEF Memory, Fits
  <2>4. HeldPagesLocked'
    BY <2>1, <2>2 DEF IInv, HeldPagesLocked, Searched
  <2> QED BY <2>1, <2>2, <2>3, <2>4 DEF IInv, Booted
<1>5. CASE UNCHANGED vars
  BY <1>5 DEF vars, IInv, Booted, HeldPagesLocked, Memory, AllocatorOK, Fits,
              AllocatorType, NothingFreeBelowIndex, SumOK, CountOK, Addressable, Searched
<1> QED BY <1>1, <1>2, <1>3, <1>4, <1>5 DEF Next

LEMMA SpecIInv == Spec => []IInv
BY InitIInv, NextIInv, PTL DEF Spec

LEMMA IInvImplies ==
    IInv => TypeOK /\ SearchIndexSound /\ HeldPagesLocked /\ CountersConserved
            /\ FreeTracksBitmap
PROOF
<1> SUFFICES ASSUME IInv
             PROVE  TypeOK /\ SearchIndexSound /\ CountersConserved /\ FreeTracksBitmap
  BY DEF IInv
<1>1. CASE allocator.initialized
  BY <1>1 DEF IInv, Booted, AllocatorOK, AllocatorType, NothingFreeBelowIndex, SumOK,
     CountOK, TypeOK, SearchIndexSound, CountersConserved, FreeTracksBitmap
<1>2. CASE ~allocator.initialized
  <2>1. allocator = Uninitialized
    BY <1>2 DEF IInv, Booted
  <2>2. TypeOK
    BY <2>1, LayoutAssumption DEF IInv, TypeOK, Uninitialized, NULL, Addressable
  <2>3. SearchIndexSound
    BY <2>1 DEF Uninitialized, SearchIndexSound, Searched
  <2> QED BY <2>2, <2>3, <1>2 DEF CountersConserved, FreeTracksBitmap
<1> QED BY <1>1, <1>2

\* Every reachable state of the allocator is well typed: no bit beyond the
\* stray one is ever set, and the search index stays within the bitmap.
THEOREM TypeCorrect == Spec => []TypeOK
BY SpecIInv, IInvImplies, PTL

\* The search for a page never skips a free one, whatever was locked, freed
\* and requested before (page_bitmap_index in request_page, free_page and
\* unreserve_page).
THEOREM SearchIndexSoundness == Spec => []SearchIndexSound
BY SpecIInv, IInvImplies, PTL

\* No page is handed out twice: a page request_page returned stays locked
\* until it is freed.
THEOREM NoDoubleGrant == Spec => []HeldPagesLocked
BY SpecIInv, IInvImplies, PTL

\* free_memory, used_memory and reserved_memory account for all the memory,
\* whatever was locked, reserved, freed and requested.
THEOREM CountersCorrect == Spec => []CountersConserved
BY SpecIInv, IInvImplies, PTL

\* free_memory is the number of clear bits: every operation of the allocator
\* counts exactly the pages whose bit it changes.
THEOREM FreeMemoryCorrect == Spec => []FreeTracksBitmap
BY SpecIInv, IInvImplies, PTL

-----------------------------------------------------------------------------
\* The allocator implements the frame pool.
LEMMA InitPool == Init => Pool!Init
BY DEF Init, Pool!Init, Uninitialized, FreePages, Searched, NULL

LEMMA StepPool == IInv /\ [Next]_vars => [Pool!Next]_(Pool!vars)
PROOF
<1> SUFFICES ASSUME IInv, [Next]_vars PROVE [Pool!Next]_(Pool!vars)
  OBVIOUS
<1> DEFINE M == Memory
<1>0. M \in Nat
  BY MapAssumption DEF IInv, Memory
<1>1. CASE ReadEfiMemoryMap
  <2>1. ~allocator.initialized /\ UNCHANGED <<granted, answer>>
    BY <1>1 DEF ReadEfiMemoryMap
  <2>2. allocator'.initialized = TRUE
    <3>1. PICK stray \in SUBSET {(MemoryPages(memory_map) \div 8 + 1) * 8} :
              allocator' = ClaimMemory(InitBitmap(Uninitialized, memory_map, stray), memory_map)
      BY <1>1, <2>1 DEF ReadEfiMemoryMap, Memory, IInv, Booted
    <3> DEFINE a == InitBitmap(Uninitialized, memory_map, stray)
    <3>2. AllocatorOK(a, M) /\ Fits(a, M) /\ a.initialized
      BY InitBitmapInOrder DEF IInv, Memory
    <3>3. a.initialized = TRUE
      BY <3>2 DEF AllocatorOK, AllocatorType
    <3> HIDE DEF a
    <3> QED BY <3>1, <3>2, <3>3, ClaimMemoryInOrder DEF IInv, Memory, a
  <2>3. FreePages(allocator)' \in SUBSET Nat
    BY DEF FreePages, Searched
  <2> QED BY <2>1, <2>2, <2>3 DEF Pool!Next, Pool!Fill
<1>2. CASE RequestPage
  <2>1. /\ allocator.initialized
        /\ AllocatorOK(allocator, M) /\ Fits(allocator, M)
    BY <1>2 DEF RequestPage, IInv, Booted
  <2> DEFINE b == AfterRequest(allocator)
             p == RequestedPage(allocator)
  <2>2. /\ b.size = allocator.size
        /\ b.initialized = allocator.initialized
        /\ Candidates(allocator) = FreePages(allocator)
        /\ FreePages(allocator) = {} => b.bits = allocator.bits /\ p = NULL
        /\ FreePages(allocator) # {} =>
             /\ p \in FreePages(allocator)
             /\ \A q \in FreePages(allocator) : p <= q
             /\ b.bits = allocator.bits \cup {p}
    BY <2>1, <1>0, RequestInOrder
  <2>3. /\ allocator' = b /\ answer' = p
        /\ granted' = IF Candidates(allocator) = {} THEN granted ELSE granted \cup {p}
    BY <1>2 DEF RequestPage
  <2> HIDE DEF b, p
  <2>4. CASE FreePages(allocator) = {}
    <3>1. FreePages(allocator)' = FreePages(allocator)
      BY <2>2, <2>3, <2>4 DEF FreePages, Searched
    <3> QED BY <2>1, <2>2, <2>3, <2>4, <3>1 DEF Pool!Next, Pool!Refuse
  <2>5. CASE FreePages(allocator) # {}
    <3>1. FreePages(allocator)' = FreePages(allocator) \ {p}
      BY <2>2, <2>3, <2>5 DEF FreePages, Searched
    <3> QED BY <2>1, <2>2, <2>3, <2>5, <3>1 DEF Pool!Next, Pool!Grant
  <2> QED BY <2>4, <2>5
<1>3. ASSUME NEW r \in LockRanges, LockRange(r) PROVE [Pool!Next]_(Pool!vars)
  <2> DEFINE P == LoopPages(r.start, r.pages)
             b == LockPages(allocator, P)
  <2>1. /\ allocator.initialized
        /\ AllocatorOK(allocator, M) /\ Fits(allocator, M)
        /\ allocator' = b
        /\ UNCHANGED <<granted, answer>>
    BY <1>3 DEF LockRange, IInv, Booted
  <2>2. /\ b.size = allocator.size
        /\ b.initialized = allocator.initialized
        /\ b.bits = allocator.bits \cup (P \cap Addressable(allocator))
    BY <2>1, <1>0, LockInOrder
  <2> HIDE DEF b, P
  <2>3. FreePages(allocator)' \in SUBSET FreePages(allocator)
    BY <2>1, <2>2 DEF FreePages, Searched
  <2> QED BY <2>1, <2>2, <2>3 DEF Pool!Next, Pool!Withdraw
<1>4. ASSUME NEW start \in granted, NEW pages \in 1 .. FreeRun, FreeRange(start, pages)
      PROVE  [Pool!Next]_(Pool!vars)
  <2> DEFINE P == LoopPages(start, pages)
             b == ReleasePages(allocator, P)
  <2>1. /\ allocator.initialized
        /\ AllocatorOK(allocator, M) /\ Fits(allocator, M)
        /\ allocator' = b
        /\ P \subseteq granted
        /\ granted' = granted \ P
        /\ UNCHANGED answer
    BY <1>4 DEF FreeRange, IInv, Booted
  <2>2. /\ b.size = allocator.size
        /\ b.initialized = allocator.initialized
        /\ b.bits = allocator.bits \ P
    BY <2>1, <1>0, ReleaseInOrder
  <2> HIDE DEF b, P
  <2>3. P \subseteq Searched(allocator)
    BY <2>1 DEF IInv, HeldPagesLocked
  <2>4. FreePages(allocator)' = FreePages(allocator) \cup P
    BY <2>1, <2>2, <2>3 DEF FreePages, Searched
  <2> QED BY <2>1, <2>2, <2>4 DEF Pool!Next, Pool!Return
<1>5. CASE UNCHANGED vars
  BY <1>5 DEF vars, Pool!vars, FreePages, Searched
<1> QED BY <1>1, <1>2, <1>3, <1>4, <1>5 DEF Next

\* The allocator, with its bitmap, its search index and its counters,
\* implements the pool: every call is a step the pool allows.
THEOREM ImplementsPool == Spec => PoolSpec
PROOF
<1>1. Init => Pool!Init
  BY InitPool
<1>2. IInv /\ [Next]_vars => [Pool!Next]_(Pool!vars)
  BY StepPool
<1> QED BY <1>1, <1>2, SpecIInv, PTL DEF Spec, PoolSpec, Pool!Spec

-----------------------------------------------------------------------------
\* A loop of at most IntPages \div 2 pages (2 GB) visits the pages of its
\* range and no other: the int product t * 0x1000 does not wrap.
LEMMA ShortLoop ==
    ASSUME NEW start \in Nat, NEW count \in Nat,
           count <= IntPages \div 2, start + count <= WordPages
    PROVE  LoopPages(start, count) = start .. start + count - 1
PROOF
<1> DEFINE H == IntPages \div 2
<1>1. /\ H \in Nat /\ IntPages = 2 * H /\ IntPages \in Nat \ {0}
      /\ WordPages \in Nat \ {0}
  BY LayoutAssumption
<1> HIDE DEF H
<1>2. \A t \in 0 .. count - 1 : IntOffset(t) = t
  <2> SUFFICES ASSUME NEW t \in 0 .. count - 1 PROVE IntOffset(t) = t
    OBVIOUS
  <2>1. t + H \in 0 .. IntPages - 1
    BY <1>1 DEF H
  <2>2. (t + H) % IntPages = t + H
    BY <2>1, <1>1
  <2> QED BY <2>2, <1>1 DEF IntOffset, H
<1>3. \A t \in 0 .. count - 1 : (start + IntOffset(t)) % WordPages = start + t
  <2> SUFFICES ASSUME NEW t \in 0 .. count - 1
               PROVE  (start + IntOffset(t)) % WordPages = start + t
    OBVIOUS
  <2>1. start + t \in 0 .. WordPages - 1
    BY <1>1
  <2>2. (start + t) % WordPages = start + t
    BY <2>1, <1>1
  <2> QED BY <2>2, <1>2
<1>4. LoopPages(start, count) = {start + t : t \in 0 .. count - 1}
  BY <1>3 DEF LoopPages
<1>5. ASSUME NEW p \in start .. start + count - 1
      PROVE  p \in {start + t : t \in 0 .. count - 1}
  <2>1. p - start \in 0 .. count - 1 /\ p = start + (p - start)
    OBVIOUS
  <2> QED BY <2>1
<1>6. \A t \in 0 .. count - 1 : start + t \in start .. start + count - 1
  OBVIOUS
<1> QED BY <1>4, <1>5, <1>6

\* The machine has at most 2 GB, so that every loop over its pages is short.
ShortLoops ==
    /\ LowPages <= IntPages \div 2 /\ LowPages <= WordPages
    /\ \A map \in MemoryMaps :
         /\ MemoryPages(map) + 1 <= IntPages \div 2
         /\ \A i \in DOMAIN map :
              /\ map[i].pages <= IntPages \div 2
              /\ map[i].start + map[i].pages <= WordPages

\* Every free page within the memory is usable; so is every page granted.
UsableInv ==
    /\ allocator.initialized =>
         \A p \in FreePages(allocator) : p <= Memory => Usable(p)
    /\ GrantedUsable

LEMMA InitUsable == Init => UsableInv
BY DEF Init, UsableInv, GrantedUsable, Uninitialized

LEMMA NextUsable ==
    ASSUME ShortLoops
    PROVE  IInv /\ UsableInv /\ [Next]_vars => UsableInv'
PROOF
<1> SUFFICES ASSUME IInv, UsableInv, [Next]_vars PROVE UsableInv'
  OBVIOUS
<1> DEFINE M == Memory
<1>0. M \in Nat
  BY MapAssumption DEF IInv, Memory
<1>1. CASE ReadEfiMemoryMap
  <2>1. /\ ~allocator.initialized
        /\ allocator = Uninitialized /\ granted = {}
        /\ UNCHANGED <<memory_map, granted, answer>>
    BY <1>1 DEF ReadEfiMemoryMap, IInv, Booted
  <2>2. PICK stray \in SUBSET {(MemoryPages(memory_map) \div 8 + 1) * 8} :
            allocator' = ClaimMemory(InitBitmap(Uninitialized, memory_map, stray), memory_map)
    BY <1>1, <2>1 DEF ReadEfiMemoryMap, Memory
  <2> DEFINE a == InitBitmap(Uninitialized, memory_map, stray)
             b == ClaimMemory(a, memory_map)
  <2>3. AllocatorOK(a, M) /\ Fits(a, M)
    BY InitBitmapInOrder DEF IInv, Memory
  <2> HIDE DEF a
  <2>4. /\ b.size = a.size
        /\ \A p \in Addressable(a) \ b.bits :
             /\ p \in LoopPages(0, M + 1) => p \in SegmentPages(memory_map)
             /\ p \notin LoopPages(0, LowPages)
             /\ p \notin BufferPages(b)
    BY <2>3, ClaimMemoryInOrder DEF IInv, Memory
  <2>5. allocator' = b
    BY <2>2 DEF a
  <2> HIDE DEF b
  <2>6. /\ LoopPages(0, M + 1) = 0 .. M
        /\ LoopPages(0, LowPages) = 0 .. LowPages - 1
    <3>1. M + 1 <= IntPages \div 2 /\ M + 1 <= WordPages
      BY <1>0, MapAssumption, LayoutAssumption DEF ShortLoops, IInv, Memory
    <3>2. LoopPages(0, M + 1) = 0 .. 0 + (M + 1) - 1
      BY <3>1, <1>0, ShortLoop
    <3>3. LoopPages(0, LowPages) = 0 .. 0 + LowPages - 1
      BY ShortLoop, LayoutAssumption DEF ShortLoops
    <3> QED BY <3>2, <3>3, <1>0, LayoutAssumption
  <2>7. SUFFICES ASSUME NEW p \in FreePages(allocator'), p <= M
                 PROVE  Usable(p)'
    BY <2>1 DEF UsableInv, GrantedUsable, Memory
  <2>8. p \in Nat /\ p \in Addressable(a) \ b.bits
    BY <2>4, <2>5, <2>3 DEF FreePages, Searched, Addressable, AllocatorOK, AllocatorType
  <2>9. /\ p \in SegmentPages(memory_map) /\ p >= LowPages
        /\ p \notin BufferPages(b)
    BY <2>4, <2>6, <2>7, <2>8, <1>0, LayoutAssumption
  <2>10. PICK i \in Conventional(memory_map) :
             p \in LoopPages(memory_map[i].start, memory_map[i].pages)
    BY <2>9 DEF SegmentPages
  <2>11. p \in memory_map[i].start .. memory_map[i].start + memory_map[i].pages - 1
    <3>1. /\ memory_map[i].start \in Nat /\ memory_map[i].pages \in Nat
          /\ memory_map[i].pages <= IntPages \div 2
          /\ memory_map[i].start + memory_map[i].pages <= WordPages
      BY MapAssumption DEF ShortLoops, IInv, Conventional
    <3> QED BY <3>1, <2>10, ShortLoop
  <2> QED BY <2>1, <2>5, <2>9, <2>11 DEF Usable
<1>2. CASE RequestPage
  <2>1. /\ allocator.initialized
        /\ AllocatorOK(allocator, M) /\ Fits(allocator, M)
        /\ memory_map' = memory_map
    BY <1>2 DEF RequestPage, IInv, Booted
  <2> DEFINE b == AfterRequest(allocator)
             p == RequestedPage(allocator)
  <2>2. /\ b.size = allocator.size /\ b.buffer = allocator.buffer
        /\ Candidates(allocator) = FreePages(allocator)
        /\ FreePages(allocator) = {} => b.bits = allocator.bits
        /\ FreePages(allocator) # {} =>
             /\ p \in FreePages(allocator)
             /\ b.bits = allocator.bits \cup {p}
    BY <2>1, <1>0, RequestInOrder
  <2>3. /\ allocator' = b
        /\ granted' = IF Candidates(allocator) = {} THEN granted ELSE granted \cup {p}
    BY <1>2 DEF RequestPage
  <2> HIDE DEF b, p
  <2>4. BufferPages(allocator)' = BufferPages(allocator)
    BY <2>2, <2>3 DEF BufferPages
  <2>5. \A q : Usable(q)' <=> Usable(q)
    BY <2>1, <2>4 DEF Usable
  <2>6. FreePages(allocator)' \subseteq FreePages(allocator)
    BY <2>2, <2>3 DEF FreePages, Searched
  <2>7. Memory' = Memory
    BY <2>1 DEF Memory
  <2>8. \A q \in granted' : q \in granted \/ q \in FreePages(allocator)
    BY <2>2, <2>3
  <2> QED BY <2>1, <2>5, <2>6, <2>7, <2>8 DEF UsableInv, GrantedUsable
<1>3. ASSUME NEW r \in LockRanges, LockRange(r) PROVE UsableInv'
  <2> DEFINE P == LoopPages(r.start, r.pages)
             b == LockPages(allocator, P)
  <2>1. /\ allocator.initialized
        /\ AllocatorOK(allocator, M) /\ Fits(allocator, M)
        /\ allocator' = b
        /\ UNCHANGED <<memory_map, granted, answer>>
    BY <1>3 DEF LockRange, IInv, Booted
  <2>2. /\ b.size = allocator.size /\ b.buffer = allocator.buffer
        /\ b.bits = allocator.bits \cup (P \cap Addressable(allocator))
    BY <2>1, <1>0, LockInOrder
  <2> HIDE DEF b, P
  <2>3. BufferPages(allocator)' = BufferPages(allocator)
    BY <2>1, <2>2 DEF BufferPages
  <2>4. \A q : Usable(q)' <=> Usable(q)
    BY <2>1, <2>3 DEF Usable
  <2>5. FreePages(allocator)' \subseteq FreePages(allocator)
    BY <2>1, <2>2 DEF FreePages, Searched
  <2>6. Memory' = Memory
    BY <2>1 DEF Memory
  <2> QED BY <2>1, <2>4, <2>5, <2>6 DEF UsableInv, GrantedUsable
<1>4. ASSUME NEW start \in granted, NEW pages \in 1 .. FreeRun, FreeRange(start, pages)
      PROVE  UsableInv'
  <2> DEFINE P == LoopPages(start, pages)
             b == ReleasePages(allocator, P)
  <2>1. /\ allocator.initialized
        /\ AllocatorOK(allocator, M) /\ Fits(allocator, M)
        /\ allocator' = b
        /\ P \subseteq granted
        /\ granted' = granted \ P
        /\ UNCHANGED <<memory_map, answer>>
    BY <1>4 DEF FreeRange, IInv, Booted
  <2>2. /\ b.size = allocator.size /\ b.buffer = allocator.buffer
        /\ b.bits = allocator.bits \ P
    BY <2>1, <1>0, ReleaseInOrder
  <2> HIDE DEF b, P
  <2>3. BufferPages(allocator)' = BufferPages(allocator)
    BY <2>1, <2>2 DEF BufferPages
  <2>4. \A q : Usable(q)' <=> Usable(q)
    BY <2>1, <2>3 DEF Usable
  <2>5. \A q \in FreePages(allocator)' : q \in FreePages(allocator) \/ q \in granted
    BY <2>1, <2>2 DEF FreePages, Searched
  <2>6. Memory' = Memory
    BY <2>1 DEF Memory
  <2> QED BY <2>1, <2>4, <2>5, <2>6 DEF UsableInv, GrantedUsable
<1>5. CASE UNCHANGED vars
  BY <1>5 DEF vars, UsableInv, GrantedUsable, Usable, Memory, FreePages, Searched, BufferPages
<1> QED BY <1>1, <1>2, <1>3, <1>4, <1>5 DEF Next

\* On a machine of at most 2 GB, a page that request_page hands out within
\* the memory is conventional memory, above the first megabyte, and no part
\* of the bitmap (the reservations of read_efi_memory_map).
THEOREM GrantsUsable ==
    ASSUME ShortLoops
    PROVE  Spec => []GrantedUsable
PROOF
<1>1. UsableInv => GrantedUsable
  BY DEF UsableInv
<1> QED BY <1>1, InitUsable, NextUsable, SpecIInv, PTL DEF Spec
=============================================================================
