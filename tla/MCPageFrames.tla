---------------------------- MODULE MCPageFrames ----------------------------
(* Small machines for PageFrames: pages of 2 bytes, one low page. *)
EXTENDS PageFrames

Seg(c, s, n) == [conventional |-> c, start |-> s, pages |-> n]

\* 15 pages in two conventional segments around a reserved one, the second
\* larger: the bitmap (2 bytes, 16 bits) has no bit behind the memory's end
\* but one.  The bitmap takes the 2 first pages of the second segment.
EvenMap == <<Seg(TRUE, 0, 3), Seg(FALSE, 3, 6), Seg(TRUE, 9, 6)>>

\* 10 pages: the bitmap has 16 bits and pages 11 to 15 do not exist.
TailMap == <<Seg(FALSE, 0, 2), Seg(TRUE, 2, 4), Seg(FALSE, 6, 4)>>

\* 7 pages, listed with a hole: the last segment starts behind the memory's
\* end, on the bit that Bitmap accepts one past its last.
HoleMap == <<Seg(TRUE, 0, 4), Seg(FALSE, 4, 2), Seg(TRUE, 8, 1)>>

MCMemoryMaps == {EvenMap, TailMap, HoleMap}

\* The kernel image at 0, and a frame buffer that reaches over the end.
MCLockRanges == {[start |-> 0, pages |-> 2], [start |-> 13, pages |-> 5]}
=============================================================================
