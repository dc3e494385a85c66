------------------------------ MODULE MCConsole ------------------------------
(***************************************************************************)
(* A frame buffer of two rows of two cells, a cell 2 x 1 pixels, behind    *)
(* each row one pixel that is not shown.  The pointer is three pixels,     *)
(* two of them in its first row.                                           *)
(***************************************************************************)
EXTENDS Console

MCPointer == {<<0, 0>>, <<1, 0>>, <<0, 1>>}

\* A character, which ends the row when a key wrote one before, and a new
\* line.
MCText == <<97, 10>>

\* Every character but the space lights the left pixel of its cell.
MCFont ==
    [c \in -128 .. 127 |-> IF c = 32 THEN {} ELSE {<<0, 0>>}]

\* a, the tabulator, Enter, Backspace and the left shift key.
MCScanCodes == {30, 15, ENTER, BACKSPACE, LEFT_SHIFT, LEFT_SHIFT + RELEASED_DELTA}

\* Two right and one down, and far left and up beyond the edge.
MCPackets == {<<40, 2, 255>>, <<24, 56, 100>>}

\* Buffers that show what was never there, and that take away what was.
MCGarbage == {[saved |-> "other", drawn |-> "black"],
              [saved |-> "black", drawn |-> "white"]}

\* The listing of the devices fills the first row.
MCListings == {[rows |-> 1, lit |-> {0, 2}]}

\* The theorems about the cells are about this frame buffer too.
ASSUME InstanceAssumption == WholeCells
=============================================================================
