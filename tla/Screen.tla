-------------------------------- MODULE Screen --------------------------------
(***************************************************************************)
(* The text renderer of kernel/src/graphics/BasicRenderer.cpp as operators *)
(* on the record that holds its state:                                     *)
(*                                                                         *)
(*   X, Y      cursor_position, in pixels                                  *)
(*   pixels    the frame buffer: the colour of each pixel address          *)
(*   saved     mouse_cursor_buffer: the colours below the pointer image    *)
(*   drawn     mouse_cursor_buffer_after: the colours the image was drawn  *)
(*             with                                                        *)
(*                                                                         *)
(* A pixel is one of three colours: the text and the pointer are both      *)
(* drawn white (0xffffffff), cleared cells are black, and "other" stands   *)
(* for every other value an uninitialized buffer may hold.  A glyph is the *)
(* set of <<column, row>> offsets its bitmap sets; the pointer image too.  *)
(***************************************************************************)
EXTENDS Integers

CONSTANTS
    Width, Height,           \* target_frame_buffer->width and height
    Scanline,                \* target_frame_buffer->pixels_per_scanline
    CellWidth, CellHeight,   \* 8 x 16 pixels in the code
    Pointer                  \* the offsets set in MousePointer

ASSUME ScreenAssumption ==
    /\ {Width, Height, CellWidth, CellHeight} \subseteq Nat \ {0}
    /\ CellWidth <= Width /\ CellHeight <= Height
    /\ Scanline \in Nat /\ Width <= Scanline
    /\ Pointer \subseteq Nat \X Nat

Colours == {"black", "white", "other"}

\* put_pixel and get_pixel address a pixel linearly: a column at or right of
\* the scanline's end is on the next scanline.
At(x, y) == x + y * Scanline
Addresses == 0 .. Scanline * Height - 1

\* Writes outside the frame buffer change memory that is not modelled.
Paint(s, P, colour) ==
    [s EXCEPT !.pixels = [i \in Addresses |-> IF i \in P THEN colour ELSE @[i]]]

GlyphAt(glyph, x, y) == {At(x + d[1], y + d[2]) : d \in glyph}
CellAt(x, y) == GlyphAt((0 .. CellWidth - 1) \X (0 .. CellHeight - 1), x, y)

-----------------------------------------------------------------------------
\* next: the start of the next row.  Nothing scrolls or stops at the bottom.
NextLine(s) == [s EXCEPT !.X = 0, !.Y = @ + CellHeight]

\* put_char(chr, x_off, y_off, color), and the same at the cursor.
DrawGlyphAt(s, glyph, x, y) == Paint(s, GlyphAt(glyph, x, y), "white")
DrawGlyph(s, glyph) == DrawGlyphAt(s, glyph, s.X, s.Y)
AtRowEnd(s) == s.X + CellWidth > Width

\* put_char that tests for the end of the row before it moves the cursor.
PutCharTestFirst(s, glyph) ==
    LET moved == [DrawGlyph(s, glyph) EXCEPT !.X = @ + CellWidth]
    IN  IF AtRowEnd(s) THEN NextLine(moved) ELSE moved

\* put_char(chr) and put_char(chr, color): the glyph at the cursor, then the
\* cursor one cell on, to the next row when no whole cell is left.
PutChar(s, glyph) ==
    LET moved == [DrawGlyph(s, glyph) EXCEPT !.X = @ + CellWidth]
    IN  IF AtRowEnd(moved) THEN NextLine(moved) ELSE moved

\* clear_char that does not go to the row above.
CellBackInRow(s) == [s EXCEPT !.X = @ - CellWidth]

\* clear_char that goes to the first columns of the row above.
CellBackToRowStart(s) ==
    IF s.X >= CellWidth
    THEN [s EXCEPT !.X = @ - CellWidth]
    ELSE [s EXCEPT !.X = 0, !.Y = IF @ < CellHeight THEN 0 ELSE @ - CellHeight]

\* clear_char: back one cell, from the start of a row to the last columns of
\* the row above, and that cell is cleared.  At the top left it does nothing.
CellBack(s) ==
    IF s.X >= CellWidth
    THEN [s EXCEPT !.X = @ - CellWidth]
    ELSE [s EXCEPT !.X = @ - CellWidth + Width,
                   !.Y = IF @ < CellHeight THEN 0 ELSE @ - CellHeight]
ClearChar(s) ==
    IF s.X = 0 /\ s.Y = 0
    THEN s
    ELSE LET back == CellBack(s) IN Paint(back, CellAt(back.X, back.Y), "black")

-----------------------------------------------------------------------------
\* The part of the pointer image that is inside the frame buffer at pos.
Visible(pos) == {d \in Pointer : pos.X + d[1] < Width /\ pos.Y + d[2] < Height}
Spot(pos, d) == At(pos.X + d[1], pos.Y + d[2])

\* draw_overlay_mouse_cursor that does not store the pixel state.
DrawPointerUnsaved(s, pos) ==
    [Paint(s, {Spot(pos, d) : d \in Visible(pos)}, "white") EXCEPT
        !.drawn = [d \in Pointer |-> IF d \in Visible(pos) THEN "white" ELSE @[d]]]

\* draw_overlay_mouse_cursor: every visible pixel is saved, then drawn.
DrawPointer(s, pos) ==
    [Paint(s, {Spot(pos, d) : d \in Visible(pos)}, "white") EXCEPT
        !.saved = [d \in Pointer |->
                      IF d \in Visible(pos) THEN s.pixels[Spot(pos, d)] ELSE @[d]],
        !.drawn = [d \in Pointer |-> IF d \in Visible(pos) THEN "white" ELSE @[d]]]

\* clear_mouse_cursor that restores every pixel of the image.
ClearPointerAlways(s, pos) ==
    [s EXCEPT !.pixels = [i \in Addresses |->
        IF \E d \in Visible(pos) : Spot(pos, d) = i
        THEN s.saved[CHOOSE d \in Visible(pos) : Spot(pos, d) = i]
        ELSE @[i]]]

\* clear_mouse_cursor: a visible pixel that still has the colour the image
\* was drawn with gets the colour saved for it.
ClearPointer(s, pos) ==
    LET kept == {d \in Visible(pos) : s.pixels[Spot(pos, d)] = s.drawn[d]}
    IN  [s EXCEPT !.pixels = [i \in Addresses |->
            IF \E d \in kept : Spot(pos, d) = i
            THEN s.saved[CHOOSE d \in kept : Spot(pos, d) = i]
            ELSE @[i]]]

\* clear(0x0)
AllBlack == [i \in Addresses |-> "black"]

\* The screen initialize_kernel clears: the cursor at the top left.  The
\* constructor leaves both pointer buffers uninitialized.
Blank(saved, drawn) ==
    [X |-> 0, Y |-> 0, pixels |-> AllBlack, saved |-> saved, drawn |-> drawn]

\* Some rows of text on it, the last one ended, as println leaves them.
Listed(s, listing) ==
    Paint([s EXCEPT !.Y = listing.rows * CellHeight], listing.lit, "white")
=============================================================================
