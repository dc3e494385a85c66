------------------------------- MODULE Console -------------------------------
(***************************************************************************)
(* The screen of the running kernel and the three that write to it:        *)
(* _start, which prints the memory summary (kernel.cpp, after sti), and    *)
(* the keyboard and mouse interrupt handlers.  The gates are interrupt     *)
(* gates on one processor, so a handler runs as one step; _start can be    *)
(* interrupted between any two instructions.  Its print is a step per      *)
(* access to the cursor, as the unoptimized build compiles it: the place   *)
(* of a character is loaded as two arguments of put_char, += loads the     *)
(* cursor, adds, and stores.  A glyph is drawn in one step: its pixels are *)
(* only written, at the place that is loaded by then.                      *)
(***************************************************************************)
EXTENDS Screen, Keyboard, FiniteSets

CONSTANTS
    Text,          \* what _start prints: characters, 10 for a new line
    Font,          \* the glyph of every character
    ScanCodes,     \* the keys pressed and released
    MaxKeys,       \* a bound on how often
    Packets,       \* the movements of the mouse
    Garbage,       \* what the uninitialized pointer buffers may hold
    Listings       \* what initialize_kernel may have printed, in whole rows

VARIABLES
    screen,                                 \* a record of Screen
    shift,                                  \* the shift keys held down
    keys,                                   \* interrupts of the keyboard so far
    pc, printed, reg, place,                \* _start: where it is, the characters
                                            \* printed, the register of a +=, and
                                            \* the arguments of put_char
    mouse, stale, sending, sent, whole,     \* the mouse and its handler
    last, intended,
    text,       \* the pixels of the characters written and not cleared
    hidden,     \* those that were written below the pointer
    raced       \* a key was handled while _start was printing a character

M == INSTANCE Mouse WITH XMax <- Width - 1, YMax <- Height - 1,
                         FirstPackets <- Packets

\* Characters have their glyphs in a cell; the mouse sends packets; the
\* buffers may hold any colour; a listing is in its rows.
ASSUME InputAssumption ==
    /\ Text \in Seq(Characters) /\ ScanCodes \subseteq 0 .. 255 /\ MaxKeys \in Nat
    /\ \A c \in Characters :
          Font[c] \subseteq (0 .. CellWidth - 1) \X (0 .. CellHeight - 1)
    /\ Packets \subseteq {p \in M!Bytes \X M!Bytes \X M!Bytes :
                              M!Has(p[1], M!PS2_FIRST_BYTE)}
    /\ Garbage \subseteq [saved : Colours, drawn : Colours]
    /\ \A l \in Listings :
          /\ l.rows \in Nat
          /\ l.lit \subseteq {i \in Addresses : /\ i % Scanline < Width
                                              /\ i \div Scanline < l.rows * CellHeight}

\* What some theorems ask of the mode the firmware has set: no part of a cell
\* is left at the end of a row (clear_char goes back to the last 8 columns).
WholeCells == Width % CellWidth = 0

starts == <<pc, printed, reg, place>>
mice == <<mouse, stale, sending, sent, whole, last, intended>>
vars == <<screen, shift, keys, starts, mice, text, hidden, raced>>

NEWLINE == 10
Nowhere == [X |-> 0, Y |-> 0]

-----------------------------------------------------------------------------
\* Where the pointer image is, before the first packet where it would be
\* cleared.
PointerShape == {Spot(mouse.old, d) : d \in Visible(mouse.old)}
OriginShape == {Spot(M!Origin, d) : d \in Visible(M!Origin)}

\* What drawing a glyph and clearing a cell do to the text.
TextDrawn(glyph, x, y) ==
    LET new == GlyphAt(glyph, x, y) \cap Addresses
    IN  /\ text' = text \cup new
        /\ hidden' = (hidden \ new) \cup (new \cap PointerShape)
TextCleared(cell) == text' = text \ cell /\ hidden' = hidden \ cell

\* At sti.  prepare_acpi has printed the devices.  The mouse has sent nothing
\* yet: module Mouse is about that.
Init ==
    /\ \E g \in Garbage, l \in Listings :
          /\ screen = Listed(Blank([d \in Pointer |-> g.saved],
                                   [d \in Pointer |-> g.drawn]), l)
          /\ text = l.lit /\ hidden = l.lit \cap OriginShape
    /\ shift = {} /\ keys = 0
    /\ pc = "char" /\ printed = 0 /\ reg = 0 /\ place = Nowhere
    /\ M!Init /\ stale
    /\ raced = FALSE

-----------------------------------------------------------------------------
\* print, a step at a time.
StartUnchanged == UNCHANGED <<shift, keys, mice, raced>>

\* while (*chr != 0): a new line, a character, or the end and hlt.
PrintNewline ==
    /\ pc = "char" /\ printed < Len(Text) /\ Text[printed + 1] = NEWLINE
    /\ pc' = "zeroX"
    /\ StartUnchanged /\ UNCHANGED <<screen, printed, reg, place, text, hidden>>

\* put_char(*chr, cursor_position.X, cursor_position.Y): the arguments, in
\* either order, and the character at the place they say.  They end with the
\* call.
LoadPlace(axis, from, to) ==
    /\ pc = from /\ pc' = to
    /\ place' = [place EXCEPT ![axis] = screen[axis]]
    /\ StartUnchanged /\ UNCHANGED <<screen, printed, reg, text, hidden>>
LoadArguments ==
    \/ /\ printed < Len(Text) /\ Text[printed + 1] # NEWLINE
       /\ LoadPlace("X", "char", "placeY") \/ LoadPlace("Y", "char", "placeX")
    \/ LoadPlace("X", "placeX", "draw")
    \/ LoadPlace("Y", "placeY", "draw")

PrintGlyph ==
    /\ pc = "draw" /\ pc' = "loadX"
    /\ LET glyph == Font[Text[printed + 1]]
       IN  /\ screen' = DrawGlyphAt(screen, glyph, place.X, place.Y)
           /\ TextDrawn(glyph, place.X, place.Y)
    /\ place' = Nowhere
    /\ StartUnchanged /\ UNCHANGED <<printed, reg>>

PrintEnd ==
    /\ pc = "char" /\ printed = Len(Text)
    /\ pc' = "hlt"
    /\ StartUnchanged /\ UNCHANGED <<screen, printed, reg, place, text, hidden>>

\* cursor_position.X += 8
LoadX ==
    /\ pc = "loadX"
    /\ reg' = screen.X /\ pc' = "storeX"
    /\ StartUnchanged /\ UNCHANGED <<screen, printed, place, text, hidden>>
StoreX ==
    /\ pc = "storeX"
    /\ screen' = [screen EXCEPT !.X = reg + CellWidth] /\ pc' = "test"
    /\ StartUnchanged /\ UNCHANGED <<printed, reg, place, text, hidden>>

\* if (cursor_position.X + 8 > width)
TestRowEnd ==
    /\ pc = "test"
    /\ IF AtRowEnd(screen)
       THEN pc' = "zeroX" /\ UNCHANGED printed
       ELSE pc' = "char" /\ printed' = printed + 1
    /\ StartUnchanged /\ UNCHANGED <<screen, reg, place, text, hidden>>

\* next: cursor_position.X = 0, cursor_position.Y += 16
ZeroX ==
    /\ pc = "zeroX"
    /\ screen' = [screen EXCEPT !.X = 0] /\ pc' = "loadY"
    /\ StartUnchanged /\ UNCHANGED <<printed, reg, place, text, hidden>>
LoadY ==
    /\ pc = "loadY"
    /\ reg' = screen.Y /\ pc' = "storeY"
    /\ StartUnchanged /\ UNCHANGED <<screen, printed, place, text, hidden>>
StoreY ==
    /\ pc = "storeY"
    /\ screen' = [screen EXCEPT !.Y = reg + CellHeight]
    /\ pc' = "char" /\ printed' = printed + 1
    /\ StartUnchanged /\ UNCHANGED <<reg, place, text, hidden>>

PrintStep == \/ PrintNewline \/ LoadArguments \/ PrintGlyph \/ PrintEnd \/ LoadX \/ StoreX
         \/ TestRowEnd \/ ZeroX \/ LoadY \/ StoreY

-----------------------------------------------------------------------------
\* keyboard_interrupt_handler: handle_keyboard, one action per kind of key.
Key ==
    /\ keys < MaxKeys /\ keys' = keys + 1
    /\ raced' = (raced \/ pc \notin {"char", "hlt"})
    /\ UNCHANGED <<starts, mice>>

ShiftKey(code) ==
    /\ code \in Shifts \cup {s + RELEASED_DELTA : s \in Shifts}
    /\ shift' = IF code \in Shifts THEN shift \cup {code}
                                   ELSE shift \ {code - RELEASED_DELTA}
    /\ Key /\ UNCHANGED <<screen, text, hidden>>

EnterKey ==
    /\ ENTER \in ScanCodes
    /\ screen' = NextLine(screen)
    /\ Key /\ UNCHANGED <<shift, text, hidden>>

BackspaceKey ==
    /\ BACKSPACE \in ScanCodes
    /\ screen' = ClearChar(screen)
    /\ IF screen.X = 0 /\ screen.Y = 0
       THEN UNCHANGED <<text, hidden>>
       ELSE TextCleared(CellAt(screen'.X, screen'.Y))
    /\ Key /\ UNCHANGED shift

\* The space bar and the keys that ascii_table translates.
Character(code) == IF code = SPACEBAR THEN 32 ELSE translate(code, shift # {})

CharacterKey(code) ==
    /\ code \notin Special \ {SPACEBAR}
    /\ Character(code) # 0
    /\ screen' = PutChar(screen, Font[Character(code)])
    /\ TextDrawn(Font[Character(code)], screen.X, screen.Y)
    /\ Key /\ UNCHANGED shift

OtherKey(code) ==
    /\ code \notin Special
    /\ Character(code) = 0
    /\ Key /\ UNCHANGED <<screen, shift, text, hidden>>

KeyboardInterrupt ==
    \/ \E code \in ScanCodes : ShiftKey(code) \/ CharacterKey(code) \/ OtherKey(code)
    \/ EnterKey
    \/ BackspaceKey

-----------------------------------------------------------------------------
\* The drawing of process_mouse_packet: the pointer is cleared where it was
\* and drawn where it is.
Redrawn == DrawPointer(ClearPointer(screen, mouse.old), M!Target(mouse))

\* mouse_interrupt_handler: one byte; a packet that is ready is processed.
MouseInterrupt ==
    /\ M!Next
    /\ screen' = IF mouse.ready THEN Redrawn ELSE screen
    /\ UNCHANGED <<shift, keys, starts, text, hidden, raced>>

Next == PrintStep \/ KeyboardInterrupt \/ MouseInterrupt
Spec == Init /\ [][Next]_vars

-----------------------------------------------------------------------------
\* The state has its type.
TypeOK ==
    /\ screen \in [X : Nat, Y : Nat, pixels : [Addresses -> Colours],
                   saved : [Pointer -> Colours], drawn : [Pointer -> Colours]]
    /\ shift \subseteq Shifts /\ keys \in 0 .. MaxKeys
    /\ pc \in {"char", "placeX", "placeY", "draw", "loadX", "storeX", "test",
               "zeroX", "loadY", "storeY", "hlt"}
    /\ printed \in 0 .. Len(Text) /\ reg \in Nat /\ place \in [X : Nat, Y : Nat]
    /\ M!TypeOK
    /\ text \subseteq Addresses /\ hidden \subseteq text
    /\ raced \in BOOLEAN

\* Whatever interleaving of the printing and of the keys moved it, the cursor
\* is at the start of a cell of its row, but for the moment in which print
\* has moved it past the last cell and not yet to the next row.
CursorOnGrid ==
    /\ screen.X % CellWidth = 0 /\ screen.Y % CellHeight = 0
    /\ AtRowEnd(screen) => screen.X = Width /\ pc \in {"test", "zeroX"}

\* No character is left at the cursor or behind it, so that the next one is
\* written on an empty cell: BasicRenderer.cpp, "Write the char at the
\* cursor".  Between two characters of _start.
EmptyAhead ==
    \A i \in text : ~ /\ i \div Scanline >= screen.Y
                      /\ \/ i % Scanline >= screen.X
                         \/ i \div Scanline >= screen.Y + CellHeight

\* EmptyAhead as long as no key came while _start printed a character: print,
\* put_char, next and clear_char agree on where the cells are.
WritesOnEmptyCells == ~raced /\ pc \in {"char", "hlt"} => EmptyAhead

\* The pointer leaves no trail: what is drawn and is not text is the pointer
\* where it is now, or was restored from the uninitialized buffers at the
\* first packet (clear_mouse_cursor, "Restore the pixels to the state they
\* were before mouse cursor was drawn").
NoTrails ==
    \A i \in Addresses :
        screen.pixels[i] # "black" => i \in text \cup PointerShape \cup OriginShape

\* The pointer takes away no text but what was written below it.
PointerSparesText == \A i \in text \ hidden : screen.pixels[i] = "white"
=============================================================================
