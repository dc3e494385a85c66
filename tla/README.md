# Verification of the nerOS kernel

TLA+ models of the nerOS kernel (`kernel/src`), TLC configurations that check
them on small instances, and TLAPS proofs for every size. Paths below are
relative to the repository; `PFA` is `kernel/src/paging/PageFrameAllocator.cpp`.

    tlc -workers 2 -config PageFrames.cfg MCPageFrames.tla     # a run
    tlapm PageFramesProofs.tla                                 # a component's proofs

## 1. The system

nerOS is a 64-bit UEFI hobby kernel on one processor. A boot loader collects
the frame buffer, a font, the memory map and the ACPI root and jumps to
`_start`; `initialize_kernel` builds, in this order, the renderer, the GDT,
the page frame allocator, the page tables, the heap, the interrupt table, the
mouse, and walks the PCI bus; then it enables interrupts, and from there on the
keyboard and mouse handlers draw on the screen while `_start` prints a memory
summary and halts.

| Component | State | Operations | Modelled in |
|---|---|---|---|
| Page frame allocator (`PFA`, `utility/Bitmap.cpp`, `memory/memory.cpp`) | bitmap, search index, three counters | `read_efi_memory_map`, `request_page`, lock / reserve / unreserve / free of pages | `FrameAllocator`, `PageFrames`, abstract `FramePool`; proofs `PageFramesProofs` |
| Page tables (`paging/`) | PML4 and the tables below it | `map_memory` | `PageTables`, abstract `AddressSpace`; proofs `PageTablesProofs` |
| Heap (`memory/heap.cpp`) | segment list, `heap_end`, `last_header` | `initialize_heap`, `malloc`, `expand_heap`, `free` | `Heap`; proofs `HeapProofs` |
| Renderer (`graphics/BasicRenderer.cpp`) | cursor, frame buffer, pixels saved below the pointer | print, put, clear, next, draw and clear pointer | `Screen` (operators), `Console`; proofs `ConsoleProofs` |
| Mouse (`userinput/mouse.cpp`) | packet under construction, position | `handle_ps2_mouse`, `process_mouse_packet`, `init_ps2_mouse` | `MousePackets` (operators), `Mouse`, `Console`; set-up in `Interrupts`; proofs `MouseProofs` |
| Keyboard (`userinput/keyboard.cpp`, `kbScancodeTranslation.cpp`) | shift keys | `handle_keyboard`, `translate` | `Keyboard` (operators), `Console` |
| Interrupts (`interrupts/`) | gates, the two controllers' masks, requests and lines in service | handlers, `remap_pic`, ends of interrupt, exceptions | `PIC` (operators), `Interrupts`, abstract `InterruptLines`; what keyboard and mouse do with their byte in `Console`; proofs `InterruptsProofs` |
| Timer (`scheduling/pit/`) | divisor, time since boot | `tick`, `sleep`, `set_frequency` | `Timer` (operators), `Interrupts` |
| Boot loader (`gnu-efi/bootloader/main.c`) | the boot information | `efi_main` and its helpers | `BootLoader`; proofs in `DiscoveryProofs` |
| Start-up (`utility/kernelUtil.cpp`, `kernel.cpp`) | | `prepare_memory`, ..., `print_memory_summary` | `PageTables` (memory), `Interrupts` (gates, mouse, unmasking), `Discovery` (ACPI), `Console` (printing) |
| PCI, ACPI, AHCI (`io/`, `ahci/`) | none of their own | walk over buses, search for tables, names | `DeviceNames` (operators), `Discovery`; the pages they map also in `PageTables`; proofs `DiscoveryProofs` |
| Text conversion (`utility/cstr.cpp`) | static buffers | `to_string`, `to_hstring` | `TextConversion`; proofs `TextProofs` |
| GDT, port I/O, the vendored gnu-efi | | | not modelled: constant data, instructions, third-party code |

**How they interact.** Everything is a direct call through globals
(`GlobalAllocator`, `GlobalPageTableManager`, `GlobalRenderer`). The heap and
`map_memory` take frames from the allocator; the allocator's own bitmap and the
tables lie in memory that `map_memory` must have mapped. Allocator, tables and
heap run in boot code only, so their calls never overlap. The renderer is the
one component used by three parties at once: `_start` with interrupts enabled,
the keyboard handler and the mouse handler. All gates are interrupt gates, so a
handler is not interrupted, but `_start` is, between any two instructions.

**What is hard.** A search index that is an optimisation over a bitmap (stale
state); counters that wrap; a bitmap rounded up to bytes and checked one bit too
far; a table-filling recursion that allocates while its caller allocates; a
segment list that is split, merged and extended through raw pointers, some of
them NULL; a recursion that ends only if the expansion it triggers is found; a
byte stream without framing whose first byte may be stale; pixels that are
restored long after they were saved; read-modify-write of the cursor under
interrupts; one byte buffer shared by two devices, polled at first and later
fetched by interrupts; two cascaded controllers, each of which must be told of
the end of an interrupt; and a boot loader that looks at no status. `PROJECT.json` lists each at its line under `hazards`, with the
properties that watch it or the reason none does yet.

**What makes each component correct.** The allocator is a pool: it never hands a
page out twice, never misses a free one, hands out usable memory only, and its
counters tell the truth. The tables implement a map from pages to pages and own
their frames. The heap's blocks are disjoint and `malloc` returns. The mouse
handler puts packets together from the bytes of one packet and moves the pointer
by what they say. The text on the screen is what was written, whatever the
pointer does and whatever interleaving moved the cursor. Every byte of a device
is fetched by that device's handler, handlers run one at a time, and a sleeper
wakes. The boot information is true of the machine, every device that can be
reached is found once, and a converted number's text denotes it until the same
conversion is called again.

## 2. The modules

**`FrameAllocator`** holds the allocator as operators on one record (bitmap,
index, counters), one operator per C++ function; a function and its loop over a
range are one operator on a set of pages, which is sound because each of the
four single-page functions is a no-op on a bit that already has its value.
Addresses are page numbers. Three details are kept because they decide what is
right: the counters wrap (`Plus`, `Minus` modulo `WordPages`), the loops compute
`t * 0x1000` in an `int` (`IntOffset` modulo `IntPages`), and `Bitmap::get` and
`set` accept one bit too many (`Addressable` against `Searched`), whose first
value is whatever memory held (`stray`).

**`PageFrames`** is the allocator at work. `ReadEfiMemoryMap` is the whole of
`read_efi_memory_map` with every call it makes; `RequestPage`, `LockRange` and
`FreeRange` are the calls the kernel makes. `granted` (pages handed out) and
`answer` (the last result) are what the callers know. A caller only frees pages
it was given: no code of the kernel frees a page, and the comment on
`free_page` promises nothing else. `FramePool` is what a caller may rely on: the
lowest free frame, NULL only when none is free.

**`PageTables`** models memory as frames that can be read as tables.
`MapMemory` is `map_memory`, three descents that create what is missing and one
entry; `Translations` is the external MMU. The actions are the order of
`prepare_memory` (`RequestRoot`, `MapBootPage` per loop iteration, `LoadCR3`),
then heap pages (`initialize_heap`, `expand_heap`) and device pages
(`enumerate_*`) in any order. Frames come from a pool like `FramePool`.
`AddressSpace` is the map it implements; the refinement maps `mapping` to the
translations of all virtual pages.

**`Heap`** keeps the headers as a function from addresses. `malloc` is `Call`,
then `Expand` as long as no segment fits, then `Allocate`, as the code recurses.
The kernel is linked, loaded and mapped at address 0, so a header at NULL is
its first instructions: `hdr[NULL]`. Its length word, `NullLength`, is what
`combine_forward` adds when it merges with the last segment (it reads the length
after it moved `next`); with the built kernel that word is negative as a signed
64-bit number, so `NullLength` is in the upper half of `Word`.

**`Screen`**, **`MousePackets`** and **`Keyboard`** are the operators of the
renderer and of the two input handlers, in the same style. A pixel has one of
three colours; text and pointer are white, as both are `0xffffffff` in the code,
"other" stands for what uninitialized memory may hold. A glyph and the pointer
image are sets of offsets, and pixels are addressed linearly, as `put_pixel`
does. Mouse bytes are real bytes with the real masks.

**`Mouse`** adds the device: packets of three bytes, one interrupt per byte, and
in front of them the byte the controller was left with while interrupts were
masked. `intended` is where the packets ought to move the pointer, computed from
9-bit two's complement numbers and not from the handler's arithmetic.

**`Console`** composes `Screen`, `Keyboard` and an instance of `Mouse` with
`_start`, from `sti` on, when `prepare_acpi` has printed the devices (`Listings`).
The handlers are one step each. `print` is a step per access to the cursor,
because the kernel is built without optimisation: the place of a character is
loaded as two arguments of `put_char` (`LoadArguments`, in either order), and `+=`
is a load, an addition and a store (`LoadX`, `StoreX`, `ZeroX`, `LoadY`, `StoreY`;
`TestRowEnd` reads only). Drawing a glyph (`PrintGlyph`) is one step, at the place
that was loaded, wherever a key has moved the cursor since: it only writes pixels,
all of them white. Ghost state: `text` (pixels
of characters written and not cleared), `hidden` (those written below the
pointer), `raced` (a key came in the middle of a character).

**`PIC`** holds the pair of 8259 controllers as operators on a record (requests,
lines in service, mask, offset, wiring, initialization state), what the kernel
writes to them (`remap_pic`, `pic_end_master`, `pic_end_slave`), and what the
processor is told. The initialization words are interpreted as they arrive, so
`remap_pic` is its sequence of writes to each chip. **`Timer`** is the arithmetic
of `pit.cpp`.

**`Interrupts`** is the machine around them from `prepare_interrupts` on. `thread`
walks through `init_ps2_mouse` (`AskStatus`, `ReadStatus`, `Configure`,
`CommandMouse`, `ReadAck`), unmasks (`EnableInterrupts`) and then is a client
that sets the timer and sleeps: `Test` and `Halt` are separate, as a tick may
come between the test and `hlt`. `Deliver`, `HandleByte` or `HandleTick`,
`EndOfInterrupt` and `ReturnFromInterrupt` are the steps of a handler, and the
devices (`Reply`, `Key`, `Movement`, `TimerPulse`) act between any two. The
keyboard controller has one buffer for both devices; a byte raises its port's
line if the configuration says so, and reading it may leave the request latched
or withdraw it, as chips differ. `Fault` is an exception anywhere: `panic`, and a
handler that never returns. Four assumptions are named here. A device acts at
most once between two steps of the thread (`fresh`), so that interrupts cannot
keep the processor for ever; a handler takes microseconds and these devices
milliseconds. The controller takes a command at once (the loops of `mouse_wait`
end) and its own answer does come; that of the mouse may come after
`mouse_wait_inbound` has given up. The firmware left the keyboard's interrupt
enabled. And no spurious interrupt is raised. With `EarlyKeys` keys are pressed
during the set-up, and the firmware may leave a scan code in the buffer, which
nobody empties before the polling; without, neither happens. `InterruptLines` is
what it all amounts to: a set of waiting lines, the first of which is served, one at
a time.

**`BootLoader`** is `efi_main`, one action per group of firmware calls
(`LoadFile`, `GetFileInfo`, `LoadHeader`, `LoadSegment`, ..., `ExitBootServices`).
`GetFileInfo` is given an uninitialized size and writes over the pointer it should
write through: what is hit is part of the machine (`vital`). A `machine` says what
the firmware finds and how it behaves, `memory` what is in every unit of it ("file",
or what the firmware left). No status is looked at in
the code, so a call that fails leaves the state as it was. `SearchTables` is an
iteration of the search for the RSDP with its three peculiarities: both the
pointer and the index advance, `CompareGuid` is 0 for equal GUIDs, and `strcmp`
compares one letter. "astray" stands for a kernel or loader that follows a
pointer to nowhere.

**`Discovery`** goes on where the kernel calls `prepare_acpi`: `find_table`, then
the four loops of `pci.cpp`, one action per iteration, over a configuration space
with `Devices` and `Functions` per bus and device. A line printed is the page and
the names. **`DeviceNames`** is `pci_descriptors.cpp`: a name is its table and
code, and fall-through between cases is kept.

**`TextConversion`** has the seven static buffers one behind the other, as they
are linked, so that writes outside a buffer land where they do. `promised` is the
text each conversion's last caller counts on. `Quotients` is what is left of a
value after each division of the loops; digits and lengths are read off it. A
double is a multiple of `1/Unit`, `Unit` a power of two up to 2^49, so that the
arithmetic on it is exact and its fraction ends; its whole part is an `int64_t`, and
`Int32` is the conversion to `int` of the loop over the places, which answers the
least `int` when the whole part does not fit. The uninitialized `size` is a value of
`Garbage`; a text written with a wrong size is promised to nobody, and one written outside its buffer ends all promises, be it
digits or the copy that the conversion of a double makes of what it finds in the
buffer of the signed one. The buffers are zero at first. The least `int64_t`, whose
negation overflows, is left out.

The `...Proofs` modules hold the theorems of section 4 and nothing that is
modelled. What a theorem asks of an instance beyond the assumptions of its module
is a definition next to what it is about (`EnoughFrames`, `KernelLayout`,
`EntriesApart`, `QuietFirst`, `NoLongestMove`, `WholeCells`, `NegativeAtNull`,
`Careful`); the `MC` modules assume it of their instances, so that TLC evaluates it.

The `MC` modules (`MCPageFrames`, `MCPageTables`, `MCHeap`, `MCMouse`,
`MCConsole`, `MCInterrupts`, `MCDiscovery`, `MCTextConversion`) give the
constants their values. Operators whose comment calls them faulty
(`LockPagesUncounted`, `SplitTooEarly`, ...) are slips the code could have made;
each property is tried on one of them and must fail there.

## 3. The runs

| Run | What it shows | Bounds and why they are enough |
|---|---|---|
| `frames` | index, bitmap, counters and grants stay consistent; refines `FramePool` | three memory maps of 7 to 15 pages: a bitmap that ends with memory, one that ends later, one that is reached through a hole; lock ranges inside and across the end; frees of runs of 2. Every order of calls. |
| `frames_tail` | **violated**: pages behind the end of memory are handed out | the same machines |
| `pagetables` | tables own their frames, data survives, refines `AddressSpace` | 24 pages, tables of 4 entries, so that all four levels branch; three free sets; leftovers that look present |
| `heap` | blocks disjoint, list sound, `malloc` returns within two expansions | a client that never frees, like all of the kernel's code, with sizes below, at and above a segment; one that frees between used neighbours, with sizes up to a page; 4 blocks, pages of 128 bytes |
| `heap_free` | **violated**: a block beyond the end of the heap after `combine_forward` | clients that free in any order |
| `mouse` | packets genuine, pointer where they move it | 8 packets in every direction, with overflow and far beyond the edge of a 6 x 4 screen; both first bytes |
| `console` | cursor on the grid, writes on empty cells, no trails, no lost text | two rows of two cells, the first filled by the listing of the devices, 3 keys, 2 characters printed, packets without bound |
| `interrupts` | handlers serve their line, one at a time; refines `InterruptLines`; no byte forgotten, no sleeper lost | two ways the firmware may leave the controllers, one with requests latched and its own masks; every device once between two steps of the thread, which is one byte in the buffer and one request per line; a timer of 40 Hz with 4-bit divisors, scaled so that truncation, the least divisor and the power-on one occur; sleeps of more than one tick |
| `ps2_status` | **violated**: a scan code is taken for the configuration, and the keyboard's interrupt stays off (the mouse's bit is always added) | the same, with keys pressed during the set-up, or before it |
| `startup` | boot information true on quiet firmware; every reachable function found once | 2135 machines: files good, bad or missing; writes of `GetInfo` that hit something or nothing; a firmware that allocates in between; all sequences of up to 3 tables; all subsets of 11 functions on two entries of the configuration space, with 2 devices of 4 functions |
| `startup_rsdp` | **violated**: the ACPI 2.0 table is there and not found | the same |
| `text` | texts stay and denote their numbers | the real buffers of 128 bytes; three calls, enough for one to write beside two others; numbers of 1 to 9 digits, in range of TLC's integers; doubles in eighths, negative ones and one whose whole part is no int (an int ends at 1024); sizes right, at the end of a buffer, and wrapping; 0, 2 and 6 places (cut to 4) |

Bounds that are in guards and not in the code: `MaxBlocks` and `MaxExpansions`
in `Heap` (blocks held; expansions in one call, one more than the property
`TwoExpansionsSuffice` allows), `MaxKeys` in `Console` (the cursor would go down
for ever, as nothing scrolls), `MaxCalls` in `TextConversion`. `FreeRun` in `PageFrames` bounds one call of
`free_pages`.

The deadlock check is off in `heap` and its sibling (a client that never frees
stops when it holds `MaxBlocks` blocks), in `startup` and its sibling (the loader
returns, the kernel goes astray, or the walk is done) and in `text` (`MaxCalls`).

**Fairness.** `Heap`: weak fairness of `Allocate \/ Expand`, the body of `malloc`.
It runs to its end without waiting for anyone, so this is the processor executing
instructions; `MallocReturns` then says that the recursion ends. `Interrupts`:
weak fairness of the processor (`Processor`: start-up, handlers, the sleeper's
loop), of the keyboard controller's answers (`Reply`) and of the timer
(`TimerPulse`), which runs as long as there is power. Keys, movements, exceptions
and clients' calls have none. No fairness helps a handler to run that is masked or
whose line is blocked, so `BytesFetched` and `SleeperWakes` are about the masks
and the ends of interrupt.

**Where the code and its comments disagree.** The `findings` in `PROJECT.json`
quote the comment each violated run refutes, and a few more that need no run:
`get_flag` returns Present for every flag, backspace at the start of a row does
not go back to the previous cursor position, shift turns keys without a
character into glyphs from in front of the font, a movement of -256 is lost.

Some passing properties hold for a reason worth knowing. `WritesOnEmptyCells`
excludes the interleavings in which a key came while a character was printed: a
backspace between the glyph and the move of the cursor leaves the character where
the next is drawn over it. `PointerSparesText` excludes text written below the
pointer, which has the pointer's colour and is erased with it.
`GrantedUsable` speaks of pages inside the memory; `frames_tail` of the others.
`mouse` lets the packet whose first byte is skipped have only movements without
bit 3; one with bit 3 leaves the handler out of step. `pagetables` has enough
frames; with too few the NULL of `request_page` is mapped like a frame,
and heap pages share page 0. `interrupts` has no key during the set-up; `ps2_status` has
one. The acknowledgements that were polled may leave the mouse's line latched, and
then one handler finds the other device's byte, or none; `SurplusNeverGrows` says
that nothing after `sti` adds to that.
`BootInfoTrue` is for firmware that keeps to itself between the calls and has room
for the map (on other firmware the kernel may be given a buffer without a map, and
nobody looks), and says of `.bss` that it lies in
pages the map has as taken, not what is in it: nobody clears it.
`EnumeratesReachable` states what the walk reaches, not what is on the bus: the last
bus of an entry and what is behind an absent device 0 or function 0 are not; and of
the names of classes 1 and 3, whose cases fall through to the tables of other
classes, it says nothing. `TextsIntact` says nothing of a text whose size was
wrong, nor of the fraction of a double whose whole part is no int. In `TextConversion`
the hexadecimal conversions write below their buffers; the buffer there is never
full, so nothing is lost, in this layout. In `heap`, `expand_heap` merges
through the same faulty `combine_forward` and adds the word at NULL: the length
is huge, so the merged segment fits, `split` finds a remainder that is negative
and leaves it whole, and its memory, the old segment's and the new pages, is
indeed long enough for the block. A second expansion is needed when the last
segment is in use and the new pages, less a header, are too short. The merged
segment keeps its length while it is in use, so when its block is freed it fits
whatever is asked for next. There is room for a page at least, the one that was
added, and this is why the client that frees asks for no more (`Careful`): with
larger blocks, freeing between used neighbours too leads to overlapping ones.

## 4. The proofs

Every invariant and action property that the runs check is a theorem for all
values of the constants (those of the heap for careful clients, see below), and so
are the three refinements. A theorem
assumes what the module of the component assumes of its constants
(`LayoutAssumption` and the like: sizes are positive, sets hold what their names
say, counters and words are as wide as the code has them), and TLC evaluates those
in the runs. Where a theorem needs more, it says so:

| Hypothesis | Of | Why the code may be expected to meet it |
|---|---|---|
| `ShortLoops` | `GrantsUsable` | the machine has at most 2 GB; beyond, the `int` product of the loops is negative and the statement is false |
| `EnoughFrames` | `PageTablesProofs` | memory for the root, for a table per prefix of the pages that are mapped, and for the heap: a few frames in a thousand; without, `request_page` answers NULL and `map_memory` writes there |
| `Careful` | `HeapProofs`, but for `TypeCorrect` | the client never frees, and no code of the kernel does, or frees between used neighbours and asks for at most a page; for others the heap does not keep what is claimed |
| `NegativeAtNull` | the same | the word at address 0 is the kernel's first instructions, negative in the built kernel |
| `QuietFirst`, `NoLongestMove` | `MouseProofs` | the movements of the packet that is skipped have bit 3 clear; no movement is -256, which the handler loses |
| `~EarlyKeys` | `EveryByteAnnounced`, `BothInterruptsConfigured` | no key while `init_ps2_mouse` polls, and none left in the buffer by the firmware; `ps2_status` shows what happens with one |
| `WholeCells` | two theorems of `ConsoleProofs` | the width is a multiple of a character's 8, as with 800, 1024 or 1920 columns; a mode of 1366 is outside |
| `KernelLayout`, `EntriesApart` | `KernelIsGivenTheTruth`, `EveryFunctionOnce` | `kernel.ld` aligns the segments to pages (`ALIGN(0x1000)`) and separates them; entries of the MCFG name disjoint buses |

**`PageFramesProofs`**: `TypeCorrect`, `SearchIndexSoundness`, `NoDoubleGrant`,
`CountersCorrect`, `FreeMemoryCorrect`, `GrantsUsable` and `ImplementsPool`.
The invariants are not inductive one by one. A grant is safe
because the page's bit was clear and is set in the same step; that no free page
is missed needs that the index never passes a clear bit, which `request_page`
keeps because it stops at the first one and `free_page` because it lowers the
index; the counters are right because each operation changes as many pages as
bits. `AllocatorOK` collects this for a single record: the bits are addressable,
the index is inside the bitmap, everything below it is set, the counters sum to
the memory, and `free` is the memory less the number of set bits, each up to a
wrap. One lemma per operation
(`ReserveInOrder`, `LockInOrder`, `UnreserveInOrder`, `ReleaseInOrder`,
`RequestInOrder`) shows that it keeps `AllocatorOK`; `ClaimMemoryInOrder` chains
them in the order of `read_efi_memory_map`. `SettingBits` and `ClearingBits`
relate the counters to cardinalities. `IInv` adds that granted pages are set and
searched; `InitIInv` and `NextIInv` make it inductive, with a step per action.
The refinement maps each action to one of the pool's and uses `IInv` to know
that the lowest candidate from the index on is the lowest free page.
`GrantsUsable` has an invariant of its own, `UsableInv`: clear bits inside the
memory are usable pages.

**`PageTablesProofs`**: `TypeCorrect`, `TreeOwnsItsFrames`, `IdentityMapStays`,
`HeapPagesApart`, `NoDataOverwritten` and `ImplementsAddressSpace`, for tables of
any number of entries. The tables are described level by level from the root
(`L2`, `L1`, `L0`), and `TreeOK` says that the levels are disjoint, that each
table has one link to it, and that none is free, NULL or data. A descent of
`map_memory` either follows a link or creates a table from a frame that was in
none of those sets; `TreeOK` is kept, and the way of every other page is what it
was. That a frame is there to be taken is a counting argument: `Budget` says that
the frames free at boot are the free ones, the tables and the data, and a level
has no more tables than the known pages have prefixes on it, as a table lies on
the way of one of them. `SpaceInv` adds what each page is mapped to, which gives
the five invariants, and the refinement by `MapEffect`: a call of `map_memory`
changes the translation of one page.

**`HeapProofs`**: `TypeCorrect` for every client, and for careful ones
`BlocksStaySeparate`, `ListStaysSound`, `FreeSegmentsStayUnused` and
`ExpansionsBounded`. The properties speak of the segments that
malloc's walk meets; the invariant speaks of a set S that is a chain from
`HeapStart` to `last_header` (`Chain`), because a step is easily seen to change S
in one place, and `ChainWalked` shows that the walk meets S and no more: `Walk` is
a recursive function whose existence is shown by least counterexample
(`WalkExists`), and the segment with n others in front of it is met after n
steps. What makes the blocks safe in spite of `combine_forward` is `FreeIn`: the
length of a free segment is honest, or it is the one that `expand_heap` has just
grown by the word at NULL. That one is the last, it is long enough for the request,
it is the only one that fits, and the remainder `split` computes is negative, so
it is handed out whole. Where nothing is freed its length is never read again;
where blocks are freed, `KeptIn` says of every segment, in use or not, that its
length is honest or `Stale`: one that fits each of the client's sizes, leaves
`split` a negative remainder, and has room for it. So a stale segment that is free
again is handed out whole again, however short the new block.
Between used neighbours a free changes one flag (`FreeKeeps`). `CallIn` bounds the
recursion: one expansion leaves the last segment free, a second makes it fit.
With clients that free in any order the invariant breaks, and so does the
property (`heap_free`).

**`MouseProofs`**: `TypeCorrect`, `PacketsAreGenuine` and `PointerFollowsMouse`.
`InStep` relates the handler's cycle to the byte the mouse is about to send: while
the first byte is to be skipped nothing was taken, of a packet that lost its first
byte nothing is taken, and of any other the handler has the bytes that were
sent. That the arithmetic on magnitudes agrees with two's complement is a lemma
on bytes.

**`ConsoleProofs`**: `TypeCorrect`, `CursorStaysOnGrid`, `CharactersOnEmptyCells`,
`PointerLeavesNoTrail` and `PointerTakesNoText`, for every frame buffer, font,
pointer image, listing of the devices, text and sequence of inputs. `CursorInv` says of cursor and
register, at each point of `print`, that they are multiples of the cells, and where
the cursor may be past the last column. `EmptyInv` says from which cell on there is
no text, again per point of `print`, as between two stores the cursor is neither
here nor there. `PixelInv` is about the saved buffer: what is neither text nor
pointer is black there and on the screen, text that was there first is saved, and
that stays so when the images at two places overlap, because the old one is taken
off before the pixels below the new one are saved.

**`InterruptsProofs`**: `TypeCorrect`, `HandlersServeTheirLine`,
`EveryByteAnnounced`, `BothInterruptsConfigured` (the claim that `ps2_status`
refutes with early keys), `HandlersAddNoSurplus`,
`SleepersWakeInTime` and `ChipsAreLines`, from any requests, masks and offsets the
firmware may leave. Its first part shows what each operation does to the pair of
chips (`Idle`, `Remapped`, `Unmasked`, `InService`): after `remap_pic` the offsets
are those of the gates, and an end of interrupt leaves nothing in service. `IInv`
is `ControllerOK` (types, at most three answers under way), `ChipsOK` (which of
those holds at which point of thread and handler) and `TimerOK`. `ConfigOK` follows
the configuration through the polled set-up; with it a byte in the buffer has a
request or a handler. `SleepOK` counts the ticks that may still come before the
thread moves on: at most one, and none at a `hlt` behind the end of the time.

**`DiscoveryProofs`**: `TypeCorrect`, `KernelIsGivenTheTruth` and
`EveryFunctionOnce`, for any number of segments, entries, buses, devices and
functions. `BootInv` says per point of the loader what of the file is in memory
and that only the loader's own pages were taken since the map was measured, those of
every unit of a segment among them.
`WalkInv` relates the four loop variables to what was printed: each reachable
function in front of the place has its line, each line is of such a function,
and there are as many lines as pages printed, which with entries apart means that
none is printed twice.

**`TextProofs`**: `TextsStayIntact`, for any order of the seven buffers, buffers
of 64 bytes or more, all numbers of 64 bits, all doubles that are multiples of
`1/Unit` with a whole part of 64 bits, any number of places and every value of the
uninitialized sizes, without a bound on the calls. Of a double whose whole part does
not fit an `int` only the whole part is claimed. The invariant is
`TextInv`: for each text that is due there is a sequence of characters that lies in
the buffer with its end (`Holds`) and denotes the number. That it stays there is
`TextStays`: a conversion writes at most 14 cells below its buffer (`to_hstring` of
8 bytes) and, if its size is tame, not beyond the end; a text that is due has less
than 50 characters, so it ends before the last 14 cells of its own buffer begin.
That it is there at all is one lemma per kind of text (`DecimalWritten`,
`SignedWritten`, `HexWritten`, `DoubleWritten`). That it denotes its number is where
the loops come in: `Quotients` divides again and again, `Number` multiplies, both
recursive functions whose existence is shown by least counterexample (`LoopExists`),
and so is that they meet: the first i digits are the number of what is left after
all but i divisions (`NumeralDenotes`). `LengthCounts` gives the first digit that is
not zero. A double finds the text of its integer part, whatever is in that buffer,
because a size that is tame has left a zero there (`SomethingFound`). Of its fraction,
each step of the loop takes off a whole part below ten and leaves less than one
(`OneCut`, `CutsSmall`), so that the digits are the fraction cut off (`FractionIs`).

**Model-checked only.** Liveness (`MallocReturns`, `BytesFetched`,
`SleeperWakes`), which the provers do not do. `TextInv`, `TreeOK`, `FreeIn` and the
other strengthenings need no run of their own: they are proved inductive, and the
properties they imply are checked. Not proved is what the pages of a memory map sum
up to, a fold over any number of entries: that it is a natural number, less than the
counters can count, is in `MapAssumption`.

## 5. Not modelled, and why

Machine code and devices below the level of the C++ source, except where they
decide the outcome (the load and store of `+=`, the word at address 0, the
interrupt controllers, the keyboard controller's buffer). Page faults: a write
outside the frame buffer is dropped. Colours other than the two in use, the
wording of what is printed, what `panic` draws. The loops of `mouse_wait`, whose
results the code ignores. The rounding of doubles: with a fraction of up to 49 binary
places no step rounds, finer ones may be rounded when they are multiplied by ten.
Spurious interrupts. The GDT,
port I/O and the vendored library.

The initial content of `.bss` is whatever the firmware left (`memory` of `BootLoader`); the
other modules start from the zeros that their code takes for granted, except where
the variables are on the stack or the heap.

## 6. Plan

1. Done: allocator, page tables, heap, input, screen, interrupts, timer, boot
   loader, PCI walk, text conversion; proofs of all of them.
2. `KernelMemory`: allocator, tables and heap composed, in place of the pool
   that `PageTables` assumes; a frame buffer inside the memory map; a machine
   of more than 2 GB (small `IntPages`).
