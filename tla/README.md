# A TLA+ verification of the jOeS kernel

jOeS is a small x86-64 kernel in C, booted by Limine. This directory keeps a
formal model of it next to the code: TLA+ modules translated from the source,
TLC configurations that check them on small instances, and TLAPS proofs of the
results that do not depend on the size of the instance. `PROJECT.json` lists the
components, the runs, what each definition models (file and lines), the hazards
the properties are aimed at, the disagreements found and the theorems.

    tlc -config MCPMMSearch.cfg MCPMMSearch      # model-check one configuration
    tlapm PMMProofs.tla              # check the proofs of one module

## 1. Inventory

| part | state it keeps | operations | how it meets the others |
|---|---|---|---|
| physical memory manager, `memory/pmm.c`, `pmm_region.c` | `pmm_regions[]` (base, length, type, bitmap, `free_pages`), static `region_cache`, `bitmap_cache` | `pmm_init`, `pmm_alloc`, `pmm_free`, `pmm_check_page` | called by `kmain` and by paging for every page table |
| region lookup, `get_region_containing_page` | bounds of a binary search | search | called by `pmm_free`, `pmm_check_page` |
| paging, `memory/paging.c` | the page tables in memory, `g_hhdm_offset`, CR3 and TLB | `paging_init`, `map`, `unmap`, `resolve`, `clone_pml4`, `dump` | takes frames from the PMM, gives empty tables back; edits the bootloader's tables |
| PS/2 controller, `drivers/ps2.c` | configuration byte, `ps2_port_2_supported`, `ps2_port_1/2_works`, `ps2_ports` (populated, device type), the controller's output buffer | `ps2_init_controller`, `ps2_send_byte`, `ps2_receive_byte`, `ps2_identify_device` | polls the controller; starts the keyboard driver |
| PS/2 keyboard, `drivers/ps2_keyboard.c` | decoder state, modifier counters, lock state, initialisation state | `ps2_kbd_init`, `ps2_kbd_irq_callback`, modifier handling | runs inside IRQ1, appends key events |
| key event buffer, `drivers/keyboard.c` | the ring `kbd_key_event_buffer[]`, its `size` and `front` (`uint8_t`) | `kbd_append_key_event_to_buffer`, `kbd_get_key_event_from_buffer`, `kbd_key_event_to_ascii` | producer IRQ1, consumer IRQ0 |
| interrupts, `cpu/interrupt_handler.c`, `idt.c`, `isr.asm`, `gdt.c` | IDT, GDT, the interrupt flag | dispatch of 32 exceptions and 16 IRQs | every driver; the timer handler drains the key events |
| PIC, `drivers/pic.c` | per chip: initialisation stage, vector base, mask, in-service bits | `pic_init`, `pic_enable_irq`, `pic_disable_irq`, `pic_send_eoi` | gates every IRQ |
| PIT, `drivers/pit.c` | mode and reload value | `pit_init_channel` | IRQ0 |
| serial port, `drivers/serial.c` | one UART, polled | `serial_init` with loopback test, `serial_send_byte`, `serial_read_byte`, `serial_read_line` | log output |
| terminal and framebuffer, `terminal.c`, `framebuffer.c`, `charset.c` | cursor, size in characters, colours, pixels | `terminal_put_char`, `terminal_write_string`, clearing when full | `printf`, log output |
| logging, `logging.c` | backend, level | `logging_log_msg`, `logging_set_backend` | serial or terminal |
| libc, `libc/string`, `libc/stdio` | none | `mem*`, `str*`, `itoa`, `utoa`, `printf` | everything |
| boot, `main.c` | boot order | `kmain` | starts everything, then idles with interrupts on |

### What is hard here

* There is one kernel thread and there are interrupt handlers. All gates are
  interrupt gates, so a handler runs to its end; it may start between any two
  instructions of the kernel thread once `kmain` has set the interrupt flag.
  The allocator and paging are used by the kernel thread only.
* The devices are polled, with retries and timeouts, through a controller with
  one output buffer that the keyboard fills on its own accord as well.
* Bytes of a scancode arrive one interrupt at a time; a decoder that is in the
  wrong state misreads everything until it is back in its start state.
* Counters and caches stand for data they do not look at: `free_pages` for the
  bitmap, `region_cache`/`bitmap_cache` for positions, modifier counters for
  physical keys, a byte's `size` for the number of unread events.
* Arithmetic on `size_t` and `uint8_t` wraps.

### What makes each part correct

* PMM: no page is handed out twice, lost, or invented; `NULL` only when none is
  left; its own data is never handed out; counters and bitmaps agree.
* Region lookup: finds the region of every address that has one, never reads
  outside the array, reports the others as not found.
* Paging: after `map` the address resolves to the frame, after `unmap` to
  nothing, no other address changes; every page table is reachable from one
  entry only and is freed exactly when it is empty; running out of memory is an
  error and changes nothing.
* Key event buffer: a FIFO that drops the oldest event when it is full.
* Keyboard: each make/break code of a key yields one event for that key, and the
  decoder is back in its start state; a modifier is on exactly while a key of
  it is down.
* PS/2 controller: the initialisation ends; a keyboard at port 1 is usable
  afterwards; the configuration is the one the driver chose.
* Terminal: the next glyph's cell is on the screen, no pixel lies behind the
  framebuffer, text is drawn in reading order and never over text.
* Serial port: no byte is lost and each writer's bytes keep their order; a port
  that does not work stops nothing.
* Formatting: a number is written as its numeral, a part of a message does not
  depend on the part before it, a report names its exception.
* PIC: every interrupt reaches the handler of its line, never an exception's, and is
  acknowledged to the chips that raised it.
* System: a key that is pressed is eventually printed.

## 2. Plan

Order of work, most important first; each line is a module with its runs.

1. `PMM` (detailed allocator) refining `PageAllocator` (what callers may rely
   on); `PMMProofs`. **done**
2. `RegionSearch` (the binary search PMM takes as one step); `RegionSearchProofs`.
   **done**
3. `Paging` over an abstract allocator, refining `AddressSpace` (a partial map
   from virtual to physical pages), and `PagingClone`; `PagingProofs` of both. **done**
4. `KeyEventBuffer` refining a bounded FIFO that overwrites; proof of the
   refinement for every size. **done**
5. `PS2Keyboard`: decoder and modifiers fed by a physical keyboard. **done** for
   the interrupt callback; Pause and lost bytes (decoder states left by accident)
   are left.
6. `PS2Controller`: initialisation of the controller and the keyboard against
   devices that are missing, have bytes repeated or say more than is read;
   `PS2ControllerProofs`. **done** but for answers after the timeout.
7. `Interrupts`: PIC, PIT, gates, dispatch and acknowledgement composed with the
   two drivers of the keyboard; liveness of key events. **done**; what a lossy line
   does to the decoder is left.
8. `Terminal` (the cursor is a `uint8_t`), `Serial`, `Text` (libc and log formats) with
   its callers `Formatting`, `KeyboardLayout`, and `Console`, which composes them with
   `kmain` and the handlers; `ConsoleProofs`, `FormattingProofs`. **done**

Components that meet are composed in a module of their own (`PS2Keyboard`, `Interrupts`,
`Console`). Three MC modules put two specifications that share no variable side by side, to be
checked in one run: `MCPMMSearch` the allocator and the search, `MCStartUp` the initialisation of
the controller and the interrupts, `MCOutput` the console and the formatting functions. A step of
one leaves the other's variables alone, and one of the two waits where it changes nothing for the other
(at its first state, or, the interrupts, until the controller is initialised); so a behaviour of the run
is one of either specification, and every behaviour of either occurs.

Each of the modules that are proved about has a module of proofs with its name (`PMMProofs`,
`RegionSearchProofs`, `PagingProofs`, `PS2KeyboardProofs`, `PS2ControllerProofs`,
`InterruptsProofs`, `FormattingProofs`). `PagingProofs` covers `PagingClone` too,
`PS2KeyboardProofs` the ring buffer, and `ConsoleProofs` `Terminal`, `Serial` and `Console`. Every
safety property of a run that passes is proved; only liveness is left to TLC.

Not planned: segmentation (a constant table) and the build tools. Left of the parts
modelled partly: a controller that stays busy and answers after the timeout, what a
spurious or lost byte does to the decoder, the bits of page table entries.

## 3. Modules

### PMM and PageAllocator

`PMM` keeps `bitmap`, `free_pages`, `region_cache` and `bitmap_cache` as the code
does (a bitmap is the set of its set bits) and adds `held`, a history of the
pages handed out and not given back. Addresses are frame numbers. The initial
states are what `pmm_init` leaves for every memory map on which it succeeds.
`pmm_alloc` is split at the iterations of its outer loop, because an iteration
may overwrite `region_cache`, from which the next one counts: `AllocCall` enters
the loop, `SkipRegion` skips a region whose counter is zero, `TakePage` finds a
byte and a bit, `FindNothing` is an iteration whose counter promised a page the
bitmap does not have, `AllocNull` leaves the loop. `PmmFree` is
one step. `Spec` has callers that free what they hold; `CarelessSpec`
has callers that free any page of the memory map, as `paging_unmap` does with
tables the bootloader made.

`DataProtected` is about the room for the bitmaps. `pmm_get_num_required_pages` rounds their sum up
once (`pmm.c:70`), each bitmap is rounded up on its own; so where lengths are not whole bytes the
bitmaps may be longer than what is reserved for them, and their end is handed out. The property says that
no more than that happens: what callers get of the PMM's data lies in its last `RoundingPages` pages
and only on maps that are not `WholeBytes`. In the kernel with up to 4097 regions that is one page.

`PmmFree` looks up the region in one step; `RegionSearch` models the loop that
does it. For an address in no region PMM takes the documented outcome (not
found); what may really happen there is described in section 6.

`PageAllocator` is the promise: a set of free frames, from which `Alloc` takes
any element, `NULL` only when it is empty.

### RegionSearch

One action per iteration of `get_region_containing_page`. The bounds are `size_t`
values modulo `SizeModulus`; indices `Period` apart name the same memory, as
multiplication by `sizeof(struct pmm_region_t)` = 48 makes them in the kernel
(2^60 there). An element outside the table holds arbitrary data, so all three
comparisons are possible on it.

### Paging and AddressSpace

`Paging` keeps `mem`, what the words of each frame are when they are read as page
table entries. A virtual page is the sequence of its table indices, two to four of them. The levels
follow each other as they do in the code: `TableAt` is the table that a number of indices
leads to, `DescendTo` makes the missing tables above an entry, `Entered` and `CheckTables` go
down and up again when a page is unmapped. `Mapped` and
`Unmapped` are `paging_map_page_without_tlb_invalidation` and `paging_unmap_page`
as functions of memory and the PMM's pool; the actions `MapPage` and `UnmapPage`
add the TLB invalidation that happens on success only, of the translation that covers the
one address `invlpg` is given (`AddressOf`). An operation is one
step: it runs in the kernel thread and no handler touches the tables. The
processor may cache any translation it can find between two operations
(`TlbFill`). Frames that have not been handed out read as present entries, so that
a table that is not cleared shows. Of an entry's flags only present and page size
are kept; no other flag decides anything in the code.

Callers are part of the specification: careful ones set the page size bit for
large pages, map nothing below a large page, unmap with the size they mapped with
and leave the PMM frames for the tables; greedy ones do not do the last.
What they rely on is `AddressSpace`, a partial function from pages to frames; the
refinement mapping takes the entries that are pages.

### PagingClone

Extends `Paging` with `paging_clone_page_table` and `kmain`'s use of it. Initial states
are all address spaces a bootloader can build from the given pages. The walk of
the old tables is a fold over their leaves in the order of the walk; the clone is
one step as `kmain` runs it before interrupts are enabled. Afterwards the kernel maps and
unmaps in its copy.

### KeyEventBuffer and KeyQueue

`KeyEventBuffer` is `keyboard.c`: the array, `size`, `front`, and `got`, what a read
returned. `GetAllEvents` is the loop of the timer's handler, which no interrupt can
break. `KeyQueue` is the promise: the last `Capacity` events in order. The refinement
mapping is `Content`.

### PS2Keyboard

Composes the buffer with `ps2_kbd_irq_callback`. The user presses and releases keys;
each action puts the bytes of scan code set 1 on `line` and the event a user
would expect, with the modifiers held at that moment, into `expected`. One interrupt
takes one byte: `ReceiveByte` when it completes nothing, `ReceiveScancode` when it
does. The `switch` over states is the relation `Extends` with the exceptions named
after it. A key of `Repeating` that is held is sent again (`RepeatKey`); a lock toggles with every
press that is sent (`LocksAfter`), which is what the driver does and all that is said of it. `num_shift_keys_pressed` and `num_strg_keys_pressed` are counted modulo 256.

### PS2Controller

`ps2_init_controller` with all it calls, as the one thread that polls the controller:
`pc` is where it is, `drv` what the driver knows, `call` the call of `ps2_send_byte` in
progress with the number of its attempt and where it returns to, `acked` what
the last one returned. The other half is the world, modelled as the driver uses it:
`config` is the controller's configuration byte with its real bits, `dev` the
devices, `machine` what kind of machine it is (second port, health), `out` the bytes to
be read, the output buffer and what devices have ready behind it.

A device answers before the driver gives up waiting, so a timeout is a read of an empty
`out`; the controller answers at once, so the `PS2_ERROR_TIMEOUT` returns of
`ps2_init_controller` do not occur. A device may ask for a byte again
(`MaxResends` times in all). A mouse answers a reset with a byte more than the driver
reads, an AT keyboard answers an identify command with nothing. `QuietSpec` leaves the
keyboards alone, `TypingSpec` presses a key at any moment a port is enabled.

### Interrupts

The composition of everything between a key and its letter, with what `PS2Controller`
and `PS2Keyboard` do in detail reduced to whether a byte waits (`full`), whether the
controller announces it (`announces`) and how many events the buffer holds
(`unread`). `pic` is both chips with their requests, interrupts in service and masks; a
write to a data port means what the writes before make of it, so `pic_init` is the
sequence of its writes, `InitWrites`, one step each (`written` counts them). `kmain` goes on between interrupts, step by step (`stage`)
from `pic_init`, with the steps of `ps2_init_controller` that touch the controller's
interrupts (`DisablePorts`, `Poll`, `EnableWorkingPorts`, `EnableKeyboard`). A handler is two steps,
`HandleInterrupt` and `EndOfInterrupt`; gates keep other handlers away meanwhile, but
not the devices. When a byte is read the PIC may forget its request or
remember it, as the chip and its emulations differ.

### Terminal

`terminal.c` with what `framebuffer.c` draws: the cursor, counted modulo 256, the color and
`marks`, one for each glyph drawn since the screen was cleared. `PutChar` is
`terminal_put_char`: `Moved` is its `switch`, `Wrapped` and `OffBottom` are the two
tests that follow it. The size of a cell is what `kmain` passes to `terminal_init`
(13 by 22 pixels); a glyph is the doubled 10 by 10 cell of the charset, of which no glyph uses the
last three columns. `SmallScreenAssumption` names the screens on which the cursor
cannot wrap before it reaches the edge.

### Text, Formatting, KeyboardLayout

`Text` has no variables: `strrev`, `itoa`, `utoa`, `printf`, `log_formated_str`, `logging_log_msg` and
the reports of exceptions as functions of their arguments. A text is a sequence of
characters; the loop over a format string, `FormatLoop`, is a function of the number of characters
read, and its step is the `switch` over `state`. There are `IntHalf` negative ints and
as many others, and `LongHalf` of each among longs. Names of levels, files and exceptions are
shortened to a character, because nothing depends on their letters. A `%d` nobody passed a number for
gets whatever lies where it would be, the argument `missing` of `Report`.
`Formatting` is their callers: each step is a call with any of the given arguments,
and `call` keeps the arguments and the text. Its assumptions say what callers in the kernel see to:
a message has a value of the right kind for each specifier and ends outside of one
(`Complete`). `KeyboardLayout` is `kbd_key_event_to_ascii`,
with a key for each way in which the three tables differ.

### Serial

The port and those who use it: `AwaitTransmitter` is the loop of `serial_send_byte` seeing the
transmit buffer empty, `SendByte` the write after it. A handler may begin in between and
fill the buffer. `uart` is a FIFO of `FifoDepth` bytes, or of one while FIFOs are off; what
finds no room is lost. `BeginTest` and `EndTest` are `serial_init` with `serial_test`. Bytes are numbered per
writer, so that a lost one is missed and one that overtakes is seen.

### Console

Extends the four and composes them with `kmain` and the handlers: everything the kernel
writes, in the order it is written. `boot` is how far `kmain` has come, `todo` what
it and the handler that runs have yet to write, character by character. `kmain`'s banner and the log
go to the terminal, then the log moves to the port if that has passed its test;
`serial_test` looks for the byte once (`LoopbackOk`, `LoopbackFailed`, whichever the port
allows at that moment), and `kmain` stops if it is not there. The timer's handler prints a typed key
on the terminal and logs it; an exception is reported and nothing comes after it. What
`pmm_init` and the others log is one message of one character, since its length
changes nothing.

## 4. Runs

| run | instance | result |
|---|---|---|
| `pmm` | 3 regions, hole or none, usable ones of 2 or 4 pages, others of 2 or 3; 2 pages per bitmap byte; careful callers. The search: 5 regions of length 1 or 2, holes of 0 or 1, every address; 5-bit `size_t`. 220 thousand states together | all properties of PMM hold, PMM implements PageAllocator; of its own data only what one rounding for all bitmaps leaves out is handed out. Regions are found, in the table, in logarithmic time |
| `pmm_padding` | usable lengths 3, 4, 5 | `HeldPagesManaged` fails: padding bits are handed out |
| `pmm_careless` | 3 regions of 2 pages, any page freed at any time, `free_pages` up to 3; 710 thousand states | counters err upwards only, one clear bit is taken, `pmm_alloc` ends |
| `paging` | 2 entries per table; two 4 kB pages of one table, the 2 MB page around them, one beside, a 1 GB page; 5 frames for tables, 2 for data | tables form a tree, are freed exactly when empty, the TLB is never stale, Paging implements AddressSpace |
| `paging_clone` | all address spaces of four pages, 10 frames, the new PML4's frame happens to be zero | the clone maps the same, the two address spaces share no table and lose none, and the kernel's changes to its own leave the old tables alone |
| `paging_clone_dirty` | the same, the new PML4's frame holds what its last user left | `CloneMapsTheSame` fails: a stale word becomes an entry of the clone |
| `keyboard` | a letter, both Shift keys, a key with prefix, a lock; up to 3 bytes under way; a ring of 2; the letter and the lock repeat while they are held; 2.6 million states | every event is decoded as meant, nothing is swallowed, the ring is a FIFO |
| `keyboard_repeat` | a letter and a Shift key that repeats | `DecodesFaithfully` fails: the flag outlives the key |
| `keyboard_print_screen` | a letter and Print Screen | `DecodesFaithfully` fails: no event tells of the release |
| `start_up` | every pair of devices (none, mouse, MF2 or AT keyboard), with and without port 2, healthy or not; 3 resends; a byte left by the firmware. Timer, keyboard, a device at each PIC without a driver; a buffer of 2 events. 285 thousand states | the initialisation ends, with a usable keyboard at port 1 if there is one and all is in order; every interrupt reaches its handler and is acknowledged, no byte is unannounced or stolen, every event is printed |
| `ps2_typing` | the same devices, no resends, one key typed | `KeyboardReady` fails: a scan code is taken for an answer |
| `output` | a screen of 6 by 3 cells with 2 pixels behind each row; a port that works or does not, with a FIFO of 16; 3 key events out of 6 kinds; an exception without and one with numbers. Ints of 4 and longs of 6 bits, all of them in bases 8, 10, 16; pairs of 23 message parts with every specifier and flag; vectors 0 to 21. 167 thousand states | glyphs stay on the screen, text in order, no byte is lost, everything is written, the parts are used as they demand; numbers read back, parts compose, reports name the fault but for 20 and 21 |

Bounds. Three regions are the least for which the order in which regions are
visited matters (with two, skipping one is impossible). Two bits per byte give
regions of one and of two bytes, so that `bitmap_cache` is carried from a longer
to a shorter bitmap. A usable region of 4 pages with two reserved
ones of 3 has bitmaps of six bytes, of which five are reserved; with the structs they take three pages,
of which two are reserved, so the case of `DataProtected` occurs. `MaxFreePages` bounds the counters under careless callers
only; one more than a region's pages suffices to make a counter wrong.
Two entries per table suffice for a table that loses one of two pages and one
that loses its last; the pages cover all sizes, nesting, neighbours in one table
and a branch at the PML4. The four pages of `paging_clone` need five tables, so its ten
frames are just enough for two address spaces (`FramesForTwo`). Five table frames of `paging`
hold the deepest and one more branch, so that callers compete for the last. A ring of two wraps and overwrites; three bytes
let a key's two bytes be late behind another's, so the driver is behind the user
by up to three keys. `MaxLine` bounds only that delay, not how long typing goes on.
Three resends are fewer than the five attempts of a byte: with five a device may
refuse a byte for good, and then its keyboard is rightly not usable. Three
are enough to spoil two commands of one sequence, or one of them twice.

Three keys are enough to fill the screen after the banner, to clear it and to go on; the texts
have tabs at and between tab stops, line breaks in the last column and in the last row, and
characters the terminal ignores. `TwoBytesSuffice` shows that no FIFO of the port is deeper than
it has to be. Longs of six bits have numbers of one to six digits and a
most negative one; the loops treat each digit alike.

Deadlock is checked in all runs but `pmm`, `ps2_typing` and `output`: a search and an
initialisation end, and after an exception or a refused port the kernel halts for good. In `start_up`
neither can be stuck unseen: until the controller is initialised nothing else moves, and after it
only the interrupts do.

Types are an invariant of the run `pmm` and part of the inductive invariants in section 5;
in the other modules a state that is badly typed breaks the properties listed.

Fairness. The runs of two specifications take over the fairness of both. In `start_up` that of the interrupts
begins when the controller is initialised (`StartUpSpec`): earlier it would exclude an
initialisation that does not end. `FairCarelessSpec` lets a call of `pmm_alloc` that has
begun go on (weak fairness of `Alloc` while `scan` is not `Idle`): nothing
blocks inside it and interrupt handlers return. `QuietSpec` of `PS2Controller` has the
kernel thread go on (weak fairness of its steps), for the same reason. `Interrupts`
assumes that handlers return, that the timer ticks (PIT in square wave mode), and that
the processor takes a pending interrupt at the next instruction: strong
fairness of `TakeInterrupt`, because the timer's line comes first and could otherwise
overtake the keyboard's for ever. `Console` has `kmain` and a handler that has begun go on and a
port that works transmit; of a port that does not work, of keys and of exceptions nothing is
assumed. A timer interrupt that prints nothing is
over before the next tick; one that prints may outlast many.

## 5. Proofs

### Region lookup (`RegionSearchProofs`)

For every number of regions, every sorted table and
every width of `size_t` that can count twice the regions: the types, that an
address inside a region is found (`SearchFindsRegion`) and that the search reads
table elements only (`SearchReadsTableOnly`). The inductive invariant says that
the window still contains the region and has lost an element per iteration
(`upper - lower + 1 + i <= NumRegions`); without the second part the loop bound
could cut the search short.

`SearchIsLogarithmic`: for an address inside a region, no more iterations than one and the binary
logarithm of the number of regions (for one in none it takes as many as there are regions,
`pmm.c:199`). `HalvingInv` says that the elements left, times two to the power of the iterations made,
are no more than there were; an iteration leaves at most half of them, whichever side it takes
(`HalvesAreHalf`). `PowerOfTwo` is a recursive function; that it exists is an induction over the
numbers up to `NumRegions` (`PowersExist`), written as one over a set of numbers.

### Physical memory (`PMMProofs`)

For every number of regions and every memory map whose usable
regions fill their bitmaps (`NoPaddingAnywhere`): the types, `CountsAgree`,
`PagesConserved`, `HeldPagesManaged`, `HandedOutOnce`, `NullMeansNoMemory`, and
that PMM implements PageAllocator. The hypothesis is needed: without it `pmm_padding`
is a counterexample. The inductive invariant `IndInv` adds that reserved memory stays
marked (`ReservedMarked`) and that the regions visited in this call have a zero counter
(`ScannedExhausted`); the latter, with agreeing counters, makes `FindNothing`
impossible and `NULL` honest.

`DataProtectedCorrect` (`DataProtected`) has no other hypothesis: of the PMM's own data nothing is
handed out but what its last `RoundingPages` pages hold, and that only on maps that are not `WholeBytes`.
`AlignedDataProtected` is the plain form of the second half, for all memory maps of whole bytes: no page
of the data is ever held, and usable regions need no separate hypothesis. The
argument is about sums over the regions (`SumOf`): the provers have no induction, but a
property of numbers is a set of numbers, and `UpTo` proves induction for a set from the
library's well-foundedness of `<`. The same lemmas show that the number of reserved
pages is a number (`RequiredPagesType`).

Callers that free any page of the memory map, twice or not theirs, keep a weaker invariant,
`CarelessInv`: the bits behind a region's last page stay set, and no counter is below the number of
clear bits. It gives `CountNeverTooSmallCorrect` and `TakesOneFreePageCorrect`, which no longer need
agreeing counters: whatever callers did, the page that is handed out was free in the bitmap.

### Paging (`PagingProofs`)

For every number of entries of a table, every set of table and data frames and every set of 4 kB,
2 MB and 1 GB pages, with careful callers: `TablesFormTree`, `TablesAccounted`, `TlbCoherent`,
`ResolveAgrees`, `DataUntouched`, and that Paging implements AddressSpace.

The inductive invariant `TablesInv` is `Tree` with `NoneEmptyBut`. `Tree` says that
all tables in use were taken from the PMM (`TablesInUse`), that none has two places
(`OnePlaceEach`), that no frame taken is unreachable (`NoneLost`) and that every entry marked as a
page is one that callers mapped (`PagesAreCallers`): callers are careful about the pages they know,
so this is what keeps `paging_map_page` from following the entry of a page like that of a
table. `NoneEmptyBut` names the one
table that may be empty: between operations the PML4; while `paging_unmap_page` climbs, the
table it has just cleared an entry of. `TlbInv` types the cached translations.

An operation writes one entry at a time. `LeafWritten`, `TableLinked` and `TableUnlinked` say what
one write does to the tree, to the pages mapped and to the count of free frames; descending and
climbing are chains of them, with the state half-way as the hypothesis of the next. That a
descent never runs out of frames is counted: the tables missing below (`Missing`) are no more than
the frames left, which is what the careful caller has checked before.
The refinement follows step by step: `MapPage` maps its page and no other, `UnmapPage`
unmaps it and no other, and an error changes nothing callers see.

The clone (`CloneMapsAlwaysTheSame`, `TablesAlwaysOfTwo`, `OldSpaceNeverTouched`), for every address
space the bootloader can build from the given pages, and for all that the kernel maps and
unmaps afterwards. Both hypotheses are about things the code does not look at: that the PMM has
frames for the tables of two address spaces (`FramesForTwo`; a failed allocation is not noticed),
and that the new PML4's frame is zero (`Dirty = FALSE`; it is not cleared, and
`paging_clone_dirty` shows what comes of it). The
invariant `CloneInv` (`CloneInvariant`) says that the kernel's tables are a tree (`Tree`, with the
frames of the old address space set apart from it) and that those frames still hold what they held.
The lemmas on `Mapped` and `Unmapped` speak of a tree beside frames that are set apart, so one
proof serves the bootloader's tables, the clone and what comes after it. Three arguments are
new. The pages can be walked in order and in one way only (`WalkExists`, `WalkFacts`); a table is
written to for one page after the other, so what is mapped after `n` pages is the first `n`
(`PageAdded`, `WalkDone`, by induction over a set of numbers, `UpTo`). And the frames suffice:
tables in use have different places, the places are those callers' pages give them (`TablesCounted`),
so a page that needs tables finds a frame for each (`FramesSuffice`).

### Key event buffer (`PS2KeyboardProofs`)

For every ring of 1 to 255 events: the indices
keep their ranges (`TypeCorrect`) and the ring buffer implements `KeyQueue`
(`ImplementsKeyQueueCorrect`). The inductive invariant is `BufferTypeOK`; its last part,
that `Content` consists of events, is what keeps the zeroed array's elements from
ever being read. The work is in `Slots`: slots less than a lap apart differ, so an
append changes one element of `Content` and none before it; each operation is
then one of the queue, with overwriting as `Append(Tail(q), e)`.

### Keyboard driver (`PS2KeyboardProofs`)

For every number of bytes under way and every size of the ring: `DriverKeepsQueue`
(`ImplementsKeyQueue`) for all of the modelled keys, any of which may repeat, if the ring's events include
whatever the driver can report (`EveryReportIsAnEvent`, about the type of the model's ring only), and
`KeyboardDecodesFaithfully` (`DecodesFaithfully`) with the two hypotheses `NoPrintScreen`, because
`ps2_keyboard.c:463` loses its release, and `NoShiftRepeats`, because `ps2_keyboard.c:260` counts a
repetition as a key. The runs `keyboard_print_screen` and `keyboard_repeat` are counterexamples
without them.
The driver lags behind the user by any number of bytes, so its state says nothing about
the user's at the same time. The invariant `DriverInv` therefore speaks of a
story: there is a sequence of moments, from what the driver has read to the
present, each with the keys down, the locks on and the place on the line; each leads to
the next by one key; the first agrees with the driver's counters and flags, the last with the
user, and between two of them the line has exactly the bytes of one scan code
and `expected` its event. A key adds a moment at the end, an interrupt that completes a scan code
removes the first. `CodeFacts` says that a scan code is complete with its last byte
and no sooner, and `PositionFacts` that it leads back to its key.
A repetition adds a moment too, at which the user's keys are what they were.

### Initialisation of the PS/2 controller (`PS2ControllerProofs`)

With nobody typing, on every machine with every pair of devices. `ConfigAlwaysUnharmed`
(`ConfigUnharmed`) holds however often devices ask for a byte again. The inductive invariant `Inv`
names what can be read at each place of the thread (`Quiet`): from the flush before a device is
identified on, nothing but the answer the driver waits for, so that the configuration it saves and
writes back is the one it chose (`SavedIsChosen`). Before, one state follows the other
(`BeforeReset`): both firmware configurations lead to 36 while the ports are tested and to 7 when
they are enabled; the bits are computed in `PreparedConfig`, `MomentConfig`, `EnabledConfig` and
`ChosenConfig`. `Sent` gives the outcomes of an attempt of `ps2_send_byte` when nothing else
is there to be read: the device took the byte (`Took`) or nobody did (`Refused`).

`KeyboardReadyCorrect` (`KeyboardReady`) has the hypothesis `MaxResends < PS2_MAX_RESENDS`: with five
resends a device may refuse one byte for good, and with `MaxResends = 5` TLC finds the property
violated. `KbdInv` follows a keyboard at port 1 through its identification (`Recognised`), the commands of
`ps2_kbd_init` (`SettingUp`) and the identification of port 2, which must not disturb it
(`SetUp`). `FewResends` carries it: every attempt of a call after the first is one the keyboard asked
for, so the fifth cannot fail.

### Interrupts (`InterruptsProofs`)

For every set of lines of devices without a driver, every frequency asked of the timer and every size of
the ring: `RightHandler`, `NothingLeftInService`, `AnswersReachInit`, `ByteAnnounced`. The inductive
invariant `Inv` says how far `pic_init` has brought each chip, by which word each expects next
(`PicInitProgress`); that a handler or `pic_init` runs alone (`InterruptsOff`); that the first chip has
one interrupt in service exactly while its handler runs and the second none, ever
(`ServedByHandler`); and that the first chip's mask lets nothing through but the timer, and the keyboard
when `kmain` idles (`OnlyDriversEnabled`). The last is what carries the rest: the second chip is not
masked, since it took its mask for its mode (section 6), and only the masked cascade
keeps its requests away. `Announced` is `ByteAnnounced` strengthened to the time between the
enabling of port 1 and that of its line.

### Terminal, serial port and the kernel that uses them (`ConsoleProofs`)

For every screen under `SmallScreenAssumption` and every text, the
cursor's cell is on the screen, no glyph reaches behind the framebuffer and text
is drawn in order. The inductive invariant `TerminalInv` adds that everything drawn lies in a cell of the
screen and before the cursor (`MarksBehind`); the cursor only moves forward, and
below 252 columns an increment does not wrap. `GlyphsInside` rests on the two rows a cell
has more than a glyph: they make up for the column a glyph has more than its cell.

`SerialLosesNothing` holds for every FIFO with room for two bytes and every
interleaving. The invariant `PortInv` says when there is room: whoever has seen the buffer empty finds
at most one byte in it, a handler none (`RoomToSend`), because a handler ends before `kmain` goes
on; what waits has been sent and has not left (`WaitingSent`); and the log uses the port
only with its FIFOs on and out of loopback mode (`InUse`). `TwoBytesSuffice` is a consequence.

The kernel as a whole keeps the rules of both modules
(`KernelKeepsTheRules`: each of its steps is a step of `Terminal` or leaves it alone, and one of
`Serial` or leaves it alone), whatever texts it writes; so the results above hold of the kernel.

### Numbers, messages and reports (`FormattingProofs`)

For ints and longs of every width and all bases from 2 to 16, for every two parts of a
message, of whatever texts and values, and for the exceptions 0 to 21 with every error code that is an
int and not negative and every address: `NumbersAlwaysReadBack`, `FormatsAlwaysCompose`,
`ReportsAlwaysNameTheFault`. What these functions do is in loops, so every proof is an induction over
the numbers up to a loop's bound, written as one over a set of numbers (`UpTo`); that each loop's
function exists is the first of them (`SwapsExist`, `DigitsExist`, `FormatsExist`, `PrintsExist`).

* `strrev` reverses (`StrrevReverses`): after `n` swaps the outer `n` characters on either side have
  changed places and those between have not.
* The loop of `itoa` and `utoa` writes the last digit first (`DigitsFound`); in front of the numeral of
  the quotient it stands last (`DigitInFront`), and the quotient is smaller. A
  negative number is divided as it is and only its remainders are negated, so the most
  negative long needs no counterpart (`itoaReads`).
* A part of a message is read in the same way wherever it stands: `Within` relates the loop over a
  part to the loop over the message that contains it, in which other text has been written before,
  other values follow and a flag may be left over. The flag is the point: it survives its
  specifier, and the relation holds nevertheless since `%` sets it anew before anything looks
  at it (`StepWithin`). For `printf`, `PrintWithin` adds what has been
  counted and what `%n` has stored.
* A report is followed character by character through the two formats; the number and the
  address are then found between them (`NumberInText`). That 20 and 21 are not named by theirs is
proved as well: 20's goes on after its name (`NamesAnother`), 21's begins with another.

What is composed is what `log_formated_str` and `printf` write; the level and the file that
`logging_log_msg` puts in front depend on no part. `printf`'s result is shown to add up, not to be the
number of characters, which it is not for `%p` (section 6).

### Assumptions, and what is only model-checked

Nothing is assumed but the named assumptions on the constants. Memory maps are sorted and do not overlap and
frame 0 is not usable (Limine's guarantees); sizes are positive. Frames for tables and for data
differ and are not 0 (`FramesAssumption`), tables have an entry, pages have two to four
indices (`PagesAssumption`). Keys are known ones, and the ring's events include the user's
(`EventsAssumption`). Lines without a driver are neither the timer's, the keyboard's nor
the cascade (`LinesAssumption`). Entries of tables have an order (`OrderAssumption`). An int is no
wider than a long (`HalvesAssumption`); bases are those there are digits for (`BasesAssumption`),
parts of messages are complete (`PartsAssumption`), error codes are ints and not negative, and
vectors are those of the table up to the last one that is not reserved (`FaultsAssumption`).

Some theorems have hypotheses that the code does not see to. Where the excluded case fails, a run
shows it: `NoPaddingAnywhere` of the PMM (`pmm_padding`), `Dirty = FALSE` of the clone
(`paging_clone_dirty`), `NoPrintScreen` and `NoShiftRepeats` of the keyboard
(`keyboard_print_screen`, `keyboard_repeat`). `FramesForTwo` of the clone and
`MaxResends < PS2_MAX_RESENDS` say that memory and patience suffice. `TheoremsApply` in
`MCPagingClone` has TLC confirm the former of the instance.

Model-checked only: liveness, which the prover cannot do. These are `AllocTerminates`,
`KeysArePrinted`, `EverythingIsWritten` and `InitTerminates`.

## 6. Not modelled

The memory-map printout; the contents of allocated pages; bits of page table entries other than
present and page size; the shapes of glyphs; segmentation; functions nobody calls
(`serial_read_line`, `serial_print`, `pic_disable_irq`, `pmm_check_page`, `memmove`, `memcpy`,
`memcmp`, `logging_set_level`); the build tools.
Components without a module yet are listed in `PROJECT.json` as not modelled, their
hazards with a note.

What was seen in the code and is left out of the passing runs, or goes wrong in one that is
meant to show it:

* A page freed twice raises `free_pages` above what the bitmap has. `pmm_alloc` then
  enters the region, finds nothing and goes on from the overwritten `region_cache`
  (`pmm.c:292`), so that it may skip a region with free pages and return `NULL`. The run
  `pmm_careless` therefore does not check `NullMeansNoMemory`.
* For an address below the first region the lower bound of the search wraps
  (`pmm.c:208`) and elements outside the table are compared; with the right data there
  the address is reported as found. `RegionSearch` models the reads; its run asks
  about addresses inside regions.
* `paging_map_page` adds the HHDM offset to what `pmm_alloc` returns before it compares
  with `NULL` (`paging.c:208`, also 237, 266, 459), although `paging.c:185` says "Returns an
  error if allocating memory fails": physical address 0 becomes a table. The careful
  callers of `Paging` leave the PMM enough frames.
* Both ICW4 of `pic_init` go to the first PIC (`pic.c:110`): the second takes the mask
  meant by "Mask all interrupts" (`pic.c:112`) for its mode and stays unmasked. `InitWrites`
  models it; nothing comes of it as long as the cascade, IRQ 2, is masked.
* `pic_enable_irq` for an IRQ above 7 does not enable the cascade (`pic.c:59`), and
  `pit_init_channel` leaves interrupts off when the frequency is out of bounds
  (`pit.c:42`). `kmain` does neither.
* A request for an interrupt that was left by polling makes the keyboard's handler wait
  for a byte that does not come and decode the 0 it gets (`ps2_keyboard.c:404`).
* `pmm_check_page` (`pmm.c`) returns the masked byte of the bitmap, not one of the
  two documented results.
* The room for the bitmaps is rounded up once, each bitmap on its own (`pmm.c:70`), so with lengths that
  are not whole bytes the last of them can lie in a page that is handed out (`DataProtected`
  says how much, and the run `pmm` has such maps). The `@todo` of `pmm.c:117` suspects as much.
* `paging_map_page` tests only the present bit of the entries on its way, so a
  small page mapped inside a large one takes that page's frame for a table;
  `paging_unmap_page` with a larger size than was mapped drops the tables below
  without freeing them. The careful callers of `Paging` do neither.
* The release of Print Screen (e0 b7 e0 aa) is dropped, because `ps2_keyboard.c:463`
  continues in the state of the press; the run `keyboard_print_screen` shows it. Pause
  (e1 1d 45 e1 9d c5) is reported as a release, because bit 7 of its last byte is set; no run has it
  among its keys.
* A byte lost on its way can leave the decoder in `INVALID`, which ordinary typing
  does not leave, and a modifier counter one off.
* The second PS/2 port is always found (`ps2.c:507` looks at bit 1, which line 474
  cleared; the clock is bit 5) and tested with the command for port 1 (`ps2.c:543`). A
  port whose device could not be reset counts as populated (`ps2.c:593`), and port 2
  is identified when port 1 is populated (`ps2.c:617`).
* A keyboard at port 2 starts the driver for port 1 (`ps2.c:622`): it is never
  told to use scan code set 1. `KeyboardReady` is about port 1.
* `ps2_kbd_set_scancode_set` reads once more after `ps2_send_byte` has read the answer
  (`ps2_keyboard.c:369`), so it reports success whatever the keyboard did.
* The clone's PML4 is not zeroed (`paging.c:459`; all other new tables are), so what its
  frame held before becomes entries of the kernel's address space. The run `paging_clone_dirty` shows it.
* A Shift or Strg key that is held long enough to repeat is counted again by each
  repetition (`ps2_keyboard.c:260`), one release decrements once, and the flag stays on,
  although `ps2_keyboard.c:256` says it "should be set as long as any of them is pressed".
  The run `keyboard_repeat` shows it. A lock that repeats toggles each time (`ps2_keyboard.c:320`), which
  no comment forbids.
* `interrupt_descriptions` lacks a comma (`interrupt_handler.h:310`): the reports of vectors 20 and
  21 are one, with a `%d` nobody passes an argument for, those of 21 to 23 are their
  successors', and element 24, the report of unknown interrupts, is `NULL`. The
  vectors 25 to 31 are looked up behind the end of the table. `interrupt_handler.c:22` promises "a
  generic message including the interrupt vector and error code". `Text` has the table as it is
  up to 21, and `ReportsNameTheFault` says that of these exactly 20 and 21 go wrong.
* CR2 is reported with `%x`, which takes an `unsigned int`: the upper half of the address is
  lost. `ReportsNameTheFault` says so.
* `printf` does not count the "0x" of `%p`, and counts (and writes) a `'\0'` for a `%u` without
  flag, although `printf.c:50` promises the "Number of characers printed". `log_formated_str` writes that `'\0'` to
  the log too, and `logging_log_msg` one after "[INFO] " (`logging.c:266` passes 8).
* `strrev` of an empty string would start from the largest `size_t`; its callers never pass one.
* On a screen of 253 or more columns the cursor wraps to column 0 of the same line before it
  reaches the edge, and text is drawn over text (`terminal.c:88`; framebuffers wider than 3288
  pixels).
* Caps Lock without Shift uses the table of Shift as a whole (`keyboard.c:91`), in which
  Enter, Tab, Backspace and the keypad's Enter have no entry: they type nothing then. No comment promises
  otherwise.
* The loopback test reads at once (`serial.c:175`). On hardware the byte takes about 260
  microseconds at 38400 baud, so a port that works may be refused and `kmain` halts; in
  `Console` both outcomes are possible of a port that works.
