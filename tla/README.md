# JurasOS in TLA+

JurasOS is a small 32-bit kernel for the PC: GRUB loads it, `kernel_main` sets
up the screen, the interrupts, the physical page allocator, a heap, the devices
on the PCI bus and paging, and then idles while the keyboard's interrupt echoes
what is typed. With it comes a small C library. This directory models the parts
of both that keep state, checks them with TLC on small instances and proves the
most important properties for every instance with TLAPS.

All paths below are relative to `src/`.

## The system

`kernel_main` (`kernel/kernel/kernel.c`) runs once, from top to bottom, on one
processor without threads:

    terminal_initialize -> (PANIC unless magic and alignment are right) ->
    gdt_install -> load_tags -> pfa_read_multiboot_memory_map ->
    idt_install -> init_timer -> init_keyboard -> sti -> kheap_add ->
    acpi_init (-> pci_enumerate -> ptm_map_addr, ahci_driver_init) ->
    ptm_initialize -> idle

From `sti` on, the handlers of the timer and the keyboard may come between any
two instructions. That is the only concurrency. Nothing is persistent, so
there is no crash and recovery; the two ways to stop are `PANIC`/`abort`, which
loop forever, and a triple fault.

| part (files) | state | operations | who else touches it | what makes it correct |
|---|---|---|---|---|
| kernel heap (`kernel/kheap.c`, `bitmap.c`) | bitmap of blocks, `chunk.used` | `kheap_add`, `kmalloc`, `kfree` | AHCI driver (16 bytes at a time) | blocks are disjoint and inside the chunk, the bitmap is exactly what is held, PANIC only when nothing fits, a call ends |
| page frame allocator (`paging/page_frame_allocator.c`) | bitmap of pages, three byte counters, `initialized` | read memory map; request, free, lock, reserve runs | page tables (locks the kernel), AHCI (requests mapped pages) | a page has one holder, the kernel's pages stay withdrawn, counters balance, NULL only when nothing fits |
| page tables (`paging/page_table_manager.c`) | directory, tables, `KERNEL_END`, CR3 | `ptm_initialize`, `ptm_map_addr` | PCI and page frame allocator map pages | the kernel keeps running when paging goes on, tables stay reachable, a translation never changes under its user |
| interrupts (`idt/*.c`, `interrupts.S`), timer, keyboard | IDT, controllers' masks, requests and lines in service, `irq_routines`, stub's frame, `timer_tick`, keyboard register | install, remap, stub, handler, EOI, `iret` | preempts everything | handlers never nest, everything is in place before `sti`, each line is acknowledged, no key is lost, an interrupt is invisible to what it interrupts |
| text terminal (`tty.c`) | cursor, screen | `terminal_putchar`, `terminal_initialize`, scroll | `printf` from kernel and from the keyboard's handler | the cursor stays on the screen, the screen shows the text |
| tags, ACPI, PCI (`tags.c`, `acpi.c`, `pci/pci.c`) | `multiboot_tags_info_t`, place in the walk | `load_tags`, `acpi_find_table`, `pci_enumerate` | maps pages, calls the AHCI driver | all AHCI functions are found, once, and nothing else is read |
| layout of memory (`kernel.c`, and the three above it) | `KERNEL_END` | whoever puts something behind the kernel moves it on | bitmap, heap, directory, tables | nothing overlaps, all of it is locked before anybody asks for pages, and mapped when paging goes on |
| `printf` (`libc/stdio/stdio.c`) | format, arguments, flags, width, precision and digits of a directive, output so far | one directive at a time | kernel, keyboard's handler | prints what C says, stays in its buffers, ends |
| string functions (`libc/string/*.c`) | memory, loop counter | a byte at a time | terminal (`memmove` of a row onto the one above), ACPI (signatures) | the effect on overlapping areas, the sign of a comparison |
| GDT, boot image, delay, PCI descriptors, multiboot header | none that later code changes | | | not modelled, see the end |

The behaviours that are hard here: first-fit searches with two nested counters
and a jump, over any sequence of calls; the end of a bitmap, where the loop
stops although the run does not; counters modulo 2^32; a boot order in which
one part uses another before it is ready; tables that are mapped through
themselves; an interrupt between any two instructions, and a handler that
prints on the same screen as the code it interrupts; in `printf`, flags, width,
precision and length that may meet in any combination, and two buffers on the
stack that none may overrun.

## The modules

| module | models | extended or instantiated by |
|---|---|---|
| `FirstFit` | the search loop that `kmalloc`, `pfa_request_pages` and `pfa_request_mpages` each spell out, as operators on (index, offset, want) | `KHeap`, `PageFrameAllocator` |
| `BlockPool` | abstract specification: what an allocator promises, without bitmap or search | `KHeap`, `PageFrameAllocator` (`INSTANCE ... WITH`) |
| `KHeap` | the kernel heap | `KHeapProofs`, `MCKHeap` |
| `PageFrameAllocator` | the page frame allocator from boot on | `PageFrameProofs`, `MCPageFrameAllocator`, `Boot` |
| `PageTables` | `ptm_initialize` round by round, `ptm_map_addr`, the processor's walk | `MCPageTables`, `Boot` (`INSTANCE`) |
| `Boot` | the allocator, the heap's memory and the page tables in the order of `kernel_main`, and the clients of mapped pages afterwards | `BootProofs`, `MCBoot` |
| `Interrupts` | controllers, gates, stubs, `irq_handler`, timer, keyboard, and the order in which `kernel_main` switches them on | `InterruptsProofs`, `MCInterrupts` |
| `Terminal` | `terminal_putchar` by the kernel, access by access, against the keyboard's handler | `TerminalProofs`, `MCTerminal` |
| `Devices` | tags, ACPI tables, the PCI walk | `DevicesProofs`, `MCDevices` |
| `Printf` | `_vsnprintf` and what it calls | `Libc` |
| `CFormat` | what C says that a directive means, without regard to how it is done | `Libc` (`INSTANCE`) |
| `Strings` | `memcpy`, `memmove`, `memset`, `memcmp`, `strlen`, `strcmp`, `strncmp` | `Libc` |
| `Libc` | a call of one or the other, and what it must do | `LibcProofs`, `MCLibc` |
| `FirstFitProofs`, `KHeapProofs`, `PageFrameProofs`, `BootProofs`, `InterruptsProofs`, `TerminalProofs`, `DevicesProofs`, `LibcProofs` | theorems; `BootProofs` extends `PageFrameProofs`, and the two allocators' extend `FirstFitProofs` | |

Definitions marked `Mutant` are wrong on purpose: each is what a plausible slip
would make of the definition after it, and breaks at least one property.

### KHeap

A call of `kmalloc` is a scan (`pc = "scan"`), one step per bit looked at:
`ProbeFree` is a round of the inner loop, `ProbeUsed` the jump after a bit that
is set, `Grant` the code after the loops and `Panic` the end of the outer loop.
`Kfree(b)` is one step: its loop touches each bit once, and no handler uses the
heap. Pointers are block numbers; `live` is what the callers hold, and a caller
frees what it got with the size it asked for, which is the contract of a
free that is told the size. Since `bitmap_set` does not check its index and the
chunk begins right behind the bitmap, bits past the end are writes into the
chunk: `spilled` records them. Requests for nothing are included; they take a
run of no block at the first bit, set or not.

### PageFrameAllocator

`phase` is the place in `pfa_read_multiboot_memory_map` (`SumMemory`,
`NoMemoryMap`, `InitBitmap`, `ReserveEntry`, `SkipEntry`, `Initialized`), then
"idle" or inside a request. Requests are scans as above; locking, freeing and
reserving a run is one step. Reads past the bitmap give what the memory behind
it happens to hold, so the pages that appear to need the change are chosen
(`seen`). The counters count modulo `Word`. `NumPages` divides by 4098 like
`NUM_PAGES`; the pages reserved for an entry that is not available are those of
the entry in the map (`at`), as in the code. `result = "null"` includes a grant
of page 0, whose address callers take for a failure. `EarlyClients` allows
requests before `ptm_initialize` has locked the kernel; today only a driver
that does not compile would make them, and the run and the theorems leave it
FALSE.

### PageTables

`ptm_initialize` places the directory at `KERNEL_END` (`PlaceDirectory`), one
table per entry behind it (`CreateTable`), maps everything below the new
`KERNEL_END` to itself (`IdentityMap`), locks it (`LockKernel`) and turns paging
on (`Load`). `MapRequest` is a later `ptm_map_addr`, with any page and frame.
`Walk` is the processor's translation, over `phys_entries`. Addresses are page
numbers.

### Interrupts

The two controllers are one with 16 lines of fixed priority; `requested`,
`inService` and `masked` are its registers. `Interrupt(l)` is the processor
taking a line through the gate and the stub, `frame` what the stub has pushed
and how far `irq_handler` is: "entry", "handled" (the routine has run),
"acknowledged" (EOI was sent), gone after `Iret`. `Spurious` is a request that
disappears before its number is read, answered as line 7. A key is `KeyEvent`:
the controller of the keyboard holds one scancode at a time. Of the registers
only one is modelled, the one whose slot on the stack is also an argument of
`irq_handler`: the handler takes `registers_t` by value and ends with a tail
call, so the compiler may reuse that space; `Acknowledge` chooses whether it
does. `Fault` is an exception in the kernel, `Panic` a PANIC.

`typed` and `printed` are the history that `KeysEchoed` compares.

### Terminal

The handler runs with interrupts off, so its whole `terminal_putchar` is the
step `Key`. The kernel's own is split at every access to the shared cursor and
screen, in the order of the built kernel, where the static cursor is loaded
into registers once at the beginning and stored at the end: `LoadRow`,
`LoadColumn`, `Write`, `StoreColumn`, `ZeroColumn`, `StoreRow`, `ScrollLine`,
`LastRowAgain`; `Clear`, `Home`, `ClearLine` are `terminal_initialize` as PANIC
calls it. `memmove` is split into rows.

The promise is a page without an end, of which the screen is a window:
`PutOnPage` puts a character on it, at a position that is one number, and lets
the window go down a row when the position leaves it. Nothing is copied and
there is no row and no column. What a tab advances by is the code's own, which
takes it from the row. `Shows` compares a page with screen and cursor. The history
variables are `pages`, what the characters before the kernel's call may have made,
one page for each order in which they may have come; `printed`, the same with
the character of the call; `used`, how many characters there were; `raced`, a
key came inside a call; `strayed`, a tab or backspace went off the screen.

### Devices

A machine is what the kernel finds: its tags, the tables of its RSDT, the
entries of its MCFG and the device, if any, in each page of configuration
space; `low` is what memory at address 0 looks like when it is taken for an
MCFG, which happens if there is none. `LoadTag`, `AcpiInit` and `FindTable`
lead to the walk: `Entry`, `EnumerateBus`, `EnumerateDevice`,
`EnumerateFunction` and the steps that go on to the next. Pointers are pages
modulo `Word`, since `base_addr` has 64 bits and a pointer 32.

### Boot

`Boot` extends `PageFrameAllocator` and instantiates `PageTables`; the steps of the
two are its own, joined where the code calls across. `parts` records every piece
of memory taken at `KERNEL_END` (`TakeMemory`), `end` is `KERNEL_END` in bytes.
`InitBitmap` of the allocator is also the first to move it (`PlaceBitmap`),
`KheapAdd` the second, `RoundUp` and `MakeTables` are `ptm_initialize`. In
`LockEverything` the directory's `lockedPages` and the allocator's bitmap change
together: `KernelPages`, a constant of the allocator, is here computed from the
layout (`BootAssumption`). `GrantPages` is a grant that, for
`pfa_request_mpage`, ends with `ptm_map_addr`. `AcpiInit` is the place where PCI
enumeration would map pages before there is a directory: it may abort or find
nothing to map. `BootsAllocator` says that all of this, seen as the allocator
alone, is `PageFrameAllocator!Spec`, so that the theorems about that hold in the
composed kernel.

### Printf, CFormat, Strings, Libc

A call goes through the format once. Each directive passes the places
"flags", "width" (a digit of `_atoi` per step), "precision", "places" (the same),
"length" and "specifier". An integer is put together in "digits" (a round of
`_ntoa_long`'s loop) and "ntoa" (`_ntoa_format`), a double in "frac" (the digits
behind the point, with `count` the places left), "zeros" (the rest of the places
and the point), "whole" (the digits before it) and "float" (zeros and sign), all
of `_ftoa`; "out" is `_out_rev`. Characters are strings of one letter, members of
`Charset`; the buffers hold their digits in the code's order, the last one
first, and each `Push` has the test for room that the code has. A double is a number of `1 / Fraction`:
the fractions of the instance are exact in binary, so that `_ftoa`'s arithmetic
has no error of its own. The four ways to put out a character are `Kept`.
`library` tells `libc.a` from `libk.a`, which the kernel is linked with and which
is built without `long long`: its branches are empty (`Unsupported`).

`CFormat` is the reference: `Spelled` writes a directive down, `Arguments` lists
what it takes, `Meaning` is what it stands for. `Conforms` compares. Where the
code departs from C it is named in `Libc`, each with its line, and `Conforms` claims
the rest, with two things besides: every argument that is taken was passed
(`ArgumentsPassed`), and only a format that ends inside a directive is read beyond
its NUL (`Dangling`). The departures are `ForgetsZeros`, `OctalZero`, `DropsDigits`, `NegativePrecision`,
`Overlong`, `OverlongFloat`, `DropsPoint`, `Omitted`. Each is exact enough that
a directive outside is printed right.

`PlainDirectives` are those without flags, width and precision, other than of a
double. The kernel writes no others (`%d`, `%X`, `%p` and text: `kernel.c`,
`page_table_manager.c`), none of them longer than a long (`IsShort`).
`PlainInv` says where a plain call is at each place in `_vsnprintf`; TLC finds it
to hold of the plain ones among the calls of `MCLibc`, and it is what the proofs
use.

`Strings` is one call on a memory of `Top + 1` bytes, a byte per step;
`MovesAtOnce` and `ComparesInOrder` compare with what the call must do to the
memory it started from.

### How the parts fit together

`Boot` is the composition of the memory's parts. The others meet at named places:
`mapped` in `Devices` stands for the calls that `PageTables` has as
`EarlyMapAborts`, because `kernel_main` makes them too early. A key that
`Interrupts` hands to `KeyboardCallback` is a `Key` of `Terminal`; that it is one
step there rests on `HandlersDoNotNest`. What `Terminal` prints is what `Printf`
keeps for the sink "terminal", and `ScrollLine` there is a `memmove` of `Strings`.
`FirstFit` is shared by both allocators as the code's loop is repeated in both.

## The runs

| run | instance | shows |
|---|---|---|
| `heap_mixed` | 8 blocks; requests of 0, 2 and 12 bytes | invariant, disjointness, exact accounting, first fit, PANIC only when full, calls end, refinement of the loose `BlockPool` |
| `heap_ports` | 16 blocks; requests that take 4 blocks | with one request size nothing leaves the chunk: `InsideChunk`, `NoSpill`, refinement of the strict `BlockPool` |
| `heap_tail` (violation) | as `heap_mixed` | `InsideChunk` fails for mixed sizes |
| `boot` | 15 pages, two of them withdrawn, tables of 4 entries; requests of 1 (mapped) and 2 pages | from power-on through the layout of memory to any sequence of requests and frees: invariant, exclusiveness, counters, NULL means full, first fit, requests end, refinement of `BlockPool`; parts, directory and tables apart; everything of the kernel's locked; the identity map complete; what is handed out mapped is reachable; the composed steps are those of `PageFrameAllocator` |
| `pages_reserved` (violation) | 6 pages, two of them unavailable; requests of 1 (mapped) and 3 pages | an unavailable page is handed out |
| `tables_early` (violation) | 4 entries, so 16 pages | `ptm_map_addr` before `ptm_initialize` may abort |
| `interrupts` | timer, a masked line of each controller, one letter, one other key, two letters typed | nesting, readiness, keys, and both lines are served |
| `registers` (violation) | as `interrupts` | `edi` may change across an interrupt |
| `terminal` | 2 rows, 3 columns, 6 characters | the cursor returns to the screen whatever interrupts; undisturbed, the screen shows the text |
| `terminal_race` (violation) | 4 characters | letters of kernel and handler overwrite each other |
| `devices` | buses of 3 devices with 2 functions; one window of one or two buses, two windows apart or overlapping, a window across the end of the address space, machines without ACPI tag or MCFG; every content of one bus | every AHCI function found, once, nothing else read, the walk ends |
| `libc` | `char` to `long long` of 2, 4, 8 and 16 bits, buffers of 8 digits and of 10 characters of a double; every set of flags with widths and precisions around the number of digits and beyond the buffer, every length with numbers that do not fit, all pairs of nine directives into every sink and buffers of 0 to 5; memories of 4 bytes with 3 values, all areas and sizes | what is printed is what C says but for the departures named; nothing leaves its buffer and every text ends in a NUL; copies and comparisons; every call ends |

### Why the bounds are enough

* Heap and pages: the search only compares `index + offset` with the end and
  looks at bits, so what matters is that runs can be shorter than, equal to and
  longer than the gaps, that gaps occur at the start, between and at the end,
  and that the bitmap fills. Eight bits with runs of 0, 1 and 3 (heap) do that;
  3 does not divide 8, so the last run can overhang by one or two. In `boot` the
  bits 10, 11, 14 and 15 are left to clients, with runs of 1 and 2, so that a
  run fits, does not fit between, and overhangs the end; bit 15 is of a page that
  does not exist, since the bitmap has whole bytes and one more. `Word` is large
  enough for the heap's `used` not to wrap and 2^16 for the pages, near the
  sum of all. The theorems remove the bounds.
* `NUM_PAGES` of a whole number of pages is exact up to 2049 pages and short
  from 2050 on. With 1024 entries the directory takes 3 pages and each table one,
  so `KERNEL_END` is 1027 pages above the kernel, its bitmap and its heap, which
  leaves these about 4 MiB before `KernelProtected` would fail.
* Page tables: with 4 entries the kernel and its tables take ten pages, which
  cross two boundaries between tables; six bits are left, two of them withdrawn.
* Interrupts: one line with a handler besides the keyboard and a masked line of
  each controller are all the kinds of lines there are; two letters are enough for one to overtake the other. `Word = 3` lets
  `timer_tick` wrap.
* Terminal: six characters fill three columns and two rows, so that wrapping,
  scrolling and clearing all occur with a key in between. The run stops when
  they are used up, hence no deadlock check.
* `printf`: nothing in the code depends on the number of bits but the conversions
  to a length, and nothing on the buffers but that a binary int fits exactly into
  `_ntoa_long`'s, as 32 digits do into 32. Two directives show what one leaves to
  the next, since a third sees only the second. Three values tell bytes that
  are 0, less and greater; areas of up to four bytes overlap from either side.
* Devices: two functions and three devices distinguish "first" from "other"; two
  buses give every way of two windows to meet.

### Fairness

`KmallocLoop`, the clients' `Serve` in `Boot`, `Walk` and the steps of `Libc` are
weakly fair: loops of a processor that is running, preempted only by handlers
that return. `Handler` is weakly
fair for the same reason. `Interrupt(l)` for timer and keyboard is strongly
fair: a line that is the one the processor would take, again and again, is
taken in the end, though the processor disables interrupts in between.
`KeyboardServed` is conditional: a timer faster than its handler would starve the
keyboard, and nothing in the code rules it out but the rate it asks for. No
device is ever required to raise a line, no user to type, and no caller to free.

## What is proved

The theorems hold for every value of the constants that the assumptions in the
modules allow: any granularity, bitmap and request sizes; any memory map; any
set of lines and keys.

* `FirstFitProofs`: what the loop knows at its head (`ScanInv`): no start passed
  fits, and the cells looked at are clear. Jumping past the hit preserves it
  because every start in between would contain the hit.
* `KHeapProofs`: `HeapInvariant`, by induction. `LiveDisjoint` alone is not
  inductive: that a run found in the bitmap is nobody's needs `BitmapExact`, that
  it is clear needs `ScanInv`, and freeing needs that no two blocks share a bit
  (`LiveApart`). From it: `BlocksAreDisjoint` (two blocks that overhang the end
  would share the last bit), `OnlyOneOverruns` for the same reason,
  `PanicMeansFull`, `GrantsFirstFit`, `RequestsAreCovered` and `HeapImplementsPool`.
  `BytesAreAccounted`: `chunk.used` is the number of bytes held. The bytes of a
  block are pairs of the block and a number, so that the sum is the cardinality of
  a set, which gains or loses as many as a block has. `UniformInv` strengthens the
  invariant for a heap whose requests all take q blocks, q dividing the bitmap:
  every block starts at a multiple of q and a search is off a multiple only
  inside a block, whose bits are set. This gives `UniformHeapIsContained`,
  `UniformHeapNeverSpills`, `UniformHeapStaysInChunk` and
  `UniformHeapImplementsStrictPool`.
* `PageFrameProofs`: `PagesInvariant`, the same argument with withdrawn pages and
  the boot in front. From it `GrantsAreExclusive`, `KernelIsKept`, `NullIsFull`,
  `RequestsAreFirstFit`, `PagesImplementPool`; `CountersBalance` is a separate
  induction on arithmetic modulo `Word`. `SetBitsAreAccounted`: used and reserved
  memory together are the bytes of the set bits, until a run passes the end of the
  bitmap. `SinglePagesStayInBitmap`: only runs can overhang.
* `BootProofs`: `KernelInvariant`, of three parts. `PagesInv` is the allocator's.
  `LayoutInv` says which parts of memory have been taken at each place in
  `kernel_main`, and that no page is asked for before the last of them is locked.
  `PagingInv` says what each loop of `ptm_initialize` has done: which tables exist,
  how far the identity map goes, and that an entry is that of its own page or
  none. From it `MemoryIsApart`, `KernelIsProtected`, `KernelIsIdentityMapped`,
  `GrantsAreReachable`. `KernelHasAllocator` is the refinement `BootsAllocator`: each
  step of the composition is one of `PageFrameAllocator` or leaves it alone, so
  `KernelServesCallers` has the theorems of `PageFrameProofs` in the booted kernel.
* `InterruptsProofs`: `InterruptsInvariant`. Its parts need each other: that a
  handler is not interrupted needs the gates to be there, and that nothing is
  in service when the next line is taken needs the frame to say which one is.
  From it `HandlersNeverNest`, `TablesReadyBeforeSti` and `EveryKeyEchoed`.
* `TerminalProofs`: `ScreenInvariant`. Its `CursorInv` says at which places of a call
  the shared cursor may be off the screen, namely where the call is still to
  store what brings it back, whatever a key has done to it meanwhile; the registers
  of the call are on the screen throughout. From it `CursorStaysOnScreen`.
  `PageInvariant` adds `TextInv`, what the screen shows at each of these places: the
  page before the character until `Write`, the one after it from then on, still
  through the old window; while it scrolls, the rows above `main.line` through the
  new window and those from it on through the old. Scrolling is right only
  if the row that comes into the window is blank, so `Placed` says that nothing is
  written below it. From it `ScreenShowsText`.
* `DevicesProofs`: `WalkInvariant`: what has been found are functions that the walk
  has passed, what it has read lies in windows, and of a window whose addresses
  do not wrap no AHCI function passed is missing, where PCI lets a walk find
  it. From it `DrivesAreFound`, `DrivesAreFoundOnce`, `ReadsStayInWindows`.
* `LibcProofs`, strings: `StringsInvariant`, with `Progress`, what the bytes treated so
  far have become and that those still to be read are as before: for overlapping
  areas this is the direction of `memmove`. From it `LibcMovesAtOnce` and
  `LibcComparesInOrder`, for areas of any size.
* `LibcProofs`, `printf`: `PrintfInvariant`. `NumberFits`: where a digit is put without
  a test there is room for it. `TextKept`: the caller's buffer holds the prefix of
  the text that fits, which rests on a lemma about prefixes of a concatenation
  (`TakeOfConcat`). `FormatHeld`: the format is not passed. From it
  `LibcStaysInBuffers`, for every format, argument and size.
* `LibcProofs`, plain calls: `PlainCalls`, with `PlainInv` on top of `PrintfInv`. It
  relates the call to the n directives it has done: `pos` and `arg` are behind what
  these spell and take (`At`, `Taken`), `text` is what they mean (`Printed`), and
  inside a number flags and base are the directive's while the digits still to come,
  then those in `buf` backwards, are those of its magnitude (`Number`). Its lemmas
  are about what joins a sequence of texts (`Flatten`, `JoinedUpto`: a text that is
  joined divides at every n, so that the letter at `pos` is one of directive
  n + 1), and about numerals (`NumeralStep`: the digits of a number are those of its
  quotient and one more). From it `PlainCallsConform`: any number of plain
  directives, of any length and argument, prints what C says. It needs nothing
  of the caller, since a plain call passes what its directives take
  (`PlainArgumentsPassed`); so `PlainCallsStayInBuffers` drops the assumption of
  `LibcStaysInBuffers`. `PlainCallsPrintAsC` drops the exceptions as well: a number no
  longer than a long has at most as many digits as bits (`NumeralShort`), a negative
  one leaves room for its sign, and so no departure is open to the calls that the
  kernel makes.

### From which assumptions

Besides those that the modules state of their constants (`...Assumption`):

* `NoWrap` (`BytesAreAccounted`, `RequestsAreCovered`): no request is so near 2^32
  that its rounding wraps.
* `Uniform(q)` (the theorems named Uniform): all requests take q blocks, and q
  divides the bitmap. The kernel asks for 16 bytes, 4 blocks, out of 0x80000
  bytes. `UniformHeapStaysInChunk` adds that the chunk is of whole blocks, as
  0x80000 bytes are.
* `Ordered` (page frames, boot): requests come after `ptm_initialize`, as in
  `kernel_main`, and the kernel has at least one page, so that page 0, the
  address NULL, is never found.
* `SmallKernel` (`KernelIsProtected`): the kernel with its tables ends within 2049
  pages. `NUM_PAGES` is one short beyond, so the theorem would be false; today's
  kernel ends after some 1450: 267 of the image, 128 of the heap, up to 32 of the bitmap and
  the 1027 of its tables.
* `[]ArgumentsPassed` (`printf`): the caller passes an argument for each that the
  format takes, which is its side of the contract: C has no way to tell.
* `PowersAreNumbers`: powers of 2 and 10 are positive numbers, 2^0 is 1 and 2^(k + 1)
  twice 2^k, which the provers do not know; TLC checks it on the instance.
* The widths of the types are in C's order, and a long has at most as many bits as
  the buffer of a number has characters, 32 each (`PrintfAssumption`).

### What is only model-checked

* All liveness: `CallReturns`, `RequestReturns`, `TimerServed`, `KeyboardServed`,
  `WalkEnds`, `CallsEnd`. Fairness and ENABLED are out of the provers' reach.
* `Conforms` of calls that are not plain. With flags, width and precision a
  directive has some hundred forms that `_ntoa_format` tells apart, and doubles need
  arithmetic with a variable divisor, of which the provers know next to nothing; TLC
  goes through every combination of flags instead. Such calls are still proved to stay
  in their buffers.
* What `PageTables` does outside `Boot`: `ptm_map_addr` of any page to any frame. Every
  caller in the code maps a page to itself, and that is the case proved in
  `BootProofs`.

The library's induction theorems take an operator, which the provers cannot
instantiate. `LibcProofs` has induction for the set of the numbers of which something
holds (`Induction`, `StrongInduction`), derived from its theorem that finite sets are
well-founded under inclusion; what `FlattenSeq` and `Numeral` compute for every argument is proved by it.

## Where the code does something else

Each of the five runs marked "violation" refutes what a comment or a signature
says:

* `kheap.c:70`: the last free run is granted even if it is too short. With the
  only size the kernel asks for it cannot happen (`heap_ports`).
* `page_frame_allocator.c:84`: the pages reserved are those in which the entry of
  the memory map is stored.
* `page_table_manager.c:64`: PCI enumeration maps pages before `pd` is set.
* `irq.c:105`: the frame that `popal` pops is `irq_handler`'s own argument area.
* `tty.c:83`: `printf` is called from a handler, which it is said to allow.

Others that the models contain, without a run of their own:
`page_frame_allocator.c:130` has the same loop as the heap, so a run of pages can
end past the last one; a size near 2^32 rounds to nothing (`kheap.h:14`,
excluded by `NoWrap`); a request that is granted page 0 is lost, possible only
before the kernel is locked; a key pressed before `irq_remap` blocks the keyboard;
PANIC leaves interrupts on; a machine without an MCFG reads one at address 0;
`end_bus` is left out by the walk although an MCFG counts it in; tabs and
backspaces can carry the cursor off the screen; the bitmap's last bits are of pages
that do not exist, and are handed out.

`printf` departs from C, each as named in `Libc`: `-` loses the zeros of the
precision; an octal `#` adds a 0 too many or none; `#` drops digits of a number as
wide as its field (`%#2x` of 0x4d prints `0x`); a negative precision counts as 0;
what the buffers of 32 characters do not hold is lost, for a double of
precision above 30 even what stands before the point; `%#.0f` has no point; libk prints nothing for `%lld` and hands
its argument to the next directive. A build that stores doubles in memory would
add one: 0.95 * 10 becomes 9.5, is raised to 10 tenths without a carry, and zeros
fill the buffer. None is used by the kernel's own formats
(`PlainCallsPrintAsC`).

## What is not modelled

* `boot.S`, linker script, GDT, `crti`/`crtn`: they run once and keep no state.
* `pci_descriptors.c`: tables from numbers to names, without a caller.
* Of `printf`: `_etoa`, so `%e`, `%g` and `%f` of more than 1e9, which takes
  logarithms from the bits of a double; infinity and nan. Arguments whose type is
  not the one the directive asks for.
* `multiboot2.h` is third-party, `sysroot/` and `isodir/` are products of the build.
* `ahci.c` does not compile at this commit, so it has no behaviour; its use of heap
  and pages set the constants of `heap_ports`. `delay`, `irq_uninstall_handler`,
  `pfa_unreserve_page(s)`, `terminal_delete_line` have no caller.
* Colour, text of messages, the values written to the timer chip, the second
  controller's cascade.
* Sums of memory sizes that exceed 32 bits; page numbers beyond 2^20 wrap in the
  code's pointers.

## Plan

The order was: the allocators, because everything else lives in their memory;
page tables, which decide whether the kernel survives turning paging on;
interrupts and the screen they share with the kernel; the way to the devices;
the composition of allocator, heap and page tables in the order of
`kernel_main`; the library. All of it is modelled and checked. Of the invariants
and action properties that the passing runs check, all are theorems, `Conforms`
for plain calls. What would come next:

1. `Conforms` with a width: `InField` around a text that is already proved, one
   lemma for each of `_ntoa_format`, `_out_rev` and the padding of `%s` and `%c`.
   Then precision and `0`, which both fill `buf` with zeros.
2. `ahci.c`, once it compiles: its ports are clients of heap and pages and of what the
   walk has found.
