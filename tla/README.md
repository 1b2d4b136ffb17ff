# The nanokernel in TLA+

TLA+ models of the kernel under `src/source`, TLC configurations that check
them on small instances, and TLAPS proofs of the properties that hold for every
instance. The kernel is a teaching kernel for a 32-bit PC: one thread (`kmain`)
with interrupts enabled, a keyboard, a text screen, a heap and a page allocator.
Paths below are relative to `src/source`.

## The system

| Component | State it keeps | Operations | Correct when |
|---|---|---|---|
| FIFO (`lib/fifo.c`) | two positions, a count, the slots | `fifo_add`, `fifo_get`, queries | entries come out in order, none lost or doubled |
| Heap (`lib/kmalloc.c`) | two sorted doubly linked lists inside the heap | `kmalloc`, `kfree` | blocks are disjoint, nothing leaks, clients' bytes are left alone |
| Keyboard decoder (`keyboard.c`) | a state 0..4, modifier flags | one byte per interrupt | it is back in state 0 after each key event; flags follow the keys; one character per press |
| PS/2 driver (`ps2.c`) | the 8042's configuration | `ps2_init`, `ps2_handler` | initialisation ends with the keyboard enabled and its interrupt unmasked, whatever the keyboard sends meanwhile; every byte sent later reaches the decoder once |
| Interrupt path (`handler.c`, `pic.c`, `intr.h`, `asm/intr.S`) | IDT, handler table, masks; the 8259s' request and service registers; the stack of stubs | stubs, `int_handler`, `pic_end_interrupt`, masking | handlers do not nest; every line in service is ended once |
| Console (`console.c`) | cursor, video memory | `console_putch` | what is printed is what is seen |
| Main loop (`kernel.c`) | - | polls the FIFO, prints to the console, where the interrupt prints too | every accepted character is printed, in order; the cursor stays on the screen |
| Physical pages (`memory.c`, `lib/bitmap.c`) | a bitmap, two counters | `memory_init`, `memory_find_and_alloc_page` | pages given away are usable, outside the kernel, and each has one owner |
| Page tables (`memory.c`) | directories and tables in pages | `page_map`, `page_physical_for_virtual`, `page_copy` | a mapping is found again; other mappings are not disturbed |
| List (`lib/list.c`), character devices (`chrdev.c`) | head, tail, count, nodes | append, insert, remove, search, iterate | a sequence of data pointers |
| Kernel library (`lib/kstdlib.c`) | - | `kprintf`, copies, comparisons, parsing | a directive prints its argument as its conversion says; no byte outside the destination changes |
| ELF loader (`lib/elf.c`) | the memory of its caller | `read_elf` (the kernel does not call it) | a wrong file is refused untouched; each segment of a right one is at its address |
| Boot (`asm/boot.S`, `linker.ld`) | stack, GDT, layout | `_start` | once, before `kmain` |

How they interact. `kmain` calls the initialisers in a fixed order, then loops.
A key makes the 8042 raise IRQ 1; the 8259 and the processor enter a stub, which
calls `int_handler`, `ps2_handler`, `keyboard_handle_rcvd_char` and `fifo_add`.
The loop takes characters out of the same FIFO with interrupts enabled and hands
them to `console_putch` through `stdout`. The FIFO, the list and the bitmap get
their memory from `kmalloc`; page tables get theirs from the page allocator.

What is hard. The only concurrency is interrupts: the handler and the loop
share the FIFO (and, when it is full, the console), and the stubs re-enable
interrupts before they return. The keyboard and its controller act on their own
while the driver sets them up, and the driver does not wait for them. There is
no preemption, no second processor and nothing persistent, so there are no crashes to
recover from. The rest of the difficulty is in data structures whose parts must agree after long sequences of
calls (lists in the heap, regions, page tables), protocols of bytes (scan
codes), and boundaries (full buffers, last rows, partial pages, a full bitmap).

## Modules

| Module | Models | State and actions against the code |
|---|---|---|
| `CharQueue` | what a FIFO promises | abstract queue and the caller's buffer |
| `Fifo` | `lib/fifo.c` | the fields of `struct fifo`; `FifoInit`, `FifoAdd`, `FifoGet` are the functions. `Next` is calls that do not overlap |
| `KernelLoop` | `kmain`'s loop and the keyboard interrupt, EXTENDS `Fifo` | `Poll`, `Getchar`, then `fifo_get` cut into copy, load, store and advance; `KeyboardInterrupt` is a whole `fifo_add`. `accepted`, `taken`, `overrun`, `lost` are history for the properties |
| `Terminal` | the loop's `putc` opened up, and the message of `fifo_add`, EXTENDS `KernelLoop` | `console_putch` cut at every load and store of `row` and `col` (`at` is the place, `r` and `c` the registers); `Interrupt` is `fifo_add`, and when it has a message to print, `PrintChar` is one character of it, a whole `console_putch`, until none is `left` and the loop goes on. Every character the charmaps hold can be typed: `Branch` is the choice `console_putch` makes. Cells are their positions; `furthest` is the last one written, and `raced` records that a message was printed inside a backspace |
| `Heap` | what `kmalloc`/`kfree` promise | the set of live blocks |
| `RegionHeap` | `lib/kmalloc.c` as regions | `free`, `alloc` are the node addresses on the two lists, `size` the header's field; `Malloc`, `Kfree` are the functions, `Split`, `FindByAddr`, `MergeInto` their helpers. `Roomy` says whether clients leave no remainder below a header |
| `KMalloc` | `lib/kmalloc.c` with headers and links in memory | `mem` is the heap word by word; every list routine is an operator on it, every search a walk (`WalkUntil`) that stops in a set of nodes. `ClientWrites` is the owner of a block using it |
| `Keyboard` | `keyboard.c` and a keyboard with scan code set 2 | the fields of `keyboard_handler_t`; one action per state of the decoder, chosen by the byte; the keyboard emits whole events. `forgotten` is history: a shift key is held from before another one's release |
| `Ps2` | `ps2.c`, the 8042 and the keyboard as a source of bytes | `ps2_init` is the sequence of operations it performs, `pc` counts those done, `cfg` is its local variable; `Take` and `Reply` are the controller, `Send` the keyboard, `Interrupt` is `ps2_handler` |
| `Interrupts` | `intr.h`, `handler.c`, `pic.c`, and the 8259s and processor they drive | `frames` is the stack of stubs, each with its place in `INTR2`; `Handle` is `int_handler` with `pic_end_interrupt` |
| `Console` | `console.c` | `row`, `col`, the cells of page 0; one operator per character `console_putch` treats specially |
| `PhysMem` | `memory_init`, the page allocator, `lib/bitmap.c` | `used` is the set of set bits, including those of the heap word after the bitmap; `BuildMap` is one turn of the loop over the memory map, for the entry `region` |
| `Paging` | page directories and tables of `memory.c`, EXTENDS `PhysMem` | a table or a directory is a page that `AllocPage` gives out, past the end of memory too, where it is the same one every time; it keeps its old contents. `mapped` is what `page_map` was last told |
| `DataList`, `LinkedList` | `lib/list.c` and what it promises | `head`, `tail`, `count`, the nodes' fields; `Walk` is the path from `head` along `next`, which `IsWalk` describes; `lost` are the nodes that an append cut off |
| `Kprintf` | `kprintf` and the four number printers | one character of the format per step, by `state`; `PutNumber` prints a number: `LargestPower` is the search for the first divisor, `PutDigit` one turn of the loop that `Digits` goes round; `Asked` is what printf would print for the directives, `Misprinted` those that kprintf prints otherwise |
| `KString` | `kmemset`, `kmemcpy`, `kstrncpy`, `kstrcmp`, `kstrncmp` | one call per step on a small memory |
| `Elf` | `read_elf` with `validate_header` and `handle_program_header` | `Validate`, then one program header per `Load`; the call-backs may refuse |

`KernelLoop`, `Terminal` and `Paging` compose components: the first runs the
FIFO's operations from two actors, the second adds the console both print to,
the third runs the boot sequence of the page allocator and then allocates from
it. `Ps2` composes the driver with its hardware. `KMalloc` refines
`RegionHeap`, which refines `Heap`; `Fifo` refines `CharQueue`; `LinkedList`
refines `DataList`. The library's parts share nothing: `Library` puts `Kprintf`,
`KString` and `Elf` side by side, and `MCLibrary` checks them in one run, where
`job` chooses whose call is made.
The module `MCx` instantiates `x` for TLC, `xProof` holds its proofs;
`KeyboardProof` is about `Keyboard` and `Ps2`, the two halves of the keyboard,
and `LibraryProof` about `LinkedList`, `Elf`, `KString` and `Kprintf`, the files
of `lib` that share nothing.
Definitions whose name is another's with a suffix and whose comment begins with
"Mutant" are defects a property must notice; no specification uses them.

Hardware is modelled as the code drives it: the 8259 with fully nested
priorities and non-specific end of interrupt, and an acknowledge that may be
spurious; the processor's one-instruction delay after `sti`; the keyboard's
byte sequences; the 8042 with a buffer of one byte each way, an answer that
waits (`owed`) until the output buffer is free, and IRQ 1 latched at the rising
edge of the output buffer's flag. A byte written to the 8042 before it took the
last one replaces it (`dropped`); `delay_8042` is taken to be long enough for
one byte to be taken. How the 8042 decides between an answer and a key is not
in the code: any order is possible.

## Runs

| Run | Instance | What it shows |
|---|---|---|
| `fifo` | 3 slots, 2 values | `PositionsAgree`: the three fields agree across every wrap-around; `IsQueue`: the buffer is a bounded queue |
| `loop` (`MCTerminal`) | 2 slots, 5 characters typed, of a glyph, tab, newline, backspace and vertical tab; a screen of 3 by 2, a `uint8_t` of 8 values, a message of 2 glyphs | With the interrupt between any two steps: the loop prints what was accepted, in order, until an unread entry is overwritten (`InOrder`); the count is the number of unread entries less the lost increments, and only a lost increment lets an entry be overwritten (`LagExact`); whenever the loop is outside `console_putch` the cursor is in a row of the screen and at most one past its end (`CursorBack`), and nothing is written further than the row after the screen and one cell (`WritesNear`), unless a message was printed inside a backspace: then the column can be any that a `uint8_t` holds; the loop empties what the count admits to (`Drains`) |
| `regions` | 24 bytes, header 3, sizes 0, 1, 3 | With `Roomy` clients the regions tile the heap (`Tiling`) and every block is its owner's (`IsHeap`) |
| `kmalloc` | 15 words, sizes 0 and 2 | The links stay those of two sorted lists (`ListsOK`, with the types), clients' words are untouched (`PayloadKept`), and the memory implements the regions (`IsRegionHeap`) |
| `kmalloc_exact` | 12 words, sizes 1 and 3, any remainder | **Violated**: a remainder of less than a header still gets one, over the next block's |
| `keyboard` | three ordinary keys, six modifiers, three extended keys, Pause | Over every order of presses, repeats and releases: the decoder is back in state 0 after each event (`Framed`), the flags are those of the keys held (`ModifiersTrack`), a character comes only from the press of an ordinary key (`OneCharPerPress`) and from the charmap that the keys held ask for (`CharmapFits`); in both, except for a shift key held from before another one's release |
| `interrupts` | lines 1, 6 and 12, three nested stubs | `HandlersExclusive`, `InServiceOfTop` (from which the second end of interrupt ends nothing: `SecondEoiIdle`) and `HighestServed` |
| `console` | 3 by 2 cells, 7 characters of 8 kinds | Plain text: the screen shows the end of what was printed. Any text: a character leaves the rows above the cursor alone or, where it scrolls, moves them up by one; only a form feed, which clears the screen, does not (`AboveUntouched`) |
| `paging` | 5 to 10 pages, words of 4 bits, 26 memory maps, some with a part above 4 GB or listed twice | Pages have one owner, are usable and not the kernel's (`PagesOwned`); memory is used up before a page past its end is given out (`LostOnlyWhenFull`); for regions of whole pages below 4 GB the word after the bitmap is left alone (`AfterKept`), and the printed count is right if they do not overlap (`CountExact`); as long as the directories fit in memory, mappings are found again, except those whose table was put past the end of it (`Translates`, `Identity`) |
| `list` | 4 nodes, 2 data pointers | With every order of calls, an insert into an empty list included. `Agree`: count and tail match the links, but for the tail of a list that an insert began, and every node is in the list or was cut off from such a one; `IsDataList`: the list is a sequence, and the append that cuts off is the only call that departs from it |
| `ps2` | 3 scan codes, 3 configurations left by the firmware, 2 answers to the self test, 4 bytes sent | Only two commands can be written over (`CommandsAtRisk`); unless one was, or a key was taken for an answer, the configuration ends as intended (`ConfigIntended`); the decoder gets at most one byte that is no scan code, first, and then every byte once and in order (`CleanAfterFirst`); `ps2_init` ends (`InitEnds`) and no byte sent after it is missed (`KeysArrive`) |
| `library` | int of 8 bits, long long of 16, at most two directives; a memory of 5 bytes of 3 values; ELF files with up to 3 segments or one or two wrong fields | `FormatsAsDirected`: `kprintf` prints what printf would, unless a directive is a `%d` of a negative number or a `%Ld` of one that is no int (`Misprinted`), and each directive fetches its own argument always; `CallsKept`: what each copy and comparison leaves and returns; `Loaded`: files are refused untouched or loaded |

### Bounds

Each bound is a constant, named in the module that uses it.

- `MaxEntries = 2` and `MaxTyped = 5`: an entry is overwritten, after one lost
  increment, by the fourth character, and the fifth can find the FIFO full, or
  the other way round; both positions wrap. The proofs of `TerminalProof` are for
  every size. On a screen of 3 by 2, where the loop starts in either row, these
  characters wrap, scroll and reach the end of a row by a tab; `Bytes` is as
  much larger than a row as it takes for a raced backspace to be followed by a
  glyph past the row after the screen, and the message is shorter than a row.
- `MaxSent = 4`: `ps2_init` reads three answers, and a scan code can be in the
  place of each; one more arrives after it.
- `Bits`, `LongBits`: the numbers are on both sides of every power of the base,
  of overflow in the search for the first digit and of the limits of both
  sizes. `MaxDirectives = 2` lets what one directive leaves behind meet the
  next. `StringSize` has room for two strings side by side and for areas that
  overlap both ways; `TaskSize` for three segments, apart and overlapping.
- Heap sizes: four blocks and their remainder for `kmalloc`, seven for
  `regions`. A merge involves at most a block and its two neighbours, and a
  list position at most a predecessor and a successor; four blocks put a freed
  block in each of these places. Addresses do not wrap in these models; the
  kernel's heap is 1 MB.
- `MaxDepth = 3` nested stubs: the argument is about the running stub and the
  one below it. `InterruptsProof` is for any depth.
- Seven characters on six cells: enough to scroll by wrapping and print again.
- `MaxHanded = 8` pages asked for, more than any map has free, so that every
  map is exhausted; `MaxMaps = 2` calls of `page_map` after the set-up, enough
  to map an address again and for two directories to use the same index;
  `Virtuals` and `Frames` have addresses in one table, in another and in none;
  in the smaller maps the set-up itself runs out of pages, and tables share one.
- The keyboard has one key for each case the decoder tells apart; its state
  space is finite without a bound.

Runs without deadlock checking are those where a bound ends the behaviour
(`console`, `paging`), where all nodes may be in use (`list`), where the
keyboard has sent all it may (`ps2`), and where a call returns (`library`).

### Fairness

`KernelLoop` and `Terminal`: weak fairness of the loop, the kernel's only
thread, which always continues after an interrupt, together with the printing
of the interrupt's message, which ends. Nobody is required to type.
`Ps2`: weak fairness of the processor's next operation, of the interrupt when it
can be taken, and of the controller, which takes what it is given and answers;
none of the keyboard, so the end of `ps2_init` does not need a key. `Interrupts`: weak
fairness of the running stub, of taking a request that can be taken, and of the
`sti` that ends `kmain`'s sections without interrupts, which are straight-line
code. `HighestServed` is claimed only for the line of highest priority: lower
ones can starve under a device that never stops.

## Proofs

All are checked by TLAPS without omitted steps. They assume only the named
ASSUMEs of the modules: sizes that are positive; scan codes and tables in their
ranges; regions of memory maps that are records of numbers; ELF files whose segments
are within the task's memory; a memory of bytes that has one; a kernel that is
loaded above the first 64 KB, on a page boundary, and below 4 GB; a heap that
has room for one header (the kernel's is 1 MB); a list's nodes
finite in number and different from its data; an int of 8 bits or more, a long
long as long or longer, and directives of `kprintf` that are complete and have
the arguments they name. `MaxTyped`, `MaxSent`,
`MaxHanded`, `MaxMaps`, `MaxText` and `MaxDepth` are any numbers, so no proof is
for the bounds of the runs.

- `TerminalProof` goes up three levels. The FIFO: `PositionsAgree` with the
  ranges of the fields is inductive; that `fifo_add` writes the slot just behind
  the last entry of `Contents` needs it. The loop: the count is related to
  `Len(accepted) - taken` for each place of the loop (between the copy and the
  store it may be one higher), which gives `KTypeOK`, `NeverAhead` and
  `LagExact`; for `InOrder`, every stored entry is the one accepted at that
  place. The console in it: `CursorBack` and `WritesNear` follow from one
  conjunct per place of `console_putch` about the registers and the cursor; what
  a backspace has seen of the column holds until its decrement, or a message was
  printed and `raced` says so.
  Every step of `Terminal` is one of `KernelLoop` or leaves it alone
  (`TerminalIsKernelLoop`), so what holds of the loop holds with the console.
- `RegionHeapProof`, for `Roomy` clients (`Roomy /\ Spec => ...`; without them
  `Tiling` is false): `Tiling` with the type invariant is inductive for `Malloc`
  and for the four ways `MergeInto` joins. The step that needs it most is that a
  region ending where another starts is its only neighbour. `IsHeap` follows:
  each step of the allocator is a step of `Heap` or leaves the live blocks.
- `KMallocProof` is about clients that are `Roomy`, which leave no remainder below
  a header: `kmalloc_exact` shows what others do. The invariant, `HeapInv`, says
  that there are two sets of nodes, `F` and `A` (`Shape`): the links of each list
  are those of its set in the order of the addresses (`Threaded`), nodes have
  the size of a header or more and end where the next begins or earlier
  (`Placed`), what clients hold are the nodes of `A` less their headers, and no
  NULL was dereferenced. Without `Placed` a header could be written over
  another's link. From `Threaded` follows what a walk finds: it goes up, so that
  it ends within `MaxNodes` steps at the first node it may stop at
  (`WalkStops`). Each list routine is then shown to make a threaded list of the
  set with a node more or less (`DeleteNodeIs`, `InsertIs`), and to write only
  words of headers; from this, what `kmalloc` takes (`Takes`) and what `kfree`
  frees, in the four ways to merge (`Frees`). `ListsOK`, `PayloadKept` and the
  refinement of `RegionHeap` follow. `MemoryIsHeap` puts both refinements
  together: what `Heap` promises of blocks holds of the headers in memory.
- `InterruptsProof`: three facts about the stack are inductive together:
  stubs below the top have passed their `sti` (`BelowEnding`), interrupts are
  off while the top one has not (`HandlerOff`), and only the top one's line is
  in service (`InServiceOfTop`). `HandlersExclusive` and `SecondEoiIdle` follow.
- `PagingProof`: first lemmas on least elements, quotients and remainders by a
  parameter, since page numbers and bitmap words are such quotients. `Bitmap`
  (types, the size, a clear bit after the map, which ends the walk of
  `bitmap_first_clear`) is inductive by itself; with it `Given`: free pages hold
  usable memory and, once the kernel is marked, are none of its pages; pages
  given are marked, usable and different. `PagesOwned` and `LostOnlyWhenFull`
  follow, and `AfterKept` because in a regular memory every page set or cleared
  is below the last. `CountExact` needs to know which bits the loop has cleared
  when it is at each entry of the map (`Visited`), that each visit is of a page
  of its own, and that what `memory_mark_kernel_as_used` counts is free at that
  time (`Counting`). For the tables: as long as the directories fit in memory, a
  table or directory in memory is a used page with one
  user (`TablesUsed`, `OneUser`), so that no write to one, nor to the page past
  the end of memory, changes a mapping found through another (`EntriesKept`);
  `Translates` and `Identity` follow.
- `KeyboardProof`, the decoder: `Reading` says for each state of the decoder which bytes of
  the current event are still to come; `FlagsTrack` and `Typed` carry the flags
  and the character through the event, with what shift forgets. `Framed`, `ModifiersTrack`,
  `OneCharPerPress` and `CharmapFits` are their cases between events.
- `LibraryProof`, the list: the invariant is that the walk from `head` exists, is of
  `count` nodes, all different and just the allocated ones that are not `lost`,
  and ends at `tail`, or `tail` is NULL.
  There is one walk only (by the least place where two would differ), so each
  call is proved by giving the walk it leaves. `Agree` and the refinement of
  `DataList` follow.
- `LibraryProof`, the loader: memory is, after `turn` program headers, what the
  last of them that loads an address puts there (`Content`), as long as no
  allocation was refused; `Loaded` is this after the last header.
- `LibraryProof`, the memory and string functions: a copy of n bytes is one of
  n - 1 and a byte, and that byte has not been written over yet if the
  destination is the lower one or ends before the source (`CopyFrom`). A loop
  over a string stops at the first character it may not pass (`EndIs`,
  `StopIs`), which is within the memory because strings end there; that
  character decides whether the strings agree (`Agreement`).
- `LibraryProof`, kprintf: the powers of a base are a recursive function, about
  which the lemmas say that it grows, and that no power of 2 is one of 10. The
  search stops at the last power whose next is above the top of its type
  (`LastPower`), so the first divisor is never too small, not even for the least
  number, whose opposite has no place in its type. The loop's state after each
  turn is written down in closed form (`After`): the remainder by the power just
  used, and the digits above it, of a number and of its negative alike;
  `TurnAfter` is one turn. `PutNatural` and `PutNegative` follow. The invariant
  of the loop over the format, `PrinterInv`, says which directive is being read,
  how far, and that everything before it is printed as the code prints it;
  `Right`, that for a directive that is not `Misprinted` this is what printf
  would print.
- `ConsoleProof`: the ranges of cursor and cells, where the tab is the case that
  needs the margin, and `AboveUntouched` by cases on the character and on
  whether it scrolls. For
  `ScreenShowsText`, the page that a text typesets to is a function of its
  prefixes: one more character is one more step of it, and the invariant is that
  the screen is the last rows of that page and the cursor its end.
- `KeyboardProof`, the driver, is about the 28 operations of `ps2_init`, written out, against a
  controller and a keyboard that act at any time. `InputInv` says what can be
  in the controller's input at each operation, whose answer is awaited, and
  which commands were dropped; `ConfigInv` what the configuration, the local
  variable and the answers are at each operation, if no key was taken for an
  answer and nothing was lost; `HandInv` relates what was handed to the decoder to
  the byte in the output buffer and the one in its latch. `CommandsAtRisk`,
  `ConfigIntended` and `CleanAfterFirst` follow.

Only model-checked: liveness (`Drains`, `HighestServed`, `InitEnds`,
`KeysArrive`), which needs ENABLED, and `HeadersIntact`, which is violated. Every
invariant and action property of a passing run is a theorem. Where a recursive
function is proved about (`Page` of `Console`, `Copied` of `KString`, `Powers`,
`Digits` and `Asked` of `Kprintf`), induction is replaced by the least
counterexample: a set of numbers that is not empty has a least element, which
the library states without an operator as a parameter.

## Where the code departs from its words

The first has a run (`kmalloc_exact`, above). The others were met while
modelling; the models state what the code does, and the properties are stated so
that they hold.

- `lib/kmalloc.c:166`: a block whose remainder is smaller than a header is split
  all the same.
- `lib/fifo.c:55`: `num_entries--` in the loop can overwrite the handler's
  `num_entries++`, so the count is not the number of entries that `lib/fifo.c:10`
  says it is; `LagExact` states by how much it is wrong.
- `ps2.c:40`: the waits for the controller compare the value of bit 1 with 1 and
  never wait. `ps2.c:131`: with the port enabled, a scan code can be read as the
  configuration and written back; if its bit 4 is set, the keyboard stays
  disabled. `ps2.c:70`: the wait for an answer has no limit.
- `lib/kmalloc.c:54`: the search for the preceding node may return a later one,
  or one that does not precede; `kfree` then misses merges. `RegionHeap` has the
  search as it is.
- `lib/kmalloc.c:291`: with the free list empty (after a block that fits exactly)
  `kfree` dereferences NULL (`KMalloc`, `fault`).
- `keyboard.c:80`, `95`: both shift keys share a flag, so a shift key held while
  another one goes up is forgotten; `Shifted` says so for `ModifiersTrack` and
  `CharmapFits`. Caps lock acts
  while held.
- `keyboard.c:68`: scan codes from 80h on index before the table.
- `console.c:157`: a message of `fifo_add` between backspace's test of the column
  and its decrement leaves the column at 255, the largest `uint8_t`; the next
  glyph is written three rows further down, perhaps below the screen. `CursorBack`
  and `WritesNear` make the exception for this case only. `console.c:139`: a tab
  can leave the cursor past the last column, so `TypeOK` allows `col = Width`.
  `console.c:145`: carriage return moves down (the handout of part 3 has it move
  to the beginning of the line). `console.c:117`: scrolling by more than one row
  clears the wrong rows; the kernel scrolls by one.
- `memory.c:77`: the last page of a region is free even if only its beginning is
  usable; `PagesOwned` asks for some usable unit. `memory.c:35`, `78`: regions
  above 4 GB are cut to 32 bits, and the pages at the wrapped addresses are
  freed; `PagesOwned` has the usable unit only for maps without such a region.
- `memory.c:171`: a new table keeps the old contents of its page, so an address
  that nobody mapped may translate; and the result of the allocator is not tested
  here and in line 189, so that with memory used up all new tables are one page past the
  end of it, and what is mapped in one is overwritten through another
  (`TableLost`). `memory.c:222`: `page_copy`, which nobody
  calls, adds the offset twice.
- `lib/bitmap.c:74`: with no page left, the walk leaves the bitmap.
- `lib/list.c:73`: an insert into an empty list leaves the tail NULL, and the
  next append loses every element but its own; `LinkedList` has it (`NoTail`,
  `lost`), and `Agree` and `IsDataList` say that nothing else is lost.
  `lib/list.c:105`: `list_search` passes the node, not the data.
- `lib/kstdlib.c:190`: the digits of a negative `%d` are printed as the
  characters a negative number makes of them; `kput_int64` takes an int, so `%Ld`
  prints the low half; an unknown conversion is passed over up to the next one
  that is known. `FormatsAsDirected` leaves out the first two by name.
  `kstrncmp` compares one character more than it is asked to, and `kstrncpy` writes
  one byte more. `lib/kstdlib.c:234`: the search for the largest
  power relies on a signed product that wraps, which C does not define; the
  build has no optimisation, where it does. `kstrtol` never advances past a digit, and
  `gets` can step back before its buffer; nobody calls either.
- `lib/elf.c:58`: two of the error codes have the values of two others.
  `lib/elf.h:6` declares the last two parameters of `read_elf` in the other
  order than `lib/elf.c:109`; `test_elf.c` does not compile against it. What
  `virt_alloc` returns is not tested, and the part of a segment beyond its bytes
  of the file is not zeroed.

## Not modelled, and the plan

Every part whose state changes over a sequence of calls or interrupts has its
module, and every safety property of those that is an invariant or a refinement
is proved. What is left is liveness, for which the proof system has no rule.

Left out because nothing calls it: `kstrtol`, `katoi`, `gets` and the tests of
characters; `chrdev_getch` and `chrdev_forname`, and the counters of the
devices, which the interrupt and the loop both increment and nothing reads;
`page_copy` with its wrappers; software interrupt 48.

Left out for good: `i386.h` (one instruction per function), the boot code and the
linker script (their constants are parameters), exceptions (their handlers stop
the machine), colours, video pages other than the first and the hardware cursor,
debug printing, the sample programs `idle.c` and `simple.c`, `multiboot.h` and
`elfstruct.h` (layouts of records) and the empty sources.

Hazards without a property are listed with their reasons in `PROJECT.json`. Some
are out of the models: the size of the interrupt stack, an allocation at start
that fails. The others are in the models and go wrong in the code whenever they
arise, so that the property that would exclude them is false; the properties
name them as exceptions: scan codes that index outside the table, the NULL that
`kfree` reads after an exact fit, the cell a backspace blanks, the last page of
a region that does not fill it, regions above 4 GB, the old contents of page
tables, the digits of negative numbers, and an allocation of `read_elf` that is
refused.
