# Verification of the concept-os kernel

concept-os is a small operating system for 32-bit PCs. What there is of it so far is a kernel that starts under a
multiboot boot loader, manages physical memory in pages, switches paging on and prints on the text screen, a heap
allocator for what will run on top of it, and the beginnings of message passing between applications. This directory
holds TLA+ models of it, the configurations that TLC checks them with, and proofs that TLAPS checks. Paths below are
relative to the repository's `source/`, unless they start with `docs/`.

## The system

| part | state | operations | interacts with |
| --- | --- | --- | --- |
| page allocator: `kernel/source/memory/memory_blocks.cpp` | the headers of the free blocks, kept in the free pages themselves and linked into two binary search trees, by size and by address; the two roots; `free_space` | `initialize`, `allocate`, `deallocate`; `allocate_next_to` is a stub | called by the start of the kernel; writes into the memory it manages |
| start of the kernel: `kernel/source/main.cpp`, `kernel/source/x86_32/globals.cpp`, `kernel/source/memory/utils.cpp` | the selected region, the page directory and page tables, CR3 | `kernel_main`, `set_global_memory`, `initialize_memory`, `initialize_paging`, `get_aligned_address` | reads the boot loader's memory map, calls the allocator and the setters of page entries |
| segment descriptors: `kernel/source/memory/x86_32/gdt.cpp` | two words per descriptor | one setter per field, `flat_global_descriptor_table::initialize` | read by the processor |
| interrupt gates: `kernel/include/interrupts/x86_32/idt.hpp` | two words per gate | one setter per field | read by the processor |
| page table and directory entries: `kernel/source/memory/x86_32/paging.cpp` | one word per entry | setters and getters | read and written by the processor |
| IPC message: `common/include/ipc/os_message.hpp` | a block of shared memory and the place of the next value | constructor, `set_value`, `get_value`, `get_value_size` | sender and receiver share the block |
| terminal: `kernel/source/terminal.cpp` | cursor, colour, the screen at 0xB8000 | `terminal_putchar`, `terminal_write`, ... | called by `kernel_main` |
| number formatting: `kernel/source/string_utils.cpp` | none; a caller's buffer of 11 characters | `int_to_string`, `int_to_hex_string`, ... | called by `kernel_main` |
| heap: `common/source/memory/malloc.c`, Doug Lea's allocator | `_gm_`: bins, trees, `dv`, `top`, segments, `footprint`; the chunks in the memory it manages; `mparams`; spaces | `malloc`, `free`, `calloc`, `realloc`, `memalign` and their kin, `malloc_trim`, `mallopt`, ..., `create_mspace` | gets memory from `sbrk`, `mmap`, `mremap` and gives it back; `kalloc` and `kfree`, meant to use it, are empty and no build file compiles it yet |
| IPC workflow, scheduler, system calls, package manager (`docs/app-arch/ipc.md`, `docs/kernel/Readme.md`) | none yet | none yet | documents only |
| text mode driver: `packages/os.text-mode-driver` | a copy of the terminal | `initialize_text_mode_driver`, which does not compile | reads an IPC message |
| library headers (`common/include`), `kalloc` and `kfree` (empty) | none in the kernel | none | not used |
| `cpu.h`, `boot.s`, `linker.ld`, `multiboot.h` | registers | single instructions | called by the start of the kernel |

What is hard about it. The kernel is single threaded, nothing is stored on a disk, and interrupts are off: there is
no interleaving of threads, no crash recovery and no lost message in this code. The difficulty lies elsewhere:

- **Long sequences of calls.** Both allocators' data structures live in the memory that they give away. A link or a
  bit left behind in one call makes a later call walk into somebody else's page or block. The page allocator's unit
  tests try a few fixed sequences; the heap has none.
- **A system that refuses.** The heap asks another party for memory, which may say no half way through an operation,
  answer with another place than the one hoped for, or have given the neighbouring memory to someone else.
- **Intermediate states.** A call changes two trees one after the other and a subtree is off its tree for a while;
  what holds in between is not what holds between calls, and the correctness of each loop rests on it.
- **Boundaries.** Exact fits, the last page, a region that is no whole number of pages, a request of no bytes, the
  top of the address space, a page table that is full.
- **Loops without a bound** whose termination rests on the shape of the trees.
- **Bit fields** scattered over words and written with masks, one setter after another.

What makes each part correct:

- *page allocator*: every page has exactly one owner at any time; both trees hold exactly the free blocks, in search
  order; free neighbours are merged; a request is refused only if no run of free pages is long enough; no step
  writes into a page that a caller owns; every call returns; `free_space` is right.
- *heap*: sizes and flags of neighbouring chunks agree, every free chunk is in the one bin of its size, no chunk is
  lost or given out twice; blocks have the room and keep the contents that were promised; the heap uses only memory
  that it was granted and not told to give up, counts it exactly, and keeps to its limit.
- *start of the kernel*: the largest region is selected; only available memory behind the kernel is managed; when
  paging is switched on the kernel is found where it was, and the tables lie in pages of their own.
- *descriptors, gates, entries*: the processor reads from each field what was last set there.
- *IPC message*: a reader finds each parameter's latest value; nothing is written outside the block; a parameter that
  is not set is null.
- *terminal, number formatting*: characters land on the screen in order; numbers fit into their buffer.

## Modules

| module | lines it stands for | role |
| --- | --- | --- |
| `MemoryBlocks` | `memory_blocks.cpp`, `memory_blocks.hpp` | the allocator, one loop iteration per step |
| `PagePool` | none | what the allocator promises its callers, the abstract specification |
| `MemoryBlocks_proof`, `MemoryBlocks_order_proof`, `MemoryBlocks_pool_proof` | none | proofs about the allocator: the trees' shape and the pages' owners; the search order; `free_space` and the refinement of `PagePool` |
| `Boot` | `main.cpp`, `globals.cpp`, `utils.cpp` | the start of the kernel, on top of `PagePool` |
| `Boot_proof` | none | proofs about the start of the kernel |
| `Words` | none | 32-bit words as sets of bits |
| `SegmentDescriptor`, `InterruptGate`, `PageEntry` | `gdt.cpp`, `idt.hpp`, `paging.cpp` | one bit-field structure each, its setters called in any order |
| `Descriptors_proof` | none | proofs about the three of them, on top of `MCDescriptors` |
| `OsMessage` | `os_message.hpp` | a message that is being filled in |
| `OsMessage_proof` | none | proofs about it |
| `Terminal` | `terminal.cpp` | the screen and its cursor |
| `StringUtils` | `string_utils.cpp` | the conversions of numbers, one loop iteration per step |
| `Console` | the printing in `main.cpp`, `terminal.cpp` | composes the two: texts and numbers are printed |
| `Console_proof` | none | proofs about it |
| `MallocSizes` | `malloc.c`, sizes and alignments, 1608-2242 and 2579-2952 | `size_t`, chunk sizes, the bin of a size |
| `MallocBins` | `malloc.c`, 2193-2419 and 3018-3801 | the memory word by word, chunk heads, small bins, tree bins, `dv` |
| `MallocState` | `malloc.c`, 2478-2740, 3108-3219, 3902-3924 | the system's calls (external), parameters, flags, segments, `top` |
| `MallocSystem` | `malloc.c`, 3832-4364 | `mmap_alloc`, `mmap_resize`, `sys_alloc`, `sys_trim`, `release_unused_segments` |
| `Malloc` | `malloc.c`, 4369-4795 | `malloc`, `free`, `dispose_chunk` |
| `MallocCalls` | `malloc.c`, 4797-5397 | `calloc`, `realloc`, `memalign`, the calls on several chunks, limits and options |
| `MallocSpaces` | `malloc.c`, 5405-5887 | `create_mspace` and the calls on spaces |
| `MallocChecks` | `malloc.c`, 3225-3563 | the allocator's own assertions and statistics |
| `HeapBlocks` | none | what a heap promises its callers, the abstract specification |
| `Heap_proof` | none | proofs about the arithmetic of `MallocSizes` and the lists of small bins in `MallocBins` |
| `Heap` | the exported functions | a program that uses the heap, one action per call, and the properties |
| `MC...` | none | values of the constants for TLC; `MCDescriptors` puts the three bit-field structures side by side |

### MemoryBlocks

A pointer is a page's number, `nullptr` is -1; sizes are in bytes, as in the code. `size`, `pred`, `left`, `right` are
the header's fields as functions of the page: `left["size"]` is `smaller_block`, `left["address"]` is `lower_block`,
and so on. The code has every function on trees twice, `_by_size` and `_by_address`, alike up to the names of the
fields and the order; here they are one action with the variable `tree` saying which of the two runs.

`pc`, `op`, `activity` and `tree` are the call stack: `op` is `allocate` or `deallocate`, `activity` is
`remove_node_from_tree` or `add_node_to_tree` while one of them runs, and `node`, `moving`, `cursor`, `hand`,
`request` are their arguments and local variables. One step is one loop iteration (`SearchOn`, `DescendLeft`,
`DescendRight`, `MergeSearchOn`) or a piece of straight-line code. Callers hold pages (`held`); they ask for any size
in `Requests` and give back any page they hold, one at a time, as `deallocate` takes no size. `LeavesCallersMemory`
needs no model of the callers' data: it says that the header fields of a held page do not change.

The comments that name the arm "block is already on the tree" of the descents say why it has no action: `CursorIsFree`
says that the arm is unreachable, and the theorem `CursorStaysOnFreeBlocks` proves it.

### PagePool

`Ask`, then `Grant` of some run of free pages or `Refuse` if there is none; `GiveBack`, then `GivenBack`. Which free
run is granted is left open. `MemoryBlocks` implements it (`PoolSpec`), with `Pages`, `held`, `result`, `op` and the
number of pages of `request` for its variables; `Boot` uses its actions for `memory.allocate`, so that what `Boot`
shows does not depend on how the allocator chooses.

### Boot

One step is an iteration of a loop or a call. `SelectEntry` is the loop over the memory map, with its bound as it is:
`i < mmap_length`, a number of bytes, and `i < 10`. Reads behind the last entry return any element of `Beyond`.
Addresses and lengths may exceed the address space, of which the code takes the lower halves (`low`). Memory is
`content`, a function from pages to the entries written in them; directory and tables are both written there, at
whatever address `allocate` returned, 0 when it refused, so that structures that share an address overwrite each
other. `Translated` is the processor's walk from CR3. Initial states are memory maps in which an available region
holds the kernel, for otherwise no boot loader could have loaded it. What `kernel_main` prints, and the loading of
the segment and interrupt registers, are left out.

### SegmentDescriptor, InterruptGate, PageEntry

A word is the set of its one bits; `&=` is an intersection and `|=` a union. `intended` records what the setters were
called with and `Decoded` (`Read`) is the processor's (the getters') view; the property is that they are equal.
A segment descriptor starts as its constructor makes it, or as zeros, because nothing in `boot.s` runs the
constructors of global objects such as `gdt`. In `PageEntry` the processor sets the accessed and dirty bits of
present entries in between.

`Values` are the words that setters are called with. In `MCDescriptors` the three structures stand side by side and one
of them moves at a time: they share no word, so the others need not move as well.

### Terminal, StringUtils, Console

Characters are their codes, and a cell of the screen is a character with a colour (`vga_entry`). `Terminal` and
`StringUtils` are actions on their own variables, and `Console` is the system: `kernel_main` writes a literal, or
converts a number in `string_buffer`, an iteration of the conversion at a time, and writes what it finds there up to
the null, a character at a time. The buffer is not initialised and is used again and again. The widths in the code
(80 by 25 cells, 8 nibbles, decimal digits that end at index 9, a buffer of 11 characters) are constants, and
`BufferAssumption` says how they hang together; 2^32 would not fit into TLC's integers. `Laid` is an abstract screen,
a ring of cells with one position in it instead of rows and columns; `TextAppearsInOrder` says that the screen is at
any time what `Laid` makes of the characters written so far. `NumeralsAreRight` evaluates the numeral that is written
and compares the sum with the number.

### OsMessage

The block is a function from byte offsets to what was written there: a header byte, or byte k of the value of the
n-th call. It extends behind `shared_mem_size`, where the code goes on writing. The offset that `set_value` takes is
the number of a parameter; callers pass numbers of parameters that exist. `MaxCalls` bounds the calls.

### The heap

`Malloc...` are operators, not actions: a C function is an operator from the heap before the call to the heap after
it, with the name of the function, and `Heap` has one action per exported function. The heap `m` is a record with the
members of `malloc_state` and `mparams`; `m.mem` is memory, a function from the addresses of words to what they hold.
Chunks, links, the records of segments and the arrays of bins are words of that memory, read and written where the
code reads and writes them: the list head of a small bin is laid over the array of bins (`smallbin_at`), the record of
an old segment lies at the end of that segment, and the state of a space lies in its own first chunk. Only words that
hold something known are in the domain of `m.mem`. Memory that was freed or comes fresh from the system is taken out
of it (`Forget`), so that a read of a word that nobody wrote is an error of the run, and no run has one. The one
exception is in the code: the head of a chunk that is about to be cut out of another (`SetPinuse`), where only the
bit that has just been set counts.

`m.ret` is the pointer that a call returns, `m.io` what the system answered, `m.out` the array of the calls that
return several blocks, `m.error` what `posix_memalign` returns, and `m.aborted` is set when a check of a pointer fails
(`RTCHECK`). `m.sys` is the system: `brk` and how far it may rise, the pages handed out by `mmap`, the bytes this heap
holds (`held`), memory lent by the caller, ranges of `brk` that belong to others. `m.env` is how the system behaves
during a call: `mmap` gives the highest place that is free (`near`), one that leaves a gap (`apart`), or nothing
(`refused`); `munmap` and `mremap` may refuse; `brk` moves, may rise but not fall (`stays`), or every `sbrk` fails,
`sbrk(0)` included (`fails`). The system's calls are modelled from how `malloc.c` uses them (`CALL_...`). `brk` may
only rise to a ceiling, and `ForeignSbrk` moves it for someone else between two calls of the heap, never during one:
the kernel is single threaded. `sbrk(0)` fails only where every `sbrk` fails, so the tests of its result behind an
`sbrk` that succeeded (lines 4167 and 4338) are always passed.

Where the code says the same thing several times it is one operator here: `dispose_chunk` and `dlfree` share
`Consolidate`, all places that cut a remainder off a chunk share `Split` or `SplitOff`, and `mspace_malloc` and
`mspace_free`, which the source calls near-clones, are `dlmalloc` and `dlfree` on another `malloc_state`. A
heap that several expressions need is the parameter of an operator of its own, which is why some operators are small.
Spaces exist only in builds with `MSPACES` set, which the models assume; all other options are at their defaults, with
`brk`, `mmap` and `mremap` present.

A program (`Programs`) says which calls are made with which sizes, what the callers hold from the start, and which
answers of the system occur. A caller writes its name into the first and the last word of its block (`Fill`), and
nothing else in the block is known afterwards, so that an allocator that trusted an old word would be caught.
`HeapIsConsistent` is the source's own `check_malloc_state`, which only debugging builds evaluate. `HeapBlocks` is the
callers' view: slots with extents; a call gives, takes back, or resizes one, and none overlaps another.

`SIZE_T_SIZE` is 4, as on the kernel's processor. The other constants are scaled down together: arithmetic wraps
around at 2^16, chunks are large from 64 bytes on (256 in the code), there are 8 small bins and 8 trees (32 each), a
page and a unit of `granularity` have 256 bytes, a chunk from 600 bytes on is a region of its own, and `top` is trimmed
from 700 on. Every comparison and shift is written with these constants where the code has its own.

## What TLC checks

| run | module | checks | instance |
| --- | --- | --- | --- |
| `allocator` | MCMemoryBlocks | `TypeOK`, `PagesHaveOneOwner`, `TreesWellFormed`, `SearchOrder`, `Coalesced`, `FreeSpaceExact`, `CursorIsFree`, `CallersMemoryUntouched`, `CallReturns`, `PoolSpec`; `IInv` of the proofs | 8 pages; requests of a byte, a page and a byte, three pages |
| `region_with_a_remainder` | MCMemoryBlocks | `AllocatedWithinRegion`, violated | 3 pages and 100 bytes |
| `boot` | MCBoot | `TypeOK`, `Inv` of the proofs, `SelectedIsLargest`, `ManagedMemoryIsAvailable`, `KernelStaysMapped`, `TablesHavePagesOfTheirOwn`, `BootEnds` | 16 pages, tables of 4 entries, 31 memory maps |
| `boot_with_a_hole` | MCBoot | `ManagedMemoryIsAvailable`, violated | a hole between the kernel's and the largest region |
| `descriptors` | MCDescriptors | `SegmentReadsWhatWasSet`, `GateHoldsWhatWasSet`, `GettersReturnWhatWasSet` | four words; every setter but `clear_granularity_flag` |
| `segment_descriptor_clear` | MCSegmentDescriptor | `ProcessorReadsWhatWasSet`, violated | every setter |
| `console` | MCConsole | `TypeOK`, `TextAppearsInOrder`, `NumeralsAreRight`, `PrintsEnd` | 3 rows of 2 cells, numbers of 8 bits, 3 calls |
| `message` | MCOsMessage | `TypeOK`, `ValuesSurvive`, `Inv` of the proofs | 2 parameters, 4 calls, sizes 0, 1, 3 |
| `message_overflow` | MCOsMessage | `StaysInBlock`, violated | a block of 26 bytes |
| `heap` | MCHeap | `HeapIsConsistent`, `BlocksStayIntact`, `PromisesAreKept`, `NothingLeaks`, `MallocTakesWhatFits`, `ImplementsHeapBlocks` | 7 programs on memory from `brk` |
| `heap_system` | MCHeap | `HeapIsConsistent`, `BlocksStayIntact`, `PromisesAreKept`, `RegionsAreGranted`, `FootprintIsExact`, `LimitIsEnforced` | 9 programs on systems that refuse, move and share |
| `footprint_limit_zero` | MCHeap | `LimitIsEnforced`, violated | a limit of 0 bytes |

Why the bounds are enough. *Allocator*: with eight pages there are up to four free blocks kept apart by held pages,
so that the trees take every shape of up to four nodes; a removed block may have no child, one, or two, be the root or
not, and the subtree that is added back has more than one block; blocks have equal and different sizes; and a page
that is given back may have a neighbour on either side, on both or on none. The theorems have no bound at all.
*Boot*: the kernel ends in page 5 and needs six pages mapped, so that one table is full and one is not; main memory
ends anywhere from page 5 to the top of the address space, so that there is no free page, too few for the tables, just
enough, or more, and the last end wraps around to address 0. The ten iterations of the code are all taken. Main memory
ends at a page boundary: `region_with_a_remainder` shows what happens otherwise. *Bit fields*: words with no bit, every
bit, and every second and third bit show a bit that is moved wrongly or left behind. *Console*: three numbers of up to
four characters go around a screen of six cells twice, a literal fills a row before its newline, and the numbers are
the first and the last of each length, so that shorter ones follow longer ones in the buffer; `MaxCalls` bounds the
calls. *Message*: four calls set each of
two parameters twice, with values that grow and shrink.
*Heap*: each program is small and aims at one part. `Small` frees and takes chunks of four sizes between chunks that
stay, so that small bins get several chunks, exact and next-larger bins serve, and `dv` is replaced. `Large` does so
with six sizes that share trees: nodes with none, one and two children are taken out, chunks of equal size form rings,
and a larger bin serves. `Resizing` meets `top`, `dv`, a free and a used chunk behind the block. `Aligning` and
`OnPages` give back leaders and trailers, with alignments that are no powers of two among them, and meet both reasons
for `posix_memalign` to fail; `Several` cuts up chunks and frees rows of neighbours in any order; `Arrays` has a
product that wraps around. `Growing` and `Crowded` exhaust `brk` and go on with mapped segments, next to the old ones
or apart, that are trimmed, released and refused; `Immovable` has a system that takes no part of `brk` back, or fails
every `sbrk` of a call, with or without `mmap`; `Mapped` has no `brk` at all; `Sharing` has another user of `brk`, at
aligned and at odd addresses; `Tuning` changes the options, refused values among them; `Mapping` resizes and aligns
regions of their own; `Limited` sets limits below, above and without bound; `Spaces` runs on spaces of the system's
and of the caller's memory, too small ones among them. `most` bounds the blocks that are held at once, `most_sbrks`
the foreign calls; a destroyed space ends its program. Blocks of the same history are the same up to their slots
(`Symmetry`).

Fairness. `MemoryBlocks` assumes that a call that has begun takes its steps (`WF_vars(Step)`), `Boot` that the
processor goes on (`WF_vars(Next)`), `Console` that what has begun to be printed goes on
(`WF_vars(Printing)`): the kernel is single threaded and takes no interrupts. Callers need not call.
`CHECK_DEADLOCK FALSE` stands where a system may stop: the kernel ends in `hlt`, a message is complete, and
`MaxCalls` is reached.

## What the code does differently from what is written

- A region that is no whole number of pages: `allocate` hands out a last page that reaches past its end
  (`region_with_a_remainder`).
- `initialize_memory` manages everything between the kernel and the end of the largest region, holes included
  (`boot_with_a_hole`).
- `clear_granularity_flag` clears nearly all of a descriptor's upper word (`segment_descriptor_clear`).
- `set_value` never looks at the size of the block (`message_overflow`).
- `malloc_set_footprint_limit(0)`, which should set the smallest limit, sets none (`footprint_limit_zero`).

Found while reading and not kept as runs:

- `allocate(0)` returns the address of a block that stays free.
- `kernel_main` takes the map's length in bytes for a number of entries and reads behind a short map.
- `get_value` returns the header's address for a parameter that is null.
- `realloc` of a region of its own (`mmap_resize`) takes no notice of the footprint limit; with `realloc` among the
  calls of `Limited`, `LimitIsEnforced` is violated.
- A limit set before the first allocation is rounded with a `granularity` of 0 and becomes no limit. The programs set
  limits after their first call.
- `pvalloc` of nearly the whole address space rounds the request to 0, `independent_calloc` multiplies unchecked, and
  `memalign` does not return for an alignment that is above half the address space and no power of two.
- `mallinfo` counts the records and fenceposts of older segments as mapped regions (`hblkhd`), and the assertion that
  mapped chunks exist only while `use_mmap` is set fails once `mspace_track_large_chunks` has been called between;
  `HeapIsConsistent` asks for it only while the flag is set.

## What is proved

TLAPS proves the following for every value of the constants that the modules' assumptions allow (`MemoryAssumption`,
`BootAssumption`, `MessageAssumption`, `ConsoleAssumption`, `BufferAssumption`, `SizesAssumption`); what a theorem
assumes beyond that is in the third column, and below it is said why.

| module | theorems | beyond the modules' assumptions | property |
| --- | --- | --- | --- |
| `MemoryBlocks_proof` | `InvHolds`, `TypeCorrect`, `OneOwnerPerPage`, `TreesStayWellFormed`, `CursorStaysOnFreeBlocks`, `CallersMemoryStaysUntouched` | | `Inv`, `TypeOK`, `PagesHaveOneOwner`, `TreesWellFormed`, `CursorIsFree`, `CallersMemoryUntouched` |
| `MemoryBlocks_order_proof` | `OrderHolds`, `TreesKeepSearchOrder`, `FreeBlocksStayApart` | | `OrderInv`, `SearchOrder`, `Coalesced` |
| | `CallsRunDown` | | the bound behind `CallReturns` |
| `MemoryBlocks_pool_proof` | `PoolHolds`, `FreeSpaceStaysExact` | `RegionSize % 4096 = 0` | `IInv`, `FreeSpaceExact` |
| | `KeepsPromise` | and `0 \notin Requests` | the safety part of `PoolSpec` |
| `Boot_proof` | `TypeCorrect`, `InvHolds`, `KernelAlwaysStaysMapped` | | `TypeOK`, `Inv`, `KernelStaysMapped` |
| | `StartRunsDown` | | the bound behind `BootEnds` |
| | `LargestIsSelected` | `MapsFit` | `SelectedIsLargest` |
| | `ManagedMemoryStaysAvailable`, `TablesKeepPagesOfTheirOwn` | `MapsFit`, `KernelInLargestRegion` | `ManagedMemoryIsAvailable`, `TablesHavePagesOfTheirOwn` |
| `Descriptors_proof` | `InvHolds`, `SegmentsReadWhatWasSet`, `GatesHoldWhatWasSet`, `EntriesReturnWhatWasSet` | | `SegmentReadsWhatWasSet`, `GateHoldsWhatWasSet`, `GettersReturnWhatWasSet` |
| `OsMessage_proof` | `InvHolds`, `TypeCorrect`, `ValuesAlwaysSurvive`, `StaysWhileItFits` | | `Inv`, `TypeOK`, `ValuesSurvive`, `StaysInBlockWhileItFits` |
| `Console_proof` | `TextKeepsGrowing`, `TextInOrder` | | `TextAppearsInOrder` and its step |
| | `TypeCorrect`, `NumeralsRight` | `KernelSizes` | `TypeOK`, `NumeralsAreRight` |
| | `PrintingRunsDown` | `KernelSizes` | the bound behind `PrintsEnd` |
| `Heap_proof` | `RequestsGetRoom`, `SmallRequestsGetSmallChunks`, `SmallBinsAreExact` | `WordSizes` | |
| | `ChunksBeginAligned` | | |
| | `TreeBinsDivideSizes` | `KernelBins` | |
| | `SmallBinsTakeChunks`, `SmallBinsGiveChunks`, `SmallBinsGiveTheFirst` | `SmallBins` of the heap before the call | |

### The page allocator

The theorems of the first two modules hold also for regions that are no whole number of pages and requests of no
bytes. None of the properties is inductive. `PagesHaveOneOwner` alone does not say that the block whose pages are
granted is the one that was removed; `TreesWellFormed` speaks of the moments between calls only. `Inv` says for every
place in a call which blocks each tree holds there (`Linked`: the free blocks without the one that is on its way in,
`Entering`, and without the one that is already out, `Removed`), that the links of these blocks form a tree, plus a
second one while a right subtree is being added back (`Forests`, `Loose`), that blocks and held pages cover the region
without overlap (`Ownership`), that a block which is not in a tree yet has no children there (`Fresh`), and where the
loops stand (`Standing`).

The heart of it is `Forest`, a predicate on any links, and two lemmas that know nothing of the allocator: `ForestAdd`,
linking a block to a free place leaves one tree, and `ForestRemove`, unlinking a block leaves a tree and at most one
loose subtree. Absence of cycles is stated with sets (every nonempty set of blocks has one whose predecessor is
outside it), which makes both lemmas first-order. The step that needs care is the descent: the block is hooked in
below the cursor, which makes no cycle only if the block is not above the cursor; `Standing` therefore keeps a set of
blocks closed under predecessors that has the cursor and not the block (`Above`).

`OrderInv` adds the order. What is below a block is the least set of blocks that is closed under children (`Below`),
again stated with sets instead of recursion; `Subtree`, which `SearchOrder` is stated with, is such a set too, and
needs no recursion. The part that could go wrong is the right subtree of a removed block, which is added back by the
place of its top alone: `Placed` says of the block in motion *and of all that is below it* on which side of every
block above the cursor it belongs. `Exact` says that a block is a number of whole pages, unless it ends the
region. `NeighboursAhead` is what a reviewer of `deallocate` has to convince himself of: the loop
walks one path of the tree by address, and the neighbours that are still to be merged lie below the
cursor; `FitAhead` says the same of the search of `allocate` for a block that is large enough. From
`Apart`, no two free blocks touch (but the one in hand), follows `Coalesced`, from `Ordered` `SearchOrder`.

`PoolInv` adds that sizes are whole pages (`Whole`), that `free_space` is right at every step and not only between
calls (`Counted`, which counts what a call has taken from a tree and not yet put back), and the protocol of the
call (`Answering`). `KeepsPromise` is the step of the refinement: every step of the allocator is a step of `PagePool`
or a stutter. `Refuse` is the interesting one: with `FitAhead` no free block is large enough, and with `Coalesced` every
run of free pages lies in one free block. Both hypotheses are needed: for a region with a remainder,
`region_with_a_remainder` is the counterexample (the callers of `initialize` in `globals.cpp` do not round), and
`allocate(0)` returns a block that stays free, which is no grant of `PagePool`.

`CallsRunDown` gives every call a bound on its steps, with no hypothesis: `Remaining`, at most `12 * Width * Width`
for a region of `Width - 1` pages, is 0 exactly between calls and every step of a call lowers it. It counts, in this
order: the searches for neighbours that `deallocate` may still start, each of which has to merge two free blocks
first; the phase of the call (search, merge, and for each of the two trees removing and adding); and the blocks that
are still below the cursor (`Below` again: each step of a descent goes to a proper subset). So the loops of
`add_node_to_tree` and of the searches end because the trees are trees, and the restart in `deallocate` because each
one costs a free block.

### The start of the kernel

`Inv` of `Boot_proof` is `TypeOK`, the places of the loops (`Progress`: while table `i` is filled, `current_page` is
between `Slots * i` and `Slots * (i + 1)`, which is what makes `TableFull` right), and `Built`: if the allocator has
pages for the directory and all tables (`Enough`), then `TreeOf` the filled part holds at every step, that is, the
directory and the tables are pages of their own, exactly the granted ones, the first `current_page` pages are mapped
to themselves and all other entries are not present. `KernelAlwaysStaysMapped` needs no hypothesis about the memory
map. `LargestIsSelected` needs `MapsFit`: at most ten entries, none of them beyond the address space, and nothing that
looks available behind the map, because the loop stops at ten entries, ignores the upper halves of addresses, and
reads behind a short map (see above). The other two also need `KernelInLargestRegion`, the hypothesis that
`boot_with_a_hole` violates. `MCBoot` states both as `ASSUME`s about the maps of the run `boot`, so that TLC confirms
that they can be met. `StartRunsDown` needs neither: from every map the start takes at most `AllTables + 20` steps,
ten of them in the loop over the map, a few for each table, and one for each page that is mapped (`Remaining`).

### Segment descriptors, gates, page entries

The invariant is written bit by bit: for every bit of every word, which bit of which field it stands for
(`SegmentBits`, `GateBits`, `EntryBits`). Each setter is shown to change the bits of its own field and to keep the
others, for all words it can be called with; then the processor's view, which is put together by shifts and masks, is
shown to be what was set. The steps are those of `MCDescriptors`, with the setters of all three structures, every
argument, and without `clear_granularity_flag`.

### IPC messages

`Placed` strengthens `ValuesSurvive`: the values that can be read lie between the header and `end_of_params`, and
nothing is written beyond. A value that is set again goes behind all others, so that no older value is overwritten,
whatever the number of parameters, the sizes and the number of calls. `StaysWhileItFits` is the positive half of
`message_overflow`: as long as `end_of_params` is at most `shared_mem_size`, everything is written inside the block.

### The terminal and the conversions

`TextKeepsGrowing` proves that every step of the writing lays the next character behind the previous ones on the ring
of cells, newlines and the last cell of the screen included, and touches no other cell, for every width and height and
every text. `TextInOrder` is what this comes to after any number of characters: the screen is what `Laid` makes of all
of them. A function over the length of the text, `laid`, gives the screens after each character; the invariant says of
*every* list of screens that starts as `laid` does and follows its equation that it leads to the screen as it is,
which a step keeps without induction over the text, and `laid` is one such list. `NumeralsRight` says that the
characters of a numeral are the digits of the number. While digits are stored, the quotient of the number behind each
digit relates the digits so far to what is left of it; as there are ten digits at most, the sum that evaluates the
numeral can be written out. `PrintingRunsDown` bounds the steps of what is being printed: the digits to store, to move
or to convert, then the characters to write. `TypeCorrect` says that no conversion leaves its buffer; its
strengthening `Room` knows that a number with `k` digits left is less than the `k`-th power of ten, that moved digits
stay behind the place they are moved to, and that a null ends each numeral that is written. `KernelSizes` gives the
constants the values they have in the code (8 nibbles, 10 digits), because the provers know powers of numbers only.

### The heap

`RequestsGetRoom` says of every request below `MAX_REQUEST` that its chunk has an aligned size with room for it and
that no sum wraps around; `SmallRequestsGetSmallChunks` that `malloc`, which decides by the request, and `free`,
which decides by the chunk, agree on what is small; `SmallBinsAreExact` that a small bin has chunks of one size;
`TreeBinsDivideSizes` that the bins of the trees partition the large sizes, with `compute_tree_index` and
`minsize_for_tree_index` in agreement; `ChunksBeginAligned` that `align_as_chunk` gives the first possible place of a
chunk. `WordSizes` says of the two powers of two that they are multiples of the alignment and far enough apart; two
lemmas show it of the kernel's processor and of the instances that TLC checks. `KernelBins` are the values of the
kernel's processor. Nothing is proved of `HeapBlocks`: its initial condition and its steps demand of themselves that
extents stay apart. What is worth knowing is that the heap keeps to it, which is `ImplementsHeapBlocks`, and TLC's.

The last three theorems are about memory. `SmallBins(m, binned)` says that in the heap `m` the list of each small bin
leads through exactly the chunks that `binned` gives it: `fd` from the head through all of them and back to the
head, `bk` the other way (`IsRing`; that a ring has no node beside it is said with sets that are closed under `fd`,
again without recursion), and that `smallmap` has the bins with chunks, and only these: the pointers of an emptied bin
are left as they were. `insert_small_chunk`, `unlink_small_chunk` and `unlink_first_small_chunk` keep that, with
one chunk more or less, for every number of bins, chunks and addresses; none of the code's checks of pointers
(`RTCHECK`) fails; and of the words of memory only links of the list in question change (`OnlyLinks`), so that every
other bin keeps its list. `RingGrows`, `RingShrinks` and `RingOfOne` are the lemmas about
rings behind it: the last one is why `B == F` recognises the last chunk of a bin. An empty heap has `SmallBins`
(`EmptyBins`). That the callers put exactly the free chunks into the lists is TLC's part: `HeapIsConsistent` follows
every list as the source's own check does.

### Checked by TLC only

- `CallReturns`, `BootEnds`, `PrintsEnd` and the fairness of `PoolSpec`: liveness under fairness is out of the
  prover's reach. The bounds are proved (`CallsRunDown`, `StartRunsDown`, `PrintingRunsDown`): what remains for TLC is
  that a step is possible until nothing is left, and the fairness that makes it happen.
- The invariants and action properties of `Heap`: they walk lists and trees of any length in memory, with recursive
  functions, each action is a composition of dozens of operators, and calls on several chunks are folds over them.
  `MallocTakesWhatFits` and the trees of large chunks are part of that.

## Plan

1. `MemoryBlocks`, `PagePool`, and the proofs about them: done.
2. `Boot`, the bit fields, `OsMessage`, `Terminal` and `StringUtils` in `Console`, and the proofs about them: done.
3. The heap: `MallocSizes` to `MallocSpaces`, `HeapBlocks`, `Heap`: modelled and checked.
4. Proofs about the heap: its arithmetic and the lists of small bins are done. Next: what the other
   operators of `MallocBins` do to the memory (heads and feet of chunks, the rings and trees of large ones), and that
   `footprint` grows only within the limit (`LimitIsEnforced`).

## Not modelled

The IPC workflow, the scheduler, system calls and the package manager exist only as documents. The text mode driver
copies the terminal and does not compile, as the receiver's constructor of `os_message` and most library headers do
not. `kalloc`, `kfree` and `allocate_next_to` do nothing. Of `malloc.c`, which is third-party code that no build
file compiles yet, the functions `mspace_calloc`, `mspace_realloc`, `mspace_memalign` and so on are left out, as
copies of the calls on the global heap; `malloc_inspect_all`, locks, footers, `PROCEED_ON_ERROR`, `INSECURE` and the
Windows variants are options that are off as the file stands, and the exported functions that only read a field are
left out too. `cpu.h`, `boot.s` and the linker script are single instructions and addresses; the values they provide
are constants of `Boot`. The functions of `os_message` that take a name all mean parameter 0. `count_digits` is pure
and nothing calls it; `string_utils.h` asks for a buffer of 67 characters for hexadecimal numerals, of which the
code writes 11, the size that `kernel_main` has.
