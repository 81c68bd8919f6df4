--------------------------------- MODULE Boot ---------------------------------
(***************************************************************************)
(* How the kernel starts: kernel_main (source/kernel/source/main.cpp)      *)
(* selects a region of memory from the boot loader's memory map, gives it  *)
(* to the page allocator, and initialize_paging (x86_32/globals.cpp)       *)
(* builds the page directory and the page tables under which the kernel    *)
(* then runs.  The allocator appears as what it promises, PagePool.        *)
(*                                                                         *)
(* Memory is a function from page numbers to what is written in the page,  *)
(* so that two structures at one address overwrite each other.  The size   *)
(* of the address space, of a page and of a page table are parameters.     *)
(***************************************************************************)
EXTENDS Integers, Sequences, FiniteSets

CONSTANTS
  AddressSpace,   \* 2^32 bytes
  PageSize,       \* 4096 bytes
  Slots,          \* 1024, the entries of a page directory or a page table
  KernelStart,    \* where the linker script puts the kernel
  EndOfKernel,    \* &end_of_kernel_variable, the last word of the kernel
  MemoryMaps,     \* the memory maps that boot loaders give, sequences of entries
  Beyond          \* the entries that may be read behind the end of a map

(* An entry of a memory map: where a region starts, how long it is, and     *)
(* whether it may be used.                                                 *)
MapEntry == [addr : Nat, len : Nat, available : BOOLEAN]

ASSUME BootAssumption ==
  /\ {PageSize, Slots} \subseteq Nat \ {0}
  /\ AddressSpace \in Nat \ {0} /\ AddressSpace % PageSize = 0
  /\ AddressSpace <= Slots * Slots * PageSize
  /\ KernelStart \in Nat /\ EndOfKernel \in Nat
  /\ KernelStart < EndOfKernel /\ EndOfKernel + PageSize < AddressSpace
  /\ MemoryMaps \subseteq Seq(MapEntry) /\ Beyond \subseteq MapEntry

(* What the processor can address in pages, and where a null pointer points. *)
Frames == 0 .. (AddressSpace \div PageSize - 1)

nullptr == 0

Slot == 0 .. (Slots - 1)

(* An entry of a page directory or a page table. *)
Entry == [address : Frames, present : BOOLEAN]

VARIABLES
  pc,                     \* where kernel_main is
  memory_map,             \* the boot loader's memory map
  i,                      \* the counter of the running outer loop
  global_mem_start,       \* the selected region
  global_mem_size,
  kernel_page_directory,
  table,                  \* the page table that is being filled
  current_page,           \* the next page of the kernel to be mapped
  content,                \* the entries that are written in the pages
  cr3,                    \* the processor's page directory
  pages, held, result, call, length     \* the page allocator: see PagePool

selection == <<memory_map, global_mem_start, global_mem_size>>
paging == <<kernel_page_directory, table, current_page, content, cr3>>
allocator == <<pages, held, result, call, length>>
vars == <<pc, i, selection, paging, allocator>>

memory == INSTANCE PagePool WITH Lengths <- {1}

TypeOK ==
  /\ pc \in {"start", "select", "memory", "directory", "place_directory",
             "tables", "place_table", "map", "running", "halted"}
  /\ memory_map \in MemoryMaps
  /\ i \in 0 .. 10 \cup Slot \cup {Slots}
  /\ global_mem_start \in 0 .. (AddressSpace - 1)
  /\ global_mem_size \in 0 .. (AddressSpace - 1)
  /\ kernel_page_directory \in Frames
  /\ table \in Frames
  /\ current_page \in Frames
  /\ content \in [Frames -> [Slot -> Entry]]
  /\ cr3 \in Frames
  /\ pages \in SUBSET Frames
  /\ held \in SUBSET pages
  /\ result \in Frames
  /\ call \in {"none", "allocate"}
  /\ length \in {0, 1}

-----------------------------------------------------------------------------
(* The kernel is loaded into memory that the map calls available. *)
Contains(entry, first, last) ==
  entry.addr <= first /\ last <= entry.addr + entry.len

HoldsTheKernel(map) ==
  \E k \in 1 .. Len(map) :
    map[k].available /\ Contains(map[k], KernelStart, EndOfKernel)

(* What is in memory before the kernel writes there; it is never read. *)
Zeroed == [s \in Slot |-> [address |-> 0, present |-> FALSE]]

Init ==
  /\ pc = "start"
  /\ memory_map \in {map \in MemoryMaps : HoldsTheKernel(map)}
  /\ i = 0
  /\ global_mem_start = 0
  /\ global_mem_size = 0
  /\ kernel_page_directory = nullptr
  /\ table = nullptr
  /\ current_page = 0
  /\ content = [f \in Frames |-> Zeroed]
  /\ cr3 = 0
  /\ pages = {}
  /\ held = {}
  /\ result = nullptr
  /\ call = "none"
  /\ length = 0

-----------------------------------------------------------------------------
(* kernel_main. *)

KernelMain ==
  /\ pc = "start"
  /\ \E valid \in BOOLEAN : pc' = IF valid THEN "select" ELSE "halted"
  /\ UNCHANGED <<i, selection, paging, allocator>>

(* The map's length is in bytes, of which an entry takes 24. *)
mmap_length == 24 * Len(memory_map)

(* The upper halves of addresses and lengths are left aside. *)
low(x) == x % AddressSpace

set_global_memory_last(entry) ==
  /\ global_mem_start' = low(entry.addr)
  /\ global_mem_size' = low(entry.len)

(* set_global_memory *)
set_global_memory(entry) ==
  IF global_mem_size < low(entry.len)
  THEN /\ global_mem_start' = low(entry.addr)
       /\ global_mem_size' = low(entry.len)
  ELSE UNCHANGED <<global_mem_start, global_mem_size>>

ReadOnUnlimited == i < mmap_length

ReadOn == i < mmap_length /\ i < 10

SelectEntry ==
  /\ pc = "select"
  /\ ReadOn
  /\ \E entry \in IF i < Len(memory_map) THEN {memory_map[i + 1]} ELSE Beyond :
       IF entry.available
       THEN set_global_memory(entry)
       ELSE UNCHANGED <<global_mem_start, global_mem_size>>
  /\ i' = i + 1
  /\ UNCHANGED <<pc, memory_map, paging, allocator>>

Selected ==
  /\ pc = "select"
  /\ ~ReadOn
  /\ pc' = "memory"
  /\ i' = 0
  /\ UNCHANGED <<selection, paging, allocator>>

-----------------------------------------------------------------------------
(* initialize_memory, after initialize_segmentation. *)

get_aligned_address_down(address) == address - (address % PageSize)

get_aligned_address(address) ==
  low(address + (PageSize - (address % PageSize)))

memory_start == get_aligned_address(EndOfKernel)

memory_end == low(global_mem_start + global_mem_size)

available_memory_size == low(memory_end - memory_start)

number_of_blocks(bytes) ==
  bytes \div PageSize + (IF bytes % PageSize > 0 THEN 1 ELSE 0)

(* memory.initialize(memory_start, available_memory_size) *)
InitializeMemory ==
  /\ pc = "memory"
  /\ pages' = {low(memory_start + k * PageSize) \div PageSize :
                 k \in 0 .. (number_of_blocks(available_memory_size) - 1)}
  /\ pc' = "directory"
  /\ UNCHANGED <<i, selection, paging, held, result, call, length>>

-----------------------------------------------------------------------------
(* initialize_paging.  sizeof(page_directory) and sizeof(page_table) are    *)
(* one page.  What allocate() returns is not looked at: a refusal puts the *)
(* directory or the table at address 0.                                    *)

(* The allocator answers. *)
MemoryAnswers ==
  /\ memory!Grant \/ memory!Refuse
  /\ UNCHANGED <<pc, i, selection, paging>>

AskForDirectory ==
  /\ pc = "directory"
  /\ memory!Ask(1)
  /\ pc' = "place_directory"
  /\ UNCHANGED <<i, selection, paging>>

PlaceDirectory ==
  /\ pc = "place_directory"
  /\ call = "none"
  /\ kernel_page_directory' = result
  /\ content' = [content EXCEPT ![result] = Zeroed]
  /\ pc' = "tables"
  /\ UNCHANGED <<i, selection, table, current_page, cr3, allocator>>

pages_needed == number_of_blocks(get_aligned_address(EndOfKernel))

page_tables_needed ==
  pages_needed \div Slots + (IF pages_needed % Slots > 0 THEN 1 ELSE 0)

AskForTableNever ==
  /\ pc = "tables"
  /\ i < page_tables_needed
  /\ pc' = "place_table"
  /\ UNCHANGED <<i, selection, paging, allocator>>

AskForTable ==
  /\ pc = "tables"
  /\ i < page_tables_needed
  /\ memory!Ask(1)
  /\ pc' = "place_table"
  /\ UNCHANGED <<i, selection, paging>>

(* The new table is cleared, and the directory's entry refers to it. *)
PlaceTable ==
  /\ pc = "place_table"
  /\ call = "none"
  /\ content' = [[content EXCEPT ![result] = Zeroed]
                   EXCEPT ![kernel_page_directory][i] =
                            [address |-> result, present |-> TRUE]]
  /\ table' = result
  /\ pc' = "map"
  /\ UNCHANGED <<i, selection, kernel_page_directory, current_page, cr3,
                 allocator>>

(* The loop over j, which fills table i; j is current_page % Slots. *)
TableFullLate == current_page \div Slots > i + 1

TableFull == current_page \div Slots > i

MapPage ==
  /\ pc = "map"
  /\ ~TableFull
  /\ current_page < pages_needed
  /\ content' = [content EXCEPT ![table][current_page % Slots] =
                   [address |-> current_page, present |-> TRUE]]
  /\ current_page' = current_page + 1
  /\ UNCHANGED <<pc, i, selection, kernel_page_directory, table, cr3, allocator>>

NextTableUncounted ==
  /\ pc = "map"
  /\ TableFull \/ current_page = pages_needed
  /\ pc' = "tables"
  /\ UNCHANGED <<i, selection, paging, allocator>>

NextTable ==
  /\ pc = "map"
  /\ TableFull \/ current_page = pages_needed
  /\ i' = i + 1
  /\ pc' = "tables"
  /\ UNCHANGED <<selection, paging, allocator>>

(* set_page_directory and enable_paging. *)
EnablePaging ==
  /\ pc = "tables"
  /\ i = page_tables_needed
  /\ cr3' = kernel_page_directory
  /\ pc' = "running"
  /\ UNCHANGED <<i, selection, kernel_page_directory, table, current_page,
                 content, allocator>>

Next ==
  \/ KernelMain
  \/ SelectEntry
  \/ Selected
  \/ InitializeMemory
  \/ MemoryAnswers
  \/ AskForDirectory
  \/ PlaceDirectory
  \/ AskForTable
  \/ PlaceTable
  \/ MapPage
  \/ NextTable
  \/ EnablePaging

(* Nothing interrupts the processor while it starts. *)
Spec == Init /\ [][Next]_vars /\ WF_vars(Next)

-----------------------------------------------------------------------------
(* Properties. *)

AvailableRegions ==
  {memory_map[k] : k \in {k \in 1 .. Len(memory_map) : memory_map[k].available}}

(* Once the loop over the memory map is through, the selected region is one *)
(* that the boot loader lists as available, and none of those is larger.   *)
SelectedIsLargest ==
  pc \notin {"start", "select", "halted"} =>
    \E region \in AvailableRegions :
      /\ region.addr = global_mem_start
      /\ region.len = global_mem_size
      /\ \A other \in AvailableRegions : other.len <= region.len

(* Every page that the allocator manages is memory, by the boot loader's   *)
(* account, and lies behind the kernel: although the allocator's region     *)
(* starts where the kernel ends and not where the selected region starts.   *)
ManagedMemoryIsAvailable ==
  \A p \in pages :
    /\ \E region \in AvailableRegions :
         Contains(region, p * PageSize, (p + 1) * PageSize)
    /\ p * PageSize >= EndOfKernel

unmapped == -1

(* The page that the processor finds for page p. *)
Translated(p) ==
  LET directory_entry == content[cr3][p \div Slots]
      table_entry == content[directory_entry.address][p % Slots]
  IN  IF directory_entry.present /\ table_entry.present
      THEN table_entry.address
      ELSE unmapped

(* The kernel runs, and none of its requests had to be refused. *)
RunsWithEnoughMemory ==
  pc = "running" /\ Cardinality(pages) >= 1 + page_tables_needed

(* When paging is switched on, the processor finds every page up to the end *)
(* of the kernel, its stack and the screen among them, where it was before, *)
(* and nothing else: the tables were filled with the right pages in the     *)
(* right slots, the last one as far as the kernel goes, and no table was    *)
(* built on top of another one.                                            *)
KernelStaysMapped ==
  RunsWithEnoughMemory =>
    \A p \in Frames : Translated(p) = IF p < pages_needed THEN p ELSE unmapped

Tables ==
  {content[kernel_page_directory][t].address : t \in 0 .. (page_tables_needed - 1)}

(* The directory and its tables are pages of their own, outside the kernel, *)
(* and the only ones the allocator has granted: none is lost, none will be  *)
(* granted again to somebody else.                                         *)
TablesHavePagesOfTheirOwn ==
  RunsWithEnoughMemory =>
    /\ held = Tables \cup {kernel_page_directory}
    /\ Cardinality(held) = 1 + page_tables_needed
    /\ \A p \in held : p * PageSize >= EndOfKernel

(* The kernel gets through: it runs in the end, or has found that no boot  *)
(* loader called it.                                                       *)
BootEnds == <>(pc \in {"running", "halted"})

=============================================================================
