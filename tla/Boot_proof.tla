------------------------------ MODULE Boot_proof ------------------------------
(***************************************************************************)
(* What holds of the start of the kernel for every size of the address     *)
(* space, of pages and of tables, every kernel and every memory map, and   *)
(* why it comes to an end.                                                 *)
(***************************************************************************)
EXTENDS Boot, FiniteSetTheorems, TLAPS

-----------------------------------------------------------------------------
(* Facts about divisions. *)

LEMMA Division ==
  ASSUME NEW n \in Int, NEW d \in Nat \ {0}
  PROVE  \E q \in Int, r \in 0 .. (d - 1) :
           n \div d = q /\ n % d = r /\ n = d * q + r
OBVIOUS

LEMMA DivisionIs ==
  ASSUME NEW d \in Nat \ {0}, NEW q \in Int, NEW r \in 0 .. (d - 1)
  PROVE  (d * q + r) \div d = q /\ (d * q + r) % d = r
OBVIOUS

(* Multiples are ordered as what they are multiples of. *)
LEMMA Multiples ==
  ASSUME NEW d \in Nat \ {0}, NEW a \in Int, NEW b \in Int
  PROVE  /\ d * a \in Int
         /\ d * (a + 1) = d * a + d
         /\ d * (a - 1) = d * a - d
         /\ a < b <=> d * a < d * b
         /\ a < b => d * a + d <= d * b
<1>1. d * (a + 1) = d * a + d /\ d * (a - 1) = d * a - d
  OBVIOUS
<1>2. ASSUME NEW m \in Int, NEW n \in Int, m < n PROVE d * m + d <= d * n
  <2>1. PICK k \in Nat : n = m + 1 + k
    <3>1. n - m - 1 \in Nat /\ n = m + 1 + (n - m - 1)
      BY <1>2
    <3> QED BY <3>1
  <2>2. d * n = d * m + d + d * k
    BY <2>1
  <2>3. d * k >= 0
    OBVIOUS
  <2> QED BY <2>2, <2>3
<1>3. a < b => d * a + d <= d * b
  BY <1>2
<1>4. b < a => d * b + d <= d * a
  BY <1>2
<1>5. d * a \in Int /\ d * b \in Int
  OBVIOUS
<1>6. a = b => d * a = d * b
  OBVIOUS
<1> HIDE <1>2
<1> QED BY <1>1, <1>3, <1>4, <1>5, <1>6

(* The parameters. *)
LEMMA Parameters ==
  /\ PageSize \in Nat \ {0} /\ Slots \in Nat \ {0} /\ AddressSpace \in Nat \ {0}
  /\ EndOfKernel \in Nat /\ EndOfKernel + PageSize < AddressSpace
BY BootAssumption

(* What is smaller than the address space fits into 32 bits. *)
LEMMA LowIs == ASSUME NEW x \in 0 .. (AddressSpace - 1) PROVE low(x) = x
<1>1. AddressSpace * 0 + x = x
  BY Parameters
<1>2. (AddressSpace * 0 + x) % AddressSpace = x
  BY Parameters, DivisionIs
<1> QED BY <1>1, <1>2 DEF low

LEMMA LowType == ASSUME NEW x \in Int PROVE low(x) \in 0 .. (AddressSpace - 1)
BY Division, Parameters DEF low

(* The address space has a whole number of pages. *)
LEMMA Space ==
  \E n \in Nat \ {0} : /\ AddressSpace = PageSize * n
                       /\ Frames = 0 .. (n - 1)
                       /\ n <= Slots * Slots
<1>1. PICK n \in Int, r \in 0 .. (PageSize - 1) :
        /\ AddressSpace \div PageSize = n /\ AddressSpace % PageSize = r
        /\ AddressSpace = PageSize * n + r
  BY Division, Parameters
<1>2. AddressSpace % PageSize = 0
  BY BootAssumption
<1>3. AddressSpace = PageSize * n /\ PageSize * n \in Int
  BY <1>1, <1>2, Parameters
<1>4. 0 < n
  <2>1. PageSize * 0 = 0
    BY Parameters
  <2> QED BY <1>3, <2>1, Multiples, Parameters
<1>5. n <= Slots * Slots
  <2>1. PICK squared \in Int : squared = Slots * Slots
    BY Parameters
  <2>2. AddressSpace <= PageSize * squared
    <3>1. AddressSpace <= Slots * Slots * PageSize
      BY BootAssumption
    <3>2. Slots * Slots * PageSize = PageSize * squared
      BY <2>1, Parameters
    <3> QED BY <3>1, <3>2
  <2>3. ~ (squared < n)
    BY <1>3, <2>2, Multiples, Parameters
  <2> QED BY <2>1, <2>3
<1>6. Frames = 0 .. (n - 1)
  BY <1>1 DEF Frames
<1> QED BY <1>3, <1>4, <1>5, <1>6

LEMMA FramesType == Frames \subseteq Nat /\ 0 \in Frames /\ IsFiniteSet(Frames)
<1>1. PICK n \in Nat \ {0} : Frames = 0 .. (n - 1)
  BY Space
<1> QED BY <1>1, FS_Interval

(* Every address is in a page. *)
LEMMA FrameOf ==
  ASSUME NEW x \in 0 .. (AddressSpace - 1)
  PROVE  x \div PageSize \in Frames
<1>1. PICK n \in Nat \ {0} : AddressSpace = PageSize * n /\ Frames = 0 .. (n - 1)
  BY Space
<1>2. PICK q \in Int, r \in 0 .. (PageSize - 1) : x \div PageSize = q /\ x = PageSize * q + r
  BY Division, Parameters
<1>3. PageSize * q \in Int /\ PageSize * 0 = 0
  BY Parameters
<1>4. ~ (q < 0)
  <2>1. q < 0 => PageSize * q + PageSize <= PageSize * 0
    BY Multiples, Parameters
  <2> QED BY <1>2, <1>3, <2>1, Parameters
<1>5. q < n
  <2>1. PageSize * q < PageSize * n
    BY <1>1, <1>2, <1>3, Parameters
  <2> QED BY <2>1, Multiples, Parameters
<1> QED BY <1>1, <1>2, <1>4, <1>5

(* The kernel ends in one of the last bytes of page pages_needed - 1: what  *)
(* follows it begins with page pages_needed.                               *)
LEMMA KernelPages ==
  /\ pages_needed \in Frames /\ pages_needed \in Nat \ {0}
  /\ get_aligned_address(EndOfKernel) = PageSize * pages_needed
  /\ EndOfKernel < PageSize * pages_needed
  /\ PageSize * pages_needed <= EndOfKernel + PageSize
<1>1. PICK q \in Int, r \in 0 .. (PageSize - 1) :
        /\ EndOfKernel \div PageSize = q /\ EndOfKernel % PageSize = r
        /\ EndOfKernel = PageSize * q + r
  BY Division, Parameters
<1>2. PICK first \in Int : first = PageSize * (q + 1)
  BY Parameters
<1>3. EndOfKernel + (PageSize - r) = first
  BY <1>1, <1>2, Multiples, Parameters
<1>4. EndOfKernel < first /\ first <= EndOfKernel + PageSize /\ first \in 0 .. (AddressSpace - 1)
  <2>1. 0 <= r /\ r < PageSize /\ r \in Int
    BY Parameters
  <2> QED BY <1>3, <2>1, Parameters
<1>5. get_aligned_address(EndOfKernel) = first
  BY <1>1, <1>3, <1>4, LowIs DEF get_aligned_address
<1>6. first \div PageSize = q + 1 /\ first % PageSize = 0
  <2>1. first = PageSize * (q + 1) + 0 /\ 0 \in 0 .. (PageSize - 1) /\ q + 1 \in Int
    BY <1>2, Parameters
  <2> QED BY <2>1, DivisionIs, Parameters
<1>7. pages_needed = q + 1
  BY <1>5, <1>6 DEF pages_needed, number_of_blocks
<1>8. pages_needed \in Frames
  BY <1>4, <1>6, <1>7, FrameOf
<1>9. q + 1 # 0
  <2>1. PageSize * 0 = 0
    BY Parameters
  <2> QED BY <1>2, <1>4, <2>1, Parameters
<1> QED BY <1>2, <1>4, <1>5, <1>7, <1>8, <1>9, FramesType

(* As many tables are needed as have slots for these pages. *)
LEMMA TablesNeeded ==
  /\ page_tables_needed \in 1 .. Slots
  /\ pages_needed <= Slots * page_tables_needed
  /\ Slots * (page_tables_needed - 1) < pages_needed
<1>1. PICK q \in Int, r \in 0 .. (Slots - 1) :
        /\ pages_needed \div Slots = q /\ pages_needed % Slots = r
        /\ pages_needed = Slots * q + r
  BY Division, KernelPages, Parameters
<1>2. PICK squared \in Int : squared = Slots * Slots
  BY Parameters
<1>3. 0 < pages_needed /\ pages_needed < squared
  BY <1>2, KernelPages, Space
<1>4. PICK filled \in Int : filled = Slots * q
  BY Parameters
<1>5. /\ Slots * (q + 1) = filled + Slots /\ Slots * (q - 1) = filled - Slots
      /\ Slots * ((q + 1) - 1) = filled
  BY <1>4, Multiples, Parameters
<1>6. 0 <= q
  <2>1. q < 0 => filled + Slots <= Slots * 0
    BY <1>4, Multiples, Parameters
  <2>2. Slots * 0 = 0
    BY Parameters
  <2> QED BY <1>1, <1>3, <1>4, <2>1, <2>2, Parameters
<1>7. q < Slots
  <2>1. filled < squared
    BY <1>1, <1>3, <1>4
  <2> QED BY <1>2, <1>4, <2>1, Multiples, Parameters
<1>8. CASE r > 0
  <2>1. page_tables_needed = q + 1
    BY <1>1, <1>8 DEF page_tables_needed
  <2> QED BY <1>1, <1>4, <1>5, <1>6, <1>7, <1>8, <2>1, Parameters
<1>9. CASE r = 0
  <2>1. page_tables_needed = q
    BY <1>1, <1>6, <1>9 DEF page_tables_needed
  <2>2. q # 0
    <3>1. Slots * 0 = 0
      BY Parameters
    <3> QED BY <1>1, <1>3, <1>9, <3>1
  <2> QED BY <1>1, <1>4, <1>5, <1>6, <1>7, <1>9, <2>1, <2>2, Parameters
<1> QED BY <1>8, <1>9

LEMMA TableCount == page_tables_needed \in Nat /\ 0 < page_tables_needed /\ page_tables_needed <= Slots
BY TablesNeeded, Parameters

(* A table that is needed has pages to map, up to its last slot or the last *)
(* page.                                                                   *)
LEMMA TableHasPages ==
  ASSUME NEW t \in 0 .. (page_tables_needed - 1)
  PROVE  Slots * t \in Nat /\ Slots * t < pages_needed
<1>1. PICK last \in Int : last = page_tables_needed - 1
  BY TableCount
<1>2. Slots * last < pages_needed
  BY <1>1, TablesNeeded
<1>3. t \in Nat /\ (t < last \/ t = last)
  BY <1>1, TableCount
<1>4. Slots * t \in Nat /\ Slots * last \in Int
  BY <1>3, Parameters
<1>5. t < last => Slots * t < Slots * last
  BY <1>3, Multiples, Parameters
<1>6. pages_needed \in Int
  BY KernelPages
<1> QED BY <1>2, <1>3, <1>4, <1>5, <1>6

-----------------------------------------------------------------------------
(* The inductive invariant. *)

(* How far the loops are. *)
Progress ==
  /\ pc \in {"start", "memory", "directory", "place_directory"} => i = 0
  /\ pc = "select" => i \in 0 .. 10
  /\ pc = "tables" => i \in 0 .. page_tables_needed
  /\ pc \in {"place_table", "map"} => i \in 0 .. (page_tables_needed - 1)
  /\ pc = "running" => /\ i = page_tables_needed
                       /\ current_page = pages_needed
                       /\ cr3 = kernel_page_directory
  /\ pc \in {"start", "select", "memory", "directory", "place_directory"} => current_page = 0
  /\ pc = "tables" => /\ current_page <= Slots * i
                      /\ current_page = Slots * i \/ current_page = pages_needed
  /\ pc = "place_table" => current_page = Slots * i
  /\ pc = "map" => Slots * i <= current_page /\ current_page <= Slots * (i + 1)
  /\ current_page <= pages_needed
  /\ pc \in {"start", "select", "memory", "directory"} => held = {} /\ call = "none"
  /\ call = "allocate" => length = 1 /\ pc \in {"place_directory", "place_table"}

(* In the memory mem the page dir is a page directory with n tables, which  *)
(* lie in pages of their own and map the first c pages to themselves, and  *)
(* owned are the pages of all of them.                                     *)
TreeOf(mem, dir, owned, n, c) ==
  /\ owned = {dir} \cup {mem[dir][t].address : t \in 0 .. (n - 1)}
  /\ \A t \in Slot : mem[dir][t].present <=> t < n
  /\ \A t \in 0 .. (n - 1) : mem[dir][t].address # dir
  /\ \A t, u \in 0 .. (n - 1) : mem[dir][t].address = mem[dir][u].address => t = u
  /\ \A t \in 0 .. (n - 1), s \in Slot :
       LET entry == mem[mem[dir][t].address][s]
       IN  /\ entry.present <=> Slots * t + s < c
           /\ entry.present => entry.address = Slots * t + s

Enough == Cardinality(pages) >= 1 + page_tables_needed

(* What stands in memory, and what the allocator has granted. *)
Built ==
  /\ pc = "place_directory" =>
       /\ call = "allocate" => held = {}
       /\ call = "none" => held = {result}
  /\ pc = "tables" => /\ TreeOf(content, kernel_page_directory, held, i, current_page)
                      /\ Cardinality(held) = 1 + i
  /\ pc = "place_table" =>
       /\ call = "allocate" =>
            /\ TreeOf(content, kernel_page_directory, held, i, current_page)
            /\ Cardinality(held) = 1 + i
       /\ call = "none" =>
            /\ result \in held
            /\ TreeOf(content, kernel_page_directory, held \ {result}, i, current_page)
            /\ Cardinality(held) = 2 + i
  /\ pc = "map" => /\ TreeOf(content, kernel_page_directory, held, i + 1, current_page)
                   /\ table = content[kernel_page_directory][i].address
                   /\ Cardinality(held) = 2 + i
  /\ pc = "running" => /\ TreeOf(content, kernel_page_directory, held, i, current_page)
                       /\ Cardinality(held) = 1 + i

Inv == TypeOK /\ Progress /\ (Enough => Built)

-----------------------------------------------------------------------------
(* Types, and how far the loops are. *)

LEMMA SlotType == Slot \subseteq Nat /\ 0 \in Slot /\ IsFiniteSet(Slot)
<1>1. 0 \in Int /\ Slots - 1 \in Int
  BY Parameters
<1> QED BY <1>1, Parameters, FS_Interval DEF Slot

LEMMA ZeroedType == Zeroed \in [Slot -> Entry]
BY FramesType DEF Zeroed, Entry

LEMMA InitTypes == Init => TypeOK /\ Progress
<1> SUFFICES ASSUME Init PROVE TypeOK /\ Progress
  OBVIOUS
<1>1. content \in [Frames -> [Slot -> Entry]]
  BY ZeroedType DEF Init
<1>2. memory_map \in MemoryMaps
  BY DEF Init
<1>3. TypeOK
  BY <1>1, <1>2, FramesType, Parameters DEF Init, TypeOK, nullptr
<1>4. Progress
  BY KernelPages DEF Init, Progress
<1> QED BY <1>3, <1>4

(* The region that is selected starts and ends in the address space. *)
LEMMA SelectTypes ==
  ASSUME TypeOK, NEW entry \in MapEntry, set_global_memory(entry)
  PROVE  /\ global_mem_start' \in 0 .. (AddressSpace - 1)
         /\ global_mem_size' \in 0 .. (AddressSpace - 1)
<1>1. low(entry.addr) \in 0 .. (AddressSpace - 1) /\ low(entry.len) \in 0 .. (AddressSpace - 1)
  BY LowType DEF MapEntry
<1> QED BY <1>1 DEF TypeOK, set_global_memory

(* Every entry that is read is one of a memory map. *)
LEMMA EntryRead ==
  ASSUME TypeOK, pc = "select", Progress,
         NEW entry \in IF i < Len(memory_map) THEN {memory_map[i + 1]} ELSE Beyond
  PROVE  entry \in MapEntry
<1>1. memory_map \in Seq(MapEntry) /\ Beyond \subseteq MapEntry
  BY BootAssumption DEF TypeOK
<1>2. i \in Nat
  BY DEF Progress
<1>3. CASE i < Len(memory_map)
  <2>1. i + 1 \in 1 .. Len(memory_map)
    BY <1>1, <1>2, <1>3
  <2> QED BY <1>1, <1>3, <2>1
<1>4. CASE ~(i < Len(memory_map))
  BY <1>1, <1>4
<1> QED BY <1>3, <1>4

(* The pages of the pool are pages of the address space. *)
LEMMA PoolTypes ==
  ASSUME InitializeMemory PROVE pages' \in SUBSET Frames
<1> SUFFICES ASSUME NEW k \in 0 .. (number_of_blocks(available_memory_size) - 1)
             PROVE  low(memory_start + k * PageSize) \div PageSize \in Frames
  BY DEF InitializeMemory
<1>1. memory_start \in Int
  BY KernelPages, Parameters DEF memory_start
<1>2. memory_start + k * PageSize \in Int
  BY <1>1, Parameters
<1> QED BY <1>2, LowType, FrameOf

(* What the allocator's answer does: it grants one page, or refuses. *)
LEMMA AnswerIs ==
  ASSUME TypeOK, Progress, MemoryAnswers
  PROVE  /\ UNCHANGED <<pc, i, selection, paging, pages>>
         /\ pc \in {"place_directory", "place_table"}
         /\ call = "allocate" /\ call' = "none" /\ length' = 0
         /\ \/ /\ result' \in pages \ held
               /\ held' = held \cup {result'}
            \/ /\ pages \ held = {}
               /\ result' = nullptr
               /\ held' = held
<1>1. call = "allocate" /\ call' = "none" /\ length' = 0 /\ UNCHANGED pages
  BY DEF MemoryAnswers, memory!Grant, memory!Refuse
<1>2. length = 1 /\ pc \in {"place_directory", "place_table"}
  BY <1>1 DEF Progress
<1>3. pages \subseteq Nat
  BY FramesType DEF TypeOK
<1>4. \A first \in pages : memory!Run(first, 1) = {first}
  BY <1>3 DEF memory!Run
<1>5. memory!FreeRuns(1) = pages \ held
  BY <1>4 DEF memory!FreeRuns
<1>6. CASE memory!Grant
  <2>1. PICK first \in pages \ held : /\ held' = held \cup memory!Run(first, 1)
                                      /\ result' = first
    BY <1>2, <1>5, <1>6 DEF memory!Grant
  <2>2. memory!Run(first, 1) = {first}
    BY <1>4, <2>1
  <2> QED BY <1>1, <1>2, <2>1, <2>2 DEF MemoryAnswers
<1>7. CASE memory!Refuse
  BY <1>1, <1>2, <1>5, <1>7 DEF memory!Refuse, MemoryAnswers
<1> QED BY <1>6, <1>7 DEF MemoryAnswers

(* A request for one page. *)
LEMMA AskIs ==
  ASSUME memory!Ask(1)
  PROVE  /\ call = "none" /\ call' = "allocate" /\ length' = 1 /\ result' = nullptr
         /\ UNCHANGED <<pages, held>>
BY DEF memory!Ask

LEMMA StepTypes ==
  ASSUME TypeOK, Progress, Next
  PROVE  TypeOK' /\ Progress'
<1> USE DEF selection, paging, allocator
<1>1. CASE KernelMain
  BY <1>1 DEF KernelMain, TypeOK, Progress
<1>2. CASE SelectEntry
  <2>1. PICK entry \in MapEntry : IF entry.available THEN set_global_memory(entry)
                                  ELSE UNCHANGED <<global_mem_start, global_mem_size>>
    BY <1>2, EntryRead DEF SelectEntry
  <2>2. /\ global_mem_start' \in 0 .. (AddressSpace - 1)
        /\ global_mem_size' \in 0 .. (AddressSpace - 1)
    BY <2>1, SelectTypes DEF TypeOK
  <2>3. i \in 0 .. 10 /\ i < 10 /\ i' = i + 1
    BY <1>2 DEF SelectEntry, ReadOn, Progress
  <2>4. i' \in 0 .. 10
    BY <2>3
  <2>5. pc = "select" /\ UNCHANGED <<pc, memory_map, paging, allocator>>
    BY <1>2 DEF SelectEntry
  <2>6. TypeOK'
    BY <2>2, <2>4, <2>5 DEF TypeOK
  <2>7. Progress'
    BY <2>4, <2>5 DEF Progress
  <2> QED BY <2>6, <2>7
<1>3. CASE Selected
  BY <1>3 DEF Selected, TypeOK, Progress
<1>4. CASE InitializeMemory
  <2>1. pages' \in SUBSET Frames
    BY <1>4, PoolTypes
  <2>2. pc = "memory" /\ held = {}
    BY <1>4 DEF InitializeMemory, Progress
  <2>3. TypeOK'
    BY <1>4, <2>1, <2>2 DEF InitializeMemory, TypeOK
  <2>4. Progress'
    BY <1>4, <2>2 DEF InitializeMemory, Progress
  <2> QED BY <2>3, <2>4
<1>5. CASE MemoryAnswers
  <2>1. /\ UNCHANGED <<pc, i, selection, paging, pages>>
        /\ pc \in {"place_directory", "place_table"}
        /\ call' = "none" /\ length' = 0
        /\ result' \in Frames /\ held' \in SUBSET pages
    BY <1>5, AnswerIs, FramesType DEF TypeOK, nullptr
  <2>2. TypeOK'
    BY <2>1 DEF TypeOK
  <2>3. Progress'
    BY <2>1 DEF Progress
  <2> QED BY <2>2, <2>3
<1>6. CASE AskForDirectory
  <2>1. /\ pc = "directory" /\ pc' = "place_directory"
        /\ call' = "allocate" /\ length' = 1 /\ result' = nullptr
        /\ UNCHANGED <<pages, held, i, selection, paging>>
    BY <1>6, AskIs DEF AskForDirectory
  <2>2. TypeOK'
    BY <2>1, FramesType DEF TypeOK, nullptr
  <2>3. Progress'
    BY <2>1 DEF Progress
  <2> QED BY <2>2, <2>3
<1>7. CASE PlaceDirectory
  <2>1. /\ pc = "place_directory" /\ pc' = "tables" /\ call = "none"
        /\ kernel_page_directory' = result
        /\ content' = [content EXCEPT ![result] = Zeroed]
        /\ UNCHANGED <<i, selection, table, current_page, cr3, allocator>>
    BY <1>7 DEF PlaceDirectory
  <2>2. TypeOK'
    BY <2>1, ZeroedType DEF TypeOK
  <2>3. i = 0 /\ current_page = 0
    BY <2>1 DEF Progress
  <2>4. /\ pc' = "tables" /\ call' = "none" /\ i' \in 0 .. page_tables_needed
        /\ current_page' = Slots * i' /\ current_page' <= Slots * i'
        /\ current_page' <= pages_needed
    <3>1. i' = 0 /\ current_page' = 0 /\ pc' = "tables" /\ call' = "none"
      BY <2>1, <2>3
    <3>2. Slots * 0 = 0
      BY Parameters
    <3>3. 0 \in 0 .. page_tables_needed /\ 0 <= pages_needed
      BY TableCount, KernelPages
    <3> QED BY <3>1, <3>2, <3>3
  <2>5. Progress'
    BY <2>4 DEF Progress
  <2> QED BY <2>2, <2>5
<1>8. CASE AskForTable
  <2>1. /\ pc = "tables" /\ pc' = "place_table" /\ i < page_tables_needed
        /\ call' = "allocate" /\ length' = 1 /\ result' = nullptr
        /\ UNCHANGED <<pages, held, i, selection, paging>>
    BY <1>8, AskIs DEF AskForTable
  <2>2. TypeOK'
    BY <2>1, FramesType DEF TypeOK, nullptr
  <2>3. i \in 0 .. (page_tables_needed - 1)
    <3>1. i \in 0 .. page_tables_needed
      BY <2>1 DEF Progress
    <3>2. i < page_tables_needed
      BY <2>1
    <3> QED BY ONLY <3>1, <3>2, TableCount
  <2>4. current_page = Slots * i /\ current_page <= pages_needed
    <3>1. Slots * i \in Nat /\ Slots * i < pages_needed
      BY <2>3, TableHasPages
    <3>2. PICK first \in Nat : first = Slots * i
      BY <3>1
    <3>3. current_page <= first /\ (current_page = first \/ current_page = pages_needed)
      BY <2>1, <3>2 DEF Progress
    <3>4. pages_needed \in Int /\ first < pages_needed
      BY <3>1, <3>2, KernelPages
    <3> QED BY <3>2, <3>3, <3>4
  <2>5. Progress'
    BY <2>1, <2>3, <2>4 DEF Progress
  <2> QED BY <2>2, <2>5

<1>9. CASE PlaceTable
  <2>1. /\ pc = "place_table" /\ pc' = "map" /\ call = "none" /\ table' = result
        /\ content' = [[content EXCEPT ![result] = Zeroed]
                         EXCEPT ![kernel_page_directory][i] =
                                  [address |-> result, present |-> TRUE]]
        /\ UNCHANGED <<i, selection, kernel_page_directory, current_page, cr3, allocator>>
    BY <1>9 DEF PlaceTable
  <2>2. i \in 0 .. (page_tables_needed - 1) /\ current_page = Slots * i
    BY <2>1 DEF Progress
  <2>3. i \in Slot
    <3>1. i \in 0 .. (page_tables_needed - 1)
      BY <2>2
    <3> QED BY ONLY <3>1, TableCount, Parameters DEF Slot
  <2>4. TypeOK'
    <3>1. result \in Frames /\ kernel_page_directory \in Frames
      BY DEF TypeOK
    <3>2. [address |-> result, present |-> TRUE] \in Entry
      BY <3>1 DEF Entry
    <3>3. content \in [Frames -> [Slot -> Entry]]
      BY DEF TypeOK
    <3>4. content' \in [Frames -> [Slot -> Entry]]
      BY <2>1, <2>3, <3>1, <3>2, <3>3, ZeroedType
    <3> QED BY <2>1, <3>4 DEF TypeOK
  <2>5. Slots * i <= current_page /\ current_page <= Slots * (i + 1)
    <3>1. i \in Nat
      BY <2>2, TableCount
    <3> QED BY <2>2, <3>1, Multiples, Parameters
  <2>6. Progress'
    BY <2>1, <2>2, <2>5 DEF Progress
  <2> QED BY <2>4, <2>6
<1>10. CASE MapPage
  <2>1. /\ pc = "map" /\ ~TableFull /\ current_page < pages_needed
        /\ content' = [content EXCEPT ![table][current_page % Slots] =
                         [address |-> current_page, present |-> TRUE]]
        /\ current_page' = current_page + 1
        /\ UNCHANGED <<pc, i, selection, kernel_page_directory, table, cr3, allocator>>
    BY <1>10 DEF MapPage
  <2>2. current_page \in Frames /\ current_page \in Nat /\ pages_needed \in Nat
    BY FramesType, KernelPages DEF TypeOK
  <2>3. current_page + 1 <= pages_needed /\ current_page + 1 \in Frames
    <3>1. PICK n \in Nat \ {0} : Frames = 0 .. (n - 1)
      BY Space
    <3>2. pages_needed \in 0 .. (n - 1)
      BY <3>1, KernelPages
    <3> QED BY <2>1, <2>2, <3>1, <3>2
  <2>4. current_page % Slots \in Slot
    BY <2>2, Division, Parameters DEF Slot
  <2>5. TypeOK'
    <3>1. [address |-> current_page, present |-> TRUE] \in Entry
      BY <2>2 DEF Entry
    <3>2. content' \in [Frames -> [Slot -> Entry]]
      BY <2>1, <2>4, <3>1 DEF TypeOK
    <3> QED BY <2>1, <2>3, <3>2 DEF TypeOK
  <2>6. Slots * i <= current_page + 1 /\ current_page + 1 <= Slots * (i + 1)
    <3>1. PICK q \in Int, r \in 0 .. (Slots - 1) :
            /\ current_page \div Slots = q /\ current_page % Slots = r
            /\ current_page = Slots * q + r
      BY <2>2, Division, Parameters
    <3>2. i \in Nat /\ Slots * i <= current_page
      BY <2>1, TableCount DEF Progress
    <3>3. q <= i
      BY <2>1, <3>1, <3>2 DEF TableFull
    <3>4. Slots * q + Slots <= Slots * (i + 1)
      <4>1. q < i + 1
        BY <3>2, <3>3
      <4> QED BY <3>2, <4>1, Multiples, Parameters
    <3>5. Slots * q \in Int /\ Slots * (i + 1) \in Int /\ Slots * i \in Int
      BY <3>2, Multiples, Parameters
    <3>6. r + 1 <= Slots
      BY Parameters
    <3> QED BY <2>2, <3>1, <3>2, <3>4, <3>5, <3>6, Parameters
  <2>7. Progress'
    BY <2>1, <2>3, <2>6 DEF Progress
  <2> QED BY <2>5, <2>7
<1>11. CASE NextTable
  <2>1. /\ pc = "map"
        /\ TableFull \/ current_page = pages_needed
        /\ i' = i + 1 /\ pc' = "tables"
        /\ UNCHANGED <<selection, paging, allocator>>
    BY <1>11 DEF NextTable
  <2>2. i \in 0 .. (page_tables_needed - 1)
    BY <2>1 DEF Progress
  <2>3. i + 1 \in 0 .. page_tables_needed /\ i + 1 \in 0 .. Slots
    <3>1. i \in 0 .. (page_tables_needed - 1)
      BY <2>2
    <3> QED BY ONLY <3>1, TableCount, Parameters
  <2>4. TypeOK'
    <3>1. i + 1 \in Slot \cup {Slots}
      BY <2>3, Parameters DEF Slot
    <3> QED BY <2>1, <3>1 DEF TypeOK
  <2>5. /\ current_page <= Slots * (i + 1)
        /\ current_page = Slots * (i + 1) \/ current_page = pages_needed
    <3>1. current_page <= Slots * (i + 1)
      BY <2>1 DEF Progress
    <3>2. current_page \in Nat
      BY FramesType DEF TypeOK
    <3>3. PICK q \in Int, r \in 0 .. (Slots - 1) :
            /\ current_page \div Slots = q /\ current_page % Slots = r
            /\ current_page = Slots * q + r
      BY <3>2, Division, Parameters
    <3>4. CASE TableFull
      <4>1. i \in Nat /\ i < q
        BY <2>2, <3>3, <3>4, TableCount DEF TableFull
      <4>2. PICK end \in Int, first \in Int : end = Slots * (i + 1) /\ first = Slots * q
        BY <4>1, Multiples, Parameters
      <4>3. end <= first
        BY <4>1, <4>2, Multiples, Parameters
      <4>4. current_page = first + r /\ current_page <= end /\ 0 <= r
        BY <3>1, <3>3, <4>2, Parameters
      <4>5. current_page = end
        BY ONLY <3>2, <4>2, <4>3, <4>4
      <4> QED BY <3>1, <4>2, <4>5
    <3>5. CASE current_page = pages_needed
      BY <3>1, <3>5
    <3> QED BY <2>1, <3>4, <3>5
  <2>6. Progress'
    BY <2>1, <2>3, <2>5 DEF Progress
  <2> QED BY <2>4, <2>6
<1>12. CASE EnablePaging
  <2>1. /\ pc = "tables" /\ i = page_tables_needed /\ pc' = "running"
        /\ cr3' = kernel_page_directory
        /\ UNCHANGED <<i, selection, kernel_page_directory, table, current_page,
                       content, allocator>>
    BY <1>12 DEF EnablePaging
  <2>2. TypeOK'
    BY <2>1 DEF TypeOK
  <2>3. current_page = pages_needed
    <3>1. PICK last \in Int : last = Slots * page_tables_needed
      BY Parameters, TableCount
    <3>2. pages_needed <= last /\ pages_needed \in Nat
      BY <3>1, TablesNeeded, KernelPages
    <3>3. /\ current_page <= last /\ current_page <= pages_needed
          /\ current_page = last \/ current_page = pages_needed
      BY <2>1, <3>1 DEF Progress
    <3> QED BY <3>2, <3>3
  <2>4. Progress'
    BY <2>1, <2>3 DEF Progress
  <2> QED BY <2>2, <2>4
<1> QED
  BY <1>1, <1>2, <1>3, <1>4, <1>5, <1>6, <1>7, <1>8, <1>9, <1>10, <1>11, <1>12 DEF Next

(* Every variable keeps its type: a frame is one of the address space, a   *)
(* table and a slot are ones the structures have, whatever the map.        *)
THEOREM TypeCorrect == Spec => []TypeOK
<1>1. TypeOK /\ Progress /\ [Next]_vars => TypeOK' /\ Progress'
  <2> SUFFICES ASSUME TypeOK, Progress, [Next]_vars PROVE TypeOK' /\ Progress'
    OBVIOUS
  <2>1. CASE UNCHANGED vars
    <3>1. TypeOK'
      BY <2>1 DEF vars, selection, paging, allocator, TypeOK
    <3>2. Progress'
      BY <2>1 DEF vars, selection, paging, allocator, Progress
    <3> QED BY <3>1, <3>2
  <2> QED BY <2>1, StepTypes
<1> QED BY <1>1, InitTypes, PTL DEF Spec

-----------------------------------------------------------------------------
(* The page directory and its tables. *)

Memory == [Frames -> [Slot -> Entry]]

(* What the steps that place a table and map a page make of the memory. *)
WithTable(mem, dir, n, r) ==
  [[mem EXCEPT ![r] = Zeroed] EXCEPT ![dir][n] = [address |-> r, present |-> TRUE]]

WithPage(mem, tab, v, c) ==
  [mem EXCEPT ![tab][v] = [address |-> c, present |-> TRUE]]

(* A directory that has just been cleared has no tables. *)
LEMMA FirstTree ==
  ASSUME NEW mem \in Memory, NEW dir \in Frames
  PROVE  TreeOf([mem EXCEPT ![dir] = Zeroed], dir, {dir}, 0, 0)
<1>1. PICK new : new = [mem EXCEPT ![dir] = Zeroed]
  OBVIOUS
<1>2. new[dir] = Zeroed
  <2>1. mem \in [Frames -> [Slot -> Entry]]
    BY DEF Memory
  <2> QED BY ONLY <1>1, <2>1, dir \in Frames
<1>3. \A t \in 0 .. (0 - 1) : FALSE
  OBVIOUS
<1>4. \A t \in Slot : ~new[dir][t].present /\ ~(t < 0)
  <2> SUFFICES ASSUME NEW t \in Slot PROVE ~new[dir][t].present /\ ~(t < 0)
    OBVIOUS
  <2>1. Zeroed[t] = [address |-> 0, present |-> FALSE]
    BY DEF Zeroed
  <2>2. ~Zeroed[t].present
    BY <2>1
  <2>3. new[dir][t] = Zeroed[t]
    BY <1>2
  <2>4. t \in Nat
    BY SlotType
  <2> QED BY <2>2, <2>3, <2>4
<1>5. TreeOf(new, dir, {dir}, 0, 0)
  BY <1>3, <1>4 DEF TreeOf
<1> QED BY <1>1, <1>5

(* The slots of different tables are for different pages. *)
LEMMA SlotsDiffer ==
  ASSUME NEW t \in Slot, NEW u \in Slot, NEW s \in Slot, NEW v \in Slot
  PROVE  /\ Slots * t + s = Slots * u + v <=> t = u /\ s = v
         /\ Slots * t \in Nat
<1>1. PICK a \in Nat, b \in Nat : a = Slots * t /\ b = Slots * u
  BY SlotType, Parameters
<1>2. s \in Nat /\ v \in Nat /\ s < Slots /\ v < Slots /\ t \in Int /\ u \in Int
  BY Parameters DEF Slot
<1>3. t < u => a + Slots <= b
  BY <1>1, <1>2, Multiples, Parameters
<1>4. u < t => b + Slots <= a
  BY <1>1, <1>2, Multiples, Parameters
<1>5. t = u => a = b
  BY <1>1
<1>6. a + s = b + v <=> t = u /\ s = v
  BY ONLY <1>2, <1>3, <1>4, <1>5, Parameters
<1> QED BY <1>1, <1>6

(* A table that is cleared and entered into the directory is one more, and *)
(* maps nothing yet: the page it lies in was nobody's.                     *)
LEMMA PlaceTree ==
  ASSUME NEW mem \in Memory, NEW dir \in Frames, NEW owned, NEW n \in Slot,
         NEW r \in Frames, r \notin owned, TreeOf(mem, dir, owned, n, Slots * n)
  PROVE  /\ TreeOf(WithTable(mem, dir, n, r), dir, owned \cup {r}, n + 1, Slots * n)
         /\ WithTable(mem, dir, n, r)[dir][n].address = r
<1>0. PICK new : /\ new = WithTable(mem, dir, n, r)
                 /\ new = [[mem EXCEPT ![r] = Zeroed]
                             EXCEPT ![dir][n] = [address |-> r, present |-> TRUE]]
  BY DEF WithTable
<1>1. dir \in owned /\ \A t \in 0 .. (n - 1) : mem[dir][t].address \in owned
  BY DEF TreeOf
<1>2. r # dir
  BY <1>1
<1>3. n \in Nat /\ 0 .. (n - 1) \subseteq Slot /\ 0 .. ((n + 1) - 1) = 0 .. (n - 1) \cup {n}
  <2>1. n \in Nat /\ n <= Slots - 1
    BY Parameters DEF Slot
  <2> QED BY <2>1, Parameters DEF Slot
<1>4. new[dir][n] = [address |-> r, present |-> TRUE]
  BY <1>0, <1>2 DEF Memory
<1>5. \A t \in Slot : t # n => new[dir][t] = mem[dir][t]
  BY <1>0, <1>2 DEF Memory
<1>6. new[r] = Zeroed
  BY <1>0, <1>2 DEF Memory
<1>7. \A f \in Frames : f # r /\ f # dir => new[f] = mem[f]
  BY <1>0 DEF Memory
<1>8. \A t \in 0 .. (n - 1) : /\ new[dir][t] = mem[dir][t]
                              /\ new[dir][t].address \in owned
                              /\ new[dir][t].address # r
                              /\ new[dir][t].address # dir
                              /\ new[dir][t].address \in Frames
  <2> SUFFICES ASSUME NEW t \in 0 .. (n - 1)
               PROVE  /\ new[dir][t] = mem[dir][t]
                      /\ new[dir][t].address \in owned
                      /\ new[dir][t].address # r
                      /\ new[dir][t].address # dir
                      /\ new[dir][t].address \in Frames
    OBVIOUS
  <2>1. t \in Slot /\ t # n
    BY <1>3
  <2>2. new[dir][t] = mem[dir][t]
    BY <1>5, <2>1
  <2>3. mem[dir][t].address # dir
    BY DEF TreeOf
  <2>4. mem[dir][t] \in Entry
    BY <2>1 DEF Memory
  <2>5. mem[dir][t].address \in Frames
    BY <2>4 DEF Entry
  <2> QED BY <1>1, <2>2, <2>3, <2>5
<1>9. new[dir][n].address = r /\ new[dir][n].present
  BY <1>4
<1>10. owned \cup {r} = {dir} \cup {new[dir][t].address : t \in 0 .. ((n + 1) - 1)}
  <2>1. owned = {dir} \cup {mem[dir][t].address : t \in 0 .. (n - 1)}
    BY DEF TreeOf
  <2>2. {new[dir][t].address : t \in 0 .. ((n + 1) - 1)}
          = {new[dir][t].address : t \in 0 .. (n - 1)} \cup {r}
    BY <1>3, <1>9
  <2>3. {new[dir][t].address : t \in 0 .. (n - 1)} = {mem[dir][t].address : t \in 0 .. (n - 1)}
    BY <1>8
  <2> QED BY <2>1, <2>2, <2>3
<1>11. \A t \in Slot : new[dir][t].present <=> t < n + 1
  <2> SUFFICES ASSUME NEW t \in Slot PROVE new[dir][t].present <=> t < n + 1
    OBVIOUS
  <2>1. t \in Nat
    BY SlotType
  <2>2. CASE t = n
    BY <1>3, <1>9, <2>2
  <2>3. CASE t # n
    <3>1. mem[dir][t].present <=> t < n
      BY DEF TreeOf
    <3>2. t < n <=> t < n + 1
      BY <1>3, <2>1, <2>3
    <3> QED BY <1>5, <2>3, <3>1, <3>2
  <2> QED BY <2>2, <2>3
<1>12. \A t \in 0 .. ((n + 1) - 1) : new[dir][t].address # dir
  BY <1>2, <1>3, <1>8, <1>9
<1>13. \A t, u \in 0 .. ((n + 1) - 1) : new[dir][t].address = new[dir][u].address => t = u
  <2> SUFFICES ASSUME NEW t \in 0 .. (n - 1) \cup {n}, NEW u \in 0 .. (n - 1) \cup {n},
                      new[dir][t].address = new[dir][u].address
               PROVE  t = u
    BY <1>3
  <2>1. CASE t \in 0 .. (n - 1) /\ u \in 0 .. (n - 1)
    <3>1. mem[dir][t].address = mem[dir][u].address
      BY <1>8, <2>1
    <3> QED BY <2>1, <3>1 DEF TreeOf
  <2>2. CASE t = n /\ u \in 0 .. (n - 1)
    BY <1>8, <1>9, <2>2
  <2>3. CASE t \in 0 .. (n - 1) /\ u = n
    BY <1>8, <1>9, <2>3
  <2> QED BY <2>1, <2>2, <2>3
<1>14. \A t \in 0 .. ((n + 1) - 1), s \in Slot :
         LET entry == new[new[dir][t].address][s]
         IN  /\ entry.present <=> Slots * t + s < Slots * n
             /\ entry.present => entry.address = Slots * t + s
  <2> SUFFICES ASSUME NEW t \in 0 .. (n - 1) \cup {n}, NEW s \in Slot
               PROVE  LET entry == new[new[dir][t].address][s]
                      IN  /\ entry.present <=> Slots * t + s < Slots * n
                          /\ entry.present => entry.address = Slots * t + s
    BY <1>3
  <2>1. CASE t = n
    <3>1. new[new[dir][t].address][s] = [address |-> 0, present |-> FALSE]
      BY <1>6, <1>9, <2>1 DEF Zeroed
    <3>2. ~(Slots * n + s < Slots * n)
      BY SlotsDiffer, SlotType
    <3> QED BY <2>1, <3>1, <3>2
  <2>2. CASE t \in 0 .. (n - 1)
    <3>1. new[new[dir][t].address] = mem[mem[dir][t].address]
      BY <1>7, <1>8, <2>2
    <3> QED BY <2>2, <3>1 DEF TreeOf
  <2> QED BY <2>1, <2>2
<1>15. TreeOf(new, dir, owned \cup {r}, n + 1, Slots * n)
  BY ONLY <1>10, <1>11, <1>12, <1>13, <1>14 DEF TreeOf
<1> QED BY <1>0, <1>9, <1>15

(* The next page is mapped in the next slot of the last table. *)
LEMMA MapTree ==
  ASSUME NEW mem \in Memory, NEW dir \in Frames, NEW owned, NEW n \in Slot, NEW v \in Slot,
         NEW c \in Frames, c = Slots * n + v, TreeOf(mem, dir, owned, n + 1, c),
         NEW tab \in Frames, tab = mem[dir][n].address
  PROVE  /\ TreeOf(WithPage(mem, tab, v, c), dir, owned, n + 1, c + 1)
         /\ WithPage(mem, tab, v, c)[dir][n].address = tab
<1>0. PICK new : /\ new = WithPage(mem, tab, v, c)
                 /\ new = [mem EXCEPT ![tab][v] = [address |-> c, present |-> TRUE]]
  BY DEF WithPage
<1>1. n \in Nat /\ n \in 0 .. ((n + 1) - 1) /\ 0 .. ((n + 1) - 1) \subseteq Slot
  <2>1. n \in Nat /\ n <= Slots - 1
    BY Parameters DEF Slot
  <2> QED BY <2>1, Parameters DEF Slot
<1>2. \A t \in 0 .. ((n + 1) - 1) : mem[dir][t].address \in Frames /\ mem[dir][t].address # dir
  <2> SUFFICES ASSUME NEW t \in 0 .. ((n + 1) - 1)
               PROVE  mem[dir][t].address \in Frames /\ mem[dir][t].address # dir
    OBVIOUS
  <2>1. mem[dir][t] \in Entry
    BY <1>1 DEF Memory
  <2> QED BY <2>1 DEF Entry, TreeOf
<1>3. tab \in Frames /\ tab = mem[dir][n].address /\ tab # dir
  BY <1>1, <1>2
<1>4. new[dir] = mem[dir]
  BY <1>0, <1>3 DEF Memory
<1>5. new[tab][v] = [address |-> c, present |-> TRUE]
  <2>1. mem \in [Frames -> [Slot -> Entry]]
    BY DEF Memory
  <2> QED BY ONLY <1>0, <2>1, tab \in Frames, v \in Slot
<1>6. \A s \in Slot : s # v => new[tab][s] = mem[tab][s]
  BY <1>0, <1>3 DEF Memory
<1>7. \A f \in Frames : f # tab => new[f] = mem[f]
  BY <1>0, <1>3 DEF Memory
<1>8. \A t \in 0 .. ((n + 1) - 1), s \in Slot :
         LET entry == new[new[dir][t].address][s]
         IN  /\ entry.present <=> Slots * t + s < c + 1
             /\ entry.present => entry.address = Slots * t + s
  <2> SUFFICES ASSUME NEW t \in 0 .. ((n + 1) - 1), NEW s \in Slot
               PROVE  LET entry == new[mem[dir][t].address][s]
                      IN  /\ entry.present <=> Slots * t + s < c + 1
                          /\ entry.present => entry.address = Slots * t + s
    BY <1>4
  <2>1. CASE t = n /\ s = v
    <3>1. c < c + 1
      BY FramesType
    <3> QED BY <1>3, <1>5, <2>1, <3>1
  <2>2. CASE t # n \/ s # v
    <3>1. PICK p \in Int : p = Slots * t + s
      <4>1. t \in Slot /\ s \in Nat
        BY <1>1, SlotType
      <4>2. Slots * t \in Nat
        BY <4>1, SlotsDiffer
      <4> QED BY <4>1, <4>2
    <3>2. p # c
      BY <1>1, <2>2, <3>1, SlotsDiffer
    <3>3. p < c + 1 <=> p < c
      <4>1. p \in Int /\ c \in Int
        BY FramesType
      <4> QED BY ONLY <3>2, <4>1
    <3>4. new[mem[dir][t].address][s] = mem[mem[dir][t].address][s]
      <4>1. CASE t = n
        BY <1>3, <1>6, <2>2, <4>1
      <4>2. CASE t # n
        <5>1. mem[dir][t].address # tab
          BY <1>1, <1>3, <4>2 DEF TreeOf
        <5> QED BY <1>2, <1>7, <5>1
      <4> QED BY <4>1, <4>2
    <3>5. /\ mem[mem[dir][t].address][s].present <=> p < c
          /\ mem[mem[dir][t].address][s].present => mem[mem[dir][t].address][s].address = p
      BY <3>1 DEF TreeOf
    <3> QED BY <3>1, <3>3, <3>4, <3>5
  <2> QED BY <2>1, <2>2
<1>9. owned = {dir} \cup {new[dir][t].address : t \in 0 .. ((n + 1) - 1)}
  BY <1>4 DEF TreeOf
<1>10. \A t \in Slot : new[dir][t].present <=> t < n + 1
  BY <1>4 DEF TreeOf
<1>11. \A t \in 0 .. ((n + 1) - 1) : new[dir][t].address # dir
  BY <1>2, <1>4
<1>12. \A t, u \in 0 .. ((n + 1) - 1) : new[dir][t].address = new[dir][u].address => t = u
  BY <1>4 DEF TreeOf
<1>13. TreeOf(new, dir, owned, n + 1, c + 1)
  BY ONLY <1>8, <1>9, <1>10, <1>11, <1>12 DEF TreeOf
<1> QED BY <1>0, <1>4, <1>13

-----------------------------------------------------------------------------
(* The invariant holds. *)

(* With enough memory the allocator has a page for the directory and one   *)
(* for each table, and none of them was granted before.                    *)
LEMMA AnswerBuilds ==
  ASSUME TypeOK, Progress, Enough, Built, MemoryAnswers
  PROVE  Built'
<1>1. /\ UNCHANGED <<pc, i, selection, paging, pages>>
      /\ pc \in {"place_directory", "place_table"}
      /\ call = "allocate" /\ call' = "none"
      /\ \/ result' \in pages \ held /\ held' = held \cup {result'}
         \/ pages \ held = {}
  BY AnswerIs
<1>2. IsFiniteSet(held) /\ held \subseteq pages
  <2>1. pages \subseteq Frames /\ held \subseteq pages
    BY DEF TypeOK
  <2> QED BY <2>1, FramesType, FS_Subset
<1>3. CASE pc = "place_directory"
  <2>1. held = {}
    BY <1>1, <1>3 DEF Built
  <2>2. pages # {}
    <3>1. Cardinality({}) = 0
      BY FS_EmptySet
    <3>2. ~(0 >= 1 + page_tables_needed)
      BY TableCount
    <3> QED BY <3>1, <3>2 DEF Enough
  <2>3. held' = {result'}
    BY <1>1, <2>1, <2>2
  <2> QED BY <1>1, <1>3, <2>3 DEF Built
<1>4. CASE pc = "place_table"
  <2>1. /\ TreeOf(content, kernel_page_directory, held, i, current_page)
        /\ Cardinality(held) = 1 + i
    BY <1>1, <1>4 DEF Built
  <2>2. i \in 0 .. (page_tables_needed - 1)
    BY <1>4 DEF Progress
  <2>3. pages \ held # {}
    <3>1. pages \ held = {} => pages = held
      BY <1>2
    <3>2. ~(1 + i >= 1 + page_tables_needed)
      BY <2>2, TableCount
    <3> QED BY <2>1, <3>1, <3>2 DEF Enough
  <2>4. result' \notin held /\ held' = held \cup {result'}
    BY <1>1, <2>3
  <2>5. held' \ {result'} = held /\ result' \in held'
    BY <2>4
  <2>6. Cardinality(held') = 2 + i
    <3>1. Cardinality(held \cup {result'}) = Cardinality(held) + 1
      BY <1>2, <2>4, FS_AddElement
    <3>2. i \in Int
      BY <2>2
    <3> QED BY <2>1, <2>4, <3>1, <3>2
  <2>7. /\ content' = content /\ kernel_page_directory' = kernel_page_directory
        /\ i' = i /\ current_page' = current_page /\ pc' = "place_table" /\ call' = "none"
    BY <1>1, <1>4 DEF paging
  <2>8. TreeOf(content', kernel_page_directory', held' \ {result'}, i', current_page')
    BY <2>1, <2>5, <2>7
  <2>9. Cardinality(held') = 2 + i'
    BY <2>6, <2>7
  <2> QED BY <2>5, <2>7, <2>8, <2>9 DEF Built
<1> QED BY <1>1, <1>3, <1>4

(* The directory is built in the page that was granted for it. *)
LEMMA DirectoryBuilds ==
  ASSUME TypeOK, Progress, Built, PlaceDirectory
  PROVE  Built'
<1>1. /\ pc = "place_directory" /\ pc' = "tables" /\ call = "none"
      /\ kernel_page_directory' = result
      /\ content' = [content EXCEPT ![result] = Zeroed]
      /\ UNCHANGED <<i, current_page, held>>
  BY DEF PlaceDirectory, allocator
<1>2. i = 0 /\ current_page = 0 /\ held = {result}
  BY <1>1 DEF Progress, Built
<1>3. content \in Memory /\ result \in Frames
  BY DEF TypeOK, Memory
<1>4. TreeOf(content', result, {result}, 0, 0)
  BY <1>1, <1>3, FirstTree
<1>5. Cardinality({result}) = 1
  BY FS_Singleton
<1>6. TreeOf(content', kernel_page_directory', held', i', current_page')
  BY <1>1, <1>2, <1>4
<1>7. Cardinality(held') = 1 + i'
  <2>1. held' = {result} /\ i' = 0
    BY <1>1, <1>2
  <2> QED BY <1>5, <2>1
<1> QED BY <1>1, <1>6, <1>7 DEF Built

(* So is each table. *)
LEMMA TableBuilds ==
  ASSUME TypeOK, Progress, Built, PlaceTable
  PROVE  Built'
<1>1. /\ pc = "place_table" /\ pc' = "map" /\ call = "none" /\ table' = result
      /\ content' = [[content EXCEPT ![result] = Zeroed]
                       EXCEPT ![kernel_page_directory][i] =
                                [address |-> result, present |-> TRUE]]
      /\ UNCHANGED <<i, kernel_page_directory, current_page, held>>
  BY DEF PlaceTable, allocator
<1>2. i \in 0 .. (page_tables_needed - 1) /\ current_page = Slots * i
  BY <1>1 DEF Progress
<1>3. /\ result \in held
      /\ TreeOf(content, kernel_page_directory, held \ {result}, i, current_page)
      /\ Cardinality(held) = 2 + i
  BY <1>1 DEF Built
<1>4. content \in Memory /\ result \in Frames /\ kernel_page_directory \in Frames
  BY DEF TypeOK, Memory
<1>5. i \in Slot
  <2>1. i \in 0 .. (page_tables_needed - 1)
    BY <1>2
  <2> QED BY ONLY <2>1, TableCount, Parameters DEF Slot
<1>6. PICK others : others = held \ {result}
  OBVIOUS
<1>7. result \notin others /\ others \cup {result} = held
  BY <1>3, <1>6
<1>8. TreeOf(content, kernel_page_directory, others, i, Slots * i)
  BY <1>2, <1>3, <1>6
<1>9. /\ TreeOf(content', kernel_page_directory, others \cup {result}, i + 1, Slots * i)
      /\ content'[kernel_page_directory][i].address = result
  <2>1. content' = WithTable(content, kernel_page_directory, i, result)
    BY <1>1 DEF WithTable
  <2> QED BY <1>4, <1>5, <1>7, <1>8, <2>1, PlaceTree
<1>10. TreeOf(content', kernel_page_directory', held', i' + 1, current_page')
  BY <1>1, <1>2, <1>7, <1>9
<1>11. table' = content'[kernel_page_directory'][i'].address
  BY <1>1, <1>9
<1>12. Cardinality(held') = 2 + i'
  BY <1>1, <1>3
<1> QED BY <1>1, <1>10, <1>11, <1>12 DEF Built

(* The table that is being filled is the one of the page that is mapped. *)
LEMMA PageIsMapped ==
  ASSUME TypeOK, Progress, Built, MapPage
  PROVE  Built'
<1>1. /\ pc = "map" /\ ~TableFull
      /\ content' = [content EXCEPT ![table][current_page % Slots] =
                       [address |-> current_page, present |-> TRUE]]
      /\ current_page' = current_page + 1
      /\ UNCHANGED <<pc, i, kernel_page_directory, table, held>>
  BY DEF MapPage, allocator
<1>2. i \in 0 .. (page_tables_needed - 1) /\ Slots * i <= current_page
  BY <1>1 DEF Progress
<1>3. /\ TreeOf(content, kernel_page_directory, held, i + 1, current_page)
      /\ table = content[kernel_page_directory][i].address
      /\ Cardinality(held) = 2 + i
  BY <1>1 DEF Built
<1>4. /\ content \in Memory /\ kernel_page_directory \in Frames
      /\ current_page \in Frames /\ current_page \in Nat
  BY FramesType DEF TypeOK, Memory
<1>5. i \in Slot
  <2>1. i \in 0 .. (page_tables_needed - 1)
    BY <1>2
  <2> QED BY ONLY <2>1, TableCount, Parameters DEF Slot
<1>6. current_page % Slots \in Slot /\ current_page = Slots * i + (current_page % Slots)
  <2>1. PICK q \in Int, r \in 0 .. (Slots - 1) :
          /\ current_page \div Slots = q /\ current_page % Slots = r
          /\ current_page = Slots * q + r
    BY <1>4, Division, Parameters
  <2>2. i \in Nat /\ q <= i
    BY <1>1, <1>2, <2>1, TableCount DEF TableFull
  <2>3. ~(q < i)
    <3>1. q < i => Slots * q + Slots <= Slots * i
      BY <2>2, Multiples, Parameters
    <3>2. PICK a \in Int, b \in Int : a = Slots * q /\ b = Slots * i
      BY <2>2, Parameters
    <3>3. b <= a + r /\ r < Slots /\ r \in Int
      BY <1>2, <2>1, <3>2, Parameters
    <3>4. q < i => a + Slots <= b
      BY <3>1, <3>2
    <3> QED BY ONLY <3>2, <3>3, <3>4, Parameters
  <2>4. q = i
    BY <2>2, <2>3
  <2> QED BY <2>1, <2>4 DEF Slot
<1>7. /\ TreeOf(content', kernel_page_directory, held, i + 1, current_page + 1)
      /\ content'[kernel_page_directory][i].address = table
  <2>1. PICK v \in Slot : v = current_page % Slots /\ current_page = Slots * i + v
    BY <1>6
  <2>2. content' = WithPage(content, table, v, current_page)
    BY <1>1, <2>1 DEF WithPage
  <2>3. table \in Frames
    BY DEF TypeOK
  <2>4. PICK mem \in Memory, dir \in Frames, n \in Slot, c \in Frames, tab \in Frames :
          /\ mem = content /\ dir = kernel_page_directory /\ n = i
          /\ c = current_page /\ tab = table
    BY <1>4, <1>5, <2>3
  <2>5. c = Slots * n + v /\ TreeOf(mem, dir, held, n + 1, c) /\ tab = mem[dir][n].address
    BY <1>3, <2>1, <2>4
  <2>6. /\ TreeOf(WithPage(mem, tab, v, c), dir, held, n + 1, c + 1)
        /\ WithPage(mem, tab, v, c)[dir][n].address = tab
    BY ONLY <2>5, MapTree, mem \in Memory, dir \in Frames, n \in Slot, v \in Slot,
            c \in Frames, tab \in Frames
  <2> QED BY <2>2, <2>4, <2>6
<1>8. TreeOf(content', kernel_page_directory', held', i' + 1, current_page')
  BY <1>1, <1>7
<1>9. table' = content'[kernel_page_directory'][i'].address
  BY <1>1, <1>3, <1>7
<1>10. Cardinality(held') = 2 + i'
  BY <1>1, <1>3
<1> QED BY <1>1, <1>8, <1>9, <1>10 DEF Built

LEMMA StepBuilt ==
  ASSUME TypeOK, Progress, Enough => Built, Next, Enough'
  PROVE  Built'
<1>1. pages' = pages => Enough
  BY DEF Enough
<1>2. CASE KernelMain
  <2>1. pc' \in {"select", "halted"}
    BY <1>2 DEF KernelMain
  <2> QED BY <2>1 DEF Built
<1>3. CASE SelectEntry
  <2>1. pc' = "select"
    BY <1>3 DEF SelectEntry
  <2> QED BY <2>1 DEF Built
<1>4. CASE Selected \/ InitializeMemory
  <2>1. pc' \in {"memory", "directory"}
    BY <1>4 DEF Selected, InitializeMemory
  <2> QED BY <2>1 DEF Built
<1>5. CASE MemoryAnswers
  <2>1. pages' = pages
    BY <1>5, AnswerIs
  <2> QED BY <1>1, <1>5, <2>1, AnswerBuilds
<1>6. CASE AskForDirectory
  <2>1. /\ pc = "directory" /\ pc' = "place_directory"
        /\ call' = "allocate" /\ held' = held
    BY <1>6, AskIs DEF AskForDirectory
  <2>2. held = {}
    BY <2>1 DEF Progress
  <2> QED BY <2>1, <2>2 DEF Built
<1>7. CASE PlaceDirectory
  <2>1. pages' = pages
    BY <1>7 DEF PlaceDirectory, allocator
  <2> QED BY <1>1, <1>7, <2>1, DirectoryBuilds
<1>8. CASE AskForTable
  <2>1. /\ pc = "tables" /\ pc' = "place_table" /\ call' = "allocate"
        /\ UNCHANGED <<pages, held, i, content, kernel_page_directory, current_page>>
    BY <1>8, AskIs DEF AskForTable, paging
  <2>2. /\ TreeOf(content, kernel_page_directory, held, i, current_page)
        /\ Cardinality(held) = 1 + i
    BY <1>1, <2>1 DEF Built
  <2>3. TreeOf(content', kernel_page_directory', held', i', current_page')
    BY <2>1, <2>2
  <2>4. Cardinality(held') = 1 + i'
    BY <2>1, <2>2
  <2> QED BY <2>1, <2>3, <2>4 DEF Built
<1>9. CASE PlaceTable
  <2>1. pages' = pages
    BY <1>9 DEF PlaceTable, allocator
  <2> QED BY <1>1, <1>9, <2>1, TableBuilds
<1>10. CASE MapPage
  <2>1. pages' = pages
    BY <1>10 DEF MapPage, allocator
  <2> QED BY <1>1, <1>10, <2>1, PageIsMapped
<1>11. CASE NextTable
  <2>1. /\ pc = "map" /\ pc' = "tables" /\ i' = i + 1
        /\ UNCHANGED <<pages, held, content, kernel_page_directory, current_page>>
    BY <1>11 DEF NextTable, paging, allocator
  <2>2. /\ TreeOf(content, kernel_page_directory, held, i + 1, current_page)
        /\ Cardinality(held) = 2 + i
    BY <1>1, <2>1 DEF Built
  <2>3. TreeOf(content', kernel_page_directory', held', i', current_page')
    BY <2>1, <2>2
  <2>4. Cardinality(held') = 1 + i'
    <3>1. i \in Int
      <4>1. i \in 0 .. (page_tables_needed - 1)
        BY <2>1 DEF Progress
      <4> QED BY <4>1
    <3> QED BY <2>1, <2>2, <3>1
  <2> QED BY <2>1, <2>3, <2>4 DEF Built
<1>12. CASE EnablePaging
  <2>1. /\ pc = "tables" /\ pc' = "running"
        /\ UNCHANGED <<pages, held, i, content, kernel_page_directory, current_page>>
    BY <1>12 DEF EnablePaging, allocator
  <2>2. /\ TreeOf(content, kernel_page_directory, held, i, current_page)
        /\ Cardinality(held) = 1 + i
    BY <1>1, <2>1 DEF Built
  <2>3. TreeOf(content', kernel_page_directory', held', i', current_page')
    BY <2>1, <2>2
  <2>4. Cardinality(held') = 1 + i'
    BY <2>1, <2>2
  <2> QED BY <2>1, <2>3, <2>4 DEF Built
<1> QED
  BY <1>2, <1>3, <1>4, <1>5, <1>6, <1>7, <1>8, <1>9, <1>10, <1>11, <1>12 DEF Next

(* The kernel is as far as the loops' counters say, and, as long as memory *)
(* is enough, what it has built so far is a page directory whose tables    *)
(* map the pages so far to themselves and lie in the pages that were       *)
(* granted.                                                                *)
THEOREM InvHolds == Spec => []Inv
<1>1. Init => Inv
  <2> SUFFICES ASSUME Init PROVE Inv
    OBVIOUS
  <2>1. pc = "start"
    BY DEF Init
  <2>2. Built
    BY <2>1 DEF Built
  <2> QED BY <2>2, InitTypes DEF Inv
<1>2. Inv /\ [Next]_vars => Inv'
  <2> SUFFICES ASSUME Inv, [Next]_vars PROVE Inv'
    OBVIOUS
  <2>1. CASE Next
    <3>1. TypeOK /\ Progress /\ (Enough => Built)
      BY DEF Inv
    <3>2. TypeOK' /\ Progress'
      BY <2>1, <3>1, StepTypes
    <3>3. Enough' => Built'
      BY <2>1, <3>1, StepBuilt
    <3> QED BY <3>2, <3>3 DEF Inv
  <2>2. CASE UNCHANGED vars
    <3> USE <2>2 DEF vars, selection, paging, allocator
    <3>1. TypeOK'
      BY DEF Inv, TypeOK
    <3>2. Progress'
      BY DEF Inv, Progress
    <3>3. Enough' => Built'
      <4> SUFFICES ASSUME Enough' PROVE Built'
        OBVIOUS
      <4>1. Enough
        BY DEF Enough
      <4>2. Built
        BY <4>1 DEF Inv
      <4>3. Cardinality(held') = Cardinality(held)
        OBVIOUS
      <4>4. \A owned, n, c : TreeOf(content', kernel_page_directory', owned, n, c)
                               <=> TreeOf(content, kernel_page_directory, owned, n, c)
        OBVIOUS
      <4> QED BY <4>2, <4>3, <4>4 DEF Built
    <3> QED BY <3>1, <3>2, <3>3 DEF Inv
  <2> QED BY <2>1, <2>2
<1> QED BY <1>1, <1>2, PTL DEF Spec

(* A page has its slot in one table of the directory. *)
LEMMA PageHasSlot ==
  ASSUME NEW p \in Frames
  PROVE  \E t \in Slot, s \in Slot : p \div Slots = t /\ p % Slots = s /\ p = Slots * t + s
<1>1. PICK t \in Int, s \in 0 .. (Slots - 1) :
        p \div Slots = t /\ p % Slots = s /\ p = Slots * t + s
  BY FramesType, Division, Parameters
<1>2. PICK squared \in Int, first \in Int : squared = Slots * Slots /\ first = Slots * t
  BY Parameters
<1>3. p \in Nat /\ p < squared /\ p = first + s
  <2>1. PICK n \in Nat \ {0} : Frames = 0 .. (n - 1) /\ n <= squared
    BY <1>2, Space
  <2>2. p \in 0 .. (n - 1)
    BY <2>1
  <2> QED BY <1>1, <1>2, <2>1, <2>2
<1>4. 0 <= t
  <2>1. t < 0 => first + Slots <= Slots * 0
    BY <1>2, Multiples, Parameters
  <2>2. Slots * 0 = 0 /\ s < Slots
    BY Parameters
  <2> QED BY <1>3, <2>1, <2>2, Parameters
<1>5. t < Slots
  <2>1. first < squared
    BY <1>3
  <2> QED BY <1>2, <2>1, Multiples, Parameters
<1>6. t \in Slot /\ s \in Slot
  BY <1>4, <1>5, Parameters DEF Slot
<1> QED BY <1>1, <1>6

(* When the kernel runs, the processor finds the pages up to its end, and  *)
(* only these, where they are: this needs no assumption about the memory   *)
(* map, only that the allocator did not have to refuse a page.             *)
THEOREM KernelAlwaysStaysMapped == Spec => []KernelStaysMapped
<1>1. Inv => KernelStaysMapped
  <2> SUFFICES ASSUME Inv, RunsWithEnoughMemory, NEW p \in Frames
               PROVE  Translated(p) = IF p < pages_needed THEN p ELSE unmapped
    BY DEF KernelStaysMapped
  <2>1. /\ cr3 = kernel_page_directory
        /\ TreeOf(content, cr3, held, page_tables_needed, pages_needed)
    <3>1. pc = "running" /\ Enough
      BY DEF RunsWithEnoughMemory, Enough
    <3>2. Progress /\ Built
      BY <3>1 DEF Inv
    <3>3. cr3 = kernel_page_directory /\ i = page_tables_needed /\ current_page = pages_needed
      BY <3>1, <3>2 DEF Progress
    <3>4. TreeOf(content, kernel_page_directory, held, i, current_page)
      BY <3>1, <3>2 DEF Built
    <3> QED BY <3>3, <3>4
  <2>2. PICK t \in Slot, s \in Slot : p \div Slots = t /\ p % Slots = s /\ p = Slots * t + s
    BY PageHasSlot
  <2>3. PICK directory_entry : directory_entry = content[cr3][t]
    OBVIOUS
  <2>4. PICK table_entry : table_entry = content[directory_entry.address][s]
    OBVIOUS
  <2>5. Translated(p) = IF directory_entry.present /\ table_entry.present
                        THEN table_entry.address
                        ELSE unmapped
    BY <2>2, <2>3, <2>4 DEF Translated
  <2>6. directory_entry.present <=> t < page_tables_needed
    BY <2>1, <2>3 DEF TreeOf
  <2>7. CASE t < page_tables_needed
    <3>1. t \in 0 .. (page_tables_needed - 1)
      BY <2>7, TableCount, SlotType
    <3>2. /\ table_entry.present <=> Slots * t + s < pages_needed
          /\ table_entry.present => table_entry.address = Slots * t + s
      BY <2>1, <2>3, <2>4, <3>1 DEF TreeOf
    <3> QED BY <2>2, <2>5, <2>6, <2>7, <3>2
  <2>8. CASE ~(t < page_tables_needed)
    <3>1. PICK first \in Int, last \in Int :
            first = Slots * t /\ last = Slots * page_tables_needed
      BY SlotType, TableCount, Parameters
    <3>2. t \in Int /\ page_tables_needed \in Int /\ s \in Nat
      BY SlotType, TableCount
    <3>3. last <= first
      <4>1. ~(first < last)
        BY <2>8, <3>1, <3>2, Multiples, Parameters
      <4> QED BY <3>1, <4>1
    <3>4. pages_needed <= last /\ pages_needed \in Int
      BY <3>1, TablesNeeded, KernelPages
    <3>5. p = first + s
      BY <2>2, <3>1
    <3>6. ~(p < pages_needed)
      BY ONLY <3>1, <3>2, <3>3, <3>4, <3>5
    <3> QED BY <2>5, <2>6, <2>8, <3>6
  <2> QED BY <2>7, <2>8
<1> QED BY <1>1, InvHolds, PTL

-----------------------------------------------------------------------------
(* The region that is selected. *)

(* The memory maps that the loop of kernel_main reads as it means to: at   *)
(* most ten entries, available regions that 32-bit addresses reach, and    *)
(* nothing behind the map that looks like an available region.             *)
MapsFit ==
  /\ \A map \in MemoryMaps :
       /\ Len(map) <= 10
       /\ \A k \in 1 .. Len(map) : map[k].available =>
            map[k].addr + map[k].len <= AddressSpace /\ map[k].len < AddressSpace
  /\ \A entry \in Beyond : ~entry.available

(* The loop has been at entry k. *)
Read(k) == pc \in {"start", "halted", "select"} => k <= i

(* The selected region is the largest so far. *)
LargestSoFar ==
  /\ HoldsTheKernel(memory_map)
  /\ pc \in {"start", "halted"} => i = 0
  /\ \/ global_mem_size = 0
     \/ \E k \in 1 .. Len(memory_map) :
          /\ memory_map[k].available /\ Read(k)
          /\ memory_map[k].addr = global_mem_start
          /\ memory_map[k].len = global_mem_size
  /\ \A k \in 1 .. Len(memory_map) :
       memory_map[k].available /\ Read(k) => memory_map[k].len <= global_mem_size

LEMMA MapType ==
  ASSUME TypeOK
  PROVE  /\ memory_map \in MemoryMaps /\ Len(memory_map) \in Nat
         /\ \A k \in 1 .. Len(memory_map) :
              /\ memory_map[k] \in MapEntry
              /\ memory_map[k].addr \in Nat /\ memory_map[k].len \in Nat
              /\ memory_map[k].available \in BOOLEAN
<1>1. memory_map \in Seq(MapEntry) /\ memory_map \in MemoryMaps
  BY BootAssumption DEF TypeOK
<1>2. \A k \in 1 .. Len(memory_map) : memory_map[k] \in MapEntry
  BY <1>1
<1> QED BY <1>1, <1>2 DEF MapEntry

LEMMA SizeType == ASSUME TypeOK PROVE global_mem_size \in Nat
<1>1. global_mem_size \in 0 .. (AddressSpace - 1)
  BY DEF TypeOK
<1> QED BY <1>1, Parameters

(* Selecting an available entry stores where it is and how long. *)
LEMMA EntrySelected ==
  ASSUME TypeOK, MapsFit, NEW k \in 1 .. Len(memory_map), memory_map[k].available,
         set_global_memory(memory_map[k])
  PROVE  \/ /\ global_mem_size < memory_map[k].len
            /\ global_mem_start' = memory_map[k].addr
            /\ global_mem_size' = memory_map[k].len
         \/ /\ memory_map[k].len <= global_mem_size
            /\ UNCHANGED <<global_mem_start, global_mem_size>>
<1>1. PICK addr \in Nat, len \in Nat : addr = memory_map[k].addr /\ len = memory_map[k].len
  BY MapType
<1>2. addr + len <= AddressSpace /\ len < AddressSpace
  BY <1>1, MapType DEF MapsFit
<1>3. low(len) = len
  BY <1>2, LowIs, Parameters
<1>4. 0 < len => low(addr) = addr
  BY <1>2, LowIs, Parameters
<1>5. global_mem_size \in Nat
  BY SizeType
<1>6. CASE global_mem_size < len
  BY <1>1, <1>3, <1>4, <1>5, <1>6 DEF set_global_memory
<1>7. CASE ~(global_mem_size < len)
  BY <1>1, <1>3, <1>5, <1>7 DEF set_global_memory
<1> QED BY <1>6, <1>7

LEMMA EntryRecorded ==
  ASSUME TypeOK, Progress, MapsFit, LargestSoFar, SelectEntry
  PROVE  LargestSoFar'
<1>1. /\ pc = "select" /\ pc' = "select" /\ i' = i + 1 /\ memory_map' = memory_map
      /\ i \in Nat
  BY DEF SelectEntry, Progress
<1>2. PICK entry \in IF i < Len(memory_map) THEN {memory_map[i + 1]} ELSE Beyond :
        IF entry.available THEN set_global_memory(entry)
        ELSE UNCHANGED <<global_mem_start, global_mem_size>>
  BY DEF SelectEntry
<1>3. \A k \in 1 .. Len(memory_map) : /\ Read(k) <=> k <= i
                                      /\ Read(k)' <=> k <= i + 1
  BY <1>1 DEF Read
<1>4. Len(memory_map) \in Nat /\ global_mem_size \in Nat
  BY MapType, SizeType
<1>5. CASE i < Len(memory_map) /\ memory_map[i + 1].available
  <2>1. i + 1 \in 1 .. Len(memory_map) /\ entry = memory_map[i + 1]
    BY <1>1, <1>2, <1>4, <1>5
  <2>2. PICK k \in 1 .. Len(memory_map) : k = i + 1
    BY <2>1
  <2>3. \/ /\ global_mem_size < memory_map[k].len
           /\ global_mem_start' = memory_map[k].addr
           /\ global_mem_size' = memory_map[k].len
        \/ /\ memory_map[k].len <= global_mem_size
           /\ UNCHANGED <<global_mem_start, global_mem_size>>
    BY <1>2, <1>5, <2>1, <2>2, EntrySelected
  <2>4. global_mem_size <= global_mem_size' /\ memory_map[k].len <= global_mem_size'
    BY <1>4, <2>3, MapType
  <2>5. \A l \in 1 .. Len(memory_map) : l <= i + 1 => l <= i \/ l = k
    BY <1>1, <2>2
  <2>6. \A l \in 1 .. Len(memory_map) : memory_map[l].available /\ l <= i + 1
          => memory_map[l].len <= global_mem_size'
    <3> SUFFICES ASSUME NEW l \in 1 .. Len(memory_map), memory_map[l].available, l <= i + 1
                 PROVE  memory_map[l].len <= global_mem_size'
      OBVIOUS
    <3>1. CASE l = k
      BY <2>4, <3>1
    <3>2. CASE l <= i
      <4>1. memory_map[l].len <= global_mem_size
        BY <1>3, <3>2 DEF LargestSoFar
      <4>2. global_mem_size' \in Int
        BY <1>4, <2>3, MapType
      <4> QED BY <1>4, <2>4, <4>1, <4>2, MapType
    <3> QED BY <2>5, <3>1, <3>2
  <2>7. \/ global_mem_size' = 0
        \/ \E l \in 1 .. Len(memory_map) :
             /\ memory_map[l].available /\ l <= i + 1
             /\ memory_map[l].addr = global_mem_start'
             /\ memory_map[l].len = global_mem_size'
    <3>1. CASE /\ global_mem_start' = memory_map[k].addr
               /\ global_mem_size' = memory_map[k].len
      BY <1>1, <1>5, <2>2, <3>1
    <3>2. CASE UNCHANGED <<global_mem_start, global_mem_size>>
      <4>1. \A l \in 1 .. Len(memory_map) : l <= i => l <= i + 1
        BY <1>1
      <4> QED BY <1>3, <3>2, <4>1 DEF LargestSoFar
    <3> QED BY <2>3, <3>1, <3>2
  <2> QED BY <1>1, <1>3, <2>6, <2>7 DEF LargestSoFar
<1>6. CASE ~(i < Len(memory_map) /\ memory_map[i + 1].available)
  <2>1. ~entry.available
    BY <1>2, <1>6 DEF MapsFit
  <2>2. UNCHANGED <<global_mem_start, global_mem_size>>
    BY <1>2, <2>1
  <2>3. \A l \in 1 .. Len(memory_map) :
          memory_map[l].available => (l <= i + 1 <=> l <= i)
    <3> SUFFICES ASSUME NEW l \in 1 .. Len(memory_map), memory_map[l].available, l <= i + 1
                 PROVE  l <= i
      BY <1>1
    <3>1. l # i + 1
      <4>1. l = i + 1 => i < Len(memory_map)
        BY <1>1, <1>4
      <4> QED BY <1>6, <4>1
    <3> QED BY <1>1, <3>1
  <2> QED BY <1>1, <1>3, <2>2, <2>3 DEF LargestSoFar
<1> QED BY <1>5, <1>6

(* The loop ends behind the end of the map. *)
LEMMA AllRead ==
  ASSUME TypeOK, Progress, MapsFit, pc = "select", ~ReadOn
  PROVE  \A k \in 1 .. Len(memory_map) : k <= i
<1>1. i \in 0 .. 10 /\ Len(memory_map) \in Nat
  BY MapType DEF Progress
<1>2. Len(memory_map) <= 10
  BY MapType DEF MapsFit
<1>3. ~(i < 24 * Len(memory_map)) \/ ~(i < 10)
  BY DEF ReadOn, mmap_length
<1> QED BY <1>1, <1>2, <1>3

LEMMA StepLargest ==
  ASSUME TypeOK, Progress, MapsFit, LargestSoFar, [Next]_vars
  PROVE  LargestSoFar'
<1>1. CASE UNCHANGED vars
  BY <1>1 DEF vars, selection, LargestSoFar, Read
<1>2. CASE KernelMain
  BY <1>2 DEF KernelMain, selection, LargestSoFar, Read, Progress
<1>3. CASE SelectEntry
  BY <1>3, EntryRecorded
<1>4. CASE Selected
  <2>1. /\ pc' = "memory" /\ UNCHANGED <<memory_map, global_mem_start, global_mem_size>>
        /\ \A k \in 1 .. Len(memory_map) : Read(k)
    BY <1>4, AllRead DEF Selected, selection, Read
  <2> QED BY <2>1 DEF LargestSoFar, Read
<1>5. CASE Next /\ ~KernelMain /\ ~SelectEntry /\ ~Selected
  <2>1. /\ pc \notin {"start", "halted", "select"}
        /\ pc' \notin {"start", "halted", "select"}
        /\ UNCHANGED <<memory_map, global_mem_start, global_mem_size>>
    <3>1. CASE MemoryAnswers
      BY <3>1, AnswerIs DEF selection
    <3>2. CASE Next /\ ~KernelMain /\ ~SelectEntry /\ ~Selected /\ ~MemoryAnswers
      BY <3>2 DEF Next, InitializeMemory, AskForDirectory, PlaceDirectory, AskForTable,
           PlaceTable, MapPage, NextTable, EnablePaging, selection
    <3> QED BY <1>5, <3>1, <3>2
  <2> QED BY <2>1 DEF LargestSoFar, Read
<1> QED BY <1>1, <1>2, <1>3, <1>4, <1>5

(* The region of the kernel is not empty, so that there is a largest one. *)
LEMMA Largest ==
  ASSUME TypeOK, LargestSoFar, pc \notin {"start", "halted", "select"}
  PROVE  \E k \in 1 .. Len(memory_map) :
           /\ memory_map[k].available
           /\ memory_map[k].addr = global_mem_start
           /\ memory_map[k].len = global_mem_size
           /\ \A l \in 1 .. Len(memory_map) :
                memory_map[l].available => memory_map[l].len <= memory_map[k].len
<1>1. \A k \in 1 .. Len(memory_map) : Read(k)
  BY DEF Read
<1>2. PICK k \in 1 .. Len(memory_map) :
        memory_map[k].available /\ Contains(memory_map[k], KernelStart, EndOfKernel)
  BY DEF LargestSoFar, HoldsTheKernel
<1>3. global_mem_size # 0
  <2>1. memory_map[k].len <= global_mem_size
    BY <1>1, <1>2 DEF LargestSoFar
  <2>2. PICK addr \in Nat, len \in Nat : addr = memory_map[k].addr /\ len = memory_map[k].len
    BY MapType
  <2>3. addr <= KernelStart /\ EndOfKernel <= addr + len
    BY <1>2, <2>2 DEF Contains
  <2>4. KernelStart \in Nat /\ EndOfKernel \in Nat /\ KernelStart < EndOfKernel
    BY BootAssumption
  <2>5. len # 0
    BY ONLY <2>2, <2>3, <2>4
  <2> QED BY <2>1, <2>2, <2>5, SizeType
<1>4. PICK l \in 1 .. Len(memory_map) : /\ memory_map[l].available
                                        /\ memory_map[l].addr = global_mem_start
                                        /\ memory_map[l].len = global_mem_size
  BY <1>3 DEF LargestSoFar
<1>5. \A m \in 1 .. Len(memory_map) :
        memory_map[m].available => memory_map[m].len <= memory_map[l].len
  BY <1>1, <1>4 DEF LargestSoFar
<1> QED BY <1>4, <1>5

LEMMA LargestHolds == ASSUME MapsFit PROVE Spec => []LargestSoFar
<1>1. Init => LargestSoFar
  <2> SUFFICES ASSUME Init PROVE LargestSoFar
    OBVIOUS
  <2>1. /\ HoldsTheKernel(memory_map) /\ pc = "start" /\ i = 0 /\ global_mem_size = 0
        /\ \A k \in 1 .. Len(memory_map) : ~Read(k)
    BY DEF Init, Read
  <2> QED BY <2>1 DEF LargestSoFar
<1>2. Inv /\ LargestSoFar /\ [Next]_vars => LargestSoFar'
  BY StepLargest DEF Inv
<1> QED BY <1>1, <1>2, InvHolds, PTL DEF Spec

(* Of a memory map that the loop can read, the kernel selects an available *)
(* region than which none is larger.                                       *)
THEOREM LargestIsSelected == ASSUME MapsFit PROVE Spec => []SelectedIsLargest
<1>1. Inv /\ LargestSoFar => SelectedIsLargest
  <2> SUFFICES ASSUME TypeOK, LargestSoFar, pc \notin {"start", "select", "halted"}
               PROVE  \E region \in AvailableRegions :
                        /\ region.addr = global_mem_start
                        /\ region.len = global_mem_size
                        /\ \A other \in AvailableRegions : other.len <= region.len
    BY DEF SelectedIsLargest, Inv
  <2>1. PICK k \in 1 .. Len(memory_map) :
           /\ memory_map[k].available
           /\ memory_map[k].addr = global_mem_start
           /\ memory_map[k].len = global_mem_size
           /\ \A l \in 1 .. Len(memory_map) :
                memory_map[l].available => memory_map[l].len <= memory_map[k].len
    BY Largest
  <2>2. memory_map[k] \in AvailableRegions
    BY <2>1 DEF AvailableRegions
  <2>3. \A other \in AvailableRegions : other.len <= memory_map[k].len
    BY <2>1 DEF AvailableRegions
  <2> QED BY <2>1, <2>2, <2>3
<1> QED BY <1>1, InvHolds, LargestHolds, PTL

-----------------------------------------------------------------------------
(* The memory that the allocator manages. *)

(* The kernel is in the largest region of the map, not in its last byte,   *)
(* and the region ends where a page ends.                                  *)
KernelInLargest(map) ==
  \A k \in 1 .. Len(map) :
    /\ map[k].available
    /\ \A l \in 1 .. Len(map) : map[l].available => map[l].len <= map[k].len
    => /\ Contains(map[k], KernelStart, EndOfKernel + 1)
       /\ (map[k].addr + map[k].len) % PageSize = 0

(* What the allocator's region, which starts behind the kernel and is as   *)
(* long as what is left of the selected region, takes for granted.         *)
KernelInLargestRegion == \A map \in MemoryMaps : KernelInLargest(map)

(* A whole number of pages. *)
LEMMA WholePages ==
  ASSUME NEW k \in Nat PROVE number_of_blocks(PageSize * k) = k
<1>1. PICK bytes \in Int : bytes = PageSize * k + 0
  BY Parameters
<1>2. 0 \in 0 .. (PageSize - 1)
  BY Parameters
<1>3. bytes \div PageSize = k /\ bytes % PageSize = 0
  BY <1>1, <1>2, DivisionIs, Parameters
<1>4. bytes = PageSize * k
  BY <1>1, Parameters
<1>5. number_of_blocks(bytes) = k
  BY <1>3 DEF number_of_blocks
<1> QED BY <1>4, <1>5

(* The region ends with page last - 1, where the allocator's pages end. *)
LEMMA RegionPages ==
  ASSUME TypeOK, NEW addr \in Nat, NEW len \in Nat,
         addr = global_mem_start, len = global_mem_size,
         addr + len <= AddressSpace, EndOfKernel + 1 <= addr + len,
         (addr + len) % PageSize = 0
  PROVE  \E last \in Nat :
           /\ addr + len = PageSize * last
           /\ available_memory_size = PageSize * (last - pages_needed)
           /\ pages_needed <= last
<1>1. PICK last \in Int, r \in 0 .. (PageSize - 1) :
        (addr + len) \div PageSize = last /\ (addr + len) % PageSize = r /\ addr + len = PageSize * last + r
  BY Division, Parameters
<1>2. PICK end \in Nat : end = addr + len /\ end = PageSize * last
  BY <1>1, Parameters
<1>3. PICK first \in Int : first = PageSize * pages_needed
  BY KernelPages, Parameters
<1>4. /\ pages_needed \in Nat /\ EndOfKernel < first /\ first <= EndOfKernel + PageSize
      /\ memory_start = first
  BY <1>3, KernelPages DEF memory_start
<1>5. pages_needed <= last
  <2>1. last < pages_needed => end + PageSize <= first
    BY <1>2, <1>3, <1>4, Multiples, Parameters
  <2>2. EndOfKernel < end
    BY <1>2, Parameters
  <2> QED BY <1>2, <1>3, <1>4, <2>1, <2>2, Parameters
<1>6. end - first = PageSize * (last - pages_needed)
  BY <1>2, <1>3, <1>4, Parameters
<1>7. first <= end
  <2>1. ~(end < first)
    BY <1>2, <1>3, <1>4, <1>5, Multiples, Parameters
  <2> QED BY <1>2, <1>3, <2>1
<1>8. memory_end = low(end) /\ available_memory_size = low(memory_end - first)
  BY <1>2, <1>4 DEF memory_end, available_memory_size
<1>9. available_memory_size = end - first
  <2>1. CASE end < AddressSpace
    <3>1. low(end) = end
      BY <1>2, <2>1, LowIs, Parameters
    <3>2. low(end - first) = end - first
      BY <1>2, <1>3, <1>4, <1>7, <2>1, LowIs, Parameters
    <3> QED BY <1>8, <3>1, <3>2
  <2>2. CASE end = AddressSpace
    <3>1. 0 \in 0 .. (AddressSpace - 1) /\ AddressSpace - first \in 0 .. (AddressSpace - 1)
      BY <1>3, <1>4, <1>7, <2>2, Parameters
    <3>2. AddressSpace * 1 + 0 = AddressSpace /\ AddressSpace * (0 - 1) + (AddressSpace - first) = 0 - first
      BY <1>3, Parameters
    <3>3. (AddressSpace * 1 + 0) % AddressSpace = 0
      BY <3>1, DivisionIs, Parameters
    <3>4. (AddressSpace * (0 - 1) + (AddressSpace - first)) % AddressSpace = AddressSpace - first
      <4>1. 0 - 1 \in Int
        OBVIOUS
      <4> QED BY <3>1, <4>1, DivisionIs, Parameters
    <3>5. low(end) = 0
      BY <2>2, <3>2, <3>3 DEF low
    <3>6. low(0 - first) = AddressSpace - first
      BY <3>2, <3>4 DEF low
    <3> QED BY <1>8, <2>2, <3>5, <3>6
  <2> QED BY <1>2, <2>1, <2>2, Parameters
<1> QED BY <1>2, <1>4, <1>5, <1>6, <1>9

(* The pool is then the pages behind the kernel, up to the region's end.   *)
LEMMA PoolIs ==
  ASSUME InitializeMemory, NEW last \in Nat, pages_needed <= last,
         available_memory_size = PageSize * (last - pages_needed),
         PageSize * last <= AddressSpace
  PROVE  pages' = pages_needed .. (last - 1)
<1>1. PICK count \in Nat : count = last - pages_needed
  BY KernelPages
<1>2. number_of_blocks(available_memory_size) = count
  BY <1>1, WholePages
<1>3. pages' = {low(memory_start + k * PageSize) \div PageSize : k \in 0 .. (count - 1)}
  BY <1>2 DEF InitializeMemory
<1>4. \A k \in 0 .. (count - 1) :
        low(memory_start + k * PageSize) \div PageSize = pages_needed + k
  <2> SUFFICES ASSUME NEW k \in 0 .. (count - 1)
               PROVE  low(memory_start + k * PageSize) \div PageSize = pages_needed + k
    OBVIOUS
  <2>1. PICK p \in Nat : p = pages_needed + k /\ p < last
    BY <1>1, KernelPages
  <2>2. PICK at \in Int, end \in Int : at = PageSize * p /\ end = PageSize * last
    BY Parameters
  <2>3. at + PageSize <= end
    BY <2>1, <2>2, Multiples, Parameters
  <2>4. 0 <= at
    <3>1. ~(at < PageSize * 0)
      BY <2>1, <2>2, Multiples, Parameters
    <3>2. PageSize * 0 = 0
      BY Parameters
    <3> QED BY <2>2, <3>1, <3>2
  <2>5. memory_start + k * PageSize = at
    <3>1. memory_start = PageSize * pages_needed
      BY KernelPages DEF memory_start
    <3> QED BY <2>1, <2>2, <3>1, KernelPages, Parameters
  <2>6. low(at) = at
    BY <2>2, <2>3, <2>4, LowIs, Parameters
  <2>7. at \div PageSize = p
    <3>1. at = PageSize * p + 0 /\ 0 \in 0 .. (PageSize - 1)
      BY <2>2, Parameters
    <3>2. (PageSize * p + 0) \div PageSize = p
      BY ONLY <3>1, DivisionIs, Parameters, p \in Nat
    <3> QED BY <3>1, <3>2
  <2> QED BY <2>1, <2>5, <2>6, <2>7
<1>5. \A p : p \in pages_needed .. (last - 1)
               <=> \E k \in 0 .. (count - 1) : p = pages_needed + k
  <2> SUFFICES ASSUME NEW p
               PROVE  p \in pages_needed .. (last - 1)
                        <=> \E k \in 0 .. (count - 1) : p = pages_needed + k
    OBVIOUS
  <2>1. pages_needed \in Nat
    BY KernelPages
  <2>2. ASSUME p \in pages_needed .. (last - 1)
        PROVE  \E k \in 0 .. (count - 1) : p = pages_needed + k
    <3>1. p - pages_needed \in 0 .. (count - 1) /\ p = pages_needed + (p - pages_needed)
      BY <1>1, <2>1, <2>2
    <3> QED BY <3>1
  <2>3. ASSUME NEW k \in 0 .. (count - 1), p = pages_needed + k
        PROVE  p \in pages_needed .. (last - 1)
    BY <1>1, <2>1, <2>3
  <2> QED BY <2>2, <2>3
<1> QED BY <1>3, <1>4, <1>5

LEMMA StepManaged ==
  ASSUME TypeOK, TypeOK', MapsFit, KernelInLargestRegion, LargestSoFar,
         ManagedMemoryIsAvailable, [Next]_vars
  PROVE  ManagedMemoryIsAvailable'
<1>1. CASE InitializeMemory
  <2>1. pc = "memory" /\ memory_map' = memory_map
    BY <1>1 DEF InitializeMemory, selection
  <2>2. PICK k \in 1 .. Len(memory_map) :
          /\ memory_map[k].available
          /\ memory_map[k].addr = global_mem_start
          /\ memory_map[k].len = global_mem_size
          /\ \A l \in 1 .. Len(memory_map) :
               memory_map[l].available => memory_map[l].len <= memory_map[k].len
    BY <2>1, Largest
  <2>3. PICK addr \in Nat, len \in Nat : addr = memory_map[k].addr /\ len = memory_map[k].len
    BY MapType
  <2>4. addr + len <= AddressSpace
    BY <2>2, <2>3, MapType DEF MapsFit
  <2>5. /\ addr <= KernelStart /\ EndOfKernel + 1 <= addr + len
        /\ (addr + len) % PageSize = 0
    BY <2>2, <2>3, MapType DEF KernelInLargestRegion, KernelInLargest, Contains
  <2>6. PICK last \in Nat : /\ addr + len = PageSize * last
                            /\ available_memory_size = PageSize * (last - pages_needed)
                            /\ pages_needed <= last
    BY <2>2, <2>3, <2>4, <2>5, RegionPages
  <2>7. pages' = pages_needed .. (last - 1)
    BY <1>1, <2>4, <2>6, PoolIs
  <2>8. memory_map[k] \in AvailableRegions'
    BY <2>1, <2>2 DEF AvailableRegions
  <2>9. ASSUME NEW p \in pages_needed .. (last - 1)
        PROVE  /\ Contains(memory_map[k], p * PageSize, (p + 1) * PageSize)
               /\ p * PageSize >= EndOfKernel
    <3>1. p \in Nat /\ pages_needed \in Nat /\ pages_needed <= p /\ p < last
      BY KernelPages
    <3>2. PICK first \in Int, at \in Int, end \in Int :
            /\ first = PageSize * pages_needed /\ at = PageSize * p /\ end = PageSize * last
      BY <3>1, Parameters
    <3>3. at + PageSize <= end
      BY <3>1, <3>2, Multiples, Parameters
    <3>4. first <= at
      <4>1. ~(at < first)
        BY <3>1, <3>2, Multiples, Parameters
      <4> QED BY <3>2, <4>1
    <3>5. p * PageSize = at /\ (p + 1) * PageSize = at + PageSize
      BY <3>1, <3>2, Parameters
    <3>6. EndOfKernel < first /\ KernelStart < EndOfKernel /\ KernelStart \in Nat
          /\ EndOfKernel \in Nat
      BY <3>2, KernelPages, BootAssumption
    <3>7. addr + len = end
      BY <2>6, <3>2
    <3>8. addr <= at /\ at + PageSize <= addr + len /\ at >= EndOfKernel
      BY <2>5, <3>2, <3>3, <3>4, <3>6, <3>7, Parameters
    <3> QED BY <2>3, <3>5, <3>8 DEF Contains
  <2> QED BY <2>7, <2>8, <2>9 DEF ManagedMemoryIsAvailable
<1>2. CASE ~InitializeMemory
  <2>1. UNCHANGED <<pages, memory_map>>
    <3>1. CASE UNCHANGED vars
      BY <3>1 DEF vars, selection, allocator
    <3>2. CASE MemoryAnswers
      BY <3>2 DEF MemoryAnswers, memory!Grant, memory!Refuse, selection
    <3>3. CASE AskForDirectory \/ AskForTable
      BY <3>3, AskIs DEF AskForDirectory, AskForTable, selection
    <3>4. CASE Next /\ ~MemoryAnswers /\ ~AskForDirectory /\ ~AskForTable
      BY <1>2, <3>4 DEF Next, KernelMain, SelectEntry, Selected, PlaceDirectory,
           PlaceTable, MapPage, NextTable, EnablePaging, selection, allocator
    <3> QED BY <3>1, <3>2, <3>3, <3>4
  <2>2. AvailableRegions' = AvailableRegions
    BY <2>1 DEF AvailableRegions
  <2> QED BY <2>1, <2>2 DEF ManagedMemoryIsAvailable
<1> QED BY <1>1, <1>2

(* When the largest region is the one the kernel lies in, the allocator    *)
(* manages available memory behind the kernel, and only that: neither the  *)
(* address arithmetic in 32 bits nor the rounding to pages goes astray.    *)
THEOREM ManagedMemoryStaysAvailable ==
  ASSUME MapsFit, KernelInLargestRegion PROVE Spec => []ManagedMemoryIsAvailable
<1>1. Init => ManagedMemoryIsAvailable
  BY DEF Init, ManagedMemoryIsAvailable
<1>2. /\ TypeOK /\ LargestSoFar /\ ManagedMemoryIsAvailable /\ TypeOK' /\ [Next]_vars
      => ManagedMemoryIsAvailable'
  BY StepManaged
<1> QED BY <1>1, <1>2, TypeCorrect, LargestHolds, PTL DEF Spec

(* The directory and the tables then lie in granted pages of their own,    *)
(* behind the kernel, and no other page is granted.                        *)
THEOREM TablesKeepPagesOfTheirOwn ==
  ASSUME MapsFit, KernelInLargestRegion PROVE Spec => []TablesHavePagesOfTheirOwn
<1>1. Inv /\ ManagedMemoryIsAvailable => TablesHavePagesOfTheirOwn
  <2> SUFFICES ASSUME Inv, ManagedMemoryIsAvailable, RunsWithEnoughMemory
               PROVE  /\ held = Tables \cup {kernel_page_directory}
                      /\ Cardinality(held) = 1 + page_tables_needed
                      /\ \A p \in held : p * PageSize >= EndOfKernel
    BY DEF TablesHavePagesOfTheirOwn
  <2>1. pc = "running" /\ Enough
    BY DEF RunsWithEnoughMemory, Enough
  <2>2. TypeOK /\ Progress /\ Built
    BY <2>1 DEF Inv
  <2>3. /\ TreeOf(content, kernel_page_directory, held, page_tables_needed, current_page)
        /\ Cardinality(held) = 1 + page_tables_needed
    BY <2>1, <2>2 DEF Progress, Built
  <2>4. held = {kernel_page_directory} \cup
                 {content[kernel_page_directory][t].address : t \in 0 .. (page_tables_needed - 1)}
    BY <2>3 DEF TreeOf
  <2>5. held \subseteq pages
    BY <2>2 DEF TypeOK
  <2> QED BY <2>3, <2>4, <2>5 DEF Tables, ManagedMemoryIsAvailable
<1> QED BY <1>1, InvHolds, ManagedMemoryStaysAvailable, PTL

-----------------------------------------------------------------------------
(* Every step brings the start of the kernel closer to its end. *)

(* What the loops over the tables and over their pages have left to do. *)
TablesLeft == 5 * (page_tables_needed - i) + (pages_needed - current_page)

AllTables == 5 * page_tables_needed + pages_needed

(* No more steps than these are left of the start. *)
Remaining ==
  CASE pc = "start"     -> AllTables + 20
    [] pc = "select"    -> AllTables + 19 - i
    [] pc = "memory"    -> AllTables + 8
    [] pc = "directory" -> AllTables + 7
    [] pc = "place_directory" -> AllTables + IF call = "none" THEN 5 ELSE 6
    [] pc = "tables"      -> TablesLeft + 4
    [] pc = "place_table" -> TablesLeft + IF call = "none" THEN 2 ELSE 3
    [] pc = "map"         -> TablesLeft + 1
    [] OTHER              -> 0

(* Every step lowers what remains. *)
RunsDown == Remaining' < Remaining

(* What the loops count, in numbers. *)
LEMMA Counters ==
  ASSUME TypeOK, Progress
  PROVE  /\ i \in Nat /\ current_page \in Nat /\ current_page <= pages_needed
         /\ page_tables_needed \in Nat /\ pages_needed \in Nat
         /\ pc \in {"start", "memory", "directory", "place_directory"} => i = 0
         /\ pc = "select" => i <= 10
         /\ pc \in {"tables", "place_table", "map"} => i <= page_tables_needed
         /\ pc \in {"start", "select", "memory", "directory", "place_directory"} =>
              current_page = 0
<1>1. i \in Nat /\ current_page \in Nat
  <2>1. i \in 0 .. 10 \/ i \in Slot \/ i = Slots
    BY DEF TypeOK
  <2>2. i \in 0 .. 10 => i \in Nat
    OBVIOUS
  <2>3. i \in Slot \/ i = Slots => i \in Nat
    BY SlotType, Parameters
  <2>4. current_page \in Nat
    BY FramesType DEF TypeOK
  <2> QED BY <2>1, <2>2, <2>3, <2>4
<1>2. page_tables_needed \in Nat /\ pages_needed \in Nat
  BY TableCount, KernelPages
<1>3. pc \in {"tables", "place_table", "map"} => i <= page_tables_needed
  <2> PICK t \in Nat : t = page_tables_needed
    BY <1>2
  <2>1. CASE pc = "tables"
    <3>1. i \in 0 .. t
      BY <2>1 DEF Progress
    <3> QED BY <3>1
  <2>2. CASE pc \in {"place_table", "map"}
    <3>1. i \in 0 .. (t - 1)
      BY <2>2 DEF Progress
    <3> QED BY <3>1
  <2> QED BY <2>1, <2>2
<1>4. pc = "select" => i <= 10
  BY DEF Progress
<1>5. /\ pc \in {"start", "memory", "directory", "place_directory"} => i = 0
      /\ pc \in {"start", "select", "memory", "directory", "place_directory"} =>
           current_page = 0
      /\ current_page <= pages_needed
  BY DEF Progress
<1> QED BY <1>1, <1>2, <1>3, <1>4, <1>5

LEMMA RemainingType ==
  ASSUME TypeOK, Progress
  PROVE  /\ Remaining \in 0 .. (AllTables + 20)
         /\ Remaining = 0 <=> pc \in {"running", "halted"}
<1> PICK k, c, t, n : k = i /\ c = current_page /\ t = page_tables_needed /\ n = pages_needed
  OBVIOUS
<1>1. /\ k \in Nat /\ c \in Nat /\ t \in Nat /\ n \in Nat /\ c <= n
      /\ pc = "select" => k <= 10
      /\ pc \in {"tables", "place_table", "map"} => k <= t
  BY Counters
<1>2. pc \in {"start", "select", "memory", "directory", "place_directory",
              "tables", "place_table", "map", "running", "halted"}
  BY DEF TypeOK
<1> QED BY <1>1, <1>2 DEF Remaining, TablesLeft, AllTables

(* An iteration over the memory map, and the steps before and after it. *)
LEMMA SelectionRunsDown ==
  ASSUME TypeOK, Progress, KernelMain \/ SelectEntry \/ Selected \/ InitializeMemory
  PROVE  RunsDown
<1> PICK all, k : all = AllTables /\ k = i
  OBVIOUS
<1>1. all \in Nat /\ k \in Nat
  BY Counters DEF AllTables
<1>2. AllTables' = AllTables
  BY DEF AllTables, page_tables_needed, pages_needed
<1>3. CASE KernelMain
  BY <1>1, <1>2, <1>3, Counters DEF KernelMain, RunsDown, Remaining
<1>4. CASE SelectEntry
  <2>1. pc = "select" /\ pc' = "select" /\ i' = k + 1
    BY <1>4 DEF SelectEntry
  <2>2. Remaining = all + 19 - k /\ Remaining' = all + 19 - (k + 1)
    BY <1>2, <2>1 DEF Remaining
  <2> QED BY <1>1, <2>2 DEF RunsDown
<1>5. CASE Selected
  <2>1. pc = "select" /\ pc' = "memory" /\ k <= 10
    BY <1>5, Counters DEF Selected
  <2>2. Remaining = all + 19 - k /\ Remaining' = all + 8
    BY <1>2, <2>1 DEF Remaining
  <2> QED BY <1>1, <2>1, <2>2 DEF RunsDown
<1>6. CASE InitializeMemory
  BY <1>1, <1>2, <1>6 DEF InitializeMemory, RunsDown, Remaining
<1> QED BY <1>3, <1>4, <1>5, <1>6

(* The directory and the tables: the outer loop counts i, the inner loop    *)
(* current_page, and neither is ever set back.                              *)
LEMMA TablesRunDown ==
  ASSUME TypeOK, Progress,
         \/ MemoryAnswers \/ AskForDirectory \/ PlaceDirectory \/ AskForTable
         \/ PlaceTable \/ MapPage \/ NextTable \/ EnablePaging
  PROVE  RunsDown
<1> PICK k, c, t, n, left : /\ k = i /\ c = current_page
                            /\ t = page_tables_needed /\ n = pages_needed
                            /\ left = 5 * (t - k) + (n - c)
  OBVIOUS
<1>1. /\ k \in Nat /\ c \in Nat /\ t \in Nat /\ n \in Nat /\ c <= n
      /\ pc = "place_directory" => k = 0 /\ c = 0
      /\ pc = "tables" => k <= t
  BY Counters
<1>2. /\ AllTables = 5 * t + n /\ AllTables' = 5 * t + n
      /\ TablesLeft = left /\ left \in Int
      /\ page_tables_needed' = t /\ pages_needed' = n
  BY <1>1 DEF AllTables, TablesLeft, page_tables_needed, pages_needed
<1>3. CASE MemoryAnswers
  <2>1. /\ pc \in {"place_directory", "place_table"} /\ pc' = pc
        /\ call = "allocate" /\ call' = "none" /\ i' = i /\ current_page' = current_page
    BY <1>3, AnswerIs DEF paging
  <2>2. TablesLeft' = left
    BY <1>2, <2>1 DEF TablesLeft
  <2> QED BY <1>1, <1>2, <2>1, <2>2 DEF RunsDown, Remaining
<1>4. CASE AskForDirectory
  BY <1>1, <1>2, <1>4, AskIs DEF AskForDirectory, RunsDown, Remaining
<1>5. CASE PlaceDirectory
  <2>1. pc = "place_directory" /\ pc' = "tables" /\ i' = 0 /\ current_page' = 0 /\ call = "none"
    BY <1>1, <1>5 DEF PlaceDirectory
  <2>2. Remaining = 5 * t + n + 5 /\ Remaining' = 5 * (t - 0) + (n - 0) + 4
    BY <1>2, <2>1 DEF Remaining, TablesLeft
  <2> QED BY <1>1, <2>2 DEF RunsDown
<1>6. CASE AskForTable
  <2>1. /\ pc = "tables" /\ pc' = "place_table" /\ call' = "allocate"
        /\ UNCHANGED <<i, current_page>>
    BY <1>6, AskIs DEF AskForTable, paging
  <2>2. TablesLeft' = left
    BY <1>2, <2>1 DEF TablesLeft
  <2> QED BY <1>2, <2>1, <2>2 DEF RunsDown, Remaining
<1>7. CASE PlaceTable
  <2>1. /\ pc = "place_table" /\ pc' = "map" /\ call = "none"
        /\ UNCHANGED <<i, current_page>>
    BY <1>7 DEF PlaceTable
  <2>2. TablesLeft' = left
    BY <1>2, <2>1 DEF TablesLeft
  <2> QED BY <1>2, <2>1, <2>2 DEF RunsDown, Remaining
<1>8. CASE MapPage
  <2>1. pc = "map" /\ pc' = "map" /\ i' = k /\ current_page' = c + 1
    BY <1>8 DEF MapPage
  <2>2. Remaining = left + 1 /\ Remaining' = 5 * (t - k) + (n - (c + 1)) + 1
    BY <1>2, <2>1 DEF Remaining, TablesLeft
  <2> QED BY <1>1, <2>2 DEF RunsDown
<1>9. CASE NextTable
  <2>1. pc = "map" /\ pc' = "tables" /\ i' = k + 1 /\ current_page' = c
    BY <1>9 DEF NextTable, paging
  <2>2. Remaining = left + 1 /\ Remaining' = 5 * (t - (k + 1)) + (n - c) + 4
    BY <1>2, <2>1 DEF Remaining, TablesLeft
  <2> QED BY <1>1, <2>2 DEF RunsDown
<1>10. CASE EnablePaging
  <2>1. pc = "tables" /\ pc' = "running"
    BY <1>10 DEF EnablePaging
  <2>2. Remaining = left + 4 /\ Remaining' = 0 /\ k <= t
    BY <1>1, <1>2, <2>1 DEF Remaining
  <2> QED BY <1>1, <2>2 DEF RunsDown
<1> QED BY <1>3, <1>4, <1>5, <1>6, <1>7, <1>8, <1>9, <1>10

(* Whatever the memory map, the kernel and the allocator's answers: the     *)
(* start of the kernel ends. What remains of it is a natural number that    *)
(* each of its steps lowers, and that is 0 exactly when the kernel runs or  *)
(* has halted. It is BootEnds, but for the fairness that makes steps        *)
(* happen.                                                                  *)
THEOREM StartRunsDown ==
  Spec => /\ [](/\ Remaining \in 0 .. (AllTables + 20)
                /\ Remaining = 0 <=> pc \in {"running", "halted"})
          /\ [][RunsDown]_vars
<1>1. TypeOK /\ Progress =>
        /\ Remaining \in 0 .. (AllTables + 20)
        /\ Remaining = 0 <=> pc \in {"running", "halted"}
  BY RemainingType
<1>2. Inv => TypeOK /\ Progress
  BY DEF Inv
<1>3. Inv /\ [Next]_vars => [RunsDown]_vars
  BY <1>2, SelectionRunsDown, TablesRunDown DEF Next
<1> QED BY <1>1, <1>2, <1>3, InvHolds, PTL DEF Spec

=============================================================================
