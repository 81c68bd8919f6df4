-------------------------------- MODULE Heap --------------------------------
(* A program that uses the heap: its callers hold blocks, fill them, and     *)
(* make any call of the allocator's interface in any order, while the system *)
(* below may refuse memory, place it elsewhere, or have brk moved by others. *)
EXTENDS MallocChecks, MallocSpaces

CONSTANTS
  Slots,                  \* where callers keep the blocks they are given
  OldSlots,               \* and the ones they hold from the start
  Programs                \* what a program calls, and the system it runs on

VARIABLES
  program,                \* the one of Programs that runs
  heap,                   \* _gm_ and the memory
  live,                   \* the block in each slot
  limit,                  \* the footprint limit that was asked for last
  broken                  \* promises about contents that the last call broke

vars == <<program, heap, live, limit, broken>>

Block(mem, bytes) == [mem |-> mem, bytes |-> bytes]
NoBlock == Block(0, 0)
AllSlots == Slots \cup OldSlots
Live == {s \in AllSlots : live[s] # NoBlock}
Calm == [map |-> "near", unmap |-> TRUE, remap |-> TRUE, brk |-> "moves"]

\* _gm_ lies in static storage, which is zero: the trees and the first segment too
gm_address == 8
EmptyHeap(system) ==
  [at |-> gm_address, global |-> TRUE, aborted |-> FALSE,
   mem |-> [a \in {treebin_at([at |-> gm_address], i) : i \in 0 .. NTREEBINS + 3} |-> 0],
   smallmap |-> {}, treemap |-> {}, dv |-> 0, dvsize |-> 0, top |-> 0, topsize |-> 0,
   least_addr |-> 0, trim_check |-> 0, release_checks |-> 0,
   footprint |-> 0, max_footprint |-> 0, footprint_limit |-> 0, mflags |-> {},
   mparams |-> [magic |-> FALSE, granularity |-> 0, mmap_threshold |-> 0, trim_threshold |-> 0],
   sys |-> [brk |-> system.brk, ceiling |-> system.ceiling, maps |-> {}, held |-> 0, lent |-> <<0, 0>>,
           foreign |-> {}],
   env |-> Calm, io |-> 0, ret |-> 0, out |-> <<>>, error |-> "none"]

\* what the next call need not know of the last one
Settled(m) == [m EXCEPT !.io = 0, !.ret = 0, !.out = <<>>, !.error = "none", !.env = Calm]

(* A caller fills its block: the first and the last word show it.            *)
MarksOf(b) == IF b.bytes = 0 THEN {}
              ELSE {b.mem, b.mem + ((b.bytes - 1) \div SIZE_T_SIZE) * SIZE_T_SIZE}
Fill(m, s, b) == Store(Forget(m, b.mem, b.mem + dlmalloc_usable_size(m, b.mem)),
                       [a \in MarksOf(b) |-> s])

\* blocks: the slots of a call and the blocks it returned for them
Hand(m, blocks) ==
  LET got == {s \in DOMAIN blocks : blocks[s].mem # 0}
  IN  /\ heap' = Settled(FoldSet(LAMBDA s, acc : Fill(acc, s, blocks[s]), m, got))
      /\ live' = Restrict(blocks, got) @@ live
      /\ UNCHANGED <<program, limit>>
HandOne(m, s, n) == Hand(m, s :> Block(m.ret, n))
Take(m, slots) ==
  /\ heap' = Settled(m)
  /\ live' = [s \in slots |-> NoBlock] @@ live
  /\ UNCHANGED <<program, limit>>

\* a program that makes a space of its own has no other heap
Uses(name) == name \in program.calls /\ (program.spaces # {} => ~heap.global)
Systems == {[heap EXCEPT !.env = e] : e \in program.environments}
LiveChunks == {mem2chunk(live[s].mem) : s \in Live}
MmappedChunks == {q \in LiveChunks : is_mmapped(heap, q)}
MmappedRegions ==
  {<<q - prev_foot(heap, q), q + chunksize(heap, q) + MMAP_FOOT_PAD>> : q \in MmappedChunks}
Extents(S) == MapThenSumSet(LAMBDA x : x[2] - x[1], S)
\* slots that the program may fill, and the ones it may give back
MayFill(slots) == /\ \A s \in slots : live[s] = NoBlock
                  /\ Cardinality(Live \cup slots) <= program.most
MayFree(s) == live[s] # NoBlock /\ s \notin program.kept
OnlyMalloc == program.calls \subseteq {"malloc", "free"}
Promise(name, kept) == broken' = IF kept THEN {} ELSE {name}

-----------------------------------------------------------------------------
Given(m, live0, s, b) == [heap |-> Settled(Fill(m, s, b)), live |-> [live0 EXCEPT ![s] = b]]
GivenBytes(m, live0, s, bytes) == Given(m, live0, s, Block(m.ret, bytes))
Step(state, do) ==
  IF do.bytes = 0
  THEN [heap |-> Settled(dlfree(state.heap, state.live[do.slot].mem)),
        live |-> [state.live EXCEPT ![do.slot] = NoBlock]]
  ELSE GivenBytes(dlmalloc(state.heap, do.bytes), state.live, do.slot, do.bytes)

\* the calls that brought the program to where it is observed from
Started(p) == FoldLeft(Step, [heap |-> EmptyHeap(p.system), live |-> [s \in AllSlots |-> NoBlock]],
                       p.start)

Init ==
  /\ program \in Programs
  /\ \E state \in {Started(program)} : heap = state.heap /\ live = state.live
  /\ limit = MAX_SIZE_T
  /\ broken = {}

Malloc(s, n) ==
  /\ Uses("malloc") /\ MayFill({s})
  /\ \E h \in Systems : HandOne(IF h.global THEN dlmalloc(h, n) ELSE mspace_malloc(h, n), s, n)
  /\ Promise("malloc", TRUE)

Free(s) ==
  /\ Uses("free") /\ MayFree(s)
  /\ \E h \in Systems : Take(IF h.global THEN dlfree(h, live[s].mem)
                             ELSE mspace_free(h, live[s].mem), {s})
  /\ Promise("free", TRUE)

\* every element is zero, whether it was cleared or is fresh from the system
IsZero(m, b) ==
  IF is_mmapped(m, mem2chunk(b.mem))
  THEN \A a \in WordsOf(b.mem, b.bytes) \cap DOMAIN m.mem : m.mem[a] = 0
  ELSE \A a \in WordsOf(b.mem, b.bytes) : a \in DOMAIN m.mem /\ m.mem[a] = 0

Arrayed(m, s, bytes) ==
  /\ HandOne(m, s, bytes)
  /\ Promise("calloc", m.ret # 0 /\ bytes > 0 => IsZero(m, Block(m.ret, bytes)))
Calloc(s, n, e) ==
  /\ Uses("calloc") /\ MayFill({s})
  /\ \E h \in Systems : Arrayed(dlcalloc(h, n, e), s, n * e)

\* the marks that both the old and the new block have room for
Keeps(m, s, old, new) ==
  \A a \in MarksOf(old) : (a - old.mem) + SIZE_T_SIZE <= new.bytes =>
    LET moved == new.mem + (a - old.mem) IN moved \in DOMAIN m.mem /\ m.mem[moved] = s

Reallocated(s, m, n) ==
  LET new == IF m.ret = 0 THEN live[s] ELSE Block(m.ret, n)
  IN  Hand(m, s :> new) /\ Promise("realloc", Keeps(m, s, live[s], new))
Realloc(s, n) ==
  /\ Uses("realloc") /\ MayFree(s)
  /\ \E h \in Systems : Reallocated(s, dlrealloc(h, live[s].mem, n), n)
ReallocInPlace(s, n) ==
  /\ Uses("realloc_in_place") /\ MayFree(s)
  /\ \E h \in Systems : Reallocated(s, dlrealloc_in_place(h, live[s].mem, n), n)

\* an alignment that is no power of two stands for the next one that is
IsAligned(m, a) == m.ret % 2^LeastOf({k \in 0 .. SIZE_T_BITSIZE : 2^k >= a}) = 0
Aligned(s, m, a, n) == HandOne(m, s, n) /\ Promise("memalign", IsAligned(m, a))
\* the reason why there is no block: the alignment is wrong, else there is no memory
ExplainsItself(m, a) ==
  LET power == \E k \in 0 .. SIZE_T_BITSIZE : a = 2^k
  IN  m.error = IF ~power \/ a < SIZE_T_SIZE THEN "EINVAL" ELSE IF m.ret = 0 THEN "ENOMEM" ELSE "none"
AlignedOrError(s, m, a, n) ==
  HandOne(m, s, n) /\ Promise("posix_memalign", IsAligned(m, a) /\ ExplainsItself(m, a))
Memalign(s, a, n) ==
  /\ Uses("memalign") /\ MayFill({s})
  /\ \E h \in Systems : Aligned(s, dlmemalign(h, a, n), a, n)
PosixMemalign(s, a, n) ==
  /\ Uses("posix_memalign") /\ MayFill({s})
  /\ \E h \in Systems : AlignedOrError(s, dlposix_memalign(h, a, n), a, n)
Valloc(s, n) ==
  /\ Uses("valloc") /\ MayFill({s})
  /\ \E h \in Systems : \/ Aligned(s, dlvalloc(h, n), page_size, n)
                        \/ Aligned(s, dlpvalloc(h, n), page_size, page_align(n))

\* the pointers into slots ss; the array that holds them, when it is allocated, into s
Independent(ss, s, m, bytes, own, clear) ==
  LET element(t) == CHOOSE i \in DOMAIN ss : ss[i] = t
      elements == [t \in Range(ss) |-> Block(m.out[element(t)], bytes[element(t)])]
      array == IF own THEN <<>> ELSE s :> Block(m.ret, Len(ss) * SIZE_T_SIZE)
      failed == m.out = <<>>
  IN  /\ Hand(m, IF failed THEN <<>> ELSE elements @@ array)
      /\ Promise("independent", ~failed /\ clear => \A t \in Range(ss) : IsZero(m, elements[t]))
Rows(k, S) == {ss \in [1 .. k -> S] : IsInjective(ss)}
IndependentCalloc(ss, s, e, own) ==
  /\ Uses("independent") /\ s \notin Range(ss) /\ MayFill(Range(ss) \cup {s})
  /\ \E h \in Systems : Independent(ss, s, dlindependent_calloc(h, Len(ss), e, own),
                                    [i \in DOMAIN ss |-> e], own, TRUE)
IndependentComalloc(ss, s, sizes, own) ==
  /\ Uses("independent") /\ s \notin Range(ss) /\ MayFill(Range(ss) \cup {s})
  /\ \E h \in Systems : Independent(ss, s, dlindependent_comalloc(h, sizes, own), sizes, own, FALSE)

BulkFree(ss) ==
  /\ Uses("bulk_free")
  /\ \E h \in Systems : Take(dlbulk_free(h, [i \in DOMAIN ss |-> live[ss[i]].mem]), Range(ss))
  /\ Promise("bulk_free", TRUE)

Trim(pad) ==
  /\ Uses("trim")
  /\ \E h \in Systems : Take(IF h.global THEN dlmalloc_trim(h, pad) ELSE mspace_trim(h, pad), {})
  /\ Promise("trim", TRUE)
SetFootprintLimit(bytes) ==
  /\ Uses("footprint_limit")
  /\ heap' = Settled(dlmalloc_set_footprint_limit(heap, bytes))
  /\ limit' = bytes
  /\ UNCHANGED <<program, live>>
  /\ Promise("footprint_limit", TRUE)
Mallopt(param, value) ==
  /\ Uses("mallopt")
  /\ Take(dlmallopt(heap, param, value), {})
  /\ Promise("mallopt", TRUE)

(* A space on memory from the system or on the caller's own.                 *)
Created(m) == /\ heap' = IF m.ret = 0 THEN [Settled(m) EXCEPT !.sys.lent = <<0, 0>>] ELSE Settled(m)
              /\ UNCHANGED <<program, live, limit, broken>>
CreateMspace(capacity) ==
  /\ heap.global
  /\ \E h \in Systems : Created(create_mspace(h, capacity))
CreateMspaceWithBase(base, capacity) ==
  /\ heap.global
  /\ Created(create_mspace_with_base([heap EXCEPT !.sys.lent = <<base, base + capacity>>],
                                     base, capacity))
TrackLargeChunks(enable) ==
  /\ Uses("track_large_chunks")
  /\ Take(mspace_track_large_chunks(heap, enable), {})
  /\ Promise("track_large_chunks", TRUE)

\* all but the large chunks that were not tracked, and what the caller lent
GivesBack(m) == /\ m.sys.maps = UNION {PagesOf(x[1], x[2] - x[1]) : x \in MmappedRegions}
                /\ m.ret = heap.sys.held - Extents(MmappedRegions)
(* Whatever blocks the space still had are gone with it.  The program ends   *)
(* with its space (a bound), so that its next run starts from the beginning. *)
DestroyMspace ==
  /\ Uses("destroy_mspace")
  /\ heap' = EmptyHeap(program.system)
  /\ live' = [s \in AllSlots |-> NoBlock]
  /\ Promise("destroy_mspace", GivesBack(destroy_mspace(heap)))
  /\ UNCHANGED <<program, limit>>

\* someone else takes memory with sbrk
ForeignSbrk(n) ==
  /\ Uses("sbrk") /\ heap.sys.brk + n <= heap.sys.ceiling
  /\ Cardinality(heap.sys.foreign) < program.most_sbrks
  /\ heap' = [heap EXCEPT !.sys.brk = @ + n, !.sys.foreign = @ \cup {<<heap.sys.brk, heap.sys.brk + n>>}]
  /\ UNCHANGED <<program, live, limit, broken>>

Next ==
  \/ \E s \in Slots, n \in program.sizes : Malloc(s, n)
  \/ \E s \in AllSlots, n \in program.sizes : Realloc(s, n) \/ ReallocInPlace(s, n)
  \/ \E s \in AllSlots : Free(s)
  \/ \E s \in Slots, a \in program.arrays : Calloc(s, a[1], a[2])
  \/ \E s \in Slots, a \in program.alignments, n \in program.sizes :
       Memalign(s, a, n) \/ PosixMemalign(s, a, n)
  \/ \E s \in Slots, n \in program.sizes : Valloc(s, n)
  \/ \E own \in BOOLEAN, s \in Slots : \E k \in 1 .. 2 : \E ss \in Rows(k, Slots \ Live) :
       \/ \E e \in program.sizes : IndependentCalloc(ss, s, e, own)
       \/ \E sizes \in [1 .. k -> program.sizes] : IndependentComalloc(ss, s, sizes, own)
  \/ \E k \in 1 .. 3 : \E ss \in Rows(k, Live \ program.kept) : BulkFree(ss)
  \/ \E pad \in program.sizes \cup {0} : Trim(pad)
  \/ \E bytes \in program.limits : SetFootprintLimit(bytes)
  \/ \E o \in program.options : Mallopt(o[1], o[2])
  \/ \E n \in program.sbrks : ForeignSbrk(n)
  \/ \E capacity \in program.spaces : CreateMspace(capacity)
  \/ \E x \in program.loans : CreateMspaceWithBase(x[1], x[2])
  \/ \E enable \in BOOLEAN : TrackLargeChunks(enable)
  \/ DestroyMspace

Spec == Init /\ [][Next]_vars

-----------------------------------------------------------------------------
(* What it all is for.                                                       *)
InUse == {q \in ChunksBelowTop(heap) : is_inuse(heap, q)}
FreeChunks == {q \in ChunksBelowTop(heap) : ~is_inuse(heap, q)}
Records == {mem2chunk(segments(heap)[i]) : i \in 2 .. Len(segments(heap))}
OwnState == IF heap.global THEN {} ELSE {mem2chunk(heap.at)}

(* The heap's own account of itself is right after every call: each bin and  *)
(* tree holds exactly the free chunks of its sizes, sizes and flags at both  *)
(* ends of every chunk agree, no two free chunks are neighbours, top and dv  *)
(* are where they should be, and no check of a pointer fails on the way.     *)
HeapIsConsistent ==
  /\ ~heap.aborted
  /\ do_check_malloc_state(heap)
  /\ use_mmap(heap) => \A q \in MmappedChunks : do_check_mmapped_chunk(heap, q)

(* A block has the room that was asked for, for an array the product of its  *)
(* two numbers, and what its caller wrote into it stays there whatever other *)
(* callers do.                                                               *)
BlocksStayIntact ==
  \A s \in Live :
    LET b == live[s]
    IN  /\ is_aligned(b.mem) /\ dlmalloc_usable_size(heap, b.mem) >= b.bytes
        /\ \A w \in MarksOf(b) : w \in DOMAIN heap.mem /\ heap.mem[w] = s

(* calloc's and independent_calloc's blocks are zero, realloc's keep their   *)
(* contents up to the smaller size, wherever the block is afterwards, and    *)
(* memalign's are aligned; posix_memalign blames the alignment when that is  *)
(* wrong and lack of memory only when no block was found.  destroy_mspace    *)
(* gives back every segment that the space got from the system and says how  *)
(* much that was; it keeps what the caller lent and loses the large chunks   *)
(* that were not tracked, only those.                                        *)
PromisesAreKept == broken = {}

(* A chunk is in use exactly when a caller holds it or it is the record of a *)
(* segment: free, realloc, memalign and the calls on several chunks forget   *)
(* no remainder and give no chunk out twice.                                 *)
NothingLeaks ==
  /\ LiveChunks = (InUse \ (Records \cup OwnState)) \cup MmappedChunks
  /\ Cardinality(LiveChunks) = Cardinality(Live)

(* malloc takes a free chunk whenever one fits, the smallest one for a large *)
(* request, then top, and turns to the system only when neither has room.    *)
(* It leaves the block no more room than makes a chunk beyond what it needs. *)
MallocTakesWhatFits ==
  [][\A s \in Slots : live[s] = NoBlock /\ live'[s] # NoBlock /\ OnlyMalloc =>
       LET n == live'[s].bytes
           nb == request2size(n)
           q == mem2chunk(live'[s].mem)
           fitting == {x \in FreeChunks : chunksize(heap, x) >= nb}
       IN  /\ do_check_malloced_chunk(heap', live'[s].mem, nb)
           /\ IF fitting = {} THEN heap.topsize > nb => q = heap.top
              ELSE /\ q \in fitting
                   /\ n > MAX_SMALL_REQUEST =>
                        \A x \in fitting : chunksize(heap, q) <= chunksize(heap, x)]_vars

(* The callers' view: calls give, resize and take back extents that never    *)
(* overlap, and leave the extents of all other slots as they are.            *)
Blocks == INSTANCE HeapBlocks WITH
  Slots <- AllSlots,
  extent <- [s \in AllSlots |->
               IF live[s] = NoBlock THEN <<0, 0>>
               ELSE <<live[s].mem, live[s].mem + dlmalloc_usable_size(heap, live[s].mem)>>]
ImplementsHeapBlocks == Blocks!Spec

-----------------------------------------------------------------------------
(* The heap and the system.                                                  *)
Regions ==
  (IF is_initialized(heap)
   THEN {<<Segment(heap, sp).base, SegmentEnd(heap, sp)>> : sp \in Range(segments(heap))} ELSE {})
  \cup MmappedRegions

Granted(x) ==
  \/ PagesOf(x[1], x[2] - x[1]) \subseteq heap.sys.maps
  \/ x = heap.sys.lent
  \/ /\ x[1] >= program.system.brk /\ x[2] <= heap.sys.brk
     /\ \A y \in heap.sys.foreign : Blocks!Apart(x, y)

(* The segments and the regions of single chunks lie side by side in memory  *)
(* that the system granted and has not taken back, none of which belongs to  *)
(* another user of brk.                                                      *)
RegionsAreGranted ==
  \A x \in Regions : Granted(x) /\ \A y \in Regions \ {x} : Blocks!Apart(x, y)

(* The heap takes no more memory from the system than the limit that was set *)
(* last, rounded up to whole units of the granularity, allows.               *)
LimitIsEnforced ==
  [][heap'.footprint > heap.footprint /\ limit # MAX_SIZE_T =>
       heap'.footprint <= granularity_align(heap, limit)]_vars

\* what aligns the first chunk, a segment's record with its fenceposts, a space's state
Bookkeeping ==
  LET first(sp) == Segment(heap, sp).base
  IN  {<<first(sp), align_as_chunk(first(sp))>> : sp \in Range(segments(heap))}
      \cup {<<q, SegmentEnd(heap, chunk2mem(q))>> : q \in Records}
      \cup {<<q, next_chunk(heap, q)>> : q \in OwnState}

(* footprint is what the heap holds of the system, and all of that is in its *)
(* regions unless the system refused to take a region back.  What mallinfo   *)
(* and malloc_stats report in use is the chunks that callers hold, the      *)
(* bookkeeping of the heap, and what the system refused.                     *)
FootprintIsExact ==
  LET refused == heap.footprint - Extents(Regions)
      used == SumOfSizes(heap, LiveChunks \ MmappedChunks) + Extents(MmappedRegions)
              + Extents(Bookkeeping) + refused
  IN  /\ heap.footprint = heap.sys.held + Extents({heap.sys.lent}) /\ refused >= 0
      /\ (\A e \in program.environments : e.unmap) => refused = 0
      /\ is_initialized(heap) => /\ internal_mallinfo(heap).uordblks = used
                                 /\ internal_malloc_stats(heap).in_use = used

=============================================================================
