---------------------------- MODULE MallocChecks ----------------------------
(* What the DEBUG build of the allocator asserts of its own state, and the   *)
(* statistics, which walk over the same chunks.                              *)
EXTENDS MallocCalls

do_check_any_chunk(m, p) ==
  (is_aligned(chunk2mem(p)) \/ head(m, p) = FENCEPOST_HEAD) /\ ok_address(m, p)

\* the size with the bit that no chunk uses
SizeAndFlag4(m, p) == head(m, p) - (head(m, p) % (INUSE_BITS + 1))

do_check_top_chunk(m, p) ==
  LET sp == segment_holding(m, p)
      sz == SizeAndFlag4(m, p)
  IN  /\ sp # 0 /\ do_check_any_chunk(m, p)
      /\ sz = m.topsize /\ sz > 0 /\ sz = (SegmentEnd(m, sp) - p) - TOP_FOOT_SIZE
      /\ pinuse(m, p) /\ ~pinuse(m, p + sz)

do_check_mmapped_chunk(m, p) ==
  LET sz == chunksize(m, p)
  IN  /\ is_mmapped(m, p) /\ use_mmap(m) /\ do_check_any_chunk(m, p) /\ ~is_small(sz)
      /\ (sz + prev_foot(m, p) + MMAP_FOOT_PAD) % page_size = 0
      /\ head(m, p + sz) = FENCEPOST_HEAD /\ head(m, p + sz + SIZE_T_SIZE) = 0

do_check_inuse_chunk(m, p) ==
  /\ do_check_any_chunk(m, p) /\ is_inuse(m, p) /\ next_pinuse(m, p)
  /\ is_mmapped(m, p) \/ pinuse(m, p) \/ next_chunk(m, prev_chunk(m, p)) = p
  /\ is_mmapped(m, p) => do_check_mmapped_chunk(m, p)

do_check_free_chunk(m, p) ==
  LET sz == chunksize(m, p)
      next == p + sz
  IN  /\ do_check_any_chunk(m, p) /\ ~is_inuse(m, p) /\ ~pinuse(m, next) /\ ~is_mmapped(m, p)
      /\ p \notin {m.dv, m.top} =>
           IF sz < MIN_CHUNK_SIZE THEN sz = SIZE_T_SIZE
           ELSE /\ sz % MALLOC_ALIGNMENT = 0 /\ prev_foot(m, next) = sz /\ pinuse(m, p)
                /\ next = m.top \/ is_inuse(m, next)
                /\ bk(m, fd(m, p)) = p /\ fd(m, bk(m, p)) = p

\* of a chunk that was just given out for a request of s bytes, padded
do_check_malloced_chunk(m, mem, s) ==
  LET p == mem2chunk(mem)
      sz == SizeAndFlag4(m, p)
  IN  mem # 0 => /\ do_check_inuse_chunk(m, p)
                 /\ sz % MALLOC_ALIGNMENT = 0 /\ sz >= MIN_CHUNK_SIZE /\ sz >= s
                 /\ is_mmapped(m, p) \/ sz < s + MIN_CHUNK_SIZE

\* the chunks of the size of t
Ring(m, t) ==
  LET From[u \in Addresses] == IF fd(m, u) = t THEN {u} ELSE {u} \cup From[fd(m, u)]
  IN  From[t]
TreeNodes(m, t) ==
  LET From[u \in Addresses] ==
        IF u = 0 THEN {} ELSE {u} \cup From[child(m, u, 0)] \cup From[child(m, u, 1)]
  IN  From[t]

do_check_tree(m, root) ==
  \A t \in TreeNodes(m, root) :
    LET tsize == chunksize(m, t)
        idx == compute_tree_index(tsize)
        children == {child(m, t, i) : i \in {0, 1}} \ {0}
    IN  /\ index(m, t) = idx /\ tsize >= MIN_LARGE_SIZE /\ tsize >= minsize_for_tree_index(idx)
        /\ idx = NTREEBINS - 1 \/ tsize < minsize_for_tree_index(idx + 1)
        /\ \A u \in Ring(m, t) :
             /\ do_check_any_chunk(m, u) /\ index(m, u) = idx /\ chunksize(m, u) = tsize
             /\ ~is_inuse(m, u) /\ ~next_pinuse(m, u)
             /\ bk(m, fd(m, u)) = u /\ fd(m, bk(m, u)) = u
             /\ parent(m, u) = 0 => child(m, u, 0) = 0 /\ child(m, u, 1) = 0
        /\ {u \in Ring(m, t) : parent(m, u) # 0} = {t}
        /\ parent(m, t) # t
        /\ IF parent(m, t) = treebin_at(m, idx) THEN t = root /\ Word(m, treebin_at(m, idx)) = t
           ELSE \E i \in {0, 1} : child(m, parent(m, t), i) = t
        /\ \A c \in children : c # t /\ parent(m, c) = t
        /\ Cardinality(children) = 2 => chunksize(m, child(m, t, 0)) < chunksize(m, child(m, t, 1))

do_check_treebin(m, i) ==
  LET t == Word(m, treebin_at(m, i))
  IN  IF i \in m.treemap THEN t # 0 /\ do_check_tree(m, t) ELSE t = 0

\* the chunks of small bin i, along bk
SmallChunks(m, i) ==
  LET From[p \in Addresses] == IF p = smallbin_at(m, i) THEN {} ELSE {p} \cup From[bk(m, p)]
  IN  IF i \in m.smallmap THEN From[bk(m, smallbin_at(m, i))] ELSE {}

do_check_smallbin(m, i) ==
  /\ i \in m.smallmap => SmallChunks(m, i) # {}
  /\ \A p \in SmallChunks(m, i) :
       LET q == next_chunk(m, p)
       IN  /\ do_check_free_chunk(m, p) /\ small_index(chunksize(m, p)) = i
           /\ head(m, q) # FENCEPOST_HEAD => do_check_inuse_chunk(m, q)

bin_find(m, x) ==
  LET size == chunksize(m, x)
      i == compute_tree_index(size)
      Find[t \in Addresses, bits \in Addresses] ==
        IF t = 0 \/ chunksize(m, t) = size THEN t
        ELSE Find[child(m, t, LeadingBit(bits)), ShiftLeft(bits)]
      t == Find[Word(m, treebin_at(m, i)), SizeBits(size, i)]
  IN  IF is_small(size) THEN x \in SmallChunks(m, small_index(size))
      ELSE i \in m.treemap /\ t # 0 /\ x \in Ring(m, t)

ChunksBelowTop(m) == Chunks(m) \ {m.top}
SumOfSizes(m, S) == MapThenSumSet(LAMBDA q : chunksize(m, q), S)

traverse_and_check(m) ==
  /\ is_initialized(m) => \A i \in DOMAIN segments(m) :
       pinuse(m, align_as_chunk(Segment(m, segments(m)[i]).base))
  /\ \A q \in ChunksBelowTop(m) :
       IF is_inuse(m, q) THEN ~bin_find(m, q) /\ do_check_inuse_chunk(m, q)
       ELSE /\ q = m.dv \/ bin_find(m, q)
            /\ \A before \in ChunksBelowTop(m) : next_chunk(m, before) = q => is_inuse(m, before)
            /\ do_check_free_chunk(m, q)

do_check_malloc_state(m) ==
  LET total == m.topsize + TOP_FOOT_SIZE + SumOfSizes(m, ChunksBelowTop(m))
  IN  /\ \A i \in 0 .. NSMALLBINS - 1 : do_check_smallbin(m, i)
      /\ \A i \in 0 .. NTREEBINS - 1 : do_check_treebin(m, i)
      /\ m.dvsize # 0 => /\ do_check_any_chunk(m, m.dv) /\ m.dvsize = chunksize(m, m.dv)
                         /\ m.dvsize >= MIN_CHUNK_SIZE /\ ~bin_find(m, m.dv)
      /\ is_initialized(m) => do_check_top_chunk(m, m.top) /\ ~bin_find(m, m.top)
      /\ traverse_and_check(m)
      /\ is_initialized(m) => total <= m.footprint
      /\ m.footprint <= m.max_footprint

-----------------------------------------------------------------------------
internal_mallinfo(m) ==
  LET free == {q \in ChunksBelowTop(m) : ~is_inuse(m, q)}
      mfree == m.topsize + TOP_FOOT_SIZE + SumOfSizes(m, free)
      sum == m.topsize + TOP_FOOT_SIZE + SumOfSizes(m, ChunksBelowTop(m))
  IN  IF is_initialized(m)
      THEN [arena |-> sum, ordblks |-> 1 + Cardinality(free), hblkhd |-> m.footprint - sum,
            usmblks |-> m.max_footprint, uordblks |-> m.footprint - mfree,
            fordblks |-> mfree, keepcost |-> m.topsize]
      ELSE [arena |-> 0, ordblks |-> 0, hblkhd |-> 0, usmblks |-> 0, uordblks |-> 0,
            fordblks |-> 0, keepcost |-> 0]

internal_malloc_stats(m) ==
  LET free == {q \in ChunksBelowTop(m) : ~is_inuse(m, q)}
  IN  IF is_initialized(m)
      THEN [max_system |-> m.max_footprint, system |-> m.footprint,
            in_use |-> m.footprint - (m.topsize + TOP_FOOT_SIZE) - SumOfSizes(m, free)]
      ELSE [max_system |-> 0, system |-> 0, in_use |-> 0]

=============================================================================
