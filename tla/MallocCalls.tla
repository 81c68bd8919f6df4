----------------------------- MODULE MallocCalls -----------------------------
(* The calls built on malloc and free: calloc, realloc, memalign and its     *)
(* kin, the calls that allocate or free several chunks at once, and what the *)
(* heap tells about itself.  m.out holds the pointers of a call that returns *)
(* an array of them, m.error the error code of one that returns that.        *)
EXTENDS Malloc

WordsOf(mem, bytes) == {mem + k * SIZE_T_SIZE : k \in 0 .. (bytes - 1) \div SIZE_T_SIZE}
memset(m, mem, bytes) == Store(Forget(m, mem, mem + bytes), [a \in WordsOf(mem, bytes) |-> 0])
memcpy(m, dst, src, bytes) ==
  LET inside == {a \in DOMAIN m.mem : a >= src /\ a + SIZE_T_SIZE <= src + bytes}
  IN  Store(Forget(m, dst, dst + bytes), [a \in {b - src + dst : b \in inside} |-> m.mem[a - dst + src]])

UncheckedProduct(n_elements, elem_size) == Wrap(n_elements * elem_size)
CheckedProduct(n_elements, elem_size) ==
  LET req == Wrap(n_elements * elem_size)
      half == 2^(SIZE_T_BITSIZE \div 2)
  IN  IF n_elements = 0 THEN 0
      ELSE IF (n_elements >= half \/ elem_size >= half) /\ req \div n_elements # elem_size
      THEN MAX_SIZE_T ELSE req

Cleared(got, req) ==
  IF got.ret # 0 /\ calloc_must_clear(got, mem2chunk(got.ret))
  THEN memset(got, got.ret, req) ELSE got
dlcalloc(m, n_elements, elem_size) ==
  LET req == CheckedProduct(n_elements, elem_size) IN Cleared(dlmalloc(m, req), req)

-----------------------------------------------------------------------------
(* realloc.                                                                  *)
SplitOffUndisposed(m, p, nb, rsize) == set_inuse(set_inuse(m, p, nb), p + nb, rsize)
SplitOff(m, p, nb, rsize) ==
  dispose_chunk(set_inuse(set_inuse(m, p, nb), p + nb, rsize), p + nb, rsize)

ExtendIntoTop(m, p, nb, newsize) ==
  SetTop(set_inuse(m, p, nb), p + nb, newsize - nb)

ExtendIntoDvStillDv(m, p, nb, newsize) == set_inuse(m, p, newsize)
ExtendIntoDv(m, p, nb, newsize) ==
  LET dsize == newsize - nb
      r == p + nb
      started == set_inuse(m, p, nb)
  IN  IF dsize >= MIN_CHUNK_SIZE
      THEN [clear_pinuse(set_size_and_pinuse_of_free_chunk(started, r, dsize), r + dsize)
              EXCEPT !.dvsize = dsize, !.dv = r]
      ELSE [set_inuse(m, p, newsize) EXCEPT !.dvsize = 0, !.dv = 0]

UseOrSplit(m, p, nb, size) ==
  IF size - nb < MIN_CHUNK_SIZE THEN set_inuse(m, p, size) ELSE SplitOff(m, p, nb, size - nb)
ExtendIntoFree(m, p, nb, next, newsize) ==
  UseOrSplit(unlink_chunk(m, next, chunksize(m, next)), p, nb, newsize)

\* the chunk in place or moved by the system, or 0
try_realloc_chunk(m0, p, nb, can_move) ==
  LET oldsize == chunksize(m0, p)
      next == p + oldsize
      m == RTCHECK(m0, /\ ok_address(m0, p) /\ is_inuse(m0, p)
                       /\ ok_next(p, next) /\ pinuse(m0, next))
      with(size) == oldsize + size
  IN  IF is_mmapped(m, p) THEN mmap_resize(m, p, nb, can_move)
      ELSE IF oldsize >= nb
      THEN Returns(IF oldsize - nb >= MIN_CHUNK_SIZE THEN SplitOff(m, p, nb, oldsize - nb) ELSE m, p)
      ELSE IF next = m.top /\ with(m.topsize) > nb
      THEN Returns(ExtendIntoTop(m, p, nb, with(m.topsize)), p)
      ELSE IF next = m.dv /\ with(m.dvsize) >= nb
      THEN Returns(ExtendIntoDv(m, p, nb, with(m.dvsize)), p)
      ELSE IF next \notin {m.top, m.dv} /\ ~cinuse(m, next) /\ with(chunksize(m, next)) >= nb
      THEN Returns(ExtendIntoFree(m, p, nb, next, with(chunksize(m, next))), p)
      ELSE Returns(m, 0)

\* the contents of oldmem, as much of them as was asked for, move to the new block
Moved(got, oldmem, bytes) ==
  LET oc == chunksize(got, mem2chunk(oldmem)) - overhead_for(got, mem2chunk(oldmem))
      copied == memcpy(got, got.ret, oldmem, IF oc < bytes THEN oc ELSE bytes)
  IN  IF got.ret = 0 THEN got ELSE Returns(dlfree(copied, oldmem), got.ret)
InPlaceOrMoved(tried, oldmem, bytes) ==
  IF tried.ret # 0 THEN Returns(tried, chunk2mem(tried.ret))
  ELSE Moved(dlmalloc(tried, bytes), oldmem, bytes)
dlrealloc(m, oldmem, bytes) ==
  IF oldmem = 0 THEN dlmalloc(m, bytes)
  ELSE IF bytes >= MAX_REQUEST THEN Returns(m, 0)
  ELSE InPlaceOrMoved(try_realloc_chunk(m, mem2chunk(oldmem), request2size(bytes), TRUE),
                      oldmem, bytes)

InPlace(tried, oldmem) == Returns(tried, IF tried.ret = mem2chunk(oldmem) THEN oldmem ELSE 0)
dlrealloc_in_place(m, oldmem, bytes) ==
  IF oldmem = 0 \/ bytes >= MAX_REQUEST THEN Returns(m, 0)
  ELSE InPlace(try_realloc_chunk(m, mem2chunk(oldmem), request2size(bytes), FALSE), oldmem)

-----------------------------------------------------------------------------
(* memalign.                                                                 *)
PowerAtLeast(alignment) ==
  2^LeastOf({k \in 0 .. SIZE_T_BITSIZE : 2^k >= alignment /\ 2^k >= MIN_CHUNK_SIZE})

\* gives back what precedes the first place in chunk p that is aligned
StartAt(m, p, newp) ==
  LET leadsize == newp - p
      newsize == chunksize(m, p) - leadsize
      foot == prev_foot(m, p) + leadsize
  IN  Returns(IF is_mmapped(m, p)
              THEN Store(Forget(m, p, newp), (newp :> foot) @@ (head_at(newp) :> newsize))
              ELSE dispose_chunk(set_inuse(set_inuse(m, newp, newsize), p, leadsize), p, leadsize),
              newp)
GiveBackLeader(m, p, alignment) ==
  LET br == mem2chunk(AlignUp(chunk2mem(p), alignment))
  IN  IF chunk2mem(p) % alignment = 0 THEN Returns(m, p)
      ELSE StartAt(m, p, IF br - p >= MIN_CHUNK_SIZE THEN br ELSE br + alignment)

\* and what follows the nb bytes of the aligned chunk m.ret
GiveBackTrailer(m, nb) ==
  LET p == m.ret
      size == chunksize(m, p)
  IN  Returns(IF ~is_mmapped(m, p) /\ size > nb + MIN_CHUNK_SIZE
              THEN SplitOff(m, p, nb, size - nb) ELSE m, chunk2mem(p))

AlignedPart(got, alignment, nb) ==
  IF got.ret = 0 THEN got
  ELSE GiveBackTrailer(GiveBackLeader(got, mem2chunk(got.ret), alignment), nb)
internal_memalign(m, wanted, bytes) ==
  LET alignment == PowerAtLeast(wanted)
      nb == request2size(bytes)
  IN  IF bytes >= Wrap(MAX_REQUEST - alignment) THEN Returns(m, 0)
      ELSE AlignedPart(dlmalloc(m, nb + alignment + MIN_CHUNK_SIZE - CHUNK_OVERHEAD), alignment, nb)

dlmemalign(m, alignment, bytes) ==
  IF alignment <= MALLOC_ALIGNMENT THEN dlmalloc(m, bytes)
  ELSE internal_memalign(m, alignment, bytes)

\* m.error is what the call returns, m.ret the pointer that it stores
Fails(m, error) == [m EXCEPT !.ret = 0, !.error = error]
OrENOMEM(got) == IF got.ret = 0 THEN Fails(got, "ENOMEM") ELSE got
dlposix_memalign(m, alignment, bytes) ==
  LET d == alignment \div SIZE_T_SIZE
      valid == alignment % SIZE_T_SIZE = 0 /\ \E k \in 0 .. SIZE_T_BITSIZE : d = 2^k
  IN  IF alignment = MALLOC_ALIGNMENT THEN OrENOMEM(dlmalloc(m, bytes))
      ELSE IF ~valid THEN Fails(m, "EINVAL")
      ELSE IF bytes > Wrap(MAX_REQUEST - alignment) THEN Fails(m, "ENOMEM")
      ELSE OrENOMEM(internal_memalign(m, alignment, bytes))

dlvalloc(m, bytes) == dlmemalign(ensure_initialization(m), page_size, bytes)
dlpvalloc(m, bytes) == dlmemalign(ensure_initialization(m), page_size, page_align(bytes))

-----------------------------------------------------------------------------
(* Several chunks at once.                                                   *)

(* Cuts one chunk into the elements and, when the caller has no array for    *)
(* the pointers, a last chunk that holds it.                                 *)

\* malloc, but never as a region of its own
WithoutMmap(m, bytes) ==
  [dlmalloc([m EXCEPT !.mflags = @ \ {"USE_MMAP"}], bytes)
     EXCEPT !.mflags = @ \cup (m.mflags \cap {"USE_MMAP"})]
\* the elements' places in chunk p, the sums of the sizes before them
Places(element) ==
  [i \in 1 .. Len(element) + 1 |-> Wrap(FoldLeft(+, 0, SubSeq(element, 1, i - 1)))]
SplitEvenly(m, p, element, before, total) ==
  LET n == Len(element)
      size(i) == IF i < n THEN element[i] ELSE total - before[n]
  IN  [FoldLeft(LAMBDA acc, i : set_size_and_pinuse_of_inuse_chunk(acc, p + before[i], size(i)),
                m, [i \in 1 .. n |-> i])
         EXCEPT !.out = [i \in 1 .. n |-> chunk2mem(p + before[i])]]
CutUp(m, p, total, element, before, array_size, clear) ==
  LET contents_size == before[Len(before)]
      cleared == IF clear THEN memset(m, chunk2mem(p), total - SIZE_T_SIZE - array_size) ELSE m
      array == p + contents_size
  IN  IF array_size = 0 THEN Returns(SplitEvenly(cleared, p, element, before, total), 0)
      ELSE Returns(SplitEvenly(set_size_and_pinuse_of_inuse_chunk(cleared, array, total - contents_size),
                               p, element, before, contents_size), chunk2mem(array))
CutUpIfAny(got, element, before, array_size, clear) ==
  LET p == mem2chunk(got.ret)
  IN  IF got.ret = 0 THEN got
      ELSE CutUp(got, p, chunksize(got, p), element, before, array_size, clear)
IallocSized(m, element, before, array_size, clear) ==
  CutUpIfAny(WithoutMmap(m, before[Len(before)] + array_size - CHUNK_OVERHEAD),
             element, before, array_size, clear)
ialloc(m, sizes, clear, own) ==
  LET n == Len(sizes)
      element == [i \in 1 .. n |-> request2size(sizes[i])]
      array_size == IF own THEN 0 ELSE request2size(n * SIZE_T_SIZE)
  IN  IF n = 0 THEN IF own THEN Returns(m, 0) ELSE dlmalloc(m, 0)
      ELSE IallocSized(m, element, Places(element), array_size, clear)

dlindependent_calloc(m, n_elements, elem_size, own) ==
  ialloc(ensure_initialization(m), [i \in 1 .. n_elements |-> elem_size], TRUE, own)
dlindependent_comalloc(m, sizes, own) == ialloc(ensure_initialization(m), sizes, FALSE, own)

(* A chunk that is followed in memory by the next one of the array is joined *)
(* with it, and the next entry then stands for both.                         *)
FreeEntry(m, array, i, p, psize) ==
  LET next == p + psize
      joins == i < Len(array) /\ array[i + 1] = chunk2mem(next)
  IN  IF joins
      THEN [heap |-> set_inuse(m, p, psize + chunksize(m, next)),
            array |-> [array EXCEPT ![i] = 0, ![i + 1] = chunk2mem(p)]]
      ELSE [heap |-> dispose_chunk(m, p, psize), array |-> [array EXCEPT ![i] = 0]]
FreeIfAny(acc, i) ==
  LET m == acc.heap
      p == mem2chunk(acc.array[i])
  IN  IF acc.array[i] = 0 THEN acc
      ELSE FreeEntry(RTCHECK(m, ok_address(m, p) /\ is_inuse(m, p)), acc.array, i, p, chunksize(m, p))
TrimIfDue(m) == Returns(IF should_trim(m, m.topsize) THEN sys_trim(m, 0) ELSE m, 0)
internal_bulk_free(m, array) ==
  TrimIfDue(FoldLeft(FreeIfAny, [heap |-> m, array |-> array], [i \in DOMAIN array |-> i]).heap)

dlbulk_free(m, array) == internal_bulk_free(m, array)

-----------------------------------------------------------------------------
(* What the heap tells and how it is tuned.                                  *)
dlmalloc_trim(m, pad) == sys_trim(m, pad)

dlmalloc_set_footprint_limit(m, bytes) ==
  LET limit == IF bytes = MAX_SIZE_T THEN 0 ELSE granularity_align(m, bytes)
  IN  Returns([m EXCEPT !.footprint_limit = limit], limit)

dlmallopt(m, param, value) == change_mparam(m, param, value)

dlmalloc_usable_size(m, mem) ==
  LET p == mem2chunk(mem)
  IN  IF mem # 0 /\ is_inuse(m, p) THEN chunksize(m, p) - overhead_for(m, p) ELSE 0

\* the chunks of segment sp from its first one up to the fenceposts or top
ChunksOfSegment(m, sp) ==
  LET From[q \in Addresses] ==
        IF ~segment_holds(m, sp, q) \/ head(m, q) = FENCEPOST_HEAD THEN {}
        ELSE IF q = m.top THEN {q}
        ELSE {q} \cup From[next_chunk(m, q)]
  IN  From[align_as_chunk(Segment(m, sp).base)]
Chunks(m) ==
  IF is_initialized(m)
  THEN UNION {ChunksOfSegment(m, sp) : sp \in Range(segments(m))} ELSE {}

=============================================================================
