----------------------------- MODULE MallocSpaces -----------------------------
(* Spaces: heaps of their own, made with create_mspace.  The malloc_state of *)
(* a space is the first chunk of the memory that the space starts with,      *)
(* which the system or the caller provides.                                  *)
EXTENDS MallocCalls

\* struct malloc_state, as far as it is words of memory here
malloc_state_size == seg_at([at |-> 0]) + malloc_segment_size
msize == pad_request(malloc_state_size)

init_user_mstate(m, tbase, tsize, sflags) ==
  LET msp == align_as_chunk(tbase)
      mn == msp + msize
      zeroed == Store(memset(m, chunk2mem(msp), msize), head_at(msp) :> (msize + INUSE_BITS))
      ms == [zeroed EXCEPT !.at = chunk2mem(msp), !.global = FALSE,
                           !.smallmap = {}, !.treemap = {}, !.dv = 0, !.dvsize = 0,
                           !.footprint_limit = 0, !.least_addr = tbase,
                           !.footprint = tsize, !.max_footprint = tsize,
                           !.release_checks = MAX_RELEASE_CHECK_RATE, !.mflags = {"USE_MMAP"}]
      placed == SetSegment(disable_contiguous(ms), seg_at(ms),
                           [base |-> tbase, size |-> tsize, next |-> 0, sflags |-> sflags])
  IN  Returns(init_top(init_bins(placed), mn, (tbase + tsize) - mn - TOP_FOOT_SIZE), ms.at)

MayHold(capacity) == capacity < Wrap(-(msize + TOP_FOOT_SIZE + page_size))

create_mspace(m0, capacity) ==
  LET m == ensure_initialization(m0)
      rs == IF capacity = 0 THEN m.mparams.granularity ELSE capacity + TOP_FOOT_SIZE + msize
      tsize == granularity_align(m, rs)
      mapped == CALL_MMAP(m, tsize)
  IN  IF ~MayHold(capacity) THEN Returns(m, 0)
      ELSE IF mapped.io = CMFAIL THEN Returns(mapped, 0)
      ELSE init_user_mstate(mapped, mapped.io, tsize, MMAPPED)

create_mspace_with_base(m0, base, capacity) ==
  LET m == ensure_initialization(m0)
  IN  IF capacity > msize + TOP_FOOT_SIZE /\ MayHold(capacity)
      THEN init_user_mstate(m, base, capacity, EXTERN_BIT) ELSE Returns(m, 0)

\* returns whether large chunks were tracked before
mspace_track_large_chunks(m, enable) ==
  Returns([m EXCEPT !.mflags = IF enable THEN @ \ {"USE_MMAP"} ELSE @ \cup {"USE_MMAP"}],
          IF use_mmap(m) THEN 0 ELSE 1)

\* the segments that came from MMAP go back, the newest first, the space itself last
UnmapSegmentOfAnyone(m, sp) ==
  LET s == Segment(m, sp)
      unmapped == CALL_MUNMAP(m, s.base, s.size)
  IN  IF unmapped.io = 0 THEN Returns(unmapped, m.ret + s.size) ELSE unmapped
UnmapSegment(m, sp) ==
  LET s == Segment(m, sp)
      unmapped == CALL_MUNMAP(m, s.base, s.size)
  IN  IF ~is_mmapped_segment(m, sp) \/ is_extern_segment(m, sp) THEN m
      ELSE IF unmapped.io = 0 THEN Returns(unmapped, m.ret + s.size) ELSE unmapped
destroy_mspace(m) == FoldLeft(UnmapSegment, Returns(m, 0), segments(m))

-----------------------------------------------------------------------------
(* The calls on a space are clones of the calls on the global heap: they     *)
(* work on the malloc_state they are given, and check that it is one.        *)
mspace_malloc(ms, bytes) == dlmalloc(ms, bytes)
mspace_free(ms, mem) == dlfree(ms, mem)
mspace_trim(ms, pad) == sys_trim(ms, pad)

=============================================================================
