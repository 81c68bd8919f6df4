---------------------------- MODULE MallocSystem ----------------------------
(* How the heap gets memory from the system and gives it back.               *)
EXTENDS MallocState

\* a request for p bytes as a region of its own: chunk, fake chunks behind it
MmapChunk(m, base, offset, mmsize) ==
  LET p == base + offset
      psize == mmsize - offset - MMAP_FOOT_PAD
  IN  Store(m, (p :> offset) @@ (head_at(p) :> psize) @@ (head_at(p + psize) :> FENCEPOST_HEAD)
               @@ (head_at(p + psize + SIZE_T_SIZE) :> 0))

Mmapped(m, mmsize) ==
  LET offset == align_offset(chunk2mem(m.io))
      lower == [m EXCEPT !.least_addr = IF @ = 0 \/ m.io < @ THEN m.io ELSE @]
  IN  IF m.io = CMFAIL THEN Returns(m, 0)
      ELSE Returns(AddFootprint(MmapChunk(lower, m.io, offset, mmsize), mmsize),
                   chunk2mem(m.io + offset))
mmap_alloc(m, nb) ==
  LET mmsize == mmap_align(Wrap(nb + 6 * SIZE_T_SIZE + MALLOC_ALIGNMENT - 1))
  IN  IF ~WithinLimit(m, mmsize) \/ mmsize <= nb THEN Returns(m, 0)
      ELSE Mmapped(CALL_MMAP(m, mmsize), mmsize)

\* returns the chunk, not its memory
Remapped(m, oldsize, offset, newmmsize) ==
  LET newp == m.io + offset
      lower == [m EXCEPT !.least_addr = IF m.io < @ THEN m.io ELSE @]
      \* what marked the old end is now inside the chunk
      open == Forget(lower, newp + oldsize, newp + oldsize + MMAP_FOOT_PAD)
  IN  IF m.io = CMFAIL THEN Returns(m, 0)
      ELSE Returns(AddFootprint(MmapChunk(open, m.io, offset, newmmsize),
                                newmmsize - (oldsize + offset + MMAP_FOOT_PAD)), newp)
mmap_resize(m, oldp, nb, may_move) ==
  LET oldsize == chunksize(m, oldp)
      offset == prev_foot(m, oldp)
      newmmsize == mmap_align(Wrap(nb + 6 * SIZE_T_SIZE + MALLOC_ALIGNMENT - 1))
  IN  IF is_small(nb) THEN Returns(m, 0)
      ELSE IF oldsize >= nb + SIZE_T_SIZE /\ oldsize - nb <= 2 * m.mparams.granularity
      THEN Returns(m, oldp)
      ELSE Remapped(CALL_MREMAP(m, oldp - offset, oldsize + offset + MMAP_FOOT_PAD,
                                newmmsize, may_move), oldsize, offset, newmmsize)

-----------------------------------------------------------------------------
(* Growing.                                                                  *)
\* q, of qsize bytes, joins the free chunk behind it, if that one is free
JoinNext(m, q, qsize, next) ==
  LET nsize == chunksize(m, next)
  IN  IF is_inuse(m, next)
      THEN insert_chunk(set_free_with_pinuse(m, q, qsize, next), q, qsize)
      ELSE insert_chunk(set_free_with_pinuse(unlink_chunk(m, next, nsize), q, qsize + nsize,
                                             next + nsize), q, qsize + nsize)
PrependTo(m, p, nb, oldfirst) ==
  LET q == p + nb
      qsize == (oldfirst - p) - nb
      dsize == m.dvsize + qsize
      started == set_size_and_pinuse_of_inuse_chunk(m, p, nb)
  IN  Returns(IF oldfirst = m.top THEN SetTop(started, q, m.topsize + qsize)
              ELSE IF oldfirst = m.dv
              THEN set_size_and_pinuse_of_free_chunk([started EXCEPT !.dv = q, !.dvsize = dsize],
                                                     q, dsize)
              ELSE JoinNext(started, q, qsize, oldfirst), chunk2mem(p))
prepend_alloc(m, newbase, oldbase, nb) ==
  PrependTo(m, align_as_chunk(newbase), nb, align_as_chunk(oldbase))

\* heads of the words from p up to the end of the old segment
Fenceposts(p, end) ==
  [a \in {head_at(p + k * SIZE_T_SIZE) : k \in {j \in 0 .. 16 :
            j = 0 \/ head_at(p + j * SIZE_T_SIZE) < end}} |-> FENCEPOST_HEAD]

(* The record of the old segment goes to the end of it, in the space that    *)
(* TOP_FOOT_SIZE kept free, the rest of the old top into a bin.              *)
RecordPlace(old_top, old_end) ==
  LET rawsp == old_end - (pad_request(malloc_segment_size) + 4 * SIZE_T_SIZE + MALLOC_ALIGNMENT - 1)
      asp == rawsp + align_offset(chunk2mem(rawsp))
  IN  IF asp < old_top + MIN_CHUNK_SIZE THEN old_top ELSE asp
PushSegment(m, csp, segment) ==
  LET ss == chunk2mem(csp)
  IN  SetSegment(SetSegment(m, ss, Segment(m, seg_at(m))), seg_at(m), [segment EXCEPT !.next = ss])
BinOldTop(m, old_top, csp) ==
  LET psize == csp - old_top
  IN  IF psize = 0 THEN m
      ELSE insert_chunk(set_free_with_pinuse(m, old_top, psize, csp), old_top, psize)
AddSegment(m, segment, old_end, csp) ==
  LET ssize == pad_request(malloc_segment_size)
      cleared == Forget(init_top(m, segment.base, segment.size - TOP_FOOT_SIZE),
                        fd_at(m.top), old_end)
      recorded == set_size_and_pinuse_of_inuse_chunk(cleared, csp, ssize)
  IN  BinOldTop(Store(PushSegment(recorded, csp, segment), Fenceposts(csp + ssize, old_end)),
                m.top, csp)
add_segment(m, tbase, tsize, mmapped) ==
  LET old_end == SegmentEnd(m, segment_holding(m, m.top))
  IN  AddSegment(m, [base |-> tbase, size |-> tsize, next |-> 0, sflags |-> mmapped], old_end,
                 RecordPlace(m.top, old_end))

Nothing(m) == [heap |-> m, base |-> CMFAIL, size |-> 0, mmapped |-> 0]
Region(m, base, size, mmapped) ==
  [heap |-> m, base |-> base, size |-> size, mmapped |-> mmapped]

(* MORECORE called so as to extend the segment of top; when brk was moved by *)
(* someone else, what it gave is extended to all that is needed or given up. *)
Extended(m, br, ssize, esize) ==
  IF m.io # CMFAIL THEN Region(m, br, ssize + esize, 0)
  ELSE Nothing(disable_contiguous(CALL_MORECORE(m, -ssize)))
Contiguous(m, nb, expected, ssize) ==
  LET esize == granularity_align(m, nb + SYS_ALLOC_PADDING - ssize)
  IN  IF m.io = CMFAIL THEN Nothing(disable_contiguous(m))
      ELSE IF m.io = expected \/ ssize >= nb + SYS_ALLOC_PADDING \/ esize >= HALF_MAX_SIZE_T
      THEN Region(m, m.io, ssize, 0)
      ELSE Extended(CALL_MORECORE(m, esize), m.io, ssize, esize)
MorecoreContiguous(m, nb, asize) ==
  LET start == CALL_MORECORE(m, 0).io
      ssize == asize + page_align(start) - start
      more == granularity_align(m, nb - m.topsize + SYS_ALLOC_PADDING)
      ready == /\ start # CMFAIL
               /\ ssize < HALF_MAX_SIZE_T /\ ssize > nb /\ WithinLimit(m, ssize)
  IN  IF ~is_initialized(m)
      THEN Contiguous(IF ready THEN CALL_MORECORE(m, ssize) ELSE Answers(m, CMFAIL), nb, start, ssize)
      ELSE Contiguous(IF more < HALF_MAX_SIZE_T THEN CALL_MORECORE(m, more) ELSE Answers(m, CMFAIL),
                      nb, SegmentEnd(m, segment_holding(m, m.top)), more)

MappedRegion(m, asize) == IF m.io = CMFAIL THEN Nothing(m) ELSE Region(m, m.io, asize, MMAPPED)
MapRegion(m, asize) == MappedRegion(CALL_MMAP(m, asize), asize)

Anywhere(m, nb, end) ==
  IF m.io # CMFAIL /\ end # CMFAIL /\ m.io < end /\ end - m.io > nb + TOP_FOOT_SIZE
  THEN Region(m, m.io, end - m.io, 0) ELSE Nothing(m)
MorecoreAnywhere(m, nb, asize) ==
  LET called == CALL_MORECORE(m, asize)
  IN  IF asize < HALF_MAX_SIZE_T THEN Anywhere(called, nb, CALL_MORECORE(called, 0).io) ELSE Nothing(m)

(* A new region starts the heap, extends the segment of top, extends another *)
(* segment downwards, or becomes a segment.                                  *)
StartHeap(m, base, size, mmapped) ==
  LET mn == IF m.global THEN base ELSE next_chunk(m, mem2chunk(m.at))
      first == SetSegment([m EXCEPT !.release_checks = MAX_RELEASE_CHECK_RATE], seg_at(m),
                          [base |-> base, size |-> size, next |-> 0, sflags |-> mmapped])
  IN  init_top(init_bins(first), mn, (base + size) - mn - TOP_FOOT_SIZE)
Mergeable(m, sp, mmapped) ==
  sp # 0 /\ ~is_extern_segment(m, sp) /\ Segment(m, sp).sflags % 2 = mmapped
ExtendTop(m, sp, size) ==
  init_top(SetSegment(m, sp, [Segment(m, sp) EXCEPT !.size = @ + size]), m.top, m.topsize + size)
ExtendDown(m, sp, base, size, nb) ==
  prepend_alloc(SetSegment(m, sp, [Segment(m, sp) EXCEPT !.base = base, !.size = @ + size]),
                base, Segment(m, sp).base, nb)
MergeRegion(m, base, size, mmapped, nb, before, after) ==
  LET lower == [m EXCEPT !.least_addr = IF base < @ THEN base ELSE @]
  IN  IF Mergeable(m, before, mmapped) /\ segment_holds(m, before, m.top)
      THEN ExtendTop(m, before, size)
      ELSE IF Mergeable(m, after, mmapped) THEN ExtendDown(lower, after, base, size, nb)
      ELSE add_segment(lower, base, size, mmapped)
UseRegion(m, base, size, mmapped, nb) ==
  IF is_initialized(m)
  THEN MergeRegion(m, base, size, mmapped, nb,
                   FirstSegment(m, {sp \in Range(segments(m)) : SegmentEnd(m, sp) = base}),
                   FirstSegment(m, {sp \in Range(segments(m)) : Segment(m, sp).base = base + size}))
  ELSE StartHeap([m EXCEPT !.least_addr = IF @ = 0 \/ base < @ THEN base ELSE @],
                 base, size, mmapped)

AllocateFromTop(m, nb) ==
  Returns(set_size_and_pinuse_of_inuse_chunk(SetTop(m, m.top + nb, m.topsize - nb), m.top, nb),
          chunk2mem(m.top))

TakeFromRegion(m, nb) == IF m.ret # 0 \/ nb >= m.topsize THEN m ELSE AllocateFromTop(m, nb)
UseIfAny(got, nb) ==
  IF got.base = CMFAIL THEN got.heap
  ELSE TakeFromRegion(UseRegion(AddFootprint(got.heap, got.size), got.base, got.size, got.mmapped, nb),
                      nb)

\* the next way to get memory, when the last one got nothing
OrMapRegion(got, asize) == IF got.base = CMFAIL THEN MapRegion(got.heap, asize) ELSE got
OrAnywhere(got, nb, asize) ==
  IF got.base = CMFAIL THEN MorecoreAnywhere(got.heap, nb, asize) ELSE got
GetRegion(m, nb, asize) ==
  OrAnywhere(OrMapRegion(IF use_noncontiguous(m) THEN Nothing(m)
                         ELSE MorecoreContiguous(m, nb, asize), asize), nb, asize)

Grow(m, nb, asize) ==
  IF m.ret # 0 \/ asize <= nb \/ ~WithinLimit(m, asize) THEN m
  ELSE UseIfAny(GetRegion(m, nb, asize), nb)
AllocDirectly(m, nb) ==
  IF use_mmap(m) /\ nb >= m.mparams.mmap_threshold /\ m.topsize # 0 THEN mmap_alloc(m, nb) ELSE m
sys_alloc(m0, nb) ==
  LET m == Returns(ensure_initialization(m0), 0)
  IN  Grow(AllocDirectly(m, nb), nb, granularity_align(m, nb + SYS_ALLOC_PADDING))

-----------------------------------------------------------------------------
(* Shrinking.                                                                *)

\* a segment that MUNMAP refused to take keeps its one free chunk
KeepSegmentUnbinned(m, p, psize) == m
KeepSegment(m, p, psize) == insert_large_chunk(m, p, psize)

\* one segment of the list; acc is the heap, the record before, the bytes released
Released(m, acc, sp, s, p, psize) ==
  IF m.io = 0
  THEN [heap |-> SetSegment([m EXCEPT !.footprint = @ - s.size], acc.pred,
                            [Segment(m, acc.pred) EXCEPT !.next = s.next]),
        pred |-> acc.pred, released |-> acc.released + s.size]
  ELSE [acc EXCEPT !.heap = KeepSegment(m, p, psize), !.pred = sp]
ReleaseUnused(acc, sp, s, p, psize) ==
  LET m == acc.heap
      unlinked == IF p = m.dv THEN [m EXCEPT !.dv = 0, !.dvsize = 0] ELSE unlink_large_chunk(m, p)
  IN  IF /\ is_mmapped_segment(m, sp) /\ ~is_extern_segment(m, sp)
         /\ ~is_inuse(m, p) /\ p + psize >= s.base + s.size - TOP_FOOT_SIZE
      THEN Released(CALL_MUNMAP(unlinked, s.base, s.size), acc, sp, s, p, psize)
      ELSE [acc EXCEPT !.pred = sp]
ReleaseIfUnused(acc, sp) ==
  LET s == Segment(acc.heap, sp)
      p == align_as_chunk(s.base)
  IN  ReleaseUnused(acc, sp, s, p, chunksize(acc.heap, p))

release_unused_segments(m) ==
  LET older == Tail(segments(m))
      nsegs == Len(older)
  IN  [FoldLeft(ReleaseIfUnused, [heap |-> m, pred |-> seg_at(m), released |-> 0], older) EXCEPT
         !.heap.release_checks = IF nsegs > MAX_RELEASE_CHECK_RATE THEN nsegs
                                 ELSE MAX_RELEASE_CHECK_RATE]

\* nobody else has moved brk since the segment was extended last
EndsAtBrkAssumed(m, sp) == TRUE
EndsAtBrk(m, sp) == CALL_MORECORE(m, 0).io = SegmentEnd(m, sp)

\* as much of top as MREMAP, MUNMAP or MORECORE takes back of extra bytes
Shorter(m, sp, extra) ==
  LET s == Segment(m, sp)
      Else(unmapped) == IF unmapped.io # CMFAIL THEN unmapped
                        ELSE CALL_MUNMAP(unmapped, s.base + s.size - extra, extra)
  IN  Else(CALL_MREMAP(m, s.base, s.size, s.size - extra, FALSE))
GivenBack(m, old_br) ==
  LET new_br == CALL_MORECORE(m, 0).io
  IN  [heap |-> m, released |-> IF m.io # CMFAIL /\ new_br < old_br THEN old_br - new_br ELSE 0]
TrimTop(m, sp, extra) ==
  LET Trimmed(mapped) == [heap |-> mapped, released |-> IF mapped.io = CMFAIL THEN 0 ELSE extra]
      less == IF extra >= HALF_MAX_SIZE_T
              THEN HALF_MAX_SIZE_T + 1 - m.mparams.granularity ELSE extra
  IN  IF is_extern_segment(m, sp) THEN [heap |-> m, released |-> 0]
      ELSE IF is_mmapped_segment(m, sp)
      THEN IF Segment(m, sp).size < extra \/ has_segment_link(m, sp) THEN [heap |-> m, released |-> 0]
           ELSE Trimmed(Shorter(m, sp, extra))
      ELSE IF ~EndsAtBrk(m, sp) THEN [heap |-> m, released |-> 0]
      ELSE GivenBack(CALL_MORECORE(m, -less), CALL_MORECORE(m, 0).io)

\* whole units of what top has beyond pad, the last one excepted
SurplusToTheLast(topsize, pad, unit) == ((topsize - pad + unit - 1) \div unit) * unit
Surplus(topsize, pad, unit) == ((topsize - pad + unit - 1) \div unit - 1) * unit

ShrinkTop(trimmed, sp) ==
  LET m == trimmed.heap
      n == trimmed.released
  IN  IF n = 0 THEN m
      ELSE init_top(SetSegment([m EXCEPT !.footprint = @ - n], sp, [Segment(m, sp) EXCEPT !.size = @ - n]),
                    m.top, m.topsize - n)
\* n: what top gave; swept: the heap after the unused segments, and what they gave
TrimResult(n, swept) ==
  LET m == swept.heap
      none == n + swept.released = 0
  IN  Returns([m EXCEPT !.trim_check = IF none /\ m.topsize > @ THEN MAX_SIZE_T ELSE @],
              IF none THEN 0 ELSE 1)
AfterTop(trimmed, sp) ==
  TrimResult(trimmed.released, release_unused_segments(ShrinkTop(trimmed, sp)))
TrimAndSweep(m, sp, pad) ==
  AfterTop(IF m.topsize > pad THEN TrimTop(m, sp, Surplus(m.topsize, pad, m.mparams.granularity))
           ELSE [heap |-> m, released |-> 0], sp)
sys_trim(m0, pad) ==
  LET m == ensure_initialization(m0)
  IN  IF pad >= MAX_REQUEST \/ ~is_initialized(m) THEN Returns(m, 0)
      ELSE TrimAndSweep(m, segment_holding(m, m.top), pad + TOP_FOOT_SIZE)

=============================================================================
