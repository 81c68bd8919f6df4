------------------------------- MODULE Malloc -------------------------------
(* malloc, free and their relatives: each takes the heap and its arguments   *)
(* and returns the heap afterwards, the result of the call in m.ret.         *)
EXTENDS MallocSystem

-----------------------------------------------------------------------------
(* free.                                                                     *)
Uncounted(m, size) == m
Discount(m, size) == IF m.io = 0 THEN [m EXCEPT !.footprint = @ - size] ELSE m
UnmapChunk(m, p, psize) ==
  LET size == psize + prev_foot(m, p) + MMAP_FOOT_PAD
  IN  Discount(CALL_MUNMAP(m, p - prev_foot(m, p), size), size)

(* What freeing p has come to: the heap, the chunk and its size, and whether *)
(* the chunk is placed already (in top or dv) or is still to go into a bin.  *)
Freeing(m, p, size, placed) == [heap |-> m, chunk |-> p, size |-> size, placed |-> placed]

ConsolidateBackward(m, p, psize, next) ==
  LET prevsize == prev_foot(m, p)
      prev == p - prevsize
      size == psize + prevsize
      checked == RTCHECK(m, ok_address(m, prev))
      nextinuse == head(m, next) % (INUSE_BITS + 1) = INUSE_BITS
  IN  IF pinuse(m, p) THEN Freeing(m, p, psize, FALSE)
      ELSE IF prev # m.dv THEN Freeing(unlink_chunk(checked, prev, prevsize), prev, size, FALSE)
      ELSE IF nextinuse
      THEN Freeing(set_free_with_pinuse([checked EXCEPT !.dvsize = size], prev, size, next),
                   prev, size, TRUE)
      ELSE Freeing(checked, prev, size, FALSE)

ConsolidateForward(m, p, psize, next) ==
  LET nsize == chunksize(m, next)
      joined == set_size_and_pinuse_of_free_chunk(unlink_chunk(m, next, nsize), p, psize + nsize)
      withoutdv == IF p = m.dv THEN [m EXCEPT !.dv = 0, !.dvsize = 0] ELSE m
      dsize == m.dvsize + psize
  IN  IF cinuse(m, next)
      THEN Freeing(set_free_with_pinuse(m, p, psize, next), p, psize, FALSE)
      ELSE IF next = m.top THEN Freeing(SetTop(withoutdv, p, m.topsize + psize), p, psize, TRUE)
      ELSE IF next = m.dv
      THEN Freeing(set_size_and_pinuse_of_free_chunk([m EXCEPT !.dv = p, !.dvsize = dsize],
                                                     p, dsize), p, dsize, TRUE)
      ELSE IF p = m.dv
      THEN Freeing([joined EXCEPT !.dvsize = psize + nsize], p, psize + nsize, TRUE)
      ELSE Freeing(joined, p, psize + nsize, FALSE)

ThenForward(back, next, ok) ==
  IF back.placed THEN back
  ELSE ConsolidateForward(RTCHECK(back.heap, ok), back.chunk, back.size, next)
Consolidate(m, p, psize, ok) ==
  ThenForward(ConsolidateBackward(m, p, psize, p + psize), p + psize, ok)

Bin(free) == IF free.placed THEN free.heap ELSE insert_chunk(free.heap, free.chunk, free.size)
dispose_chunk(m, p, psize) ==
  IF ~pinuse(m, p) /\ is_mmapped(m, p) THEN UnmapChunk(m, p, psize)
  ELSE Bin(Consolidate(m, p, psize, ok_address(m, p + psize)))

\* a large chunk counts down to the next look at the unused segments
CountDown(m) == IF m.release_checks = 0 THEN release_unused_segments(m).heap ELSE m
BinFreed(free) ==
  IF is_small(free.size) THEN Bin(free) ELSE CountDown([Bin(free) EXCEPT !.release_checks = @ - 1])

Freed(free, nexttotop) ==
  IF ~free.placed THEN BinFreed(free)
  ELSE IF nexttotop /\ should_trim(free.heap, free.heap.topsize) THEN sys_trim(free.heap, 0)
  ELSE free.heap
dlfree(m, mem) ==
  LET p == mem2chunk(mem)
      psize == chunksize(m, p)
      next == p + psize
      checked == RTCHECK(m, ok_address(m, p) /\ is_inuse(m, p))
  IN  IF mem = 0 THEN m
      ELSE IF is_mmapped(m, p) THEN UnmapChunk(checked, p, psize)
      ELSE Freed(Consolidate(checked, p, psize, ok_next(p, next) /\ pinuse(m, next)), next = m.top)

-----------------------------------------------------------------------------
(* malloc.                                                                   *)

\* the smallest of t and its descendants, if it leaves less than rsize of nb
BestFrom(m, t0, nb, v0, rsize0) ==
  LET Best[t, v, rsize \in Addresses] ==
        LET trem == Wrap(chunksize(m, t) - nb)
        IN  IF t = 0 THEN [chunk |-> v, rsize |-> rsize]
            ELSE IF trem < rsize THEN Best[leftmost_child(m, t), t, trem]
            ELSE Best[leftmost_child(m, t), v, rsize]
  IN  Best[t0, v0, rsize0]

(* Down the tree of the bin that nb belongs to, along the bits of nb: the    *)
(* best chunk met, and the least subtree that holds larger ones.             *)
SearchTree(m, nb) ==
  LET Down[t, bits, v, rsize, rst \in Addresses] ==
        LET trem == Wrap(chunksize(m, t) - nb)
            better == trem < rsize
            best == IF better THEN t ELSE v
            left == IF better THEN trem ELSE rsize
            rt == child(m, t, 1)
            down == child(m, t, LeadingBit(bits))
            least == IF rt # 0 /\ rt # down THEN rt ELSE rst
        IN  IF better /\ trem = 0 THEN [chunk |-> t, rsize |-> 0, subtree |-> t]
            ELSE IF down = 0 THEN [chunk |-> best, rsize |-> left, subtree |-> least]
            ELSE Down[down, ShiftLeft(bits), best, left, least]
      root == Word(m, treebin_at(m, compute_tree_index(nb)))
  IN  IF root = 0 THEN [chunk |-> 0, rsize |-> Wrap(-nb), subtree |-> 0]
      ELSE Down[root, SizeBits(nb, compute_tree_index(nb)), 0, Wrap(-nb), 0]

\* nb bytes of chunk v, which has rsize more, and what then becomes of the rest
Split(m, v, nb, rsize) ==
  set_size_and_pinuse_of_free_chunk(set_size_and_pinuse_of_inuse_chunk(m, v, nb), v + nb, rsize)
SplitOrWhole(m, v, nb, rsize, split) ==
  Returns(IF rsize < MIN_CHUNK_SIZE THEN set_inuse_and_pinuse(m, v, rsize + nb) ELSE split,
          chunk2mem(v))
TakeOut(m, v, nb) == unlink_large_chunk(RTCHECK(m, ok_address(m, v) /\ ok_next(v, v + nb)), v)
SplitLarge(m, v, nb, rsize) ==
  SplitOrWhole(m, v, nb, rsize, insert_chunk(Split(m, v, nb, rsize), v + nb, rsize))
SplitIntoDv(m, v, nb, rsize) ==
  SplitOrWhole(m, v, nb, rsize, replace_dv(Split(m, v, nb, rsize), v + nb, rsize))

\* nothing in the bin of nb: the least bin of larger chunks
OrLargerBin(m, nb, found) ==
  LET larger == {i \in m.treemap : i > compute_tree_index(nb)}
  IN  IF found.subtree = 0 /\ found.chunk = 0 /\ larger # {}
      THEN [found EXCEPT !.subtree = Word(m, treebin_at(m, LeastOf(larger)))] ELSE found
BestOf(m, nb, found) == BestFrom(m, found.subtree, nb, found.chunk, found.rsize)
UnlessDvFitsBetter(m, nb, best) ==
  IF best.chunk # 0 /\ best.rsize < Wrap(m.dvsize - nb)
  THEN SplitLarge(TakeOut(m, best.chunk, nb), best.chunk, nb, best.rsize)
  ELSE Returns(m, 0)
tmalloc_large(m, nb) ==
  UnlessDvFitsBetter(m, nb, BestOf(m, nb, OrLargerBin(m, nb, SearchTree(m, nb))))

SplitBest(m, nb, best) ==
  SplitIntoDv(TakeOut(m, best.chunk, nb), best.chunk, nb, best.rsize)
tmalloc_small(m, nb) ==
  LET root == Word(m, treebin_at(m, LeastOf(m.treemap)))
  IN  SplitBest(m, nb, BestFrom(m, leftmost_child(m, root), nb, root, chunksize(m, root) - nb))

(* The first chunk of small bin i, all of it or the nb bytes that are asked. *)
TakeUnlinked(m, p, i, nb) ==
  LET rsize == small_index2size(i) - nb
  IN  Returns(IF i - small_index(nb) \in {0, 1}
              THEN set_inuse_and_pinuse(m, p, small_index2size(i))
              ELSE replace_dv(Split(m, p, nb, rsize), p + nb, rsize), chunk2mem(p))
TakeSmall(m, i, nb) ==
  LET b == smallbin_at(m, i)
  IN  TakeUnlinked(unlink_first_small_chunk(m, b, fd(m, b), i), fd(m, b), i, nb)

TakeDv(m, nb) ==
  LET rsize == m.dvsize - nb
  IN  Returns(IF rsize >= MIN_CHUNK_SIZE
              THEN Split([m EXCEPT !.dv = @ + nb, !.dvsize = rsize], m.dv, nb, rsize)
              ELSE set_inuse_and_pinuse([m EXCEPT !.dv = 0, !.dvsize = 0], m.dv, m.dvsize),
              chunk2mem(m.dv))

\* dv, else top, else the system, unless a tree served the request already
TakeRest(m, nb) ==
  IF m.ret # 0 THEN m
  ELSE IF nb <= m.dvsize THEN TakeDv(m, nb)
  ELSE IF nb < m.topsize THEN AllocateFromTop(m, nb)
  ELSE sys_alloc(m, nb)

AllocSmall(m, nb) ==
  LET fits == {i \in m.smallmap : i >= small_index(nb)}
      exact == fits # {} /\ LeastOf(fits) - small_index(nb) <= 1
  IN  IF exact \/ (nb > m.dvsize /\ fits # {}) THEN TakeSmall(m, LeastOf(fits), nb)
      ELSE IF nb > m.dvsize /\ m.treemap # {} THEN tmalloc_small(m, nb)
      ELSE m
AllocLarge(m, nb) == IF m.treemap # {} THEN tmalloc_large(m, nb) ELSE m

\* too large a request gets a size that nothing serves
RequestSize(bytes) == IF bytes >= MAX_REQUEST THEN MAX_SIZE_T ELSE request2size(bytes)
AllocBinned(m, bytes, nb) ==
  IF bytes <= MAX_SMALL_REQUEST THEN AllocSmall(m, nb)
  ELSE IF bytes < MAX_REQUEST THEN AllocLarge(m, nb)
  ELSE m
dlmalloc(m, bytes) ==
  TakeRest(AllocBinned(Returns(m, 0), bytes, RequestSize(bytes)), RequestSize(bytes))

=============================================================================
