----------------------------- MODULE MallocState -----------------------------
(* The heap and the system below it: what MORECORE, MMAP, MUNMAP and MREMAP  *)
(* give and take, the segments the heap is made of, chunks that are regions  *)
(* of their own, and how the heap grows and shrinks.                         *)
(*                                                                           *)
(* m.sys is the system: brk and the ceiling it may rise to, the pages maps,  *)
(* and held, the bytes this heap holds of it; m.env is how it answers during *)
(* the current call.  m.io is the result of a call to the system and m.ret   *)
(* that of a call of the heap.                                               *)
EXTENDS MallocBins, SequencesExt

CONSTANTS
  page_size,
  DEFAULT_GRANULARITY,
  DEFAULT_MMAP_THRESHOLD,
  DEFAULT_TRIM_THRESHOLD,
  MAX_RELEASE_CHECK_RATE,
  MmapPages               \* the pages MMAP gives out; the others are below brk's ceiling

ASSUME StateAssumption ==
  /\ page_size \in {2^k : k \in 0 .. SIZE_T_BITSIZE - 1}
  /\ DEFAULT_GRANULARITY \in {2^k : k \in 0 .. SIZE_T_BITSIZE - 1}
  /\ MmapPages \subseteq 1 .. MAX_SIZE_T \div page_size

Returns(m, value) == [m EXCEPT !.ret = value]
Answers(m, value) == [m EXCEPT !.io = value]
PagesOf(base, size) == (base \div page_size) .. ((base + size) \div page_size) - 1

-----------------------------------------------------------------------------
(* The system.                                                               *)
(* Every call of MORECORE may fail, or only the ones that give memory back.  *)
CALL_MORECORE(m, n) ==
  LET end == m.sys.brk + n
      refused == \/ m.env.brk = "fails"
                 \/ n < 0 /\ m.env.brk = "stays"
                 \/ n > 0 /\ end > m.sys.ceiling
  IN  IF refused THEN Answers(m, CMFAIL)
      ELSE [Forget(m, end, m.sys.brk) EXCEPT
              !.sys.brk = end, !.sys.held = @ + n, !.io = m.sys.brk]

(* The highest place that is free or, when something else was mapped there   *)
(* in the meantime, the highest one that leaves a page below its neighbour.  *)
Place(m, size) ==
  LET free == MmapPages \ m.sys.maps
      gap == IF m.env.map = "apart" THEN 1 ELSE 0
      fits == {a \in free : PagesOf(a * page_size, size + gap * page_size) \subseteq free}
  IN  IF m.env.map = "refused" \/ fits = {} THEN CMFAIL
      ELSE (CHOOSE a \in fits : \A b \in fits : b <= a) * page_size

CALL_MMAP(m, size) ==
  LET base == Place(m, size)
  IN  IF base = CMFAIL THEN Answers(m, CMFAIL)
      ELSE [m EXCEPT !.sys.maps = @ \cup PagesOf(base, size),
                     !.sys.held = @ + size, !.io = base]

Unmapped(m, base, size) ==
  [Forget(m, base, base + size) EXCEPT
     !.sys.maps = @ \ PagesOf(base, size), !.sys.held = @ - size]
CALL_MUNMAP(m, base, size) ==
  IF m.env.unmap THEN Answers(Unmapped(m, base, size), 0) ELSE Answers(m, CMFAIL)

(* Shrinks in place, grows in place when the pages behind are free, and else *)
(* moves the region with its contents when it may.                           *)
CALL_MREMAP(m, base, oldsize, newsize, may_move) ==
  LET tail == PagesOf(base, newsize) \ PagesOf(base, oldsize)
      new == Place(m, newsize)
      inside == {a \in DOMAIN m.mem : a >= base /\ a < base + oldsize}
      moved == Store(Forget(m, base, base + oldsize),
                     [a \in {b + new - base : b \in inside} |-> m.mem[a - new + base]])
  IN  IF ~m.env.remap THEN Answers(m, CMFAIL)
      ELSE IF newsize <= oldsize
      THEN Answers(Unmapped(m, base + newsize, oldsize - newsize), base)
      ELSE IF tail \subseteq MmapPages \ m.sys.maps
      THEN [m EXCEPT !.sys.maps = @ \cup tail, !.sys.held = @ + newsize - oldsize, !.io = base]
      ELSE IF ~may_move \/ new = CMFAIL THEN Answers(m, CMFAIL)
      ELSE [moved EXCEPT
              !.sys.maps = (@ \ PagesOf(base, oldsize)) \cup PagesOf(new, newsize),
              !.sys.held = @ + newsize - oldsize, !.io = new]

-----------------------------------------------------------------------------
(* Parameters and flags.                                                     *)
init_mparams(m) ==
  [m EXCEPT !.mparams = [magic |-> TRUE, granularity |-> DEFAULT_GRANULARITY,
                         mmap_threshold |-> DEFAULT_MMAP_THRESHOLD,
                         trim_threshold |-> DEFAULT_TRIM_THRESHOLD],
            !.mflags = IF m.global THEN {"USE_MMAP"} ELSE @]
ensure_initialization(m) == IF m.mparams.magic THEN m ELSE init_mparams(m)

change_mparam(m0, param, value) ==
  LET m == ensure_initialization(m0)
      val == IF value = -1 THEN MAX_SIZE_T ELSE value
      power == \E k \in 0 .. SIZE_T_BITSIZE - 1 : val = 2^k
  IN  CASE param = "M_TRIM_THRESHOLD" -> Returns([m EXCEPT !.mparams.trim_threshold = val], 1)
        [] param = "M_MMAP_THRESHOLD" -> Returns([m EXCEPT !.mparams.mmap_threshold = val], 1)
        [] param = "M_GRANULARITY" ->
             IF val >= page_size /\ power
             THEN Returns([m EXCEPT !.mparams.granularity = val], 1) ELSE Returns(m, 0)
        [] OTHER -> Returns(m, 0)

use_mmap(m) == "USE_MMAP" \in m.mflags
use_noncontiguous(m) == "USE_NONCONTIGUOUS" \in m.mflags
disable_contiguous(m) == [m EXCEPT !.mflags = @ \cup {"USE_NONCONTIGUOUS"}]

page_align(n) == AlignUp(n, page_size)
mmap_align(n) == page_align(n)
\* the mask of a granularity that was not set yet leaves nothing
granularity_align(m, n) ==
  IF m.mparams.granularity = 0 THEN 0 ELSE AlignUp(Wrap(n), m.mparams.granularity)

malloc_segment_size == 4 * SIZE_T_SIZE
TOP_FOOT_SIZE == align_offset(chunk2mem(0)) + pad_request(malloc_segment_size) + MIN_CHUNK_SIZE
SYS_ALLOC_PADDING == TOP_FOOT_SIZE + MALLOC_ALIGNMENT

is_initialized(m) == m.top # 0
should_trim(m, s) == s > m.trim_check
WithinLimitBeforehand(m, size) == m.footprint_limit = 0 \/ m.footprint <= m.footprint_limit
WithinLimit(m, size) ==
  LET fp == Wrap(m.footprint + size)
  IN  m.footprint_limit = 0 \/ (fp > m.footprint /\ fp <= m.footprint_limit)
AddFootprint(m, size) ==
  LET fp == m.footprint + size
  IN  [m EXCEPT !.footprint = fp,
                !.max_footprint = IF fp > @ THEN fp ELSE @]

-----------------------------------------------------------------------------
(* Segments: a list of records that starts in malloc_state; the record of an *)
(* older segment lies at the end of that segment.                            *)
seg_at(m) == treebin_at(m, NTREEBINS)
Segment(m, sp) ==
  [base |-> Word(m, sp), size |-> Word(m, sp + SIZE_T_SIZE),
   next |-> Word(m, sp + 2 * SIZE_T_SIZE), sflags |-> Word(m, sp + 3 * SIZE_T_SIZE)]
SetSegment(m, sp, s) ==
  Store(m, (sp :> s.base) @@ ((sp + SIZE_T_SIZE) :> s.size)
           @@ ((sp + 2 * SIZE_T_SIZE) :> s.next) @@ ((sp + 3 * SIZE_T_SIZE) :> s.sflags))

segments(m) ==
  LET From[sp \in Addresses] == IF sp = 0 THEN <<>> ELSE <<sp>> \o From[Segment(m, sp).next]
  IN  From[seg_at(m)]
SegmentEnd(m, sp) == Segment(m, sp).base + Segment(m, sp).size
segment_holds(m, sp, a) == a >= Segment(m, sp).base /\ a < SegmentEnd(m, sp)

\* the first of the segments S in the order of the list, 0 when there is none
FirstSegment(m, S) ==
  LET found == SelectSeq(segments(m), LAMBDA sp : sp \in S)
  IN  IF found = <<>> THEN 0 ELSE Head(found)
segment_holding(m, a) == FirstSegment(m, {sp \in Range(segments(m)) : segment_holds(m, sp, a)})
has_segment_link(m, ss) == \E i \in DOMAIN segments(m) : segment_holds(m, ss, segments(m)[i])

MMAPPED == 1
EXTERN_BIT == 8
is_mmapped_segment(m, sp) == Segment(m, sp).sflags % 2 = MMAPPED
is_extern_segment(m, sp) == Segment(m, sp).sflags >= EXTERN_BIT

\* what top covers is of no further use to anyone
SetTop(m, p, size) ==
  Store([Forget(m, fd_at(p), p + size) EXCEPT !.top = p, !.topsize = size],
        head_at(p) :> (size + PINUSE_BIT))
init_top(m, base, size) ==
  LET offset == align_offset(chunk2mem(base))
      top == SetTop(m, base + offset, size - offset)
  IN  [Store(top, head_at(base + size) :> TOP_FOOT_SIZE) EXCEPT
         !.trim_check = m.mparams.trim_threshold]

init_bins(m) ==
  LET links == {fd_at(smallbin_at(m, i)) : i \in 0 .. NSMALLBINS - 1}
               \cup {bk_at(smallbin_at(m, i)) : i \in 0 .. NSMALLBINS - 1}
  IN  Store(m, [a \in links |-> a - ((a - m.at) % (2 * SIZE_T_SIZE)) - 2 * SIZE_T_SIZE])

=============================================================================
