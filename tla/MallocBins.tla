----------------------------- MODULE MallocBins -----------------------------
(* The memory of the heap word by word: the fields of chunks, the lists of   *)
(* small free chunks and the trees of large ones.  The heap is a record m,   *)
(* one field for every member of malloc_state, with its address m.at, and    *)
(* the memory m.mem: a function from the addresses of the words that hold    *)
(* something known to what they hold.  A C function is an operator from the  *)
(* heap before the call to the heap after it.  Reading a word that nothing   *)
(* was written to is outside the domain of m.mem, an error in every run.     *)
EXTENDS MallocSizes, FiniteSets, Functions, TLC

Word(m, a) == m.mem[a]
Store(m, words) == [m EXCEPT !.mem = words @@ @]
Forget(m, lo, hi) ==
  [m EXCEPT !.mem = Restrict(@, {a \in DOMAIN @ : a < lo \/ a >= hi})]

\* fields of struct malloc_chunk and struct malloc_tree_chunk
head_at(p) == p + SIZE_T_SIZE
fd_at(p) == p + 2 * SIZE_T_SIZE
bk_at(p) == p + 3 * SIZE_T_SIZE
child_at(t, i) == t + (4 + i) * SIZE_T_SIZE
parent_at(t) == t + 6 * SIZE_T_SIZE
index_at(t) == t + 7 * SIZE_T_SIZE

prev_foot(m, p) == Word(m, p)
head(m, p) == Word(m, head_at(p))
fd(m, p) == Word(m, fd_at(p))
bk(m, p) == Word(m, bk_at(p))
child(m, t, i) == Word(m, child_at(t, i))
parent(m, t) == Word(m, parent_at(t))
index(m, t) == Word(m, index_at(t))
leftmost_child_left_only(m, t) == child(m, t, 0)
leftmost_child(m, t) ==
  IF child(m, t, 0) # 0 THEN child(m, t, 0) ELSE child(m, t, 1)

\* the bits of the head
PINUSE_BIT == 1
CINUSE_BIT == 2
INUSE_BITS == PINUSE_BIT + CINUSE_BIT
FLAG_BITS == 7
FENCEPOST_HEAD == INUSE_BITS + SIZE_T_SIZE

PinuseOf(h) == h % 2
pinuse(m, p) == PinuseOf(head(m, p)) = 1
cinuse(m, p) == (head(m, p) \div CINUSE_BIT) % 2 = 1
is_inuse(m, p) == head(m, p) % (INUSE_BITS + 1) # PINUSE_BIT
is_mmapped(m, p) == head(m, p) % (INUSE_BITS + 1) = 0
chunksize(m, p) == (head(m, p) \div (FLAG_BITS + 1)) * (FLAG_BITS + 1)

next_chunk(m, p) == p + chunksize(m, p)
prev_chunk(m, p) == p - prev_foot(m, p)
next_pinuse(m, p) == pinuse(m, next_chunk(m, p))
overhead_for(m, p) == IF is_mmapped(m, p) THEN MMAP_CHUNK_OVERHEAD ELSE CHUNK_OVERHEAD
calloc_must_clear_never(m, p) == FALSE
calloc_must_clear(m, p) == ~is_mmapped(m, p)

clear_pinuse(m, p) == Store(m, head_at(p) :> (head(m, p) - PinuseOf(head(m, p))))

\* what the free chunk held is of no further use to anyone
set_size_and_pinuse_of_free_chunk(m, p, s) ==
  Store(Forget(m, fd_at(p), p + s), (head_at(p) :> (s + PINUSE_BIT)) @@ ((p + s) :> s))
set_free_without_pinuse(m, p, s, n) == set_size_and_pinuse_of_free_chunk(m, p, s)
set_free_with_pinuse(m, p, s, n) ==
  set_size_and_pinuse_of_free_chunk(clear_pinuse(m, n), p, s)

(* The head of a chunk that is being cut out of another one may still be a   *)
(* caller's word; its low bit, all that is read of it, is set before it      *)
(* counts.                                                                   *)
PinuseBit(m, p) ==
  IF head_at(p) \in DOMAIN m.mem /\ head(m, p) \in Nat THEN PinuseOf(head(m, p)) ELSE 0
SetPinuse(m, p) ==
  Store(m, head_at(p) :> IF head_at(p) \in DOMAIN m.mem /\ head(m, p) \in Nat
                         THEN head(m, p) - PinuseBit(m, p) + PINUSE_BIT ELSE PINUSE_BIT)
set_inuse(m, p, s) ==
  SetPinuse(Store(m, head_at(p) :> (PinuseBit(m, p) + s + CINUSE_BIT)), p + s)
set_size_and_pinuse_of_inuse_chunk(m, p, s) == Store(m, head_at(p) :> (s + INUSE_BITS))
set_inuse_and_pinuse(m, p, s) ==
  SetPinuse(set_size_and_pinuse_of_inuse_chunk(m, p, s), p + s)

\* a check that fails ends in ABORT
RTCHECK(m, ok) == [m EXCEPT !.aborted = @ \/ ~ok]
ok_address(m, a) == a >= m.least_addr
ok_next(p, n) == p < n

-----------------------------------------------------------------------------
(* Small bins: the head of the list of bin i is laid over the array of bins  *)
(* so that its fd and bk are the two pointers of bin i.                      *)
smallbin_at(m, i) == m.at + i * 2 * SIZE_T_SIZE
treebin_at(m, i) == m.at + (NSMALLBINS + 1) * 2 * SIZE_T_SIZE + i * SIZE_T_SIZE

Link(m, f, b) ==
  [m EXCEPT !.mem = [a \in DOMAIN @ \cup {bk_at(f), fd_at(b)} |->
                       IF a = bk_at(f) THEN b ELSE IF a = fd_at(b) THEN f ELSE @[a]]]

LinkFirst(m, p, b, f) == RTCHECK(Link(Link(m, f, p), p, b), f = b \/ ok_address(m, f))
insert_small_chunk(m, p, s) ==
  LET i == small_index(s)
      b == smallbin_at(m, i)
  IN  LinkFirst([m EXCEPT !.smallmap = @ \cup {i}], p, b, IF i \in m.smallmap THEN fd(m, b) ELSE b)

unlink_small_chunk(m, p, s) ==
  LET f == fd(m, p)
      b == bk(m, p)
      i == small_index(s)
      bin == smallbin_at(m, i)
  IN  RTCHECK(IF b = f THEN [m EXCEPT !.smallmap = @ \ {i}] ELSE Link(m, f, b),
              /\ f = bin \/ (ok_address(m, f) /\ bk(m, f) = p)
              /\ b \in {f, bin} \/ (ok_address(m, b) /\ fd(m, b) = p))

unlink_first_small_chunk(m, b, p, i) ==
  LET f == fd(m, p)
  IN  IF b = f THEN [m EXCEPT !.smallmap = @ \ {i}]
      ELSE Link(RTCHECK(m, ok_address(m, f) /\ bk(m, f) = p), f, b)

replace_dv(m, p, s) ==
  LET binned == IF m.dvsize = 0 THEN m ELSE insert_small_chunk(m, m.dv, m.dvsize)
  IN  [binned EXCEPT !.dvsize = s, !.dv = p]

-----------------------------------------------------------------------------
(* Tree bins: a tree per bin, digital in the bits of the size below its      *)
(* leading one, and under every node a ring of chunks of the same size.      *)
Addresses == 0 .. MAX_SIZE_T

\* place: the node of the same size, or the pointer that is to hold x and its node
Hang(m, x, root, place) ==
  LET f == fd(m, place.node)
  IN  IF place.same
      THEN RTCHECK(Store(Link(Link(m, f, x), x, place.node), parent_at(x) :> 0),
                   ok_address(m, place.node) /\ ok_address(m, f))
      ELSE RTCHECK(Store(Link(m, x, x), (place.slot :> x) @@ (parent_at(x) :> place.node)),
                   place.slot = root \/ ok_address(m, place.slot))

PlaceFor(m, s, i, root) ==
  LET Place[t \in Addresses, k \in Addresses] ==
        LET c == child_at(t, LeadingBit(k))
        IN  IF chunksize(m, t) = s THEN [same |-> TRUE, node |-> t, slot |-> 0]
            ELSE IF Word(m, c) = 0 THEN [same |-> FALSE, node |-> t, slot |-> c]
            ELSE Place[Word(m, c), ShiftLeft(k)]
  IN  IF i \in m.treemap THEN Place[Word(m, root), SizeBits(s, i)]
      ELSE [same |-> FALSE, node |-> root, slot |-> root]
InsertInBin(m, x, s, i, root) ==
  Hang(Store([m EXCEPT !.treemap = @ \cup {i}],
             (index_at(x) :> i) @@ (child_at(x, 0) :> 0) @@ (child_at(x, 1) :> 0)),
       x, root, PlaceFor(m, s, i, root))
insert_large_chunk(m, x, s) ==
  LET i == compute_tree_index(s) IN InsertInBin(m, x, s, i, treebin_at(m, i))

Adopt(m, r, x, i) ==
  LET c == child(m, x, i)
  IN  IF c = 0 THEN m
      ELSE RTCHECK(Store(m, (child_at(r, i) :> c) @@ (parent_at(c) :> r)), ok_address(m, c))

\* r, or nothing when r is 0, takes the place of x in the tree, when x has one
PutAt(m, x, r, isroot, slot) ==
  RTCHECK(Store([m EXCEPT !.treemap = IF isroot /\ r = 0 THEN @ \ {index(m, x)} ELSE @], slot :> r),
          isroot \/ ok_address(m, parent(m, x)))
AdoptChildren(m, r, x) ==
  IF r = 0 THEN m
  ELSE RTCHECK(Adopt(Adopt(Store(m, parent_at(r) :> parent(m, x)), r, x, 0), r, x, 1),
               ok_address(m, r))
Replace(m, x, r) ==
  LET xp == parent(m, x)
      bin == treebin_at(m, index(m, x))
      isroot == Word(m, bin) = x
  IN  IF xp = 0 THEN m
      ELSE AdoptChildren(PutAt(m, x, r, isroot, IF isroot THEN bin
                               ELSE child_at(xp, IF child(m, xp, 0) = x THEN 0 ELSE 1)), r, x)

\* the pointer to the last descendant of x, 0 when there is none
LeafSlot(m, x) ==
  LET Leaf[slot \in Addresses] ==
        LET t == Word(m, slot)
        IN  IF child(m, t, 1) # 0 THEN Leaf[child_at(t, 1)]
            ELSE IF child(m, t, 0) # 0 THEN Leaf[child_at(t, 0)] ELSE slot
  IN  IF child(m, x, 1) # 0 THEN Leaf[child_at(x, 1)]
      ELSE IF child(m, x, 0) # 0 THEN Leaf[child_at(x, 0)] ELSE 0

(* The replacement of x is the next chunk of the same size, else the last    *)
(* descendant of x, which is a leaf.                                         *)
UnlinkFrom(m, x, f, r, rp) ==
  IF r # x
  THEN Replace(RTCHECK(Link(m, f, r), ok_address(m, f) /\ bk(m, f) = x /\ fd(m, r) = x), x, r)
  ELSE Replace(IF rp = 0 THEN m ELSE RTCHECK(Store(m, rp :> 0), ok_address(m, rp)), x,
               IF rp = 0 THEN 0 ELSE Word(m, rp))
unlink_large_chunk(m, x) == UnlinkFrom(m, x, fd(m, x), bk(m, x), LeafSlot(m, x))

insert_chunk(m, p, s) ==
  IF is_small(s) THEN insert_small_chunk(m, p, s) ELSE insert_large_chunk(m, p, s)
unlink_chunk(m, p, s) ==
  IF is_small(s) THEN unlink_small_chunk(m, p, s) ELSE unlink_large_chunk(m, p)

=============================================================================
