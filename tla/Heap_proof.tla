----------------------------- MODULE Heap_proof -----------------------------
(* What the heap's arithmetic gives to every request on every width of       *)
(* size_t, and that the lists of the small bins lead through the chunks that *)
(* belong to them, whatever is put into them and taken out.                  *)
EXTENDS MallocBins, TLAPS

(* The powers of two that the proofs rest on, for the provers know `^' on    *)
(* numbers only: size_t wraps around at a multiple of the alignment, and so  *)
(* do the large sizes begin at one, below the largest request.               *)
Powers2(full, large) ==
  /\ full \in Nat /\ full % 8 = 0 /\ full >= 128
  /\ large \in Nat /\ large % 8 = 0 /\ large >= 32 /\ large <= full - 72

WordSizes == Powers2(2^SIZE_T_BITSIZE, 2^TREEBIN_SHIFT)

(* They are so where the kernel runs, and in the instances that TLC checks.  *)
LEMMA KernelWords == ASSUME SIZE_T_BITSIZE = 32, TREEBIN_SHIFT = 8 PROVE WordSizes
BY SMT DEF WordSizes, Powers2

LEMMA CheckedWords == ASSUME SIZE_T_BITSIZE = 16, TREEBIN_SHIFT = 6 PROVE WordSizes
BY SMT DEF WordSizes, Powers2

-----------------------------------------------------------------------------
(* The macros' values. *)
LEMMA MacroValues ==
  ASSUME WordSizes
  PROVE  \E full, large \in Nat :
           /\ Powers2(full, large)
           /\ \A n : Wrap(n) = n % full
           /\ MALLOC_ALIGNMENT = 8 /\ CHUNK_OVERHEAD = 4
           /\ MIN_CHUNK_SIZE = 16 /\ MIN_REQUEST = 11
           /\ MAX_REQUEST = full - 64
           /\ MAX_SMALL_REQUEST = large - 12
           /\ NSMALLBINS = large \div 8
<1>1. PICK full, large \in Nat :
        Powers2(full, large) /\ full = 2^SIZE_T_BITSIZE /\ large = 2^TREEBIN_SHIFT
  BY DEF WordSizes, Powers2
<1>2. \A n : Wrap(n) = n % full
  BY <1>1 DEF Wrap
<1>3. MALLOC_ALIGNMENT = 8 /\ CHUNK_OVERHEAD = 4 /\ MCHUNK_SIZE = 16
  BY SizesAssumption DEF MALLOC_ALIGNMENT, CHUNK_OVERHEAD, MCHUNK_SIZE
<1>4. MIN_CHUNK_SIZE = 16
  <2>1. Wrap(16 + 8 - 1) = 23
    BY <1>1, <1>2 DEF Powers2
  <2> QED BY <1>3, <2>1 DEF MIN_CHUNK_SIZE, AlignUp
<1>5. MIN_REQUEST = 11
  BY <1>3, <1>4 DEF MIN_REQUEST
<1>6. MAX_REQUEST = full - 64
  <2>1. (-64) % full = full - 64
    BY <1>1 DEF Powers2
  <2>2. (-MIN_CHUNK_SIZE) * 4 = -64
    BY <1>4
  <2> QED BY <1>2, <2>1, <2>2 DEF MAX_REQUEST
<1>7. MAX_SMALL_REQUEST = large - 12 /\ NSMALLBINS = large \div 8
  BY <1>1, <1>3 DEF MAX_SMALL_REQUEST, NSMALLBINS, MIN_LARGE_SIZE, SMALLBIN_WIDTH
<1> QED BY <1>1, <1>2, <1>3, <1>4, <1>5, <1>6, <1>7

(* Padding does not wrap around below MAX_REQUEST. *)
LEMMA Padded ==
  ASSUME WordSizes, NEW req \in Nat, req < MAX_REQUEST
  PROVE  /\ pad_request(req) \in Nat /\ pad_request(req) % 8 = 0
         /\ req + 4 <= pad_request(req) /\ pad_request(req) < req + 12
         /\ pad_request(req) <= MAX_REQUEST + 8
<1>1. PICK full, large \in Nat :
        /\ Powers2(full, large)
        /\ \A n : Wrap(n) = n % full
        /\ MALLOC_ALIGNMENT = 8 /\ CHUNK_OVERHEAD = 4
        /\ MAX_REQUEST = full - 64
  BY MacroValues
<1>2. Wrap(req + CHUNK_OVERHEAD) = req + 4
  <2>1. (req + 4) % full = req + 4
    BY <1>1 DEF Powers2
  <2> QED BY <1>1, <2>1
<1>3. Wrap(req + 4 + 8 - 1) = req + 11
  <2>1. req + 4 + 8 - 1 = req + 11 /\ (req + 11) % full = req + 11
    BY <1>1 DEF Powers2
  <2> QED BY <1>1, <2>1
<1>4. pad_request(req) = (req + 11) - ((req + 11) % 8)
  BY <1>1, <1>2, <1>3 DEF pad_request, AlignUp
<1>5. full % 8 = 0 /\ req < full - 64
  BY <1>1 DEF Powers2
<1>6. PICK pad \in Nat : pad = pad_request(req) /\ pad % 8 = 0 /\ req + 4 <= pad /\ pad < req + 12
  <2>1. PICK n \in Nat : n = (req + 11) - ((req + 11) % 8)
    OBVIOUS
  <2>2. n % 8 = 0 /\ req + 4 <= n /\ n < req + 12
    BY ONLY <2>1, req \in Nat
  <2> QED BY <1>4, <2>1, <2>2
<1>7. pad <= (full - 64) + 8
  BY ONLY <1>5, <1>6, req \in Nat, full \in Nat
<1> QED BY <1>1, <1>6, <1>7

(* Every request below MAX_REQUEST (malloc refuses the others) is served     *)
(* with a chunk of an aligned size that is no smaller than the smallest one, *)
(* has room for the request behind its overhead, wastes less than a chunk,   *)
(* and is a size_t: request2size (malloc.c) does not wrap around.            *)
THEOREM RequestsGetRoom ==
  ASSUME WordSizes, NEW req \in Nat, req < MAX_REQUEST
  PROVE  /\ is_aligned(request2size(req))
         /\ request2size(req) >= MIN_CHUNK_SIZE
         /\ request2size(req) >= req + CHUNK_OVERHEAD
         /\ request2size(req) < req + CHUNK_OVERHEAD + MIN_CHUNK_SIZE
         /\ Wrap(request2size(req)) = request2size(req)
<1>1. PICK full, large \in Nat :
        /\ Powers2(full, large)
        /\ \A n : Wrap(n) = n % full
        /\ MALLOC_ALIGNMENT = 8 /\ CHUNK_OVERHEAD = 4
        /\ MIN_CHUNK_SIZE = 16 /\ MIN_REQUEST = 11
        /\ MAX_REQUEST = full - 64
  BY MacroValues
<1>2. PICK nb \in Nat : nb = request2size(req) /\ nb % 8 = 0 /\ nb >= 16
                        /\ nb >= req + 4 /\ nb < req + 20 /\ nb < full
  <2>1. CASE req < 11
    <3>1. request2size(req) = 16
      BY <1>1, <2>1 DEF request2size
    <3> QED BY <1>1, <2>1, <3>1 DEF Powers2
  <2>2. CASE req >= 11
    <3>1. request2size(req) = pad_request(req)
      BY <1>1, <2>2 DEF request2size
    <3>2. PICK nb \in Nat : nb = pad_request(req) /\ nb % 8 = 0
                            /\ req + 4 <= nb /\ nb < req + 12 /\ nb <= full - 56
      BY <1>1, Padded
    <3>3. nb >= 16 /\ nb < full
      BY <2>2, <3>2
    <3> QED BY <3>1, <3>2, <3>3
  <2> QED BY <2>1, <2>2
<1>3. nb % full = nb
  BY <1>2
<1> QED BY <1>1, <1>2, <1>3 DEF is_aligned

(* The small requests are exactly those whose chunks belong to small bins,   *)
(* so that malloc, which tells them apart by the request, and free, which    *)
(* does by the size of the chunk, agree (malloc.c).                          *)
THEOREM SmallRequestsGetSmallChunks ==
  ASSUME WordSizes, NEW req \in Nat, req < MAX_REQUEST
  PROVE  req <= MAX_SMALL_REQUEST <=> is_small(request2size(req))
<1>1. PICK full, large \in Nat :
        /\ Powers2(full, large)
        /\ MIN_CHUNK_SIZE = 16 /\ MIN_REQUEST = 11
        /\ MAX_SMALL_REQUEST = large - 12 /\ NSMALLBINS = large \div 8
  BY MacroValues
<1>2. PICK nb \in Nat : nb = request2size(req) /\ nb % 8 = 0
                        /\ (req < 11 => nb = 16)
                        /\ (req >= 11 => req + 4 <= nb /\ nb < req + 12)
  <2>1. CASE req < 11
    <3>1. request2size(req) = 16
      BY <1>1, <2>1 DEF request2size
    <3> QED BY <2>1, <3>1
  <2>2. CASE req >= 11
    <3>1. request2size(req) = pad_request(req)
      BY <1>1, <2>2 DEF request2size
    <3> QED BY <2>2, <3>1, Padded
  <2> QED BY <2>1, <2>2
<1>3. is_small(nb) <=> nb \div 8 < large \div 8
  BY <1>1 DEF is_small, small_index, SMALLBIN_WIDTH
<1>4. large \in Nat /\ large % 8 = 0 /\ large >= 32
  BY <1>1 DEF Powers2
<1>5. nb \div 8 < large \div 8 <=> nb < large
  BY ONLY <1>2, <1>4
<1>6. req <= large - 12 <=> nb < large
  BY ONLY <1>2, <1>4
<1> QED BY <1>1, <1>2, <1>3, <1>5, <1>6

(* A small bin holds chunks of a single size, the one that                   *)
(* small_index2size says: exact fits need no search (malloc.c).              *)
THEOREM SmallBinsAreExact ==
  ASSUME WordSizes, NEW s \in Nat, is_aligned(s), is_small(s)
  PROVE  small_index(s) \in 0 .. NSMALLBINS - 1 /\ small_index2size(small_index(s)) = s
<1>1. PICK full, large \in Nat :
        Powers2(full, large) /\ MALLOC_ALIGNMENT = 8 /\ NSMALLBINS = large \div 8
  BY MacroValues
<1>2. s % 8 = 0
  BY <1>1 DEF is_aligned
<1>3. s \div 8 \in Nat /\ (s \div 8) * 8 = s
  BY <1>2
<1>4. s \div 8 < NSMALLBINS /\ NSMALLBINS \in Nat
  BY <1>1 DEF is_small, small_index, SMALLBIN_WIDTH
<1> QED BY <1>3, <1>4 DEF small_index, small_index2size, SMALLBIN_WIDTH

(* align_as_chunk (malloc.c) gives the first address from a on at which a    *)
(* chunk may begin, one whose block is aligned.                              *)
THEOREM ChunksBeginAligned ==
  ASSUME NEW a \in Nat
  PROVE  /\ is_aligned(chunk2mem(align_as_chunk(a)))
         /\ a <= align_as_chunk(a)
         /\ \A b \in Nat : a <= b /\ is_aligned(chunk2mem(b)) => align_as_chunk(a) <= b
<1>1. SIZE_T_SIZE = 4 /\ MALLOC_ALIGNMENT = 8
  BY SizesAssumption DEF MALLOC_ALIGNMENT
<1>2. PICK up \in Nat : up = align_as_chunk(a) /\ up = a + ((-(a + 8)) % 8)
  <2>1. (-(a + 8)) % 8 \in Nat
    OBVIOUS
  <2>2. align_as_chunk(a) = a + ((-(a + 8)) % 8)
    BY <1>1 DEF align_as_chunk, align_offset, chunk2mem
  <2> QED BY <2>1, <2>2
<1>3. (up + 8) % 8 = 0 /\ a <= up /\ up < a + 8
  BY ONLY <1>2
<1>4. \A b \in Nat : a <= b /\ (b + 8) % 8 = 0 => up <= b
  BY ONLY <1>3, a \in Nat, up \in Nat
<1> QED BY <1>1, <1>2, <1>3, <1>4 DEF is_aligned, chunk2mem

-----------------------------------------------------------------------------
(* The bins of the trees, on the kernel's processor. *)
KernelBins == SIZE_T_BITSIZE = 32 /\ TREEBIN_SHIFT = 8 /\ NTREEBINS = 32

(* 2^j is TwoTo[j + 1]. *)
TwoTo ==
  <<1, 2, 4, 8, 16, 32, 64, 128, 256, 512, 1024, 2048, 4096, 8192, 16384,
    32768, 65536, 131072, 262144, 524288, 1048576, 2097152, 4194304, 8388608,
    16777216, 33554432, 67108864, 134217728, 268435456, 536870912,
    1073741824, 2147483648, 4294967296, 8589934592>>

LEMMA PowersOfTwo == ASSUME NEW j \in 0 .. 33 PROVE 2^j = TwoTo[j + 1]
<1>0. CASE j = 0 BY SMT, <1>0 DEF TwoTo
<1>1. CASE j = 1 BY SMT, <1>1 DEF TwoTo
<1>2. CASE j = 2 BY SMT, <1>2 DEF TwoTo
<1>3. CASE j = 3 BY SMT, <1>3 DEF TwoTo
<1>4. CASE j = 4 BY SMT, <1>4 DEF TwoTo
<1>5. CASE j = 5 BY SMT, <1>5 DEF TwoTo
<1>6. CASE j = 6 BY SMT, <1>6 DEF TwoTo
<1>7. CASE j = 7 BY SMT, <1>7 DEF TwoTo
<1>8. CASE j = 8 BY SMT, <1>8 DEF TwoTo
<1>9. CASE j = 9 BY SMT, <1>9 DEF TwoTo
<1>10. CASE j = 10 BY SMT, <1>10 DEF TwoTo
<1>11. CASE j = 11 BY SMT, <1>11 DEF TwoTo
<1>12. CASE j = 12 BY SMT, <1>12 DEF TwoTo
<1>13. CASE j = 13 BY SMT, <1>13 DEF TwoTo
<1>14. CASE j = 14 BY SMT, <1>14 DEF TwoTo
<1>15. CASE j = 15 BY SMT, <1>15 DEF TwoTo
<1>16. CASE j = 16 BY SMT, <1>16 DEF TwoTo
<1>17. CASE j = 17 BY SMT, <1>17 DEF TwoTo
<1>18. CASE j = 18 BY SMT, <1>18 DEF TwoTo
<1>19. CASE j = 19 BY SMT, <1>19 DEF TwoTo
<1>20. CASE j = 20 BY SMT, <1>20 DEF TwoTo
<1>21. CASE j = 21 BY SMT, <1>21 DEF TwoTo
<1>22. CASE j = 22 BY SMT, <1>22 DEF TwoTo
<1>23. CASE j = 23 BY SMT, <1>23 DEF TwoTo
<1>24. CASE j = 24 BY SMT, <1>24 DEF TwoTo
<1>25. CASE j = 25 BY SMT, <1>25 DEF TwoTo
<1>26. CASE j = 26 BY SMT, <1>26 DEF TwoTo
<1>27. CASE j = 27 BY SMT, <1>27 DEF TwoTo
<1>28. CASE j = 28 BY SMT, <1>28 DEF TwoTo
<1>29. CASE j = 29 BY SMT, <1>29 DEF TwoTo
<1>30. CASE j = 30 BY SMT, <1>30 DEF TwoTo
<1>31. CASE j = 31 BY SMT, <1>31 DEF TwoTo
<1>32. CASE j = 32 BY SMT, <1>32 DEF TwoTo
<1>33. CASE j = 33 BY SMT, <1>33 DEF TwoTo
<1> QED BY <1>0, <1>1, <1>2, <1>3, <1>4, <1>5, <1>6, <1>7, <1>8, <1>9, <1>10, <1>11, <1>12, <1>13, <1>14, <1>15, <1>16, <1>17, <1>18, <1>19, <1>20, <1>21, <1>22, <1>23, <1>24, <1>25, <1>26, <1>27, <1>28, <1>29, <1>30, <1>31, <1>32, <1>33

LEMMA Doubles ==
  /\ \A j \in 0 .. 32 : TwoTo[j + 1] \in Nat /\ 1 <= TwoTo[j + 1] /\ TwoTo[j + 2] = 2 * TwoTo[j + 1]
  /\ \A j \in 16 .. 32 : TwoTo[j + 1] >= 65536
BY SMT DEF TwoTo

LEMMA LargePowers == TwoTo[17] = 65536 /\ TwoTo[25] = 16777216
BY SMT DEF TwoTo

(* What lies between the two bins of a power of two. *)
LEMMA Halves ==
  ASSUME NEW s \in Nat, NEW p \in Nat, p > 0, 2 * p <= s, s < 4 * p
  PROVE  \/ (s \div p) % 2 = 0 /\ s < 3 * p
         \/ (s \div p) % 2 = 1 /\ s >= 3 * p
<1>1. s \div p \in {2, 3}
  OBVIOUS
<1>2. s \div p = 2 => s < 3 * p
  OBVIOUS
<1>3. s \div p = 3 => s >= 3 * p
  OBVIOUS
<1> QED BY <1>1, <1>2, <1>3

LEMMA PowersAt ==
  ASSUME NEW j \in 0 .. 32 PROVE 2^j = TwoTo[j + 1] /\ 2^(j + 1) = TwoTo[j + 2]
<1>1. PICK k \in 0 .. 33 : k = j + 1 /\ k + 1 = j + 2
  OBVIOUS
<1>2. 2^k = TwoTo[k + 1]
  BY PowersOfTwo, Zenon
<1>3. j \in 0 .. 33
  OBVIOUS
<1>4. 2^j = TwoTo[j + 1]
  BY <1>3, PowersOfTwo, Zenon
<1>5. 2^(j + 1) = TwoTo[j + 2]
  BY ONLY <1>1, <1>2, Zenon
<1> QED BY <1>4, <1>5, Zenon

(* The powers of two above a number. *)
Above(x) == {j \in 0 .. 16 : x < TwoTo[j + 1]}

(* The index of the highest bit of x. *)
LEMMA Highest ==
  ASSUME NEW x \in Nat, 1 <= x, x < TwoTo[17]
  PROVE  /\ \E j \in 0 .. 15 : TwoTo[j + 1] <= x /\ x < TwoTo[j + 2]
         /\ \A j \in 0 .. 32 : TwoTo[j + 1] <= x => j <= 15
<1>1. TwoTo[1] = 1 /\ TwoTo[17] = 65536
  BY SMT DEF TwoTo
<1>2. 0 \notin Above(x) /\ 16 \in Above(x)
  <2>1. 0 + 1 = 1 /\ 16 + 1 = 17 /\ 16 \in 0 .. 16
    BY SMT
  <2> QED BY <1>1, <2>1, SMT DEF Above
<1>3. \E j \in 0 .. 15 : j \notin Above(x) /\ j + 1 \in Above(x)
  BY ONLY <1>2, SMT
<1>4. PICK j \in 0 .. 15 : j \notin Above(x) /\ j + 1 \in Above(x)
  BY <1>3, SMT
<1>5. TwoTo[j + 1] \in Nat /\ j \in 0 .. 16 /\ j + 1 + 1 = j + 2
  BY Doubles, SMT
<1>6. TwoTo[j + 1] <= x /\ x < TwoTo[j + 2]
  <2>1. x < TwoTo[j + 1 + 1]
    BY <1>4, SMT DEF Above
  <2>2. ~(x < TwoTo[j + 1])
    BY <1>4, <1>5, SMT DEF Above
  <2> QED BY <1>5, <2>1, <2>2, SMT
<1>7. \A k \in 0 .. 32 : TwoTo[k + 1] <= x => k <= 15
  <2> SUFFICES ASSUME NEW k \in 0 .. 32, k > 15 PROVE ~(TwoTo[k + 1] <= x)
    BY SMT
  <2>1. TwoTo[k + 1] >= 65536 /\ TwoTo[k + 1] \in Nat
    BY Doubles, SMT
  <2> QED BY <1>1, <2>1, SMT
<1> QED BY <1>6, <1>7, SMT

(* The index in terms of the table. *)
LEMMA TreeIndex ==
  ASSUME KernelBins, NEW s \in Nat, 256 <= s, s < TwoTo[25]
  PROVE  \E k \in 0 .. 15 :
           /\ 256 * TwoTo[k + 1] <= s /\ s < 256 * TwoTo[k + 2]
           /\ compute_tree_index(s) = 2 * k + ((s \div TwoTo[k + 8]) % 2)
<1>1. PICK x \in Nat : /\ x = s \div 256 /\ 1 <= x /\ x < TwoTo[17]
                       /\ 256 * x <= s /\ s < 256 * (x + 1)
  BY LargePowers, SMT
<1>2. 2^TREEBIN_SHIFT = 256 /\ 2^(NTREEBINS \div 2) = TwoTo[17]
  <2>1. TREEBIN_SHIFT = 8 /\ NTREEBINS \div 2 = 16
    BY SMT DEF KernelBins
  <2>2. 16 \in 0 .. 33 /\ 16 + 1 = 17
    BY SMT
  <2>3. 2^8 = 256
    BY ONLY SMT
  <2>4. 2^16 = TwoTo[17]
    BY <2>2, PowersOfTwo, Zenon
  <2> QED BY <2>1, <2>3, <2>4, Zenon
<1>3. x = s \div 2^TREEBIN_SHIFT
  BY <1>1, <1>2, Zenon
<1>4. x # 0 /\ ~(x >= 2^(NTREEBINS \div 2))
  <2>1. x # 0 /\ ~(x >= TwoTo[17])
    BY <1>1, LargePowers, SMT
  <2> QED BY <1>2, <2>1, Zenon
<1>5. PICK k : k = CHOOSE j \in 0 .. SIZE_T_BITSIZE : 2^j <= x /\ x < 2^(j + 1)
  BY Zenon
<1>6. k \in 0 .. 32 /\ 2^k <= x /\ x < 2^(k + 1)
  <2>1. SIZE_T_BITSIZE = 32
    BY DEF KernelBins
  <2>2. PICK j \in 0 .. 15 : TwoTo[j + 1] <= x /\ x < TwoTo[j + 2]
    BY <1>1, Highest
  <2>3. j \in 0 .. 32
    BY SMT
  <2>4. 2^j <= x /\ x < 2^(j + 1)
    BY <2>2, <2>3, PowersAt, Zenon
  <2> QED BY <1>5, <2>1, <2>3, <2>4, Zenon
<1>7. TwoTo[k + 1] <= x /\ x < TwoTo[k + 2] /\ k <= 15
  <2>1. TwoTo[k + 1] <= x /\ x < TwoTo[k + 2]
    BY <1>6, PowersAt, Zenon
  <2> QED BY <1>1, <1>6, <2>1, Highest, Zenon
<1>8. compute_tree_index(s) = 2 * k + Bit(s, k + TREEBIN_SHIFT - 1)
  BY <1>3, <1>4, <1>5, Zenon DEF compute_tree_index
<1>9. Bit(s, k + TREEBIN_SHIFT - 1) = (s \div TwoTo[k + 8]) % 2
  <2>1. PICK j \in 0 .. 32 : j = k + TREEBIN_SHIFT - 1 /\ j + 1 = k + 8
    BY <1>6, <1>7, SMT DEF KernelBins
  <2>2. 2^j = TwoTo[k + 8]
    BY <2>1, PowersAt, Zenon
  <2> QED BY <2>1, <2>2, Zenon DEF Bit
<1>10. 256 * TwoTo[k + 1] <= s /\ s < 256 * TwoTo[k + 2]
  <2>1. TwoTo[k + 1] \in Nat /\ TwoTo[k + 2] \in Nat
    <3>1. k \in 0 .. 32 /\ TwoTo[k + 2] = 2 * TwoTo[k + 1]
      BY <1>6, Doubles, SMT
    <3> QED BY <3>1, Doubles, SMT
  <2> QED BY <1>1, <1>7, <2>1, SMT
<1>11. k \in 0 .. 15
  BY <1>6, <1>7, SMT
<1>12. compute_tree_index(s) = 2 * k + ((s \div TwoTo[k + 8]) % 2)
  BY <1>8, <1>9, Zenon
<1> QED BY <1>10, <1>11, <1>12, Zenon

(* The smallest size of a bin in terms of the table. *)
LEMMA Smallest ==
  ASSUME KernelBins, NEW k \in 0 .. 16, NEW b \in 0 .. 1
  PROVE  minsize_for_tree_index(2 * k + b) = TwoTo[k + 9] + b * TwoTo[k + 8]
<1>1. (2 * k + b) \div 2 = k /\ (2 * k + b) % 2 = b
  BY SMT
<1>2. PICK i : i = 2 * k + b
  BY Zenon
<1>3. PICK j \in 0 .. 32 : j = k + TREEBIN_SHIFT - 1 /\ j + 1 = k + TREEBIN_SHIFT
                           /\ j + 1 = k + 8 /\ j + 2 = k + 9
  BY SMT DEF KernelBins
<1>4. 2^j = TwoTo[k + 8] /\ 2^(j + 1) = TwoTo[k + 9]
  BY <1>3, PowersAt, Zenon
<1>5. minsize_for_tree_index(i) = 2^(k + TREEBIN_SHIFT) + b * 2^(k + TREEBIN_SHIFT - 1)
  BY <1>1, <1>2, Zenon DEF minsize_for_tree_index
<1> QED BY <1>2, <1>3, <1>4, <1>5, Zenon

(* The powers around a bin. *)
LEMMA TableSteps ==
  ASSUME NEW k \in 0 .. 15, NEW s \in Nat, 256 * TwoTo[k + 1] <= s, s < 256 * TwoTo[k + 2]
  PROVE  \E p \in Nat : /\ p = TwoTo[k + 8] /\ p > 0
                        /\ TwoTo[k + 9] = 2 * p /\ TwoTo[k + 10] = 4 * p
                        /\ 2 * p <= s /\ s < 4 * p
<1>1. \A j \in 0 .. 15 : /\ TwoTo[j + 8] \in Nat /\ TwoTo[j + 8] > 0
                         /\ TwoTo[j + 9] = 2 * TwoTo[j + 8] /\ TwoTo[j + 10] = 4 * TwoTo[j + 8]
                         /\ 256 * TwoTo[j + 1] = 2 * TwoTo[j + 8]
                         /\ 256 * TwoTo[j + 2] = 4 * TwoTo[j + 8]
  BY SMT DEF TwoTo
<1> QED BY <1>1, SMT

(* The bins of the trees divide the large sizes among them, each size        *)
(* belongs to the bin whose sizes begin at or below it, while those of the   *)
(* next one begin above it: compute_tree_index, which finds the highest bit, *)
(* and minsize_for_tree_index, which malloc's searches go by, agree          *)
(* (malloc.c).                                                               *)
THEOREM TreeBinsDivideSizes ==
  ASSUME KernelBins, NEW s \in Nat, MIN_LARGE_SIZE <= s
  PROVE  LET i == compute_tree_index(s)
         IN  /\ i \in 0 .. NTREEBINS - 1
             /\ minsize_for_tree_index(i) <= s
             /\ i # NTREEBINS - 1 => s < minsize_for_tree_index(i + 1)
<1> DEFINE bin == compute_tree_index(s)
<1>1. 2^TREEBIN_SHIFT = 256 /\ 2^(NTREEBINS \div 2) = TwoTo[17] /\ NTREEBINS = 32
  <2>1. TREEBIN_SHIFT = 8 /\ NTREEBINS \div 2 = 16 /\ NTREEBINS = 32
    BY SMT DEF KernelBins
  <2>2. 16 \in 0 .. 33 /\ 16 + 1 = 17
    BY SMT
  <2>3. 2^8 = 256
    BY ONLY SMT
  <2>4. 2^16 = TwoTo[17]
    BY <2>2, PowersOfTwo, Zenon
  <2> QED BY <2>1, <2>3, <2>4, Zenon
<1>2. 256 <= s
  BY <1>1, Zenon DEF MIN_LARGE_SIZE
<1>3. CASE s < TwoTo[25]
  <2>1. PICK k \in 0 .. 15 : /\ 256 * TwoTo[k + 1] <= s /\ s < 256 * TwoTo[k + 2]
                             /\ bin = 2 * k + ((s \div TwoTo[k + 8]) % 2)
    BY <1>2, <1>3, TreeIndex, Zenon
  <2>2. PICK p \in Nat : /\ p = TwoTo[k + 8] /\ p > 0
                         /\ TwoTo[k + 9] = 2 * p /\ TwoTo[k + 10] = 4 * p
                         /\ 2 * p <= s /\ s < 4 * p
    BY <2>1, TableSteps, Zenon
  <2>3. PICK b \in 0 .. 1 : b = (s \div p) % 2 /\ 2 * p + b * p <= s /\ s < 2 * p + (b + 1) * p
    <3>1. \/ (s \div p) % 2 = 0 /\ s < 3 * p
          \/ (s \div p) % 2 = 1 /\ s >= 3 * p
      BY <2>2, Halves, Zenon
    <3>2. PICK b : b = (s \div p) % 2
      BY Zenon
    <3>3. b \in 0 .. 1
      BY <3>1, <3>2
    <3>4. 2 * p + b * p <= s /\ s < 2 * p + (b + 1) * p
      <4>1. CASE b = 0 /\ s < 3 * p
        BY ONLY <2>2, <4>1, s \in Nat, p \in Nat, SMT
      <4>2. CASE b = 1 /\ s >= 3 * p
        BY ONLY <2>2, <4>2, s \in Nat, p \in Nat, SMT
      <4> QED BY <3>1, <3>2, <4>1, <4>2, Zenon
    <3> QED BY <3>2, <3>3, <3>4, Zenon
  <2>4. bin = 2 * k + b
    BY <2>1, <2>2, <2>3, Zenon
  <2>5. minsize_for_tree_index(2 * k + b) = 2 * p + b * p
    <3>1. k \in 0 .. 16
      BY SMT
    <3> QED BY <2>2, <3>1, Smallest, Zenon
  <2>6. minsize_for_tree_index((2 * k + b) + 1) = 2 * p + (b + 1) * p
    <3>1. CASE b = 0
      <4>1. k \in 0 .. 16 /\ 1 \in 0 .. 1 /\ (2 * k + b) + 1 = 2 * k + 1 /\ b + 1 = 1
        BY <3>1, SMT
      <4> QED BY <2>2, <4>1, Smallest, Zenon
    <3>2. CASE b = 1
      <4>1. PICK h \in 0 .. 16 : /\ h = k + 1 /\ (2 * k + b) + 1 = 2 * h + 0
                                 /\ h + 9 = k + 10 /\ h + 8 = k + 9 /\ 0 \in 0 .. 1
        BY <3>2, SMT
      <4>2. minsize_for_tree_index((2 * k + b) + 1) = 4 * p + 0 * (2 * p)
        BY <2>2, <4>1, Smallest, Zenon
      <4>3. 4 * p + 0 * (2 * p) = 2 * p + (b + 1) * p
        BY <3>2, SMT
      <4> QED BY <4>2, <4>3, Zenon
    <3> QED BY <3>1, <3>2, SMT
  <2>7. 2 * k + b \in 0 .. NTREEBINS - 1
    BY <1>1, SMT
  <2> QED BY <2>3, <2>4, <2>5, <2>6, <2>7, Zenon
<1>4. CASE TwoTo[25] <= s
  <2>1. s \div 256 # 0 /\ s \div 256 >= TwoTo[17]
    BY <1>4, LargePowers, SMT
  <2>2. bin = NTREEBINS - 1
    BY <1>1, <2>1, Zenon DEF compute_tree_index
  <2>3. NTREEBINS - 1 = 31 /\ 31 = 2 * 15 + 1 /\ 31 \in 0 .. 31 /\ 15 \in 0 .. 16 /\ 1 \in 0 .. 1
    BY <1>1, SMT
  <2>4. minsize_for_tree_index(31) = TwoTo[15 + 9] + 1 * TwoTo[15 + 8]
    BY <2>3, Smallest, Zenon
  <2>5. TwoTo[15 + 9] + 1 * TwoTo[15 + 8] <= TwoTo[25]
    BY SMT DEF TwoTo
  <2>6. TwoTo[15 + 9] + 1 * TwoTo[15 + 8] <= s
    BY <1>4, <2>5, LargePowers, SMT DEF TwoTo
  <2> QED BY <2>2, <2>3, <2>4, <2>5, <2>6, Zenon
<1>5. s < TwoTo[25] \/ TwoTo[25] <= s
  BY LargePowers, SMT
<1> QED BY <1>3, <1>4, <1>5, Zenon

-----------------------------------------------------------------------------
(* The lists of the small bins.  binned says which free chunks each of them  *)
(* is to hold; the lists hold them when, from the head that is laid over the *)
(* array of bins, fd leads through all of them and back to the head, and bk  *)
(* leads the other way.  An emptied bin keeps its last two pointers: only    *)
(* smallmap says that they mean nothing.                                     *)
Nodes == {p \in Nat : p % 8 = 0}
SmallIndices == {i \in Nat : i < NSMALLBINS}
Heads(m) == {smallbin_at(m, i) : i \in SmallIndices}

IsRing(b, N, f, g) ==
  /\ b \in N
  /\ \A x \in N : f[x] \in N /\ g[x] \in N /\ g[f[x]] = x /\ f[g[x]] = x
  /\ \A T \in SUBSET N : b \in T /\ (\A x \in T : f[x] \in T) => T = N

Forth(m, N) == [x \in N |-> fd(m, x)]
Back(m, N) == [x \in N |-> bk(m, x)]
Has(m, x) == fd_at(x) \in DOMAIN m.mem /\ bk_at(x) \in DOMAIN m.mem
Listed(m, b, S) ==
  /\ \A x \in S \cup {b} : Has(m, x)
  /\ IsRing(b, S \cup {b}, Forth(m, S \cup {b}), Back(m, S \cup {b}))

IsHeap(m) ==
  /\ m = [k \in DOMAIN m |-> m[k]]
  /\ {"mem", "smallmap", "aborted", "at", "least_addr"} \subseteq DOMAIN m
  /\ m.at \in Nodes /\ m.least_addr \in Nat /\ m.aborted \in BOOLEAN

SmallBins(m, binned) ==
  /\ IsHeap(m)
  /\ binned \in [SmallIndices -> SUBSET Nodes]
  /\ \A i \in SmallIndices : \A p \in binned[i] : ok_address(m, p) /\ p \notin Heads(m)
  /\ \A i, j \in SmallIndices : i # j => binned[i] \cap binned[j] = {}
  /\ m.smallmap = {i \in SmallIndices : binned[i] # {}}
  /\ \A i \in m.smallmap : Listed(m, smallbin_at(m, i), binned[i])

(* Nothing but the links of the nodes N changes. *)
OnlyLinks(m, n, N) ==
  \A a \in DOMAIN m.mem :
    a \in DOMAIN n.mem /\ (n.mem[a] = m.mem[a] \/ \E x \in N : a = fd_at(x) \/ a = bk_at(x))

(* A node put behind the head of a ring. *)
LEMMA RingGrows ==
  ASSUME NEW N, NEW b, NEW f, NEW g, IsRing(b, N, f, g),
         NEW p, p \notin N, NEW f2, NEW g2,
         f2[b] = p, f2[p] = f[b], \A x \in N \ {b} : f2[x] = f[x],
         g2[p] = b, g2[f[b]] = p, \A x \in N \ {f[b]} : g2[x] = g[x]
  PROVE  IsRing(b, N \cup {p}, f2, g2)
<1>1. b \in N /\ f[b] \in N /\ g[f[b]] = b /\ \A x \in N : f[x] \in N /\ g[x] \in N /\ g[f[x]] = x /\ f[g[x]] = x
  BY DEF IsRing
<1>2. ASSUME NEW x \in N \cup {p}
      PROVE  f2[x] \in N \cup {p} /\ g2[x] \in N \cup {p} /\ g2[f2[x]] = x /\ f2[g2[x]] = x
  <2>1. CASE x = p
    BY <1>1, <2>1
  <2>2. CASE x \in N
    <3>1. f2[x] \in N \cup {p} /\ g2[f2[x]] = x
      <4>1. CASE x = b
        BY <1>1, <4>1
      <4>2. CASE x # b
        BY <1>1, <2>2, <4>2
      <4> QED BY <4>1, <4>2
    <3>2. g2[x] \in N \cup {p} /\ f2[g2[x]] = x
      <4>1. CASE x = f[b]
        BY <1>1, <4>1
      <4>2. CASE x # f[b]
        BY <1>1, <2>2, <4>2
      <4> QED BY <4>1, <4>2
    <3> QED BY <3>1, <3>2
  <2> QED BY <2>1, <2>2
<1>3. ASSUME NEW T \in SUBSET (N \cup {p}), b \in T, \A x \in T : f2[x] \in T
      PROVE  T = N \cup {p}
  <2>1. p \in T
    BY <1>3
  <2>2. \A x \in T \ {p} : f[x] \in T \ {p}
    <3> SUFFICES ASSUME NEW x \in T \ {p} PROVE f[x] \in T \ {p}
      OBVIOUS
    <3>1. x \in N /\ f[x] \in N /\ f[x] # p
      BY <1>1
    <3>2. CASE x = b
      BY <1>3, <2>1, <3>1, <3>2
    <3>3. CASE x # b
      BY <1>3, <3>1, <3>3
    <3> QED BY <3>2, <3>3
  <2>3. T \ {p} \in SUBSET N /\ b \in T \ {p}
    BY <1>1, <1>3
  <2>4. T \ {p} = N
    BY <2>2, <2>3 DEF IsRing
  <2> QED BY <2>1, <2>4
<1> QED BY <1>1, <1>2, <1>3 DEF IsRing

(* A node taken out of a ring. *)
LEMMA RingShrinks ==
  ASSUME NEW N, NEW b, NEW f, NEW g, IsRing(b, N, f, g),
         NEW p \in N, p # b, NEW f2, NEW g2,
         f2[g[p]] = f[p], \A x \in N \ {p, g[p]} : f2[x] = f[x],
         g2[f[p]] = g[p], \A x \in N \ {p, f[p]} : g2[x] = g[x],
         f[p] # p
  PROVE  IsRing(b, N \ {p}, f2, g2)
<1>1. b \in N /\ \A x \in N : f[x] \in N /\ g[x] \in N /\ g[f[x]] = x /\ f[g[x]] = x
  BY DEF IsRing
<1>2. g[p] # p
  BY <1>1
<1>3. ASSUME NEW x \in N \ {p}
      PROVE  f2[x] \in N \ {p} /\ g2[x] \in N \ {p} /\ g2[f2[x]] = x /\ f2[g2[x]] = x
  <2>1. f2[x] \in N \ {p} /\ g2[f2[x]] = x
    <3>1. CASE x = g[p]
      BY <1>1, <1>2, <3>1
    <3>2. CASE x # g[p]
      <4>1. f2[x] = f[x] /\ f[x] # p /\ f[x] # f[p]
        BY <1>1, <3>2
      <4> QED BY <1>1, <4>1
    <3> QED BY <3>1, <3>2
  <2>2. g2[x] \in N \ {p} /\ f2[g2[x]] = x
    <3>1. CASE x = f[p]
      BY <1>1, <1>2, <3>1
    <3>2. CASE x # f[p]
      <4>1. g2[x] = g[x] /\ g[x] # p /\ g[x] # g[p]
        BY <1>1, <3>2
      <4> QED BY <1>1, <4>1
    <3> QED BY <3>1, <3>2
  <2> QED BY <2>1, <2>2
<1>4. ASSUME NEW T \in SUBSET (N \ {p}), b \in T, \A x \in T : f2[x] \in T
      PROVE  T = N \ {p}
  <2>1. CASE g[p] \in T
    <3>1. \A x \in T \cup {p} : f[x] \in T \cup {p}
      <4> SUFFICES ASSUME NEW x \in T \cup {p} PROVE f[x] \in T \cup {p}
        OBVIOUS
      <4>1. CASE x = p
        BY <1>4, <2>1, <4>1
      <4>2. CASE x = g[p]
        BY <1>1, <4>2
      <4>3. CASE x # p /\ x # g[p]
        BY <1>4, <4>3
      <4> QED BY <4>1, <4>2, <4>3
    <3>2. T \cup {p} \in SUBSET N /\ b \in T \cup {p}
      BY <1>4
    <3>3. T \cup {p} = N
      BY <3>1, <3>2 DEF IsRing
    <3> QED BY <1>4, <3>3
  <2>2. CASE g[p] \notin T
    <3>1. \A x \in T : f[x] \in T
      BY <1>4, <2>2
    <3>2. T = N
      BY <1>4, <3>1 DEF IsRing
    <3> QED BY <1>4, <3>2
  <2> QED BY <2>1, <2>2
<1> QED BY <1>1, <1>3, <1>4 DEF IsRing

(* A node between the head and itself is the only one. *)
LEMMA RingOfOne ==
  ASSUME NEW N, NEW b, NEW f, NEW g, IsRing(b, N, f, g), NEW p \in N, p # b
  PROVE  /\ f[p] # p
         /\ f[p] = g[p] <=> N = {b, p}
         /\ g[p] = b /\ f[p] = b <=> N = {b, p}
<1>1. b \in N /\ \A x \in N : f[x] \in N /\ g[x] \in N /\ g[f[x]] = x /\ f[g[x]] = x
  BY DEF IsRing
<1>2. \A T \in SUBSET N : b \in T /\ (\A x \in T : f[x] \in T) => T = N
  BY DEF IsRing
<1>3. f[p] # p
  <2> SUFFICES ASSUME f[p] = p PROVE FALSE
    OBVIOUS
  <2>1. \A x \in N \ {p} : f[x] \in N \ {p}
    BY <1>1
  <2>2. N \ {p} = N
    BY <1>1, <1>2, <2>1
  <2> QED BY <2>2
<1>4. ASSUME f[p] = g[p] PROVE f[p] = b
  <2> SUFFICES ASSUME f[p] # b PROVE FALSE
    OBVIOUS
  <2> DEFINE T == N \ {p, f[p]}
  <2>1. \A x \in T : f[x] \in T
    <3> SUFFICES ASSUME NEW x \in T PROVE f[x] \in T
      OBVIOUS
    <3>1. f[x] # p /\ f[x] # f[p]
      BY <1>1, <1>4
    <3> QED BY <1>1, <3>1
  <2>2. T = N
    BY <1>1, <1>2, <2>1
  <2> QED BY <2>2
<1>5. ASSUME f[p] = b, g[p] = b PROVE N = {b, p}
  <2>1. f[b] = p
    BY <1>1, <1>5
  <2>2. \A x \in {b, p} : f[x] \in {b, p}
    BY <1>5, <2>1
  <2>3. {b, p} \in SUBSET N /\ b \in {b, p}
    BY <1>1
  <2> QED BY <1>2, <2>2, <2>3
<1>6. ASSUME N = {b, p} PROVE f[p] = b /\ g[p] = b
  <2>1. f[p] = b
    BY <1>1, <1>3, <1>6
  <2>2. g[p] # p
    BY <1>1, <1>3
  <2> QED BY <1>1, <1>6, <2>1, <2>2
<1> QED BY <1>3, <1>4, <1>5, <1>6

(* A heap whose memory or whose map of bins is another one. *)
LEMMA Fields ==
  ASSUME NEW m, IsHeap(m)
  PROVE  /\ \A mem : LET n == [m EXCEPT !.mem = mem]
                     IN  /\ IsHeap(n) /\ n.mem = mem /\ n.smallmap = m.smallmap
                         /\ n.at = m.at /\ n.least_addr = m.least_addr /\ n.aborted = m.aborted
         /\ \A map : LET n == [m EXCEPT !.smallmap = map]
                     IN  /\ IsHeap(n) /\ n.smallmap = map /\ n.mem = m.mem
                         /\ n.at = m.at /\ n.least_addr = m.least_addr /\ n.aborted = m.aborted
         /\ \A ok : ok => RTCHECK(m, ok) = m
<1>1. ASSUME NEW mem
      PROVE  LET n == [m EXCEPT !.mem = mem]
             IN  /\ IsHeap(n) /\ n.mem = mem /\ n.smallmap = m.smallmap
                 /\ n.at = m.at /\ n.least_addr = m.least_addr /\ n.aborted = m.aborted
  BY DEF IsHeap
<1>2. ASSUME NEW map
      PROVE  LET n == [m EXCEPT !.smallmap = map]
             IN  /\ IsHeap(n) /\ n.smallmap = map /\ n.mem = m.mem
                 /\ n.at = m.at /\ n.least_addr = m.least_addr /\ n.aborted = m.aborted
  BY DEF IsHeap
<1>3. ASSUME NEW ok, ok PROVE RTCHECK(m, ok) = m
  <2>1. (m.aborted \/ ~ok) = m.aborted
    BY <1>3 DEF IsHeap
  <2> QED BY <2>1 DEF IsHeap, RTCHECK
<1> QED BY <1>1, <1>2, <1>3

LEMMA Remapped ==
  ASSUME NEW m, IsHeap(m), NEW map
  PROVE  \E n : /\ n = [m EXCEPT !.smallmap = map] /\ IsHeap(n)
                /\ n.smallmap = map /\ n.mem = m.mem /\ n.at = m.at
                /\ n.least_addr = m.least_addr /\ n.aborted = m.aborted
<1> DEFINE n == [m EXCEPT !.smallmap = map]
<1>1. /\ IsHeap(n) /\ n.smallmap = map /\ n.mem = m.mem /\ n.at = m.at
      /\ n.least_addr = m.least_addr /\ n.aborted = m.aborted
  BY Fields
<1> QED BY <1>1

(* The addresses of a node's two links are the addresses of no other's. *)
LEMMA LinkWords ==
  ASSUME NEW x \in Nodes, NEW y \in Nodes
  PROVE  /\ fd_at(x) = fd_at(y) <=> x = y
         /\ bk_at(x) = bk_at(y) <=> x = y
         /\ fd_at(x) # bk_at(y)
<1>1. x \in Nat /\ y \in Nat /\ x % 8 = 0 /\ y % 8 = 0
  BY DEF Nodes
<1>2. fd_at(x) = x + 8 /\ bk_at(x) = x + 12 /\ fd_at(y) = y + 8 /\ bk_at(y) = y + 12
  BY <1>1, SizesAssumption DEF fd_at, bk_at
<1>3. x + 8 # y + 12
  BY ONLY <1>1, SMT
<1> QED BY <1>1, <1>2, <1>3

(* What Link writes. *)
LEMMA Linking ==
  ASSUME NEW m, IsHeap(m), NEW f \in Nodes, NEW b \in Nodes
  PROVE  \E n : /\ n = Link(m, f, b) /\ IsHeap(n)
                /\ n.smallmap = m.smallmap /\ n.at = m.at
                /\ n.least_addr = m.least_addr /\ n.aborted = m.aborted
                /\ DOMAIN n.mem = DOMAIN m.mem \cup {fd_at(b), bk_at(f)}
                /\ fd(n, b) = f /\ bk(n, f) = b
                /\ \A a \in DOMAIN m.mem : a # fd_at(b) /\ a # bk_at(f) => n.mem[a] = m.mem[a]
<1> DEFINE mem == [a \in DOMAIN m.mem \cup {bk_at(f), fd_at(b)} |->
                     IF a = bk_at(f) THEN b ELSE IF a = fd_at(b) THEN f ELSE m.mem[a]]
           n == [m EXCEPT !.mem = mem]
<1>1. fd_at(b) # bk_at(f)
  BY LinkWords
<1>2. n = Link(m, f, b)
  BY DEF Link
<1>3. /\ IsHeap(n) /\ n.mem = mem /\ n.smallmap = m.smallmap /\ n.at = m.at
      /\ n.least_addr = m.least_addr /\ n.aborted = m.aborted
  BY Fields
<1> HIDE DEF n
<1>4. fd(n, b) = f /\ bk(n, f) = b
  BY <1>1, <1>3 DEF fd, bk, Word
<1>5. DOMAIN n.mem = DOMAIN m.mem \cup {fd_at(b), bk_at(f)}
  BY <1>3
<1>6. \A a \in DOMAIN m.mem : a # fd_at(b) /\ a # bk_at(f) => n.mem[a] = m.mem[a]
  BY <1>3
<1> QED BY <1>2, <1>3, <1>4, <1>5, <1>6

(* The heads lie where nodes do, each at a place of its own. *)
LEMMA BinHeads ==
  ASSUME NEW m, IsHeap(m)
  PROVE  /\ \A i \in SmallIndices : smallbin_at(m, i) \in Nodes /\ smallbin_at(m, i) \in Heads(m)
         /\ \A i, j \in SmallIndices : smallbin_at(m, i) = smallbin_at(m, j) <=> i = j
<1>1. PICK at \in Nat : at = m.at /\ at % 8 = 0
  BY DEF IsHeap, Nodes
<1>2. \A i \in SmallIndices : smallbin_at(m, i) = at + i * 8
  <2> SUFFICES ASSUME NEW i \in SmallIndices PROVE smallbin_at(m, i) = at + i * 8
    OBVIOUS
  <2>1. i \in Nat
    BY DEF SmallIndices
  <2>2. (i * 2) * 4 = i * 8
    BY <2>1
  <2> QED BY <1>1, <2>2, SizesAssumption DEF smallbin_at
<1>3. \A i \in SmallIndices : i \in Nat
  BY DEF SmallIndices
<1>4. \A i \in Nat : at + i * 8 \in Nat /\ (at + i * 8) % 8 = 0
  BY ONLY <1>1, SMT
<1>5. \A i, j \in Nat : at + i * 8 = at + j * 8 <=> i = j
  BY ONLY <1>1, SMT
<1> QED BY <1>2, <1>3, <1>4, <1>5 DEF Nodes, Heads

(* A list none of whose links changes is still the list it was. *)
LEMMA ListUnchanged ==
  ASSUME NEW m, NEW n, NEW S \in SUBSET Nodes, NEW b \in Nodes, Listed(m, b, S),
         NEW N \in SUBSET Nodes, N \cap (S \cup {b}) = {}, OnlyLinks(m, n, N)
  PROVE  Listed(n, b, S)
<1> DEFINE R == S \cup {b}
<1>1. \A x \in R : Has(m, x)
  BY DEF Listed
<1>2. ASSUME NEW x \in R
      PROVE  Has(n, x) /\ fd(n, x) = fd(m, x) /\ bk(n, x) = bk(m, x)
  <2>1. x \in Nodes /\ \A y \in N : y \in Nodes /\ x # y
    OBVIOUS
  <2>2. \A y \in N : fd_at(x) # fd_at(y) /\ fd_at(x) # bk_at(y) /\ bk_at(x) # bk_at(y) /\ bk_at(x) # fd_at(y)
    BY <2>1, LinkWords
  <2> QED BY <1>1, <2>2 DEF Has, OnlyLinks, fd, bk, Word
<1>3. Forth(n, R) = Forth(m, R) /\ Back(n, R) = Back(m, R)
  BY <1>2 DEF Forth, Back
<1> QED BY <1>2, <1>3 DEF Listed

(* A node linked in behind the head b and before f. *)
LEMMA LinkingFirst ==
  ASSUME NEW m, IsHeap(m), NEW p \in Nodes, NEW b \in Nodes, NEW f \in Nodes,
         p # b, p # f, f = b \/ ok_address(m, f)
  PROVE  \E n : /\ n = LinkFirst(m, p, b, f) /\ IsHeap(n)
                /\ n.smallmap = m.smallmap /\ n.at = m.at
                /\ n.least_addr = m.least_addr /\ n.aborted = m.aborted
                /\ DOMAIN n.mem = DOMAIN m.mem \cup {fd_at(b), fd_at(p), bk_at(f), bk_at(p)}
                /\ fd(n, b) = p /\ fd(n, p) = f /\ bk(n, f) = p /\ bk(n, p) = b
                /\ \A a \in DOMAIN m.mem \ {fd_at(b), fd_at(p), bk_at(f), bk_at(p)} :
                     n.mem[a] = m.mem[a]
<1>1. PICK k : /\ k = Link(m, f, p) /\ IsHeap(k)
               /\ k.smallmap = m.smallmap /\ k.at = m.at
               /\ k.least_addr = m.least_addr /\ k.aborted = m.aborted
               /\ DOMAIN k.mem = DOMAIN m.mem \cup {fd_at(p), bk_at(f)}
               /\ fd(k, p) = f /\ bk(k, f) = p
               /\ \A a \in DOMAIN m.mem : a # fd_at(p) /\ a # bk_at(f) => k.mem[a] = m.mem[a]
  BY Linking
<1>2. PICK n : /\ n = Link(k, p, b) /\ IsHeap(n)
               /\ n.smallmap = k.smallmap /\ n.at = k.at
               /\ n.least_addr = k.least_addr /\ n.aborted = k.aborted
               /\ DOMAIN n.mem = DOMAIN k.mem \cup {fd_at(b), bk_at(p)}
               /\ fd(n, b) = p /\ bk(n, p) = b
               /\ \A a \in DOMAIN k.mem : a # fd_at(b) /\ a # bk_at(p) => n.mem[a] = k.mem[a]
  <2>1. IsHeap(k)
    BY <1>1
  <2> QED BY ONLY <2>1, p \in Nodes, b \in Nodes, Linking
<1>3. n = LinkFirst(m, p, b, f)
  <2>1. f = b \/ ok_address(n, f)
    BY <1>1, <1>2 DEF ok_address
  <2>2. LinkFirst(m, p, b, f) = RTCHECK(n, f = b \/ ok_address(m, f))
    BY <1>1, <1>2 DEF LinkFirst
  <2> QED BY <1>2, <2>2, Fields
<1>4. fd(n, p) = f /\ bk(n, f) = p
  <2>1. /\ fd_at(p) # fd_at(b) /\ fd_at(p) # bk_at(p) /\ bk_at(f) # fd_at(b) /\ bk_at(f) # bk_at(p)
    BY LinkWords
  <2> QED BY <1>1, <1>2, <2>1 DEF fd, bk, Word
<1>5. DOMAIN n.mem = DOMAIN m.mem \cup {fd_at(b), fd_at(p), bk_at(f), bk_at(p)}
  BY <1>1, <1>2
<1>6. \A a \in DOMAIN m.mem \ {fd_at(b), fd_at(p), bk_at(f), bk_at(p)} : n.mem[a] = m.mem[a]
  BY <1>1, <1>2
<1> QED BY <1>1, <1>2, <1>3, <1>4, <1>5, <1>6

(* The list of bin i with one more chunk, and nothing else touched. *)
LEMMA BinGains ==
  ASSUME NEW m, IsHeap(m), NEW b \in Nodes, NEW S \in SUBSET Nodes, b \notin S,
         S # {} => Listed(m, b, S), \A x \in S : ok_address(m, x),
         NEW p \in Nodes, p # b, p \notin S
  PROVE  \E n : /\ n = LinkFirst(m, p, b, IF S = {} THEN b ELSE fd(m, b)) /\ IsHeap(n)
                /\ n.smallmap = m.smallmap /\ n.at = m.at
                /\ n.least_addr = m.least_addr /\ n.aborted = m.aborted
                /\ Listed(n, b, S \cup {p})
                /\ OnlyLinks(m, n, S \cup {b, p})
<1> DEFINE N == S \cup {b}
           f == IF S = {} THEN b ELSE fd(m, b)
<1>1. PICK F, G : /\ IsRing(b, N, F, G) /\ F[b] = f
                  /\ S # {} => F = Forth(m, N) /\ G = Back(m, N) /\ \A x \in N : Has(m, x)
  <2>1. CASE S = {}
    <3> DEFINE F == [x \in {b} |-> b]
    <3>1. IsRing(b, {b}, F, F) /\ F[b] = b /\ N = {b}
      BY <2>1 DEF IsRing
    <3> QED BY <2>1, <3>1
  <2>2. CASE S # {}
    <3>1. IsRing(b, N, Forth(m, N), Back(m, N)) /\ \A x \in N : Has(m, x)
      BY <2>2 DEF Listed
    <3>2. Forth(m, N)[b] = f
      BY <2>2 DEF Forth
    <3> QED BY <3>1, <3>2
  <2> QED BY <2>1, <2>2
<1>2. f \in N /\ f \in Nodes /\ p # f /\ (f = b \/ ok_address(m, f))
  <2>1. f \in N
    BY <1>1 DEF IsRing
  <2> QED BY <2>1
<1> HIDE DEF f
<1>3. PICK n : /\ n = LinkFirst(m, p, b, f) /\ IsHeap(n)
               /\ n.smallmap = m.smallmap /\ n.at = m.at
               /\ n.least_addr = m.least_addr /\ n.aborted = m.aborted
               /\ DOMAIN n.mem = DOMAIN m.mem \cup {fd_at(b), fd_at(p), bk_at(f), bk_at(p)}
               /\ fd(n, b) = p /\ fd(n, p) = f /\ bk(n, f) = p /\ bk(n, p) = b
               /\ \A a \in DOMAIN m.mem \ {fd_at(b), fd_at(p), bk_at(f), bk_at(p)} :
                    n.mem[a] = m.mem[a]
  BY <1>2, LinkingFirst
<1>4. OnlyLinks(m, n, S \cup {b, p})
  BY <1>2, <1>3 DEF OnlyLinks
<1>5. ASSUME NEW x \in N, S # {}
      PROVE  /\ Has(n, x)
             /\ x # b => fd(n, x) = fd(m, x)
             /\ x # f => bk(n, x) = bk(m, x)
  <2>1. /\ x \in Nodes /\ x # p /\ fd_at(x) # bk_at(f) /\ fd_at(x) # bk_at(p) /\ fd_at(x) # fd_at(p)
        /\ bk_at(x) # fd_at(b) /\ bk_at(x) # fd_at(p) /\ bk_at(x) # bk_at(p)
        /\ x # b => fd_at(x) # fd_at(b)
        /\ x # f => bk_at(x) # bk_at(f)
    BY <1>2, LinkWords
  <2>2. Has(m, x)
    BY <1>1, <1>5
  <2> QED BY <1>3, <2>1, <2>2 DEF Has, fd, bk, Word
<1>6. \A x \in N \cup {p} : Has(n, x)
  <2>1. Has(n, p)
    BY <1>3 DEF Has
  <2>2. S = {} => f = b /\ N = {b}
    BY <1>1, <1>2
  <2>3. S = {} => Has(n, b)
    BY <1>3, <2>2 DEF Has
  <2> QED BY <1>5, <2>1, <2>2, <2>3
<1>7. IsRing(b, N \cup {p}, Forth(n, N \cup {p}), Back(n, N \cup {p}))
  <2> DEFINE F2 == Forth(n, N \cup {p})
             G2 == Back(n, N \cup {p})
  <2>1. /\ F2[b] = p /\ F2[p] = F[b] /\ G2[p] = b /\ G2[F[b]] = p
    BY <1>1, <1>2, <1>3 DEF Forth, Back
  <2>2. \A x \in N \ {b} : F2[x] = F[x]
    BY <1>1, <1>5 DEF Forth
  <2>3. \A x \in N \ {F[b]} : G2[x] = G[x]
    <3>1. S = {} => N \ {F[b]} = {}
      BY <1>1, <1>2
    <3> QED BY <1>1, <1>5, <3>1 DEF Back
  <2>4. IsRing(b, N, F, G) /\ p \notin N
    BY <1>1
  <2> HIDE DEF F2, G2, N
  <2>5. IsRing(b, N \cup {p}, F2, G2)
    BY ONLY <2>1, <2>2, <2>3, <2>4, RingGrows
  <2> QED BY <2>5 DEF F2, G2, N
<1>8. N \cup {p} = (S \cup {p}) \cup {b}
  OBVIOUS
<1>9. Listed(n, b, S \cup {p})
  BY <1>6, <1>7, <1>8 DEF Listed
<1> QED BY <1>3, <1>4, <1>9 DEF f

(* The two neighbours of a chunk in its list. *)
LEMMA Neighbours ==
  ASSUME NEW m, NEW h \in Nodes, NEW S \in SUBSET Nodes, h \notin S, Listed(m, h, S), NEW p \in S
  PROVE  /\ fd(m, p) \in (S \cup {h}) \ {p} /\ bk(m, p) \in (S \cup {h}) \ {p}
         /\ bk(m, fd(m, p)) = p /\ fd(m, bk(m, p)) = p
         /\ fd(m, p) = bk(m, p) <=> S = {p}
         /\ S = {p} => fd(m, p) = h
         /\ fd(m, h) \in S /\ bk(m, fd(m, h)) = h
<1> DEFINE N == S \cup {h}
           F == Forth(m, N)
           G == Back(m, N)
<1>1. IsRing(h, N, F, G)
  BY DEF Listed
<1>2. p \in N /\ p # h /\ h \in N
  OBVIOUS
<1>3. \A x \in N : F[x] = fd(m, x) /\ G[x] = bk(m, x)
  BY DEF Forth, Back
<1>4. \A x \in N : F[x] \in N /\ G[x] \in N /\ G[F[x]] = x /\ F[G[x]] = x
  BY <1>1 DEF IsRing
<1>5. /\ F[p] # p
      /\ F[p] = G[p] <=> N = {h, p}
      /\ G[p] = h /\ F[p] = h <=> N = {h, p}
  <2> HIDE DEF N, F, G
  <2> QED BY ONLY <1>1, <1>2, RingOfOne
<1>6. N = {h, p} <=> S = {p}
  OBVIOUS
<1>7. F[h] # h
  <2> SUFFICES ASSUME F[h] = h PROVE FALSE
    OBVIOUS
  <2>1. {h} = N
    BY <1>1, <1>2 DEF IsRing
  <2> QED BY <1>2, <2>1
<1> HIDE DEF F, G
<1>8. G[p] # p
  BY <1>2, <1>4, <1>5
<1> QED BY <1>2, <1>3, <1>4, <1>5, <1>6, <1>7, <1>8

(* The list of bin i without one of its chunks, of which it has others. *)
LEMMA BinLoses ==
  ASSUME NEW m, IsHeap(m), NEW h \in Nodes, NEW S \in SUBSET Nodes, h \notin S,
         Listed(m, h, S), NEW p \in S, S # {p}
  PROVE  \E n : /\ n = Link(m, fd(m, p), bk(m, p)) /\ IsHeap(n)
                /\ n.smallmap = m.smallmap /\ n.at = m.at
                /\ n.least_addr = m.least_addr /\ n.aborted = m.aborted
                /\ Listed(n, h, S \ {p})
                /\ OnlyLinks(m, n, S \cup {h})
<1> DEFINE N == S \cup {h}
           F == Forth(m, N)
           G == Back(m, N)
<1>1. PICK f, b \in N \ {p} : f = fd(m, p) /\ b = bk(m, p)
  BY Neighbours
<1>2. f \in Nodes /\ b \in Nodes
  OBVIOUS
<1>3. PICK n : /\ n = Link(m, f, b) /\ IsHeap(n)
               /\ n.smallmap = m.smallmap /\ n.at = m.at
               /\ n.least_addr = m.least_addr /\ n.aborted = m.aborted
               /\ DOMAIN n.mem = DOMAIN m.mem \cup {fd_at(b), bk_at(f)}
               /\ fd(n, b) = f /\ bk(n, f) = b
               /\ \A a \in DOMAIN m.mem : a # fd_at(b) /\ a # bk_at(f) => n.mem[a] = m.mem[a]
  BY <1>2, Linking
<1>4. OnlyLinks(m, n, S \cup {h})
  BY <1>1, <1>3 DEF OnlyLinks
<1>5. ASSUME NEW x \in N
      PROVE  /\ Has(n, x)
             /\ x # b => fd(n, x) = fd(m, x)
             /\ x # f => bk(n, x) = bk(m, x)
  <2>1. /\ x \in Nodes /\ fd_at(x) # bk_at(f) /\ bk_at(x) # fd_at(b)
        /\ x # b => fd_at(x) # fd_at(b)
        /\ x # f => bk_at(x) # bk_at(f)
    BY <1>2, LinkWords
  <2>2. Has(m, x)
    BY DEF Listed
  <2> QED BY <1>3, <2>1, <2>2 DEF Has, fd, bk, Word
<1>6. IsRing(h, N \ {p}, Forth(n, N \ {p}), Back(n, N \ {p}))
  <2> DEFINE F2 == Forth(n, N \ {p})
             G2 == Back(n, N \ {p})
  <2>1. IsRing(h, N, F, G) /\ p \in N /\ p # h
    BY DEF Listed
  <2>2. F[p] = f /\ G[p] = b /\ F[p] # p
    BY <1>1 DEF Forth, Back
  <2>3. F2[G[p]] = F[p] /\ G2[F[p]] = G[p]
    BY <1>1, <1>3, <2>2 DEF Forth, Back
  <2>4. \A x \in N \ {p, G[p]} : F2[x] = F[x]
    BY <1>5, <2>2 DEF Forth
  <2>5. \A x \in N \ {p, F[p]} : G2[x] = G[x]
    BY <1>5, <2>2 DEF Back
  <2> HIDE DEF F, G, F2, G2, N
  <2>6. IsRing(h, N \ {p}, F2, G2)
    BY ONLY <2>1, <2>2, <2>3, <2>4, <2>5, RingShrinks
  <2> QED BY <2>6 DEF F2, G2
<1>7. N \ {p} = (S \ {p}) \cup {h}
  OBVIOUS
<1>8. Listed(n, h, S \ {p})
  BY <1>5, <1>6, <1>7 DEF Listed
<1> QED BY <1>1, <1>3, <1>4, <1>8

(* One bin with another set of chunks, and the other bins as they were. *)
LEMMA Rebinned ==
  ASSUME NEW m, NEW binned, SmallBins(m, binned), NEW i \in SmallIndices,
         NEW R \in SUBSET Nodes, \A p \in R : ok_address(m, p) /\ p \notin Heads(m),
         \A j \in SmallIndices \ {i} : R \cap binned[j] = {},
         NEW n, IsHeap(n), n.at = m.at, n.least_addr = m.least_addr,
         n.smallmap = IF R = {} THEN m.smallmap \ {i} ELSE m.smallmap \cup {i},
         R # {} => Listed(n, smallbin_at(m, i), R),
         OnlyLinks(m, n, R \cup binned[i] \cup {smallbin_at(m, i)})
  PROVE  SmallBins(n, [binned EXCEPT ![i] = R])
<1> DEFINE after == [binned EXCEPT ![i] = R]
<1>1. /\ IsHeap(m) /\ binned \in [SmallIndices -> SUBSET Nodes]
      /\ \A j \in SmallIndices : \A p \in binned[j] : ok_address(m, p) /\ p \notin Heads(m)
      /\ \A j, k \in SmallIndices : j # k => binned[j] \cap binned[k] = {}
      /\ m.smallmap = {j \in SmallIndices : binned[j] # {}}
      /\ \A j \in m.smallmap : Listed(m, smallbin_at(m, j), binned[j])
  BY DEF SmallBins
<1>2. after \in [SmallIndices -> SUBSET Nodes] /\ after[i] = R /\ \A j \in SmallIndices \ {i} : after[j] = binned[j]
  BY <1>1
<1> HIDE DEF after
<1>3. Heads(n) = Heads(m) /\ (\A j : smallbin_at(n, j) = smallbin_at(m, j)) /\ \A p : ok_address(n, p) <=> ok_address(m, p)
  BY DEF Heads, smallbin_at, ok_address
<1>4. n.smallmap = {j \in SmallIndices : after[j] # {}}
  BY <1>1, <1>2
<1>5. \A j \in SmallIndices : \A p \in after[j] : ok_address(n, p) /\ p \notin Heads(n)
  BY <1>1, <1>2, <1>3
<1>6. \A j, k \in SmallIndices : j # k => after[j] \cap after[k] = {}
  BY <1>1, <1>2
<1>7. ASSUME NEW j \in n.smallmap PROVE Listed(n, smallbin_at(n, j), after[j])
  <2>1. CASE j = i
    BY <1>2, <1>3, <1>4, <2>1
  <2>2. CASE j # i
    <3> DEFINE N == R \cup binned[i] \cup {smallbin_at(m, i)}
    <3>1. j \in SmallIndices /\ j \in m.smallmap /\ after[j] = binned[j]
      BY <1>1, <1>2, <1>4, <2>2
    <3>2. Listed(m, smallbin_at(m, j), binned[j])
      BY <1>1, <3>1
    <3>3. /\ smallbin_at(m, i) \in Nodes /\ smallbin_at(m, i) \in Heads(m)
          /\ smallbin_at(m, j) \in Nodes /\ smallbin_at(m, j) \in Heads(m)
          /\ smallbin_at(m, i) # smallbin_at(m, j)
      BY <1>1, <2>2, <3>1, BinHeads
    <3>4. N \in SUBSET Nodes /\ binned[j] \in SUBSET Nodes
      BY <1>1, <3>1, <3>3
    <3>5. N \cap (binned[j] \cup {smallbin_at(m, j)}) = {}
      <4>1. smallbin_at(m, j) \notin N
        BY <1>1, <3>3
      <4>2. binned[j] \cap N = {}
        BY <1>1, <2>2, <3>1, <3>3
      <4> QED BY <4>1, <4>2
    <3>6. Listed(n, smallbin_at(m, j), binned[j])
      <4> HIDE DEF N
      <4>1. OnlyLinks(m, n, N)
        BY DEF N
      <4> QED BY <3>2, <3>3, <3>4, <3>5, <4>1, ListUnchanged
    <3> QED BY <1>3, <3>1, <3>6
  <2> QED BY <2>1, <2>2
<1> QED BY <1>2, <1>4, <1>5, <1>6, <1>7 DEF SmallBins, after

(* An empty heap has empty bins, whatever its array of bins contains. *)
LEMMA EmptyBins ==
  ASSUME NEW m, IsHeap(m), m.smallmap = {}
  PROVE  SmallBins(m, [i \in SmallIndices |-> {}])
BY DEF SmallBins

(* What SmallBins says of one of the bins. *)
LEMMA OneBin ==
  ASSUME NEW m, NEW binned, SmallBins(m, binned), NEW i \in SmallIndices
  PROVE  \E h \in Nodes, S \in SUBSET Nodes :
           /\ h = smallbin_at(m, i) /\ h \in Heads(m) /\ S = binned[i] /\ h \notin S
           /\ IsHeap(m)
           /\ S # {} => Listed(m, h, S)
           /\ i \in m.smallmap <=> S # {}
           /\ \A x \in S : ok_address(m, x) /\ x \notin Heads(m)
           /\ \A j \in SmallIndices \ {i} : S \cap binned[j] = {}
<1>1. IsHeap(m) /\ binned[i] \in SUBSET Nodes
  BY DEF SmallBins
<1>2. PICK h \in Nodes : h = smallbin_at(m, i) /\ h \in Heads(m)
  BY <1>1, BinHeads
<1>3. i \in m.smallmap <=> binned[i] # {}
  BY DEF SmallBins
<1>4. i \in m.smallmap => Listed(m, smallbin_at(m, i), binned[i])
  BY DEF SmallBins
<1>5. \A x \in binned[i] : ok_address(m, x) /\ x \notin Heads(m)
  BY DEF SmallBins
<1>6. \A j \in SmallIndices \ {i} : binned[i] \cap binned[j] = {}
  BY DEF SmallBins
<1> QED BY <1>1, <1>2, <1>3, <1>4, <1>5, <1>6

(* insert_small_chunk puts a free chunk into the list of its size and into   *)
(* no other: every list still leads through exactly the chunks that belong   *)
(* to it, whether the bin was empty, so that its old pointers mean nothing,  *)
(* or not.  The check of the address does not fail, and but for the links of *)
(* the chunks on that list no word of memory changes.                        *)
THEOREM SmallBinsTakeChunks ==
  ASSUME NEW m, NEW binned, SmallBins(m, binned), NEW s \in Nat, is_small(s),
         NEW p \in Nodes, ok_address(m, p), p \notin Heads(m),
         \A j \in SmallIndices : p \notin binned[j]
  PROVE  LET n == insert_small_chunk(m, p, s)
             i == small_index(s)
         IN  /\ SmallBins(n, [binned EXCEPT ![i] = @ \cup {p}])
             /\ n.aborted = m.aborted
             /\ OnlyLinks(m, n, binned[i] \cup {p, smallbin_at(m, i)})
<1>1. PICK i \in SmallIndices : i = small_index(s)
  BY DEF small_index, is_small, SmallIndices, SMALLBIN_WIDTH
<1>2. PICK b \in Nodes, S \in SUBSET Nodes :
        /\ b = smallbin_at(m, i) /\ b \in Heads(m) /\ S = binned[i] /\ b \notin S
        /\ IsHeap(m)
        /\ S # {} => Listed(m, b, S)
        /\ i \in m.smallmap <=> S # {}
        /\ \A x \in S : ok_address(m, x) /\ x \notin Heads(m)
        /\ \A j \in SmallIndices \ {i} : S \cap binned[j] = {}
  BY OneBin
<1>3. S = binned[i]
  BY <1>2
<1>4. /\ IsHeap(m)
      /\ S # {} => Listed(m, b, S)
      /\ i \in m.smallmap <=> S # {}
      /\ \A x \in S : ok_address(m, x) /\ x \notin Heads(m)
      /\ \A j \in SmallIndices \ {i} : (S \cup {p}) \cap binned[j] = {}
  BY <1>2
<1>5. PICK k : /\ k = [m EXCEPT !.smallmap = m.smallmap \cup {i}] /\ IsHeap(k)
               /\ k.smallmap = m.smallmap \cup {i} /\ k.mem = m.mem /\ k.at = m.at
               /\ k.least_addr = m.least_addr /\ k.aborted = m.aborted
  <2>1. IsHeap(m)
    BY <1>4
  <2> QED BY ONLY <2>1, Remapped
<1>6. /\ \A x : fd(k, x) = fd(m, x) /\ bk(k, x) = bk(m, x) /\ (Has(k, x) <=> Has(m, x))
      /\ \A x : ok_address(k, x) <=> ok_address(m, x)
  BY <1>5 DEF fd, bk, Word, Has, ok_address
<1>7. S # {} => Listed(k, b, S)
  BY <1>4, <1>6 DEF Listed, Forth, Back
<1>8. PICK n : /\ n = LinkFirst(k, p, b, IF S = {} THEN b ELSE fd(k, b)) /\ IsHeap(n)
               /\ n.smallmap = k.smallmap /\ n.at = k.at
               /\ n.least_addr = k.least_addr /\ n.aborted = k.aborted
               /\ Listed(n, b, S \cup {p})
               /\ OnlyLinks(k, n, S \cup {b, p})
  <2>1. /\ IsHeap(k) /\ b \notin S /\ (\A x \in S : ok_address(k, x))
        /\ p # b /\ p \notin S
    BY <1>2, <1>3, <1>4, <1>5, <1>6
  <2> QED BY ONLY <1>7, <2>1, b \in Nodes, S \in SUBSET Nodes, p \in Nodes, BinGains
<1>9. n = insert_small_chunk(m, p, s)
  <2>1. (IF S = {} THEN b ELSE fd(k, b)) = (IF i \in m.smallmap THEN fd(m, b) ELSE b)
    BY <1>4, <1>6
  <2> QED BY <1>1, <1>2, <1>5, <1>8, <2>1 DEF insert_small_chunk
<1>10. OnlyLinks(m, n, S \cup {p, b})
  <2>1. S \cup {b, p} = S \cup {p, b}
    OBVIOUS
  <2> QED BY <1>5, <1>8, <2>1 DEF OnlyLinks
<1>11. SmallBins(n, [binned EXCEPT ![i] = S \cup {p}])
  <2> DEFINE R == S \cup {p}
  <2>1. R \in SUBSET Nodes /\ R # {} /\ (\A x \in R : ok_address(m, x) /\ x \notin Heads(m))
    BY <1>4
  <2>2. R \cup binned[i] \cup {smallbin_at(m, i)} = S \cup {p, b}
    BY <1>2, <1>3
  <2>3. OnlyLinks(m, n, R \cup binned[i] \cup {smallbin_at(m, i)})
    BY <1>10, <2>2
  <2>4. Listed(n, smallbin_at(m, i), R)
    BY <1>2, <1>8
  <2>5. \A j \in SmallIndices \ {i} : R \cap binned[j] = {}
    BY <1>4
  <2>6. IsHeap(n) /\ n.at = m.at /\ n.least_addr = m.least_addr /\ n.smallmap = m.smallmap \cup {i}
    BY <1>5, <1>8
  <2> HIDE DEF R
  <2>7. SmallBins(n, [binned EXCEPT ![i] = R])
    BY <2>1, <2>3, <2>4, <2>5, <2>6, Rebinned
  <2> QED BY <2>7 DEF R
<1>12. [binned EXCEPT ![i] = @ \cup {p}] = [binned EXCEPT ![i] = S \cup {p}]
  BY <1>3
<1> QED BY <1>1, <1>2, <1>3, <1>5, <1>8, <1>9, <1>10, <1>11, <1>12

(* A bin without one of its chunks, where the code marks the bin as empty    *)
(* when that was the only one and links its neighbours otherwise.            *)
LEMMA BinWithout ==
  ASSUME NEW m, NEW binned, SmallBins(m, binned), NEW i \in SmallIndices, NEW p \in binned[i]
  PROVE  LET f == fd(m, p)
             b == bk(m, p)
             n == IF b = f THEN [m EXCEPT !.smallmap = @ \ {i}] ELSE Link(m, f, b)
         IN  /\ IsHeap(n) /\ n.aborted = m.aborted
             /\ SmallBins(n, [binned EXCEPT ![i] = @ \ {p}])
             /\ OnlyLinks(m, n, binned[i] \cup {smallbin_at(m, i)})
<1>1. PICK h \in Nodes, S \in SUBSET Nodes :
        /\ h = smallbin_at(m, i) /\ h \in Heads(m) /\ S = binned[i] /\ h \notin S
        /\ IsHeap(m)
        /\ S # {} => Listed(m, h, S)
        /\ i \in m.smallmap <=> S # {}
        /\ \A x \in S : ok_address(m, x) /\ x \notin Heads(m)
        /\ \A j \in SmallIndices \ {i} : S \cap binned[j] = {}
  BY OneBin
<1>2. S = binned[i] /\ p \in S
  BY <1>1
<1>3. /\ IsHeap(m) /\ Listed(m, h, S) /\ h \notin S /\ i \in m.smallmap
      /\ \A x \in S : ok_address(m, x) /\ x \notin Heads(m)
      /\ \A j \in SmallIndices \ {i} : S \cap binned[j] = {}
  BY <1>1, <1>2
<1>4. fd(m, p) = bk(m, p) <=> S = {p}
  <2>1. Listed(m, h, S) /\ h \notin S /\ p \in S
    BY <1>2, <1>3
  <2> QED BY ONLY <2>1, h \in Nodes, S \in SUBSET Nodes, Neighbours
<1> DEFINE R == S \ {p}
           r == IF bk(m, p) = fd(m, p) THEN [m EXCEPT !.smallmap = @ \ {i}]
                ELSE Link(m, fd(m, p), bk(m, p))
<1>5. PICK n : /\ n = r /\ IsHeap(n) /\ n.at = m.at /\ n.least_addr = m.least_addr
               /\ n.aborted = m.aborted
               /\ n.smallmap = IF R = {} THEN m.smallmap \ {i} ELSE m.smallmap \cup {i}
               /\ R # {} => Listed(n, h, R)
               /\ OnlyLinks(m, n, S \cup {h})
  <2>1. CASE S = {p}
    <3>1. r = [m EXCEPT !.smallmap = @ \ {i}] /\ R = {}
      BY <1>4, <2>1
    <3>2. PICK n : /\ n = [m EXCEPT !.smallmap = m.smallmap \ {i}] /\ IsHeap(n)
                   /\ n.smallmap = m.smallmap \ {i} /\ n.mem = m.mem /\ n.at = m.at
                   /\ n.least_addr = m.least_addr /\ n.aborted = m.aborted
      <4>1. IsHeap(m)
        BY <1>3
      <4> QED BY ONLY <4>1, Remapped
    <3>3. OnlyLinks(m, n, S \cup {h})
      BY <3>2 DEF OnlyLinks
    <3> HIDE DEF r, R
    <3> QED BY <3>1, <3>2, <3>3
  <2>2. CASE S # {p}
    <3>1. r = Link(m, fd(m, p), bk(m, p)) /\ R # {}
      BY <1>2, <1>4, <2>2
    <3>2. PICK n : /\ n = Link(m, fd(m, p), bk(m, p)) /\ IsHeap(n)
                   /\ n.smallmap = m.smallmap /\ n.at = m.at
                   /\ n.least_addr = m.least_addr /\ n.aborted = m.aborted
                   /\ Listed(n, h, S \ {p})
                   /\ OnlyLinks(m, n, S \cup {h})
      <4>1. p \in S
        BY <1>2
      <4> QED BY ONLY <1>3, <2>2, <4>1, h \in Nodes, S \in SUBSET Nodes, BinLoses
    <3>3. n.smallmap = m.smallmap \cup {i}
      BY <1>3, <3>2
    <3>4. Listed(n, h, R)
      BY <3>2
    <3> HIDE DEF r, R
    <3> QED BY <3>1, <3>2, <3>3, <3>4
  <2> QED BY <2>1, <2>2
<1>6. SmallBins(n, [binned EXCEPT ![i] = R])
  <2>1. R \in SUBSET Nodes /\ (\A x \in R : ok_address(m, x) /\ x \notin Heads(m))
    BY <1>3
  <2>2. R \cup binned[i] \cup {smallbin_at(m, i)} = S \cup {h}
    BY <1>1, <1>2
  <2>3. OnlyLinks(m, n, R \cup binned[i] \cup {smallbin_at(m, i)})
    BY <1>5, <2>2
  <2>4. R # {} => Listed(n, smallbin_at(m, i), R)
    BY <1>1, <1>5
  <2>5. \A j \in SmallIndices \ {i} : R \cap binned[j] = {}
    BY <1>3
  <2>6. /\ IsHeap(n) /\ n.at = m.at /\ n.least_addr = m.least_addr
        /\ n.smallmap = IF R = {} THEN m.smallmap \ {i} ELSE m.smallmap \cup {i}
    BY <1>5
  <2> HIDE DEF R, r
  <2> QED BY <2>1, <2>3, <2>4, <2>5, <2>6, Rebinned
<1>7. [binned EXCEPT ![i] = @ \ {p}] = [binned EXCEPT ![i] = R]
  BY <1>2
<1> QED BY <1>1, <1>2, <1>5, <1>6, <1>7

(* unlink_small_chunk takes a chunk out of the list of its size, wherever it *)
(* stands there, and the lists lead through all the others as before: none   *)
(* of its checks of the neighbours' pointers fails, and only links of that   *)
(* list are written.                                                         *)
THEOREM SmallBinsGiveChunks ==
  ASSUME NEW m, NEW binned, SmallBins(m, binned), NEW s \in Nat, is_small(s),
         NEW p \in binned[small_index(s)]
  PROVE  LET n == unlink_small_chunk(m, p, s)
             i == small_index(s)
         IN  /\ SmallBins(n, [binned EXCEPT ![i] = @ \ {p}])
             /\ n.aborted = m.aborted
             /\ OnlyLinks(m, n, binned[i] \cup {smallbin_at(m, i)})
<1>1. PICK i \in SmallIndices : i = small_index(s) /\ p \in binned[i]
  BY DEF small_index, is_small, SmallIndices, SMALLBIN_WIDTH
<1>2. PICK h \in Nodes, S \in SUBSET Nodes :
        /\ h = smallbin_at(m, i) /\ S = binned[i] /\ h \notin S
        /\ S # {} => Listed(m, h, S)
        /\ \A x \in S : ok_address(m, x)
  BY OneBin
<1>3. p \in S
  BY <1>1, <1>2
<1>4. Listed(m, h, S) /\ h \notin S /\ \A x \in S : ok_address(m, x)
  BY <1>2, <1>3
<1>5. PICK f, b \in S \cup {h} : /\ f = fd(m, p) /\ b = bk(m, p)
                                 /\ bk(m, f) = p /\ fd(m, b) = p
  BY <1>3, <1>4, Neighbours
<1>6. PICK n : /\ n = IF b = f THEN [m EXCEPT !.smallmap = @ \ {i}] ELSE Link(m, f, b)
               /\ IsHeap(n) /\ n.aborted = m.aborted
               /\ SmallBins(n, [binned EXCEPT ![i] = @ \ {p}])
               /\ OnlyLinks(m, n, binned[i] \cup {smallbin_at(m, i)})
  BY <1>1, <1>5, BinWithout
<1> DEFINE check == /\ f = smallbin_at(m, i) \/ (ok_address(m, f) /\ bk(m, f) = p)
                    /\ b \in {f, smallbin_at(m, i)} \/ (ok_address(m, b) /\ fd(m, b) = p)
<1>7. check
  BY <1>2, <1>4, <1>5
<1>8. unlink_small_chunk(m, p, s) = RTCHECK(n, check)
  BY <1>1, <1>5, <1>6 DEF unlink_small_chunk
<1> HIDE DEF check
<1>9. unlink_small_chunk(m, p, s) = n
  BY <1>6, <1>7, <1>8, Fields
<1> QED BY <1>1, <1>6, <1>9

(* unlink_first_small_chunk, which malloc serves small requests with, takes  *)
(* the chunk behind the head of a bin that smallmap calls filled, with the   *)
(* same guarantees.                                                          *)
THEOREM SmallBinsGiveTheFirst ==
  ASSUME NEW m, NEW binned, SmallBins(m, binned), NEW i \in m.smallmap
  PROVE  LET h == smallbin_at(m, i)
             p == fd(m, h)
             n == unlink_first_small_chunk(m, h, p, i)
         IN  /\ p \in binned[i]
             /\ SmallBins(n, [binned EXCEPT ![i] = @ \ {p}])
             /\ n.aborted = m.aborted
             /\ OnlyLinks(m, n, binned[i] \cup {h})
<1>1. i \in SmallIndices /\ binned[i] # {} /\ IsHeap(m)
  BY DEF SmallBins
<1>2. PICK h \in Nodes, S \in SUBSET Nodes :
        /\ h = smallbin_at(m, i) /\ S = binned[i] /\ h \notin S
        /\ S # {} => Listed(m, h, S)
        /\ \A x \in S : ok_address(m, x)
  BY <1>1, OneBin
<1>3. S = binned[i]
  BY <1>2
<1>4. Listed(m, h, S) /\ h \notin S /\ \A x \in S : ok_address(m, x)
  BY <1>1, <1>2
<1>5. PICK x \in S : TRUE
  BY <1>1, <1>3
<1>6. PICK p \in S : p = fd(m, h) /\ bk(m, p) = h
  <2>1. fd(m, h) \in S /\ bk(m, fd(m, h)) = h
    BY ONLY <1>4, <1>5, h \in Nodes, S \in SUBSET Nodes, x \in S, Neighbours
  <2> QED BY <2>1
<1>7. PICK f \in S \cup {h} : f = fd(m, p) /\ bk(m, f) = p
  BY <1>4, <1>6, Neighbours
<1>8. PICK n : /\ n = IF h = f THEN [m EXCEPT !.smallmap = @ \ {i}] ELSE Link(m, f, h)
               /\ IsHeap(n) /\ n.aborted = m.aborted
               /\ SmallBins(n, [binned EXCEPT ![i] = @ \ {p}])
               /\ OnlyLinks(m, n, binned[i] \cup {smallbin_at(m, i)})
  BY <1>1, <1>3, <1>6, <1>7, BinWithout
<1>9. h # f => RTCHECK(m, ok_address(m, f) /\ bk(m, f) = p) = m
  BY <1>1, <1>4, <1>7, Fields
<1>10. n = unlink_first_small_chunk(m, h, p, i)
  BY <1>7, <1>8, <1>9 DEF unlink_first_small_chunk
<1> QED BY <1>2, <1>3, <1>6, <1>8, <1>10

=============================================================================
