----------------------------- MODULE MallocSizes -----------------------------
(* The arithmetic of the heap: size_t, alignment, the size of the chunk that *)
(* serves a request, and the bin that a chunk of a size belongs to.  Sizes   *)
(* and addresses are naturals below 2^SIZE_T_BITSIZE, and every operation    *)
(* that may leave that range wraps around, as the unsigned type does.        *)
EXTENDS Naturals, Integers

CONSTANTS
  SIZE_T_SIZE,            \* bytes of a size_t and of a pointer
  SIZE_T_BITSIZE,         \* bits of the arithmetic on them
  TREEBIN_SHIFT,          \* chunks of 2^TREEBIN_SHIFT bytes and more are large
  NTREEBINS

ASSUME SizesAssumption ==
  /\ SIZE_T_SIZE = 4
  /\ TREEBIN_SHIFT \in 5 .. SIZE_T_BITSIZE - 2
  /\ NTREEBINS \in {2 * k : k \in 1 .. SIZE_T_BITSIZE}

Wrap(n) == n % 2^SIZE_T_BITSIZE
MAX_SIZE_T == 2^SIZE_T_BITSIZE - 1
HALF_MAX_SIZE_T == MAX_SIZE_T \div 2
CMFAIL == MAX_SIZE_T

MALLOC_ALIGNMENT == 2 * SIZE_T_SIZE
is_aligned(a) == a % MALLOC_ALIGNMENT = 0
align_offset(a) == (-a) % MALLOC_ALIGNMENT

\* unit is a power of two
AlignUp(n, unit) == LET padded == Wrap(n + unit - 1) IN padded - (padded % unit)

-----------------------------------------------------------------------------
MCHUNK_SIZE == 4 * SIZE_T_SIZE
CHUNK_OVERHEAD == SIZE_T_SIZE
MMAP_CHUNK_OVERHEAD == 2 * SIZE_T_SIZE
MMAP_FOOT_PAD == 4 * SIZE_T_SIZE
MIN_CHUNK_SIZE == AlignUp(MCHUNK_SIZE, MALLOC_ALIGNMENT)
MAX_REQUEST == Wrap((-MIN_CHUNK_SIZE) * 4)
MIN_REQUEST == MIN_CHUNK_SIZE - CHUNK_OVERHEAD - 1

chunk2mem(p) == p + 2 * SIZE_T_SIZE
mem2chunk(mem) == mem - 2 * SIZE_T_SIZE
align_as_chunk(a) == a + align_offset(chunk2mem(a))

pad_request(req) == AlignUp(Wrap(req + CHUNK_OVERHEAD), MALLOC_ALIGNMENT)
request2size(req) == IF req < MIN_REQUEST THEN MIN_CHUNK_SIZE ELSE pad_request(req)

-----------------------------------------------------------------------------
MIN_LARGE_SIZE == 2^TREEBIN_SHIFT
MAX_SMALL_REQUEST == (MIN_LARGE_SIZE - 1) - (MALLOC_ALIGNMENT - 1) - CHUNK_OVERHEAD

\* one small bin for every multiple of the alignment below MIN_LARGE_SIZE
SMALLBIN_WIDTH == 8
NSMALLBINS == MIN_LARGE_SIZE \div SMALLBIN_WIDTH

small_index(s) == s \div SMALLBIN_WIDTH
small_index2size(i) == i * SMALLBIN_WIDTH
is_small(s) == small_index(s) < NSMALLBINS

Bit(n, k) == (n \div 2^k) % 2

(* Two bins for every power of two; the last one also holds whatever is      *)
(* larger.                                                                  *)
compute_tree_index(s) ==
  LET x == s \div 2^TREEBIN_SHIFT
      k == CHOOSE j \in 0 .. SIZE_T_BITSIZE : 2^j <= x /\ x < 2^(j + 1)
  IN  IF x = 0 THEN 0
      ELSE IF x >= 2^(NTREEBINS \div 2) THEN NTREEBINS - 1
      ELSE 2 * k + Bit(s, k + TREEBIN_SHIFT - 1)

leftshift_for_tree_index(i) ==
  IF i = NTREEBINS - 1 THEN 0
  ELSE (SIZE_T_BITSIZE - 1) - ((i \div 2) + TREEBIN_SHIFT - 2)

minsize_for_tree_index(i) ==
  2^((i \div 2) + TREEBIN_SHIFT) + (i % 2) * 2^((i \div 2) + TREEBIN_SHIFT - 1)

(* The walk down a tree looks at the leading bit of the size, shifted by one *)
(* place at every level.                                                    *)
SizeBits(s, i) == Wrap(s * 2^leftshift_for_tree_index(i))
LeadingBit(bits) == Bit(bits, SIZE_T_BITSIZE - 1)
ShiftLeft(bits) == Wrap(2 * bits)

LeastOf(S) == CHOOSE i \in S : \A j \in S : i <= j

=============================================================================
