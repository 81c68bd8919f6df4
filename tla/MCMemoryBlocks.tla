---------------------------- MODULE MCMemoryBlocks ----------------------------
(* Regions and requests to check MemoryBlocks, and the inductive invariants *)
(* of its proofs, with.                                                    *)
EXTENDS MemoryBlocks_pool_proof

(* Eight pages leave room for four free blocks that are kept apart by      *)
(* pages in use, and for all the shapes of trees of that many blocks.      *)
EightPages == 8 * 4096

(* Part of a page is left over at the end of the region. *)
ThreePagesAndABit == 3 * 4096 + 100

(* One page, two pages that the rounding makes of a page and a byte, and   *)
(* three pages exactly.                                                    *)
SmallRequests == {1, 4096 + 1, 3 * 4096}

=============================================================================
