-------------------------------- MODULE MCBoot --------------------------------
(* A machine of sixteen pages of four bytes, whose page tables have four    *)
(* entries, and the memory maps it may have.  The kernel fills pages 3 and  *)
(* 4 and part of page 5, so that the first table is full and the second one *)
(* is not; the page directory and two tables need three more pages.        *)
EXTENDS Boot_proof

Region(first, last, available) ==
  [addr |-> 4 * first, len |-> 4 * (last + 1 - first), available |-> available]

(* Memory below the kernel, then a gap, as on every PC. *)
Low == Region(0, 1, TRUE)
Gap == Region(2, 2, FALSE)

(* The region of the kernel ends anywhere from the page of the kernel's end *)
(* to the end of the address space, which is too little memory up to page   *)
(* 7; what follows may be reserved.                                        *)
OrdinaryMaps ==
  UNION {{<<Low, Gap, Region(3, last, TRUE)>>,
          <<Region(3, last, TRUE), Gap, Low>>,
          <<Low, Region(3, last, TRUE), Region(last + 1, 15, FALSE)>>} :
           last \in 5 .. 14}
  \cup {<<Low, Gap, Region(3, 15, TRUE)>>}

(* The region of the kernel ends at a hole, behind which there is more. *)
MapsWithAHole ==
  {<<Low, Gap, Region(3, 8, TRUE), Region(9, 9, FALSE), Region(10, 15, TRUE)>>,
   <<Low, Gap, Region(3, 6, TRUE), Region(8, 15, TRUE)>>}

(* Behind a memory map there is nothing that looks like available memory. *)
NothingAvailable == {[addr |-> 0, len |-> 0, available |-> FALSE]}

(* What the theorems about the selected region suppose: every map fits, and *)
(* the ordinary ones keep the kernel in the largest region.                *)
ASSUME MapsFit
ASSUME \A map \in OrdinaryMaps : KernelInLargest(map)

=============================================================================
