------------------------- MODULE MCSegmentDescriptor -------------------------
(* Words to check a segment descriptor with: no bit, every bit, and every   *)
(* second and third bit, so that a bit that goes astray or stays behind    *)
(* shows.                                                                  *)
EXTENDS SegmentDescriptor

Patterns ==
  {{}, Bits, {b \in Bits : b % 2 = 0}, {b \in Bits : b % 3 = 0}}

=============================================================================
