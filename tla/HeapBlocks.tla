----------------------------- MODULE HeapBlocks -----------------------------
(* What a heap promises its callers: every slot holds an extent of memory or *)
(* nothing, a call gives extents, takes extents back or resizes one, and no  *)
(* extent that it gives or resizes has a byte in common with another.        *)
EXTENDS Integers, FiniteSets

CONSTANT Slots

VARIABLE extent           \* slot -> <<first address, address behind the last>>

NoExtent == <<0, 0>>
Apart(x, y) == x[2] <= y[1] \/ y[2] <= x[1]
Disjoint == \A s, t \in Slots : s # t => Apart(extent[s], extent[t])

Give(changed) == \A s \in changed : extent[s] = NoExtent
TakeBack(changed) == \A s \in changed : extent'[s] = NoExtent
Resize(changed) == Cardinality(changed) = 1

Init == Disjoint
Next ==
  LET changed == {s \in Slots : extent'[s] # extent[s]}
  IN  /\ Give(changed) \/ TakeBack(changed) \/ Resize(changed)
      /\ \A s \in changed, t \in Slots : s # t => Apart(extent'[s], extent'[t])
Spec == Init /\ [][Next]_extent

=============================================================================
