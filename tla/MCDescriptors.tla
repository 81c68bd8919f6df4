---------------------------- MODULE MCDescriptors ----------------------------
(* A segment descriptor, an interrupt gate and a page entry next to each    *)
(* other.  They share no word, so that each is taken through all of its    *)
(* states while the other two are as they were at the start.               *)
EXTENDS Words

VARIABLES
  segment_dword1, segment_dword2, segment_intended,
  gate_dword1, gate_dword2, gate_intended,
  entry_data, entry_intended

segment == INSTANCE SegmentDescriptor WITH
  dword1 <- segment_dword1, dword2 <- segment_dword2, intended <- segment_intended

gate == INSTANCE InterruptGate WITH
  dword1 <- gate_dword1, dword2 <- gate_dword2, intended <- gate_intended

entry == INSTANCE PageEntry WITH data <- entry_data, intended <- entry_intended

segment_vars == <<segment_dword1, segment_dword2, segment_intended>>
gate_vars == <<gate_dword1, gate_dword2, gate_intended>>
entry_vars == <<entry_data, entry_intended>>
vars == <<segment_vars, gate_vars, entry_vars>>

Init == segment!Init /\ gate!Init /\ entry!Init

SegmentStep ==
  /\ segment!Set
  /\ gate!Init /\ entry!Init
  /\ UNCHANGED <<gate_vars, entry_vars>>

GateStep ==
  /\ gate!Next
  /\ segment!Init /\ entry!Init
  /\ UNCHANGED <<segment_vars, entry_vars>>

EntryStep ==
  /\ entry!Next
  /\ segment!Init /\ gate!Init
  /\ UNCHANGED <<segment_vars, gate_vars>>

Next == SegmentStep \/ GateStep \/ EntryStep

Spec == Init /\ [][Next]_vars

(* The processor finds in each field of a segment descriptor what was last  *)
(* set there (gdt.cpp).                                                    *)
SegmentReadsWhatWasSet == segment!ProcessorReadsWhatWasSet

(* The same for an interrupt gate (idt.hpp). *)
GateHoldsWhatWasSet == gate!GateHoldsWhatWasSet

(* And for a page entry and its getters (paging.cpp), with the processor's  *)
(* own changes in between.                                                 *)
GettersReturnWhatWasSet == entry!GettersReturnWhatWasSet

(* Words with no bit, every bit, and every second and third bit, so that a  *)
(* bit that goes astray or stays behind shows.                             *)
Patterns ==
  {{}, Bits, {b \in Bits : b % 2 = 0}, {b \in Bits : b % 3 = 0}}

=============================================================================
