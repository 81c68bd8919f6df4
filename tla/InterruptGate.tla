----------------------------- MODULE InterruptGate -----------------------------
(***************************************************************************)
(* An interrupt gate of the interrupt descriptor table                     *)
(* (source/kernel/include/interrupts/x86_32/idt.hpp): two words that one   *)
(* setter per field writes, in any order.                                  *)
(***************************************************************************)
EXTENDS Words

(* Segment selectors, words of sixteen bits. *)
Selectors == {value \cap (0 .. 15) : value \in Values}

VARIABLES
  dword1,     \* the word with the flags and the upper half of the address
  dword2,     \* the word with the selector and the lower half
  intended    \* what the setters were called with

vars == <<dword1, dword2, intended>>

TypeOK ==
  /\ dword1 \in Word
  /\ dword2 \in Word
  /\ intended \in [entry_point : Values \cup {{}},
                   selector : Selectors \cup {{}}, level : SUBSET {0, 1},
                   present : BOOLEAN, wide : BOOLEAN]

(* The constructor, or the zeros of the global idt. *)
Init ==
  /\ dword1 = {}
  /\ dword2 = {}
  /\ intended = [entry_point |-> {}, selector |-> {}, level |-> {},
                 present |-> FALSE, wide |-> FALSE]

SelectorSet(w, selector) == (w \cap (0 .. 15)) \cup Shifted(selector, 16)

set_code_segment(selector) ==
  /\ dword2' = SelectorSet(dword2, selector)
  /\ intended' = [intended EXCEPT !.selector = selector]
  /\ UNCHANGED dword1

LowerHalfSetOver(w, address) == w \cup (address \cap (0 .. 15))

LowerHalfSet(w, address) == (w \ (0 .. 15)) \cup (address \cap (0 .. 15))

UpperHalfSet(w, address) == (w \ (16 .. 31)) \cup (address \cap (16 .. 31))

set_entry_point(address) ==
  /\ dword1' = UpperHalfSet(dword1, address)
  /\ dword2' = LowerHalfSet(dword2, address)
  /\ intended' = [intended EXCEPT !.entry_point = address]

set_present(is_present) ==
  /\ dword1' = With(dword1, 15, is_present)
  /\ intended' = [intended EXCEPT !.present = is_present]
  /\ UNCHANGED dword2

set_priviledge_level(priviledge) ==
  /\ dword1' = (dword1 \ {13, 14}) \cup Shifted(priviledge, 13)
  /\ intended' = [intended EXCEPT !.level = priviledge]
  /\ UNCHANGED dword2

set_32_bit_gate(is_32_bit) ==
  /\ dword1' = With(dword1, 11, is_32_bit)
  /\ intended' = [intended EXCEPT !.wide = is_32_bit]
  /\ UNCHANGED dword2

Next ==
  \/ \E selector \in Selectors : set_code_segment(selector)
  \/ \E address \in Values : set_entry_point(address)
  \/ \E on \in BOOLEAN : set_present(on)
  \/ \E level \in SUBSET {0, 1} : set_priviledge_level(level)
  \/ \E on \in BOOLEAN : set_32_bit_gate(on)

Spec == Init /\ [][Next]_vars

-----------------------------------------------------------------------------
(* Properties. *)

(* The fields of an interrupt gate, dword1 being the upper word. *)
Decoded ==
  [entry_point |-> (dword2 \cap (0 .. 15)) \cup (dword1 \cap (16 .. 31)),
   selector |-> Shifted(dword2 \cap (16 .. 31), -16),
   level |-> Shifted(dword1 \cap {13, 14}, -13),
   present |-> 15 \in dword1,
   wide |-> 11 \in dword1]

(* Whatever the order of the calls, every field holds what was last set     *)
(* there: a new entry point leaves nothing of the old one, and neither half *)
(* of it spills into the flags or the selector.                            *)
GateHoldsWhatWasSet == Decoded = intended

=============================================================================
