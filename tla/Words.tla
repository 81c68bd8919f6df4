--------------------------------- MODULE Words ---------------------------------
(***************************************************************************)
(* The 32-bit words of hardware structures, as the sets of their one bits: *)
(* bitwise AND, OR and NOT are intersection, union and difference.         *)
(***************************************************************************)
EXTENDS Integers

CONSTANT Values    \* the words that setters are called with

Bits == 0 .. 31

Word == SUBSET Bits

ASSUME ValuesAssumption == Values \subseteq Word

(* value << n, or value >> -n *)
Shifted(value, n) == {b + n : b \in value} \cap Bits

(* word with the bit switched on or off *)
With(word, bit, on) == IF on THEN word \cup {bit} ELSE word \ {bit}

=============================================================================
