--------------------------- MODULE Descriptors_proof ---------------------------
(***************************************************************************)
(* What holds of segment descriptors, interrupt gates and page entries     *)
(* whatever words the setters are called with: every field holds what was  *)
(* last set there.  The arguments go bit by bit: which bit of which word   *)
(* stands for which bit of which field, and which bits a setter changes.   *)
(***************************************************************************)
EXTENDS MCDescriptors, TLAPS

-----------------------------------------------------------------------------
(* Facts about words. *)

(* Which bits a shifted word has. *)
LEMMA InShifted ==
  ASSUME NEW value \in SUBSET Int, NEW n \in Int, NEW b
  PROVE  b \in Shifted(value, n) <=> b \in Bits /\ b - n \in value
<1>1. b \in Shifted(value, n) <=> b \in Bits /\ \E c \in value : b = c + n
  BY DEF Shifted
<1>2. b \in Bits => \A c \in value : b = c + n <=> c = b - n
  BY DEF Bits
<1> QED BY <1>1, <1>2

-----------------------------------------------------------------------------
(* Page entries. *)

(* What each bit of an entry means. *)
EntryBits ==
  /\ \A b \in 12 .. 31 : b \in entry_data <=> b \in entry_intended.address
  /\ 8 \in entry_data <=> entry_intended.global
  /\ 6 \in entry_data <=> entry_intended.dirty
  /\ 5 \in entry_data <=> entry_intended.accessed
  /\ 2 \in entry_data <=> entry_intended.user
  /\ 1 \in entry_data <=> entry_intended.writable
  /\ 0 \in entry_data <=> entry_intended.present

EntryType ==
  /\ entry_data \in SUBSET (0 .. 31)
  /\ entry_intended \in [address : SUBSET (12 .. 31), global : BOOLEAN,
                         dirty : BOOLEAN, accessed : BOOLEAN, user : BOOLEAN,
                         writable : BOOLEAN, present : BOOLEAN]

EntryInv == EntryType /\ EntryBits

(* If the bits mean that, the getters return what was set. *)
LEMMA EntryRead == EntryInv => GettersReturnWhatWasSet
<1> SUFFICES ASSUME EntryInv PROVE entry!Read = entry_intended
  BY DEF GettersReturnWhatWasSet, entry!GettersReturnWhatWasSet
<1>1. entry_data \subseteq 0 .. 31 /\ entry_intended.address \subseteq 12 .. 31
  BY DEF EntryInv, EntryType
<1>2. entry!get_address = entry_intended.address
  <2>1. \A b \in 0 .. 31 : b \notin 0 .. 11 <=> b \in 12 .. 31
    OBVIOUS
  <2> QED BY <1>1, <2>1 DEF EntryInv, EntryBits, entry!get_address
<1>3. entry_intended = [address |-> entry_intended.address,
                        global |-> entry_intended.global,
                        dirty |-> entry_intended.dirty,
                        accessed |-> entry_intended.accessed,
                        user |-> entry_intended.user,
                        writable |-> entry_intended.writable,
                        present |-> entry_intended.present]
  BY DEF EntryInv, EntryType
<1>4. /\ entry_intended.global \in BOOLEAN /\ entry_intended.dirty \in BOOLEAN
      /\ entry_intended.accessed \in BOOLEAN /\ entry_intended.user \in BOOLEAN
      /\ entry_intended.writable \in BOOLEAN /\ entry_intended.present \in BOOLEAN
  BY DEF EntryInv, EntryType
<1>5. /\ (8 \in entry_data) = entry_intended.global
      /\ (6 \in entry_data) = entry_intended.dirty
      /\ (5 \in entry_data) = entry_intended.accessed
      /\ (2 \in entry_data) = entry_intended.user
      /\ (1 \in entry_data) = entry_intended.writable
      /\ (0 \in entry_data) = entry_intended.present
  BY <1>4 DEF EntryInv, EntryBits
<1> QED BY <1>2, <1>3, <1>5 DEF entry!Read

(* An entry of zeros. *)
LEMMA EntryInit == entry!Init => EntryInv
BY DEF entry!Init, EntryInv, EntryType, EntryBits

(* Each setter, and the processor, changes the bits of its field only. *)
LEMMA EntryStepInv == ASSUME EntryInv, entry!Next PROVE EntryInv'
<1> USE DEF EntryInv, EntryType, EntryBits
<1>1. ASSUME NEW address \in Values, entry!set_address(address)
      PROVE  EntryInv'
  <2>1. address \subseteq 0 .. 31
    BY ValuesAssumption DEF Word, Bits
  <2>2. \A b : b \in entry_data' <=> IF b \in 12 .. 31 THEN b \in address
                                      ELSE b \in entry_data /\ b \in 0 .. 11
    BY <1>1 DEF entry!set_address, entry!AddressSet, entry!PageAligned
  <2>3. entry_intended' = [entry_intended EXCEPT !.address = address \cap (12 .. 31)]
    BY <1>1 DEF entry!set_address, entry!PageAligned
  <2> QED BY <2>1, <2>2, <2>3
<1>2. CASE entry!clear_accessed
  <2>1. /\ entry_data' = entry_data \ {5}
        /\ entry_intended' = [entry_intended EXCEPT !.accessed = FALSE]
    BY <1>2 DEF entry!clear_accessed
  <2>2. EntryType'
    BY <2>1
  <2>3. \A b \in 12 .. 31 : b \in entry_data' <=> b \in entry_intended'.address
    BY <2>1
  <2>4. /\ 8 \in entry_data' <=> entry_intended'.global
        /\ 6 \in entry_data' <=> entry_intended'.dirty
        /\ 5 \in entry_data' <=> entry_intended'.accessed
    BY <2>1
  <2>5. /\ 2 \in entry_data' <=> entry_intended'.user
        /\ 1 \in entry_data' <=> entry_intended'.writable
        /\ 0 \in entry_data' <=> entry_intended'.present
    BY <2>1
  <2> QED BY <2>2, <2>3, <2>4, <2>5
<1>3. ASSUME NEW on \in BOOLEAN, entry!set_global_page(on)
      PROVE  EntryInv'
  <2>1. /\ on => entry_data' = entry_data \cup {8}
        /\ ~on => entry_data' = entry_data \ {8}
        /\ entry_intended' = [entry_intended EXCEPT !.global = on]
    BY <1>3 DEF entry!set_global_page, entry!With
  <2>2. EntryType'
    BY <2>1
  <2>3. \A b \in 12 .. 31 : b \in entry_data' <=> b \in entry_intended'.address
    BY <2>1
  <2>4. /\ 8 \in entry_data' <=> entry_intended'.global
        /\ 6 \in entry_data' <=> entry_intended'.dirty
        /\ 5 \in entry_data' <=> entry_intended'.accessed
    BY <2>1
  <2>5. /\ 2 \in entry_data' <=> entry_intended'.user
        /\ 1 \in entry_data' <=> entry_intended'.writable
        /\ 0 \in entry_data' <=> entry_intended'.present
    BY <2>1
  <2> QED BY <2>2, <2>3, <2>4, <2>5
<1>4. ASSUME NEW on \in BOOLEAN, entry!set_dirty(on)
      PROVE  EntryInv'
  <2>1. /\ on => entry_data' = entry_data \cup {6}
        /\ ~on => entry_data' = entry_data \ {6}
        /\ entry_intended' = [entry_intended EXCEPT !.dirty = on]
    BY <1>4 DEF entry!set_dirty, entry!With
  <2>2. EntryType'
    BY <2>1
  <2>3. \A b \in 12 .. 31 : b \in entry_data' <=> b \in entry_intended'.address
    BY <2>1
  <2>4. /\ 8 \in entry_data' <=> entry_intended'.global
        /\ 6 \in entry_data' <=> entry_intended'.dirty
        /\ 5 \in entry_data' <=> entry_intended'.accessed
    BY <2>1
  <2>5. /\ 2 \in entry_data' <=> entry_intended'.user
        /\ 1 \in entry_data' <=> entry_intended'.writable
        /\ 0 \in entry_data' <=> entry_intended'.present
    BY <2>1
  <2> QED BY <2>2, <2>3, <2>4, <2>5
<1>5. ASSUME NEW on \in BOOLEAN, entry!set_type(on)
      PROVE  EntryInv'
  <2>1. /\ on => entry_data' = entry_data \cup {2}
        /\ ~on => entry_data' = entry_data \ {2}
        /\ entry_intended' = [entry_intended EXCEPT !.user = on]
    BY <1>5 DEF entry!set_type, entry!With
  <2>2. EntryType'
    BY <2>1
  <2>3. \A b \in 12 .. 31 : b \in entry_data' <=> b \in entry_intended'.address
    BY <2>1
  <2>4. /\ 8 \in entry_data' <=> entry_intended'.global
        /\ 6 \in entry_data' <=> entry_intended'.dirty
        /\ 5 \in entry_data' <=> entry_intended'.accessed
    BY <2>1
  <2>5. /\ 2 \in entry_data' <=> entry_intended'.user
        /\ 1 \in entry_data' <=> entry_intended'.writable
        /\ 0 \in entry_data' <=> entry_intended'.present
    BY <2>1
  <2> QED BY <2>2, <2>3, <2>4, <2>5
<1>6. ASSUME NEW on \in BOOLEAN, entry!set_writable(on)
      PROVE  EntryInv'
  <2>1. /\ on => entry_data' = entry_data \cup {1}
        /\ ~on => entry_data' = entry_data \ {1}
        /\ entry_intended' = [entry_intended EXCEPT !.writable = on]
    BY <1>6 DEF entry!set_writable, entry!With
  <2>2. EntryType'
    BY <2>1
  <2>3. \A b \in 12 .. 31 : b \in entry_data' <=> b \in entry_intended'.address
    BY <2>1
  <2>4. /\ 8 \in entry_data' <=> entry_intended'.global
        /\ 6 \in entry_data' <=> entry_intended'.dirty
        /\ 5 \in entry_data' <=> entry_intended'.accessed
    BY <2>1
  <2>5. /\ 2 \in entry_data' <=> entry_intended'.user
        /\ 1 \in entry_data' <=> entry_intended'.writable
        /\ 0 \in entry_data' <=> entry_intended'.present
    BY <2>1
  <2> QED BY <2>2, <2>3, <2>4, <2>5
<1>7. ASSUME NEW on \in BOOLEAN, entry!set_present(on)
      PROVE  EntryInv'
  <2>1. /\ on => entry_data' = entry_data \cup {0}
        /\ ~on => entry_data' = entry_data \ {0}
        /\ entry_intended' = [entry_intended EXCEPT !.present = on]
    BY <1>7 DEF entry!set_present, entry!With
  <2>2. EntryType'
    BY <2>1
  <2>3. \A b \in 12 .. 31 : b \in entry_data' <=> b \in entry_intended'.address
    BY <2>1
  <2>4. /\ 8 \in entry_data' <=> entry_intended'.global
        /\ 6 \in entry_data' <=> entry_intended'.dirty
        /\ 5 \in entry_data' <=> entry_intended'.accessed
    BY <2>1
  <2>5. /\ 2 \in entry_data' <=> entry_intended'.user
        /\ 1 \in entry_data' <=> entry_intended'.writable
        /\ 0 \in entry_data' <=> entry_intended'.present
    BY <2>1
  <2> QED BY <2>2, <2>3, <2>4, <2>5
<1>8. ASSUME NEW writes \in BOOLEAN, entry!Use(writes)
      PROVE  EntryInv'
  <2> DEFINE is_dirty == entry_intended.dirty \/ writes
  <2>1. PICK dirty \in BOOLEAN : dirty = is_dirty
    OBVIOUS
  <2>2. /\ \A b : b \in entry_data' <=> b \in entry_data \/ b = 5 \/ (b = 6 /\ writes)
        /\ dirty <=> (6 \in entry_data) \/ writes
        /\ entry_intended' = [entry_intended EXCEPT !.accessed = TRUE, !.dirty = dirty]
    <3>1. entry_data' = entry_data \cup {5} \cup (IF writes THEN {6} ELSE {})
      BY <1>8 DEF entry!Use
    <3>2. entry_intended' = [entry_intended EXCEPT !.accessed = TRUE, !.dirty = dirty]
      BY <1>8, <2>1 DEF entry!Use
    <3>3. dirty <=> (6 \in entry_data) \/ writes
      BY <2>1
    <3>4. CASE writes
      BY <3>1, <3>2, <3>3, <3>4
    <3>5. CASE ~writes
      BY <3>1, <3>2, <3>3, <3>5
    <3> QED BY <3>4, <3>5
  <2>3. EntryType'
    <3>1. entry_data' \in SUBSET (0 .. 31)
      BY <2>2
    <3>2. entry_intended' \in [address : SUBSET (12 .. 31), global : BOOLEAN,
                              dirty : BOOLEAN, accessed : BOOLEAN, user : BOOLEAN,
                              writable : BOOLEAN, present : BOOLEAN]
      BY <2>2
    <3> QED BY <3>1, <3>2
  <2>4. \A b \in 12 .. 31 : b \in entry_data' <=> b \in entry_intended'.address
    BY <2>2
  <2>5. /\ 8 \in entry_data' <=> entry_intended'.global
        /\ 6 \in entry_data' <=> entry_intended'.dirty
        /\ 5 \in entry_data' <=> entry_intended'.accessed
    BY <2>2
  <2>6. /\ 2 \in entry_data' <=> entry_intended'.user
        /\ 1 \in entry_data' <=> entry_intended'.writable
        /\ 0 \in entry_data' <=> entry_intended'.present
    BY <2>2
  <2> QED BY <2>3, <2>4, <2>5, <2>6
<1> QED BY <1>1, <1>2, <1>3, <1>4, <1>5, <1>6, <1>7, <1>8 DEF entry!Next

-----------------------------------------------------------------------------
(* Interrupt gates. *)

GateType ==
  /\ gate_dword1 \in SUBSET (0 .. 31)
  /\ gate_dword2 \in SUBSET (0 .. 31)
  /\ gate_intended \in [entry_point : SUBSET (0 .. 31), selector : SUBSET (0 .. 15),
                        level : SUBSET {0, 1}, present : BOOLEAN, wide : BOOLEAN]

(* What each bit of a gate means. *)
GateBits ==
  /\ \A b \in 0 .. 15 : b \in gate_dword2 <=> b \in gate_intended.entry_point
  /\ \A b \in 16 .. 31 : b \in gate_dword1 <=> b \in gate_intended.entry_point
  /\ \A b \in 0 .. 15 : b + 16 \in gate_dword2 <=> b \in gate_intended.selector
  /\ \A b \in {0, 1} : b + 13 \in gate_dword1 <=> b \in gate_intended.level
  /\ 15 \in gate_dword1 <=> gate_intended.present
  /\ 11 \in gate_dword1 <=> gate_intended.wide

GateInv == GateType /\ GateBits

LEMMA GateShifted ==
  ASSUME NEW value \in SUBSET Int, NEW n \in Int, NEW b
  PROVE  b \in gate!Shifted(value, n) <=> b \in 0 .. 31 /\ b - n \in value
<1>1. gate!Shifted(value, n) = Shifted(value, n)
  BY DEF gate!Shifted, Shifted, gate!Bits, Bits
<1> QED BY <1>1, InShifted DEF Bits

(* If the bits mean that, the processor finds what was set. *)
LEMMA GateRead == GateInv => GateHoldsWhatWasSet
<1> SUFFICES ASSUME GateInv PROVE gate!Decoded = gate_intended
  BY DEF GateHoldsWhatWasSet, gate!GateHoldsWhatWasSet
<1>1. /\ gate_intended.entry_point \subseteq 0 .. 31
      /\ gate_intended.selector \subseteq 0 .. 15
      /\ gate_intended.level \subseteq {0, 1}
      /\ gate_dword1 \subseteq 0 .. 31 /\ gate_dword2 \subseteq 0 .. 31
  BY DEF GateInv, GateType
<1>2. (gate_dword2 \cap (0 .. 15)) \cup (gate_dword1 \cap (16 .. 31))
        = gate_intended.entry_point
  <2>1. \A b \in 0 .. 31 : b \in 0 .. 15 \/ b \in 16 .. 31
    OBVIOUS
  <2> QED BY <1>1, <2>1 DEF GateInv, GateBits
<1>3. gate!Shifted(gate_dword2 \cap (16 .. 31), -16) = gate_intended.selector
  <2>1. gate_dword2 \cap (16 .. 31) \in SUBSET Int
    OBVIOUS
  <2>2. \A b : b \in gate!Shifted(gate_dword2 \cap (16 .. 31), -16) <=>
                 b \in 0 .. 31 /\ b - (-16) \in gate_dword2 \cap (16 .. 31)
    BY <2>1, GateShifted
  <2>3. ASSUME NEW b
        PROVE  b \in gate!Shifted(gate_dword2 \cap (16 .. 31), -16) <=>
                 b \in gate_intended.selector
    <3>1. b \in 0 .. 15 => (b + 16 \in gate_dword2 <=> b \in gate_intended.selector)
      BY DEF GateInv, GateBits
    <3>2. b \in 0 .. 31 => (b - (-16) = b + 16 /\ (b + 16 \in 16 .. 31 <=> b \in 0 .. 15))
      OBVIOUS
    <3>3. b \in 0 .. 15 => b \in 0 .. 31
      OBVIOUS
    <3> QED BY <1>1, <2>2, <3>1, <3>2, <3>3
  <2> QED BY <2>3
<1>4. gate!Shifted(gate_dword1 \cap {13, 14}, -13) = gate_intended.level
  <2>1. gate_dword1 \cap {13, 14} \in SUBSET Int
    OBVIOUS
  <2>2. \A b : b \in gate!Shifted(gate_dword1 \cap {13, 14}, -13) <=>
                 b \in 0 .. 31 /\ b - (-13) \in gate_dword1 \cap {13, 14}
    BY <2>1, GateShifted
  <2>3. ASSUME NEW b
        PROVE  b \in gate!Shifted(gate_dword1 \cap {13, 14}, -13) <=>
                 b \in gate_intended.level
    <3>1. b \in {0, 1} => (b + 13 \in gate_dword1 <=> b \in gate_intended.level)
      BY DEF GateInv, GateBits
    <3>2. b \in 0 .. 31 => (b - (-13) = b + 13 /\ (b + 13 \in {13, 14} <=> b \in {0, 1}))
      OBVIOUS
    <3>3. b \in {0, 1} => b \in 0 .. 31
      OBVIOUS
    <3> QED BY <1>1, <2>2, <3>1, <3>2, <3>3
  <2> QED BY <2>3
<1>5. gate_intended = [entry_point |-> gate_intended.entry_point,
                       selector |-> gate_intended.selector,
                       level |-> gate_intended.level,
                       present |-> gate_intended.present, wide |-> gate_intended.wide]
  BY DEF GateInv, GateType
<1>6. gate_intended.present \in BOOLEAN /\ gate_intended.wide \in BOOLEAN
  BY DEF GateInv, GateType
<1>7. (15 \in gate_dword1) = gate_intended.present /\ (11 \in gate_dword1) = gate_intended.wide
  BY <1>6 DEF GateInv, GateBits
<1> QED BY <1>2, <1>3, <1>4, <1>5, <1>7 DEF gate!Decoded

(* A gate of zeros. *)
LEMMA GateInit == gate!Init => GateInv
BY DEF gate!Init, GateInv, GateType, GateBits

(* Each setter changes the bits of its field only. *)
LEMMA GateStepInv == ASSUME GateInv, gate!Next PROVE GateInv'
<1> USE DEF GateInv, GateType, GateBits
<1>1. ASSUME NEW selector \in gate!Selectors, gate!set_code_segment(selector)
      PROVE  GateInv'
  <2>1. selector \subseteq 0 .. 15
    BY DEF gate!Selectors
  <2>2. /\ \A b : b \in gate_dword2' <=>
                   \/ b \in gate_dword2 /\ b \in 0 .. 15
                   \/ b \in 0 .. 31 /\ b - 16 \in selector
        /\ gate_intended' = [gate_intended EXCEPT !.selector = selector]
        /\ gate_dword1' = gate_dword1
    <3>1. \A b : b \in gate!Shifted(selector, 16) <=> b \in 0 .. 31 /\ b - 16 \in selector
      <4>1. selector \in SUBSET Int
        BY <2>1
      <4> QED BY <4>1, GateShifted
    <3> QED BY <1>1, <3>1 DEF gate!set_code_segment, gate!SelectorSet
  <2>3. GateType'
    BY <2>1, <2>2
  <2>4. /\ \A b \in 0 .. 15 : b \in gate_dword2' <=> b \in gate_intended'.entry_point
        /\ \A b \in 16 .. 31 : b \in gate_dword1' <=> b \in gate_intended'.entry_point
    BY <2>1, <2>2
  <2>5. \A b \in 0 .. 15 : b + 16 \in gate_dword2' <=> b \in gate_intended'.selector
    BY <2>1, <2>2
  <2>6. \A b \in {0, 1} : b + 13 \in gate_dword1' <=> b \in gate_intended'.level
    BY <2>1, <2>2
  <2>7. /\ 15 \in gate_dword1' <=> gate_intended'.present
        /\ 11 \in gate_dword1' <=> gate_intended'.wide
    BY <2>1, <2>2
  <2> QED BY <2>3, <2>4, <2>5, <2>6, <2>7
<1>2. ASSUME NEW address \in Values, gate!set_entry_point(address)
      PROVE  GateInv'
  <2>1. address \subseteq 0 .. 31
    BY ValuesAssumption DEF Word, Bits
  <2>2. /\ gate_dword1' = (gate_dword1 \ (16 .. 31)) \cup (address \cap (16 .. 31))
        /\ gate_dword2' = (gate_dword2 \ (0 .. 15)) \cup (address \cap (0 .. 15))
        /\ gate_intended' = [gate_intended EXCEPT !.entry_point = address]
    BY <1>2 DEF gate!set_entry_point, gate!UpperHalfSet, gate!LowerHalfSet
  <2>3. GateType'
    BY <2>1, <2>2
  <2>4. /\ \A b \in 0 .. 15 : b \in gate_dword2' <=> b \in gate_intended'.entry_point
        /\ \A b \in 16 .. 31 : b \in gate_dword1' <=> b \in gate_intended'.entry_point
    BY <2>1, <2>2
  <2>5. \A b \in 0 .. 15 : b + 16 \in gate_dword2' <=> b \in gate_intended'.selector
    BY <2>1, <2>2
  <2>6. \A b \in {0, 1} : b + 13 \in gate_dword1' <=> b \in gate_intended'.level
    BY <2>1, <2>2
  <2>7. /\ 15 \in gate_dword1' <=> gate_intended'.present
        /\ 11 \in gate_dword1' <=> gate_intended'.wide
    BY <2>1, <2>2
  <2> QED BY <2>3, <2>4, <2>5, <2>6, <2>7
<1>3. ASSUME NEW on \in BOOLEAN, gate!set_present(on)
      PROVE  GateInv'
  <2>1. /\ on => gate_dword1' = gate_dword1 \cup {15}
        /\ ~on => gate_dword1' = gate_dword1 \ {15}
        /\ gate_intended' = [gate_intended EXCEPT !.present = on]
        /\ gate_dword2' = gate_dword2
    BY <1>3 DEF gate!set_present, gate!With
  <2>2. GateType'
    BY <2>1
  <2>3. /\ \A b \in 0 .. 15 : b \in gate_dword2' <=> b \in gate_intended'.entry_point
        /\ \A b \in 16 .. 31 : b \in gate_dword1' <=> b \in gate_intended'.entry_point
    BY <2>1
  <2>4. \A b \in 0 .. 15 : b + 16 \in gate_dword2' <=> b \in gate_intended'.selector
    BY <2>1
  <2>5. \A b \in {0, 1} : b + 13 \in gate_dword1' <=> b \in gate_intended'.level
    BY <2>1
  <2>6. /\ 15 \in gate_dword1' <=> gate_intended'.present
        /\ 11 \in gate_dword1' <=> gate_intended'.wide
    BY <2>1
  <2> QED BY <2>2, <2>3, <2>4, <2>5, <2>6
<1>4. ASSUME NEW on \in BOOLEAN, gate!set_32_bit_gate(on)
      PROVE  GateInv'
  <2>1. /\ on => gate_dword1' = gate_dword1 \cup {11}
        /\ ~on => gate_dword1' = gate_dword1 \ {11}
        /\ gate_intended' = [gate_intended EXCEPT !.wide = on]
        /\ gate_dword2' = gate_dword2
    BY <1>4 DEF gate!set_32_bit_gate, gate!With
  <2>2. GateType'
    BY <2>1
  <2>3. /\ \A b \in 0 .. 15 : b \in gate_dword2' <=> b \in gate_intended'.entry_point
        /\ \A b \in 16 .. 31 : b \in gate_dword1' <=> b \in gate_intended'.entry_point
    BY <2>1
  <2>4. \A b \in 0 .. 15 : b + 16 \in gate_dword2' <=> b \in gate_intended'.selector
    BY <2>1
  <2>5. \A b \in {0, 1} : b + 13 \in gate_dword1' <=> b \in gate_intended'.level
    BY <2>1
  <2>6. /\ 15 \in gate_dword1' <=> gate_intended'.present
        /\ 11 \in gate_dword1' <=> gate_intended'.wide
    BY <2>1
  <2> QED BY <2>2, <2>3, <2>4, <2>5, <2>6
<1>5. ASSUME NEW level \in SUBSET {0, 1}, gate!set_priviledge_level(level)
      PROVE  GateInv'
  <2>1. /\ \A b : b \in gate_dword1' <=>
                   \/ b \in gate_dword1 /\ b \notin {13, 14}
                   \/ b \in 0 .. 31 /\ b - 13 \in level
        /\ gate_intended' = [gate_intended EXCEPT !.level = level]
        /\ gate_dword2' = gate_dword2
    <3>1. \A b : b \in gate!Shifted(level, 13) <=> b \in 0 .. 31 /\ b - 13 \in level
      <4>1. level \in SUBSET Int
        OBVIOUS
      <4> QED BY <4>1, GateShifted
    <3> QED BY <1>5, <3>1 DEF gate!set_priviledge_level
  <2>2. GateType'
    BY <2>1
  <2>3. /\ \A b \in 0 .. 15 : b \in gate_dword2' <=> b \in gate_intended'.entry_point
        /\ \A b \in 16 .. 31 : b \in gate_dword1' <=> b \in gate_intended'.entry_point
    BY <2>1
  <2>4. \A b \in 0 .. 15 : b + 16 \in gate_dword2' <=> b \in gate_intended'.selector
    BY <2>1
  <2>5. \A b \in {0, 1} : b + 13 \in gate_dword1' <=> b \in gate_intended'.level
    BY <2>1
  <2>6. /\ 15 \in gate_dword1' <=> gate_intended'.present
        /\ 11 \in gate_dword1' <=> gate_intended'.wide
    BY <2>1
  <2> QED BY <2>2, <2>3, <2>4, <2>5, <2>6
<1> QED BY <1>1, <1>2, <1>3, <1>4, <1>5 DEF gate!Next

-----------------------------------------------------------------------------
(* Segment descriptors. *)

SegmentType ==
  /\ segment_dword1 \in SUBSET (0 .. 31)
  /\ segment_dword2 \in SUBSET (0 .. 31)
  /\ segment_intended \in [base : SUBSET (0 .. 31), limit : SUBSET (0 .. 19),
                           type : SUBSET (0 .. 3), level : SUBSET {0, 1},
                           present : BOOLEAN, system : BOOLEAN,
                           pages : BOOLEAN, wide : BOOLEAN]

(* What each bit of a descriptor means. *)
SegmentBits ==
  /\ \A b \in 0 .. 15 : b + 16 \in segment_dword2 <=> b \in segment_intended.base
  /\ \A b \in 16 .. 23 : b - 16 \in segment_dword1 <=> b \in segment_intended.base
  /\ \A b \in 24 .. 31 : b \in segment_dword1 <=> b \in segment_intended.base
  /\ \A b \in 0 .. 15 : b \in segment_dword2 <=> b \in segment_intended.limit
  /\ \A b \in 16 .. 19 : b \in segment_dword1 <=> b \in segment_intended.limit
  /\ \A b \in 0 .. 3 : b + 8 \in segment_dword1 <=> b \in segment_intended.type
  /\ \A b \in {0, 1} : b + 13 \in segment_dword1 <=> b \in segment_intended.level
  /\ 15 \in segment_dword1 <=> segment_intended.present
  /\ 12 \in segment_dword1 <=> ~ segment_intended.system
  /\ 23 \in segment_dword1 <=> segment_intended.pages
  /\ 22 \in segment_dword1 <=> segment_intended.wide

SegmentInv == SegmentType /\ SegmentBits

LEMMA SegmentShifted ==
  ASSUME NEW value \in SUBSET Int, NEW n \in Int, NEW b
  PROVE  b \in segment!Shifted(value, n) <=> b \in 0 .. 31 /\ b - n \in value
<1>1. segment!Shifted(value, n) = Shifted(value, n)
  BY DEF segment!Shifted, Shifted, segment!Bits, Bits
<1> QED BY <1>1, InShifted DEF Bits

(* If the bits mean that, the processor finds what was set. *)
LEMMA SegmentRead == SegmentInv => SegmentReadsWhatWasSet
<1> SUFFICES ASSUME SegmentInv PROVE segment!Decoded = segment_intended
  BY DEF SegmentReadsWhatWasSet, segment!ProcessorReadsWhatWasSet
<1>1. /\ segment_intended.base \subseteq 0 .. 31
      /\ segment_intended.limit \subseteq 0 .. 19
      /\ segment_intended.type \subseteq 0 .. 3
      /\ segment_intended.level \subseteq {0, 1}
      /\ segment_dword1 \subseteq 0 .. 31 /\ segment_dword2 \subseteq 0 .. 31
  BY DEF SegmentInv, SegmentType
<1>2. \A b : b \in segment!Shifted(segment_dword2 \cap (16 .. 31), -16) <=>
               b \in 0 .. 15 /\ b \in segment_intended.base
  <2>1. segment_dword2 \cap (16 .. 31) \in SUBSET Int
    OBVIOUS
  <2>2. \A b : b \in segment!Shifted(segment_dword2 \cap (16 .. 31), -16) <=>
                 b \in 0 .. 31 /\ b - (-16) \in segment_dword2 \cap (16 .. 31)
    BY <2>1, SegmentShifted
  <2>3. \A b \in 0 .. 31 : b - (-16) = b + 16 /\ (b + 16 \in 16 .. 31 <=> b \in 0 .. 15)
    OBVIOUS
  <2>4. \A b \in 0 .. 15 : b \in 0 .. 31 /\ (b + 16 \in segment_dword2 <=> b \in segment_intended.base)
    BY DEF SegmentInv, SegmentBits
  <2> QED BY <2>2, <2>3, <2>4
<1>3. \A b : b \in segment!Shifted(segment_dword1 \cap (0 .. 7), 16) <=>
               b \in 16 .. 23 /\ b \in segment_intended.base
  <2>1. segment_dword1 \cap (0 .. 7) \in SUBSET Int
    OBVIOUS
  <2>2. \A b : b \in segment!Shifted(segment_dword1 \cap (0 .. 7), 16) <=>
                 b \in 0 .. 31 /\ b - (16) \in segment_dword1 \cap (0 .. 7)
    BY <2>1, SegmentShifted
  <2>3. \A b \in 0 .. 31 : b - (16) = b - 16 /\ (b - 16 \in 0 .. 7 <=> b \in 16 .. 23)
    OBVIOUS
  <2>4. \A b \in 16 .. 23 : b \in 0 .. 31 /\ (b - 16 \in segment_dword1 <=> b \in segment_intended.base)
    BY DEF SegmentInv, SegmentBits
  <2> QED BY <2>2, <2>3, <2>4
<1>4. \A b : b \in segment!Shifted(segment_dword1 \cap (8 .. 11), -8) <=>
               b \in 0 .. 3 /\ b \in segment_intended.type
  <2>1. segment_dword1 \cap (8 .. 11) \in SUBSET Int
    OBVIOUS
  <2>2. \A b : b \in segment!Shifted(segment_dword1 \cap (8 .. 11), -8) <=>
                 b \in 0 .. 31 /\ b - (-8) \in segment_dword1 \cap (8 .. 11)
    BY <2>1, SegmentShifted
  <2>3. \A b \in 0 .. 31 : b - (-8) = b + 8 /\ (b + 8 \in 8 .. 11 <=> b \in 0 .. 3)
    OBVIOUS
  <2>4. \A b \in 0 .. 3 : b \in 0 .. 31 /\ (b + 8 \in segment_dword1 <=> b \in segment_intended.type)
    BY DEF SegmentInv, SegmentBits
  <2> QED BY <2>2, <2>3, <2>4
<1>5. \A b : b \in segment!Shifted(segment_dword1 \cap {13, 14}, -13) <=>
               b \in {0, 1} /\ b \in segment_intended.level
  <2>1. segment_dword1 \cap {13, 14} \in SUBSET Int
    OBVIOUS
  <2>2. \A b : b \in segment!Shifted(segment_dword1 \cap {13, 14}, -13) <=>
                 b \in 0 .. 31 /\ b - (-13) \in segment_dword1 \cap {13, 14}
    BY <2>1, SegmentShifted
  <2>3. \A b \in 0 .. 31 : b - (-13) = b + 13 /\ (b + 13 \in {13, 14} <=> b \in {0, 1})
    OBVIOUS
  <2>4. \A b \in {0, 1} : b \in 0 .. 31 /\ (b + 13 \in segment_dword1 <=> b \in segment_intended.level)
    BY DEF SegmentInv, SegmentBits
  <2> QED BY <2>2, <2>3, <2>4
<1>6. segment!Shifted(segment_dword2 \cap (16 .. 31), -16)
        \cup segment!Shifted(segment_dword1 \cap (0 .. 7), 16)
        \cup (segment_dword1 \cap (24 .. 31)) = segment_intended.base
  <2>1. \A b \in 0 .. 31 : b \in 0 .. 15 \/ b \in 16 .. 23 \/ b \in 24 .. 31
    OBVIOUS
  <2>2. \A b \in 24 .. 31 : b \in segment_dword1 <=> b \in segment_intended.base
    BY DEF SegmentInv, SegmentBits
  <2> QED BY <1>1, <1>2, <1>3, <2>1, <2>2
<1>7. (segment_dword2 \cap (0 .. 15)) \cup (segment_dword1 \cap (16 .. 19))
        = segment_intended.limit
  <2>1. \A b \in 0 .. 19 : b \in 0 .. 15 \/ b \in 16 .. 19
    OBVIOUS
  <2> QED BY <1>1, <2>1 DEF SegmentInv, SegmentBits
<1>8. /\ segment!Shifted(segment_dword1 \cap (8 .. 11), -8) = segment_intended.type
      /\ segment!Shifted(segment_dword1 \cap {13, 14}, -13) = segment_intended.level
  BY <1>1, <1>4, <1>5
<1>9. segment_intended = [base |-> segment_intended.base,
                          limit |-> segment_intended.limit,
                          type |-> segment_intended.type,
                          level |-> segment_intended.level,
                          present |-> segment_intended.present,
                          system |-> segment_intended.system,
                          pages |-> segment_intended.pages,
                          wide |-> segment_intended.wide]
  BY DEF SegmentInv, SegmentType
<1>10. /\ segment_intended.present \in BOOLEAN /\ segment_intended.system \in BOOLEAN
       /\ segment_intended.pages \in BOOLEAN /\ segment_intended.wide \in BOOLEAN
  BY DEF SegmentInv, SegmentType
<1>11. /\ (15 \in segment_dword1) = segment_intended.present
       /\ (12 \notin segment_dword1) = segment_intended.system
       /\ (23 \in segment_dword1) = segment_intended.pages
       /\ (22 \in segment_dword1) = segment_intended.wide
  BY <1>10 DEF SegmentInv, SegmentBits
<1> QED BY <1>6, <1>7, <1>8, <1>9, <1>11 DEF segment!Decoded

(* A descriptor after its constructor, or one of zeros. *)
LEMMA SegmentInit == segment!Init => SegmentInv
<1>1. CASE segment!Constructed /\ segment_dword2 = {}
  <2>1. /\ segment_dword1 = {22, 15} /\ segment_dword2 = {}
        /\ segment_intended = [base |-> {}, limit |-> {}, type |-> {}, level |-> {},
                               present |-> TRUE, system |-> TRUE, pages |-> FALSE,
                               wide |-> TRUE]
    BY <1>1 DEF segment!Constructed, segment!Nothing
  <2> QED BY <2>1 DEF SegmentInv, SegmentType, SegmentBits
<1>2. CASE segment!Global /\ segment_dword2 = {}
  <2>1. /\ segment_dword1 = {} /\ segment_dword2 = {}
        /\ segment_intended = [base |-> {}, limit |-> {}, type |-> {}, level |-> {},
                               present |-> FALSE, system |-> TRUE, pages |-> FALSE,
                               wide |-> FALSE]
    BY <1>2 DEF segment!Global, segment!Nothing
  <2> QED BY <2>1 DEF SegmentInv, SegmentType, SegmentBits
<1> QED BY <1>1, <1>2 DEF segment!Init

(* What the setters make of each bit of a word. *)

LEMMA TypeSetBits ==
  ASSUME NEW w, NEW type \in SUBSET (0 .. 3), NEW b
  PROVE  b \in segment!TypeSet(w, type) <=>
           (b \in w /\ b \notin 8 .. 11) \/ (b \in 8 .. 11 /\ b - 8 \in type)
<1>1. type \in SUBSET Int
  OBVIOUS
<1>2. b \in segment!Shifted(type, 8) <=> b \in 0 .. 31 /\ b - 8 \in type
  BY <1>1, SegmentShifted
<1>3. b \in 0 .. 31 /\ b - 8 \in type <=> b \in 8 .. 11 /\ b - 8 \in type
  OBVIOUS
<1>4. type \cap (0 .. 3) = type
  OBVIOUS
<1> QED BY <1>2, <1>3, <1>4 DEF segment!TypeSet

LEMMA BaseInUpperBits ==
  ASSUME NEW w, NEW address \in SUBSET (0 .. 31), NEW b
  PROVE  b \in segment!BaseInUpper(w, address) <=>
           \/ b \in w /\ b \in 8 .. 23
           \/ b \in address /\ b \in 24 .. 31
           \/ b \in 0 .. 7 /\ b + 16 \in address
<1>1. address \cap (16 .. 23) \in SUBSET Int
  OBVIOUS
<1>2. b \in segment!Shifted(address \cap (16 .. 23), -16) <=>
        b \in 0 .. 31 /\ b - (-16) \in address \cap (16 .. 23)
  BY <1>1, SegmentShifted
<1>3. b \in 0 .. 31 /\ b - (-16) \in address \cap (16 .. 23) <=>
        b \in 0 .. 7 /\ b + 16 \in address
  OBVIOUS
<1> QED BY <1>2, <1>3 DEF segment!BaseInUpper

LEMMA BaseInLowerBits ==
  ASSUME NEW v, NEW address \in SUBSET (0 .. 31), NEW b
  PROVE  b \in segment!BaseInLower(v, address) <=>
           (b \in v /\ b \in 0 .. 15) \/ (b \in 16 .. 31 /\ b - 16 \in address)
<1>1. address \cap (0 .. 15) \in SUBSET Int
  OBVIOUS
<1>2. b \in segment!Shifted(address \cap (0 .. 15), 16) <=>
        b \in 0 .. 31 /\ b - 16 \in address \cap (0 .. 15)
  BY <1>1, SegmentShifted
<1>3. b \in 0 .. 31 /\ b - 16 \in address \cap (0 .. 15) <=>
        b \in 16 .. 31 /\ b - 16 \in address
  OBVIOUS
<1> QED BY <1>2, <1>3 DEF segment!BaseInLower

LEMMA LimitBits ==
  ASSUME NEW w, NEW limit, NEW b
  PROVE  /\ b \in segment!LimitInUpper(w, limit) <=>
              IF b \in 16 .. 19 THEN b \in limit ELSE b \in w
         /\ b \in segment!LimitInLower(w, limit) <=>
              IF b \in 0 .. 15 THEN b \in limit ELSE b \in w
BY DEF segment!LimitInUpper, segment!LimitInLower

LEMMA LevelSetBits ==
  ASSUME NEW w, NEW level \in SUBSET {0, 1}, NEW b
  PROVE  b \in segment!LevelSet(w, level) <=>
           (b \in w /\ b \notin {13, 14}) \/ (b \in {13, 14} /\ b - 13 \in level)
<1>1. level \in SUBSET Int
  OBVIOUS
<1>2. b \in segment!Shifted(level, 13) <=> b \in 0 .. 31 /\ b - 13 \in level
  BY <1>1, SegmentShifted
<1>3. b \in 0 .. 31 /\ b - 13 \in level <=> b \in {13, 14} /\ b - 13 \in level
  OBVIOUS
<1>4. level \cap {0, 1} = level
  OBVIOUS
<1> QED BY <1>2, <1>3, <1>4 DEF segment!LevelSet

(* The upper word that initialize leaves. *)
LEMMA InitializedBits ==
  ASSUME NEW type \in SUBSET (0 .. 3), NEW w, NEW b
  PROVE  b \in segment!LimitInUpper(
               segment!LevelSet(segment!TypeSet(segment!BaseInUpper(w, {}), type)
                                  \cup {15} \cup {12}, {}) \cup {22} \cup {23}, 0 .. 19) <=>
           \/ b \in {12, 15, 22, 23} \/ b \in 16 .. 19
           \/ b \in w /\ b \in {20, 21}
           \/ b \in 8 .. 11 /\ b - 8 \in type
<1> PICK zeroed, based, marked, flags, upper :
      /\ zeroed = segment!BaseInUpper(w, {})
      /\ based = segment!TypeSet(zeroed, type)
      /\ marked = based \cup {15} \cup {12}
      /\ flags = segment!LevelSet(marked, {})
      /\ upper = flags \cup {22} \cup {23}
  OBVIOUS
<1>1. b \in zeroed <=> b \in w /\ b \in 8 .. 23
  BY BaseInUpperBits
<1>2. b \in based <=> \/ b \in w /\ b \in 12 .. 23
                      \/ b \in 8 .. 11 /\ b - 8 \in type
  <2>1. b \in 8 .. 23 /\ b \notin 8 .. 11 <=> b \in 12 .. 23
    OBVIOUS
  <2>2. b \in based <=> \/ b \in zeroed /\ b \notin 8 .. 11
                        \/ b \in 8 .. 11 /\ b - 8 \in type
    BY TypeSetBits
  <2> QED BY <1>1, <2>1, <2>2
<1>3. b \in marked <=> b \in based \/ b = 15 \/ b = 12
  OBVIOUS
<1>4. b \in flags <=> b \in marked /\ b \notin {13, 14}
  <2>1. {} \in SUBSET {0, 1}
    OBVIOUS
  <2> QED BY <2>1, LevelSetBits
<1>5. b \in upper <=> b \in flags \/ b = 22 \/ b = 23
  OBVIOUS
<1>6. b \in segment!LimitInUpper(upper, 0 .. 19) <=>
        (b \in 16 .. 19 /\ b \in 0 .. 19) \/ (b \notin 16 .. 19 /\ b \in upper)
  BY DEF segment!LimitInUpper
<1>7. b \in segment!LimitInUpper(upper, 0 .. 19) <=>
        \/ b \in {12, 15, 22, 23} \/ b \in 16 .. 19
        \/ b \in w /\ b \in {20, 21}
        \/ b \in 8 .. 11 /\ b - 8 \in type
  BY ONLY <1>2, <1>3, <1>4, <1>5, <1>6
<1> QED BY <1>7, Zenon

(* Each setter changes the bits of its field only. *)
LEMMA SegmentStepInv == ASSUME SegmentInv, segment!Set PROVE SegmentInv'
<1> USE DEF SegmentInv, SegmentType, SegmentBits
<1>1. ASSUME NEW type \in segment!segment_type, segment!set_type(type)
      PROVE  SegmentInv'
  <2>1. type \in SUBSET (0 .. 3)
    BY DEF segment!segment_type
  <2>2. /\ \A b : b \in segment_dword1' <=>
                   \/ b \in segment_dword1 /\ b \notin 8 .. 11
                   \/ b \in 8 .. 11 /\ b - 8 \in type
        /\ segment_intended' = [segment_intended EXCEPT !.type = type]
        /\ segment_dword2' = segment_dword2
    BY <1>1, <2>1, TypeSetBits DEF segment!set_type
  <2>3. SegmentType'
    BY <2>1, <2>2
  <2>4. /\ \A b \in 0 .. 15 : b + 16 \in segment_dword2' <=> b \in segment_intended'.base
        /\ \A b \in 16 .. 23 : b - 16 \in segment_dword1' <=> b \in segment_intended'.base
        /\ \A b \in 24 .. 31 : b \in segment_dword1' <=> b \in segment_intended'.base
    BY <2>1, <2>2
  <2>5. /\ \A b \in 0 .. 15 : b \in segment_dword2' <=> b \in segment_intended'.limit
        /\ \A b \in 16 .. 19 : b \in segment_dword1' <=> b \in segment_intended'.limit
    BY <2>1, <2>2
  <2>6. /\ \A b \in 0 .. 3 : b + 8 \in segment_dword1' <=> b \in segment_intended'.type
        /\ \A b \in {0, 1} : b + 13 \in segment_dword1' <=> b \in segment_intended'.level
    BY <2>1, <2>2
  <2>7. /\ 15 \in segment_dword1' <=> segment_intended'.present
        /\ 12 \in segment_dword1' <=> ~ segment_intended'.system
    BY <2>1, <2>2
  <2>8. /\ 23 \in segment_dword1' <=> segment_intended'.pages
        /\ 22 \in segment_dword1' <=> segment_intended'.wide
    BY <2>1, <2>2
  <2> QED BY <2>3, <2>4, <2>5, <2>6, <2>7, <2>8
<1>2. ASSUME NEW address \in Values, segment!set_base_address(address)
      PROVE  SegmentInv'
  <2>1. address \in SUBSET (0 .. 31)
    BY ValuesAssumption DEF Word, Bits
  <2>2. /\ \A b : b \in segment_dword1' <=>
                   \/ b \in segment_dword1 /\ b \in 8 .. 23
                   \/ b \in address /\ b \in 24 .. 31
                   \/ b \in 0 .. 7 /\ b + 16 \in address
        /\ \A b : b \in segment_dword2' <=>
                   \/ b \in segment_dword2 /\ b \in 0 .. 15
                   \/ b \in 16 .. 31 /\ b - 16 \in address
        /\ segment_intended' = [segment_intended EXCEPT !.base = address]
    BY <1>2, <2>1, BaseInUpperBits, BaseInLowerBits DEF segment!set_base_address
  <2>3. SegmentType'
    BY <2>1, <2>2
  <2>4. /\ \A b \in 0 .. 15 : b + 16 \in segment_dword2' <=> b \in segment_intended'.base
        /\ \A b \in 16 .. 23 : b - 16 \in segment_dword1' <=> b \in segment_intended'.base
        /\ \A b \in 24 .. 31 : b \in segment_dword1' <=> b \in segment_intended'.base
    BY <2>1, <2>2
  <2>5. /\ \A b \in 0 .. 15 : b \in segment_dword2' <=> b \in segment_intended'.limit
        /\ \A b \in 16 .. 19 : b \in segment_dword1' <=> b \in segment_intended'.limit
    BY <2>1, <2>2
  <2>6. /\ \A b \in 0 .. 3 : b + 8 \in segment_dword1' <=> b \in segment_intended'.type
        /\ \A b \in {0, 1} : b + 13 \in segment_dword1' <=> b \in segment_intended'.level
    BY <2>1, <2>2
  <2>7. /\ 15 \in segment_dword1' <=> segment_intended'.present
        /\ 12 \in segment_dword1' <=> ~ segment_intended'.system
    BY <2>1, <2>2
  <2>8. /\ 23 \in segment_dword1' <=> segment_intended'.pages
        /\ 22 \in segment_dword1' <=> segment_intended'.wide
    BY <2>1, <2>2
  <2> QED BY <2>3, <2>4, <2>5, <2>6, <2>7, <2>8
<1>3. ASSUME NEW limit \in Values, segment!set_limit(limit)
      PROVE  SegmentInv'
  <2>1. limit \in SUBSET (0 .. 31)
    BY ValuesAssumption DEF Word, Bits
  <2>2. /\ segment_dword1' = (segment_dword1 \ (16 .. 19)) \cup (limit \cap (16 .. 19))
        /\ segment_dword2' = (segment_dword2 \ (0 .. 15)) \cup (limit \cap (0 .. 15))
        /\ segment_intended' = [segment_intended EXCEPT !.limit = limit \cap (0 .. 19)]
    BY <1>3 DEF segment!set_limit, segment!LimitInUpper, segment!LimitInLower
  <2>3. SegmentType'
    BY <2>1, <2>2
  <2>4. /\ \A b \in 0 .. 15 : b + 16 \in segment_dword2' <=> b \in segment_intended'.base
        /\ \A b \in 16 .. 23 : b - 16 \in segment_dword1' <=> b \in segment_intended'.base
        /\ \A b \in 24 .. 31 : b \in segment_dword1' <=> b \in segment_intended'.base
    BY <2>1, <2>2
  <2>5. /\ \A b \in 0 .. 15 : b \in segment_dword2' <=> b \in segment_intended'.limit
        /\ \A b \in 16 .. 19 : b \in segment_dword1' <=> b \in segment_intended'.limit
    BY <2>1, <2>2
  <2>6. /\ \A b \in 0 .. 3 : b + 8 \in segment_dword1' <=> b \in segment_intended'.type
        /\ \A b \in {0, 1} : b + 13 \in segment_dword1' <=> b \in segment_intended'.level
    BY <2>1, <2>2
  <2>7. /\ 15 \in segment_dword1' <=> segment_intended'.present
        /\ 12 \in segment_dword1' <=> ~ segment_intended'.system
    BY <2>1, <2>2
  <2>8. /\ 23 \in segment_dword1' <=> segment_intended'.pages
        /\ 22 \in segment_dword1' <=> segment_intended'.wide
    BY <2>1, <2>2
  <2> QED BY <2>3, <2>4, <2>5, <2>6, <2>7, <2>8
<1>4. CASE segment!set_granularity_flag
  <2>1. /\ segment_dword1' = segment_dword1 \cup {23}
        /\ segment_intended' = [segment_intended EXCEPT !.pages = TRUE]
        /\ segment_dword2' = segment_dword2
    BY <1>4 DEF segment!set_granularity_flag, segment!With
  <2>2. segment_dword1' \in SUBSET (0 .. 31)
    BY <2>1
  <2>3. SegmentType'
    BY <2>2, <2>1
  <2>4. /\ \A b \in 0 .. 15 : b + 16 \in segment_dword2' <=> b \in segment_intended'.base
        /\ \A b \in 16 .. 23 : b - 16 \in segment_dword1' <=> b \in segment_intended'.base
        /\ \A b \in 24 .. 31 : b \in segment_dword1' <=> b \in segment_intended'.base
    BY <2>1
  <2>5. /\ \A b \in 0 .. 15 : b \in segment_dword2' <=> b \in segment_intended'.limit
        /\ \A b \in 16 .. 19 : b \in segment_dword1' <=> b \in segment_intended'.limit
    BY <2>1
  <2>6. /\ \A b \in 0 .. 3 : b + 8 \in segment_dword1' <=> b \in segment_intended'.type
        /\ \A b \in {0, 1} : b + 13 \in segment_dword1' <=> b \in segment_intended'.level
    BY <2>1
  <2>7. /\ 15 \in segment_dword1' <=> segment_intended'.present
        /\ 12 \in segment_dword1' <=> ~ segment_intended'.system
    BY <2>1
  <2>8. /\ 23 \in segment_dword1' <=> segment_intended'.pages
        /\ 22 \in segment_dword1' <=> segment_intended'.wide
    BY <2>1
  <2> QED BY <2>3, <2>4, <2>5, <2>6, <2>7, <2>8
<1>5. ASSUME NEW on \in BOOLEAN, segment!set_present(on)
      PROVE  SegmentInv'
  <2>1. /\ on => segment_dword1' = segment_dword1 \cup {15}
        /\ ~on => segment_dword1' = segment_dword1 \ {15}
        /\ segment_intended' = [segment_intended EXCEPT !.present = on]
        /\ segment_dword2' = segment_dword2
    BY <1>5 DEF segment!set_present, segment!With
  <2>2. SegmentType'
    BY <2>1
  <2>3. /\ \A b \in 0 .. 15 : b + 16 \in segment_dword2' <=> b \in segment_intended'.base
        /\ \A b \in 16 .. 23 : b - 16 \in segment_dword1' <=> b \in segment_intended'.base
        /\ \A b \in 24 .. 31 : b \in segment_dword1' <=> b \in segment_intended'.base
    BY <2>1
  <2>4. /\ \A b \in 0 .. 15 : b \in segment_dword2' <=> b \in segment_intended'.limit
        /\ \A b \in 16 .. 19 : b \in segment_dword1' <=> b \in segment_intended'.limit
    BY <2>1
  <2>5. /\ \A b \in 0 .. 3 : b + 8 \in segment_dword1' <=> b \in segment_intended'.type
        /\ \A b \in {0, 1} : b + 13 \in segment_dword1' <=> b \in segment_intended'.level
    BY <2>1
  <2>6. /\ 15 \in segment_dword1' <=> segment_intended'.present
        /\ 12 \in segment_dword1' <=> ~ segment_intended'.system
    BY <2>1
  <2>7. /\ 23 \in segment_dword1' <=> segment_intended'.pages
        /\ 22 \in segment_dword1' <=> segment_intended'.wide
    BY <2>1
  <2> QED BY <2>2, <2>3, <2>4, <2>5, <2>6, <2>7
<1>6. ASSUME NEW level \in SUBSET {0, 1}, segment!set_priviledge_level(level)
      PROVE  SegmentInv'
  <2>1. /\ \A b : b \in segment_dword1' <=>
                   \/ b \in segment_dword1 /\ b \notin {13, 14}
                   \/ b \in {13, 14} /\ b - 13 \in level
        /\ segment_intended' = [segment_intended EXCEPT !.level = level]
        /\ segment_dword2' = segment_dword2
    BY <1>6, LevelSetBits DEF segment!set_priviledge_level
  <2>2. SegmentType'
    BY <2>1
  <2>3. /\ \A b \in 0 .. 15 : b + 16 \in segment_dword2' <=> b \in segment_intended'.base
        /\ \A b \in 16 .. 23 : b - 16 \in segment_dword1' <=> b \in segment_intended'.base
        /\ \A b \in 24 .. 31 : b \in segment_dword1' <=> b \in segment_intended'.base
    BY <2>1
  <2>4. /\ \A b \in 0 .. 15 : b \in segment_dword2' <=> b \in segment_intended'.limit
        /\ \A b \in 16 .. 19 : b \in segment_dword1' <=> b \in segment_intended'.limit
    BY <2>1
  <2>5. /\ \A b \in 0 .. 3 : b + 8 \in segment_dword1' <=> b \in segment_intended'.type
        /\ \A b \in {0, 1} : b + 13 \in segment_dword1' <=> b \in segment_intended'.level
    BY <2>1
  <2>6. /\ 15 \in segment_dword1' <=> segment_intended'.present
        /\ 12 \in segment_dword1' <=> ~ segment_intended'.system
    BY <2>1
  <2>7. /\ 23 \in segment_dword1' <=> segment_intended'.pages
        /\ 22 \in segment_dword1' <=> segment_intended'.wide
    BY <2>1
  <2> QED BY <2>2, <2>3, <2>4, <2>5, <2>6, <2>7
<1>7. ASSUME NEW is_system \in BOOLEAN, segment!set_is_system(is_system)
      PROVE  SegmentInv'
  <2>1. /\ ~is_system => segment_dword1' = segment_dword1 \cup {12}
        /\ is_system => segment_dword1' = segment_dword1 \ {12}
        /\ segment_intended' = [segment_intended EXCEPT !.system = is_system]
        /\ segment_dword2' = segment_dword2
    BY <1>7 DEF segment!set_is_system, segment!With
  <2>2. SegmentType'
    BY <2>1
  <2>3. /\ \A b \in 0 .. 15 : b + 16 \in segment_dword2' <=> b \in segment_intended'.base
        /\ \A b \in 16 .. 23 : b - 16 \in segment_dword1' <=> b \in segment_intended'.base
        /\ \A b \in 24 .. 31 : b \in segment_dword1' <=> b \in segment_intended'.base
    BY <2>1
  <2>4. /\ \A b \in 0 .. 15 : b \in segment_dword2' <=> b \in segment_intended'.limit
        /\ \A b \in 16 .. 19 : b \in segment_dword1' <=> b \in segment_intended'.limit
    BY <2>1
  <2>5. /\ \A b \in 0 .. 3 : b + 8 \in segment_dword1' <=> b \in segment_intended'.type
        /\ \A b \in {0, 1} : b + 13 \in segment_dword1' <=> b \in segment_intended'.level
    BY <2>1
  <2>6. /\ 15 \in segment_dword1' <=> segment_intended'.present
        /\ 12 \in segment_dword1' <=> ~ segment_intended'.system
    BY <2>1
  <2>7. /\ 23 \in segment_dword1' <=> segment_intended'.pages
        /\ 22 \in segment_dword1' <=> segment_intended'.wide
    BY <2>1
  <2> QED BY <2>2, <2>3, <2>4, <2>5, <2>6, <2>7
<1>8. ASSUME NEW type \in {{1}, {1, 2, 3}}, segment!initialize(type)
      PROVE  SegmentInv'
  <2>1. type \in SUBSET (0 .. 3)
    OBVIOUS
  <2>2. /\ \A b : b \in segment_dword1' <=>
                   \/ b \in {12, 15, 22, 23} \/ b \in 16 .. 19
                   \/ b \in segment_dword1 /\ b \in {20, 21}
                   \/ b \in 8 .. 11 /\ b - 8 \in type
        /\ \A b : b \in segment_dword2' <=> b \in 0 .. 15
        /\ segment_intended' = [base |-> {}, limit |-> 0 .. 19, type |-> type,
                                level |-> {}, present |-> TRUE, system |-> FALSE,
                                pages |-> TRUE, wide |-> TRUE]
    <3>1. /\ segment_dword1' = segment!LimitInUpper(
               segment!LevelSet(segment!TypeSet(segment!BaseInUpper(segment_dword1, {}), type)
                                  \cup {15} \cup {12}, {}) \cup {22} \cup {23}, 0 .. 19)
          /\ segment_dword2' = segment!LimitInLower(
                                  segment!BaseInLower(segment_dword2, {}), 0 .. 19)
      BY <1>8 DEF segment!initialize, segment!With
    <3>2. \A b : b \in segment_dword1' <=>
                   \/ b \in {12, 15, 22, 23} \/ b \in 16 .. 19
                   \/ b \in segment_dword1 /\ b \in {20, 21}
                   \/ b \in 8 .. 11 /\ b - 8 \in type
      BY ONLY <2>1, <3>1, InitializedBits
    <3>3. ASSUME NEW b
          PROVE  b \in segment_dword2' <=> b \in 0 .. 15
      <4>1. b \in segment!BaseInLower(segment_dword2, {}) => b \in 0 .. 15
        BY BaseInLowerBits
      <4>2. b \in segment_dword2' <=>
              IF b \in 0 .. 15 THEN b \in 0 .. 19
              ELSE b \in segment!BaseInLower(segment_dword2, {})
        BY <3>1, LimitBits
      <4>3. b \in 0 .. 15 => b \in 0 .. 19
        OBVIOUS
      <4> QED BY <4>1, <4>2, <4>3
    <3> QED BY <1>8, <3>2, <3>3 DEF segment!initialize
  <2>3. SegmentType'
    BY <2>1, <2>2
  <2>4. /\ \A b \in 0 .. 15 : b + 16 \in segment_dword2' <=> b \in segment_intended'.base
        /\ \A b \in 16 .. 23 : b - 16 \in segment_dword1' <=> b \in segment_intended'.base
        /\ \A b \in 24 .. 31 : b \in segment_dword1' <=> b \in segment_intended'.base
    BY <2>1, <2>2
  <2>5. /\ \A b \in 0 .. 15 : b \in segment_dword2' <=> b \in segment_intended'.limit
        /\ \A b \in 16 .. 19 : b \in segment_dword1' <=> b \in segment_intended'.limit
    BY <2>1, <2>2
  <2>6. /\ \A b \in 0 .. 3 : b + 8 \in segment_dword1' <=> b \in segment_intended'.type
        /\ \A b \in {0, 1} : b + 13 \in segment_dword1' <=> b \in segment_intended'.level
    BY <2>1, <2>2
  <2>7. /\ 15 \in segment_dword1' <=> segment_intended'.present
        /\ 12 \in segment_dword1' <=> ~ segment_intended'.system
    BY <2>1, <2>2
  <2>8. /\ 23 \in segment_dword1' <=> segment_intended'.pages
        /\ 22 \in segment_dword1' <=> segment_intended'.wide
    BY <2>1, <2>2
  <2> QED BY <2>3, <2>4, <2>5, <2>6, <2>7, <2>8
<1> QED BY <1>1, <1>2, <1>3, <1>4, <1>5, <1>6, <1>7, <1>8 DEF segment!Set

-----------------------------------------------------------------------------
(* The three of them side by side. *)

Inv == SegmentInv /\ GateInv /\ EntryInv

LEMMA NextInv == ASSUME Inv, [Next]_vars PROVE Inv'
<1>1. CASE SegmentStep
  BY <1>1, SegmentStepInv
  DEF Inv, SegmentStep, gate_vars, entry_vars, GateInv, GateType, GateBits, EntryInv,
      EntryType, EntryBits
<1>2. CASE GateStep
  BY <1>2, GateStepInv
  DEF Inv, GateStep, segment_vars, entry_vars, SegmentInv, SegmentType, SegmentBits,
      EntryInv, EntryType, EntryBits
<1>3. CASE EntryStep
  BY <1>3, EntryStepInv
  DEF Inv, EntryStep, segment_vars, gate_vars, SegmentInv, SegmentType, SegmentBits,
      GateInv, GateType, GateBits
<1>4. CASE UNCHANGED vars
  BY <1>4
  DEF Inv, vars, segment_vars, gate_vars, entry_vars, SegmentInv, SegmentType,
      SegmentBits, GateInv, GateType, GateBits, EntryInv, EntryType, EntryBits
<1> QED BY <1>1, <1>2, <1>3, <1>4 DEF Next

(* For all words, every bit stands for the bit of the field it was set to. *)
THEOREM InvHolds == Spec => []Inv
<1>1. Init => Inv
  BY SegmentInit, GateInit, EntryInit DEF Init, Inv
<1> QED BY <1>1, NextInv, PTL DEF Spec

(* The processor finds in each field of a segment descriptor what was last  *)
(* set there, whatever the values and the order of the calls, initialize   *)
(* among them; clear_granularity_flag is left out of Spec.                 *)
THEOREM SegmentsReadWhatWasSet == Spec => []SegmentReadsWhatWasSet
BY InvHolds, SegmentRead, PTL DEF Inv

(* The same for interrupt gates. *)
THEOREM GatesHoldWhatWasSet == Spec => []GateHoldsWhatWasSet
BY InvHolds, GateRead, PTL DEF Inv

(* And for page entries, with the processor's accesses in between. *)
THEOREM EntriesReturnWhatWasSet == Spec => []GettersReturnWhatWasSet
BY InvHolds, EntryRead, PTL DEF Inv

=============================================================================
