--------------------------- MODULE SegmentDescriptor ---------------------------
(***************************************************************************)
(* A segment descriptor (source/kernel/source/memory/x86_32/gdt.cpp) of    *)
(* the global descriptor table: two words whose fields the processor reads *)
(* in an order of Intel's making, and which one setter per field writes.   *)
(* The setters are called in any order; intended is what the calls so far  *)
(* were to achieve.                                                        *)
(***************************************************************************)
EXTENDS Words

(* enum segment_type: four bits, each with a meaning of its own. *)
segment_type == SUBSET (0 .. 3)

VARIABLES
  dword1,     \* the upper word
  dword2,     \* the lower word
  intended    \* what the setters were called with

vars == <<dword1, dword2, intended>>

Fields ==
  [base : Values \cup {{}}, limit : {v \cap (0 .. 19) : v \in Values \cup {{}, Bits}},
   type : segment_type, level : SUBSET {0, 1}, present : BOOLEAN,
   system : BOOLEAN, pages : BOOLEAN, wide : BOOLEAN]

TypeOK ==
  /\ dword1 \in Word
  /\ dword2 \in Word
  /\ intended \in Fields

Nothing ==
  [base |-> {}, limit |-> {}, type |-> {}, level |-> {}, present |-> FALSE,
   system |-> TRUE, pages |-> FALSE, wide |-> FALSE]

(* A descriptor is made by its constructor; or it is one of the global gdt, *)
(* whose constructor nothing runs, and starts with zeros.                  *)
Constructed ==
  /\ dword1 = {22, 15}
  /\ intended = [Nothing EXCEPT !.wide = TRUE, !.present = TRUE]

Global ==
  /\ dword1 = {}
  /\ intended = Nothing

Init ==
  /\ Constructed \/ Global
  /\ dword2 = {}

-----------------------------------------------------------------------------
(* What the setters make of the upper word, w, and of the lower one, v. *)

TypeSet(w, type) == (w \ (8 .. 11)) \cup Shifted(type \cap (0 .. 3), 8)

BaseInUpperKept(w, address) ==
  w \cup (address \cap (24 .. 31)) \cup Shifted(address \cap (16 .. 23), -16)

BaseInUpper(w, address) ==
  (w \cap (8 .. 23)) \cup (address \cap (24 .. 31))
    \cup Shifted(address \cap (16 .. 23), -16)

BaseInLower(v, address) ==
  (v \cap (0 .. 15)) \cup Shifted(address \cap (0 .. 15), 16)

LimitInUpper(w, limit) == (w \ (16 .. 19)) \cup (limit \cap (16 .. 19))

LimitInLower(v, limit) == (v \ (0 .. 15)) \cup (limit \cap (0 .. 15))

LevelSet(w, level) == (w \ {13, 14}) \cup Shifted(level \cap {0, 1}, 13)

set_type(type) ==
  /\ dword1' = TypeSet(dword1, type)
  /\ intended' = [intended EXCEPT !.type = type]
  /\ UNCHANGED dword2

set_base_address(address) ==
  /\ dword1' = BaseInUpper(dword1, address)
  /\ dword2' = BaseInLower(dword2, address)
  /\ intended' = [intended EXCEPT !.base = address]

set_limit(limit) ==
  /\ dword1' = LimitInUpper(dword1, limit)
  /\ dword2' = LimitInLower(dword2, limit)
  /\ intended' = [intended EXCEPT !.limit = limit \cap (0 .. 19)]

set_granularity_flag ==
  /\ dword1' = With(dword1, 23, TRUE)
  /\ intended' = [intended EXCEPT !.pages = TRUE]
  /\ UNCHANGED dword2

(* The mask keeps the bits 20 to 22 and no others. *)
clear_granularity_flag ==
  /\ dword1' = dword1 \cap (20 .. 22)
  /\ intended' = [intended EXCEPT !.pages = FALSE]
  /\ UNCHANGED dword2

set_present(is_present) ==
  /\ dword1' = With(dword1, 15, is_present)
  /\ intended' = [intended EXCEPT !.present = is_present]
  /\ UNCHANGED dword2

set_priviledge_level(priviledge) ==
  /\ dword1' = LevelSet(dword1, priviledge)
  /\ intended' = [intended EXCEPT !.level = priviledge]
  /\ UNCHANGED dword2

set_is_system(is_system) ==
  /\ dword1' = With(dword1, 12, ~is_system)
  /\ intended' = [intended EXCEPT !.system = is_system]
  /\ UNCHANGED dword2

(* flat_global_descriptor_table::initialize, for the code segment with type *)
(* execute_read_only_conforming and the data segment with type read_write: *)
(* the setters in their order, on whatever is there.                       *)
initialize(type) ==
  LET based == TypeSet(BaseInUpper(dword1, {}), type)
      flags == LevelSet(With(With(based, 15, TRUE), 12, TRUE), {})
  IN  /\ dword1' = LimitInUpper(With(With(flags, 22, TRUE), 23, TRUE), 0 .. 19)
      /\ dword2' = LimitInLower(BaseInLower(dword2, {}), 0 .. 19)
      /\ intended' = [base |-> {}, limit |-> 0 .. 19, type |-> type,
                      level |-> {}, present |-> TRUE, system |-> FALSE,
                      pages |-> TRUE, wide |-> TRUE]

Set ==
  \/ \E type \in segment_type : set_type(type)
  \/ \E address \in Values : set_base_address(address)
  \/ \E limit \in Values : set_limit(limit)
  \/ set_granularity_flag
  \/ \E on \in BOOLEAN : set_present(on)
  \/ \E level \in SUBSET {0, 1} : set_priviledge_level(level)
  \/ \E on \in BOOLEAN : set_is_system(on)
  \/ \E type \in {{1}, {1, 2, 3}} : initialize(type)

(* Every call but those of clear_granularity_flag ... *)
Spec == Init /\ [][Set]_vars

(* ... and every call. *)
Next == Set \/ clear_granularity_flag

FullSpec == Init /\ [][Next]_vars

-----------------------------------------------------------------------------
(* Properties. *)

(* The fields as the processor reads them. *)
Decoded ==
  [base |-> Shifted(dword2 \cap (16 .. 31), -16)
              \cup Shifted(dword1 \cap (0 .. 7), 16) \cup (dword1 \cap (24 .. 31)),
   limit |-> (dword2 \cap (0 .. 15)) \cup (dword1 \cap (16 .. 19)),
   type |-> Shifted(dword1 \cap (8 .. 11), -8),
   level |-> Shifted(dword1 \cap {13, 14}, -13),
   present |-> 15 \in dword1,
   system |-> 12 \notin dword1,
   pages |-> 23 \in dword1,
   wide |-> 22 \in dword1]

(* Whatever the order of the calls, the processor reads from every field    *)
(* what was last set there: the pieces of the base and of the limit end up *)
(* in the right places, old bits leave, and no setter touches the field of *)
(* another one.                                                            *)
ProcessorReadsWhatWasSet == Decoded = intended

=============================================================================
