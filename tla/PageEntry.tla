------------------------------- MODULE PageEntry -------------------------------
(***************************************************************************)
(* An entry of a page table or of a page directory                         *)
(* (source/kernel/source/memory/x86_32/paging.cpp): one word, into which   *)
(* the kernel writes with one setter per field, and into which the         *)
(* processor writes too when it uses the entry.  The functions of the two  *)
(* classes are the same wherever both have them; a directory entry has     *)
(* fewer.                                                                  *)
(***************************************************************************)
EXTENDS Words

VARIABLES
  data,       \* the entry
  intended    \* what the setters, and the processor, did to it last

vars == <<data, intended>>

PageAligned(address) == address \cap (12 .. 31)

TypeOK ==
  /\ data \in Word
  /\ intended \in [address : {PageAligned(a) : a \in Values \cup {{}}},
                   global : BOOLEAN, dirty : BOOLEAN, accessed : BOOLEAN,
                   user : BOOLEAN, writable : BOOLEAN, present : BOOLEAN]

Init ==
  /\ data = {}
  /\ intended = [address |-> {}, global |-> FALSE, dirty |-> FALSE,
                 accessed |-> FALSE, user |-> FALSE, writable |-> FALSE,
                 present |-> FALSE]

AddressSetOverFlags(word, address) == PageAligned(address)

AddressSet(word, address) == (word \cap (0 .. 11)) \cup PageAligned(address)

set_address(address) ==
  /\ data' = AddressSet(data, address)
  /\ intended' = [intended EXCEPT !.address = PageAligned(address)]

set_global_page(on) ==
  /\ data' = With(data, 8, on)
  /\ intended' = [intended EXCEPT !.global = on]

set_dirty(on) ==
  /\ data' = With(data, 6, on)
  /\ intended' = [intended EXCEPT !.dirty = on]

clear_accessed ==
  /\ data' = data \ {5}
  /\ intended' = [intended EXCEPT !.accessed = FALSE]

set_type(user) ==
  /\ data' = With(data, 2, user)
  /\ intended' = [intended EXCEPT !.user = user]

set_writable(on) ==
  /\ data' = With(data, 1, on)
  /\ intended' = [intended EXCEPT !.writable = on]

set_present(on) ==
  /\ data' = With(data, 0, on)
  /\ intended' = [intended EXCEPT !.present = on]

(* The processor reads or writes the page of an entry that is present. *)
Use(writes) ==
  /\ 0 \in data
  /\ data' = data \cup {5} \cup (IF writes THEN {6} ELSE {})
  /\ intended' = [intended EXCEPT !.accessed = TRUE,
                                  !.dirty = intended.dirty \/ writes]

Next ==
  \/ \E address \in Values : set_address(address)
  \/ clear_accessed
  \/ \E on \in BOOLEAN :
       \/ set_global_page(on)
       \/ set_dirty(on)
       \/ set_type(on)
       \/ set_writable(on)
       \/ set_present(on)
       \/ Use(on)

Spec == Init /\ [][Next]_vars

-----------------------------------------------------------------------------
(* Properties. *)

(* get_address, is_global_page, is_dirty, is_accessed, get_type,            *)
(* is_writable and is_present.                                             *)
get_address == data \ (0 .. 11)

Read ==
  [address |-> get_address, global |-> 8 \in data, dirty |-> 6 \in data,
   accessed |-> 5 \in data, user |-> 2 \in data, writable |-> 1 \in data,
   present |-> 0 \in data]

(* Whatever the order of the setters' calls and of the processor's accesses *)
(* every getter returns what was last set: moving an entry to another page *)
(* keeps its flags and leaves nothing of the old address.                  *)
GettersReturnWhatWasSet == Read = intended

=============================================================================
