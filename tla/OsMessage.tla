------------------------------- MODULE OsMessage -------------------------------
(***************************************************************************)
(* A message between two applications                                      *)
(* (source/common/include/ipc/os_message.hpp): a block of shared memory    *)
(* with a header, the number of parameters and an offset and a size for    *)
(* each, which the values follow in the order in which they are set.       *)
(*                                                                         *)
(* The block is a function from offsets in bytes to what was written there *)
(* last: a piece of the header or one byte of one value.  It goes on past  *)
(* its end, because nothing in the code stops there.                       *)
(***************************************************************************)
EXTENDS Integers, FiniteSetsExt

CONSTANTS
  num_of_parameters,
  Sizes,              \* the sizes of values, in bytes
  shared_mem_size,    \* the size of the block, in bytes
  MaxCalls            \* a bound on the calls of set_value

ASSUME MessageAssumption ==
  /\ num_of_parameters \in Nat
  /\ Sizes \subseteq Nat
  /\ \E most \in Sizes \cup {0} : \A s \in Sizes : s <= most
  /\ shared_mem_size \in Nat
  /\ MaxCalls \in Nat

Parameters == 0 .. (num_of_parameters - 1)

(* A count of 4 bytes, then an offset and a size of 4 bytes each for every *)
(* parameter.                                                              *)
header_size == 4 + 8 * num_of_parameters

MostBytes == Max(Sizes \cup {0})

(* The bytes that MaxCalls calls can reach. *)
Offsets == 0 .. (header_size + MaxCalls * MostBytes)

VARIABLES
  block,            \* what is written where
  fields,           \* the offsets and sizes in the header
  end_of_params,    \* where the next value goes
  calls,            \* how many values have been set
  latest            \* the number of the call that set a parameter last, or 0

vars == <<block, fields, end_of_params, calls, latest>>

ByteOf(call, byte) == [call |-> call, byte |-> byte]

Unwritten == ByteOf(0, 0)

HeaderByte == ByteOf(-1, 0)

TypeOK ==
  /\ block \in [Offsets -> {Unwritten, HeaderByte} \cup
                           [call : 1 .. calls, byte : 0 .. MostBytes]]
  /\ fields \in [Parameters -> [offset : Offsets, size : Sizes \cup {0}]]
  /\ end_of_params \in Offsets
  /\ calls \in 0 .. MaxCalls
  /\ latest \in [Parameters -> 0 .. calls]

-----------------------------------------------------------------------------
(* The constructor writes the header. *)
Init ==
  /\ block = [b \in Offsets |-> IF b < header_size THEN HeaderByte ELSE Unwritten]
  /\ fields = [p \in Parameters |-> [offset |-> 0, size |-> 0]]
  /\ end_of_params = header_size
  /\ calls = 0
  /\ latest = [p \in Parameters |-> 0]

AdvancedByAFieldToo(p, value_size) == end_of_params + 8 + value_size

AdvancedByOldSize(p, value_size) == end_of_params + fields[p].size

Advanced(p, value_size) == end_of_params + value_size

(* set_value(offset, value, value_size), where the offset is the number of *)
(* a parameter.                                                            *)
set_value(p, value_size) ==
  /\ calls < MaxCalls
  /\ calls' = calls + 1
  /\ latest' = [latest EXCEPT ![p] = calls']
  /\ fields' = [fields EXCEPT ![p] = [offset |-> end_of_params, size |-> value_size]]
  /\ block' = [b \in Offsets |->
                 IF b \in end_of_params .. (end_of_params + value_size - 1)
                 THEN ByteOf(calls', b - end_of_params)
                 ELSE block[b]]
  /\ end_of_params' = Advanced(p, value_size)

Next == \E p \in Parameters, value_size \in Sizes : set_value(p, value_size)

Spec == Init /\ [][Next]_vars

(* What get_value returns, counted from the start of the block, and what   *)
(* get_value_size returns.                                                 *)
get_value(p) == fields[p].offset

get_value_size(p) == fields[p].size

-----------------------------------------------------------------------------
(* Properties. *)

(* A reader finds, for every parameter that was set, the bytes of the call *)
(* that set it last, and the header is whole: setting a parameter, also a  *)
(* second time and with a value of another size, spoils no other one.      *)
ValuesSurvive ==
  /\ \A p \in Parameters :
       latest[p] > 0 =>
         \A k \in 0 .. (get_value_size(p) - 1) :
           block[get_value(p) + k] = ByteOf(latest[p], k)
  /\ \A b \in 0 .. (header_size - 1) : block[b] = HeaderByte

(* Whatever is written is written into the block. *)
StaysInBlock ==
  \A b \in Offsets : block[b] # Unwritten => b < shared_mem_size

=============================================================================
