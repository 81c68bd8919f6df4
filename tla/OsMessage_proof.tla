---------------------------- MODULE OsMessage_proof ----------------------------
(***************************************************************************)
(* What holds of a message for every number of parameters, all sizes of    *)
(* values and every number of calls: its values survive.                   *)
(***************************************************************************)
EXTENDS OsMessage, TLAPS

(* The values lie one behind the other, after the header, and up to the    *)
(* place of the next one, where nothing is written yet.                    *)
Placed ==
  /\ header_size <= end_of_params
  /\ end_of_params <= header_size + calls * MostBytes
  /\ \A p \in Parameters :
       latest[p] > 0 =>
         /\ header_size <= get_value(p)
         /\ get_value(p) + get_value_size(p) <= end_of_params
  /\ \A b \in Offsets : block[b] # Unwritten => b < end_of_params

(* The inductive invariant. *)
Inv == TypeOK /\ ValuesSurvive /\ Placed

-----------------------------------------------------------------------------
(* Facts about sizes. *)

(* No value has more than MostBytes bytes. *)
LEMMA Most == MostBytes \in Sizes \cup {0} /\ \A s \in Sizes \cup {0} : s <= MostBytes
<1>1. PICK most \in Sizes \cup {0} : \A s \in Sizes : s <= most
  BY MessageAssumption
<1>2. \A s \in Sizes \cup {0} : most >= s
  BY <1>1, MessageAssumption
<1>3. \E m \in Sizes \cup {0} : \A s \in Sizes \cup {0} : m >= s
  BY <1>1, <1>2
<1>4. MostBytes = CHOOSE m \in Sizes \cup {0} : \A s \in Sizes \cup {0} : m >= s
  BY DEF MostBytes, Max
<1>5. MostBytes \in Sizes \cup {0} /\ \A s \in Sizes \cup {0} : MostBytes >= s
  BY <1>3, <1>4
<1> QED BY <1>5, MessageAssumption

(* One more call needs room for one more value of the largest size. *)
LEMMA OneMore ==
  ASSUME NEW c \in Nat, NEW s \in Sizes
  PROVE  /\ c * MostBytes \in Nat
         /\ (c + 1) * MostBytes = c * MostBytes + MostBytes
         /\ c * MostBytes + s <= (c + 1) * MostBytes
<1>1. MostBytes \in Nat /\ s \in Nat /\ s <= MostBytes
  BY Most, MessageAssumption
<1>2. c * MostBytes \in Nat
  BY <1>1
<1>3. (c + 1) * MostBytes = c * MostBytes + MostBytes
  BY <1>1
<1> QED BY <1>1, <1>2, <1>3

(* As many calls as there may be do not reach past the modelled bytes. *)
LEMMA Reach ==
  ASSUME NEW c \in 0 .. MaxCalls
  PROVE  c * MostBytes <= MaxCalls * MostBytes
<1>1. MostBytes \in Nat /\ MaxCalls \in Nat /\ c \in Nat
  BY Most, MessageAssumption
<1>2. PICK d \in Nat : MaxCalls = c + d
  <2>1. MaxCalls - c \in Nat /\ MaxCalls = c + (MaxCalls - c)
    BY <1>1
  <2> QED BY <2>1
<1>3. MaxCalls * MostBytes = c * MostBytes + d * MostBytes
  BY <1>1, <1>2
<1>4. c * MostBytes \in Nat /\ d * MostBytes \in Nat
  BY <1>1
<1> QED BY <1>3, <1>4

(* The header has a size. *)
LEMMA HeaderSize == header_size \in Nat
BY MessageAssumption DEF header_size

(* The modelled bytes go from 0 up, as far as the header and further. *)
LEMMA BytesReach == \E top \in Nat : header_size <= top /\ Offsets = 0 .. top
<1>1. MaxCalls * MostBytes \in Nat
  BY Most, MessageAssumption
<1>2. /\ header_size + MaxCalls * MostBytes \in Nat
      /\ header_size <= header_size + MaxCalls * MostBytes
  BY <1>1, HeaderSize
<1> QED BY <1>2 DEF Offsets

-----------------------------------------------------------------------------
(* The two steps of the argument. *)

(* The constructor. *)
LEMMA InitInv == Init => Inv
<1> SUFFICES ASSUME Init PROVE Inv
  OBVIOUS
<1>1. header_size \in Offsets /\ 0 \in Offsets
  <2>1. MaxCalls * MostBytes \in Nat
    BY Most, MessageAssumption
  <2> QED BY <2>1, HeaderSize DEF Offsets
<1>2. TypeOK
  BY <1>1, MessageAssumption DEF Init, TypeOK
<1>3. ValuesSurvive
  <2>1. \A b \in 0 .. (header_size - 1) : b \in Offsets /\ b < header_size
    BY HeaderSize, BytesReach
  <2> QED BY <2>1 DEF Init, ValuesSurvive
<1>4. Placed
  <2>1. 0 * MostBytes = 0
    BY Most, MessageAssumption
  <2>2. \A b \in Offsets : block[b] # Unwritten => b < end_of_params
    BY DEF Init
  <2> QED BY <2>1, <2>2, HeaderSize DEF Init, Placed
<1> QED BY <1>2, <1>3, <1>4 DEF Inv

(* A call of set_value. *)
LEMMA SetValueInv ==
  ASSUME Inv, NEW p \in Parameters, NEW value_size \in Sizes, set_value(p, value_size)
  PROVE  Inv'
<1> DEFINE start == end_of_params
           last == end_of_params + value_size
<1>1. /\ calls \in Nat /\ calls < MaxCalls /\ calls' = calls + 1
      /\ calls' \in 1 .. MaxCalls
      /\ value_size \in Nat /\ value_size <= MostBytes /\ MostBytes \in Nat
      /\ header_size \in Nat /\ start \in Nat /\ last \in Nat
  BY Most, HeaderSize, MessageAssumption DEF Inv, TypeOK, Offsets, set_value
<1>2. /\ end_of_params' = last
      /\ header_size <= last
      /\ last <= header_size + calls' * MostBytes
  <2>1. /\ calls * MostBytes \in Nat
        /\ calls * MostBytes + value_size <= (calls + 1) * MostBytes
        /\ (calls + 1) * MostBytes = calls * MostBytes + MostBytes
    BY <1>1, OneMore
  <2>2. end_of_params' = last
    BY DEF set_value, Advanced
  <2>3. header_size <= start /\ start <= header_size + calls * MostBytes
    BY DEF Inv, Placed
  <2> QED BY <1>1, <2>1, <2>2, <2>3
<1>3. last \in Offsets
  <2>1. calls' * MostBytes <= MaxCalls * MostBytes
    BY <1>1, Reach
  <2>2. calls' * MostBytes \in Nat /\ MaxCalls * MostBytes \in Nat
    BY <1>1, MessageAssumption
  <2> QED BY <1>1, <1>2, <2>1, <2>2 DEF Offsets
<1>4. \A b \in Offsets :
        /\ start <= b /\ b < last => block'[b] = ByteOf(calls', b - start)
        /\ ~(start <= b /\ b < last) => block'[b] = block[b]
  <2>1. block' = [b \in Offsets |-> IF b \in start .. (start + value_size - 1)
                                    THEN ByteOf(calls', b - start) ELSE block[b]]
    BY DEF set_value
  <2>2. \A b \in Offsets : b \in start .. (start + value_size - 1) <=> start <= b /\ b < last
    BY <1>1, BytesReach
  <2> QED BY <2>1, <2>2
<1>5. /\ fields' = [fields EXCEPT ![p] = [offset |-> start, size |-> value_size]]
      /\ latest' = [latest EXCEPT ![p] = calls']
  BY DEF set_value
<1>6. TypeOK'
  <2>1. block' \in [Offsets -> {Unwritten, HeaderByte} \cup
                               [call : 1 .. calls', byte : 0 .. MostBytes]]
    <3>1. ASSUME NEW b \in Offsets
          PROVE  block'[b] \in {Unwritten, HeaderByte} \cup
                               [call : 1 .. calls', byte : 0 .. MostBytes]
      <4>1. CASE start <= b /\ b < last
        <5>1. calls' \in 1 .. calls' /\ b - start \in 0 .. MostBytes
          BY <1>1, <4>1, BytesReach
        <5>2. block'[b] = ByteOf(calls', b - start)
          BY <1>4, <4>1
        <5> QED BY <5>1, <5>2 DEF ByteOf
      <4>2. CASE ~(start <= b /\ b < last)
        <5>1. 1 .. calls \subseteq 1 .. calls'
          BY <1>1
        <5>2. block'[b] = block[b]
          BY <1>4, <4>2
        <5> QED BY <5>1, <5>2 DEF Inv, TypeOK
      <4> QED BY <4>1, <4>2
    <3>2. block' = [b \in Offsets |-> block'[b]]
      BY DEF set_value
    <3> QED BY <3>1, <3>2
  <2>2. fields' \in [Parameters -> [offset : Offsets, size : Sizes \cup {0}]]
    BY <1>5 DEF Inv, TypeOK
  <2>3. latest' \in [Parameters -> 0 .. calls']
    <3>1. 0 .. calls \subseteq 0 .. calls' /\ calls' \in 0 .. calls'
      BY <1>1
    <3>2. latest \in [Parameters -> 0 .. calls']
      BY <3>1 DEF Inv, TypeOK
    <3> QED BY <1>5, <3>1, <3>2
  <2>4. calls' \in 0 .. MaxCalls
    BY <1>1, MessageAssumption
  <2> QED BY <1>2, <1>3, <2>1, <2>2, <2>3, <2>4 DEF TypeOK
<1>7. ASSUME NEW q \in Parameters, latest'[q] > 0
      PROVE  /\ header_size <= get_value(q)'
             /\ get_value(q)' + get_value_size(q)' <= end_of_params'
             /\ \A k \in 0 .. (get_value_size(q)' - 1) :
                  block'[get_value(q)' + k] = ByteOf(latest'[q], k)
  <2>1. CASE q = p
    <3>1. get_value(q)' = start /\ get_value_size(q)' = value_size /\ latest'[q] = calls'
      BY <1>5, <2>1 DEF Inv, TypeOK, get_value, get_value_size
    <3>2. \A k \in 0 .. (value_size - 1) :
            /\ start + k \in Offsets
            /\ start <= start + k /\ start + k < last
            /\ (start + k) - start = k
      BY <1>1, <1>3, BytesReach
    <3>3. header_size <= start
      BY DEF Inv, Placed
    <3>4. \A k \in 0 .. (value_size - 1) : block'[start + k] = ByteOf(calls', k)
      BY <1>4, <3>2
    <3> QED BY <1>1, <1>2, <3>1, <3>3, <3>4
  <2>2. CASE q # p
    <3>1. /\ get_value(q)' = get_value(q) /\ get_value_size(q)' = get_value_size(q)
          /\ latest'[q] = latest[q]
      BY <1>5, <2>2 DEF Inv, TypeOK, get_value, get_value_size
    <3>2. /\ get_value(q) \in Nat /\ get_value_size(q) \in Nat
      <4>1. fields[q] \in [offset : Offsets, size : Sizes \cup {0}]
        BY DEF Inv, TypeOK
      <4>2. fields[q].offset \in Offsets /\ fields[q].size \in Sizes \cup {0}
        BY <4>1
      <4>3. Offsets \subseteq Nat /\ Sizes \cup {0} \subseteq Nat
        BY BytesReach, MessageAssumption
      <4> QED BY <4>2, <4>3 DEF get_value, get_value_size
    <3>3. /\ header_size <= get_value(q)
          /\ get_value(q) + get_value_size(q) <= start
      BY <1>7, <3>1 DEF Inv, Placed
    <3>4. \A k \in 0 .. (get_value_size(q) - 1) :
            /\ get_value(q) + k \in Offsets
            /\ get_value(q) + k < start
      BY <1>1, <1>3, <3>2, <3>3, BytesReach
    <3>5. \A k \in 0 .. (get_value_size(q) - 1) :
            block[get_value(q) + k] = ByteOf(latest[q], k)
      BY <1>7, <3>1 DEF Inv, ValuesSurvive
    <3>6. \A k \in 0 .. (get_value_size(q) - 1) :
            block'[get_value(q) + k] = ByteOf(latest[q], k)
      BY <1>1, <1>4, <3>2, <3>4, <3>5
    <3> QED BY <1>1, <1>2, <3>1, <3>2, <3>3, <3>6
  <2> QED BY <2>1, <2>2
<1>8. \A b \in 0 .. (header_size - 1) : block'[b] = HeaderByte
  <2>1. header_size <= start
    BY DEF Inv, Placed
  <2>2. \A b \in 0 .. (header_size - 1) : b \in Offsets /\ b < start
    BY <1>1, <2>1, BytesReach
  <2>3. \A b \in 0 .. (header_size - 1) : block'[b] = block[b]
    BY <1>1, <1>4, <2>2
  <2> QED BY <2>3 DEF Inv, ValuesSurvive
<1>9. ValuesSurvive'
  BY <1>7, <1>8 DEF ValuesSurvive, header_size
<1>10. Placed'
  <2>1. ASSUME NEW b \in Offsets, block'[b] # Unwritten
        PROVE  b < end_of_params'
    <3>1. b \in Nat
      BY BytesReach
    <3>2. CASE b < last
      BY <1>2, <3>2
    <3>3. CASE ~(b < last)
      <4>1. block'[b] = block[b]
        BY <1>4, <3>3
      <4>2. b < start
        BY <2>1, <4>1 DEF Inv, Placed
      <4> QED BY <1>1, <1>2, <3>1, <4>2
    <3> QED BY <3>2, <3>3
  <2>2. Unwritten' = Unwritten /\ Offsets' = Offsets
    BY DEF Unwritten, ByteOf, Offsets, header_size, MostBytes
  <2> QED BY <1>2, <1>7, <2>1, <2>2 DEF Placed, header_size, MostBytes
<1> QED BY <1>6, <1>9, <1>10 DEF Inv

(* The inductive invariant holds after every call. *)
THEOREM InvHolds == Spec => []Inv
<1>1. Inv /\ [Next]_vars => Inv'
  <2> SUFFICES ASSUME Inv, [Next]_vars PROVE Inv'
    OBVIOUS
  <2>1. CASE Next
    BY <2>1, SetValueInv DEF Next
  <2>2. CASE UNCHANGED vars
    BY <2>2 DEF vars, Inv, TypeOK, ValuesSurvive, Placed, get_value, get_value_size
  <2> QED BY <2>1, <2>2
<1> QED BY <1>1, InitInv, PTL DEF Spec

-----------------------------------------------------------------------------
(* The properties. *)

(* The header's fields, the place of the next value and the block keep     *)
(* their types: the offsets stay within what so many calls can write.      *)
THEOREM TypeCorrect == Spec => []TypeOK
BY InvHolds, PTL DEF Inv

(* A reader finds, for every parameter, the bytes of the call that set it   *)
(* last, whatever was set since, and nothing ever writes into the header:  *)
(* set_value only appends, so that no value can lie on another one.        *)
THEOREM ValuesAlwaysSurvive == Spec => []ValuesSurvive
BY InvHolds, PTL DEF Inv

(* Nothing is written past the end of the block as long as the place of    *)
(* the next value is within it: this is all that set_value would have to   *)
(* look at.                                                                *)
StaysInBlockWhileItFits == end_of_params <= shared_mem_size => StaysInBlock

THEOREM StaysWhileItFits == Spec => []StaysInBlockWhileItFits
<1>1. Inv => StaysInBlockWhileItFits
  <2> SUFFICES ASSUME Inv, end_of_params <= shared_mem_size,
                      NEW b \in Offsets, block[b] # Unwritten
               PROVE  b < shared_mem_size
    BY DEF StaysInBlockWhileItFits, StaysInBlock
  <2>1. b < end_of_params
    BY DEF Inv, Placed
  <2>2. b \in Nat /\ end_of_params \in Nat /\ shared_mem_size \in Nat
    BY BytesReach, MessageAssumption DEF Inv, TypeOK
  <2> QED BY <2>1, <2>2
<1> QED BY <1>1, InvHolds, PTL

=============================================================================
