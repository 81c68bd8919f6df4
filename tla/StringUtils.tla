------------------------------ MODULE StringUtils ------------------------------
(***************************************************************************)
(* The conversion of numbers to strings                                    *)
(* (source/kernel/source/string_utils.cpp) in a buffer of the caller's,    *)
(* one loop iteration per step.  int_to_string writes the digits from the  *)
(* end of the buffer and then moves them to its start, over themselves.    *)
(* ptr_to_hex_string is int_to_hex_string.                                 *)
(***************************************************************************)
EXTENDS Integers

CONSTANTS
  Nibbles,       \* hexadecimal digits of an unsigned: 8
  LastDigit,     \* index of the last decimal digit: 9
  BufferSize     \* size of the caller's buffer: 11

unsigned == 0 .. 16^Nibbles - 1

(* An unsigned has at most LastDigit + 1 decimal digits, and the buffer has *)
(* room for either numeral and the null behind it.                         *)
ASSUME BufferAssumption ==
  /\ Nibbles \in Nat \ {0} /\ LastDigit \in Nat /\ BufferSize \in Nat
  /\ 16^Nibbles <= 10^(LastDigit + 1)
  /\ BufferSize >= LastDigit + 2
  /\ BufferSize >= Nibbles + 3

VARIABLES
  conversion,    \* the loop that runs, or "none"
  value,         \* what is left to convert
  str,           \* the buffer
  cur_conv,      \* where the next digit is stored, or taken from
  cur_align,     \* where the next digit is moved to
  i              \* the number of the nibble

string_vars == <<conversion, value, str, cur_conv, cur_align, i>>

BufferIndex == 0 .. BufferSize - 1

StringTypeOK ==
  /\ conversion \in {"none", "digits", "align", "nibbles"}
  /\ value \in unsigned
  /\ str \in [BufferIndex -> 0 .. 255]
  /\ cur_conv \in 0 .. LastDigit + 1
  /\ cur_align \in BufferIndex
  /\ i \in 0 .. Nibbles

int_to_string(number) ==
  /\ conversion' = "digits"
  /\ value' = number
  /\ cur_conv' = LastDigit
  /\ UNCHANGED <<str, cur_align, i>>

StoreDigit ==
  /\ conversion = "digits"
  /\ str' = [str EXCEPT ![cur_conv] = 48 + (value % 10)]
  /\ value' = value \div 10
  /\ IF value' > 0
     THEN /\ cur_conv' = cur_conv - 1
          /\ UNCHANGED <<conversion, cur_align>>
     ELSE /\ cur_align' = 0
          /\ conversion' = "align"
          /\ UNCHANGED cur_conv
  /\ UNCHANGED i

AlignDigit ==
  /\ conversion = "align"
  /\ cur_conv <= LastDigit
  /\ str' = [str EXCEPT ![cur_align] = str[cur_conv]]
  /\ cur_align' = cur_align + 1
  /\ cur_conv' = cur_conv + 1
  /\ UNCHANGED <<conversion, value, i>>

DigitsDone ==
  /\ conversion = "align"
  /\ cur_conv > LastDigit
  /\ str' = [str EXCEPT ![cur_align] = 0]
  /\ conversion' = "none"
  /\ UNCHANGED <<value, cur_conv, cur_align, i>>

nibble_to_hex_at_nine(nibble) == IF nibble < 9 THEN 48 + nibble ELSE 65 + (nibble - 10)

nibble_to_hex(nibble) == IF nibble <= 9 THEN 48 + nibble ELSE 65 + (nibble - 10)

int_to_hex_string(number) ==
  /\ conversion' = "nibbles"
  /\ value' = number
  /\ str' = [str EXCEPT ![0] = 48, ![1] = 120]
  /\ i' = 0
  /\ UNCHANGED <<cur_conv, cur_align>>

NextNibbleNever == UNCHANGED i

NextNibble == i' = i + 1

StoreNibble ==
  /\ conversion = "nibbles"
  /\ i < Nibbles
  /\ LET nibble == (value \div 16^(Nibbles - 1 - i)) % 16
     IN  str' = [str EXCEPT ![2 + i] = nibble_to_hex(nibble)]
  /\ NextNibble
  /\ UNCHANGED <<conversion, value, cur_conv, cur_align>>

NibblesDone ==
  /\ conversion = "nibbles"
  /\ i = Nibbles
  /\ str' = [str EXCEPT ![2 + Nibbles] = 0]
  /\ conversion' = "none"
  /\ UNCHANGED <<value, cur_conv, cur_align, i>>

Convert == StoreDigit \/ AlignDigit \/ DigitsDone \/ StoreNibble \/ NibblesDone

=============================================================================
