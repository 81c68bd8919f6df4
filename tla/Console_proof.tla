----------------------------- MODULE Console_proof -----------------------------
(***************************************************************************)
(* What holds of the screen for every size of it and every text, and of    *)
(* the conversions for every number of 32 bits: what appears on the screen *)
(* is the text, a numeral in it is the number, and printing comes to an    *)
(* end.                                                                    *)
(***************************************************************************)
EXTENDS Console, TLAPS

-----------------------------------------------------------------------------
(* The cells of the screen. *)

LEMMA Screen ==
  /\ VGA_WIDTH \in Nat \ {0} /\ VGA_HEIGHT \in Nat \ {0}
  /\ VGA_WIDTH * VGA_HEIGHT \in Nat
BY ScreenAssumption

(* Rows are as far apart as they are wide. *)
LEMMA Rows ==
  ASSUME NEW a \in Int, NEW b \in Int, a < b
  PROVE  a * VGA_WIDTH + VGA_WIDTH <= b * VGA_WIDTH
<1>1. PICK k \in Nat : b = a + 1 + k
  <2>1. b - a - 1 \in Nat /\ b = a + 1 + (b - a - 1)
    OBVIOUS
  <2> QED BY <2>1
<1>2. b * VGA_WIDTH = a * VGA_WIDTH + VGA_WIDTH + k * VGA_WIDTH
  BY <1>1, Screen
<1>3. k * VGA_WIDTH >= 0
  BY Screen
<1> QED BY <1>2, <1>3, Screen

(* A row and a column of the screen are a cell, and the cell has that row. *)
LEMMA CellOf ==
  ASSUME NEW y \in 0 .. VGA_HEIGHT - 1, NEW x \in 0 .. VGA_WIDTH - 1
  PROVE  /\ y * VGA_WIDTH + x \in Cells
         /\ y * VGA_WIDTH + x \in Nat
         /\ y * VGA_WIDTH + VGA_WIDTH <= VGA_WIDTH * VGA_HEIGHT
         /\ (y * VGA_WIDTH + x) \div VGA_WIDTH = y
<1>1. y \in Nat /\ y < VGA_HEIGHT /\ x \in Nat /\ x < VGA_WIDTH
  BY Screen
<1>2. PICK first \in Nat, end \in Nat : first = y * VGA_WIDTH /\ end = VGA_WIDTH * VGA_HEIGHT
  BY <1>1, Screen
<1>3. first + VGA_WIDTH <= end
  <2>1. y * VGA_WIDTH + VGA_WIDTH <= VGA_HEIGHT * VGA_WIDTH
    BY <1>1, Rows, Screen
  <2>2. VGA_HEIGHT * VGA_WIDTH = VGA_WIDTH * VGA_HEIGHT
    BY Screen
  <2> QED BY <1>2, <2>1, <2>2
<1>4. first + x \in 0 .. end - 1
  BY <1>1, <1>2, <1>3, Screen
<1>5. (y * VGA_WIDTH + x) \div VGA_WIDTH = y
  BY <1>1, Screen
<1> QED BY <1>2, <1>3, <1>4, <1>5 DEF Cells

(* The row below, by its first cell. *)
LEMMA RowBelowIs ==
  ASSUME terminal_row \in 0 .. VGA_HEIGHT - 1
  PROVE  /\ RowBelow \in 0 .. VGA_HEIGHT - 1
         /\ RowBelow * VGA_WIDTH
              = (terminal_row * VGA_WIDTH + VGA_WIDTH) % (VGA_WIDTH * VGA_HEIGHT)
<1>1. PICK first \in Nat, end \in Nat :
        first = terminal_row * VGA_WIDTH /\ end = VGA_WIDTH * VGA_HEIGHT
  BY Screen
<1>2. terminal_row \in Nat /\ terminal_row < VGA_HEIGHT
  BY Screen
<1>3. CASE terminal_row + 1 = VGA_HEIGHT
  <2>1. RowBelow = 0
    BY <1>3 DEF RowBelow
  <2>2. first + VGA_WIDTH = end
    <3>1. (terminal_row + 1) * VGA_WIDTH = first + VGA_WIDTH
      BY <1>1, <1>2, Screen
    <3>2. VGA_HEIGHT * VGA_WIDTH = end
      BY <1>1, Screen
    <3> QED BY <1>3, <3>1, <3>2
  <2>3. end > 0 /\ end % end = 0
    BY <1>1, <2>2, Screen
  <2>4. 0 * VGA_WIDTH = 0
    BY Screen
  <2> QED BY <1>1, <2>1, <2>2, <2>3, <2>4, Screen
<1>4. CASE terminal_row + 1 # VGA_HEIGHT
  <2>1. RowBelow = terminal_row + 1 /\ RowBelow \in 0 .. VGA_HEIGHT - 1
    BY <1>2, <1>4, Screen DEF RowBelow
  <2>2. RowBelow * VGA_WIDTH = first + VGA_WIDTH
    BY <1>1, <1>2, <2>1, Screen
  <2>3. first + VGA_WIDTH < end
    <3>1. RowBelow * VGA_WIDTH + VGA_WIDTH <= end
      BY <1>1, <2>1, CellOf, Screen
    <3> QED BY <1>1, <2>2, <3>1, Screen
  <2>4. (first + VGA_WIDTH) % end = first + VGA_WIDTH
    BY <1>1, <2>3, Screen
  <2> QED BY <1>1, <2>1, <2>2, <2>4
<1> QED BY <1>3, <1>4

-----------------------------------------------------------------------------
(* The cursor, and the characters that it leaves behind. *)

CursorOnScreen ==
  /\ terminal_row \in 0 .. VGA_HEIGHT - 1
  /\ terminal_column \in 0 .. VGA_WIDTH - 1

(* A character goes where the ring of cells has it, and the cursor stays on *)
(* the screen.                                                             *)
LEMMA PutIs ==
  ASSUME CursorOnScreen, NEW c, terminal_putchar(c)
  PROVE  CursorOnScreen' /\ Ring' = Laid(terminal_color, Ring, c)
<1>1. PICK y \in 0 .. VGA_HEIGHT - 1, x \in 0 .. VGA_WIDTH - 1 :
        y = terminal_row /\ x = terminal_column
  BY DEF CursorOnScreen
<1>2. PICK at \in Nat, size \in Nat : at = y * VGA_WIDTH + x /\ size = VGA_WIDTH * VGA_HEIGHT
  BY CellOf, Screen
<1>3. at \div VGA_WIDTH = y /\ y \in Nat /\ x \in Nat /\ x < VGA_WIDTH
  BY <1>2, CellOf, Screen
<1>4. RowBelow \in 0 .. VGA_HEIGHT - 1
      /\ RowBelow * VGA_WIDTH = (y * VGA_WIDTH + VGA_WIDTH) % size
  BY <1>1, <1>2, RowBelowIs
<1>5. Ring = [cells |-> terminal_buffer, at |-> at]
  BY <1>1, <1>2 DEF Ring
<1>6. CASE c = Newline
  <2>1. terminal_row' = RowBelow /\ terminal_column' = 0 /\ terminal_buffer' = terminal_buffer
    BY <1>6 DEF terminal_putchar, BreakLine
  <2>2. CursorOnScreen'
    BY <1>4, <2>1, Screen DEF CursorOnScreen
  <2>3. terminal_row' * VGA_WIDTH + terminal_column' = ((y + 1) * VGA_WIDTH) % size
    <3>1. (y + 1) * VGA_WIDTH = y * VGA_WIDTH + VGA_WIDTH
      BY <1>3, Screen
    <3>2. RowBelow * VGA_WIDTH \in Int
      BY <1>4, Screen
    <3> QED BY <1>4, <2>1, <3>1, <3>2
  <2>4. Laid(terminal_color, Ring, c) = [cells |-> terminal_buffer, at |-> ((y + 1) * VGA_WIDTH) % size]
    BY <1>2, <1>3, <1>5, <1>6 DEF Laid
  <2>5. Ring' = [cells |-> terminal_buffer, at |-> ((y + 1) * VGA_WIDTH) % size]
    BY <2>1, <2>3 DEF Ring
  <2> QED BY <2>2, <2>4, <2>5
<1>7. CASE c # Newline
  <2>1. /\ terminal_buffer' = [terminal_buffer EXCEPT ![at] = vga_entry(c, terminal_color)]
        /\ x + 1 = VGA_WIDTH => terminal_column' = 0 /\ terminal_row' = RowBelow
        /\ x + 1 # VGA_WIDTH => terminal_column' = x + 1 /\ terminal_row' = y
    BY <1>1, <1>2, <1>7 DEF terminal_putchar, PutCharacter, terminal_putentryat
  <2>2. CursorOnScreen'
    <3>1. CASE x + 1 = VGA_WIDTH
      BY <1>4, <2>1, <3>1, Screen DEF CursorOnScreen
    <3>2. CASE x + 1 # VGA_WIDTH
      <4>1. x + 1 \in 0 .. VGA_WIDTH - 1
        BY <1>3, <3>2, Screen
      <4> QED BY <2>1, <3>2, <4>1 DEF CursorOnScreen
    <3> QED BY <3>1, <3>2
  <2>3. terminal_row' * VGA_WIDTH + terminal_column' = (at + 1) % size
    <3>1. PICK first \in Nat : first = y * VGA_WIDTH
      BY <1>3, Screen
    <3>2. at = first + x /\ first + VGA_WIDTH <= size
      BY <1>2, <3>1, CellOf
    <3>3. CASE x + 1 = VGA_WIDTH
      <4>1. at + 1 = y * VGA_WIDTH + VGA_WIDTH
        BY <1>3, <3>1, <3>2, <3>3
      <4>2. RowBelow * VGA_WIDTH \in Int
        BY <1>4, Screen
      <4> QED BY <1>4, <2>1, <3>3, <4>1, <4>2
    <3>4. CASE x + 1 # VGA_WIDTH
      <4>1. at + 1 < size
        BY <1>2, <1>3, <3>1, <3>2, <3>4, Screen
      <4>2. (at + 1) % size = at + 1
        BY <1>2, <4>1
      <4>3. terminal_row' * VGA_WIDTH + terminal_column' = first + (x + 1)
        BY <2>1, <3>1, <3>4
      <4> QED BY <1>2, <1>3, <3>1, <3>2, <4>2, <4>3
    <3> QED BY <3>3, <3>4
  <2>4. Laid(terminal_color, Ring, c) = [cells |-> [terminal_buffer EXCEPT ![at] = vga_entry(c, terminal_color)],
                         at |-> (at + 1) % size]
    BY <1>2, <1>5, <1>7 DEF Laid
  <2>5. Ring' = [cells |-> terminal_buffer', at |-> (at + 1) % size]
    BY <2>3 DEF Ring
  <2> QED BY <2>1, <2>2, <2>4, <2>5
<1> QED BY <1>6, <1>7

(* Only terminal_initialize and the characters move the cursor. *)
LEMMA CursorStep ==
  ASSUME CursorOnScreen, [Next]_vars PROVE CursorOnScreen'
<1>1. CASE Start
  BY <1>1, Screen DEF Start, terminal_initialize, CursorOnScreen
<1>2. CASE WriteOn
  BY <1>2, PutIs DEF WriteOn
<1>3. CASE SetColor
  BY <1>3 DEF SetColor, terminal_setcolor, CursorOnScreen
<1>4. CASE ConvertOn \/ WriteNumber \/ WriteDone \/ WriteText \/ ConvertNumber \/ UNCHANGED vars
  BY <1>4 DEF ConvertOn, WriteNumber, WriteDone, WriteText, ConvertNumber, vars,
     terminal_vars, CursorOnScreen
<1> QED BY <1>1, <1>2, <1>3, <1>4 DEF Next, Printing

LEMMA CursorStays == Spec => []CursorOnScreen
<1>1. Init => CursorOnScreen
  BY Screen DEF Init, CursorOnScreen
<1>2. CursorOnScreen /\ [Next]_vars => CursorOnScreen'
  BY CursorStep
<1> QED BY <1>1, <1>2, PTL DEF Spec

(* A text that begins is written to the screen as it then is, and each step *)
(* that goes on with it puts its next character behind the ones before, on *)
(* the ring of cells, and changes nothing else.                            *)
TextGrows ==
  /\ doing # "write" /\ doing' = "write" =>
       written' = 0 /\ before' = Ring /\ Ring' = Ring
  /\ doing = "write" /\ doing' = "write" =>
       /\ written < Len(text)
       /\ written' = written + 1
       /\ Ring' = Laid(terminal_color, Ring, text[written + 1])
       /\ UNCHANGED <<text, before>>

(* For every screen and every text, what each step of the writing does is  *)
(* what laid, from which TextAppearsInOrder is made, has for its next one. *)
THEOREM TextKeepsGrowing == Spec => [][TextGrows]_vars
<1>1. CursorOnScreen /\ [Next]_vars => [TextGrows]_vars
  <2> SUFFICES ASSUME CursorOnScreen, Next PROVE TextGrows
    BY DEF TextGrows
  <2>1. CASE WriteOn
    BY <2>1, PutIs DEF WriteOn, TextGrows
  <2>2. CASE WriteText
    BY <2>2 DEF WriteText, Called, terminal_writestring, terminal_vars, Ring, TextGrows
  <2>3. CASE WriteNumber
    BY <2>3 DEF WriteNumber, terminal_writestring, terminal_vars, Ring, TextGrows
  <2>4. CASE Start \/ WriteDone \/ ConvertNumber
    BY <2>4 DEF Start, WriteDone, ConvertNumber, TextGrows
  <2>5. CASE ConvertOn \/ SetColor
    BY <2>5 DEF ConvertOn, SetColor, Called, TextGrows
  <2> QED BY <2>1, <2>2, <2>3, <2>4, <2>5 DEF Next, Printing
<1> QED BY <1>1, CursorStays, PTL DEF Spec

-----------------------------------------------------------------------------
(* The conversions stay in their buffer. *)

(* The sizes that string_utils.cpp has for an unsigned of 32 bits; main.cpp *)
(* has the buffer.                                                         *)
KernelSizes == Nibbles = 8 /\ LastDigit = 9

(* The powers of ten that have as many zeros as their place in the list. *)
Powers ==
  <<10, 100, 1000, 10000, 100000, 1000000, 10000000, 100000000, 1000000000, 10000000000>>

(* The digits that are left fit before the place of the next one; those    *)
(* that are moved fit behind the place they are moved to; and when a       *)
(* conversion is done, a null ends its numeral.                            *)
Room ==
  /\ conversion = "digits" => cur_conv \in 0 .. LastDigit /\ value < Powers[cur_conv + 1]
  /\ conversion = "align" => cur_align <= cur_conv
  /\ doing = "convert" /\ conversion = "none" => \E k \in 0 .. 10 : str[k] = 0
  /\ conversion # "none" => doing = "convert"
  /\ text \in Seq(Byte)

LEMMA Sizes ==
  ASSUME KernelSizes
  PROVE  /\ Nibbles = 8 /\ LastDigit = 9 /\ BufferSize \in Nat /\ BufferSize >= 11
         /\ 0 .. 10 \subseteq BufferIndex /\ BufferIndex \subseteq Nat
<1>1. Nibbles = 8 /\ LastDigit = 9
  BY DEF KernelSizes
<1>2. BufferSize \in Nat /\ BufferSize >= 11
  BY <1>1, BufferAssumption
<1> QED BY <1>1, <1>2 DEF BufferIndex

(* Ten digits are enough for an unsigned. *)
LEMMA Unsigned ==
  ASSUME KernelSizes
  PROVE  \E most \in Nat : unsigned = 0 .. most /\ most < Powers[10]
<1>1. PICK full \in Nat : full = 16^Nibbles /\ 0 < full /\ full < Powers[10]
  BY SMT, Sizes DEF Powers
<1>2. unsigned = 0 .. full - 1
  BY <1>1 DEF unsigned
<1>3. Powers[10] \in Nat
  BY SMT DEF Powers
<1> QED BY <1>1, <1>2, <1>3

(* One digit less is left for one place less. *)
LEMMA DigitLeft ==
  ASSUME NEW c \in 0 .. 9, NEW n \in Nat, n < Powers[c + 1]
  PROVE  /\ n \div 10 \in Nat /\ n \div 10 <= n /\ n % 10 \in 0 .. 9
         /\ n \div 10 > 0 => c - 1 \in 0 .. 9 /\ n \div 10 < Powers[(c - 1) + 1]
BY SMT DEF Powers

LEMMA DigitStored ==
  ASSUME KernelSizes, StringTypeOK, Room, StoreDigit
  PROVE  /\ StringTypeOK'
         /\ conversion' = "digits" => cur_conv' \in 0 .. LastDigit /\ value' < Powers[cur_conv' + 1]
         /\ conversion' = "align" => cur_align' <= cur_conv'
         /\ conversion' # "none"
<1>1. conversion = "digits" /\ str' = [str EXCEPT ![cur_conv] = 48 + (value % 10)]
      /\ value' = value \div 10 /\ i' = i
  BY DEF StoreDigit
<1>2. PICK c \in 0 .. 9, n \in Nat : c = cur_conv /\ n = value /\ n < Powers[c + 1]
  <2>1. cur_conv \in 0 .. LastDigit /\ value < Powers[cur_conv + 1]
    BY <1>1 DEF Room
  <2>2. value \in Nat
    <3>1. value \in unsigned
      BY DEF StringTypeOK
    <3> QED BY <3>1, Unsigned
  <2>3. LastDigit = 9
    BY Sizes
  <2> QED BY ONLY <2>1, <2>2, <2>3
<1>3. /\ n \div 10 \in Nat /\ n \div 10 <= n /\ n % 10 \in 0 .. 9
      /\ n \div 10 > 0 => c - 1 \in 0 .. 9 /\ n \div 10 < Powers[(c - 1) + 1]
  BY <1>2, DigitLeft
<1>4. value' \in unsigned
  BY <1>1, <1>2, <1>3, Unsigned DEF StringTypeOK
<1>5. str' \in [BufferIndex -> 0 .. 255]
  <2>1. 48 + (n % 10) \in 0 .. 255
    BY <1>3
  <2>2. str \in [BufferIndex -> 0 .. 255]
    BY DEF StringTypeOK
  <2> QED BY <1>1, <1>2, <2>1, <2>2
<1>6. CASE value' > 0
  <2>1. cur_conv' = cur_conv - 1 /\ conversion' = conversion /\ cur_align' = cur_align
    BY <1>6 DEF StoreDigit
  <2>2. cur_conv' = c - 1 /\ c - 1 \in 0 .. 9 /\ value' < Powers[cur_conv' + 1]
    BY <1>1, <1>2, <1>3, <1>6, <2>1
  <2>3. cur_conv' \in 0 .. LastDigit /\ cur_conv' \in 0 .. LastDigit + 1
    BY <2>2, Sizes
  <2> QED BY <1>1, <1>4, <1>5, <2>1, <2>2, <2>3 DEF StringTypeOK
<1>7. CASE ~(value' > 0)
  <2>1. cur_align' = 0 /\ conversion' = "align" /\ cur_conv' = cur_conv
    BY <1>7 DEF StoreDigit
  <2>2. 0 \in BufferIndex /\ 0 <= cur_conv
    BY <1>2, Sizes
  <2> QED BY <1>1, <1>4, <1>5, <2>1, <2>2 DEF StringTypeOK
<1> QED BY <1>6, <1>7

LEMMA DigitMoved ==
  ASSUME KernelSizes, StringTypeOK, Room, AlignDigit
  PROVE  StringTypeOK' /\ conversion' = "align" /\ cur_align' <= cur_conv'
<1>1. /\ conversion = "align" /\ cur_conv <= LastDigit
      /\ str' = [str EXCEPT ![cur_align] = str[cur_conv]]
      /\ cur_align' = cur_align + 1 /\ cur_conv' = cur_conv + 1
      /\ UNCHANGED <<conversion, value, i>>
  BY DEF AlignDigit
<1>2. PICK c \in 0 .. 9, a \in 0 .. 9 : c = cur_conv /\ a = cur_align /\ a <= c
  <2>1. cur_conv \in 0 .. 10 /\ cur_align \in Nat
    BY Sizes DEF StringTypeOK
  <2>2. cur_align <= cur_conv /\ cur_conv <= 9
    BY <1>1, Sizes DEF Room
  <2> QED BY <2>1, <2>2
<1>3. a + 1 \in BufferIndex /\ c + 1 \in 0 .. LastDigit + 1 /\ c \in BufferIndex
  BY Sizes
<1>4. str' \in [BufferIndex -> 0 .. 255]
  <2>1. str \in [BufferIndex -> 0 .. 255]
    BY DEF StringTypeOK
  <2> QED BY <1>1, <1>2, <1>3, <2>1
<1>5. cur_align' \in BufferIndex /\ cur_conv' \in 0 .. LastDigit + 1 /\ cur_align' <= cur_conv'
  BY <1>1, <1>2, <1>3
<1> QED BY <1>1, <1>4, <1>5 DEF StringTypeOK

(* The null behind the digits is in the buffer. *)
LEMMA DigitsEnd ==
  ASSUME KernelSizes, StringTypeOK, Room, DigitsDone
  PROVE  StringTypeOK' /\ conversion' = "none" /\ \E k \in 0 .. 10 : str'[k] = 0
<1>1. /\ str' = [str EXCEPT ![cur_align] = 0] /\ conversion' = "none"
      /\ UNCHANGED <<value, cur_conv, cur_align, i>>
  BY DEF DigitsDone
<1>2. str \in [BufferIndex -> 0 .. 255] /\ cur_align \in BufferIndex
  BY DEF StringTypeOK
<1>3. str' \in [BufferIndex -> 0 .. 255] /\ str'[cur_align] = 0
  BY <1>1, <1>2
<1>4. cur_align \in 0 .. 10
  <2>1. cur_align <= cur_conv /\ cur_conv \in 0 .. LastDigit + 1
    BY DEF Room, DigitsDone, StringTypeOK
  <2> QED BY <1>2, <2>1, Sizes
<1> QED BY <1>1, <1>2, <1>3, <1>4 DEF StringTypeOK

(* A nibble has a digit, and the digit a place. *)
LEMMA NibbleStored ==
  ASSUME KernelSizes, StringTypeOK, StoreNibble
  PROVE  StringTypeOK' /\ conversion' = "nibbles"
<1>1. PICK k \in 0 .. 7, n \in Nat : k = i /\ n = value /\ i' = k + 1
  BY Sizes, Unsigned DEF StoreNibble, NextNibble, StringTypeOK
<1>2. 16^(Nibbles - 1 - k) \in Nat \ {0}
  <2>1. Nibbles - 1 - k = 7 - k /\ 7 - k \in 0 .. 7
    BY Sizes
  <2>2. 7 - k = 0 \/ 7 - k = 1 \/ 7 - k = 2 \/ 7 - k = 3 \/ 7 - k = 4 \/ 7 - k = 5 \/ 7 - k = 6 \/ 7 - k = 7
    BY <2>1
  <2>3. {16^0, 16^1, 16^2, 16^3, 16^4, 16^5, 16^6, 16^7} \subseteq Nat \ {0}
    OBVIOUS
  <2>4. 16^(7 - k) \in {16^0, 16^1, 16^2, 16^3, 16^4, 16^5, 16^6, 16^7}
    BY <2>2
  <2> QED BY <2>1, <2>3, <2>4
<1>3. PICK nibble \in 0 .. 15 : nibble = (value \div 16^(Nibbles - 1 - i)) % 16
  <2>1. PICK d \in Nat \ {0} : d = 16^(Nibbles - 1 - k)
    BY <1>2
  <2>2. n \div d \in Int
    BY <2>1
  <2>3. (n \div d) % 16 \in 0 .. 15
    BY <2>2
  <2> QED BY <1>1, <2>1, <2>3
<1>4. nibble_to_hex(nibble) \in 0 .. 255
  BY DEF nibble_to_hex
<1>5. str' = [str EXCEPT ![2 + i] = nibble_to_hex(nibble)]
      /\ conversion = "nibbles" /\ UNCHANGED <<conversion, value, cur_conv, cur_align>>
  BY <1>3 DEF StoreNibble
<1>6. str' \in [BufferIndex -> 0 .. 255]
  BY <1>4, <1>5 DEF StringTypeOK
<1>7. i' \in 0 .. Nibbles
  BY <1>1, Sizes
<1> QED BY <1>5, <1>6, <1>7 DEF StringTypeOK

LEMMA NibblesEnd ==
  ASSUME KernelSizes, StringTypeOK, NibblesDone
  PROVE  StringTypeOK' /\ conversion' = "none" /\ \E k \in 0 .. 10 : str'[k] = 0
<1>1. /\ str' = [str EXCEPT ![2 + Nibbles] = 0] /\ conversion' = "none"
      /\ UNCHANGED <<value, cur_conv, cur_align, i>>
  BY DEF NibblesDone
<1>2. 2 + Nibbles \in BufferIndex
  BY Sizes
<1>3. str \in [BufferIndex -> 0 .. 255]
  BY DEF StringTypeOK
<1>4. str' \in [BufferIndex -> 0 .. 255] /\ str'[2 + Nibbles] = 0
  BY <1>1, <1>2, <1>3
<1>5. 2 + Nibbles \in 0 .. 10
  BY Sizes
<1> QED BY <1>1, <1>4, <1>5 DEF StringTypeOK

-----------------------------------------------------------------------------
(* The types. *)

(* The screen keeps characters and colours that are bytes. *)
LEMMA PutTypes ==
  ASSUME CursorOnScreen, terminal_color \in Byte,
         terminal_buffer \in [Cells -> [char : Byte, color : Byte]],
         NEW c \in Byte, terminal_putchar(c)
  PROVE  /\ terminal_color' \in Byte
         /\ terminal_buffer' \in [Cells -> [char : Byte, color : Byte]]
<1>1. vga_entry(c, terminal_color) \in [char : Byte, color : Byte]
  BY DEF vga_entry
<1>2. PICK at \in Cells : at = terminal_row * VGA_WIDTH + terminal_column
  BY CellOf DEF CursorOnScreen
<1>3. \/ terminal_buffer' = [terminal_buffer EXCEPT ![at] = vga_entry(c, terminal_color)]
      \/ terminal_buffer' = terminal_buffer
  BY <1>2 DEF terminal_putchar, PutCharacter, BreakLine, terminal_putentryat
<1>4. terminal_color' = terminal_color
  BY DEF terminal_putchar
<1> QED BY <1>1, <1>3, <1>4

(* The first null of a buffer that has one in its first eleven characters. *)
LEMMA FirstNull ==
  ASSUME NEW nulls \in SUBSET Nat, \E k \in 0 .. 10 : k \in nulls
  PROVE  Min(nulls) \in nulls
<1>1. PICK below : below = {m \in Nat : \A k \in nulls : m <= k}
  OBVIOUS
<1>2. \A m \in Nat : m \in below /\ m \notin nulls => m + 1 \in below
  BY <1>1
<1>3. 0 \in below /\ 11 \notin below
  BY <1>1
<1>4. \A m \in Nat : m \in below /\ m \in nulls => \E x \in nulls : \A y \in nulls : x <= y
  BY <1>1
<1>5. /\ 0 \in below /\ 0 \notin nulls => 1 \in below
      /\ 1 \in below /\ 1 \notin nulls => 2 \in below
      /\ 2 \in below /\ 2 \notin nulls => 3 \in below
      /\ 3 \in below /\ 3 \notin nulls => 4 \in below
      /\ 4 \in below /\ 4 \notin nulls => 5 \in below
      /\ 5 \in below /\ 5 \notin nulls => 6 \in below
      /\ 6 \in below /\ 6 \notin nulls => 7 \in below
      /\ 7 \in below /\ 7 \notin nulls => 8 \in below
      /\ 8 \in below /\ 8 \notin nulls => 9 \in below
      /\ 9 \in below /\ 9 \notin nulls => 10 \in below
      /\ 10 \in below /\ 10 \notin nulls => 11 \in below
  BY <1>2
<1>6. \E m \in Nat : m \in below /\ m \in nulls
  BY <1>3, <1>5
<1>7. \E x \in nulls : \A y \in nulls : x <= y
  BY <1>4, <1>6
<1> QED BY <1>7 DEF Min

(* The numeral in the buffer ends at its first null. *)
LEMMA Numeral ==
  ASSUME KernelSizes, StringTypeOK, \E k \in 0 .. 10 : str[k] = 0
  PROVE  strlen \in Nat /\ [k \in 1 .. strlen |-> str[k - 1]] \in Seq(Byte)
<1>1. PICK nulls : nulls = {k \in BufferIndex : str[k] = 0}
  OBVIOUS
<1>2. Min(nulls) \in nulls
  BY <1>1, FirstNull, Sizes
<1>3. PICK n \in Nat : n = strlen /\ n \in BufferIndex
  BY <1>1, <1>2, Sizes DEF strlen
<1>4. \A k \in 1 .. n : str[k - 1] \in Byte
  <2> SUFFICES ASSUME NEW k \in 1 .. n PROVE str[k - 1] \in Byte
    OBVIOUS
  <2>1. k - 1 \in BufferIndex
    BY <1>3, Sizes DEF BufferIndex
  <2>2. str \in [BufferIndex -> Byte]
    BY DEF StringTypeOK, Byte
  <2> QED BY <2>1, <2>2
<1>5. [k \in 1 .. n |-> str[k - 1]] \in Seq(Byte)
  BY <1>4
<1> QED BY <1>3, <1>5

(* The types, and what they rest on. *)
Inv == TypeOK /\ Room

LEMMA Literal == ASSUME NEW literal \in Texts PROVE literal \in Seq(Byte)
<1>1. PICK bytes : bytes = 1 .. 255
  OBVIOUS
<1>2. literal \in Seq(bytes)
  BY <1>1, ConsoleAssumption
<1>3. bytes \subseteq Byte
  BY <1>1 DEF Byte
<1>4. \A k \in 1 .. Len(literal) : literal[k] \in Byte
  BY <1>2, <1>3
<1>5. literal = [k \in 1 .. Len(literal) |-> literal[k]] /\ Len(literal) \in Nat
  BY <1>2
<1> QED BY ONLY <1>4, <1>5

LEMMA CursorTypes == TypeOK => CursorOnScreen
BY DEF TypeOK, CursorOnScreen

LEMMA CallTypes ==
  ASSUME calls \in 0 .. MaxCalls, Called PROVE calls' \in 0 .. MaxCalls
BY ConsoleAssumption DEF Called

LEMMA InitTypes == ASSUME KernelSizes, Init PROVE Inv
<1>1. StringTypeOK
  <2>1. str \in [BufferIndex -> 0 .. 255]
    BY DEF Init
  <2>2. 0 \in BufferIndex /\ 0 \in 0 .. LastDigit + 1 /\ 0 \in 0 .. Nibbles /\ 0 \in unsigned
    BY Sizes, Unsigned
  <2> QED BY <2>1, <2>2 DEF Init, StringTypeOK
<1>2. terminal_buffer \in [Cells -> [char : Byte, color : Byte]] /\ terminal_color \in Byte
  BY DEF Init, vga_entry, Byte
<1>3. text = <<>> /\ Len(text) = 0 /\ text \in Seq(Byte)
  BY DEF Init
<1>4. TypeOK
  BY <1>1, <1>2, <1>3, Screen, ConsoleAssumption DEF Init, TypeOK
<1>5. Room
  BY <1>3 DEF Init, Room
<1> QED BY <1>4, <1>5 DEF Inv

(* The conversions. *)
LEMMA ConvertTypes ==
  ASSUME KernelSizes, Inv, ConvertOn PROVE Inv'
<1>1. /\ doing = "convert" /\ Convert
      /\ UNCHANGED <<terminal_vars, doing, text, written, number, before, calls>>
  BY DEF ConvertOn
<1>2. StringTypeOK /\ Room
  BY DEF Inv, TypeOK
<1>3. /\ StringTypeOK'
      /\ conversion' = "digits" => cur_conv' \in 0 .. LastDigit /\ value' < Powers[cur_conv' + 1]
      /\ conversion' = "align" => cur_align' <= cur_conv'
      /\ conversion' = "none" => \E k \in 0 .. 10 : str'[k] = 0
  <2>1. CASE StoreDigit
    BY <1>2, <2>1, DigitStored
  <2>2. CASE AlignDigit
    BY <1>2, <2>2, DigitMoved
  <2>3. CASE DigitsDone
    BY <1>2, <2>3, DigitsEnd
  <2>4. CASE StoreNibble
    BY <1>2, <2>4, NibbleStored
  <2>5. CASE NibblesDone
    BY <1>2, <2>5, NibblesEnd
  <2> QED BY <1>1, <2>1, <2>2, <2>3, <2>4, <2>5 DEF Convert
<1>4. TypeOK'
  BY <1>1, <1>3 DEF Inv, TypeOK, terminal_vars, Cells
<1>5. Room'
  BY <1>1, <1>2, <1>3 DEF Room
<1> QED BY <1>4, <1>5 DEF Inv

LEMMA StartConversion ==
  ASSUME KernelSizes, Inv, ConvertNumber PROVE Inv'
<1>1. /\ doing' = "convert" /\ Called
      /\ UNCHANGED <<terminal_vars, text, written, before>>
  BY DEF ConvertNumber
<1>2. PICK n \in Numbers : int_to_string(n) \/ int_to_hex_string(n)
  BY DEF ConvertNumber
<1>3. n \in unsigned /\ n \in Nat /\ n < Powers[10]
  <2>1. n \in unsigned
    BY ConsoleAssumption
  <2>2. PICK most \in Nat : unsigned = 0 .. most /\ most < Powers[10]
    BY Unsigned
  <2>3. Powers[10] \in Nat
    BY SMT DEF Powers
  <2> QED BY <2>1, <2>2, <2>3
<1>4. StringTypeOK /\ Room
  BY DEF Inv, TypeOK
<1>5. /\ StringTypeOK' /\ conversion' # "none"
      /\ conversion' = "digits" => cur_conv' \in 0 .. LastDigit /\ value' < Powers[cur_conv' + 1]
      /\ conversion' # "align"
  <2>1. CASE int_to_string(n)
    <3>1. conversion' = "digits" /\ value' = n /\ cur_conv' = 9 /\ UNCHANGED <<str, cur_align, i>>
      BY <2>1, Sizes DEF int_to_string
    <3>2. 9 \in 0 .. LastDigit /\ 9 \in 0 .. LastDigit + 1 /\ cur_conv' + 1 = 10
      BY <3>1, Sizes
    <3> QED BY <1>3, <1>4, <3>1, <3>2 DEF StringTypeOK
  <2>2. CASE int_to_hex_string(n)
    <3>1. /\ conversion' = "nibbles" /\ value' = n /\ i' = 0
          /\ str' = [str EXCEPT ![0] = 48, ![1] = 120]
          /\ UNCHANGED <<cur_conv, cur_align>>
      BY <2>2 DEF int_to_hex_string
    <3>2. str \in [BufferIndex -> 0 .. 255] /\ 48 \in 0 .. 255 /\ 120 \in 0 .. 255
      BY <1>4 DEF StringTypeOK
    <3>3. PICK one : one = [str EXCEPT ![0] = 48]
      OBVIOUS
    <3>4. one \in [BufferIndex -> 0 .. 255]
      BY ONLY <3>2, <3>3
    <3>5. str' \in [BufferIndex -> 0 .. 255]
      <4>1. str' = [one EXCEPT ![1] = 120]
        BY <3>1, <3>3
      <4> QED BY ONLY <3>2, <3>4, <4>1
    <3>6. 0 \in 0 .. Nibbles
      BY Sizes
    <3>7. StringTypeOK'
      BY <1>3, <1>4, <3>1, <3>5, <3>6 DEF StringTypeOK, BufferIndex
    <3> QED BY <3>1, <3>7
  <2> QED BY <1>2, <2>1, <2>2
<1>6. TypeOK'
  <2>1. calls' \in 0 .. MaxCalls
    BY <1>1, CallTypes DEF Inv, TypeOK
  <2> QED BY <1>1, <1>5, <2>1 DEF Inv, TypeOK, terminal_vars, Cells
<1>7. Room'
  BY <1>1, <1>4, <1>5 DEF Room
<1> QED BY <1>6, <1>7 DEF Inv

(* The writing. *)
LEMMA WriteTypes ==
  ASSUME KernelSizes, Inv, WriteOn PROVE Inv'
<1>1. /\ doing = "write" /\ written < Len(text) /\ terminal_putchar(text[written + 1])
      /\ written' = written + 1
      /\ UNCHANGED <<string_vars, doing, text, number, before, calls>>
  BY DEF WriteOn
<1>2. text \in Seq(Byte) /\ written \in 0 .. Len(text)
  BY DEF Inv, TypeOK, Room
<1>3. text[written + 1] \in Byte /\ written + 1 \in 0 .. Len(text)
  BY <1>1, <1>2
<1>4. /\ terminal_color' \in Byte
      /\ terminal_buffer' \in [Cells -> [char : Byte, color : Byte]]
  BY <1>1, <1>3, PutTypes, CursorTypes DEF Inv, TypeOK
<1>5. CursorOnScreen'
  BY <1>1, PutIs, CursorTypes DEF Inv
<1>6. StringTypeOK'
  BY <1>1 DEF Inv, TypeOK, StringTypeOK, string_vars
<1>7. TypeOK'
  BY <1>1, <1>3, <1>4, <1>5, <1>6 DEF Inv, TypeOK, CursorOnScreen, Cells
<1>8. Room'
  BY <1>1 DEF Inv, Room, string_vars
<1> QED BY <1>7, <1>8 DEF Inv

LEMMA TextTypes ==
  ASSUME KernelSizes, Inv, WriteText \/ WriteNumber PROVE Inv'
<1>1. PICK data \in Seq(Byte) : terminal_writestring(data)
  <2>1. CASE WriteText
    BY <2>1, Literal DEF WriteText
  <2>2. CASE WriteNumber
    <3>1. conversion = "none" /\ doing = "convert"
          /\ terminal_writestring([k \in 1 .. strlen |-> str[k - 1]])
      BY <2>2 DEF WriteNumber
    <3>2. [k \in 1 .. strlen |-> str[k - 1]] \in Seq(Byte)
      BY <3>1, Numeral DEF Inv, TypeOK, Room
    <3> QED BY <3>1, <3>2
  <2> QED BY <2>1, <2>2
<1>2. doing' = "write" /\ text' = data /\ written' = 0 /\ 0 \in 0 .. Len(data)
  BY <1>1 DEF terminal_writestring
<1>3. UNCHANGED <<terminal_vars, string_vars>>
  BY DEF WriteText, WriteNumber
<1>4. calls' \in 0 .. MaxCalls
  BY CallTypes DEF WriteText, WriteNumber, Inv, TypeOK
<1>5. conversion = "none"
  BY DEF WriteText, WriteNumber, Called, Inv, Room
<1>6. StringTypeOK'
  BY <1>3 DEF Inv, TypeOK, StringTypeOK, string_vars
<1>7. TypeOK'
  BY <1>2, <1>3, <1>4, <1>6 DEF Inv, TypeOK, terminal_vars, Cells
<1>8. Room'
  BY <1>2, <1>3, <1>5 DEF Inv, Room, string_vars
<1> QED BY <1>7, <1>8 DEF Inv

LEMMA OtherTypes ==
  ASSUME KernelSizes, Inv, Start \/ SetColor \/ WriteDone \/ UNCHANGED vars PROVE Inv'
<1>1. StringTypeOK' /\ UNCHANGED string_vars
  BY DEF Start, SetColor, WriteDone, vars, Inv, TypeOK, StringTypeOK, string_vars
<1>2. CASE Start
  <2>1. /\ doing = "start" /\ doing' = "idle" /\ terminal_row' = 0 /\ terminal_column' = 0
        /\ UNCHANGED <<text, written, calls>>
    BY <1>2 DEF Start, terminal_initialize
  <2>2. terminal_color' \in Byte /\ terminal_buffer' \in [Cells -> [char : Byte, color : Byte]]
    BY <1>2 DEF Start, terminal_initialize, vga_entry, Space, light_grey_on_black, Byte
  <2>3. TypeOK'
    BY <1>1, <2>1, <2>2, Screen DEF Inv, TypeOK, Cells
  <2>4. Room'
    BY <1>1, <2>1 DEF Inv, Room, string_vars
  <2> QED BY <2>3, <2>4 DEF Inv
<1>3. CASE SetColor
  <2>1. PICK color \in Colors : terminal_setcolor(color)
    BY <1>3 DEF SetColor
  <2>2. color \in Byte
    BY ScreenAssumption DEF Byte
  <2>3. /\ calls' \in 0 .. MaxCalls
        /\ UNCHANGED <<doing, text, written>>
    BY <1>3, CallTypes DEF SetColor, Inv, TypeOK
  <2>4. TypeOK'
    BY <1>1, <2>1, <2>2, <2>3 DEF Inv, TypeOK, terminal_setcolor, Cells
  <2>5. Room'
    BY <1>1, <2>3 DEF Inv, Room, string_vars
  <2> QED BY <2>4, <2>5 DEF Inv
<1>4. CASE WriteDone
  <2>1. /\ doing = "write" /\ doing' = "idle" /\ text' = <<>> /\ written' = 0
        /\ UNCHANGED <<terminal_vars, calls>> /\ Len(<<>>) = 0 /\ <<>> \in Seq(Byte)
    BY <1>4 DEF WriteDone
  <2>2. TypeOK'
    BY <1>1, <2>1 DEF Inv, TypeOK, terminal_vars, Cells
  <2>3. Room'
    BY <1>1, <2>1 DEF Inv, Room, string_vars
  <2> QED BY <2>2, <2>3 DEF Inv
<1>5. CASE UNCHANGED vars
  <2>1. TypeOK'
    BY <1>1, <1>5 DEF vars, Inv, TypeOK, terminal_vars, Cells
  <2>2. Room'
    BY <1>1, <1>5 DEF vars, Inv, Room, string_vars
  <2> QED BY <2>1, <2>2 DEF Inv
<1> QED BY <1>2, <1>3, <1>4, <1>5

(* With the kernel's own sizes the conversions of all numbers of 32 bits   *)
(* stay in their buffer and end with a null, and the cursor, whatever the  *)
(* size of the screen, stays on it.                                        *)
THEOREM TypeCorrect == ASSUME KernelSizes PROVE Spec => []TypeOK
<1>1. Init => Inv
  BY InitTypes
<1>2. Inv /\ [Next]_vars => Inv'
  BY ConvertTypes, StartConversion, WriteTypes, TextTypes, OtherTypes DEF Next, Printing
<1>3. Inv => TypeOK
  BY DEF Inv
<1> QED BY <1>1, <1>2, <1>3, PTL DEF Spec

-----------------------------------------------------------------------------
(* The text on the screen, from its first character to the last one that   *)
(* is written.                                                             *)

(* A list of screens, each of which has one character more of a text. *)
Lays(g, n, color, start, data) ==
  g = [k \in 0 .. n |-> IF k = 0 THEN start ELSE Laid(color, g[k - 1], data[k])]

(* There is such a list, and every one leads to the screen as it is. *)
Shows(n, color, start, data, ring) ==
  /\ \E g : Lays(g, n, color, start, data)
  /\ \A g : Lays(g, n, color, start, data) => g[n] = ring

LEMMA NothingShown ==
  ASSUME NEW color, NEW start, NEW data PROVE Shows(0, color, start, data, start)
<1>1. Lays([k \in 0 .. 0 |-> start], 0, color, start, data)
  BY DEF Lays
<1>2. ASSUME NEW g, Lays(g, 0, color, start, data) PROVE g[0] = start
  BY <1>2 DEF Lays
<1> QED BY <1>1, <1>2 DEF Shows

(* One character more. *)
LEMMA OneMoreShown ==
  ASSUME NEW n \in Nat, NEW color, NEW start, NEW data, NEW ring,
         Shows(n, color, start, data, ring)
  PROVE  Shows(n + 1, color, start, data, Laid(color, ring, data[n + 1]))
<1>1. \E g : Lays(g, n + 1, color, start, data)
  <2>1. PICK g : Lays(g, n, color, start, data)
    BY DEF Shows
  <2>2. g = [k \in 0 .. n |-> IF k = 0 THEN start ELSE Laid(color, g[k - 1], data[k])]
    BY <2>1 DEF Lays
  <2>3. PICK h : h = [k \in 0 .. n + 1 |-> IF k = n + 1 THEN Laid(color, g[n], data[n + 1]) ELSE g[k]]
    OBVIOUS
  <2>4. ASSUME NEW k \in 0 .. n + 1
        PROVE  h[k] = IF k = 0 THEN start ELSE Laid(color, h[k - 1], data[k])
    <3>1. CASE k = 0
      <4>1. h[0] = g[0] /\ g[0] = start
        BY <2>2, <2>3
      <4> QED BY <3>1, <4>1
    <3>2. CASE k \in 1 .. n
      <4>1. k \in 0 .. n /\ k - 1 \in 0 .. n /\ k # 0 /\ k # n + 1 /\ k - 1 # n + 1 /\ k - 1 \in 0 .. n + 1
        BY <3>2
      <4>2. h[k] = g[k] /\ h[k - 1] = g[k - 1]
        BY <2>3, <4>1
      <4>3. g[k] = Laid(color, g[k - 1], data[k])
        BY <2>2, <4>1
      <4> QED BY <4>1, <4>2, <4>3
    <3>3. CASE k = n + 1
      <4>1. n \in 0 .. n + 1 /\ n # n + 1 /\ n + 1 # 0 /\ k - 1 = n
        BY <3>3
      <4>2. h[n] = g[n] /\ h[n + 1] = Laid(color, g[n], data[n + 1])
        BY <2>3, <4>1
      <4> QED BY <3>3, <4>1, <4>2
    <3> QED BY <3>1, <3>2, <3>3
  <2>5. h = [k \in 0 .. n + 1 |-> h[k]]
    BY <2>3
  <2>6. h = [k \in 0 .. n + 1 |-> IF k = 0 THEN start ELSE Laid(color, h[k - 1], data[k])]
    BY ONLY <2>4, <2>5
  <2> QED BY <2>6 DEF Lays
<1>2. ASSUME NEW h, Lays(h, n + 1, color, start, data)
      PROVE  h[n + 1] = Laid(color, ring, data[n + 1])
  <2>1. h = [k \in 0 .. n + 1 |-> IF k = 0 THEN start ELSE Laid(color, h[k - 1], data[k])]
    BY <1>2 DEF Lays
  <2>2. PICK g : g = [k \in 0 .. n |-> h[k]]
    OBVIOUS
  <2>3. ASSUME NEW k \in 0 .. n
        PROVE  g[k] = IF k = 0 THEN start ELSE Laid(color, g[k - 1], data[k])
    <3>1. k \in 0 .. n + 1 /\ (k # 0 => k - 1 \in 0 .. n)
      OBVIOUS
    <3>2. g[k] = h[k] /\ (k # 0 => g[k - 1] = h[k - 1])
      BY <2>2, <3>1
    <3>3. h[k] = IF k = 0 THEN start ELSE Laid(color, h[k - 1], data[k])
      BY <2>1, <3>1
    <3> QED BY <3>2, <3>3
  <2>4. Lays(g, n, color, start, data)
    <3>1. g = [k \in 0 .. n |-> g[k]]
      BY <2>2
    <3> QED BY ONLY <2>3, <3>1 DEF Lays
  <2>5. g[n] = ring /\ g[n] = h[n]
    BY <2>2, <2>4 DEF Shows
  <2>6. n + 1 \in 0 .. n + 1 /\ n + 1 # 0 /\ (n + 1) - 1 = n
    OBVIOUS
  <2>7. h[n + 1] = Laid(color, h[n], data[n + 1])
    BY <2>1, <2>6
  <2> QED BY <2>5, <2>7
<1> QED BY <1>1, <1>2 DEF Shows

(* The screen is what the characters written so far make of the screen     *)
(* that they began on, and it is so for the functions that laid is one of. *)
TextShown ==
  doing = "write" =>
    written \in Nat /\ Shows(written, terminal_color, before, text, Ring)

LEMMA TextIsLaid == TextShown => TextAppearsInOrder
<1> SUFFICES ASSUME TextShown, doing = "write" PROVE Ring = laid[written]
  BY DEF TextAppearsInOrder
<1>1. laid = CHOOSE g : Lays(g, written, terminal_color, before, text)
  BY DEF laid, Lays
<1>2. Lays(laid, written, terminal_color, before, text)
  BY <1>1 DEF TextShown, Shows
<1> QED BY <1>2 DEF TextShown, Shows

LEMMA TextShownStep ==
  ASSUME CursorOnScreen, TextShown, [Next]_vars PROVE TextShown'
<1>1. CASE WriteOn
  <2>1. /\ doing = "write" /\ terminal_putchar(text[written + 1]) /\ written' = written + 1
        /\ UNCHANGED <<doing, text, before>>
    BY <1>1 DEF WriteOn
  <2>2. terminal_color' = terminal_color
    BY <2>1 DEF terminal_putchar
  <2>3. Ring' = Laid(terminal_color, Ring, text[written + 1])
    BY <2>1, PutIs
  <2>4. PICK n, color, start, data, ring :
          /\ n = written /\ color = terminal_color /\ start = before /\ data = text
          /\ ring = Ring
    OBVIOUS
  <2>5. n \in Nat /\ Shows(n, color, start, data, ring)
    BY <2>1, <2>4 DEF TextShown
  <2>6. Shows(n + 1, color, start, data, Laid(color, ring, data[n + 1]))
    BY <2>5, OneMoreShown
  <2>7. /\ written' = n + 1 /\ n + 1 \in Nat /\ terminal_color' = color /\ before' = start
        /\ text' = data /\ Ring' = Laid(color, ring, data[n + 1])
    BY <2>1, <2>2, <2>3, <2>4, <2>5
  <2> QED BY <2>6, <2>7 DEF TextShown
<1>2. CASE WriteText \/ WriteNumber
  <2>1. written' = 0 /\ before' = Ring /\ Ring' = Ring /\ UNCHANGED terminal_vars
    BY <1>2 DEF WriteText, WriteNumber, terminal_writestring, Ring, terminal_vars
  <2>2. Shows(0, terminal_color', before', text', before')
    BY NothingShown
  <2> QED BY <2>1, <2>2 DEF TextShown
<1>3. CASE Start \/ WriteDone \/ SetColor \/ ConvertNumber \/ ConvertOn
  <2>1. doing' # "write"
    BY <1>3 DEF Start, WriteDone, SetColor, Called, ConvertNumber, ConvertOn
  <2> QED BY <2>1 DEF TextShown
<1>4. CASE UNCHANGED vars
  <2>1. UNCHANGED <<doing, written, terminal_color, before, text>> /\ Ring' = Ring
    BY <1>4 DEF vars, terminal_vars, Ring
  <2> QED BY <2>1 DEF TextShown
<1> QED BY <1>1, <1>2, <1>3, <1>4 DEF Next, Printing

(* For every size of the screen, every text and every numeral: what is     *)
(* written appears in order, from where the cursor was, and nothing else   *)
(* of the screen changes.                                                  *)
THEOREM TextInOrder == Spec => []TextAppearsInOrder
<1>1. Init => CursorOnScreen /\ TextShown
  <2>1. Init => doing = "start"
    BY DEF Init
  <2> QED BY <2>1, Screen DEF Init, CursorOnScreen, TextShown
<1>2. CursorOnScreen /\ TextShown /\ [Next]_vars => CursorOnScreen' /\ TextShown'
  BY CursorStep, TextShownStep
<1>3. TextShown => TextAppearsInOrder
  BY TextIsLaid
<1> QED BY <1>1, <1>2, <1>3, PTL DEF Spec

-----------------------------------------------------------------------------
(* The numerals.  The value of a string of digits is known when the values *)
(* of all its beginnings are.                                              *)

Totals(q, m, s, base) ==
  /\ m \in 0 .. 10 /\ Len(s) = m
  /\ q[0] = 0
  /\ \A k \in 1 .. m : q[k] = q[k - 1] * base + DigitOf(s[k])

LEMMA SumIs ==
  ASSUME NEW m, NEW s, NEW base, NEW q, Totals(q, m, s, base)
  PROVE  NumeralValue(s, base) = q[m]
<1> USE DEF Totals
<1> DEFINE Sums(g) == g = [k \in 0 .. m |-> IF k = 0 THEN 0 ELSE g[k - 1] * base + DigitOf(s[k])]
<1>1. \E g : Sums(g)
  <2>1. PICK g : g = [k \in 0 .. m |-> q[k]]
    OBVIOUS
  <2>2. ASSUME NEW k \in 0 .. m
        PROVE  g[k] = IF k = 0 THEN 0 ELSE g[k - 1] * base + DigitOf(s[k])
    <3>1. CASE k = 0
      BY <2>1, <3>1
    <3>2. CASE k # 0
      <4>1. k \in 1 .. m /\ k - 1 \in 0 .. m
        BY <3>2
      <4>2. g[k] = q[k] /\ g[k - 1] = q[k - 1]
        BY <2>1, <4>1
      <4>3. q[k] = q[k - 1] * base + DigitOf(s[k])
        BY <4>1
      <4> QED BY <3>2, <4>2, <4>3
    <3> QED BY <3>1, <3>2
  <2>3. g = [k \in 0 .. m |-> g[k]]
    BY <2>1
  <2>4. Sums(g)
    BY ONLY <2>2, <2>3
  <2> QED BY <2>4
<1>2. PICK sum : sum = CHOOSE g : Sums(g)
  OBVIOUS
<1>3. NumeralValue(s, base) = sum[m]
  BY <1>2 DEF NumeralValue
<1>4. sum = [k \in 0 .. m |-> IF k = 0 THEN 0 ELSE sum[k - 1] * base + DigitOf(s[k])]
  BY <1>1, <1>2
<1>5. PICK same : same = {k \in 0 .. m : sum[k] = q[k]}
  OBVIOUS
<1>6. 0 \in same
  BY <1>4, <1>5
<1>7. \A k \in 1 .. m : k - 1 \in same => k \in same
  <2> SUFFICES ASSUME NEW k \in 1 .. m, k - 1 \in same PROVE k \in same
    OBVIOUS
  <2>1. k \in 0 .. m /\ k # 0 /\ sum[k - 1] = q[k - 1]
    BY <1>5
  <2>2. sum[k] = sum[k - 1] * base + DigitOf(s[k])
    BY <1>4, <2>1
  <2>3. q[k] = q[k - 1] * base + DigitOf(s[k])
    OBVIOUS
  <2> QED BY <1>5, <2>1, <2>2, <2>3
<1>8. /\ 1 <= m => 1 \in same
      /\ 2 <= m => 2 \in same
      /\ 3 <= m => 3 \in same
      /\ 4 <= m => 4 \in same
      /\ 5 <= m => 5 \in same
      /\ 6 <= m => 6 \in same
      /\ 7 <= m => 7 \in same
      /\ 8 <= m => 8 \in same
      /\ 9 <= m => 9 \in same
      /\ 10 <= m => 10 \in same
  BY <1>6, <1>7
<1>9. m \in same
  BY <1>6, <1>8
<1> QED BY <1>3, <1>5, <1>9

(* The first null is the length. *)
LEMMA LengthIs ==
  ASSUME NEW m \in BufferIndex, KernelSizes, str[m] = 0, \A k \in 0 .. m - 1 : str[k] # 0
  PROVE  strlen = m
<1>1. PICK nulls : nulls = {k \in BufferIndex : str[k] = 0}
  OBVIOUS
<1>2. m \in nulls /\ nulls \subseteq Nat
  BY <1>1, Sizes
<1>3. \A k \in nulls : m <= k
  <2> SUFFICES ASSUME NEW k \in nulls PROVE m <= k
    OBVIOUS
  <2>1. k \in Nat /\ m \in Nat /\ str[k] = 0
    BY <1>1, <1>2
  <2> QED BY <2>1
<1>4. \A k \in nulls : (\A l \in nulls : k <= l) => k = m
  BY <1>2, <1>3
<1>5. Min(nulls) = m
  BY <1>2, <1>3, <1>4 DEF Min
<1> QED BY <1>1, <1>5 DEF strlen

(* The places of a decimal numeral, from the first to the last, with what  *)
(* the digits up to each make.                                             *)
Decimal(q, first, n) ==
  /\ q \in [first - 1 .. 9 -> Nat]
  /\ q[first - 1] = 0 /\ q[9] = n
  /\ first < 9 => q[first] > 0
  /\ \A k \in first .. 9 : q[k - 1] = q[k] \div 10

Digit(d) == 48 + (d % 10)

(* The digits behind place c are stored, and v is left. *)
Storing(c, v, n, s) ==
  /\ c < 9 => v > 0
  /\ \E q \in [c .. 9 -> Nat] :
       /\ q[c] = v /\ q[9] = n
       /\ \A k \in c + 1 .. 9 : q[k - 1] = q[k] \div 10 /\ s[k] = Digit(q[k])

(* The digits before place c are moved, the next one goes to place a. *)
Moving(c, a, n, s) ==
  \E first, q :
    /\ first \in 0 .. 9 /\ Decimal(q, first, n)
    /\ c \in first .. 10 /\ a = c - first
    /\ \A k \in first .. c - 1 : s[k - first] = Digit(q[k])
    /\ \A k \in c .. 9 : s[k] = Digit(q[k])

(* All are, and a null is behind them. *)
Moved(n, s) ==
  \E first, q :
    /\ first \in 0 .. 9 /\ Decimal(q, first, n)
    /\ \A k \in first .. 9 : s[k - first] = Digit(q[k])
    /\ s[10 - first] = 0

(* The first m digits are stored behind the 0x. *)
HexStored(m, n, s) ==
  /\ s[0] = 48 /\ s[1] = 120
  /\ \A k \in 0 .. m - 1 : s[2 + k] = nibble_to_hex((n \div 16^(Nibbles - 1 - k)) % 16)

LEMMA StoringStep ==
  ASSUME NEW B, 0 .. 10 \subseteq B, NEW S, NEW s \in [B -> S],
         NEW c \in 0 .. 9, NEW v \in Nat, NEW n, Storing(c, v, n, s),
         NEW s2, s2 = [s EXCEPT ![c] = Digit(v)]
  PROVE  /\ v \div 10 > 0 => Storing(c - 1, v \div 10, n, s2)
         /\ ~(v \div 10 > 0) => Moving(c, 0, n, s2)
<1>1. PICK q \in [c .. 9 -> Nat] :
        /\ q[c] = v /\ q[9] = n
        /\ \A k \in c + 1 .. 9 : q[k - 1] = q[k] \div 10 /\ s[k] = Digit(q[k])
  BY DEF Storing
<1>2. PICK r : r = [k \in c - 1 .. 9 |-> IF k = c - 1 THEN v \div 10 ELSE q[k]]
  OBVIOUS
<1>3. v \div 10 \in Nat /\ v = 10 * (v \div 10) + (v % 10)
  OBVIOUS
<1>4. \A k \in c .. 9 : r[k] = q[k] /\ q[k] \in Nat /\ k \in B
  <2> SUFFICES ASSUME NEW k \in c .. 9 PROVE r[k] = q[k] /\ q[k] \in Nat /\ k \in B
    OBVIOUS
  <2>1. k \in c - 1 .. 9 /\ k # c - 1 /\ k \in 0 .. 10
    OBVIOUS
  <2> QED BY <1>2, <2>1
<1>5. r[c - 1] = v \div 10 /\ c \in c .. 9 /\ 9 \in c .. 9
  BY <1>2
<1>6. r \in [c - 1 .. 9 -> Nat]
  <2> SUFFICES ASSUME NEW k \in c - 1 .. 9 PROVE r[k] \in Nat
    BY <1>2
  <2>1. k = c - 1 \/ k \in c .. 9
    OBVIOUS
  <2>2. \A l \in c .. 9 : r[l] \in Nat
    BY <1>4
  <2>3. r[c - 1] \in Nat
    BY <1>3, <1>5
  <2> QED BY ONLY <2>1, <2>2, <2>3
<1>7. \A k \in c .. 9 : r[k - 1] = r[k] \div 10 /\ s2[k] = Digit(r[k])
  <2> SUFFICES ASSUME NEW k \in c .. 9 PROVE r[k - 1] = r[k] \div 10 /\ s2[k] = Digit(r[k])
    OBVIOUS
  <2>1. CASE k = c
    <3>1. s2[c] = Digit(v)
      BY <1>4, <1>5
    <3> QED BY <1>1, <1>4, <1>5, <2>1, <3>1
  <2>2. CASE k # c
    <3>1. k \in c + 1 .. 9 /\ k - 1 \in c .. 9
      BY <2>2
    <3>2. s2[k] = s[k]
      BY <1>4, <2>2
    <3>3. r[k] = q[k] /\ r[k - 1] = q[k - 1]
      BY <1>4, <3>1
    <3> QED BY <1>1, <3>1, <3>2, <3>3
  <2> QED BY <2>1, <2>2
<1>8. r[9] = n /\ r[c] = v
  BY <1>1, <1>4, <1>5
<1>9. ASSUME v \div 10 > 0 PROVE Storing(c - 1, v \div 10, n, s2)
  <2>1. (c - 1) + 1 = c
    OBVIOUS
  <2> QED BY <1>5, <1>6, <1>7, <1>8, <1>9, <2>1 DEF Storing
<1>10. ASSUME ~(v \div 10 > 0) PROVE Moving(c, 0, n, s2)
  <2>1. v \div 10 = 0 /\ (c < 9 => v > 0)
    BY <1>3, <1>10 DEF Storing
  <2>2. Decimal(r, c, n)
    BY <1>5, <1>6, <1>7, <1>8, <2>1 DEF Decimal
  <2>3. c \in c .. 10 /\ 0 = c - c
    OBVIOUS
  <2>4. \A k \in c .. c - 1 : s2[k - c] = Digit(r[k])
    OBVIOUS
  <2>5. \A k \in c .. 9 : s2[k] = Digit(r[k])
    BY <1>7
  <2>6. /\ c \in 0 .. 9 /\ Decimal(r, c, n)
        /\ c \in c .. 10 /\ 0 = c - c
        /\ \A k \in c .. c - 1 : s2[k - c] = Digit(r[k])
        /\ \A k \in c .. 9 : s2[k] = Digit(r[k])
    BY <2>2, <2>3, <2>4, <2>5
  <2> QED BY ONLY <2>6 DEF Moving
<1> QED BY <1>9, <1>10

LEMMA MovingStep ==
  ASSUME NEW B, 0 .. 10 \subseteq B, NEW S, NEW s \in [B -> S],
         NEW c \in 0 .. 9, NEW a, NEW n, Moving(c, a, n, s),
         NEW s2, s2 = [s EXCEPT ![a] = s[c]]
  PROVE  Moving(c + 1, a + 1, n, s2)
<1>1. PICK first, q :
        /\ first \in 0 .. 9 /\ Decimal(q, first, n)
        /\ c \in first .. 10 /\ a = c - first
        /\ \A k \in first .. c - 1 : s[k - first] = Digit(q[k])
        /\ \A k \in c .. 9 : s[k] = Digit(q[k])
  BY DEF Moving
<1>2. a \in 0 .. 9 /\ a \in B /\ a <= c
  <2>1. first \in 0 .. 9 /\ c \in first .. 10 /\ a = c - first
    BY <1>1
  <2>2. a \in 0 .. 9 /\ a \in 0 .. 10 /\ a <= c
    BY <2>1
  <2> QED BY <2>2
<1>3. s2[a] = s[c] /\ \A k \in B : k # a => s2[k] = s[k]
  BY <1>2
<1>4. \A k \in first .. (c + 1) - 1 : s2[k - first] = Digit(q[k])
  <2> SUFFICES ASSUME NEW k \in first .. c PROVE s2[k - first] = Digit(q[k])
    OBVIOUS
  <2>1. CASE k = c
    <3>1. s[c] = Digit(q[c]) /\ k - first = a
      BY <1>1, <2>1
    <3> QED BY <1>3, <2>1, <3>1
  <2>2. CASE k # c
    <3>1. first \in 0 .. 9 /\ a = c - first /\ s[k - first] = Digit(q[k])
      <4>1. k \in first .. c - 1
        BY <2>2
      <4> QED BY <1>1, <4>1
    <3>2. k - first \in 0 .. 10 /\ k - first # a
      BY <2>2, <3>1
    <3>3. k - first \in B
      BY <3>2
    <3> QED BY <1>3, <3>1, <3>2, <3>3
  <2> QED BY <2>1, <2>2
<1>5. \A k \in c + 1 .. 9 : s2[k] = Digit(q[k])
  <2> SUFFICES ASSUME NEW k \in c + 1 .. 9 PROVE s2[k] = Digit(q[k])
    OBVIOUS
  <2>1. k \in c .. 9 /\ k \in 0 .. 10 /\ k # a
    BY <1>2
  <2> QED BY <1>1, <1>3, <2>1
<1>6. c + 1 \in first .. 10 /\ a + 1 = (c + 1) - first
  BY <1>1
<1> QED BY <1>1, <1>4, <1>5, <1>6 DEF Moving

LEMMA MovingEnd ==
  ASSUME NEW B, 0 .. 10 \subseteq B, NEW S, NEW s \in [B -> S],
         NEW a, NEW n, Moving(10, a, n, s),
         NEW s2, s2 = [s EXCEPT ![a] = 0]
  PROVE  Moved(n, s2)
<1>1. PICK first, q :
        /\ first \in 0 .. 9 /\ Decimal(q, first, n)
        /\ 10 \in first .. 10 /\ a = 10 - first
        /\ \A k \in first .. 10 - 1 : s[k - first] = Digit(q[k])
        /\ \A k \in 10 .. 9 : s[k] = Digit(q[k])
  BY DEF Moving
<1>2. a \in 0 .. 10 /\ a \in B
  <2>1. first \in 0 .. 9 /\ a = 10 - first
    BY <1>1
  <2>2. a \in 0 .. 10
    BY ONLY <2>1
  <2> QED BY <2>2
<1>3. s2[a] = 0 /\ \A k \in B : k # a => s2[k] = s[k]
  BY <1>2
<1>4. \A k \in first .. 9 : s2[k - first] = Digit(q[k])
  <2> SUFFICES ASSUME NEW k \in first .. 9 PROVE s2[k - first] = Digit(q[k])
    OBVIOUS
  <2>1. k - first \in 0 .. 10 /\ k - first # a
    BY <1>1
  <2> QED BY <1>1, <1>3, <2>1
<1> QED BY <1>1, <1>3, <1>4 DEF Moved

(* A table of the powers of 16 that a nibble is found with. *)
LEMMA SixteenTo ==
  ASSUME KernelSizes
  PROVE  /\ 16^(Nibbles - 1 - 0) = 268435456
         /\ 16^(Nibbles - 1 - 1) = 16777216
         /\ 16^(Nibbles - 1 - 2) = 1048576
         /\ 16^(Nibbles - 1 - 3) = 65536
         /\ 16^(Nibbles - 1 - 4) = 4096
         /\ 16^(Nibbles - 1 - 5) = 256
         /\ 16^(Nibbles - 1 - 6) = 16
         /\ 16^(Nibbles - 1 - 7) = 1
         /\ 16^Nibbles = 4294967296
<1>1. Nibbles = 8
  BY Sizes
<1> QED BY SMT, <1>1

LEMMA DecimalDigit ==
  ASSUME NEW v \in Nat
  PROVE  /\ Digit(v) \in 48 .. 57 /\ DigitOf(Digit(v)) = v % 10
         /\ v = (v \div 10) * 10 + (v % 10) /\ v \div 10 \in Nat /\ v % 10 \in 0 .. 9
<1>1. v % 10 \in 0 .. 9 /\ v = (v \div 10) * 10 + (v % 10) /\ v \div 10 \in Nat
  OBVIOUS
<1>2. PICK d \in 0 .. 9 : d = v % 10
  BY <1>1
<1>3. 48 + d \in 48 .. 57 /\ (48 + d) - 48 = d /\ ~(48 + d \in 65 .. 70)
  OBVIOUS
<1>4. Digit(v) = 48 + d
  BY <1>2 DEF Digit
<1>5. DigitOf(48 + d) = d
  BY <1>3 DEF DigitOf
<1> QED BY <1>1, <1>2, <1>3, <1>4, <1>5

LEMMA HexDigit ==
  ASSUME NEW d \in 0 .. 15
  PROVE  /\ nibble_to_hex(d) \in (48 .. 57) \cup (65 .. 70)
         /\ DigitOf(nibble_to_hex(d)) = d
<1>1. CASE d <= 9
  <2>1. nibble_to_hex(d) = 48 + d
    BY <1>1 DEF nibble_to_hex
  <2>2. 48 + d \in 48 .. 57 /\ (48 + d) - 48 = d /\ ~(48 + d \in 65 .. 70)
    BY <1>1
  <2> QED BY <2>1, <2>2 DEF DigitOf
<1>2. CASE ~(d <= 9)
  <2>1. nibble_to_hex(d) = 65 + (d - 10)
    BY <1>2 DEF nibble_to_hex
  <2>2. PICK c \in 65 .. 70 : c = 65 + (d - 10) /\ c - 55 = d /\ ~(c \in 48 .. 57)
    BY <1>2
  <2>3. DigitOf(c) = c - 55
    BY <2>2 DEF DigitOf
  <2> QED BY <2>1, <2>2, <2>3
<1> QED BY <1>1, <1>2

(* What int_to_string leaves in the buffer is a numeral. *)
LEMMA DecimalNumeral ==
  ASSUME KernelSizes, NEW n, Moved(n, str),
         NEW s, s = [k \in 1 .. strlen |-> str[k - 1]]
  PROVE  IsNumeral(s, n, 10) /\ (Len(s) > 1 => s[1] # 48)
<1>1. PICK first, q :
        /\ first \in 0 .. 9 /\ Decimal(q, first, n)
        /\ \A k \in first .. 9 : str[k - first] = Digit(q[k])
        /\ str[10 - first] = 0
  BY DEF Moved
<1>2. /\ q \in [first - 1 .. 9 -> Nat]
      /\ q[first - 1] = 0 /\ q[9] = n
      /\ first < 9 => q[first] > 0
      /\ \A k \in first .. 9 : q[k - 1] = q[k] \div 10
  BY <1>1 DEF Decimal
<1>3. PICK m \in 1 .. 10 : m = 10 - first
  BY <1>1
<1>4. PICK r : r = [k \in 0 .. m |-> q[k + (first - 1)]]
  OBVIOUS
<1>5. \A k \in 0 .. m : r[k] \in Nat
  <2> SUFFICES ASSUME NEW k \in 0 .. m PROVE r[k] \in Nat
    OBVIOUS
  <2>1. k + (first - 1) \in first - 1 .. 9
    BY <1>1, <1>3
  <2> QED BY <1>2, <1>4, <2>1
<1>6. \A k \in 1 .. m : r[k - 1] = r[k] \div 10 /\ str[k - 1] = Digit(r[k])
  <2> SUFFICES ASSUME NEW k \in 1 .. m PROVE r[k - 1] = r[k] \div 10 /\ str[k - 1] = Digit(r[k])
    OBVIOUS
  <2>1. PICK l \in first .. 9 : l = k + (first - 1)
    BY <1>1, <1>3
  <2>2. k \in 0 .. m /\ k - 1 \in 0 .. m /\ (k - 1) + (first - 1) = l - 1 /\ l - first = k - 1
    BY <1>1, <1>3, <2>1
  <2>3. r[k] = q[l] /\ r[k - 1] = q[l - 1]
    BY <1>4, <2>1, <2>2
  <2> QED BY <1>1, <1>2, <2>2, <2>3
<1>7. r[0] = 0 /\ r[m] = n /\ (m > 1 => r[1] > 0)
  <2>1. 0 \in 0 .. m /\ m \in 0 .. m /\ 1 \in 0 .. m /\ 0 + (first - 1) = first - 1
        /\ m + (first - 1) = 9 /\ 1 + (first - 1) = first /\ (m > 1 => first < 9)
    BY <1>1, <1>3
  <2> QED BY <1>2, <1>4, <2>1
<1>8. \A k \in 1 .. m : /\ str[k - 1] \in 48 .. 57 /\ DigitOf(str[k - 1]) = r[k] % 10
                        /\ r[k] = r[k - 1] * 10 + DigitOf(str[k - 1])
                        /\ r[k] % 10 \in 0 .. 9
  <2> SUFFICES ASSUME NEW k \in 1 .. m
               PROVE  /\ str[k - 1] \in 48 .. 57 /\ DigitOf(str[k - 1]) = r[k] % 10
                      /\ r[k] = r[k - 1] * 10 + DigitOf(str[k - 1])
                      /\ r[k] % 10 \in 0 .. 9
    OBVIOUS
  <2>1. PICK v \in Nat : v = r[k]
    BY <1>5
  <2>2. str[k - 1] = Digit(v) /\ r[k - 1] = v \div 10
    BY <1>6, <2>1
  <2> QED BY <2>1, <2>2, DecimalDigit
<1>9. strlen = m
  <2>1. m \in BufferIndex
    BY Sizes
  <2>2. \A k \in 0 .. m - 1 : str[k] # 0
    <3> SUFFICES ASSUME NEW k \in 0 .. m - 1 PROVE str[k] # 0
      OBVIOUS
    <3>1. k + 1 \in 1 .. m /\ (k + 1) - 1 = k
      OBVIOUS
    <3>2. str[k] \in 48 .. 57
      BY <1>8, <3>1
    <3> QED BY <3>2
  <2>3. str[m] = 0
    BY <1>1, <1>3
  <2> QED BY <2>1, <2>2, <2>3, LengthIs
<1>10. s = [k \in 1 .. m |-> str[k - 1]] /\ s \in Seq(48 .. 57) /\ Len(s) = m
  <2>1. s = [k \in 1 .. m |-> str[k - 1]]
    BY <1>9
  <2>2. \A k \in 1 .. m : str[k - 1] \in 48 .. 57
    BY <1>8
  <2>3. m \in Nat
    OBVIOUS
  <2> QED BY ONLY <2>1, <2>2, <2>3
<1>11. \A k \in 1 .. m : s[k] = str[k - 1]
  BY <1>10
<1>12. \A k \in 1 .. m : r[k] = r[k - 1] * 10 + DigitOf(s[k])
  BY <1>8, <1>11
<1>13. NumeralValue(s, 10) = r[m]
  <2>1. m \in 0 .. 10
    OBVIOUS
  <2>2. Len(s) = m
    BY ONLY <1>10
  <2>3. r[0] = 0
    BY <1>7
  <2>4. Totals(r, m, s, 10)
    BY ONLY <1>12, <2>1, <2>2, <2>3 DEF Totals
  <2> QED BY ONLY <2>4, SumIs
<1>14. s # <<>> /\ DOMAIN s = 1 .. m
  <2>1. Len(<<>>) = 0 /\ m # 0
    OBVIOUS
  <2>4. Len(s) = m
    BY ONLY <1>10
  <2>2. s # <<>>
    BY ONLY <2>1, <2>4
  <2>3. DOMAIN s = 1 .. m
    BY <1>10
  <2> QED BY <2>2, <2>3
<1>15. \A k \in DOMAIN s : s[k] \in (48 .. 57) \cup (65 .. 70) /\ DigitOf(s[k]) < 10
  <2> SUFFICES ASSUME NEW k \in 1 .. m PROVE s[k] \in 48 .. 57 /\ DigitOf(s[k]) < 10
    BY <1>14
  <2>1. s[k] \in 48 .. 57 /\ DigitOf(s[k]) = r[k] % 10 /\ r[k] % 10 \in 0 .. 9
    BY <1>8, <1>11
  <2> QED BY <2>1
<1>16. m > 1 => s[1] # 48
  <2> SUFFICES ASSUME m > 1 PROVE s[1] # 48
    OBVIOUS
  <2>1. PICK v \in Nat : v = r[1] /\ v > 0 /\ v \div 10 = 0 /\ s[1] = Digit(v)
    <3>1. 1 \in 1 .. m /\ 1 - 1 = 0 /\ 1 \in 0 .. m
      OBVIOUS
    <3>2. r[1] \in Nat /\ r[0] = r[1] \div 10 /\ s[1] = Digit(r[1])
      BY <1>5, <1>6, <1>11, <3>1
    <3> QED BY <1>7, <3>2
  <2>2. v % 10 > 0
    BY <2>1
  <2> QED BY <2>1, <2>2 DEF Digit
<1> QED BY <1>7, <1>10, <1>13, <1>14, <1>15, <1>16 DEF IsNumeral

(* What a number of 32 bits has from one of its eight nibbles on. *)
High(n, k) == n \div 16^(Nibbles - 1 - k)

LEMMA HighIs ==
  ASSUME KernelSizes, NEW n \in unsigned
  PROVE  /\ \A k \in 0 .. 7 : High(n, k) \in Nat /\ High(n, k) % 16 \in 0 .. 15
         /\ High(n, 0) \div 16 = 0
         /\ \A k \in 1 .. 7 : High(n, k) \div 16 = High(n, k - 1)
         /\ High(n, 7) = n
<1>1. PICK full \in Nat : full = 16^Nibbles /\ unsigned = 0 .. full - 1
  <2>1. 16^Nibbles \in Nat
    BY SMT, Sizes
  <2> QED BY <2>1 DEF unsigned
<1>2. n \in Nat /\ n < full
  BY <1>1
<1>3. High(n, 0) \in Nat /\ High(n, 0) < 16
  BY SMT, <1>1, <1>2, SixteenTo DEF High
<1>4. High(n, 1) \in Nat /\ High(n, 1) \div 16 = High(n, 0)
  BY SMT, <1>2, SixteenTo DEF High
<1>5. High(n, 2) \in Nat /\ High(n, 2) \div 16 = High(n, 1)
  BY SMT, <1>2, SixteenTo DEF High
<1>6. High(n, 3) \in Nat /\ High(n, 3) \div 16 = High(n, 2)
  BY SMT, <1>2, SixteenTo DEF High
<1>7. High(n, 4) \in Nat /\ High(n, 4) \div 16 = High(n, 3)
  BY SMT, <1>2, SixteenTo DEF High
<1>8. High(n, 5) \in Nat /\ High(n, 5) \div 16 = High(n, 4)
  BY SMT, <1>2, SixteenTo DEF High
<1>9. High(n, 6) \in Nat /\ High(n, 6) \div 16 = High(n, 5)
  BY SMT, <1>2, SixteenTo DEF High
<1>10. High(n, 7) \in Nat /\ High(n, 7) \div 16 = High(n, 6) /\ High(n, 7) = n
  BY SMT, <1>2, SixteenTo DEF High
<1>11. \A m \in Nat : m % 16 \in 0 .. 15 /\ (m < 16 => m \div 16 = 0)
  OBVIOUS
<1>12. ASSUME NEW k \in 0 .. 7 PROVE High(n, k) \in Nat
  <2>1. k = 0 \/ k = 1 \/ k = 2 \/ k = 3 \/ k = 4 \/ k = 5 \/ k = 6 \/ k = 7
    OBVIOUS
  <2> QED BY <1>3, <1>4, <1>5, <1>6, <1>7, <1>8, <1>9, <1>10, <2>1
<1>13. ASSUME NEW k \in 1 .. 7 PROVE High(n, k) \div 16 = High(n, k - 1)
  <2>1. k = 1 \/ k = 2 \/ k = 3 \/ k = 4 \/ k = 5 \/ k = 6 \/ k = 7
    OBVIOUS
  <2>2. 1 - 1 = 0 /\ 2 - 1 = 1 /\ 3 - 1 = 2 /\ 4 - 1 = 3 /\ 5 - 1 = 4 /\ 6 - 1 = 5 /\ 7 - 1 = 6
    OBVIOUS
  <2> QED BY <1>4, <1>5, <1>6, <1>7, <1>8, <1>9, <1>10, <2>1, <2>2
<1> QED BY <1>3, <1>10, <1>11, <1>12, <1>13

(* What int_to_hex_string leaves in the buffer is a numeral behind 0x. *)
LEMMA HexNumeral ==
  ASSUME KernelSizes, NEW n \in unsigned, HexStored(8, n, str), str[10] = 0,
         NEW s, s = [k \in 1 .. strlen |-> str[k - 1]]
  PROVE  /\ Len(s) = 2 + Nibbles
         /\ SubSeq(s, 1, 2) = <<48, 120>>
         /\ IsNumeral(SubSeq(s, 3, Len(s)), n, 16)
<1>1. /\ str[0] = 48 /\ str[1] = 120
      /\ \A k \in 0 .. 7 : str[2 + k] = nibble_to_hex(High(n, k) % 16)
  BY DEF HexStored, High
<1>2. \A k \in 0 .. 7 : /\ High(n, k) \in Nat /\ High(n, k) % 16 \in 0 .. 15
                        /\ str[2 + k] \in (48 .. 57) \cup (65 .. 70)
                        /\ DigitOf(str[2 + k]) = High(n, k) % 16
  <2> SUFFICES ASSUME NEW k \in 0 .. 7
               PROVE  /\ High(n, k) \in Nat /\ High(n, k) % 16 \in 0 .. 15
                      /\ str[2 + k] \in (48 .. 57) \cup (65 .. 70)
                      /\ DigitOf(str[2 + k]) = High(n, k) % 16
    OBVIOUS
  <2>1. High(n, k) \in Nat /\ High(n, k) % 16 \in 0 .. 15
    BY HighIs
  <2>2. PICK d \in 0 .. 15 : d = High(n, k) % 16
    BY <2>1
  <2>3. str[2 + k] = nibble_to_hex(d)
    BY <1>1, <2>2
  <2>4. nibble_to_hex(d) \in (48 .. 57) \cup (65 .. 70) /\ DigitOf(nibble_to_hex(d)) = d
    BY HexDigit
  <2> QED BY <2>1, <2>2, <2>3, <2>4
<1>3. strlen = 10
  <2>1. 10 \in BufferIndex
    BY Sizes
  <2>2. \A k \in 0 .. 9 : str[k] # 0
    <3> SUFFICES ASSUME NEW k \in 0 .. 9 PROVE str[k] # 0
      OBVIOUS
    <3>1. CASE k \in 0 .. 1
      BY <1>1, <3>1
    <3>2. CASE k \in 2 .. 9
      <4>1. k - 2 \in 0 .. 7 /\ 2 + (k - 2) = k
        BY <3>2
      <4>2. str[k] \in (48 .. 57) \cup (65 .. 70)
        BY <1>2, <4>1
      <4> QED BY <4>2
    <3> QED BY <3>1, <3>2
  <2>3. 10 - 1 = 9
    OBVIOUS
  <2> QED BY <2>1, <2>2, <2>3, LengthIs
<1>4. s = [k \in 1 .. 10 |-> str[k - 1]]
  BY <1>3
<1>5. Len(s) = 10 /\ Nibbles = 8 /\ \A k \in 1 .. 10 : s[k] = str[k - 1]
  <2>1. Len(s) = 10 /\ \A k \in 1 .. 10 : s[k] = str[k - 1]
    BY ONLY <1>4
  <2> QED BY ONLY <2>1, KernelSizes DEF KernelSizes
<1>6. PICK t : t = SubSeq(s, 3, 10)
  OBVIOUS
<1>7. t = [k \in 1 .. 8 |-> str[k + 1]]
  <2>1. t = [k \in 1 .. 10 - 3 + 1 |-> s[k + 3 - 1]]
    BY <1>6
  <2>2. \A k \in 1 .. 8 : s[k + 3 - 1] = str[k + 1]
    <3> SUFFICES ASSUME NEW k \in 1 .. 8 PROVE s[k + 3 - 1] = str[k + 1]
      OBVIOUS
    <3>1. PICK l \in 1 .. 10 : l = k + 3 - 1 /\ l - 1 = k + 1
      OBVIOUS
    <3> QED BY ONLY <1>5, <3>1
  <2> QED BY <2>1, <2>2
<1>8. SubSeq(s, 1, 2) = <<48, 120>>
  <2>1. s[1] = 48 /\ s[2] = 120
    <3>1. 1 \in 1 .. 10 /\ 2 \in 1 .. 10 /\ 1 - 1 = 0 /\ 2 - 1 = 1
      OBVIOUS
    <3>2. s[1] = str[0] /\ s[2] = str[1]
      BY ONLY <1>5, <3>1
    <3> QED BY <1>1, <3>2
  <2>2. SubSeq(s, 1, 2) = [k \in 1 .. 2 |-> s[k]]
    BY ONLY TRUE
  <2>3. \A k \in 1 .. 2 : s[k] = <<48, 120>>[k]
    BY ONLY <2>1
  <2>4. <<48, 120>> = [k \in 1 .. 2 |-> <<48, 120>>[k]]
    OBVIOUS
  <2> QED BY ONLY <2>2, <2>3, <2>4
<1>9. Len(t) = 8 /\ t # <<>> /\ DOMAIN t = 1 .. 8
  <2>1. Len(t) = 8 /\ DOMAIN t = 1 .. 8
    BY <1>7
  <2>2. Len(<<>>) = 0
    OBVIOUS
  <2> QED BY ONLY <2>1, <2>2
<1>10. \A k \in 1 .. 8 : /\ t[k] \in (48 .. 57) \cup (65 .. 70)
                         /\ DigitOf(t[k]) = High(n, k - 1) % 16
                         /\ DigitOf(t[k]) < 16
  <2> SUFFICES ASSUME NEW k \in 1 .. 8
               PROVE  /\ t[k] \in (48 .. 57) \cup (65 .. 70)
                      /\ DigitOf(t[k]) = High(n, k - 1) % 16
                      /\ DigitOf(t[k]) < 16
    OBVIOUS
  <2>1. k - 1 \in 0 .. 7 /\ 2 + (k - 1) = k + 1
    OBVIOUS
  <2>2. t[k] = str[2 + (k - 1)]
    BY <1>7, <2>1
  <2>3. /\ t[k] \in (48 .. 57) \cup (65 .. 70) /\ DigitOf(t[k]) = High(n, k - 1) % 16
        /\ High(n, k - 1) % 16 \in 0 .. 15
    BY <1>2, <2>1, <2>2
  <2> QED BY <2>3
<1>11. PICK q : q = [k \in 0 .. 8 |-> IF k = 0 THEN 0 ELSE High(n, k - 1)]
  OBVIOUS
<1>12. \A k \in 1 .. 8 : q[k] = q[k - 1] * 16 + DigitOf(t[k])
  <2> SUFFICES ASSUME NEW k \in 1 .. 8 PROVE q[k] = q[k - 1] * 16 + DigitOf(t[k])
    OBVIOUS
  <2>1. k \in 0 .. 8 /\ k # 0 /\ k - 1 \in 0 .. 8 /\ k - 1 \in 0 .. 7
    OBVIOUS
  <2>2. PICK v \in Nat : v = High(n, k - 1)
    BY <1>2, <2>1
  <2>3. q[k] = v /\ DigitOf(t[k]) = v % 16
    BY <1>10, <1>11, <2>1, <2>2
  <2>4. q[k - 1] = v \div 16
    <3>1. CASE k = 1
      <4>1. k - 1 = 0 /\ q[0] = 0
        BY <1>11, <3>1
      <4> QED BY <2>2, <4>1, HighIs
    <3>2. CASE k # 1
      <4>1. k - 1 \in 1 .. 7 /\ k - 1 # 0
        BY <3>2
      <4>2. q[k - 1] = High(n, (k - 1) - 1)
        BY <1>11, <2>1, <4>1
      <4>3. High(n, k - 1) \div 16 = High(n, (k - 1) - 1)
        BY <4>1, HighIs
      <4> QED BY <2>2, <4>2, <4>3
    <3> QED BY <3>1, <3>2
  <2>5. v = (v \div 16) * 16 + (v % 16)
    OBVIOUS
  <2> QED BY <2>3, <2>4, <2>5
<1>13. q[0] = 0 /\ q[8] = n
  <2>1. q[8] = High(n, 8 - 1) /\ q[0] = 0 /\ 8 - 1 = 7
    BY <1>11
  <2> QED BY <2>1, HighIs
<1>14. NumeralValue(t, 16) = n
  <2>1. Totals(q, 8, t, 16)
    BY ONLY <1>9, <1>12, <1>13 DEF Totals
  <2> QED BY ONLY <1>13, <2>1, SumIs
<1>15. IsNumeral(t, n, 16)
  BY <1>9, <1>10, <1>14 DEF IsNumeral
<1> QED BY ONLY <1>5, <1>6, <1>8, <1>15

(* What the variables of a conversion say of the number that is converted. *)
ConvertsTo(conv, v, c, a, k, s, num) ==
  \/ /\ num.base = 10
     /\ \/ conv = "digits" /\ Storing(c, v, num.value, s)
        \/ conv = "align" /\ Moving(c, a, num.value, s)
        \/ conv = "none" /\ Moved(num.value, s)
  \/ /\ num.base = 16 /\ num.value \in unsigned
     /\ \/ conv = "nibbles" /\ v = num.value /\ HexStored(k, v, s)
        \/ conv = "none" /\ HexStored(8, num.value, s) /\ s[10] = 0

Converts == ConvertsTo(conversion, value, cur_conv, cur_align, i, str, number)

NumeralInv ==
  /\ doing \in {"start", "idle"} => number = NotANumber
  /\ doing = "convert" => Converts
  /\ NumeralsAreRight

LEMMA DigitConverts ==
  ASSUME KernelSizes, Inv, Converts, StoreDigit, UNCHANGED number PROVE Converts'
<1>1. conversion = "digits" /\ str' = [str EXCEPT ![cur_conv] = 48 + (value % 10)]
      /\ value' = value \div 10
  BY DEF StoreDigit
<1>11. PICK n : n = number.value
  OBVIOUS
<1>2. PICK c \in 0 .. 9, v \in Nat : c = cur_conv /\ v = value
  <2>1. cur_conv \in 0 .. 9
    BY <1>1, Sizes DEF Inv, Room
  <2>2. value \in Nat
    BY Unsigned DEF Inv, TypeOK, StringTypeOK
  <2> QED BY <2>1, <2>2
<1>3. number.base = 10 /\ Storing(c, v, n, str)
  BY <1>1, <1>2, <1>11 DEF Converts, ConvertsTo
<1>4. PICK B, S : B = BufferIndex /\ S = 0 .. 255
  OBVIOUS
<1>5. str \in [B -> S] /\ 0 .. 10 \subseteq B
  BY <1>4, Sizes DEF Inv, TypeOK, StringTypeOK
<1>6. PICK s : s = str
  OBVIOUS
<1>7. PICK s2 : s2 = str' /\ s2 = [s EXCEPT ![c] = Digit(v)]
  BY <1>1, <1>2, <1>6 DEF Digit
<1>8. /\ v \div 10 > 0 => Storing(c - 1, v \div 10, n, s2)
      /\ ~(v \div 10 > 0) => Moving(c, 0, n, s2)
  BY <1>3, <1>5, <1>6, <1>7, StoringStep
<1>9. CASE value' > 0
  <2>1. cur_conv' = c - 1 /\ conversion' = "digits" /\ v \div 10 > 0
    BY <1>1, <1>2, <1>9 DEF StoreDigit
  <2> QED BY <1>1, <1>2, <1>3, <1>7, <1>8, <1>11, <2>1 DEF Converts, ConvertsTo
<1>10. CASE ~(value' > 0)
  <2>1. cur_conv' = c /\ conversion' = "align" /\ cur_align' = 0 /\ ~(v \div 10 > 0)
    BY <1>1, <1>2, <1>10 DEF StoreDigit
  <2> QED BY <1>2, <1>3, <1>7, <1>8, <1>11, <2>1 DEF Converts, ConvertsTo
<1> QED BY <1>9, <1>10

LEMMA AlignConverts ==
  ASSUME KernelSizes, Inv, Converts, AlignDigit \/ DigitsDone, UNCHANGED number PROVE Converts'
<1>1. conversion = "align"
  BY DEF AlignDigit, DigitsDone
<1>2. PICK c, a, n, s, s2 : c = cur_conv /\ a = cur_align /\ n = number.value /\ s = str /\ s2 = str'
  OBVIOUS
<1>3. number.base = 10 /\ Moving(c, a, n, s)
  BY <1>1, <1>2 DEF Converts, ConvertsTo
<1>4. c \in 0 .. 10
  BY <1>2, Sizes DEF Inv, TypeOK, StringTypeOK
<1>5. PICK B, S : s \in [B -> S] /\ 0 .. 10 \subseteq B
  BY <1>2, Sizes DEF Inv, TypeOK, StringTypeOK
<1>6. CASE AlignDigit
  <2>1. /\ c <= LastDigit /\ s2 = [s EXCEPT ![a] = s[c]]
        /\ cur_align' = a + 1 /\ cur_conv' = c + 1 /\ conversion' = "align"
    BY <1>2, <1>6 DEF AlignDigit
  <2>2. c \in 0 .. 9
    BY <1>4, <2>1, Sizes
  <2>3. Moving(c + 1, a + 1, n, s2)
    BY <1>3, <1>5, <2>1, <2>2, MovingStep
  <2> QED BY <1>2, <1>3, <2>1, <2>3 DEF Converts, ConvertsTo
<1>7. CASE DigitsDone
  <2>1. c > LastDigit /\ s2 = [s EXCEPT ![a] = 0] /\ conversion' = "none"
    BY <1>2, <1>7 DEF DigitsDone
  <2>2. c = 10
    BY <1>4, <2>1, Sizes
  <2>3. Moved(n, s2)
    BY <1>3, <1>5, <2>1, <2>2, MovingEnd
  <2> QED BY <1>2, <1>3, <2>1, <2>3 DEF Converts, ConvertsTo
<1> QED BY <1>6, <1>7

LEMMA NibbleConverts ==
  ASSUME KernelSizes, Inv, Converts, StoreNibble \/ NibblesDone, UNCHANGED number PROVE Converts'
<1>1. conversion = "nibbles"
  BY DEF StoreNibble, NibblesDone
<1>2. PICK m, n, s, s2 : m = i /\ n = value /\ s = str /\ s2 = str'
  OBVIOUS
<1>3. number.base = 16 /\ number.value \in unsigned /\ n = number.value /\ HexStored(m, n, s)
  BY <1>1, <1>2 DEF Converts, ConvertsTo
<1>4. m \in 0 .. 8
  BY <1>2, Sizes DEF Inv, TypeOK, StringTypeOK
<1>5. PICK B, S : s \in [B -> S] /\ 0 .. 10 \subseteq B
  BY <1>2, Sizes DEF Inv, TypeOK, StringTypeOK
<1>6. /\ s[0] = 48 /\ s[1] = 120
      /\ \A k \in 0 .. m - 1 : s[2 + k] = nibble_to_hex(High(n, k) % 16)
  BY <1>3 DEF HexStored, High
<1>7. CASE StoreNibble
  <2>1. m \in 0 .. 7 /\ i' = m + 1 /\ conversion' = "nibbles" /\ value' = n
    BY <1>2, <1>4, <1>7, Sizes DEF StoreNibble, NextNibble
  <2>2. s2 = [s EXCEPT ![2 + m] = nibble_to_hex(High(n, m) % 16)]
    BY <1>2, <1>7 DEF StoreNibble, High
  <2>3. 2 + m \in 0 .. 10 /\ 2 + m \in B /\ 0 \in B /\ 1 \in B /\ 2 + m # 0 /\ 2 + m # 1
    <3>1. 2 + m \in 0 .. 10 /\ 0 \in 0 .. 10 /\ 1 \in 0 .. 10 /\ 2 + m # 0 /\ 2 + m # 1
      BY <2>1
    <3> QED BY <1>5, <3>1
  <2>4. s2[2 + m] = nibble_to_hex(High(n, m) % 16) /\ \A l \in B : l # 2 + m => s2[l] = s[l]
    BY <1>5, <2>2, <2>3
  <2>5. \A k \in 0 .. (m + 1) - 1 : s2[2 + k] = nibble_to_hex(High(n, k) % 16)
    <3> SUFFICES ASSUME NEW k \in 0 .. (m + 1) - 1
                 PROVE  s2[2 + k] = nibble_to_hex(High(n, k) % 16)
      OBVIOUS
    <3>1. CASE k = m
      BY <2>4, <3>1
    <3>2. CASE k # m
      <4>1. k \in 0 .. m - 1 /\ 2 + k \in 0 .. 10 /\ 2 + k # 2 + m
        BY <2>1, <3>2
      <4>2. 2 + k \in B
        BY <1>5, <4>1
      <4> QED BY <1>6, <2>4, <4>1, <4>2
    <3> QED BY <3>1, <3>2
  <2>6. HexStored(m + 1, n, s2)
    BY <1>6, <2>3, <2>4, <2>5 DEF HexStored, High
  <2> QED BY <1>2, <1>3, <2>1, <2>6 DEF Converts, ConvertsTo
<1>8. CASE NibblesDone
  <2>1. m = 8 /\ conversion' = "none" /\ s2 = [s EXCEPT ![10] = 0]
    BY <1>2, <1>8, Sizes DEF NibblesDone
  <2>2. 10 \in B /\ 0 \in B /\ 1 \in B
    BY <1>5
  <2>3. s2[10] = 0 /\ \A l \in B : l # 10 => s2[l] = s[l]
    BY <1>5, <2>1, <2>2
  <2>4. \A k \in 0 .. 8 - 1 : s2[2 + k] = nibble_to_hex(High(n, k) % 16)
    <3> SUFFICES ASSUME NEW k \in 0 .. 7 PROVE s2[2 + k] = nibble_to_hex(High(n, k) % 16)
      OBVIOUS
    <3>1. k \in 0 .. m - 1 /\ 2 + k \in 0 .. 10 /\ 2 + k # 10
      BY <2>1
    <3>2. 2 + k \in B
      BY <1>5, <3>1
    <3> QED BY <1>6, <2>3, <3>1, <3>2
  <2>5. HexStored(8, n, s2)
    BY <1>6, <2>2, <2>3, <2>4 DEF HexStored, High
  <2> QED BY <1>2, <1>3, <2>1, <2>3, <2>5 DEF Converts, ConvertsTo
<1> QED BY <1>7, <1>8

(* A conversion that begins has stored nothing but 0x. *)
LEMMA BeginConverts ==
  ASSUME KernelSizes, Inv, ConvertNumber PROVE Converts'
<1>1. PICK n \in Numbers : \/ int_to_string(n) /\ number' = [value |-> n, base |-> 10]
                           \/ int_to_hex_string(n) /\ number' = [value |-> n, base |-> 16]
  BY DEF ConvertNumber
<1>2. n \in unsigned /\ n \in Nat
  BY ConsoleAssumption, Unsigned
<1>3. CASE int_to_string(n) /\ number' = [value |-> n, base |-> 10]
  <2>1. conversion' = "digits" /\ value' = n /\ cur_conv' = 9
    BY <1>3, Sizes DEF int_to_string
  <2>2. PICK s : s = str'
    OBVIOUS
  <2>3. Storing(9, n, n, s)
    <3>1. PICK q : q = [k \in 9 .. 9 |-> n]
      OBVIOUS
    <3>2. q \in [9 .. 9 -> Nat] /\ q[9] = n
      BY <1>2, <3>1
    <3>3. \A k \in 9 + 1 .. 9 : q[k - 1] = q[k] \div 10 /\ s[k] = Digit(q[k])
      <4>1. ASSUME NEW k \in 9 + 1 .. 9 PROVE FALSE
        OBVIOUS
      <4> QED BY <4>1
    <3>4. ~(9 < 9)
      OBVIOUS
    <3> QED BY <3>2, <3>3, <3>4 DEF Storing
  <2> QED BY <1>3, <2>1, <2>2, <2>3 DEF Converts, ConvertsTo
<1>4. CASE int_to_hex_string(n) /\ number' = [value |-> n, base |-> 16]
  <2>1. conversion' = "nibbles" /\ value' = n /\ i' = 0 /\ str' = [str EXCEPT ![0] = 48, ![1] = 120]
    BY <1>4 DEF int_to_hex_string
  <2>2. PICK s, s1, s2 : s = str /\ s1 = [s EXCEPT ![0] = 48] /\ s2 = [s1 EXCEPT ![1] = 120]
    OBVIOUS
  <2>3. str' = s2
    BY <2>1, <2>2
  <2>4. PICK B, S : s \in [B -> S] /\ 0 .. 10 \subseteq B
    BY <2>2, Sizes DEF Inv, TypeOK, StringTypeOK
  <2>5. s2[0] = 48 /\ s2[1] = 120
    <3>1. 0 \in B /\ 1 \in B
      BY <2>4
    <3>2. s1[0] = 48 /\ DOMAIN s1 = B
      BY <2>2, <2>4, <3>1
    <3> QED BY <2>2, <2>4, <3>1, <3>2
  <2>6. HexStored(0, n, s2)
    <3>1. \A k \in 0 .. 0 - 1 : s2[2 + k] = nibble_to_hex((n \div 16^(Nibbles - 1 - k)) % 16)
      OBVIOUS
    <3> QED BY <2>5, <3>1 DEF HexStored
  <2> QED BY <1>2, <1>4, <2>1, <2>3, <2>6 DEF Converts, ConvertsTo
<1> QED BY <1>1, <1>3, <1>4

(* A numeral that begins to be written is the number's. *)
LEMMA NumeralWritten ==
  ASSUME KernelSizes, Inv, NumeralInv, WriteNumber PROVE NumeralsAreRight'
<1>1. /\ doing = "convert" /\ conversion = "none" /\ doing' = "write"
      /\ text' = [k \in 1 .. strlen |-> str[k - 1]] /\ number' = number
  BY DEF WriteNumber, terminal_writestring
<1>2. PICK n, s : n = number.value /\ s = [k \in 1 .. strlen |-> str[k - 1]]
  OBVIOUS
<1>3. \/ number.base = 10 /\ Moved(n, str)
      \/ number.base = 16 /\ n \in unsigned /\ HexStored(8, n, str) /\ str[10] = 0
  BY <1>1, <1>2 DEF NumeralInv, Converts, ConvertsTo
<1>4. CASE number.base = 10 /\ Moved(n, str)
  <2>1. IsNumeral(s, n, 10) /\ (Len(s) > 1 => s[1] # 48)
    BY <1>2, <1>4, DecimalNumeral
  <2>2. text' = s /\ number'.base = 10 /\ number'.value = n
    BY <1>1, <1>2, <1>4
  <2> QED BY ONLY <2>1, <2>2 DEF NumeralsAreRight
<1>5. CASE number.base = 16 /\ n \in unsigned /\ HexStored(8, n, str) /\ str[10] = 0
  <2>1. /\ Len(s) = 2 + Nibbles
        /\ SubSeq(s, 1, 2) = <<48, 120>>
        /\ IsNumeral(SubSeq(s, 3, Len(s)), n, 16)
    BY <1>2, <1>5, HexNumeral
  <2>2. text' = s /\ number'.base = 16 /\ number'.value = n /\ 16 # 10
    BY <1>1, <1>2, <1>5
  <2> QED BY ONLY <2>1, <2>2 DEF NumeralsAreRight
<1> QED BY <1>3, <1>4, <1>5

LEMMA NumeralStep ==
  ASSUME KernelSizes, Inv, NumeralInv, [Next]_vars PROVE NumeralInv'
<1>1. CASE ConvertOn
  <2>1. doing = "convert" /\ doing' = "convert" /\ Convert /\ UNCHANGED number
    BY <1>1 DEF ConvertOn
  <2>2. Converts'
    BY <2>1, DigitConverts, AlignConverts, NibbleConverts DEF NumeralInv, Convert
  <2> QED BY <2>1, <2>2 DEF NumeralInv, NumeralsAreRight
<1>2. CASE ConvertNumber
  <2>1. doing' = "convert"
    BY <1>2 DEF ConvertNumber
  <2>2. Converts'
    BY <1>2, BeginConverts
  <2> QED BY <2>1, <2>2 DEF NumeralInv, NumeralsAreRight
<1>3. CASE WriteNumber
  <2>1. doing' = "write"
    BY <1>3 DEF WriteNumber, terminal_writestring
  <2>2. NumeralsAreRight'
    BY <1>3, NumeralWritten
  <2> QED BY <2>1, <2>2 DEF NumeralInv
<1>4. CASE WriteText
  <2>1. doing = "idle" /\ doing' = "write" /\ number' = number
    BY <1>4 DEF WriteText, Called, terminal_writestring
  <2>2. number'.base = 0
    BY <2>1 DEF NumeralInv, NotANumber
  <2>3. text' \in Texts
    BY <1>4 DEF WriteText, terminal_writestring
  <2> QED BY <2>1, <2>2, <2>3 DEF NumeralInv, NumeralsAreRight
<1>5. CASE WriteOn
  <2>1. doing = "write" /\ UNCHANGED <<doing, text, number>>
    BY <1>5 DEF WriteOn
  <2>2. NumeralsAreRight'
    BY <2>1 DEF NumeralInv, NumeralsAreRight
  <2> QED BY <2>1, <2>2 DEF NumeralInv
<1>6. CASE WriteDone
  BY <1>6 DEF WriteDone, NumeralInv, NumeralsAreRight
<1>7. CASE Start \/ SetColor
  <2>1. doing \in {"start", "idle"} /\ doing' = "idle" /\ number' = number
    BY <1>7 DEF Start, SetColor, Called
  <2> QED BY <2>1 DEF NumeralInv, NumeralsAreRight
<1>8. CASE UNCHANGED vars
  <2>1. UNCHANGED <<doing, text, number>> /\ UNCHANGED string_vars
    BY <1>8 DEF vars
  <2>2. NumeralsAreRight'
    BY <2>1 DEF NumeralInv, NumeralsAreRight
  <2> QED BY <2>1, <2>2 DEF NumeralInv, Converts, string_vars
<1> QED BY <1>1, <1>2, <1>3, <1>4, <1>5, <1>6, <1>7, <1>8 DEF Next, Printing

(* With the kernel's own sizes, and for every number of 32 bits: what is    *)
(* written for it is its numeral, although the buffer holds what is left   *)
(* of the numbers before and the decimal digits are moved over themselves. *)
THEOREM NumeralsRight == ASSUME KernelSizes PROVE Spec => []NumeralsAreRight
<1>1. Init => Inv /\ NumeralInv
  <2>1. Init => NumeralInv
    BY DEF Init, NumeralInv, NumeralsAreRight
  <2> QED BY <2>1, InitTypes
<1>2. Inv /\ [Next]_vars => Inv'
  BY ConvertTypes, StartConversion, WriteTypes, TextTypes, OtherTypes DEF Next, Printing
<1>3. Inv /\ NumeralInv /\ [Next]_vars => Inv' /\ NumeralInv'
  BY <1>2, NumeralStep
<1>4. NumeralInv => NumeralsAreRight
  BY DEF NumeralInv
<1> QED BY <1>1, <1>3, <1>4, PTL DEF Spec

-----------------------------------------------------------------------------
(* Every step of the printing brings it closer to its end. *)

(* The steps that are left of a text that is being written, or of a         *)
(* conversion and the numeral that is written after it.                     *)
Remaining ==
  CASE doing = "start" -> 1
    [] doing = "write" -> 1 + Len(text) - written
    [] doing = "convert" ->
         BufferSize +
           (CASE conversion = "digits"  -> LastDigit + 5 + cur_conv
              [] conversion = "align"   -> LastDigit + 4 - cur_conv
              [] conversion = "nibbles" -> Nibbles + 3 - i
              [] OTHER -> 2)
    [] OTHER -> 0

RunsDown == doing # "idle" => Remaining' < Remaining

(* What it counts with. *)
LEMMA Counters ==
  ASSUME KernelSizes, Inv
  PROVE  /\ Nibbles = 8 /\ LastDigit = 9 /\ BufferSize \in Nat
         /\ cur_conv \in 0 .. 10 /\ i \in 0 .. 8
         /\ doing \in {"start", "idle", "convert", "write"}
         /\ conversion \in {"none", "digits", "align", "nibbles"}
         /\ Len(text) \in Nat /\ written \in 0 .. Len(text)
<1>1. Nibbles = 8 /\ LastDigit = 9 /\ BufferSize \in Nat
  BY Sizes
<1>2. cur_conv \in 0 .. 9 + 1 /\ i \in 0 .. 8
  BY <1>1 DEF Inv, TypeOK, StringTypeOK
<1>3. /\ doing \in {"start", "idle", "convert", "write"}
      /\ conversion \in {"none", "digits", "align", "nibbles"}
      /\ written \in 0 .. Len(text)
  BY DEF Inv, TypeOK, StringTypeOK
<1>4. text \in Seq(Byte)
  BY DEF Inv, Room
<1>5. Len(text) \in Nat
  BY ONLY <1>4
<1> QED BY <1>1, <1>2, <1>3, <1>5

LEMMA RemainingType ==
  ASSUME KernelSizes, Inv
  PROVE  Remaining \in Nat /\ (Remaining = 0 <=> doing = "idle")
<1>1. CASE doing = "convert"
  <2>1. \E n \in Nat \ {0} : Remaining = BufferSize + n
    <3>1. CASE conversion = "digits"
      <4>1. Remaining = BufferSize + (14 + cur_conv) /\ 14 + cur_conv \in Nat \ {0}
        BY <1>1, <3>1, Counters DEF Remaining
      <4> QED BY <4>1
    <3>2. CASE conversion = "align"
      <4>1. Remaining = BufferSize + (13 - cur_conv) /\ 13 - cur_conv \in Nat \ {0}
        BY <1>1, <3>2, Counters DEF Remaining
      <4> QED BY <4>1
    <3>3. CASE conversion = "nibbles"
      <4>1. Remaining = BufferSize + (11 - i) /\ 11 - i \in Nat \ {0}
        BY <1>1, <3>3, Counters DEF Remaining
      <4> QED BY <4>1
    <3>4. CASE conversion = "none"
      <4>1. Remaining = BufferSize + 2
        BY <1>1, <3>4 DEF Remaining
      <4> QED BY <4>1
    <3> QED BY <3>1, <3>2, <3>3, <3>4, Counters
  <2> QED BY <1>1, <2>1, Counters
<1>2. CASE doing = "write"
  <2>1. Remaining = 1 + Len(text) - written
    BY <1>2 DEF Remaining
  <2> QED BY <1>2, <2>1, Counters
<1>3. CASE doing \in {"start", "idle"}
  BY <1>3 DEF Remaining
<1> QED BY <1>1, <1>2, <1>3, Counters

(* An iteration of a loop of the conversions, or what follows it.           *)
LEMMA ConversionRunsDown ==
  ASSUME KernelSizes, Inv, ConvertOn
  PROVE  Remaining' < Remaining
<1>1. /\ Nibbles = 8 /\ LastDigit = 9 /\ BufferSize \in Nat
      /\ cur_conv \in 0 .. 10 /\ i \in 0 .. 8
  BY Counters
<1>2. doing = "convert" /\ doing' = "convert" /\ Convert
  BY DEF ConvertOn
<1>3. CASE StoreDigit
  <2>1. /\ conversion = "digits"
        /\ \/ conversion' = "digits" /\ cur_conv' = cur_conv - 1
           \/ conversion' = "align" /\ cur_conv' = cur_conv
    BY <1>3 DEF StoreDigit
  <2>2. Remaining = BufferSize + (9 + 5 + cur_conv)
    BY <1>1, <1>2, <2>1 DEF Remaining
  <2>3. CASE conversion' = "digits" /\ cur_conv' = cur_conv - 1
    <3>1. Remaining' = BufferSize + (9 + 5 + (cur_conv - 1))
      BY <1>1, <1>2, <2>3 DEF Remaining
    <3> QED BY <1>1, <2>2, <3>1
  <2>4. CASE conversion' = "align" /\ cur_conv' = cur_conv
    <3>1. Remaining' = BufferSize + (9 + 4 - cur_conv)
      BY <1>1, <1>2, <2>4 DEF Remaining
    <3> QED BY <1>1, <2>2, <3>1
  <2> QED BY <2>1, <2>3, <2>4
<1>4. CASE AlignDigit
  <2>1. conversion = "align" /\ conversion' = "align" /\ cur_conv' = cur_conv + 1
    BY <1>4 DEF AlignDigit
  <2>2. /\ Remaining = BufferSize + (9 + 4 - cur_conv)
        /\ Remaining' = BufferSize + (9 + 4 - (cur_conv + 1))
    BY <1>1, <1>2, <2>1 DEF Remaining
  <2> QED BY <1>1, <2>2
<1>5. CASE DigitsDone
  <2>1. conversion = "align" /\ conversion' = "none"
    BY <1>5 DEF DigitsDone
  <2>2. Remaining = BufferSize + (9 + 4 - cur_conv) /\ Remaining' = BufferSize + 2
    BY <1>1, <1>2, <2>1 DEF Remaining
  <2> QED BY <1>1, <2>2
<1>6. CASE StoreNibble
  <2>1. conversion = "nibbles" /\ conversion' = "nibbles" /\ i' = i + 1
    BY <1>6 DEF StoreNibble, NextNibble
  <2>2. /\ Remaining = BufferSize + (8 + 3 - i)
        /\ Remaining' = BufferSize + (8 + 3 - (i + 1))
    BY <1>1, <1>2, <2>1 DEF Remaining
  <2> QED BY <1>1, <2>2
<1>7. CASE NibblesDone
  <2>1. conversion = "nibbles" /\ conversion' = "none"
    BY <1>7 DEF NibblesDone
  <2>2. Remaining = BufferSize + (8 + 3 - i) /\ Remaining' = BufferSize + 2
    BY <1>1, <1>2, <2>1 DEF Remaining
  <2> QED BY <1>1, <2>2
<1> QED BY <1>2, <1>3, <1>4, <1>5, <1>6, <1>7 DEF Convert

(* The numeral of a conversion is shorter than its buffer. *)
LEMMA NumeralFits ==
  ASSUME KernelSizes, Inv, WriteNumber
  PROVE  Len(text') < BufferSize /\ Len(text') \in Nat
<1>1. PICK nulls : nulls = {k \in BufferIndex : str[k] = 0}
  OBVIOUS
<1>2. doing = "convert" /\ conversion = "none" /\ text' = [k \in 1 .. strlen |-> str[k - 1]]
  BY DEF WriteNumber, terminal_writestring
<1>3. \E k \in 0 .. 10 : k \in nulls
  BY <1>1, <1>2, Sizes DEF Inv, Room
<1>4. Min(nulls) \in nulls
  BY <1>1, <1>3, FirstNull, Sizes
<1>5. PICK n \in Nat : n = strlen /\ n \in BufferIndex
  BY <1>1, <1>4, Sizes DEF strlen
<1>6. n < BufferSize
  BY <1>5, Sizes DEF BufferIndex
<1>7. Len([k \in 1 .. n |-> str[k - 1]]) = n
  OBVIOUS
<1> QED BY <1>2, <1>5, <1>6, <1>7

LEMMA PrintingStep ==
  ASSUME KernelSizes, Inv, Printing
  PROVE  Remaining' < Remaining
<1>1. CASE Start
  BY <1>1 DEF Start, Remaining
<1>2. CASE WriteNumber
  <2>1. /\ doing = "convert" /\ conversion = "none"
        /\ doing' = "write" /\ written' = 0
    BY <1>2 DEF WriteNumber, terminal_writestring
  <2>2. PICK n \in Nat : n = Len(text') /\ n < BufferSize
    BY <1>2, NumeralFits
  <2>3. Remaining = BufferSize + 2 /\ Remaining' = 1 + n - 0
    BY <2>1, <2>2 DEF Remaining
  <2>4. BufferSize \in Nat
    BY Sizes
  <2> QED BY ONLY <2>2, <2>3, <2>4
<1>3. CASE WriteOn
  <2>1. doing = "write" /\ doing' = "write" /\ written' = written + 1 /\ text' = text
    BY <1>3 DEF WriteOn
  <2>2. Len(text) \in Nat /\ written \in 0 .. Len(text)
    BY Counters
  <2>3. Remaining = 1 + Len(text) - written /\ Remaining' = 1 + Len(text) - (written + 1)
    BY <2>1 DEF Remaining
  <2> QED BY <2>2, <2>3
<1>4. CASE WriteDone
  <2>1. doing = "write" /\ doing' = "idle" /\ written = Len(text)
    BY <1>4 DEF WriteDone
  <2>2. Len(text) \in Nat
    BY Counters
  <2>3. Remaining = 1 + Len(text) - written /\ Remaining' = 0
    BY <2>1 DEF Remaining
  <2> QED BY <2>1, <2>2, <2>3
<1> QED BY <1>1, <1>2, <1>3, <1>4, ConversionRunsDown DEF Printing

(* For every number and every text, no loop of the conversions or of the    *)
(* terminal runs on for ever: what remains of what has begun to be printed  *)
(* is a natural number that each step lowers, and that is 0 exactly when    *)
(* nothing is being printed. It is PrintsEnd, but for the fairness that     *)
(* makes steps happen.                                                      *)
THEOREM PrintingRunsDown ==
  ASSUME KernelSizes
  PROVE  Spec => /\ [](Remaining \in Nat /\ (Remaining = 0 <=> doing = "idle"))
                 /\ [][RunsDown]_vars
<1>1. Init => Inv
  BY InitTypes
<1>2. Inv /\ [Next]_vars => Inv'
  BY ConvertTypes, StartConversion, WriteTypes, TextTypes, OtherTypes DEF Next, Printing
<1>3. Inv => Remaining \in Nat /\ (Remaining = 0 <=> doing = "idle")
  BY RemainingType
<1>4. Inv /\ [Next]_vars => [RunsDown]_vars
  BY PrintingStep
     DEF Next, SetColor, WriteText, ConvertNumber, Called, RunsDown
<1> QED BY <1>1, <1>2, <1>3, <1>4, PTL DEF Spec

=============================================================================
