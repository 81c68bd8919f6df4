-------------------------------- MODULE Console --------------------------------
(***************************************************************************)
(* What kernel_main does with the terminal and the conversions: texts are  *)
(* written, and numbers are converted in string_buffer, which is used      *)
(* again and again, and then written from there.                           *)
(***************************************************************************)
EXTENDS Terminal, StringUtils, Sequences, FiniteSetsExt

CONSTANTS
  Numbers,    \* what is printed, unsigned
  Texts,      \* the literals that are printed, without their nulls
  MaxCalls    \* bound of the calls that are looked at

ASSUME ConsoleAssumption ==
  /\ Numbers \subseteq unsigned
  /\ Texts \subseteq Seq(1 .. 255)
  /\ MaxCalls \in Nat

VARIABLES
  doing,      \* where kernel_main is: "start", "idle", "convert" or "write"
  text,       \* the string that terminal_writestring is writing
  written,    \* how many of its characters are on the screen
  number,     \* the number it is the numeral of, if any, and the base
  before,     \* the screen, as Ring shows it, when the writing began
  calls       \* how many texts, numbers and colours there were

vars == <<terminal_vars, string_vars, doing, text, written, number, before,
          calls>>

NotANumber == [value |-> 0, base |-> 0]

(* The screen as a ring of cells, with a position in it. *)
Ring ==
  [cells |-> terminal_buffer, at |-> terminal_row * VGA_WIDTH + terminal_column]

Blank == [cells |-> <<>>, at |-> 0]

(* The screen shows what the firmware left there, and string_buffer, which *)
(* is on the stack, is not initialised either.                             *)
Init ==
  /\ doing = "start"
  /\ terminal_row = 0 /\ terminal_column = 0
  /\ terminal_color = 0
  /\ terminal_buffer = [cell \in Cells |-> vga_entry(0, terminal_color)]
  /\ conversion = "none"
  /\ value = 0 /\ cur_conv = 0 /\ cur_align = 0 /\ i = 0
  /\ \E junk \in {0, 255} : str = [k \in BufferIndex |-> junk]
  /\ text = <<>> /\ written = 0
  /\ number = NotANumber
  /\ before = Blank
  /\ calls = 0

Start ==
  /\ doing = "start"
  /\ doing' = "idle"
  /\ terminal_initialize
  /\ UNCHANGED <<string_vars, text, written, number, before, calls>>

Called ==
  /\ doing = "idle"
  /\ calls < MaxCalls
  /\ calls' = calls + 1

SetColor ==
  /\ Called
  /\ \E color \in Colors \ {terminal_color} : terminal_setcolor(color)
  /\ UNCHANGED <<string_vars, doing, text, written, number, before>>

(* The length of a string is counted before it is written. *)
terminal_writestring(data) ==
  /\ doing' = "write"
  /\ text' = data
  /\ written' = 0
  /\ before' = Ring

WriteText ==
  /\ Called
  /\ \E literal \in Texts : terminal_writestring(literal)
  /\ UNCHANGED <<terminal_vars, string_vars, number>>

ConvertNumber ==
  /\ Called
  /\ doing' = "convert"
  /\ \E n \in Numbers :
       \/ int_to_string(n) /\ number' = [value |-> n, base |-> 10]
       \/ int_to_hex_string(n) /\ number' = [value |-> n, base |-> 16]
  /\ UNCHANGED <<terminal_vars, text, written, before>>

ConvertOn ==
  /\ doing = "convert"
  /\ Convert
  /\ UNCHANGED <<terminal_vars, doing, text, written, number, before, calls>>

strlen == Min({k \in BufferIndex : str[k] = 0})

WriteNumber ==
  /\ doing = "convert"
  /\ conversion = "none"
  /\ terminal_writestring([k \in 1 .. strlen |-> str[k - 1]])
  /\ UNCHANGED <<terminal_vars, string_vars, number, calls>>

WriteOn ==
  /\ doing = "write"
  /\ written < Len(text)
  /\ terminal_putchar(text[written + 1])
  /\ written' = written + 1
  /\ UNCHANGED <<string_vars, doing, text, number, before, calls>>

WriteDone ==
  /\ doing = "write"
  /\ written = Len(text)
  /\ doing' = "idle"
  /\ text' = <<>> /\ written' = 0 /\ number' = NotANumber /\ before' = Blank
  /\ UNCHANGED <<terminal_vars, string_vars, calls>>

Printing == Start \/ ConvertOn \/ WriteNumber \/ WriteOn \/ WriteDone

Next == Printing \/ SetColor \/ WriteText \/ ConvertNumber

(* kernel_main runs on; what it prints is up to the code between the calls. *)
Spec == Init /\ [][Next]_vars /\ WF_vars(Printing)

-----------------------------------------------------------------------------
(* Properties. *)

Byte == 0 .. 255

(* The cursor stays on the screen and the conversions stay in their buffer. *)
TypeOK ==
  /\ StringTypeOK
  /\ terminal_row \in 0 .. VGA_HEIGHT - 1
  /\ terminal_column \in 0 .. VGA_WIDTH - 1
  /\ terminal_color \in Byte
  /\ terminal_buffer \in [Cells -> [char : Byte, color : Byte]]
  /\ doing \in {"start", "idle", "convert", "write"}
  /\ written \in 0 .. Len(text)
  /\ calls \in 0 .. MaxCalls

(* What a character of a colour does to the ring. *)
Laid(color, ring, c) ==
  IF c = Newline
  THEN [ring EXCEPT !.at = ((@ \div VGA_WIDTH + 1) * VGA_WIDTH) % (VGA_WIDTH * VGA_HEIGHT)]
  ELSE [cells |-> [ring.cells EXCEPT ![ring.at] = vga_entry(c, color)],
        at |-> (ring.at + 1) % (VGA_WIDTH * VGA_HEIGHT)]

(* The screen after each of the characters that are written so far. *)
laid[k \in 0 .. written] == IF k = 0 THEN before ELSE Laid(terminal_color, laid[k - 1], text[k])

(* terminal_putchar's rows and columns make a ring of cells: at any time    *)
(* the characters written so far follow each other from where the cursor   *)
(* was, a newline skips the rest of its row, the last cell is followed by  *)
(* the first, and every other cell is as it was.                           *)
TextAppearsInOrder == doing = "write" => Ring = laid[written]

DigitOf(c) ==
  CASE c \in 48 .. 57 -> c - 48
    [] c \in 65 .. 70 -> c - 55

(* The number that the digits of a string make. *)
NumeralValue(s, base) ==
  LET sum[k \in 0 .. Len(s)] == IF k = 0 THEN 0 ELSE sum[k - 1] * base + DigitOf(s[k])
  IN  sum[Len(s)]

IsNumeral(s, n, base) ==
  /\ s # <<>>
  /\ \A k \in DOMAIN s : s[k] \in (48 .. 57) \cup (65 .. 70) /\ DigitOf(s[k]) < base
  /\ NumeralValue(s, base) = n

(* What is written for a number is its numeral, in decimal without leading  *)
(* zeros and in hexadecimal with all its digits behind 0x, although the    *)
(* buffer still holds pieces of the numbers before (string_utils.cpp).     *)
NumeralsAreRight ==
  doing = "write" =>
    CASE number.base = 10 ->
           IsNumeral(text, number.value, 10) /\ (Len(text) > 1 => text[1] # 48)
      [] number.base = 16 ->
           /\ Len(text) = 2 + Nibbles
           /\ SubSeq(text, 1, 2) = <<48, 120>>
           /\ IsNumeral(SubSeq(text, 3, Len(text)), number.value, 16)
      [] OTHER -> text \in Texts

(* Every text and every number that kernel_main begins to print is on the   *)
(* screen in the end: no loop of the conversions runs on for ever.         *)
PrintsEnd == (doing # "idle") ~> (doing = "idle")

=============================================================================
