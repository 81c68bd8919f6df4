------------------------------- MODULE Terminal -------------------------------
(***************************************************************************)
(* The text screen of the kernel (source/kernel/source/terminal.cpp): a    *)
(* cursor that goes from cell to cell and from the last row back to the    *)
(* first, without scrolling or clearing.  A character is its code.         *)
(***************************************************************************)
EXTENDS Integers

CONSTANTS
  VGA_WIDTH,     \* 80
  VGA_HEIGHT,    \* 25
  Colors         \* foreground + 16 * background

ASSUME ScreenAssumption ==
  /\ {VGA_WIDTH, VGA_HEIGHT} \subseteq Nat \ {0}
  /\ Colors \subseteq 0 .. 255

VARIABLES
  terminal_row,
  terminal_column,
  terminal_color,
  terminal_buffer    \* the video memory, a function from cells

terminal_vars == <<terminal_row, terminal_column, terminal_color, terminal_buffer>>

Cells == 0 .. VGA_WIDTH * VGA_HEIGHT - 1

vga_entry(c, color) == [char |-> c, color |-> color]

Space == 32
Newline == 10

light_grey_on_black == 7

terminal_initialize ==
  /\ terminal_row' = 0
  /\ terminal_column' = 0
  /\ terminal_color' = light_grey_on_black
  /\ terminal_buffer' = [cell \in Cells |-> vga_entry(Space, light_grey_on_black)]

terminal_setcolor(color) ==
  /\ terminal_color' = color
  /\ UNCHANGED <<terminal_row, terminal_column, terminal_buffer>>

terminal_putentryat(c, color, x, y) ==
  terminal_buffer' = [terminal_buffer EXCEPT ![y * VGA_WIDTH + x] = vga_entry(c, color)]

RowBelowUnlimited == terminal_row + 1

(* The last row is followed by the first. *)
RowBelow == IF terminal_row + 1 = VGA_HEIGHT THEN 0 ELSE terminal_row + 1

PutCharacter(c) ==
  /\ terminal_putentryat(c, terminal_color, terminal_column, terminal_row)
  /\ IF terminal_column + 1 = VGA_WIDTH
     THEN terminal_column' = 0 /\ terminal_row' = RowBelow
     ELSE terminal_column' = terminal_column + 1 /\ UNCHANGED terminal_row

BreakLineDownOnly ==
  /\ terminal_row' = RowBelow
  /\ UNCHANGED <<terminal_column, terminal_buffer>>

BreakLine ==
  /\ terminal_row' = RowBelow
  /\ terminal_column' = 0
  /\ UNCHANGED terminal_buffer

terminal_putchar(c) ==
  /\ IF c # Newline THEN PutCharacter(c) ELSE BreakLine
  /\ UNCHANGED terminal_color

=============================================================================
