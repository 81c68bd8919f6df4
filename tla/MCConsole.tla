------------------------------- MODULE MCConsole -------------------------------
(* A small screen, and numbers of eight bits, to check Console with.        *)
EXTENDS Console

(* The first and last numbers of one, two and three digits, and one with    *)
(* the digits 9 and A, on either side of nibble_to_hex's border.           *)
SomeNumbers == {0, 9, 10, 99, 100, 154, 255}

(* "\n", and "OK\n", which fills a row of two and is followed by an empty   *)
(* one.                                                                    *)
SomeTexts == {<<10>>, <<79, 75, 10>>}

TwoColors == {7, 4}

=============================================================================
