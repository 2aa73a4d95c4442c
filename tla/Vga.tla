-------------------------------- MODULE Vga --------------------------------
(***************************************************************************)
(* The text terminal of drivers/vga.c, as functions of its state: a record *)
(* of the cells of the screen in row order, the cursor column x and row y, *)
(* and pos, the position programmed into the CRT controller.  The colour   *)
(* attribute is the same for every cell and is left out.                   *)
(*                                                                         *)
(* No interrupt handler writes to the screen, so a call is one step;       *)
(* vga_puts and vga_write are a step per character, in Console.            *)
(***************************************************************************)
EXTENDS Integers, Sequences

CONSTANTS
  Width, Height,   \* VGA_WIDTH and VGA_HEIGHT (80 and 25)
  TabStop          \* 8

ASSUME VgaAssumption ==
  /\ Width \in Nat \ {0}
  /\ Height \in Nat \ {0}
  /\ TabStop \in Nat \ {0}

Blank == " "
Newline == "\n"
Return == "\r"
Tab == "\t"
Backspace == "BS"
ControlCharacters == {Newline, Return, Tab, Backspace}

CellIndex == 0 .. Width * Height - 1
Cursor(v) == v.y * Width + v.x

(* vga_move_cursor.                                                        *)
MoveCursor(v) == [v EXCEPT !.pos = Cursor(v)]

(* vga_clear.                                                              *)
Clear(v) == MoveCursor([v EXCEPT !.cell = [k \in CellIndex |-> Blank], !.x = 0, !.y = 0])

(* vga_init.                                                               *)
VgaInit == Clear([cell |-> [k \in CellIndex |-> Blank], x |-> 0, y |-> 0, pos |-> 0])

(* Mutant: the last cell of the rows moved up is left out.                 *)
ScrollLate(v) ==
  [v EXCEPT !.cell = [k \in CellIndex |->
     IF k < Width * (Height - 1) - 1 THEN v.cell[k + Width] ELSE Blank]]

(* vga_scroll.                                                             *)
Scroll(v) ==
  [v EXCEPT !.cell = [k \in CellIndex |->
     IF k < Width * (Height - 1) THEN v.cell[k + Width] ELSE Blank]]

(* The branches of vga_putchar on the character.                           *)
Erase(v) ==
  IF v.x > 0 THEN [v EXCEPT !.x = @ - 1, !.cell[Cursor(v) - 1] = Blank] ELSE v

Place(v, c) ==
  CASE c = Newline   -> [v EXCEPT !.x = 0, !.y = @ + 1]
    [] c = Return    -> [v EXCEPT !.x = 0]
    [] c = Tab       -> [v EXCEPT !.x = ((@ + TabStop) \div TabStop) * TabStop]
    [] c = Backspace -> Erase(v)
    [] OTHER         -> [v EXCEPT !.cell[Cursor(v)] = c, !.x = @ + 1]

(* The tail of vga_putchar: wrap, scroll, move the hardware cursor.        *)
(* Mutant: the column one past the last does not wrap.                     *)
WrapLate(v) == IF v.x > Width THEN [v EXCEPT !.x = 0, !.y = @ + 1] ELSE v

Wrap(v) == IF v.x >= Width THEN [v EXCEPT !.x = 0, !.y = @ + 1] ELSE v

ScrollIfBelow(v) == IF v.y >= Height THEN [Scroll(v) EXCEPT !.y = Height - 1] ELSE v

PutChar(v, c) == MoveCursor(ScrollIfBelow(Wrap(Place(v, c))))

=============================================================================
