--------------------------- MODULE ConsoleProofs ---------------------------
(***************************************************************************)
(* Proofs about Console and the terminal it prints on, for every size of   *)
(* the screen, of the line and of the history, every prompt and every      *)
(* output.                                                                 *)
(***************************************************************************)
EXTENDS Console, SequenceTheorems, TLAPS

-----------------------------------------------------------------------------
(* The terminal.                                                           *)

Scr(cell, x, y, pos) == [cell |-> cell, x |-> x, y |-> y, pos |-> pos]

(* A state of the terminal between two calls.                              *)
IsScreen(v) ==
  /\ v = Scr(v.cell, v.x, v.y, v.pos)
  /\ v.cell = [k \in CellIndex |-> v.cell[k]]
  /\ v.x \in 0 .. Width - 1
  /\ v.y \in 0 .. Height - 1
  /\ v.pos = Cursor(v)

(* What lies before the cursor of w is what lay before the cursor of v,    *)
(* moved up by d cells, and the character c.                               *)
Shifted(v, w, c, d) ==
  /\ d \in Nat
  /\ Cursor(w) = Cursor(v) + 1 - d
  /\ \A k \in Nat : k < Cursor(w) =>
       w.cell[k] = IF k + d = Cursor(v) THEN c ELSE v.cell[k + d]

(* The fields of a state.                                                  *)
LEMMA ScrFields ==
  ASSUME NEW c, NEW x, NEW y, NEW p
  PROVE  /\ Scr(c, x, y, p).cell = c /\ Scr(c, x, y, p).x = x
         /\ Scr(c, x, y, p).y = y /\ Scr(c, x, y, p).pos = p
  BY DEF Scr

(* The cursor is a cell, and its row is where arithmetic puts it.          *)
LEMMA CursorInRange ==
  ASSUME NEW x \in 0 .. Width - 1, NEW y \in 0 .. Height - 1
  PROVE  /\ y * Width + x \in CellIndex
         /\ y * Width + x \in Nat
         /\ y * Width \in Nat
         /\ y < Height - 1 => y * Width + x < Width * (Height - 1)
         /\ Width * (Height - 1) + Width = Width * Height
         /\ Width * (Height - 1) \in Nat
<1>1. Width \in Nat \ {0} /\ Height \in Nat \ {0} /\ x \in Nat /\ y \in Nat
  BY VgaAssumption
<1> DEFINE d == (Height - 1) - y
<1>2. d \in Nat /\ Height - 1 = y + d
  BY <1>1
<1>3. Width * (y + d) = y * Width + Width * d
  BY <1>1, <1>2
<1>4. Width * d \in Nat /\ (d > 0 => Width * d >= Width)
  BY <1>1, <1>2
<1>5. Width * (Height - 1) + Width = Width * Height /\ Width * (Height - 1) \in Nat
  BY <1>1
<1>6. y * Width \in Nat
  BY <1>1
<1> QED BY <1>1, <1>2, <1>3, <1>4, <1>5, <1>6 DEF CellIndex

(* A state made of fields in their ranges.                                 *)
LEMMA ScrIsScreen ==
  ASSUME NEW cell, cell = [k \in CellIndex |-> cell[k]],
         NEW x \in 0 .. Width - 1, NEW y \in 0 .. Height - 1
  PROVE  /\ IsScreen(Scr(cell, x, y, y * Width + x))
         /\ Cursor(Scr(cell, x, y, y * Width + x)) = y * Width + x
<1> DEFINE n == y * Width + x
           v == Scr(cell, x, y, n)
<1>1. v.cell = cell /\ v.x = x /\ v.y = y /\ v.pos = n
  BY ScrFields
<1>2. v = Scr(v.cell, v.x, v.y, v.pos)
  BY <1>1, Zenon
<1> HIDE DEF v
<1>3. Cursor(v) = y * Width + x
  BY <1>1 DEF Cursor
<1>4. v.cell = [k \in CellIndex |-> v.cell[k]]
  BY <1>1, Zenon
<1>5. IsScreen(v)
  BY <1>1, <1>2, <1>3, <1>4 DEF IsScreen
<1> QED BY <1>3, <1>5 DEF v

(* What wrapping, scrolling and moving the cursor do to the fields.        *)
Moved(cell) == [k \in CellIndex |-> IF k < Width * (Height - 1) THEN cell[k + Width] ELSE Blank]

LEMMA WrapFields ==
  ASSUME NEW cell, NEW x, NEW y, NEW pos
  PROVE  Wrap(Scr(cell, x, y, pos))
           = IF x >= Width THEN Scr(cell, 0, y + 1, pos) ELSE Scr(cell, x, y, pos)
<1> DEFINE v == Scr(cell, x, y, pos)
<1>1. v.x = x /\ v.y = y
  BY ScrFields
<1>2. [v EXCEPT !.x = 0, !.y = y + 1] = Scr(cell, 0, y + 1, pos)
  <2>1. ASSUME NEW e
        PROVE  [v EXCEPT !.x = 0, !.y = e] = Scr(cell, 0, e, pos)
    <3>1. [v EXCEPT !.x = 0] = Scr(cell, 0, y, pos)
      BY DEF Scr
    <3>2. [Scr(cell, 0, y, pos) EXCEPT !.y = e] = Scr(cell, 0, e, pos)
      BY DEF Scr
    <3>3. [v EXCEPT !.x = 0, !.y = e] = [[v EXCEPT !.x = 0] EXCEPT !.y = e]
      OBVIOUS
    <3> QED BY <3>1, <3>2, <3>3
  <2> QED BY <2>1
<1>3. [v EXCEPT !.x = 0, !.y = @ + 1] = [v EXCEPT !.x = 0, !.y = y + 1]
  BY <1>1
<1> HIDE DEF v
<1>4. Wrap(v) = IF x >= Width THEN Scr(cell, 0, y + 1, pos) ELSE v
  BY <1>1, <1>2, <1>3, Zenon DEF Wrap
<1> QED BY <1>4 DEF v

LEMMA ScrollFields ==
  ASSUME NEW cell, NEW x, NEW y, NEW pos
  PROVE  ScrollIfBelow(Scr(cell, x, y, pos))
           = IF y >= Height THEN Scr(Moved(cell), x, Height - 1, pos) ELSE Scr(cell, x, y, pos)
<1> DEFINE v == Scr(cell, x, y, pos)
<1>1. v.y = y /\ v.cell = cell
  BY ScrFields
<1>2. Scroll(v) = [v EXCEPT !.cell = Moved(cell)]
  BY <1>1, Zenon DEF Scroll, Moved
<1>3. [v EXCEPT !.cell = Moved(cell)] = Scr(Moved(cell), x, y, pos)
  <2> HIDE DEF Moved
  <2> QED BY DEF Scr
<1>4. [Scr(Moved(cell), x, y, pos) EXCEPT !.y = Height - 1] = Scr(Moved(cell), x, Height - 1, pos)
  <2> HIDE DEF Moved
  <2> QED BY DEF Scr
<1> HIDE DEF v
<1>5. ScrollIfBelow(v) = IF y >= Height THEN Scr(Moved(cell), x, Height - 1, pos) ELSE v
  BY <1>1, <1>2, <1>3, <1>4, Zenon DEF ScrollIfBelow
<1> QED BY <1>5 DEF v

LEMMA CursorFields ==
  ASSUME NEW cell, NEW x, NEW y, NEW pos
  PROVE  MoveCursor(Scr(cell, x, y, pos)) = Scr(cell, x, y, y * Width + x)
  BY DEF MoveCursor, Cursor, Scr

(* The tail of vga_putchar on a state whose column may be one past the     *)
(* last, or beyond it after a tab.                                         *)
LEMMA TailScreen ==
  ASSUME NEW cell, cell = [k \in CellIndex |-> cell[k]], NEW x \in Nat, NEW y \in 0 .. Height,
         y = Height => x < Width, NEW pos, NEW w,
         w = MoveCursor(ScrollIfBelow(Wrap(Scr(cell, x, y, pos)))),
         NEW nx, nx = IF x >= Width THEN 0 ELSE x,
         NEW ny, ny = IF x >= Width THEN y + 1 ELSE y
  PROVE  /\ IsScreen(w)
         /\ \/ ny < Height /\ w.cell = cell /\ Cursor(w) = ny * Width + nx
            \/ ny = Height /\ w.cell = Moved(cell) /\ Cursor(w) = (Height - 1) * Width + nx
<1>1. nx \in 0 .. Width - 1 /\ ny \in 0 .. Height
  BY VgaAssumption
<1>2. Wrap(Scr(cell, x, y, pos)) = Scr(cell, nx, ny, pos)
  BY WrapFields
<1>3. w = MoveCursor(ScrollIfBelow(Scr(cell, nx, ny, pos)))
  BY <1>2
<1>4. CASE ny < Height
  <2>1. ny \in 0 .. Height - 1 /\ ~(ny >= Height)
    BY <1>1, <1>4, VgaAssumption
  <2>2. w = Scr(cell, nx, ny, ny * Width + nx)
    BY <1>3, <2>1, ScrollFields, CursorFields
  <2>3. IsScreen(w) /\ Cursor(w) = ny * Width + nx
    BY <2>1, <2>2, <1>1, ScrIsScreen
  <2>4. w.cell = cell
    BY <2>2, ScrFields
  <2> QED BY <2>3, <2>4, <1>4
<1>5. CASE ny = Height
  <2>1. Height - 1 \in 0 .. Height - 1 /\ ny >= Height
    BY <1>5, VgaAssumption
  <2>2. w = Scr(Moved(cell), nx, Height - 1, (Height - 1) * Width + nx)
    BY <1>3, <2>1, ScrollFields, CursorFields
  <2>3. Moved(cell) = [k \in CellIndex |-> Moved(cell)[k]]
    BY DEF Moved
  <2>4. IsScreen(w) /\ Cursor(w) = (Height - 1) * Width + nx
    BY <2>1, <2>2, <2>3, <1>1, ScrIsScreen
  <2>5. w.cell = Moved(cell)
    BY <2>2, ScrFields
  <2> QED BY <2>4, <2>5, <1>5
<1> QED BY <1>1, <1>4, <1>5, VgaAssumption

(* On a row of the screen nothing wraps or scrolls.                        *)
LEMMA TailSame ==
  ASSUME NEW cell, cell = [k \in CellIndex |-> cell[k]],
         NEW x \in 0 .. Width - 1, NEW y \in 0 .. Height - 1, NEW pos, NEW w,
         w = MoveCursor(ScrollIfBelow(Wrap(Scr(cell, x, y, pos))))
  PROVE  IsScreen(w) /\ w.cell = cell /\ Cursor(w) = y * Width + x
<1>1. ~(x >= Width) /\ y < Height /\ y \in 0 .. Height /\ x \in Nat /\ y # Height
  BY VgaAssumption
<1>2. x = (IF x >= Width THEN 0 ELSE x) /\ y = (IF x >= Width THEN y + 1 ELSE y)
  BY <1>1
<1>3. /\ IsScreen(w)
      /\ \/ y < Height /\ w.cell = cell /\ Cursor(w) = y * Width + x
         \/ y = Height /\ w.cell = Moved(cell) /\ Cursor(w) = (Height - 1) * Width + x
  BY <1>1, <1>2, TailScreen
<1> QED BY <1>1, <1>3

(* The cell after a cell, over the end of a row and of the screen.         *)
LEMMA NextCell ==
  ASSUME NEW x \in 0 .. Width - 1, NEW y \in 0 .. Height - 1,
         NEW nx, nx = IF x + 1 >= Width THEN 0 ELSE x + 1,
         NEW ny, ny = IF x + 1 >= Width THEN y + 1 ELSE y
  PROVE  /\ ny * Width + nx = (y * Width + x) + 1
         /\ ny = Height => nx = 0 /\ (y * Width + x) + 1 = Width * Height
<1>1. Width \in Nat \ {0} /\ Height \in Nat \ {0}
  BY VgaAssumption
<1>2. CASE x + 1 >= Width
  <2>1. x = Width - 1 /\ nx = 0 /\ ny = y + 1
    BY <1>1, <1>2
  <2>2. (y + 1) * Width = y * Width + Width /\ y * Width \in Int
    BY <1>1
  <2>3. Height * Width = Width * Height
    BY <1>1
  <2> QED BY <2>1, <2>2, <2>3, <1>1
<1>3. CASE ~(x + 1 >= Width)
  <2>1. nx = x + 1 /\ ny = y /\ ny # Height /\ y * Width \in Int
    BY <1>1, <1>3
  <2> QED BY <2>1
<1> QED BY <1>2, <1>3

(* The branches of vga_putchar.                                            *)
LEMMA PlaceFields ==
  ASSUME NEW v, IsScreen(v), NEW c
  PROVE  /\ c \notin ControlCharacters =>
              Place(v, c) = Scr([v.cell EXCEPT ![Cursor(v)] = c], v.x + 1, v.y, v.pos)
         /\ c = Newline => Place(v, c) = Scr(v.cell, 0, v.y + 1, v.pos)
         /\ c = Return => Place(v, c) = Scr(v.cell, 0, v.y, v.pos)
         /\ c = Tab => Place(v, c) = Scr(v.cell, ((v.x + TabStop) \div TabStop) * TabStop, v.y, v.pos)
         /\ c = Backspace =>
              Place(v, c) = IF v.x > 0 THEN Scr([v.cell EXCEPT ![Cursor(v) - 1] = Blank], v.x - 1, v.y, v.pos)
                            ELSE Scr(v.cell, v.x, v.y, v.pos)
<1> DEFINE a == v.cell
           x == v.x
           y == v.y
           p == v.pos
           n == Cursor(v)
<1>v. v = Scr(a, x, y, p)
  BY DEF IsScreen
<1> HIDE DEF a, x, y, p, n
<1>1. ASSUME NEW u, NEW b, NEW z, NEW d, u = Scr(b, z, d, p), NEW e
      PROVE  [u EXCEPT !.x = e] = Scr(b, e, d, p) /\ [u EXCEPT !.y = e] = Scr(b, z, e, p)
  BY <1>1 DEF Scr
<1>2. ASSUME NEW u, NEW z, u = Scr(a, z, y, p), NEW i, NEW f
      PROVE  [u EXCEPT !.cell[i] = f] = Scr([a EXCEPT ![i] = f], z, y, p)
  BY <1>2 DEF Scr
<1>3. [v EXCEPT !.x = 0] = Scr(a, 0, y, p)
  BY <1>v DEF Scr
<1>4. [v EXCEPT !.x = ((x + TabStop) \div TabStop) * TabStop]
        = Scr(a, ((x + TabStop) \div TabStop) * TabStop, y, p)
  BY <1>v, <1>1
<1>5. [v EXCEPT !.x = 0, !.y = y + 1] = Scr(a, 0, y + 1, p)
  <2> DEFINE u == [v EXCEPT !.x = 0]
  <2>1. [v EXCEPT !.x = 0, !.y = y + 1] = [u EXCEPT !.y = y + 1]
    OBVIOUS
  <2>2. u = Scr(a, 0, y, p)
    BY <1>3
  <2> HIDE DEF u
  <2>3. [u EXCEPT !.y = y + 1] = Scr(a, 0, y + 1, p)
    BY <2>2 DEF Scr
  <2> QED BY <2>1, <2>3
<1>6. [v EXCEPT !.cell[n] = c, !.x = x + 1] = Scr([a EXCEPT ![n] = c], x + 1, y, p)
  <2> DEFINE u == [v EXCEPT !.cell[n] = c]
             b == [a EXCEPT ![n] = c]
  <2>1. [v EXCEPT !.cell[n] = c, !.x = x + 1] = [u EXCEPT !.x = x + 1]
    OBVIOUS
  <2>2. u = Scr(b, x, y, p)
    BY <1>v, <1>2
  <2> HIDE DEF u, b
  <2>3. [u EXCEPT !.x = x + 1] = Scr(b, x + 1, y, p)
    BY <2>2 DEF Scr
  <2> QED BY <2>1, <2>3 DEF b
<1>10. [v EXCEPT !.x = x - 1, !.cell[n - 1] = Blank] = Scr([a EXCEPT ![n - 1] = Blank], x - 1, y, p)
  <2> DEFINE u == [v EXCEPT !.x = x - 1]
  <2>1. [v EXCEPT !.x = x - 1, !.cell[n - 1] = Blank] = [u EXCEPT !.cell[n - 1] = Blank]
    OBVIOUS
  <2>2. u = Scr(a, x - 1, y, p)
    BY <1>v DEF Scr
  <2> HIDE DEF u
  <2>3. [u EXCEPT !.cell[n - 1] = Blank] = Scr([a EXCEPT ![n - 1] = Blank], x - 1, y, p)
    BY <2>2 DEF Scr
  <2> QED BY <2>1, <2>3
<1>7. /\ c \notin ControlCharacters => Place(v, c) = [v EXCEPT !.cell[n] = c, !.x = x + 1]
      /\ c = Newline => Place(v, c) = [v EXCEPT !.x = 0, !.y = y + 1]
      /\ c = Return => Place(v, c) = [v EXCEPT !.x = 0]
      /\ c = Tab => Place(v, c) = [v EXCEPT !.x = ((x + TabStop) \div TabStop) * TabStop]
      /\ c = Backspace => Place(v, c) = Erase(v)
  BY DEF Place, ControlCharacters, Newline, Return, Tab, Backspace, x, y, n
<1>8. Erase(v) = IF x > 0 THEN [v EXCEPT !.x = x - 1, !.cell[n - 1] = Blank] ELSE v
  BY DEF Erase, x, n
<1>9. /\ c \notin ControlCharacters => Place(v, c) = Scr([a EXCEPT ![n] = c], x + 1, y, p)
      /\ c = Newline => Place(v, c) = Scr(a, 0, y + 1, p)
      /\ c = Return => Place(v, c) = Scr(a, 0, y, p)
      /\ c = Tab => Place(v, c) = Scr(a, ((x + TabStop) \div TabStop) * TabStop, y, p)
      /\ c = Backspace =>
           Place(v, c) = IF x > 0 THEN Scr([a EXCEPT ![n - 1] = Blank], x - 1, y, p)
                         ELSE Scr(a, x, y, p)
  BY <1>v, <1>3, <1>4, <1>5, <1>6, <1>7, <1>8, <1>10, Zenon
<1> QED BY <1>9, Zenon DEF a, x, y, p, n

(* A character with a glyph is placed at the cursor, and the screen may    *)
(* scroll by a row.                                                        *)
LEMMA PutPrintable ==
  ASSUME NEW v, IsScreen(v), NEW c, c \notin ControlCharacters
  PROVE  IsScreen(PutChar(v, c)) /\ \E d \in {0, Width} : Shifted(v, PutChar(v, c), c, d)
<1> DEFINE w == PutChar(v, c)
           n == Cursor(v)
           cell == [v.cell EXCEPT ![n] = c]
           x == v.x + 1
           nx == IF x >= Width THEN 0 ELSE x
           ny == IF x >= Width THEN v.y + 1 ELSE v.y
<1>1. Place(v, c) = Scr(cell, x, v.y, v.pos)
  BY PlaceFields
<1>2. w = MoveCursor(ScrollIfBelow(Wrap(Scr(cell, x, v.y, v.pos))))
  BY <1>1 DEF PutChar
<1>3. cell = [k \in CellIndex |-> cell[k]] /\ \A k \in CellIndex : cell[k] = IF k = n THEN c ELSE v.cell[k]
  BY DEF IsScreen
<1>4. /\ v.x \in 0 .. Width - 1 /\ v.y \in 0 .. Height - 1 /\ n = v.y * Width + v.x
      /\ x \in Nat /\ v.y \in 0 .. Height /\ (v.y = Height => x < Width)
  BY VgaAssumption DEF IsScreen, Cursor
<1>5. /\ n \in CellIndex /\ n \in Nat /\ v.y * Width \in Nat
      /\ Width * (Height - 1) + Width = Width * Height /\ Width * (Height - 1) \in Nat
      /\ CellIndex = 0 .. Width * Height - 1 /\ Width \in Nat \ {0} /\ Height \in Nat \ {0}
  BY <1>4, CursorInRange, VgaAssumption DEF CellIndex
<1> HIDE DEF w, n, cell, x
<1>6. /\ IsScreen(w)
      /\ \/ ny < Height /\ w.cell = cell /\ Cursor(w) = ny * Width + nx
         \/ ny = Height /\ w.cell = Moved(cell) /\ Cursor(w) = (Height - 1) * Width + nx
  BY <1>2, <1>3, <1>4, TailScreen
<1>7. ny * Width + nx = n + 1 /\ (ny = Height => nx = 0 /\ n + 1 = Width * Height)
  BY <1>4, NextCell DEF x
<1> HIDE DEF nx, ny
<1>8. CASE ny < Height /\ w.cell = cell /\ Cursor(w) = ny * Width + nx
  <2>1. Cursor(w) = n + 1 - 0 /\ 0 \in Nat
    BY <1>5, <1>7, <1>8
  <2>2. ASSUME NEW k \in Nat, k < Cursor(w)
        PROVE  w.cell[k] = IF k + 0 = n THEN c ELSE v.cell[k + 0]
    <3>1. k \in CellIndex /\ k + 0 = k
      BY <2>1, <2>2, <1>5
    <3> QED BY <3>1, <1>3, <1>8
  <2>3. Shifted(v, w, c, 0)
    BY <2>1, <2>2 DEF Shifted, n
  <2> QED BY <2>3, <1>6 DEF w
<1>9. CASE ny = Height /\ w.cell = Moved(cell) /\ Cursor(w) = (Height - 1) * Width + nx
  <2>0. (Height - 1) * Width = Width * (Height - 1)
    BY <1>5
  <2>1. Cursor(w) = n + 1 - Width /\ Cursor(w) = Width * (Height - 1) /\ Width \in Nat
    BY <1>5, <1>7, <1>9, <2>0
  <2>2. ASSUME NEW k \in Nat, k < Cursor(w)
        PROVE  w.cell[k] = IF k + Width = n THEN c ELSE v.cell[k + Width]
    <3>1. k \in CellIndex /\ k + Width \in CellIndex /\ k < Width * (Height - 1)
      BY <2>1, <2>2, <1>5
    <3>2. w.cell[k] = cell[k + Width]
      BY <3>1, <1>9 DEF Moved
    <3> QED BY <3>1, <3>2, <1>3
  <2>3. Shifted(v, w, c, Width)
    BY <2>1, <2>2 DEF Shifted, n
  <2> QED BY <2>3, <1>6 DEF w
<1> QED BY <1>6, <1>8, <1>9

(* The terminal stays within the screen whatever is printed.               *)
LEMMA PutAny ==
  ASSUME NEW v, IsScreen(v), NEW c
  PROVE  IsScreen(PutChar(v, c))
<1>0. /\ v.x \in 0 .. Width - 1 /\ v.y \in 0 .. Height - 1 /\ v.cell = [k \in CellIndex |-> v.cell[k]]
      /\ v.x \in Nat /\ v.y \in 0 .. Height /\ v.y + 1 \in 0 .. Height /\ v.y # Height
      /\ Width > 0 /\ Width \in Nat /\ 0 \in Nat
  BY VgaAssumption DEF IsScreen
<1>1. CASE c \notin ControlCharacters
  BY <1>1, PutPrintable
<1>2. CASE c = Newline
  <2>1. PutChar(v, c) = MoveCursor(ScrollIfBelow(Wrap(Scr(v.cell, 0, v.y + 1, v.pos))))
    BY <1>2, PlaceFields DEF PutChar
  <2> QED BY <2>1, <1>0, TailScreen
<1>3. CASE c = Return
  <2>1. PutChar(v, c) = MoveCursor(ScrollIfBelow(Wrap(Scr(v.cell, 0, v.y, v.pos))))
    BY <1>3, PlaceFields DEF PutChar
  <2> QED BY <2>1, <1>0, TailScreen
<1>4. CASE c = Tab
  <2> DEFINE t == ((v.x + TabStop) \div TabStop) * TabStop
  <2>1. PutChar(v, c) = MoveCursor(ScrollIfBelow(Wrap(Scr(v.cell, t, v.y, v.pos))))
    BY <1>4, PlaceFields DEF PutChar
  <2>2. t \in Nat
    BY <1>0, VgaAssumption
  <2> HIDE DEF t
  <2> QED BY <2>1, <2>2, <1>0, TailScreen
<1>5. CASE c = Backspace
  <2>1. CASE v.x > 0
    <3> DEFINE cell == [v.cell EXCEPT ![Cursor(v) - 1] = Blank]
               t == v.x - 1
    <3>1. PutChar(v, c) = MoveCursor(ScrollIfBelow(Wrap(Scr(cell, t, v.y, v.pos))))
      BY <1>5, <2>1, PlaceFields DEF PutChar
    <3>2. cell = [k \in CellIndex |-> cell[k]] /\ t \in Nat
      BY <1>0, <2>1
    <3> HIDE DEF cell, t
    <3> QED BY <3>1, <3>2, <1>0, TailScreen
  <2>2. CASE ~(v.x > 0)
    <3>1. PutChar(v, c) = MoveCursor(ScrollIfBelow(Wrap(Scr(v.cell, v.x, v.y, v.pos))))
      BY <1>5, <2>2, PlaceFields DEF PutChar
    <3> QED BY <3>1, <1>0, TailScreen
  <2> QED BY <2>1, <2>2
<1> QED BY <1>1, <1>2, <1>3, <1>4, <1>5 DEF ControlCharacters

(* A backspace takes the cursor back by one cell, within its row, and      *)
(* leaves what lies before it.                                             *)
LEMMA PutBackspace ==
  ASSUME NEW v, IsScreen(v)
  PROVE  /\ Cursor(PutChar(v, Backspace)) = Cursor(v) - (IF v.x = 0 THEN 0 ELSE 1)
         /\ \A k \in Nat : k < Cursor(PutChar(v, Backspace)) =>
              PutChar(v, Backspace).cell[k] = v.cell[k]
<1> DEFINE w == PutChar(v, Backspace)
           n == Cursor(v)
<1> SUFFICES /\ Cursor(w) = n - (IF v.x = 0 THEN 0 ELSE 1)
             /\ \A k \in Nat : k < Cursor(w) => w.cell[k] = v.cell[k]
  OBVIOUS
<1>0. /\ v.x \in 0 .. Width - 1 /\ v.y \in 0 .. Height - 1 /\ v.cell = [k \in CellIndex |-> v.cell[k]]
      /\ n = v.y * Width + v.x
  BY DEF IsScreen, Cursor
<1>1. v.y * Width \in Nat /\ n \in Nat /\ n \in CellIndex
  BY <1>0, CursorInRange
<1>2. CellIndex = 0 .. Width * Height - 1 /\ Width * Height \in Nat
  BY VgaAssumption DEF CellIndex
<1>3. CASE v.x > 0
  <2> DEFINE cell == [v.cell EXCEPT ![n - 1] = Blank]
             t == v.x - 1
  <2>1. w = MoveCursor(ScrollIfBelow(Wrap(Scr(cell, t, v.y, v.pos))))
    BY <1>3, PlaceFields DEF PutChar
  <2>2. cell = [k \in CellIndex |-> cell[k]]
    BY <1>0
  <2>3. \A k \in CellIndex : k # n - 1 => cell[k] = v.cell[k]
    BY <1>0
  <2>4. t \in 0 .. Width - 1
    BY <1>0, <1>3, VgaAssumption
  <2> HIDE DEF cell, w, n, t
  <2>5. w.cell = cell /\ Cursor(w) = v.y * Width + t
    BY <2>1, <2>2, <2>4, <1>0, TailSame
  <2>6. Cursor(w) = n - 1
    BY <2>5, <1>0, <1>1 DEF t
  <2>7. \A k \in Nat : k < Cursor(w) => w.cell[k] = v.cell[k]
    <3> SUFFICES ASSUME NEW k \in Nat, k < n - 1 PROVE w.cell[k] = v.cell[k]
      BY <2>6
    <3>1. k \in CellIndex /\ k # n - 1
      BY <1>1, <1>2
    <3> QED BY <3>1, <2>3, <2>5
  <2>8. v.x # 0
    BY <1>3, <1>0
  <2> QED BY <2>6, <2>7, <2>8
<1>4. CASE v.x = 0
  <2>1. w = MoveCursor(ScrollIfBelow(Wrap(Scr(v.cell, v.x, v.y, v.pos))))
    <3>1. ~(v.x > 0)
      BY <1>4
    <3>2. Place(v, Backspace) = Scr(v.cell, v.x, v.y, v.pos)
      BY <3>1, PlaceFields, Zenon
    <3> QED BY <3>2 DEF PutChar
  <2> HIDE DEF w, n
  <2>2. w.cell = v.cell /\ Cursor(w) = n
    BY <2>1, <1>0, TailSame
  <2>3. n - 0 = n
    BY <1>1
  <2>4. Cursor(w) = n - (IF v.x = 0 THEN 0 ELSE 1)
    BY <2>2, <2>3, <1>4
  <2>5. \A k \in Nat : k < Cursor(w) => w.cell[k] = v.cell[k]
    BY <2>2
  <2> QED BY <2>4, <2>5
<1>5. v.x > 0 \/ v.x = 0
  BY <1>0
<1> QED BY <1>3, <1>4, <1>5, Zenon

(* vga_clear.                                                              *)
LEMMA ClearScreen ==
  ASSUME NEW v, v = Scr(v.cell, v.x, v.y, v.pos)
  PROVE  IsScreen(Clear(v))
<1> DEFINE blank == [k \in CellIndex |-> Blank]
<1>1. blank = [k \in CellIndex |-> blank[k]]
  OBVIOUS
<1> HIDE DEF blank
<1>2. Clear(v) = MoveCursor(Scr(blank, 0, 0, v.pos))
  <2>1. [v EXCEPT !.cell = blank, !.x = 0, !.y = 0] = Scr(blank, 0, 0, v.pos)
    <3> DEFINE a == v.cell
               x == v.x
               y == v.y
               p == v.pos
               u == [v EXCEPT !.cell = blank]
               t == [u EXCEPT !.x = 0]
    <3>0. [v EXCEPT !.cell = blank, !.x = 0, !.y = 0] = [t EXCEPT !.y = 0]
      OBVIOUS
    <3>1. v = Scr(a, x, y, p)
      OBVIOUS
    <3> HIDE DEF a, x, y, p
    <3>2. u = Scr(blank, x, y, p)
      BY <3>1 DEF Scr
    <3> HIDE DEF u
    <3>3. t = Scr(blank, 0, y, p)
      BY <3>2 DEF Scr
    <3> HIDE DEF t
    <3>4. [t EXCEPT !.y = 0] = Scr(blank, 0, 0, p)
      BY <3>3 DEF Scr
    <3> QED BY <3>0, <3>4 DEF p
  <2> QED BY <2>1 DEF Clear, blank
<1>3. Clear(v) = Scr(blank, 0, 0, 0 * Width + 0)
  BY <1>2, CursorFields
<1>4. 0 \in 0 .. Width - 1 /\ 0 \in 0 .. Height - 1
  BY VgaAssumption
<1> QED BY <1>1, <1>3, <1>4, ScrIsScreen

-----------------------------------------------------------------------------
(* The session.                                                            *)

(* The variables of Console, with the terminal between two calls.          *)
ConsoleTypes ==
  /\ IsScreen(screen)
  /\ IsLine(line)
  /\ history \in [0 .. MAX_HISTORY - 1 -> Seq(Letters)]
  /\ \A k \in 0 .. MAX_HISTORY - 1 : IsLine(history[k])
  /\ hist_count \in 0 .. MaxLines
  /\ swallowed \in Nat
  /\ printed \in 0 .. Len(Prompt)
  /\ pc \in {"prompt", "getline", "execute", "output", "farewell", "terminated"}
  /\ entered \in Seq(Seq(Letters))

(* What has been printed of the prompt stands before the cursor.           *)
PromptSoFar ==
  /\ pc # "prompt" => printed = 0
  /\ \A k \in 1 .. printed :
       Cursor(screen) >= k => screen.cell[Cursor(screen) - k] = Prompt[printed - k + 1]

(* The inductive invariant.                                                *)
ConsoleInv ==
  /\ ConsoleTypes /\ PromptSoFar
  /\ EchoExact /\ PromptKept /\ HistoryKeepsLast

(* The cursor is a number.                                                 *)
LEMMA CursorNat ==
  ASSUME NEW v, IsScreen(v)
  PROVE  Cursor(v) \in Nat
  BY CursorInRange DEF IsScreen, Cursor

LEMMA InitInv == Init => ConsoleInv
<1> SUFFICES ASSUME Init PROVE ConsoleInv
  OBVIOUS
<1>1. IsScreen(screen)
  <2> DEFINE v == [cell |-> [k \in CellIndex |-> Blank], x |-> 0, y |-> 0, pos |-> 0]
  <2>1. v = Scr(v.cell, v.x, v.y, v.pos)
    BY DEF Scr
  <2>2. screen = Clear(v)
    BY DEF Init, VgaInit
  <2> HIDE DEF v
  <2> QED BY <2>1, <2>2, ClearScreen
<1>2. IsLine(NoLine) /\ NoLine \in Seq(Letters)
  BY ConsoleAssumption DEF IsLine, NoLine
<1>3. ConsoleTypes
  BY <1>1, <1>2, ConsoleAssumption DEF Init, ConsoleTypes
<1>4. PromptSoFar /\ EchoExact /\ PromptKept
  BY DEF Init, PromptSoFar, EchoExact, PromptKept
<1>5. HistoryKeepsLast
  BY DEF Init, HistoryKeepsLast
<1> QED BY <1>3, <1>4, <1>5 DEF ConsoleInv

LEMMA PrintPromptInv == ConsoleInv /\ PrintPrompt => ConsoleInv'
<1> SUFFICES ASSUME ConsoleInv, PrintPrompt PROVE ConsoleInv'
  OBVIOUS
<1> DEFINE c == Prompt[printed + 1]
           n == Cursor(screen)
<1>1. /\ pc = "prompt" /\ pc' = pc /\ printed < Len(Prompt) /\ printed' = printed + 1
      /\ screen' = PutChar(screen, c)
      /\ UNCHANGED <<line, history, hist_count, swallowed, entered>>
  BY DEF PrintPrompt
<1>2. IsScreen(screen) /\ printed \in 0 .. Len(Prompt) /\ Len(Prompt) \in Nat
  BY ConsoleAssumption DEF ConsoleInv, ConsoleTypes
<1>3. c \notin ControlCharacters
  BY <1>1, <1>2, ConsoleAssumption
<1> HIDE DEF c
<1>4. IsScreen(screen') /\ \E d \in {0, Width} : Shifted(screen, screen', c, d)
  BY <1>1, <1>2, <1>3, PutPrintable
<1>5. PICK d : Shifted(screen, screen', c, d)
  BY <1>4
<1>6. n \in Nat /\ Cursor(screen') \in Nat
  BY <1>2, <1>4, CursorNat
<1> HIDE DEF n
<1>7. PromptSoFar'
  <2> SUFFICES ASSUME NEW k \in 1 .. printed + 1, Cursor(screen') >= k
               PROVE  screen'.cell[Cursor(screen') - k] = Prompt[(printed + 1) - k + 1]
    BY <1>1 DEF PromptSoFar, Cursor
  <2> DEFINE m == Cursor(screen') - k
  <2>1. m \in Nat /\ m < Cursor(screen') /\ d \in Nat /\ m + d = (n + 1) - k
    BY <1>5, <1>6, <1>2 DEF Shifted, n
  <2>2. screen'.cell[m] = IF m + d = n THEN c ELSE screen.cell[m + d]
    BY <2>1, <1>5 DEF Shifted, n
  <2>3. CASE k = 1
    <3>1. m + d = n /\ (printed + 1) - k + 1 = printed + 1
      BY <2>1, <2>3, <1>2, <1>6
    <3> QED BY <3>1, <2>2 DEF c
  <2>4. CASE k # 1
    <3> DEFINE j == k - 1
    <3>1. j \in 1 .. printed /\ n >= j /\ m + d = n - j /\ m + d # n
          /\ (printed + 1) - k + 1 = printed - j + 1
      BY <2>1, <2>4, <1>2, <1>6
    <3>2. screen.cell[n - j] = Prompt[printed - j + 1]
      BY <3>1 DEF ConsoleInv, PromptSoFar, n
    <3> QED BY <3>1, <3>2, <2>2
  <2> QED BY <2>3, <2>4
<1>8. ConsoleTypes'
  BY <1>1, <1>2, <1>4 DEF ConsoleInv, ConsoleTypes
<1>9. EchoExact' /\ PromptKept'
  BY <1>1 DEF EchoExact, PromptKept
<1>10. HistoryKeepsLast'
  BY <1>1 DEF ConsoleInv, HistoryKeepsLast
<1> QED BY <1>7, <1>8, <1>9, <1>10 DEF ConsoleInv

LEMMA StartLineInv == ConsoleInv /\ StartLine => ConsoleInv'
<1> SUFFICES ASSUME ConsoleInv, StartLine PROVE ConsoleInv'
  OBVIOUS
<1>1. /\ pc = "prompt" /\ pc' = "getline" /\ printed = Len(Prompt) /\ printed' = 0
      /\ line' = NoLine /\ swallowed' = 0
      /\ UNCHANGED <<screen, history, hist_count, entered>>
  BY DEF StartLine
<1>2. IsScreen(screen) /\ Len(Prompt) \in Nat /\ Cursor(screen) \in Nat
  BY ConsoleAssumption, CursorNat DEF ConsoleInv, ConsoleTypes
<1>3. IsLine(NoLine) /\ Len(NoLine) = 0
  BY ConsoleAssumption DEF IsLine, NoLine
<1>4. ConsoleTypes'
  BY <1>1, <1>2, <1>3, ConsoleAssumption DEF ConsoleInv, ConsoleTypes
<1>5. EchoExact' /\ PromptSoFar'
  BY <1>1, <1>3 DEF EchoExact, PromptSoFar
<1>6. PromptKept'
  <2>1. Cursor(screen') - Len(line') - swallowed' = Cursor(screen)
    BY <1>1, <1>2, <1>3
  <2>2. \A k \in 1 .. Len(Prompt) :
          Cursor(screen) >= k => screen.cell[Cursor(screen) - k] = Prompt[Len(Prompt) - k + 1]
    BY <1>1 DEF ConsoleInv, PromptSoFar
  <2> QED BY <1>1, <2>1, <2>2 DEF PromptKept
<1>7. HistoryKeepsLast'
  BY <1>1 DEF ConsoleInv, HistoryKeepsLast
<1> QED BY <1>4, <1>5, <1>6, <1>7 DEF ConsoleInv

(* The steps that leave the screen, and the line being edited, alone.      *)
LEMMA ReturnFullInv == ConsoleInv /\ ReturnFull => ConsoleInv'
<1> SUFFICES ASSUME ConsoleInv, ReturnFull PROVE ConsoleInv'
  OBVIOUS
<1>1. /\ pc = "getline" /\ pc' = "execute"
      /\ UNCHANGED <<screen, line, history, hist_count, printed, text, swallowed, entered>>
  BY DEF ReturnFull
<1>2. ConsoleTypes' /\ PromptSoFar'
  BY <1>1 DEF ConsoleInv, ConsoleTypes, PromptSoFar
<1>3. EchoExact' /\ PromptKept' /\ HistoryKeepsLast'
  BY <1>1 DEF ConsoleInv, EchoExact, PromptKept, HistoryKeepsLast
<1> QED BY <1>2, <1>3 DEF ConsoleInv

(* A character typed is echoed and appended: the line, the characters      *)
(* ignored backspaces left and the prompt all move with the screen.        *)
LEMMA LetterInv ==
  ASSUME ConsoleInv, NEW c \in Letters, Letter(c)
  PROVE  ConsoleInv'
<1> DEFINE n == Cursor(screen)
           m == Cursor(screen')
           L == Len(line)
<1>1. /\ pc = "getline" /\ pc' = pc /\ ~LineFull(line)
      /\ line' = Append(line, c) /\ screen' = PutChar(screen, c)
      /\ UNCHANGED <<history, hist_count, printed, text, swallowed, entered>>
  BY DEF Letter, Reading
<1>2. IsScreen(screen) /\ line \in Seq(Letters) /\ L \in Nat /\ swallowed \in Nat
      /\ L < MAX_LINE /\ MAX_LINE \in Nat /\ ~(L >= MAX_LINE - 1)
  BY <1>1, ConsoleAssumption DEF ConsoleInv, ConsoleTypes, IsLine, LineFull
<1>3. c \notin ControlCharacters
  BY ConsoleAssumption
<1>4. IsScreen(screen') /\ \E d \in {0, Width} : Shifted(screen, screen', c, d)
  BY <1>1, <1>2, <1>3, PutPrintable
<1>5. PICK d : Shifted(screen, screen', c, d)
  BY <1>4
<1>6. n \in Nat /\ m \in Nat
  BY <1>2, <1>4, CursorNat
<1>7. d \in Nat /\ m = n + 1 - d
      /\ \A k \in Nat : k < m => screen'.cell[k] = IF k + d = n THEN c ELSE screen.cell[k + d]
  BY <1>5 DEF Shifted
<1>8. line' \in Seq(Letters) /\ Len(line') = L + 1 /\ line'[L + 1] = c
      /\ \A k \in 1 .. L : line'[k] = line[k]
  BY <1>1, <1>2, AppendProperties
<1> HIDE DEF n, m, L
<1>9. ConsoleTypes'
  <2>1. IsLine(line')
    BY <1>2, <1>8 DEF IsLine
  <2> QED BY <1>1, <1>4, <2>1 DEF ConsoleInv, ConsoleTypes
<1>10. PromptSoFar'
  BY <1>1 DEF ConsoleInv, PromptSoFar
<1>11. EchoExact'
  <2> SUFFICES ASSUME swallowed = 0, NEW k \in 1 .. L + 1, m >= k
               PROVE  screen'.cell[m - k] = line'[(L + 1) - k + 1]
    BY <1>1, <1>8 DEF EchoExact, m
  <2> DEFINE j == m - k
  <2>1. j \in Nat /\ j < m /\ d \in Nat /\ j + d = (n + 1) - k
    BY <1>2, <1>6, <1>7
  <2>2. screen'.cell[j] = IF j + d = n THEN c ELSE screen.cell[j + d]
    BY <2>1, <1>7
  <2>3. CASE k = 1
    <3>1. j + d = n /\ (L + 1) - k + 1 = L + 1
      BY <2>1, <2>3, <1>2, <1>6
    <3> QED BY <3>1, <2>2, <1>8
  <2>4. CASE k # 1
    <3> DEFINE h == k - 1
    <3>1. h \in 1 .. L /\ n >= h /\ j + d = n - h /\ j + d # n
          /\ (L + 1) - k + 1 = L - h + 1 /\ L - h + 1 \in 1 .. L
      BY <2>1, <2>4, <1>2, <1>6
    <3>2. screen.cell[n - h] = line[L - h + 1]
      BY <3>1, <1>1 DEF ConsoleInv, EchoExact, n, L
    <3> QED BY <3>1, <3>2, <2>2, <1>8
  <2> QED BY <2>3, <2>4
<1>12. PromptKept'
  <2> DEFINE start == n - L - swallowed
             start1 == m - (L + 1) - swallowed
  <2>1. start \in Int /\ start1 = start - d /\ start <= n /\ start1 < m
    BY <1>2, <1>6, <1>7
  <2>2. \A k \in 1 .. Len(Prompt) :
          start >= k => screen.cell[start - k] = Prompt[Len(Prompt) - k + 1]
    BY <1>1 DEF ConsoleInv, PromptKept, n, L
  <2> SUFFICES ASSUME NEW k \in 1 .. Len(Prompt), start1 >= k
               PROVE  screen'.cell[start1 - k] = Prompt[Len(Prompt) - k + 1]
    BY <1>1, <1>8 DEF PromptKept, m
  <2> HIDE DEF start, start1
  <2> DEFINE j == start1 - k
  <2>3. j \in Nat /\ j < m /\ j + d = start - k /\ j + d # n /\ start >= k
    BY <2>1, <1>6, <1>7
  <2>4. screen'.cell[j] = screen.cell[j + d]
    BY <2>3, <1>7
  <2> QED BY <2>2, <2>3, <2>4
<1>13. HistoryKeepsLast'
  BY <1>1 DEF ConsoleInv, HistoryKeepsLast
<1> QED BY <1>9, <1>10, <1>11, <1>12, <1>13 DEF ConsoleInv

(* A backspace takes the last character off the line and off the screen,   *)
(* or, at the left edge, off the line only.                                *)
LEMMA BackspaceKeyInv == ConsoleInv /\ BackspaceKey => ConsoleInv'
<1> SUFFICES ASSUME ConsoleInv, BackspaceKey PROVE ConsoleInv'
  OBVIOUS
<1> DEFINE n == Cursor(screen)
           m == Cursor(screen')
           L == Len(line)
           b == IF screen.x = 0 THEN 1 ELSE 0
<1>1. /\ pc = "getline" /\ pc' = pc /\ L > 0
      /\ line' = SubSeq(line, 1, L - 1) /\ screen' = PutChar(screen, Backspace)
      /\ swallowed' = swallowed + b
      /\ UNCHANGED <<history, hist_count, printed, text, entered>>
  BY DEF BackspaceKey, Reading
<1>2. IsScreen(screen) /\ line \in Seq(Letters) /\ L \in Nat /\ swallowed \in Nat
      /\ L < MAX_LINE /\ MAX_LINE \in Nat
  BY ConsoleAssumption DEF ConsoleInv, ConsoleTypes, IsLine
<1>3. IsScreen(screen')
  BY <1>1, <1>2, PutAny
<1>4. n \in Nat /\ m \in Nat /\ b \in {0, 1}
  BY <1>2, <1>3, CursorNat
<1>5. m = n - (1 - b) /\ \A k \in Nat : k < m => screen'.cell[k] = screen.cell[k]
  <2>1. /\ m = n - (IF screen.x = 0 THEN 0 ELSE 1)
        /\ \A k \in Nat : k < m => screen'.cell[k] = screen.cell[k]
    BY <1>1, <1>2, PutBackspace
  <2>2. 1 - b = IF screen.x = 0 THEN 0 ELSE 1
    OBVIOUS
  <2> QED BY <2>1, <2>2
<1>6. line' \in Seq(Letters) /\ Len(line') = L - 1 /\ \A k \in 1 .. L - 1 : line'[k] = line[k]
  <2> HIDE DEF L
  <2>1. L - 1 \in 0 .. L /\ L = Len(line)
    BY <1>1, <1>2 DEF L
  <2> QED BY <1>1, <1>2, <2>1
<1> HIDE DEF n, m, L, b
<1>7. ConsoleTypes'
  <2>1. IsLine(line')
    BY <1>2, <1>6 DEF IsLine
  <2>2. swallowed' \in Nat
    BY <1>1, <1>2, <1>4
  <2> QED BY <1>1, <1>3, <2>1, <2>2 DEF ConsoleInv, ConsoleTypes
<1>8. PromptSoFar'
  BY <1>1 DEF ConsoleInv, PromptSoFar
<1>9. EchoExact'
  <2> SUFFICES ASSUME swallowed' = 0, NEW k \in 1 .. L - 1, m >= k
               PROVE  screen'.cell[m - k] = line'[(L - 1) - k + 1]
    BY <1>1, <1>6 DEF EchoExact, m
  <2>1. swallowed = 0 /\ b = 0 /\ m = n - 1
    BY <1>1, <1>2, <1>4, <1>5
  <2>2. m - k \in Nat /\ m - k < m /\ m - k = n - (k + 1) /\ k + 1 \in 1 .. L /\ n >= k + 1
        /\ (L - 1) - k + 1 = L - (k + 1) + 1 /\ (L - 1) - k + 1 \in 1 .. L - 1
    BY <2>1, <1>2, <1>4
  <2>3. screen.cell[n - (k + 1)] = line[L - (k + 1) + 1]
    BY <2>1, <2>2, <1>1 DEF ConsoleInv, EchoExact, n, L
  <2> QED BY <2>2, <2>3, <1>5, <1>6
<1>10. PromptKept'
  <2> DEFINE start == n - L - swallowed
  <2>1. start \in Int /\ m - (L - 1) - swallowed' = start /\ start <= m
    BY <1>1, <1>2, <1>4, <1>5
  <2>2. \A k \in 1 .. Len(Prompt) :
          start >= k => screen.cell[start - k] = Prompt[Len(Prompt) - k + 1]
    BY <1>1 DEF ConsoleInv, PromptKept, n, L
  <2> HIDE DEF start
  <2> SUFFICES ASSUME NEW k \in 1 .. Len(Prompt), start >= k
               PROVE  screen'.cell[start - k] = Prompt[Len(Prompt) - k + 1]
    BY <1>1, <1>6, <2>1 DEF PromptKept, m
  <2>3. start - k \in Nat /\ start - k < m
    BY <2>1, <1>4
  <2> QED BY <2>2, <2>3, <1>5
<1>11. HistoryKeepsLast'
  BY <1>1 DEF ConsoleInv, HistoryKeepsLast
<1> QED BY <1>7, <1>8, <1>9, <1>10, <1>11 DEF ConsoleInv

(* Two numbers less than MAX_HISTORY apart have different slots.           *)
LEMMA SlotsDiffer ==
  ASSUME NEW S \in Nat \ {0}, NEW a \in Nat, NEW b \in Nat, a < b, b - a < S
  PROVE  (a % S) # (b % S) /\ (a % S) \in 0 .. S - 1 /\ (b % S) \in 0 .. S - 1
<1>1. ASSUME NEW n \in Nat
      PROVE  (n % S) \in 0 .. S - 1 /\ (n \div S) \in Nat /\ n = S * (n \div S) + (n % S)
  OBVIOUS
<1> DEFINE q == a \div S
           p == b \div S
           r == a % S
           t == b % S
<1>2. r \in 0 .. S - 1 /\ q \in Nat /\ a = S * q + r
  BY <1>1
<1>3. t \in 0 .. S - 1 /\ p \in Nat /\ b = S * p + t
  BY <1>1
<1> HIDE DEF q, p, r, t
<1>4. r # t
  <2> SUFFICES ASSUME r = t PROVE FALSE
    OBVIOUS
  <2> DEFINE d == p - q
  <2>1. S * p \in Int /\ S * q \in Int /\ d \in Int /\ p = q + d
    BY <1>2, <1>3
  <2>2. S * p - S * q = b - a
    BY <1>2, <1>3, <2>1
  <2>3. S * (q + d) = S * q + S * d
    BY <1>2, <2>1
  <2>4. S * d = b - a
    BY <2>1, <2>2, <2>3
  <2> HIDE DEF d
  <2>5. d > 0
    BY <2>1, <2>4
  <2>6. S * d >= S
    BY <2>1, <2>5
  <2> QED BY <2>4, <2>6
<1> QED BY <1>2, <1>3, <1>4 DEF r, t

(* A line entered takes the slot of its number, which is that of none of   *)
(* the last MAX_HISTORY - 1 lines before it.                               *)
LEMMA RememberInv ==
  ASSUME HistoryKeepsLast, history \in [0 .. MAX_HISTORY - 1 -> Seq(Letters)],
         entered \in Seq(Seq(Letters)), NEW s \in Seq(Letters),
         Remember(s), entered' = Append(entered, s)
  PROVE  /\ HistoryKeepsLast'
         /\ entered' \in Seq(Seq(Letters))
         /\ history' \in [0 .. MAX_HISTORY - 1 -> Seq(Letters)]
         /\ \A k \in 0 .. MAX_HISTORY - 1 : history'[k] = s \/ history'[k] = history[k]
<1> DEFINE M == MAX_HISTORY
           N == Len(entered)
<1>1. M \in Nat \ {0} /\ N \in Nat /\ hist_count = N /\ hist_count' = N + 1
  BY ConsoleAssumption DEF HistoryKeepsLast, Remember
<1>2. entered' \in Seq(Seq(Letters)) /\ Len(entered') = N + 1 /\ entered'[N + 1] = s
      /\ \A n \in 1 .. N : entered'[n] = entered[n]
  BY AppendProperties
<1>3. (N % M) \in 0 .. M - 1
  BY <1>1
<1>4. /\ history'[N % M] = s
      /\ \A k \in 0 .. M - 1 : k # N % M => history'[k] = history[k]
      /\ history' \in [0 .. M - 1 -> Seq(Letters)]
  BY <1>1, <1>3 DEF Remember
<1> HIDE DEF M, N
<1>5. HistoryKeepsLast'
  <2> SUFFICES ASSUME NEW n \in 1 .. N + 1, n > (N + 1) - M
               PROVE  history'[(n - 1) % M] = entered'[n]
    BY <1>1, <1>2 DEF HistoryKeepsLast, M
  <2>1. CASE n = N + 1
    <3>1. n - 1 = N
      BY <2>1, <1>1
    <3> QED BY <3>1, <2>1, <1>2, <1>4
  <2>2. CASE n # N + 1
    <3>1. n \in 1 .. N /\ n - 1 \in Nat /\ n - 1 < N /\ N - (n - 1) < M /\ n > N - M
      BY <2>2, <1>1
    <3>2. ((n - 1) % M) # (N % M) /\ ((n - 1) % M) \in 0 .. M - 1
      BY <3>1, <1>1, SlotsDiffer
    <3>3. history[(n - 1) % M] = entered[n]
      BY <3>1 DEF HistoryKeepsLast, M, N
    <3> QED BY <3>1, <3>2, <3>3, <1>2, <1>4
  <2> QED BY <2>1, <2>2
<1>6. \A k \in 0 .. M - 1 : history'[k] = s \/ history'[k] = history[k]
  BY <1>4
<1> QED BY <1>2, <1>4, <1>5, <1>6 DEF M

LEMMA EnterKeyInv == ConsoleInv /\ EnterKey => ConsoleInv'
<1> SUFFICES ASSUME ConsoleInv, EnterKey PROVE ConsoleInv'
  OBVIOUS
<1>1. /\ pc = "getline" /\ pc' \in {"prompt", "execute"} /\ screen' = PutChar(screen, Newline)
      /\ UNCHANGED <<line, printed, text, swallowed>>
  BY DEF EnterKey, Reading
<1>2. printed = 0
  BY <1>1 DEF ConsoleInv, PromptSoFar
<1>3. IsScreen(screen')
  BY <1>1, PutAny DEF ConsoleInv, ConsoleTypes
<1>4. PromptSoFar' /\ EchoExact' /\ PromptKept'
  BY <1>1, <1>2 DEF PromptSoFar, EchoExact, PromptKept
<1>5. /\ IsLine(line) /\ line \in Seq(Letters) /\ HistoryKeepsLast
      /\ history \in [0 .. MAX_HISTORY - 1 -> Seq(Letters)]
      /\ entered \in Seq(Seq(Letters))
      /\ \A k \in 0 .. MAX_HISTORY - 1 : IsLine(history[k])
      /\ hist_count \in 0 .. MaxLines
  BY DEF ConsoleInv, ConsoleTypes, IsLine
<1>6. CASE UNCHANGED <<history, hist_count, entered>>
  <2>1. HistoryKeepsLast'
    BY <1>5, <1>6 DEF HistoryKeepsLast
  <2>2. ConsoleTypes'
    BY <1>1, <1>2, <1>3, <1>6, ConsoleAssumption DEF ConsoleInv, ConsoleTypes
  <2> QED BY <2>1, <2>2, <1>4 DEF ConsoleInv
<1>7. CASE hist_count < MaxLines /\ Remember(line) /\ entered' = Append(entered, line)
  <2>1. /\ HistoryKeepsLast'
        /\ entered' \in Seq(Seq(Letters))
        /\ history' \in [0 .. MAX_HISTORY - 1 -> Seq(Letters)]
        /\ \A k \in 0 .. MAX_HISTORY - 1 : history'[k] = line \/ history'[k] = history[k]
    BY <1>5, <1>7, RememberInv
  <2>2. hist_count' \in 0 .. MaxLines
    BY <1>5, <1>7, ConsoleAssumption DEF Remember
  <2>3. \A k \in 0 .. MAX_HISTORY - 1 : IsLine(history'[k])
    BY <1>5, <2>1
  <2>4. ConsoleTypes'
    BY <1>1, <1>2, <1>3, <2>1, <2>2, <2>3, ConsoleAssumption DEF ConsoleInv, ConsoleTypes
  <2> QED BY <2>1, <2>4, <1>4 DEF ConsoleInv
<1> QED BY <1>6, <1>7 DEF EnterKey

LEMMA ExecuteInv == ConsoleInv /\ Execute => ConsoleInv'
<1> SUFFICES ASSUME ConsoleInv, Execute PROVE ConsoleInv'
  OBVIOUS
<1>1. /\ pc = "execute" /\ pc' \in {"prompt", "output", "farewell"}
      /\ screen' = Clear(screen) \/ screen' = screen
      /\ UNCHANGED <<line, history, hist_count, printed, swallowed, entered>>
  BY DEF Execute
<1>2. IsScreen(screen')
  BY <1>1, ClearScreen DEF ConsoleInv, ConsoleTypes, IsScreen
<1>3. printed = 0
  BY <1>1 DEF ConsoleInv, PromptSoFar
<1>4. PromptSoFar' /\ EchoExact' /\ PromptKept'
  BY <1>1, <1>3 DEF PromptSoFar, EchoExact, PromptKept
<1>5. ConsoleTypes' /\ HistoryKeepsLast'
  BY <1>1, <1>2 DEF ConsoleInv, ConsoleTypes, HistoryKeepsLast
<1> QED BY <1>4, <1>5 DEF ConsoleInv

LEMMA OutputInv == ConsoleInv /\ Output => ConsoleInv'
<1> SUFFICES ASSUME ConsoleInv, Output PROVE ConsoleInv'
  OBVIOUS
<1>1. /\ pc \in {"output", "farewell"} /\ pc' \in {"prompt", "output", "farewell", "terminated"}
      /\ screen' = PutChar(screen, Head(text)) \/ screen' = screen
      /\ UNCHANGED <<line, history, hist_count, printed, swallowed, entered>>
  BY DEF Output
<1>2. IsScreen(screen')
  BY <1>1, PutAny DEF ConsoleInv, ConsoleTypes
<1>3. printed = 0
  BY <1>1 DEF ConsoleInv, PromptSoFar
<1>4. PromptSoFar' /\ EchoExact' /\ PromptKept'
  BY <1>1, <1>3 DEF PromptSoFar, EchoExact, PromptKept
<1>5. ConsoleTypes' /\ HistoryKeepsLast'
  BY <1>1, <1>2 DEF ConsoleInv, ConsoleTypes, HistoryKeepsLast
<1> QED BY <1>4, <1>5 DEF ConsoleInv

LEMMA UnchangedInv == ConsoleInv /\ UNCHANGED vars => ConsoleInv'
<1> SUFFICES ASSUME ConsoleInv, UNCHANGED vars PROVE ConsoleInv'
  OBVIOUS
<1>1. ConsoleTypes' /\ PromptSoFar'
  BY DEF vars, ConsoleInv, ConsoleTypes, PromptSoFar
<1>2. EchoExact' /\ PromptKept' /\ HistoryKeepsLast'
  BY DEF vars, ConsoleInv, EchoExact, PromptKept, HistoryKeepsLast
<1> QED BY <1>1, <1>2 DEF ConsoleInv

(* Every step of the session keeps the invariant.                          *)
LEMMA ConsoleInductive == ConsoleInv /\ [Next]_vars => ConsoleInv'
  BY PrintPromptInv, StartLineInv, ReturnFullInv, LetterInv, BackspaceKeyInv, EnterKeyInv,
     ExecuteInv, OutputInv, UnchangedInv
     DEF Next, IgnoredKey, Terminated

-----------------------------------------------------------------------------
(* The invariant holds in every reachable state of the session.            *)
THEOREM ConsoleInvariant == Spec => []ConsoleInv
  BY InitInv, ConsoleInductive, PTL DEF Spec

(* The cursor stays on the screen, whatever is printed on it, and the line *)
(* within its buffer.                                                      *)
THEOREM ConsoleTyped == Spec => []ConsoleTypeOK
<1>1. ConsoleInv => ConsoleTypeOK
  <2> SUFFICES ASSUME ConsoleInv PROVE ConsoleTypeOK
    OBVIOUS
  <2>1. DOMAIN screen.cell = CellIndex
    BY DEF ConsoleInv, ConsoleTypes, IsScreen
  <2>2. DOMAIN history = 0 .. MAX_HISTORY - 1
    BY DEF ConsoleInv, ConsoleTypes
  <2> QED BY <2>1, <2>2 DEF ConsoleInv, ConsoleTypes, IsScreen, ConsoleTypeOK
<1> QED BY <1>1, ConsoleInvariant, PTL

(* While a line is edited the screen shows it, across wraps, scrolls and   *)
(* corrections.                                                            *)
THEOREM EchoAlwaysExact == Spec => []EchoExact
<1>1. ConsoleInv => EchoExact
  BY DEF ConsoleInv
<1> QED BY <1>1, ConsoleInvariant, PTL

(* No sequence of keys erases the prompt.                                  *)
THEOREM PromptAlwaysKept == Spec => []PromptKept
<1>1. ConsoleInv => PromptKept
  BY DEF ConsoleInv
<1> QED BY <1>1, ConsoleInvariant, PTL

(* The history ring holds the last MAX_HISTORY lines, for every length of  *)
(* the session.                                                            *)
THEOREM HistoryAlwaysLast == Spec => []HistoryKeepsLast
<1>1. ConsoleInv => HistoryKeepsLast
  BY DEF ConsoleInv
<1> QED BY <1>1, ConsoleInvariant, PTL
=============================================================================
