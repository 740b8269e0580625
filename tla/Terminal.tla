------------------------------ MODULE Terminal ------------------------------
(***************************************************************************)
(* What a user sees of the console: a grid of cells and a cursor, which    *)
(* may wait one step beyond the last column or below the last line.  The   *)
(* module Console implements it by a window on the video memory.           *)
(***************************************************************************)
EXTENDS Integers

CONSTANTS Columns, Lines,
          TabStop,         (* columns between two tab stops                *)
          Kind             (* what a cell may show; BLANK is one of them   *)

BLANK == " "

VARIABLES grid, x, y

terminalVars == <<grid, x, y>>

Column == 0 .. Columns - 1
Line == 0 .. Lines - 1

BlankLine == [c \in Column |-> BLANK]
ShiftedUp == [l \in Line |-> IF l = Lines - 1 THEN BlankLine ELSE grid[l + 1]]
ShiftedDown == [l \in Line |-> IF l = 0 THEN BlankLine ELSE grid[l - 1]]

GoTo(column, line) == x' = column /\ y' = line

(* To the next line, with a scroll at the end of the screen.               *)
LineFeed(column) ==
  \/ y < Lines - 1 /\ GoTo(column, y + 1) /\ UNCHANGED grid
  \/ y >= Lines - 1 /\ GoTo(column, y) /\ grid' = ShiftedUp

(* A character is shown where the cursor is, if that is on the screen, or  *)
(* at the start of the next line.                                          *)
Shown(g, column, line, kind) ==
  IF line \in Line THEN [g EXCEPT ![line][column] = kind] ELSE g

Show(kind) ==
  \/ x < Columns /\ GoTo(x + 1, y) /\ grid' = Shown(grid, x, y, kind)
  \/ x = Columns /\ y < Lines - 1 /\ GoTo(1, y + 1) /\ grid' = Shown(grid, 0, y + 1, kind)
  \/ x = Columns /\ y >= Lines - 1 /\ GoTo(1, y) /\ grid' = Shown(ShiftedUp, 0, y, kind)

ReverseLineFeed ==
  \/ y > 0 /\ GoTo(x, y - 1) /\ UNCHANGED grid
  \/ y = 0 /\ GoTo(x, y) /\ grid' = ShiftedDown

Back == x > 0 /\ GoTo(x - 1, y) /\ UNCHANGED grid
Erase == x > 0 /\ GoTo(x - 1, y) /\ grid' = Shown(grid, x - 1, y, BLANK)

NextStop == x + TabStop - (x % TabStop)
Tab ==
  \/ NextStop <= Columns /\ GoTo(NextStop, y) /\ UNCHANGED grid
  \/ NextStop > Columns /\ LineFeed(NextStop - Columns)

TInit ==
  /\ grid \in [Line -> [Column -> Kind]]
  /\ x \in 0 .. Columns /\ y \in 0 .. Lines

TNext ==
  \/ \E kind \in Kind : Show(kind)
  \/ LineFeed(x) \/ ReverseLineFeed \/ Back \/ Erase \/ Tab
  \/ \E column \in 0 .. Columns, line \in 0 .. Lines : GoTo(column, line) /\ UNCHANGED grid

TSpec == TInit /\ [][TNext]_terminalVars

=============================================================================
