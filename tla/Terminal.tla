------------------------------ MODULE Terminal ------------------------------
(***************************************************************************)
(* What the console promises to whoever writes to it: a screen of Lines    *)
(* rows of Columns cells and a cursor, which may stand one column behind   *)
(* the last one.  Escape sequences, video memory addresses and the moving  *)
(* window of an EGA adapter are invisible.                                 *)
(***************************************************************************)
EXTENDS Integers

CONSTANTS Lines, Columns, Glyph, Blank

VARIABLES screen, x, y, top, bottom

vars == <<screen, x, y, top, bottom>>

Rows == 0 .. Lines - 1
Cols == 0 .. Columns - 1
BlankRow == [c \in Cols |-> Blank]

Init ==
  /\ screen \in [Rows -> [Cols -> Glyph]]
  /\ x \in 0 .. Columns /\ y \in Rows
  /\ top = 0 /\ bottom = Lines

\* Rows t .. b - 1 move n rows up or down; blank rows follow.
Up(s, t, b, n) == [r \in Rows |->
  IF r \notin t .. b - 1 THEN s[r] ELSE IF r + n < b THEN s[r + n] ELSE BlankRow]

Down(s, t, b, n) == [r \in Rows |->
  IF r \notin t .. b - 1 THEN s[r] ELSE IF r - n >= t THEN s[r - n] ELSE BlankRow]

\* A line feed scrolls the region when the cursor is on its last line or below.
AtBottom  == y + 1 >= bottom
AfterFeed == IF AtBottom THEN Up(screen, top, bottom, 1) ELSE screen
RowAfterFeed == IF AtBottom THEN y ELSE y + 1

Type(g) ==
  /\ IF x < Columns
       THEN screen' = [screen EXCEPT ![y][x] = g] /\ x' = x + 1 /\ y' = y
       ELSE /\ screen' = [AfterFeed EXCEPT ![RowAfterFeed][0] = g]
            /\ x' = 1 /\ y' = RowAfterFeed
  /\ UNCHANGED <<top, bottom>>

\* A line feed, or a tabulator that ends on the next line.
Feed ==
  /\ screen' = AfterFeed /\ y' = RowAfterFeed /\ x' \in 0 .. x
  /\ UNCHANGED <<top, bottom>>

ReverseFeed ==
  /\ screen' = (IF y <= top THEN Down(screen, top, bottom, 1) ELSE screen)
  /\ y' = (IF y <= top THEN y ELSE y - 1)
  /\ UNCHANGED <<x, top, bottom>>

Move ==
  /\ x' \in 0 .. Columns /\ y' \in Rows
  /\ UNCHANGED <<screen, top, bottom>>

\* The cells from one position to another one, in reading order.
Erase(from, to) ==
  /\ screen' = [r \in Rows |-> [c \in Cols |->
       IF r * Columns + c \in from .. to - 1 THEN Blank ELSE screen[r][c]]]
  /\ UNCHANGED <<x, y, top, bottom>>

Cursor == y * Columns + x

EraseDisplay == \/ Erase(Cursor, Lines * Columns)
                \/ Erase(0, Cursor)
                \/ Erase(0, Lines * Columns)

EraseLine == \/ Erase(Cursor, (y + 1) * Columns)
             \/ Erase(y * Columns, Cursor)
             \/ Erase(y * Columns, (y + 1) * Columns)

Rubout ==
  /\ x > 0
  /\ screen' = [screen EXCEPT ![y][x - 1] = Blank]
  /\ x' = x - 1
  /\ UNCHANGED <<y, top, bottom>>

ChangeRow(row) ==
  /\ screen' = [screen EXCEPT ![y] = row]
  /\ UNCHANGED <<x, y, top, bottom>>

InsertChars(n) == ChangeRow([c \in Cols |->
  IF c < x THEN screen[y][c] ELSE IF c - n >= x THEN screen[y][c - n] ELSE Blank])

DeleteChars(n) == ChangeRow([c \in Cols |->
  IF c < x THEN screen[y][c] ELSE IF c + n < Columns THEN screen[y][c + n] ELSE Blank])

\* Lines are inserted and deleted down to the end of the screen, whatever the
\* scrolling region is.
InsertLines(n) ==
  screen' = Down(screen, y, Lines, n) /\ UNCHANGED <<x, y, top, bottom>>

DeleteLines(n) ==
  screen' = Up(screen, y, Lines, n) /\ UNCHANGED <<x, y, top, bottom>>

SetRegion ==
  /\ top' \in Rows /\ bottom' \in 1 .. Lines /\ top' < bottom'
  /\ UNCHANGED <<screen, x, y>>

Next ==
  \/ \E g \in Glyph : Type(g)
  \/ Feed \/ ReverseFeed \/ Move \/ Rubout \/ EraseDisplay \/ EraseLine
  \/ \E n \in 1 .. Columns : InsertChars(n) \/ DeleteChars(n)
  \/ \E n \in 1 .. Lines : InsertLines(n) \/ DeleteLines(n)
  \/ SetRegion

Spec == Init /\ [][Next]_vars
=============================================================================
