------------------------------- MODULE Console -------------------------------
(***************************************************************************)
(* The console, kernel/chr_drv/console.c: con_write() with its parser of   *)
(* escape sequences, the cursor, and the video memory with the window of   *)
(* an EGA adapter moving through it.                                       *)
(*                                                                         *)
(* An address counts character cells (two bytes) from video_mem_start.     *)
(* con_write() handles one character per step, as in a call with one       *)
(* character queued; where the characters come from, and what happens when *)
(* con_write() is entered again, is in Tty.  Attributes are left out: a    *)
(* cell is its character.                                                  *)
(***************************************************************************)
EXTENDS Integers, FiniteSets

CONSTANTS
  Columns, Lines,  \* video_num_columns, video_num_lines
  VideoMem,        \* video_mem_end, in cells
  TabStop,         \* 8 in the code
  NPAR,            \* 16 in the code
  ULONG,           \* the number of values of an unsigned long
  Glyph, Blank,    \* the printable characters that are written; video_erase_char
  Digit,           \* the digits that are written
  Foreign,         \* contents of memory that is not the adapter's
  MaxMarks         \* bound: cells of the adapter that are not blank

\* Scrolling moves two cells at a time.
ASSUME ScreenAssumption ==
  /\ Lines \in Nat \ {0} /\ Columns \in Nat \ {0} /\ Columns % 2 = 0
  /\ TabStop \in 1 .. Columns
  /\ VideoMem \in Nat /\ VideoMem >= Lines * Columns
ASSUME ParserAssumption ==
  /\ NPAR \in Nat /\ NPAR >= 2
  /\ ULONG \in Nat /\ ULONG > Lines /\ ULONG > Columns
  /\ Digit \subseteq 0 .. 9
ASSUME CellAssumption ==
  /\ Blank \in Glyph /\ Foreign \notin Glyph   \* a space can be written as well
  /\ MaxMarks \in Nat

VARIABLES
  scr,        \* the display and the variables that describe it
  state,      \* where the parser is in an escape sequence
  npar, par,  \* the parameters of the sequence
  saved,      \* saved_x, saved_y
  video_type

vars == <<scr, state, npar, par, saved, video_type>>

\* Some memory on either side, to see what is written outside.
Address == -Columns .. VideoMem + Columns - 1
Video   == 0 .. VideoMem - 1

\* con_init().  shown and cursor are the adapter's registers.
Init ==
  /\ video_type \in {"EGA", "CGA"}
  /\ scr = [mem |-> [a \in Address |-> IF a \in Video THEN Blank ELSE Foreign],
            origin |-> 0, scr_end |-> Lines * Columns, top |-> 0, bottom |-> Lines,
            x |-> 0, y |-> 0, pos |-> 0, shown |-> 0, cursor |-> 0]
  /\ state = 0 /\ npar = 0 /\ par = [i \in 0 .. NPAR - 1 |-> 0]
  /\ saved = <<0, 0>>

-----------------------------------------------------------------------------
(* Writing to memory: n cells from `to'.                                   *)

Fill(mem, to, n) ==
  [a \in Address |-> IF a \in to .. to + n - 1 THEN Blank ELSE mem[a]]

\* movsl moves pairs of cells; the ranges may overlap in the direction used.
Copied(mem, to, from, n) ==
  [a \in Address |-> IF a \in to .. to + 2 * (n \div 2) - 1 THEN mem[a - to + from] ELSE mem[a]]

Gotoxy(d, x, y) ==
  IF x > Columns \/ y >= Lines THEN d
  ELSE [d EXCEPT !.x = x, !.y = y, !.pos = d.origin + y * Columns + x]

-----------------------------------------------------------------------------
(* Scrolling                                                               *)

\* Not the whole screen, or not an EGA: the lines are copied one line up.
ScrollRegion(d) ==
  LET n == (d.bottom - d.top - 1) * Columns
      to == d.origin + Columns * d.top
  IN  [d EXCEPT !.mem = Fill(Copied(@, to, to + Columns, n), to + 2 * (n \div 2), Columns)]

\* Mutant: the end is tested before it is moved on.
ScrollWindowLate(d) ==
  LET o == d.origin + Columns
      n == (Lines - 1) * Columns
  IN  IF d.scr_end > VideoMem
        THEN [d EXCEPT !.mem = Fill(Copied(@, 0, o, n), 2 * (n \div 2), Columns),
                       !.scr_end = @ + Columns - o, !.pos = @ + Columns - o,
                       !.origin = 0, !.shown = 0]
        ELSE [d EXCEPT !.mem = Fill(@, d.scr_end, Columns),
                       !.scr_end = @ + Columns, !.pos = @ + Columns,
                       !.origin = o, !.shown = o]

\* The window moves on by one line, or back to the start of the memory.
ScrollWindow(d) ==
  LET o == d.origin + Columns
      n == (Lines - 1) * Columns
  IN  IF d.scr_end + Columns > VideoMem
        THEN [d EXCEPT !.mem = Fill(Copied(@, 0, o, n), 2 * (n \div 2), Columns),
                       !.scr_end = @ + Columns - o, !.pos = @ + Columns - o,
                       !.origin = 0, !.shown = 0]
        ELSE [d EXCEPT !.mem = Fill(@, d.scr_end, Columns),
                       !.scr_end = @ + Columns, !.pos = @ + Columns,
                       !.origin = o, !.shown = o]

Scrup(d) ==
  IF video_type = "EGA" /\ d.top = 0 /\ d.bottom = Lines
    THEN ScrollWindow(d) ELSE ScrollRegion(d)

Scrdown(d) ==
  LET n == (d.bottom - d.top - 1) * Columns
      to == d.origin + Columns * (d.top + 1)
  IN  [d EXCEPT !.mem = Fill(Copied(@, to, to - Columns, n), to - Columns, Columns)]

Lf(d) ==
  IF d.y + 1 < d.bottom THEN [d EXCEPT !.y = @ + 1, !.pos = @ + Columns]
  ELSE Scrup(d)

Ri(d) ==
  IF d.y > d.top THEN [d EXCEPT !.y = @ - 1, !.pos = @ - Columns]
  ELSE Scrdown(d)

\* Mutant: pos stays on the next line's column.
NextLineAhead(d) == Lf([d EXCEPT !.x = @ - Columns])

\* What is written past the last column goes to the next line.
NextLine(d) == Lf([d EXCEPT !.x = @ - Columns, !.pos = @ - Columns])

-----------------------------------------------------------------------------
(* Characters outside an escape sequence                                   *)

Put(d, g) ==
  LET e == IF d.x >= Columns THEN NextLine(d) ELSE d
  IN  [e EXCEPT !.mem[e.pos] = g, !.pos = @ + 1, !.x = @ + 1]

Cr(d) == [d EXCEPT !.pos = @ - d.x, !.x = 0]

Backspace(d) == IF d.x > 0 THEN [d EXCEPT !.x = @ - 1, !.pos = @ - 1] ELSE d

Del(d) ==
  LET e == Backspace(d)
  IN  IF d.x > 0 THEN [e EXCEPT !.mem[e.pos] = Blank] ELSE d

\* Mutant: a tabulator does not go to the next line.
TabPast(d) ==
  LET c == TabStop - (d.x % TabStop)
  IN  [d EXCEPT !.x = @ + c, !.pos = @ + c]

Tab(d) ==
  LET c == TabStop - (d.x % TabStop)
      e == [d EXCEPT !.x = @ + c, !.pos = @ + c]
  IN  IF e.x > Columns THEN NextLine(e) ELSE e

Control(c, d) ==
  CASE c \in {"LF", "VT", "FF"} -> Lf(d)
    [] c = "CR"  -> Cr(d)
    [] c = "DEL" -> Del(d)
    [] c = "BS"  -> Backspace(d)
    [] c = "TAB" -> Tab(d)

-----------------------------------------------------------------------------
(* Escape sequences                                                        *)

\* csi_J() and csi_K().
EraseDisplay(d, s) ==
  [d EXCEPT !.mem = CASE s = 0 -> Fill(@, d.pos, d.scr_end - d.pos)
                      [] s = 1 -> Fill(@, d.origin, d.pos - d.origin)
                      [] s = 2 -> Fill(@, d.origin, Columns * Lines)
                      [] OTHER -> @]

EraseLine(d, s) ==
  [d EXCEPT !.mem = CASE s = 0 -> Fill(@, d.pos, Columns - d.x)
                      [] s = 1 -> Fill(@, d.pos - d.x, d.x)
                      [] s = 2 -> Fill(@, d.pos - d.x, Columns)
                      [] OTHER -> @]

InsertChar(d) ==
  [d EXCEPT !.mem = [a \in Address |->
     CASE a = d.pos /\ d.x < Columns -> Blank
       [] a \in d.pos + 1 .. d.pos + Columns - d.x - 1 -> @[a - 1]
       [] OTHER -> @[a]]]

DeleteChar(d) ==
  LET last == d.pos + Columns - d.x - 1
  IN  IF d.x >= Columns THEN d
      ELSE [d EXCEPT !.mem = [a \in Address |->
              CASE a = last -> Blank
                [] a \in d.pos .. last - 1 -> @[a + 1]
                [] OTHER -> @[a]]]

\* The lines from the cursor to the end of the screen are scrolled, with top and
\* bottom changed for the time being.
FromCursor(d)     == [d EXCEPT !.top = d.y, !.bottom = Lines]
WithRegion(d, of) == [d EXCEPT !.top = of.top, !.bottom = of.bottom]
\* Mutant: the region stays changed.
DeleteLineForgets(d) == Scrup(FromCursor(d))

InsertLine(d) == WithRegion(Scrdown(FromCursor(d)), d)
DeleteLine(d) == WithRegion(Scrup(FromCursor(d)), d)

\* csi_at(), csi_L(), csi_P(), csi_M(): at least once, at most `most' times.
Count(nr, most) == IF nr > most THEN most ELSE IF nr = 0 THEN 1 ELSE nr

Times(Op(_), n, d) ==
  LET done[i \in 0 .. n] == IF i = 0 THEN d ELSE Op(done[i - 1])
  IN  done[n]

\* Unsigned arithmetic wraps; gotoxy() then ignores what is off the screen.
Plus(a, b)  == (a + b) % ULONG
Minus(a, b) == (a - b) % ULONG
OneBased(n) == IF n > 0 THEN n - 1 ELSE 0
AtLeast1(n) == IF n = 0 THEN 1 ELSE n

SetRegion(d, t, b) ==
  IF t < b /\ b <= Lines THEN [d EXCEPT !.top = t, !.bottom = b] ELSE d

\* The command c with the parameters p.  "`" is another name of "G", "a" of "C",
\* "e" of "B" and "f" of "H".
Csi(c, p, d) ==
  CASE c = "G" -> Gotoxy(d, OneBased(p[0]), d.y)
    [] c = "A" -> Gotoxy(d, d.x, Minus(d.y, AtLeast1(p[0])))
    [] c = "B" -> Gotoxy(d, d.x, Plus(d.y, AtLeast1(p[0])))
    [] c = "C" -> Gotoxy(d, Plus(d.x, AtLeast1(p[0])), d.y)
    [] c = "D" -> Gotoxy(d, Minus(d.x, AtLeast1(p[0])), d.y)
    [] c = "E" -> Gotoxy(d, 0, Plus(d.y, AtLeast1(p[0])))
    [] c = "F" -> Gotoxy(d, 0, Minus(d.y, AtLeast1(p[0])))
    [] c = "d" -> Gotoxy(d, d.x, OneBased(p[0]))
    [] c = "H" -> Gotoxy(d, OneBased(p[1]), OneBased(p[0]))
    [] c = "J" -> EraseDisplay(d, p[0])
    [] c = "K" -> EraseLine(d, p[0])
    [] c = "L" -> Times(InsertLine, Count(p[0], Lines), d)
    [] c = "M" -> Times(DeleteLine, Count(p[0], Lines), d)
    [] c = "P" -> Times(DeleteChar, Count(p[0], Columns), d)
    [] c = "@" -> Times(InsertChar, Count(p[0], Columns), d)
    [] c = "r" -> SetRegion(d, OneBased(p[0]), IF p[1] = 0 THEN Lines ELSE p[1])
    [] c = "u" -> Gotoxy(d, saved[1], saved[2])
    [] OTHER   -> d

-----------------------------------------------------------------------------
(* con_write(): one character, then set_cursor().                          *)

Show(d) == scr' = [d EXCEPT !.cursor = d.pos]

\* The parameters that a sequence leaves behind are cleared by the next one
\* before they are read; here they are cleared when it ends.
ToText ==
  /\ state' = 0 /\ npar' = 0 /\ par' = [i \in 0 .. NPAR - 1 |-> 0]

\* No step depends on what the cells hold, so a few marks show where all go.
Marks == {a \in Video : scr.mem[a] # Blank}
Printable == IF Cardinality(Marks) < MaxMarks THEN Glyph ELSE {Blank}

Text ==
  /\ state = 0
  /\ \/ \E g \in Printable : Show(Put(scr, g))
     \/ \E c \in {"LF", "CR", "DEL", "BS", "TAB"} : Show(Control(c, scr))
  /\ UNCHANGED <<state, npar, par, saved, video_type>>

Escape ==
  /\ state = 0
  /\ state' = 1
  /\ Show(scr) /\ UNCHANGED <<npar, par, saved, video_type>>

\* The character after the escape; what "Z" puts into read_q is left out.
AfterEscape ==
  /\ state = 1
  /\ \/ state' = 2 /\ Show(scr) /\ UNCHANGED <<npar, par, saved>>
     \/ /\ ToText
        /\ \/ Show(Gotoxy(scr, 0, scr.y + 1)) /\ UNCHANGED saved   \* E
           \/ Show(Ri(scr)) /\ UNCHANGED saved                     \* M
           \/ Show(Lf(scr)) /\ UNCHANGED saved                     \* D
           \/ Show(scr) /\ saved' = <<scr.x, scr.y>>               \* 7
           \/ Show(Gotoxy(scr, saved[1], saved[2])) /\ UNCHANGED saved  \* 8
           \/ Show(scr) /\ UNCHANGED saved                         \* any other
  /\ UNCHANGED video_type

\* A question mark is skipped; any other character is a parameter already.
Question ==
  /\ state = 2
  /\ state' = 3 /\ Show(scr)
  /\ UNCHANGED <<npar, par, saved, video_type>>

NextParameter ==
  /\ state \in {2, 3} /\ npar < NPAR - 1
  /\ state' = 3 /\ npar' = npar + 1
  /\ Show(scr) /\ UNCHANGED <<par, saved, video_type>>

ParameterDigit(n) ==
  /\ state \in {2, 3}
  /\ state' = 3 /\ par' = [par EXCEPT ![npar] = (10 * @ + n) % ULONG]
  /\ Show(scr) /\ UNCHANGED <<npar, saved, video_type>>

\* A semicolon that is one too many ends the sequence as an unknown command.
Commands == {"G", "A", "B", "C", "D", "E", "F", "d", "H", "J", "K", "L", "M", "P",
             "@", "r", "s", "u", "m"} \cup (IF npar = NPAR - 1 THEN {";"} ELSE {})

Command(c) ==
  /\ state \in {2, 3}
  /\ ToText
  /\ Show(Csi(c, par, scr))
  /\ saved' = (IF c = "s" THEN <<scr.x, scr.y>> ELSE saved)
  /\ UNCHANGED video_type

Next ==
  \/ Text \/ Escape \/ AfterEscape \/ Question \/ NextParameter
  \/ \E n \in Digit : ParameterDigit(n)
  \/ \E c \in Commands : Command(c)

Spec == Init /\ [][Next]_vars

-----------------------------------------------------------------------------
\* Every variable has its type; among them the bounds on the cursor and the region.
TypeOK ==
  /\ scr.mem \in [Address -> Glyph \cup {Foreign}]
  /\ scr.x \in 0 .. Columns /\ scr.y \in 0 .. Lines - 1
  /\ scr.top \in 0 .. Lines - 1 /\ scr.bottom \in scr.top + 1 .. Lines
  /\ state \in 0 .. 3
  /\ npar \in 0 .. NPAR - 1 /\ par \in [0 .. NPAR - 1 -> 0 .. ULONG - 1]
  /\ saved \in (0 .. Columns) \X (0 .. Lines - 1)

\* The window of Lines lines never leaves the adapter's memory, and the adapter
\* shows it from its first line.  pos, which is moved along with x, y and origin
\* by hand in a dozen places, is where x and y are in the window, and the blinking
\* cursor is there too.
CursorIsInWindow ==
  /\ TypeOK
  /\ scr.origin >= 0 /\ scr.scr_end <= VideoMem
  /\ scr.scr_end = scr.origin + Lines * Columns
  /\ scr.shown = scr.origin
  /\ scr.pos = scr.origin + scr.y * Columns + scr.x
  /\ scr.cursor = scr.pos

\* No character, whatever sequence it is part of and with whatever parameters,
\* writes to memory that is not the adapter's.
OthersMemoryKept == \A a \in Address \ Video : scr.mem[a] = Foreign

\* What the adapter shows behaves like a terminal: a scroll of the window is a
\* scroll of the text, repeated steps add up, and nothing outside the lines
\* meant is disturbed.
Shown == [r \in 0 .. Lines - 1 |-> [c \in 0 .. Columns - 1 |->
            scr.mem[scr.shown + r * Columns + c]]]

T == INSTANCE Terminal WITH screen <- Shown, x <- scr.x, y <- scr.y,
                            top <- scr.top, bottom <- scr.bottom
ImplementsTerminal == T!Spec
=============================================================================
