---------------------------- MODULE ConsoleProofs ----------------------------
(***************************************************************************)
(* The console on every size of the screen and of the video memory: the    *)
(* cursor stays in the window, the window in the adapter's memory, nothing *)
(* else is written, and what the adapter shows is a terminal.              *)
(***************************************************************************)
EXTENDS Console, WellFoundedInduction, TLAPS

\* The display before and after each procedure.
Size    == Lines * Columns
Memory  == [Address -> Glyph \cup {Foreign}]
Display == [mem : Memory, origin : Int, scr_end : Int, top : Int, bottom : Int,
            x : Int, y : Int, pos : Int, shown : Int, cursor : Int]

Kept(mem) == mem \in Memory /\ \A a \in Address \ Video : mem[a] = Foreign

Window(d) ==
  /\ 0 <= d.origin /\ d.scr_end = d.origin + Size /\ d.scr_end <= VideoMem
  /\ d.shown = d.origin

Place(d) ==
  /\ d.y \in 0 .. Lines - 1
  /\ d.top \in 0 .. Lines - 1 /\ d.bottom \in d.top + 1 .. Lines
  /\ d.pos = d.origin + d.y * Columns + d.x

Good(d) == d \in Display /\ Kept(d.mem) /\ Window(d) /\ Place(d) /\ d.x \in 0 .. Columns

\* The inductive invariant.
Inv ==
  /\ Good(scr) /\ scr.cursor = scr.pos
  /\ state \in 0 .. 3
  /\ npar \in 0 .. NPAR - 1 /\ par \in [0 .. NPAR - 1 -> 0 .. ULONG - 1]
  /\ saved \in (0 .. Columns) \X (0 .. Lines - 1)

-----------------------------------------------------------------------------
(* Numbers.                                                                *)

\* The sizes.
LEMMA Sizes ==
  /\ Lines \in Nat \ {0} /\ Columns \in Nat \ {0} /\ Columns % 2 = 0
  /\ Size \in Nat /\ Size >= Columns /\ Size <= VideoMem /\ VideoMem \in Nat
<1>1. /\ Lines \in Nat \ {0} /\ Columns \in Nat \ {0} /\ Columns % 2 = 0
      /\ VideoMem \in Nat /\ VideoMem >= Lines * Columns
  BY ScreenAssumption
<1>2. Size \in Nat /\ Size >= Columns
  BY <1>1 DEF Size
<1> QED
  BY <1>1, <1>2 DEF Size

\* Rows follow one another.
LEMMA RowAfterRow ==
  ASSUME NEW r \in Int
  PROVE  /\ r * Columns \in Int
         /\ (r + 1) * Columns = r * Columns + Columns
         /\ (r - 1) * Columns = r * Columns - Columns
         /\ Columns * r = r * Columns
  BY Sizes

\* Differences of rows.
LEMMA RowsApart ==
  ASSUME NEW t \in Int, NEW b \in Int
  PROVE  /\ t * Columns \in Int /\ (b - 1) * Columns \in Int
         /\ (b - t - 1) * Columns = (b - 1) * Columns - t * Columns
         /\ b * Columns = (b - 1) * Columns + Columns
         /\ (t + 1) * Columns = t * Columns + Columns
  BY Sizes

\* A later row is at a later address.
LEMMA RowsInOrder ==
  ASSUME NEW r \in Int, NEW t \in Int, r <= t
  PROVE  r * Columns <= t * Columns
<1>1. Columns \in Nat /\ t - r \in Nat
  BY Sizes
<1>2. (t - r) * Columns >= 0
  BY <1>1
<1>3. (t - r) * Columns = t * Columns - r * Columns
  BY <1>1
<1>4. r * Columns \in Int /\ t * Columns \in Int
  BY <1>1
<1> QED
  BY <1>2, <1>3, <1>4

\* A cell is between two rows if its row is.
LEMMA Between ==
  ASSUME NEW r \in Int, NEW c \in 0 .. Columns - 1, NEW t \in Int
  PROVE  /\ r * Columns + c >= t * Columns <=> r >= t
         /\ r * Columns + c < t * Columns <=> r < t
<1>1. r >= t => r * Columns >= t * Columns
  BY RowsInOrder
<1>2. r < t => r * Columns + Columns <= t * Columns
  BY RowsInOrder, RowAfterRow
<1>3. Columns \in Nat /\ r * Columns \in Int /\ t * Columns \in Int
  BY RowAfterRow, Sizes
<1> QED
  BY <1>1, <1>2, <1>3

\* The rows of the screen.
LEMMA RowsOfScreen ==
  ASSUME NEW r \in 0 .. Lines - 1
  PROVE  0 <= r * Columns /\ r * Columns + Columns <= Size
<1>1. Lines \in Nat /\ r \in Int /\ 0 <= r /\ r + 1 <= Lines
  BY Sizes
<1>2. 0 * Columns <= r * Columns /\ (r + 1) * Columns <= Lines * Columns
  BY <1>1, RowsInOrder
<1>3. 0 * Columns = 0
  BY Sizes
<1> QED
  BY <1>1, <1>2, <1>3, RowAfterRow DEF Size

\* A number of rows is an even number of cells.
LEMMA RowsAreEven ==
  ASSUME NEW k \in Int
  PROVE  2 * ((k * Columns) \div 2) = k * Columns
<1> DEFINE h == Columns \div 2
<1>1. h \in Int /\ Columns = 2 * h
  BY Sizes
<1>2. k * Columns = 2 * (k * h)
  BY <1>1
<1> HIDE DEF h
<1>3. k * h \in Int
  BY <1>1
<1>4. \A n \in Int : (2 * n) \div 2 = n
  OBVIOUS
<1> QED
  BY <1>2, <1>3, <1>4

-----------------------------------------------------------------------------
(* Memory.                                                                 *)

\* Only the adapter's memory is filled.
LEMMA FillKept ==
  ASSUME NEW mem, Kept(mem), NEW to \in Int, NEW n \in Int, 0 <= to, to + n <= VideoMem
  PROVE  Kept(Fill(mem, to, n))
<1>1. Blank \in Glyph /\ Columns \in Nat /\ VideoMem \in Nat
  BY CellAssumption, Sizes
<1> QED
  BY <1>1 DEF Kept, Memory, Fill, Address, Video

\* Copying within the adapter's memory writes nothing else.
LEMMA CopyKept ==
  ASSUME NEW mem, Kept(mem), NEW to \in Int, NEW from \in Int, NEW n \in Int,
         2 * (n \div 2) = n, 0 <= to, to + n <= VideoMem, 0 <= from, from + n <= VideoMem
  PROVE  Kept(Copied(mem, to, from, n))
<1>1. Columns \in Nat /\ VideoMem \in Nat
  BY Sizes
<1>2. \A a \in Address : a \in to .. to + n - 1 => a - to + from \in Address
  BY <1>1 DEF Address
<1>3. Copied(mem, to, from, n) =
        [a \in Address |-> IF a \in to .. to + n - 1 THEN mem[a - to + from] ELSE mem[a]]
  BY DEF Copied
<1> QED
  BY <1>1, <1>2, <1>3 DEF Kept, Memory, Address, Video

-----------------------------------------------------------------------------
(* What the adapter shows.                                                 *)

Rows == 0 .. Lines - 1
Cols == 0 .. Columns - 1

View(d) == [r \in Rows |-> [c \in Cols |-> d.mem[d.shown + r * Columns + c]]]

\* The display d is in order, shows the screen s, and has the cursor and the
\* region where they are said to be.
Shows(d, s, x, y, t, b) ==
  Good(d) /\ View(d) = s /\ d.x = x /\ d.y = y /\ d.top = t /\ d.bottom = b

\* Where a cell of the screen is in the memory.
LEMMA CellIsVideo ==
  ASSUME NEW d, Good(d), NEW r \in Rows, NEW c \in Cols
  PROVE  /\ r * Columns \in Int /\ r \in Int /\ c \in Int /\ d.origin \in Int
         /\ d.origin + r * Columns + c \in d.origin .. d.scr_end - 1
         /\ d.origin + r * Columns + c \in Video
         /\ d.origin + r * Columns + c \in Address
         /\ View(d)[r][c] = d.mem[d.origin + r * Columns + c]
<1>1. /\ Size \in Nat /\ Columns \in Nat /\ VideoMem \in Nat /\ r \in Int /\ c \in Int
      /\ 0 <= c /\ c < Columns
  BY Sizes DEF Rows, Cols
<1>2. r * Columns \in Int /\ 0 <= r * Columns /\ r * Columns + Columns <= Size
  BY RowsOfScreen, RowAfterRow, <1>1 DEF Rows
<1>3. d.origin \in Int /\ d.shown = d.origin /\ 0 <= d.origin /\ d.scr_end = d.origin + Size
      /\ d.scr_end <= VideoMem
  BY DEF Good, Display, Window
<1>4. d.origin + r * Columns + c \in d.origin .. d.scr_end - 1
  BY <1>1, <1>2, <1>3
<1>5. d.origin + r * Columns + c \in Video /\ d.origin + r * Columns + c \in Address
  BY <1>1, <1>2, <1>3 DEF Video, Address
<1>6. View(d)[r][c] = d.mem[d.shown + r * Columns + c]
  BY DEF View
<1> QED
  BY <1>1, <1>2, <1>3, <1>4, <1>5, <1>6

\* The memory changes, and nothing else.
LEMMA NewMemory ==
  ASSUME NEW d, Good(d), NEW m, Kept(m), NEW e, e = [d EXCEPT !.mem = m]
  PROVE  /\ Good(e) /\ e.mem = m
         /\ e.x = d.x /\ e.y = d.y /\ e.top = d.top /\ e.bottom = d.bottom
         /\ e.pos = d.pos /\ e.origin = d.origin
<1>1. d \in Display /\ m \in Memory
  BY DEF Good, Kept
<1>2. /\ e \in Display /\ e.mem = m
      /\ e.x = d.x /\ e.y = d.y /\ e.top = d.top /\ e.bottom = d.bottom
      /\ e.pos = d.pos /\ e.origin = d.origin /\ e.shown = d.shown /\ e.scr_end = d.scr_end
  BY <1>1 DEF Display
<1> QED
  BY <1>2 DEF Good, Window, Place

\* The fields have their types.
LEMMA Fields ==
  ASSUME NEW d, Good(d)
  PROVE  /\ d \in Display /\ d.mem \in Memory /\ Kept(d.mem)
         /\ d.origin \in Int /\ d.scr_end \in Int /\ d.pos \in Int
         /\ d.x \in Int /\ d.y \in Int /\ d.top \in Int /\ d.bottom \in Int
         /\ 0 <= d.origin /\ d.scr_end = d.origin + Size /\ d.scr_end <= VideoMem
         /\ d.shown = d.origin
         /\ 0 <= d.x /\ d.x <= Columns
         /\ 0 <= d.y /\ d.y < Lines /\ 0 <= d.top /\ d.top < d.bottom /\ d.bottom <= Lines
         /\ d.y * Columns \in Int /\ d.pos = d.origin + d.y * Columns + d.x
         /\ 0 <= d.y * Columns /\ d.y * Columns + Columns <= Size
         /\ d.y \in Rows
<1>1. d.y \in Rows /\ d.y \in Int
  BY DEF Good, Place, Display, Rows
<1>2. /\ d.y * Columns \in Int
      /\ 0 <= d.y * Columns /\ d.y * Columns + Columns <= Size
  BY <1>1, RowsOfScreen, RowAfterRow DEF Rows
<1> QED
  BY <1>1, <1>2, Sizes DEF Good, Display, Window, Place, Kept, Rows

\* Some cells are blanked.
LEMMA FillShows ==
  ASSUME NEW d, Good(d), NEW to \in Int, NEW n \in Int,
         d.origin <= to, to + n <= d.scr_end,
         NEW e, e = [d EXCEPT !.mem = Fill(@, to, n)]
  PROVE  /\ Shows(e, View(e), d.x, d.y, d.top, d.bottom) /\ e.pos = d.pos
         /\ View(e) = [r \in Rows |-> [c \in Cols |->
              IF r * Columns + c \in to - d.origin .. to - d.origin + n - 1
                THEN Blank ELSE View(d)[r][c]]]
<1>1. Kept(Fill(d.mem, to, n))
  BY Fields, FillKept, Sizes
<1>2. /\ Good(e) /\ e.mem = Fill(d.mem, to, n)
      /\ e.x = d.x /\ e.y = d.y /\ e.top = d.top /\ e.bottom = d.bottom
      /\ e.pos = d.pos /\ e.origin = d.origin
  BY <1>1, NewMemory
<1>3. ASSUME NEW r \in Rows, NEW c \in Cols
      PROVE  View(e)[r][c] = IF r * Columns + c \in to - d.origin .. to - d.origin + n - 1
                             THEN Blank ELSE View(d)[r][c]
  <2> DEFINE a == d.origin + r * Columns + c
  <2>0. View(e)[r][c] = e.mem[a]
    <3>1. View(e)[r][c] = e.mem[e.origin + r * Columns + c]
      BY <1>2, CellIsVideo
    <3> QED
      BY <1>2, <3>1
  <2>1. /\ a \in Address /\ View(d)[r][c] = d.mem[a]
        /\ r * Columns \in Int /\ c \in Int /\ d.origin \in Int
    BY CellIsVideo
  <2>2. e.mem[a] = IF a \in to .. to + n - 1 THEN Blank ELSE d.mem[a]
    BY <1>2, <2>1 DEF Fill
  <2>3. a \in to .. to + n - 1 <=> r * Columns + c \in to - d.origin .. to - d.origin + n - 1
    BY <2>1
  <2> QED
    BY <2>0, <2>1, <2>2, <2>3
<1>4. View(e) = [r \in Rows |-> [c \in Cols |-> View(e)[r][c]]]
  BY DEF View
<1> QED
  BY <1>2, <1>3, <1>4 DEF Shows

\* A row of cells for every line.
IsScreen(s) == s = [r \in Rows |-> [c \in Cols |-> s[r][c]]]

\* Two screens with the same cells are the same.
LEMMA SameScreen ==
  ASSUME NEW s, NEW u, IsScreen(s), IsScreen(u),
         \A r \in Rows, c \in Cols : s[r][c] = u[r][c]
  PROVE  s = u
<1>1. /\ s = [r \in Rows |-> s[r]] /\ u = [r \in Rows |-> u[r]]
      /\ \A r \in Rows : s[r] = [c \in Cols |-> s[r][c]] /\ u[r] = [c \in Cols |-> u[r][c]]
  BY DEF IsScreen
<1>2. \A r \in Rows : s[r] = u[r]
  BY <1>1
<1> QED
  BY <1>1, <1>2

\* What the adapter shows is a screen.
LEMMA ViewIsScreen == \A d : IsScreen(View(d))
BY DEF View, IsScreen

\* The screens that Terminal makes.
LEMMA Moved ==
  ASSUME NEW s, IsScreen(s), NEW t \in Int, NEW b \in Int, 0 <= t, b <= Lines,
         NEW n \in Nat
  PROVE  /\ IsScreen(T!Up(s, t, b, n)) /\ IsScreen(T!Down(s, t, b, n))
         /\ \A r \in Rows, c \in Cols :
              /\ T!Up(s, t, b, n)[r][c] = IF r \notin t .. b - 1 THEN s[r][c]
                                         ELSE IF r + n < b THEN s[r + n][c] ELSE Blank
              /\ T!Down(s, t, b, n)[r][c] = IF r \notin t .. b - 1 THEN s[r][c]
                                           ELSE IF r - n >= t THEN s[r - n][c] ELSE Blank
<1> DEFINE U == T!Up(s, t, b, n)
           D == T!Down(s, t, b, n)
<1>1. /\ U = [r \in Rows |-> U[r]] /\ D = [r \in Rows |-> D[r]]
      /\ \A r \in Rows :
           /\ U[r] = IF r \notin t .. b - 1 THEN s[r]
                     ELSE IF r + n < b THEN s[r + n] ELSE [c \in Cols |-> Blank]
           /\ D[r] = IF r \notin t .. b - 1 THEN s[r]
                     ELSE IF r - n >= t THEN s[r - n] ELSE [c \in Cols |-> Blank]
  BY DEF T!Up, T!Down, T!Rows, T!BlankRow, T!Cols, Rows, Cols
<1> HIDE DEF U, D
<1>2. \A r \in Rows : s[r] = [c \in Cols |-> s[r][c]]
  BY DEF IsScreen
<1>3. ASSUME NEW r \in Rows, r \in t .. b - 1
      PROVE  (r + n < b => r + n \in Rows) /\ (r - n >= t => r - n \in Rows)
  BY <1>3, Sizes DEF Rows
<1>4. ASSUME NEW r \in Rows
      PROVE  U[r] = [c \in Cols |-> U[r][c]] /\ D[r] = [c \in Cols |-> D[r][c]]
  BY <1>1, <1>2, <1>3
<1>5. IsScreen(U) /\ IsScreen(D)
  BY <1>1, <1>4 DEF IsScreen
<1>6. ASSUME NEW r \in Rows, NEW c \in Cols
      PROVE  /\ U[r][c] = IF r \notin t .. b - 1 THEN s[r][c]
                          ELSE IF r + n < b THEN s[r + n][c] ELSE Blank
             /\ D[r][c] = IF r \notin t .. b - 1 THEN s[r][c]
                          ELSE IF r - n >= t THEN s[r - n][c] ELSE Blank
  BY <1>1
<1> QED
  BY <1>5, <1>6 DEF U, D

\* By one row.
LEMMA MovedByOne ==
  ASSUME NEW s, IsScreen(s), NEW t \in Int, NEW b \in Int, 0 <= t, b <= Lines
  PROVE  /\ IsScreen(T!Up(s, t, b, 1)) /\ IsScreen(T!Down(s, t, b, 1))
         /\ \A r \in Rows, c \in Cols :
              /\ T!Up(s, t, b, 1)[r][c] = IF r \notin t .. b - 1 THEN s[r][c]
                                         ELSE IF r + 1 < b THEN s[r + 1][c] ELSE Blank
              /\ T!Down(s, t, b, 1)[r][c] = IF r \notin t .. b - 1 THEN s[r][c]
                                           ELSE IF r - 1 >= t THEN s[r - 1][c] ELSE Blank
<1>1. \A n \in Nat : /\ IsScreen(T!Up(s, t, b, n)) /\ IsScreen(T!Down(s, t, b, n))
         /\ \A r \in Rows, c \in Cols :
              /\ T!Up(s, t, b, n)[r][c] = IF r \notin t .. b - 1 THEN s[r][c]
                                         ELSE IF r + n < b THEN s[r + n][c] ELSE Blank
              /\ T!Down(s, t, b, n)[r][c] = IF r \notin t .. b - 1 THEN s[r][c]
                                           ELSE IF r - n >= t THEN s[r - n][c] ELSE Blank
  BY Moved
<1> QED
  BY <1>1

-----------------------------------------------------------------------------
(* Scrolling.                                                              *)

\* The lines d.top + 1 .. are copied up, or d.top .. down, and one is blanked.
LEMMA ScrollRegionShows ==
  ASSUME NEW d, Good(d), NEW e, e = ScrollRegion(d)
  PROVE  /\ Shows(e, View(e), d.x, d.y, d.top, d.bottom)
         /\ View(e) = T!Up(View(d), d.top, d.bottom, 1)
<1> DEFINE k == d.bottom - d.top - 1
           n == k * Columns
           to == d.origin + d.top * Columns
           m1 == Copied(d.mem, to, to + Columns, n)
           m2 == Fill(m1, to + n, Columns)
<1>1. /\ d.top \in Rows /\ d.bottom - 1 \in Rows /\ k \in Int /\ 0 <= k
      /\ Columns \in Nat /\ Lines \in Nat /\ d.top \in Int /\ d.bottom \in Int /\ d.origin \in Int
      /\ 0 <= d.origin /\ d.scr_end = d.origin + Size /\ d.scr_end <= VideoMem
      /\ 0 <= d.top /\ d.top <= d.bottom - 1 /\ d.bottom <= Lines
  BY Fields, Sizes DEF Rows
<1>12. /\ IsScreen(T!Up(View(d), d.top, d.bottom, 1)) /\ IsScreen(View(e))
       /\ \A r \in Rows, c \in Cols :
            T!Up(View(d), d.top, d.bottom, 1)[r][c] =
              IF r \notin d.top .. d.bottom - 1 THEN View(d)[r][c]
              ELSE IF r + 1 < d.bottom THEN View(d)[r + 1][c] ELSE Blank
  <2>1. IsScreen(View(d)) /\ IsScreen(View(e)) /\ 1 \in Nat
    BY ViewIsScreen
  <2>2. d.top \in Int /\ d.bottom \in Int /\ 0 <= d.top /\ d.bottom <= Lines
    BY <1>1
  <2>3. \A s : IsScreen(s) =>
          /\ IsScreen(T!Up(s, d.top, d.bottom, 1))
          /\ \A r \in Rows, c \in Cols :
               T!Up(s, d.top, d.bottom, 1)[r][c] =
                 IF r \notin d.top .. d.bottom - 1 THEN s[r][c]
                 ELSE IF r + 1 < d.bottom THEN s[r + 1][c] ELSE Blank
    BY <2>1, <2>2, MovedByOne
  <2> QED
    BY <2>1, <2>3
<1>2. /\ d.top * Columns \in Int /\ (d.bottom - 1) * Columns \in Int
      /\ 0 <= d.top * Columns /\ (d.bottom - 1) * Columns + Columns <= Size
      /\ d.top * Columns <= (d.bottom - 1) * Columns
  <2>1. d.top * Columns \in Int /\ (d.bottom - 1) * Columns \in Int /\ d.bottom - 1 \in Int
    BY <1>1, RowAfterRow
  <2>2. 0 <= d.top * Columns /\ (d.bottom - 1) * Columns + Columns <= Size
    BY <1>1, RowsOfScreen DEF Rows
  <2>3. d.top * Columns <= (d.bottom - 1) * Columns
    BY <1>1, RowsInOrder
  <2> QED
    BY <2>1, <2>2, <2>3
<1>3. n \in Int /\ n = (d.bottom - 1) * Columns - d.top * Columns
  BY <1>1, RowsApart
<1>11. 2 * (n \div 2) = n
  BY <1>1, RowsAreEven
<1> HIDE DEF n, k
<1>4. to \in Int /\ 0 <= to /\ to + n + Columns <= d.scr_end /\ 0 <= n /\ Size \in Nat
  BY <1>1, <1>2, <1>3, Sizes
<1>5. e = [d EXCEPT !.mem = m2]
  <2>1. Columns * d.top = d.top * Columns
    BY <1>1, RowAfterRow
  <2>2. d \in Display
    BY Fields
  <2> QED
    BY <1>11, <2>1, <2>2 DEF ScrollRegion, n, k
<1> HIDE DEF to
<1>6. Kept(m1)
  <2>1. /\ to + Columns \in Int /\ 0 <= to + Columns /\ to + Columns + n <= VideoMem
        /\ to + n <= VideoMem /\ Kept(d.mem)
    BY <1>1, <1>3, <1>4, Sizes, Fields
  <2> QED
    BY <1>3, <1>11, <1>4, <2>1, CopyKept
<1>7. Kept(m2)
  <2>1. to + n \in Int /\ 0 <= to + n /\ to + n + Columns <= VideoMem /\ Columns \in Int
    BY <1>1, <1>3, <1>4, Sizes
  <2> HIDE DEF m1
  <2> QED
    BY <1>6, <2>1, FillKept
<1>8. /\ Good(e) /\ e.mem = m2
      /\ e.x = d.x /\ e.y = d.y /\ e.top = d.top /\ e.bottom = d.bottom
      /\ e.pos = d.pos /\ e.origin = d.origin
  BY <1>5, <1>7, NewMemory
<1>9. ASSUME NEW r \in Rows, NEW c \in Cols
      PROVE  View(e)[r][c] = T!Up(View(d), d.top, d.bottom, 1)[r][c]
  <2> DEFINE a == d.origin + r * Columns + c
  <2>10. T!Up(View(d), d.top, d.bottom, 1)[r][c] =
           IF r \notin d.top .. d.bottom - 1 THEN View(d)[r][c]
           ELSE IF r + 1 < d.bottom THEN View(d)[r + 1][c] ELSE Blank
    BY <1>12
  <2>1. /\ a \in Address /\ View(d)[r][c] = d.mem[a] /\ a + Columns \in Int
        /\ r * Columns \in Int /\ r \in Int /\ c \in Int /\ a \in Int
    BY <1>1, CellIsVideo
  <2>2. View(e)[r][c] = m2[a]
    <3>1. View(e)[r][c] = e.mem[e.origin + r * Columns + c]
      BY <1>8, CellIsVideo
    <3> QED
      BY <1>8, <3>1
  <2>3. /\ a >= to <=> r >= d.top
        /\ a < to + n <=> r < d.bottom - 1
        /\ a < to + n + Columns <=> r < d.bottom
    <3>1. /\ r * Columns + c >= d.top * Columns <=> r >= d.top
          /\ r * Columns + c < (d.bottom - 1) * Columns <=> r < d.bottom - 1
          /\ r * Columns + c < d.bottom * Columns <=> r < d.bottom
      BY <1>1, <2>1, Between DEF Cols
    <3>2. d.bottom * Columns = (d.bottom - 1) * Columns + Columns
      BY <1>1, RowAfterRow
    <3> QED
      BY <1>1, <1>2, <1>3, <2>1, <3>1, <3>2 DEF to
  <2>4. CASE r \notin d.top .. d.bottom - 1
    <3>1. a < to \/ a >= to + n + Columns
      BY <1>1, <1>3, <1>4, <2>1, <2>3, <2>4
    <3>2. m2[a] = d.mem[a]
      BY <1>1, <1>3, <1>4, <1>11, <2>1, <3>1 DEF Fill, Copied
    <3> QED
      BY <2>1, <2>2, <2>4, <3>2, <2>10
  <2>5. CASE r \in d.top .. d.bottom - 1 /\ r + 1 < d.bottom
    <3>1. a >= to /\ a < to + n
      BY <1>1, <1>3, <1>4, <2>1, <2>3, <2>5
    <3>2. m2[a] = d.mem[a + Columns]
      <4>1. m2[a] = m1[a]
        BY <1>1, <1>3, <1>4, <2>1, <3>1 DEF Fill
      <4>2. m1[a] = d.mem[a - to + (to + Columns)]
        BY <1>1, <1>3, <1>4, <1>11, <2>1, <3>1 DEF Copied
      <4>3. a - to + (to + Columns) = a + Columns
        BY <1>1, <1>4, <2>1
      <4> QED
        BY <4>1, <4>2, <4>3
    <3>3. r + 1 \in Rows /\ View(d)[r + 1][c] = d.mem[a + Columns]
      <4>1. r + 1 \in Rows
        BY <1>1, <2>1, <2>5 DEF Rows
      <4>2. View(d)[r + 1][c] = d.mem[d.origin + (r + 1) * Columns + c]
        BY <4>1, CellIsVideo
      <4>3. d.origin + (r + 1) * Columns + c = a + Columns
        BY <1>1, <2>1, RowAfterRow
      <4> QED
        BY <4>1, <4>2, <4>3
    <3> QED
      BY <2>2, <2>5, <3>2, <3>3, <2>10
  <2>6. CASE r \in d.top .. d.bottom - 1 /\ r + 1 >= d.bottom
    <3>1. a >= to + n /\ a < to + n + Columns
      BY <1>1, <1>3, <1>4, <2>1, <2>3, <2>6
    <3>2. m2[a] = Blank
      BY <1>1, <1>3, <1>4, <2>1, <3>1 DEF Fill
    <3>3. ~(r + 1 < d.bottom)
      BY <1>1, <2>1, <2>6
    <3> QED
      BY <2>2, <2>6, <3>2, <3>3, <2>10
  <2> QED
    BY <1>1, <2>1, <2>4, <2>5, <2>6
<1>10. View(e) = T!Up(View(d), d.top, d.bottom, 1)
  BY <1>9, <1>12, SameScreen
<1> QED
  BY <1>8, <1>10 DEF Shows

\* The window moves on, or back to the start.
LEMMA ScrollWindowShows ==
  ASSUME NEW d, Good(d), d.top = 0, d.bottom = Lines, NEW e, e = ScrollWindow(d)
  PROVE  /\ Shows(e, View(e), d.x, d.y, d.top, d.bottom)
         /\ View(e) = T!Up(View(d), d.top, d.bottom, 1)
<1> DEFINE o == d.origin + Columns
           n == (Lines - 1) * Columns
           m1 == Copied(d.mem, 0, o, n)
           m2 == Fill(m1, n, Columns)
           m3 == Fill(d.mem, d.scr_end, Columns)
           back == d.scr_end + Columns > VideoMem
           U == T!Up(View(d), d.top, d.bottom, 1)
<1>1. /\ Lines \in Nat /\ Lines - 1 \in Rows /\ Columns \in Nat /\ d.origin \in Int /\ d.scr_end \in Int
      /\ 0 <= d.origin /\ d.scr_end = d.origin + Size /\ d.scr_end <= VideoMem
      /\ d.pos \in Int /\ d.y * Columns \in Int /\ d.pos = d.origin + d.y * Columns + d.x /\ d.x \in Int
      /\ VideoMem \in Nat /\ d \in Display /\ Kept(d.mem) /\ Size \in Nat
  BY Fields, Sizes DEF Rows
<1>2. /\ n \in Int /\ 0 <= n /\ n + Columns = Size
  <2>1. n \in Int /\ 0 <= n
    BY <1>1, RowsOfScreen, RowAfterRow DEF Rows
  <2>2. n + Columns = Size
    BY <1>1, RowAfterRow DEF Size
  <2> QED
    BY <2>1, <2>2
<1>3. 2 * (n \div 2) = n
  BY <1>1, RowsAreEven
<1>4. /\ IsScreen(U) /\ IsScreen(View(e))
      /\ \A r \in Rows, c \in Cols :
           U[r][c] = IF r + 1 < Lines THEN View(d)[r + 1][c] ELSE Blank
  <2>1. IsScreen(View(d)) /\ IsScreen(View(e))
    BY ViewIsScreen
  <2>2. d.top \in Int /\ d.bottom \in Int /\ 0 <= d.top /\ d.bottom <= Lines
    BY <1>1
  <2>3. /\ IsScreen(U)
        /\ \A r \in Rows, c \in Cols :
             U[r][c] = IF r \notin d.top .. d.bottom - 1 THEN View(d)[r][c]
                       ELSE IF r + 1 < d.bottom THEN View(d)[r + 1][c] ELSE Blank
    BY <2>1, <2>2, MovedByOne
  <2>4. \A r \in Rows : r \in d.top .. d.bottom - 1
    BY DEF Rows
  <2> QED
    BY <2>1, <2>3, <2>4
<1> HIDE DEF n, o, U
<1>5. o \in Int /\ o = d.origin + Columns
  BY <1>1 DEF o
<1>6. ASSUME back
      PROVE  /\ Good(e) /\ e.mem = m2 /\ e.origin = 0
             /\ e.x = d.x /\ e.y = d.y /\ e.top = d.top /\ e.bottom = d.bottom
  <2>1. Kept(m1)
    BY <1>1, <1>2, <1>3, <1>5, CopyKept
  <2>2. Kept(m2)
    <3> HIDE DEF m1
    <3> QED
      BY <1>1, <1>2, <2>1, FillKept
  <2>3. e = [d EXCEPT !.mem = m2, !.scr_end = @ + Columns - o, !.pos = @ + Columns - o,
                      !.origin = 0, !.shown = 0]
    BY <1>1, <1>3, <1>6 DEF ScrollWindow, n, o
  <2> HIDE DEF m2
  <2>4. /\ e \in Display /\ e.mem = m2 /\ e.origin = 0 /\ e.shown = 0
        /\ e.scr_end = d.scr_end + Columns - o /\ e.pos = d.pos + Columns - o
        /\ e.x = d.x /\ e.y = d.y /\ e.top = d.top /\ e.bottom = d.bottom
    <3> DEFINE end == d.scr_end + Columns - o
               pos == d.pos + Columns - o
    <3>1. end \in Int /\ pos \in Int /\ 0 \in Int /\ m2 \in Memory /\ d \in Display
      BY <1>1, <1>5, <2>2 DEF Kept
    <3>2. e = [d EXCEPT !.mem = m2, !.scr_end = end, !.pos = pos, !.origin = 0, !.shown = 0]
      BY <2>3
    <3> HIDE DEF end, pos
    <3>3. /\ e \in Display /\ e.mem = m2 /\ e.origin = 0 /\ e.shown = 0
          /\ e.scr_end = end /\ e.pos = pos
          /\ e.x = d.x /\ e.y = d.y /\ e.top = d.top /\ e.bottom = d.bottom
      BY <3>1, <3>2 DEF Display
    <3> QED
      BY <3>3 DEF end, pos
  <2>5. e.scr_end = e.origin + Size /\ e.scr_end <= VideoMem /\ e.pos = e.origin + d.y * Columns + d.x
    BY <1>1, <1>5, <2>4
  <2> QED
    BY <2>2, <2>4, <2>5 DEF Good, Window, Place
<1>7. ASSUME ~back
      PROVE  /\ Good(e) /\ e.mem = m3 /\ e.origin = o
             /\ e.x = d.x /\ e.y = d.y /\ e.top = d.top /\ e.bottom = d.bottom
  <2>1. Kept(m3)
    BY <1>1, <1>7, FillKept
  <2>2. e = [d EXCEPT !.mem = m3, !.scr_end = @ + Columns, !.pos = @ + Columns,
                      !.origin = o, !.shown = o]
    BY <1>1, <1>7 DEF ScrollWindow, o
  <2> HIDE DEF m3
  <2>3. /\ e \in Display /\ e.mem = m3 /\ e.origin = o /\ e.shown = o
        /\ e.scr_end = d.scr_end + Columns /\ e.pos = d.pos + Columns
        /\ e.x = d.x /\ e.y = d.y /\ e.top = d.top /\ e.bottom = d.bottom
    <3> DEFINE end == d.scr_end + Columns
               pos == d.pos + Columns
    <3>1. end \in Int /\ pos \in Int /\ o \in Int /\ m3 \in Memory /\ d \in Display
      BY <1>1, <1>5, <2>1 DEF Kept
    <3>2. e = [d EXCEPT !.mem = m3, !.scr_end = end, !.pos = pos, !.origin = o, !.shown = o]
      BY <2>2
    <3> HIDE DEF end, pos
    <3>3. /\ e \in Display /\ e.mem = m3 /\ e.origin = o /\ e.shown = o
          /\ e.scr_end = end /\ e.pos = pos
          /\ e.x = d.x /\ e.y = d.y /\ e.top = d.top /\ e.bottom = d.bottom
      BY <3>1, <3>2 DEF Display
    <3> QED
      BY <3>3 DEF end, pos
  <2>4. /\ 0 <= e.origin /\ e.scr_end = e.origin + Size /\ e.scr_end <= VideoMem
        /\ e.pos = e.origin + d.y * Columns + d.x
    BY <1>1, <1>5, <1>7, <2>3
  <2> QED
    BY <2>1, <2>3, <2>4 DEF Good, Window, Place
<1>8. ASSUME NEW r \in Rows, NEW c \in Cols
      PROVE  View(e)[r][c] = U[r][c]
  <2> DEFINE a == r * Columns + c
  <2>1. /\ r * Columns \in Int /\ r \in Int /\ c \in Int /\ a \in Int /\ 0 <= a
        /\ d.origin + a \in Video
    <3>1. /\ r * Columns \in Int /\ r \in Int /\ c \in Int /\ 0 <= r * Columns /\ 0 <= c
      BY RowAfterRow, RowsOfScreen, <1>1 DEF Rows, Cols
    <3>2. d.origin + r * Columns + c \in Video
      BY CellIsVideo
    <3> QED
      BY <1>1, <3>1, <3>2
  <2>2. a < n <=> r + 1 < Lines
    BY <1>1, <2>1, Between DEF n, Cols
  <2>3. a < n + Columns
    <3>1. r < Lines /\ n + Columns = Lines * Columns
      BY <1>1, <1>2 DEF Rows, Size
    <3>2. r * Columns + c < Lines * Columns
      BY <1>1, <2>1, <3>1, Between DEF Cols
    <3> QED
      BY <3>1, <3>2
  <2>4. Good(e)
    BY <1>6, <1>7
  <2>5. View(e)[r][c] = e.mem[e.origin + r * Columns + c]
    BY <2>4, CellIsVideo
  <2>6. r + 1 < Lines => View(d)[r + 1][c] = d.mem[o + a]
    <3> SUFFICES ASSUME r + 1 < Lines PROVE View(d)[r + 1][c] = d.mem[o + a]
      OBVIOUS
    <3>1. r + 1 \in Rows
      BY <1>1, <2>1 DEF Rows
    <3>2. View(d)[r + 1][c] = d.mem[d.origin + (r + 1) * Columns + c]
      BY <3>1, CellIsVideo
    <3>3. d.origin + (r + 1) * Columns + c = o + a
      BY <1>1, <1>5, <2>1, RowAfterRow
    <3> QED
      BY <3>2, <3>3
  <2>7. CASE back
    <3>1. View(e)[r][c] = m2[a]
      BY <1>6, <2>1, <2>5, <2>7
    <3>2. a \in Address
      BY <1>1, <2>1 DEF Video, Address
    <3>3. a < n => m2[a] = d.mem[o + a]
      <4> SUFFICES ASSUME a < n PROVE m2[a] = d.mem[o + a]
        OBVIOUS
      <4>1. m2[a] = m1[a]
        BY <1>1, <1>2, <2>1, <3>2 DEF Fill
      <4>2. m1[a] = d.mem[a - 0 + o]
        BY <1>1, <1>2, <1>3, <1>5, <2>1, <3>2 DEF Copied
      <4>3. a - 0 + o = o + a
        BY <1>5, <2>1
      <4> QED
        BY <4>1, <4>2, <4>3
    <3>4. a >= n => m2[a] = Blank
      BY <1>1, <1>2, <2>1, <2>3, <3>2 DEF Fill
    <3> QED
      BY <1>2, <1>4, <2>1, <2>2, <2>6, <3>1, <3>3, <3>4
  <2>8. CASE ~back
    <3>1. View(e)[r][c] = m3[o + a]
      <4>1. e.origin + r * Columns + c = o + a
        BY <1>5, <1>7, <2>1, <2>8
      <4> QED
        BY <1>7, <2>5, <2>8, <4>1
    <3>2. o + a \in Address
      BY <1>1, <1>2, <1>5, <2>1, <2>3, <2>8 DEF Video, Address
    <3>3. o + a \in d.scr_end .. d.scr_end + Columns - 1 <=> a >= n
      BY <1>1, <1>2, <1>5, <2>1, <2>3
    <3>4. m3[o + a] = IF a >= n THEN Blank ELSE d.mem[o + a]
      BY <3>2, <3>3 DEF Fill
    <3> QED
      BY <1>2, <1>4, <2>1, <2>2, <2>6, <3>1, <3>4
  <2> QED
    BY <2>7, <2>8
<1>9. View(e) = U
  BY <1>4, <1>8, SameScreen
<1> QED
  BY <1>6, <1>7, <1>9 DEF Shows, U

\* The lines of the region move up, whichever way it is done.
LEMMA ScrupShows ==
  ASSUME NEW d, Good(d), NEW e, e = Scrup(d)
  PROVE  /\ Shows(e, View(e), d.x, d.y, d.top, d.bottom)
         /\ View(e) = T!Up(View(d), d.top, d.bottom, 1)
BY ScrollWindowShows, ScrollRegionShows DEF Scrup

\* The lines of the region are copied down, and the first one is blanked.
LEMMA ScrdownShows ==
  ASSUME NEW d, Good(d), NEW e, e = Scrdown(d)
  PROVE  /\ Shows(e, View(e), d.x, d.y, d.top, d.bottom)
         /\ View(e) = T!Down(View(d), d.top, d.bottom, 1)
<1> DEFINE k == d.bottom - d.top - 1
           n == k * Columns
           to == d.origin + d.top * Columns
           m1 == Copied(d.mem, to + Columns, to, n)
           m2 == Fill(m1, to, Columns)
           D == T!Down(View(d), d.top, d.bottom, 1)
<1>1. /\ d.top \in Rows /\ d.bottom - 1 \in Rows /\ k \in Int /\ 0 <= k
      /\ Columns \in Nat /\ Lines \in Nat /\ d.top \in Int /\ d.bottom \in Int /\ d.origin \in Int
      /\ 0 <= d.origin /\ d.scr_end = d.origin + Size /\ d.scr_end <= VideoMem
      /\ 0 <= d.top /\ d.top <= d.bottom - 1 /\ d.bottom <= Lines
      /\ VideoMem \in Nat /\ Size \in Nat /\ Kept(d.mem) /\ d \in Display
  BY Fields, Sizes DEF Rows
<1>2. /\ d.top * Columns \in Int /\ (d.bottom - 1) * Columns \in Int
      /\ 0 <= d.top * Columns /\ (d.bottom - 1) * Columns + Columns <= Size
      /\ d.top * Columns <= (d.bottom - 1) * Columns
  <2>1. d.top * Columns \in Int /\ (d.bottom - 1) * Columns \in Int /\ d.bottom - 1 \in Int
    BY <1>1, RowAfterRow
  <2>2. 0 <= d.top * Columns /\ (d.bottom - 1) * Columns + Columns <= Size
    BY <1>1, RowsOfScreen DEF Rows
  <2>3. d.top * Columns <= (d.bottom - 1) * Columns
    BY <1>1, RowsInOrder
  <2> QED
    BY <2>1, <2>2, <2>3
<1>3. n \in Int /\ n = (d.bottom - 1) * Columns - d.top * Columns
  BY <1>1, RowsApart
<1>4. 2 * (n \div 2) = n
  BY <1>1, RowsAreEven
<1>5. /\ IsScreen(D) /\ IsScreen(View(e))
      /\ \A r \in Rows, c \in Cols :
           D[r][c] = IF r \notin d.top .. d.bottom - 1 THEN View(d)[r][c]
                     ELSE IF r - 1 >= d.top THEN View(d)[r - 1][c] ELSE Blank
  <2>1. IsScreen(View(d)) /\ IsScreen(View(e))
    BY ViewIsScreen
  <2>2. d.top \in Int /\ d.bottom \in Int /\ 0 <= d.top /\ d.bottom <= Lines
    BY <1>1
  <2> QED
    BY <2>1, <2>2, MovedByOne
<1> HIDE DEF n, k, D
<1>6. to \in Int /\ 0 <= to /\ to + n + Columns <= d.scr_end /\ 0 <= n
  BY <1>1, <1>2, <1>3
<1>7. e = [d EXCEPT !.mem = m2]
  <2>1. Columns * (d.top + 1) = d.top * Columns + Columns
    BY <1>1, RowAfterRow
  <2>2. d.origin + Columns * (d.top + 1) = to + Columns /\ (to + Columns) - Columns = to
    BY <1>1, <1>6, <2>1
  <2> QED
    BY <1>1, <2>2 DEF Scrdown, n, k
<1> HIDE DEF to
<1>8. Kept(m1)
  BY <1>1, <1>3, <1>4, <1>6, CopyKept
<1>9. Kept(m2)
  <2> HIDE DEF m1
  <2> QED
    BY <1>1, <1>3, <1>6, <1>8, FillKept
<1>10. /\ Good(e) /\ e.mem = m2
       /\ e.x = d.x /\ e.y = d.y /\ e.top = d.top /\ e.bottom = d.bottom
       /\ e.pos = d.pos /\ e.origin = d.origin
  BY <1>7, <1>9, NewMemory
<1>11. ASSUME NEW r \in Rows, NEW c \in Cols
       PROVE  View(e)[r][c] = D[r][c]
  <2> DEFINE a == d.origin + r * Columns + c
  <2>1. /\ a \in Address /\ View(d)[r][c] = d.mem[a] /\ a - Columns \in Int
        /\ r * Columns \in Int /\ r \in Int /\ c \in Int /\ a \in Int
    BY <1>1, CellIsVideo
  <2>2. View(e)[r][c] = m2[a]
    <3>1. View(e)[r][c] = e.mem[e.origin + r * Columns + c]
      BY <1>10, CellIsVideo
    <3> QED
      BY <1>10, <3>1
  <2>3. /\ a >= to <=> r >= d.top
        /\ a >= to + Columns <=> r >= d.top + 1
        /\ a < to + n + Columns <=> r < d.bottom
    <3>1. /\ r * Columns + c >= d.top * Columns <=> r >= d.top
          /\ r * Columns + c >= (d.top + 1) * Columns <=> r >= d.top + 1
          /\ r * Columns + c < d.bottom * Columns <=> r < d.bottom
      BY <1>1, <2>1, Between DEF Cols
    <3>2. /\ d.bottom * Columns = (d.bottom - 1) * Columns + Columns
          /\ (d.top + 1) * Columns = d.top * Columns + Columns
      BY <1>1, RowsApart
    <3> QED
      BY <1>1, <1>2, <1>3, <2>1, <3>1, <3>2 DEF to
  <2>4. CASE r \notin d.top .. d.bottom - 1
    <3>1. a < to \/ a >= to + n + Columns
      BY <1>1, <1>3, <1>6, <2>1, <2>3, <2>4
    <3>2. m2[a] = d.mem[a]
      BY <1>1, <1>3, <1>4, <1>6, <2>1, <3>1 DEF Fill, Copied
    <3> QED
      BY <1>5, <2>1, <2>2, <2>4, <3>2
  <2>5. CASE r \in d.top .. d.bottom - 1 /\ r - 1 >= d.top
    <3>1. a >= to + Columns /\ a < to + n + Columns
      BY <1>1, <1>3, <1>6, <2>1, <2>3, <2>5
    <3>2. m2[a] = d.mem[a - Columns]
      <4>1. m2[a] = m1[a]
        BY <1>1, <1>3, <1>6, <2>1, <3>1 DEF Fill
      <4>2. m1[a] = d.mem[a - (to + Columns) + to]
        BY <1>1, <1>3, <1>4, <1>6, <2>1, <3>1 DEF Copied
      <4>3. a - (to + Columns) + to = a - Columns
        BY <1>1, <1>6, <2>1
      <4> QED
        BY <4>1, <4>2, <4>3
    <3>3. r - 1 \in Rows /\ View(d)[r - 1][c] = d.mem[a - Columns]
      <4>1. r - 1 \in Rows
        BY <1>1, <2>1, <2>5 DEF Rows
      <4>2. View(d)[r - 1][c] = d.mem[d.origin + (r - 1) * Columns + c]
        BY <4>1, CellIsVideo
      <4>3. d.origin + (r - 1) * Columns + c = a - Columns
        BY <1>1, <2>1, RowAfterRow
      <4> QED
        BY <4>1, <4>2, <4>3
    <3> QED
      BY <1>5, <2>2, <2>5, <3>2, <3>3
  <2>6. CASE r \in d.top .. d.bottom - 1 /\ ~(r - 1 >= d.top)
    <3>1. a >= to /\ a < to + Columns
      BY <1>1, <1>3, <1>6, <2>1, <2>3, <2>6
    <3>2. m2[a] = Blank
      BY <1>1, <1>3, <1>6, <2>1, <3>1 DEF Fill
    <3> QED
      BY <1>5, <2>2, <2>6, <3>2
  <2> QED
    BY <2>4, <2>5, <2>6
<1>12. View(e) = D
  BY <1>5, <1>11, SameScreen
<1> QED
  BY <1>10, <1>12 DEF Shows, D

-----------------------------------------------------------------------------
(* The cursor moves.                                                       *)

\* Only the cursor moves.
LEMMA MoveShows ==
  ASSUME NEW d, Good(d), NEW x \in 0 .. Columns, NEW y \in Rows, NEW p \in Int,
         p = d.origin + y * Columns + x,
         NEW e, e = [d EXCEPT !.x = x, !.y = y, !.pos = p]
  PROVE  Shows(e, View(d), x, y, d.top, d.bottom) /\ e.pos = p
<1>1. /\ d \in Display /\ x \in Int /\ y \in Int
  BY Fields, Sizes DEF Rows
<1>2. /\ e \in Display /\ e.x = x /\ e.y = y /\ e.pos = p /\ e.mem = d.mem /\ e.top = d.top
      /\ e.bottom = d.bottom /\ e.origin = d.origin /\ e.scr_end = d.scr_end /\ e.shown = d.shown
  BY <1>1 DEF Display
<1>3. Good(e)
  BY <1>2 DEF Good, Window, Place, Rows
<1>4. View(e) = View(d)
  BY <1>2 DEF View
<1> QED
  BY <1>2, <1>3, <1>4 DEF Shows

\* The screen and the row after a line feed.
Fed(s, y, t, b)    == IF y + 1 >= b THEN T!Up(s, t, b, 1) ELSE s
RowFed(y, b)       == IF y + 1 >= b THEN y ELSE y + 1

\* lf().
LEMMA LfShows ==
  ASSUME NEW d, Good(d), NEW e, e = Lf(d)
  PROVE  Shows(e, Fed(View(d), d.y, d.top, d.bottom), d.x, RowFed(d.y, d.bottom), d.top, d.bottom)
<1>1. /\ d \in Display /\ d.y \in Rows /\ d.y \in Int /\ d.bottom \in Int /\ d.bottom <= Lines
      /\ d.x \in 0 .. Columns /\ d.pos \in Int /\ d.pos = d.origin + d.y * Columns + d.x
      /\ d.x \in Int /\ d.origin \in Int /\ d.y * Columns \in Int /\ Columns \in Int
      /\ Lines \in Int /\ 0 <= d.y
  BY Fields, Sizes
<1>2. CASE d.y + 1 < d.bottom
  <2>1. e = [d EXCEPT !.x = d.x, !.y = d.y + 1, !.pos = d.pos + Columns]
    <3>1. e = [d EXCEPT !.y = d.y + 1, !.pos = d.pos + Columns]
      BY <1>2 DEF Lf
    <3> QED
      BY <1>1, <3>1 DEF Display
  <2>2. d.y + 1 \in Rows
    BY <1>1, <1>2 DEF Rows
  <2>3. d.pos + Columns \in Int /\ d.pos + Columns = d.origin + (d.y + 1) * Columns + d.x
    BY <1>1, RowAfterRow
  <2>4. Shows(e, View(d), d.x, d.y + 1, d.top, d.bottom)
    <3> DEFINE y == d.y + 1
               p == d.pos + Columns
    <3>1. y \in Rows /\ p \in Int /\ p = d.origin + y * Columns + d.x /\ d.x \in 0 .. Columns
      BY <1>1, <2>2, <2>3
    <3>2. e = [d EXCEPT !.x = d.x, !.y = y, !.pos = p]
      BY <2>1
    <3> HIDE DEF y, p
    <3>3. Shows(e, View(d), d.x, y, d.top, d.bottom)
      BY <3>1, <3>2, MoveShows
    <3> QED
      BY <3>3 DEF y
  <2> QED
    BY <1>1, <1>2, <2>4 DEF Fed, RowFed
<1>3. CASE ~(d.y + 1 < d.bottom)
  BY <1>1, <1>3, ScrupShows DEF Lf, Fed, RowFed, Shows
<1> QED
  BY <1>2, <1>3

\* The other direction.
LEMMA RiShows ==
  ASSUME NEW d, Good(d), NEW e, e = Ri(d)
  PROVE  Shows(e, IF d.y <= d.top THEN T!Down(View(d), d.top, d.bottom, 1) ELSE View(d),
               d.x, IF d.y <= d.top THEN d.y ELSE d.y - 1, d.top, d.bottom)
<1>1. /\ d \in Display /\ d.y \in Rows /\ d.y \in Int /\ d.top \in Int /\ 0 <= d.top
      /\ d.x \in 0 .. Columns /\ d.pos \in Int /\ d.pos = d.origin + d.y * Columns + d.x
      /\ d.x \in Int /\ d.origin \in Int /\ d.y * Columns \in Int /\ Columns \in Int
      /\ Lines \in Int /\ 0 <= d.y
  BY Fields, Sizes
<1>2. CASE d.y > d.top
  <2>1. e = [d EXCEPT !.x = d.x, !.y = d.y - 1, !.pos = d.pos - Columns]
    <3>1. e = [d EXCEPT !.y = d.y - 1, !.pos = d.pos - Columns]
      BY <1>2 DEF Ri
    <3> QED
      BY <1>1, <3>1 DEF Display
  <2>2. d.y - 1 \in Rows
    BY <1>1, <1>2 DEF Rows
  <2>3. d.pos - Columns \in Int /\ d.pos - Columns = d.origin + (d.y - 1) * Columns + d.x
    BY <1>1, RowAfterRow
  <2>4. Shows(e, View(d), d.x, d.y - 1, d.top, d.bottom)
    <3> DEFINE y == d.y - 1
               p == d.pos - Columns
    <3>1. y \in Rows /\ p \in Int /\ p = d.origin + y * Columns + d.x /\ d.x \in 0 .. Columns
      BY <1>1, <2>2, <2>3
    <3>2. e = [d EXCEPT !.x = d.x, !.y = y, !.pos = p]
      BY <2>1
    <3> HIDE DEF y, p
    <3>3. Shows(e, View(d), d.x, y, d.top, d.bottom)
      BY <3>1, <3>2, MoveShows
    <3> QED
      BY <3>3 DEF y
  <2> QED
    BY <1>1, <1>2, <2>4
<1>3. CASE ~(d.y > d.top)
  BY <1>1, <1>3, ScrdownShows DEF Ri, Shows
<1> QED
  BY <1>2, <1>3

\* The cells of one row, from x1 to x2.
LEMMA InRow ==
  ASSUME NEW r \in Rows, NEW c \in Cols, NEW y \in Rows, NEW x1 \in Int, NEW x2 \in Int,
         0 <= x1, x2 < Columns
  PROVE  r * Columns + c \in y * Columns + x1 .. y * Columns + x2 <=> r = y /\ c \in x1 .. x2
<1>1. /\ r \in Int /\ y \in Int /\ c \in Int /\ Columns \in Int /\ c \in 0 .. Columns - 1
      /\ r * Columns \in Int /\ y * Columns \in Int
  BY Sizes, RowAfterRow DEF Rows, Cols
<1>2. /\ r * Columns + c >= y * Columns <=> r >= y
      /\ r * Columns + c < (y + 1) * Columns <=> r < y + 1
      /\ (y + 1) * Columns = y * Columns + Columns
  BY <1>1, Between, RowAfterRow
<1>3. r * Columns + c \in y * Columns + x1 .. y * Columns + x2 => r = y
  <2>1. r * Columns + c \in y * Columns + x1 .. y * Columns + x2 => r >= y /\ r < y + 1
    BY <1>1, <1>2
  <2> QED
    BY <1>1, <2>1
<1>4. r = y => (r * Columns + c \in y * Columns + x1 .. y * Columns + x2 <=> c \in x1 .. x2)
  BY <1>1
<1> QED
  BY <1>3, <1>4

\* Cells change.
LEMMA CellsShow ==
  ASSUME NEW d, Good(d), NEW m, Kept(m), NEW s, IsScreen(s),
         \A r \in Rows, c \in Cols : m[d.origin + r * Columns + c] = s[r][c],
         NEW e, e = [d EXCEPT !.mem = m]
  PROVE  Shows(e, s, d.x, d.y, d.top, d.bottom) /\ e.pos = d.pos /\ e.origin = d.origin
<1>1. /\ Good(e) /\ e.mem = m
      /\ e.x = d.x /\ e.y = d.y /\ e.top = d.top /\ e.bottom = d.bottom
      /\ e.pos = d.pos /\ e.origin = d.origin
  BY NewMemory
<1>2. ASSUME NEW r \in Rows, NEW c \in Cols PROVE View(e)[r][c] = s[r][c]
  <2>0. Good(e)
    BY <1>1
  <2>1. View(e)[r][c] = e.mem[e.origin + r * Columns + c]
    <3>1. View(e)[r][c] = e.mem[e.shown + r * Columns + c]
      BY DEF View
    <3> QED
      BY <2>0, <3>1, Fields
  <2> QED
    BY <1>1, <2>1
<1>3. View(e) = s
  BY <1>2, ViewIsScreen, SameScreen
<1> QED
  BY <1>1, <1>3 DEF Shows

\* A character is written where the cursor is.
LEMMA WriteCell ==
  ASSUME NEW d, Good(d), d.x < Columns, NEW g \in Glyph, NEW e, e = [d EXCEPT !.mem[d.pos] = g]
  PROVE  /\ Shows(e, [View(d) EXCEPT ![d.y][d.x] = g], d.x, d.y, d.top, d.bottom)
         /\ e.pos = d.pos /\ e.origin = d.origin
<1> DEFINE m == [d.mem EXCEPT ![d.pos] = g]
           s == [View(d) EXCEPT ![d.y][d.x] = g]
<1>1. /\ d \in Display /\ d.y \in Rows /\ d.x \in Cols /\ d.mem \in Memory /\ Kept(d.mem)
      /\ d.origin \in Int /\ d.y * Columns \in Int /\ d.x \in Int
      /\ d.pos = d.origin + d.y * Columns + d.x
  BY Fields, Sizes DEF Cols
<1>2. d.pos \in Video /\ d.pos \in Address
  BY <1>1, CellIsVideo
<1>3. Kept(m)
  BY <1>1, <1>2 DEF Kept, Memory
<1>4. IsScreen(View(d))
  BY ViewIsScreen
<1> HIDE DEF m
<1>5. /\ s = [r \in Rows |-> s[r]]
      /\ \A r \in Rows : s[r] = IF r = d.y THEN [View(d)[r] EXCEPT ![d.x] = g] ELSE View(d)[r]
  <2>1. View(d) = [r \in Rows |-> View(d)[r]]
    BY <1>4 DEF IsScreen
  <2> QED
    BY <1>1, <2>1
<1> HIDE DEF s
<1>6. \A r \in Rows : /\ s[r] = [c \in Cols |-> s[r][c]]
                      /\ \A c \in Cols : s[r][c] = IF r = d.y /\ c = d.x THEN g ELSE View(d)[r][c]
  <2>1. \A r \in Rows : View(d)[r] = [c \in Cols |-> View(d)[r][c]]
    BY <1>4 DEF IsScreen
  <2> QED
    BY <1>1, <1>5, <2>1
<1>7. IsScreen(s)
  BY <1>5, <1>6 DEF IsScreen
<1>8. ASSUME NEW r \in Rows, NEW c \in Cols
      PROVE  m[d.origin + r * Columns + c] = s[r][c]
  <2> DEFINE a == d.origin + r * Columns + c
  <2>1. a \in Address /\ View(d)[r][c] = d.mem[a] /\ r * Columns \in Int /\ c \in Int
    BY CellIsVideo
  <2>2. r * Columns + c \in d.y * Columns + d.x .. d.y * Columns + d.x <=> r = d.y /\ c \in d.x .. d.x
    BY <1>1, InRow DEF Cols
  <2>3. a = d.pos <=> r = d.y /\ c = d.x
    BY <1>1, <2>1, <2>2
  <2>4. m[a] = IF a = d.pos THEN g ELSE d.mem[a]
    BY <1>1, <2>1 DEF m, Memory
  <2> QED
    BY <1>6, <2>1, <2>3, <2>4
<1>9. e = [d EXCEPT !.mem = m]
  BY DEF m
<1>10. /\ Shows(e, s, d.x, d.y, d.top, d.bottom) /\ e.pos = d.pos /\ e.origin = d.origin
  BY <1>3, <1>7, <1>8, <1>9, CellsShow
<1> QED
  BY <1>10 DEF s

-----------------------------------------------------------------------------
(* Characters.                                                             *)

\* The cursor is past the last column by at most a row.
LEMMA NextLineShows ==
  ASSUME NEW d, d \in Display, Kept(d.mem), Window(d), Place(d), d.x \in Columns .. 2 * Columns,
         NEW e, e = NextLine(d)
  PROVE  Shows(e, Fed(View(d), d.y, d.top, d.bottom), d.x - Columns, RowFed(d.y, d.bottom),
               d.top, d.bottom)
<1> DEFINE x == d.x - Columns
           p == d.pos - Columns
           f == [d EXCEPT !.x = x, !.pos = p]
<1>1. e = Lf(f)
  BY DEF NextLine
<1>2. x \in Int /\ p \in Int /\ x \in 0 .. Columns /\ p = d.origin + d.y * Columns + x
  <2>1. d.x \in Int /\ d.pos \in Int /\ d.origin \in Int /\ Columns \in Int /\ d.y \in Int
    BY Sizes DEF Display
  <2>2. d.y * Columns \in Int /\ d.pos = d.origin + d.y * Columns + d.x
    BY <2>1, RowAfterRow DEF Place
  <2> QED
    BY <2>1, <2>2
<1> HIDE DEF x, p
<1>3. /\ f \in Display /\ f.x = x /\ f.pos = p /\ f.y = d.y /\ f.mem = d.mem /\ f.top = d.top
      /\ f.bottom = d.bottom /\ f.origin = d.origin /\ f.scr_end = d.scr_end /\ f.shown = d.shown
  BY <1>2 DEF Display
<1> HIDE DEF f
<1>4. Good(f)
  BY <1>2, <1>3 DEF Good, Window, Place
<1>5. View(f) = View(d)
  BY <1>3 DEF View
<1>6. Shows(e, Fed(View(f), f.y, f.top, f.bottom), f.x, RowFed(f.y, f.bottom), f.top, f.bottom)
  BY <1>1, <1>4, LfShows
<1> QED
  BY <1>3, <1>5, <1>6 DEF x

\* A printable character.
LEMMA PutShows ==
  ASSUME NEW d, Good(d), NEW g \in Glyph, NEW e, e = Put(d, g)
  PROVE  IF d.x < Columns
           THEN Shows(e, [View(d) EXCEPT ![d.y][d.x] = g], d.x + 1, d.y, d.top, d.bottom)
           ELSE Shows(e, [Fed(View(d), d.y, d.top, d.bottom) EXCEPT ![RowFed(d.y, d.bottom)][0] = g],
                      1, RowFed(d.y, d.bottom), d.top, d.bottom)
<1>1. /\ d \in Display /\ Kept(d.mem) /\ Window(d) /\ Place(d)
      /\ d.x \in Int /\ Columns \in Nat \ {0} /\ 0 <= d.x /\ d.x <= Columns
  BY Fields, Sizes DEF Good
<1>2. ASSUME NEW f, Good(f), f.x < Columns,
             e = [f EXCEPT !.mem[f.pos] = g, !.pos = @ + 1, !.x = @ + 1]
      PROVE  Shows(e, [View(f) EXCEPT ![f.y][f.x] = g], f.x + 1, f.y, f.top, f.bottom)
  <2> DEFINE h == [f EXCEPT !.mem[f.pos] = g]
             p == h.pos + 1
             x == f.x + 1
  <2>1. /\ Shows(h, [View(f) EXCEPT ![f.y][f.x] = g], f.x, f.y, f.top, f.bottom)
        /\ h.pos = f.pos /\ h.origin = f.origin
    BY <1>2, WriteCell
  <2>2. /\ f \in Display /\ f.y \in Rows /\ f.x \in Int /\ 0 <= f.x /\ f.pos \in Int /\ f.origin \in Int
        /\ f.y * Columns \in Int /\ f.pos = f.origin + f.y * Columns + f.x /\ Columns \in Int
    BY <1>2, Fields, Sizes
  <2> HIDE DEF h
  <2>3. /\ h \in Display /\ h.x = f.x /\ h.y = f.y /\ Good(h)
        /\ View(h) = [View(f) EXCEPT ![f.y][f.x] = g] /\ h.top = f.top /\ h.bottom = f.bottom
    BY <2>1 DEF Shows, Good
  <2>4. /\ p \in Int /\ x \in 0 .. Columns /\ p = h.origin + f.y * Columns + x
    BY <1>2, <2>1, <2>2
  <2>5. e = [h EXCEPT !.x = x, !.y = f.y, !.pos = p]
    <3>1. e = [h EXCEPT !.pos = @ + 1, !.x = @ + 1]
      BY <1>2, <2>2 DEF h, Display
    <3> QED
      BY <2>3, <3>1 DEF Display
  <2> HIDE DEF p, x
  <2>6. Shows(e, View(h), x, f.y, h.top, h.bottom)
    BY <2>2, <2>3, <2>4, <2>5, MoveShows
  <2> QED
    BY <2>3, <2>6 DEF x
<1> DEFINE k == IF d.x >= Columns THEN NextLine(d) ELSE d
<1>5. e = [k EXCEPT !.mem[k.pos] = g, !.pos = @ + 1, !.x = @ + 1]
  BY DEF Put
<1>6. k = IF d.x < Columns THEN d ELSE NextLine(d)
  BY <1>1
<1> HIDE DEF k
<1>3. CASE d.x < Columns
  <2>1. e = [d EXCEPT !.mem[d.pos] = g, !.pos = @ + 1, !.x = @ + 1]
    BY <1>3, <1>5, <1>6
  <2> QED
    BY <1>2, <1>3, <2>1
<1>4. CASE ~(d.x < Columns)
  <2> DEFINE f == NextLine(d)
  <2>1. Shows(f, Fed(View(d), d.y, d.top, d.bottom), d.x - Columns, RowFed(d.y, d.bottom),
              d.top, d.bottom)
    BY <1>1, <1>4, NextLineShows
  <2>2. e = [f EXCEPT !.mem[f.pos] = g, !.pos = @ + 1, !.x = @ + 1]
    BY <1>4, <1>5, <1>6
  <2>3. d.x - Columns = 0
    BY <1>1, <1>4
  <2> HIDE DEF f
  <2>4. /\ Good(f) /\ f.x = 0 /\ f.y = RowFed(d.y, d.bottom) /\ f.top = d.top /\ f.bottom = d.bottom
        /\ View(f) = Fed(View(d), d.y, d.top, d.bottom)
    BY <2>1, <2>3 DEF Shows
  <2>5. Good(f) /\ f.x < Columns
    BY <1>1, <2>4
  <2>6. Shows(e, [View(f) EXCEPT ![f.y][f.x] = g], f.x + 1, f.y, f.top, f.bottom)
    BY <1>2, <2>2, <2>5
  <2> QED
    BY <1>4, <2>4, <2>6
<1> QED
  BY <1>3, <1>4

\* Carriage return, backspace, delete, tabulator.
LEMMA CrShows ==
  ASSUME NEW d, Good(d), NEW e, e = Cr(d)
  PROVE  Shows(e, View(d), 0, d.y, d.top, d.bottom)
<1> DEFINE p == d.pos - d.x
<1>1. /\ d \in Display /\ d.y \in Rows /\ p \in Int /\ p = d.origin + d.y * Columns + 0
      /\ 0 \in 0 .. Columns
  BY Fields, Sizes
<1>2. e = [d EXCEPT !.x = 0, !.y = d.y, !.pos = p]
  BY <1>1 DEF Cr, Display
<1> HIDE DEF p
<1> QED
  BY <1>1, <1>2, MoveShows

\* Backspace, when the cursor is not in the first column.
LEMMA BackspaceShows ==
  ASSUME NEW d, Good(d), d.x > 0, NEW e, e = Backspace(d)
  PROVE  Shows(e, View(d), d.x - 1, d.y, d.top, d.bottom)
<1> DEFINE p == d.pos - 1
           x == d.x - 1
<1>1. /\ d \in Display /\ d.y \in Rows /\ p \in Int /\ p = d.origin + d.y * Columns + x
      /\ x \in 0 .. Columns
  <2>1. /\ d \in Display /\ d.y \in Rows /\ d.x \in Int /\ d.x <= Columns /\ d.pos \in Int
        /\ d.origin \in Int /\ d.y * Columns \in Int /\ Columns \in Int
        /\ d.pos = d.origin + d.y * Columns + d.x
    BY Fields, Sizes
  <2> QED
    BY <2>1
<1>2. e = [d EXCEPT !.x = x, !.y = d.y, !.pos = p]
  BY <1>1 DEF Backspace, Display
<1> HIDE DEF p, x
<1>3. Shows(e, View(d), x, d.y, d.top, d.bottom)
  BY <1>1, <1>2, MoveShows
<1> QED
  BY <1>3 DEF x

\* Delete blanks the cell before the cursor.
LEMMA DelShows ==
  ASSUME NEW d, Good(d), d.x > 0, NEW e, e = Del(d)
  PROVE  Shows(e, [View(d) EXCEPT ![d.y][d.x - 1] = Blank], d.x - 1, d.y, d.top, d.bottom)
<1> DEFINE f == Backspace(d)
<1>1. Shows(f, View(d), d.x - 1, d.y, d.top, d.bottom)
  BY BackspaceShows
<1>2. e = [f EXCEPT !.mem[f.pos] = Blank]
  BY DEF Del
<1> HIDE DEF f
<1>3. d.x - 1 < Columns /\ Blank \in Glyph
  BY Fields, Sizes, CellAssumption
<1>4. Good(f) /\ f.x < Columns
  BY <1>1, <1>3 DEF Shows
<1>5. Shows(e, [View(f) EXCEPT ![f.y][f.x] = Blank], f.x, f.y, f.top, f.bottom)
  BY <1>2, <1>3, <1>4, WriteCell
<1> QED
  BY <1>1, <1>5 DEF Shows

\* The tabulator goes on at most a row.
LEMMA TabShows ==
  ASSUME NEW d, Good(d), NEW e, e = Tab(d)
  PROVE  \/ \E x \in 0 .. Columns : Shows(e, View(d), x, d.y, d.top, d.bottom)
         \/ \E x \in 0 .. d.x :
              Shows(e, Fed(View(d), d.y, d.top, d.bottom), x, RowFed(d.y, d.bottom), d.top, d.bottom)
<1> DEFINE c == TabStop - (d.x % TabStop)
           x == d.x + c
           p == d.pos + c
           f == [d EXCEPT !.x = x, !.pos = p]
<1>1. /\ d \in Display /\ d.y \in Rows /\ d.x \in Int /\ 0 <= d.x /\ d.x <= Columns
      /\ d.pos \in Int /\ d.origin \in Int /\ d.y * Columns \in Int
      /\ d.pos = d.origin + d.y * Columns + d.x /\ Columns \in Int
  BY Fields, Sizes
<1>2. c \in 1 .. Columns
  <2>1. TabStop \in 1 .. Columns /\ Columns \in Int
    BY ScreenAssumption, Sizes
  <2>2. d.x % TabStop \in 0 .. TabStop - 1
    BY <1>1, <2>1
  <2> QED
    BY <2>1, <2>2
<1>3. e = IF x > Columns THEN NextLine(f) ELSE f
  <2>1. f.x = x
    BY <1>1 DEF Display
  <2> HIDE DEF x
  <2>2. e = IF f.x > Columns THEN NextLine(f) ELSE f
    BY DEF Tab, x
  <2> QED
    BY <2>1, <2>2
<1> HIDE DEF c
<1>4. x \in Int /\ p \in Int /\ p = d.origin + d.y * Columns + x /\ x <= d.x + Columns /\ 0 <= x
  BY <1>1, <1>2
<1> HIDE DEF x, p
<1>5. CASE x <= Columns
  <2>1. e = [d EXCEPT !.x = x, !.y = d.y, !.pos = p]
    <3>1. e = f
      BY <1>1, <1>3, <1>4, <1>5
    <3> QED
      BY <1>1, <3>1 DEF Display
  <2>2. x \in 0 .. Columns
    BY <1>1, <1>4, <1>5
  <2>3. Shows(e, View(d), x, d.y, d.top, d.bottom)
    BY <1>1, <1>4, <2>1, <2>2, MoveShows
  <2> QED
    BY <2>2, <2>3
<1>6. CASE x > Columns
  <2>1. /\ f \in Display /\ f.x = x /\ f.pos = p /\ f.y = d.y /\ f.mem = d.mem /\ f.top = d.top
        /\ f.bottom = d.bottom /\ f.origin = d.origin /\ f.scr_end = d.scr_end /\ f.shown = d.shown
    BY <1>1, <1>4 DEF Display
  <2> HIDE DEF f
  <2>2. Kept(f.mem) /\ Window(f) /\ Place(f)
    BY <1>4, <2>1 DEF Good, Window, Place
  <2>3. f.x \in Columns .. 2 * Columns
    BY <1>1, <1>4, <1>6, <2>1
  <2>4. View(f) = View(d)
    BY <2>1 DEF View
  <2>5. e = NextLine(f)
    BY <1>1, <1>3, <1>4, <1>6
  <2>6. Shows(e, Fed(View(f), f.y, f.top, f.bottom), f.x - Columns, RowFed(f.y, f.bottom),
              f.top, f.bottom)
    BY <2>1, <2>2, <2>3, <2>5, NextLineShows
  <2>7. x - Columns \in 0 .. d.x
    BY <1>1, <1>4, <1>6
  <2> QED
    BY <2>1, <2>4, <2>6, <2>7
<1> QED
  BY <1>1, <1>4, <1>5, <1>6

\* gotoxy().
LEMMA GotoxyShows ==
  ASSUME NEW d, Good(d), NEW x \in Nat, NEW y \in Nat, NEW e, e = Gotoxy(d, x, y)
  PROVE  \E x2 \in 0 .. Columns, y2 \in Rows : Shows(e, View(d), x2, y2, d.top, d.bottom)
<1>1. /\ d \in Display /\ d.origin \in Int /\ Columns \in Int /\ Lines \in Int
      /\ d.x \in 0 .. Columns /\ d.y \in Rows
  BY Fields, Sizes
<1>2. CASE x > Columns \/ y >= Lines
  <2>1. e = d
    BY <1>2 DEF Gotoxy
  <2> QED
    BY <1>1, <2>1 DEF Shows
<1>3. CASE ~(x > Columns \/ y >= Lines)
  <2> DEFINE p == d.origin + y * Columns + x
  <2>1. x \in 0 .. Columns /\ y \in Rows /\ p \in Int
    BY <1>1, <1>3, RowAfterRow DEF Rows
  <2>2. e = [d EXCEPT !.x = x, !.y = y, !.pos = p]
    BY <1>3 DEF Gotoxy
  <2>3. Shows(e, View(d), x, y, d.top, d.bottom)
    BY <2>1, <2>2, MoveShows
  <2> QED
    BY <2>1, <2>3
<1> QED
  BY <1>2, <1>3

\* The scrolling region.
LEMMA SetRegionShows ==
  ASSUME NEW d, Good(d), NEW t \in Nat, NEW b \in Nat, NEW e, e = SetRegion(d, t, b)
  PROVE  \E t2 \in Rows, b2 \in 1 .. Lines : t2 < b2 /\ Shows(e, View(d), d.x, d.y, t2, b2)
<1>1. /\ d \in Display /\ Lines \in Int
      /\ d.top \in Int /\ d.bottom \in Int /\ 0 <= d.top /\ d.top < d.bottom /\ d.bottom <= Lines
  BY Fields, Sizes
<1>2. CASE t < b /\ b <= Lines
  <2>1. e = [d EXCEPT !.top = t, !.bottom = b]
    BY <1>2 DEF SetRegion
  <2>2. /\ e \in Display /\ e.x = d.x /\ e.pos = d.pos /\ e.y = d.y /\ e.mem = d.mem /\ e.top = t
        /\ e.bottom = b /\ e.origin = d.origin /\ e.scr_end = d.scr_end /\ e.shown = d.shown
    <3>1. t \in Int /\ b \in Int
      OBVIOUS
    <3> QED
      BY <1>1, <2>1, <3>1 DEF Display
  <2>3. t \in Rows /\ b \in 1 .. Lines /\ t \in 0 .. Lines - 1 /\ b \in t + 1 .. Lines
    BY <1>1, <1>2 DEF Rows
  <2>4. Good(e) /\ View(e) = View(d)
    BY <2>2, <2>3 DEF Good, Window, Place, View
  <2> QED
    BY <1>2, <2>2, <2>3, <2>4 DEF Shows
<1>3. CASE ~(t < b /\ b <= Lines)
  <2>1. e = d
    BY <1>3 DEF SetRegion
  <2>2. d.top \in Rows /\ d.bottom \in 1 .. Lines
    BY <1>1 DEF Rows
  <2> QED
    BY <1>1, <2>1, <2>2 DEF Shows
<1> QED
  BY <1>2, <1>3

-----------------------------------------------------------------------------
(* Repetition.                                                             *)

\* What holds at first and is kept, holds always.
LEMMA UpTo ==
  ASSUME NEW n \in Nat, NEW S, 0 \in S, \A i \in 1 .. n : i - 1 \in S => i \in S
  PROVE  \A i \in 0 .. n : i \in S
<1> DEFINE R == OpToRel(<, Nat)
           Out == {i \in 0 .. n : i \notin S}
<1>1. IsWellFoundedOn(R, Nat)
  BY NatLessThanWellFounded
<1>2. \A a, b \in Nat : a < b => <<a, b>> \in R
  BY DEF OpToRel
<1> HIDE DEF R
<1>3. Out \subseteq Nat
  OBVIOUS
<1> SUFFICES ASSUME Out # {} PROVE FALSE
  OBVIOUS
<1>4. PICK i \in Out : \A j \in Out : ~(<<j, i>> \in R)
  BY <1>1, <1>3, WFMin
<1>5. i \in 1 .. n
  BY <1>4
<1>6. i - 1 \in 0 .. n /\ i - 1 \in Nat /\ i \in Nat /\ i - 1 < i
  BY <1>5
<1>7. <<i - 1, i>> \in R
  BY <1>2, <1>6
<1>8. i - 1 \in S
  BY <1>4, <1>6, <1>7
<1> QED
  BY <1>4, <1>5, <1>8

\* The displays in order, and n steps between them.
Displays == {d \in Display : Good(d)}
Chain(f, F, d, n) ==
  f \in [0 .. n -> Displays] /\ f[0] = d /\ \A i \in 1 .. n : f[i] = F[f[i - 1]]

\* Any number of steps can be made.
LEMMA ChainExists ==
  ASSUME NEW F \in [Displays -> Displays], NEW d \in Displays, NEW n \in Nat
  PROVE  \E f : Chain(f, F, d, n)
<1> DEFINE S == {k \in Nat : \E f : Chain(f, F, d, k)}
<1>1. 0 \in S
  <2> DEFINE f == [i \in 0 .. 0 |-> d]
  <2>1. Chain(f, F, d, 0)
    BY DEF Chain
  <2> QED
    BY <2>1
<1>2. ASSUME NEW k \in 1 .. n, k - 1 \in S PROVE k \in S
  <2>1. PICK f : Chain(f, F, d, k - 1)
    BY <1>2
  <2> DEFINE g == [i \in 0 .. k |-> IF i = k THEN F[f[k - 1]] ELSE f[i]]
  <2>2. /\ k \in Nat /\ k - 1 \in 0 .. k - 1 /\ 0 \in 0 .. k - 1 /\ k # 0
        /\ \A i \in 0 .. k : i # k => i \in 0 .. k - 1
        /\ \A i \in 1 .. k : i - 1 \in 0 .. k - 1 /\ i \in 0 .. k
        /\ \A i \in 1 .. k : i # k => i \in 1 .. k - 1
        /\ \A i \in 0 .. k - 1 : i \in 0 .. k /\ i # k
    OBVIOUS
  <2>3. g \in [0 .. k -> Displays]
    BY <2>1, <2>2 DEF Chain
  <2>4. g[0] = d
    BY <2>1, <2>2 DEF Chain
  <2>5. ASSUME NEW i \in 1 .. k PROVE g[i] = F[g[i - 1]]
    <3>1. g[i - 1] = f[i - 1]
      BY <2>2
    <3>2. g[i] = IF i = k THEN F[f[k - 1]] ELSE f[i]
      BY <2>2
    <3> QED
      BY <2>1, <2>2, <3>1, <3>2 DEF Chain
  <2>6. Chain(g, F, d, k)
    BY <2>3, <2>4, <2>5 DEF Chain
  <2> QED
    BY <2>2, <2>6
<1> HIDE DEF S
<1>3. n \in S
  BY <1>1, <1>2, UpTo
<1> QED
  BY <1>3 DEF S

\* A recursive function that is a chain.
LEMMA ChainIs ==
  ASSUME NEW F, NEW d, NEW n \in Nat, NEW f, Chain(f, F, d, n), NEW g, g[0] = d,
         \A i \in 1 .. n : g[i - 1] = f[i - 1] => g[i] = f[i]
  PROVE  g[n] = f[n]
<1> DEFINE S == {i \in Nat : g[i] = f[i]}
<1>1. 0 \in S
  BY DEF Chain
<1>2. \A i \in 1 .. n : i - 1 \in S => i \in S
  OBVIOUS
<1> HIDE DEF S
<1>3. n \in S
  BY <1>1, <1>2, UpTo
<1> QED
  BY <1>3 DEF S

\* A repeated step is the function that Times computes.
LEMMA TimesInsertLine ==
  ASSUME NEW F \in [Displays -> Displays], \A d \in Displays : F[d] = InsertLine(d),
         NEW d \in Displays, NEW n \in Nat, NEW f, Chain(f, F, d, n)
  PROVE  Times(InsertLine, n, d) = f[n]
<1> DEFINE done[i \in 0 .. n] == IF i = 0 THEN d ELSE InsertLine(done[i - 1])
<1>1. f = [i \in 0 .. n |-> IF i = 0 THEN d ELSE InsertLine(f[i - 1])]
  <2>1. f = [i \in 0 .. n |-> f[i]]
    BY DEF Chain
  <2>2. \A i \in 0 .. n : f[i] = IF i = 0 THEN d ELSE InsertLine(f[i - 1])
    <3>1. \A i \in 0 .. n : i # 0 => i \in 1 .. n /\ i - 1 \in 0 .. n
      OBVIOUS
    <3> QED
      BY <3>1 DEF Chain
  <2> QED
    BY <2>1, <2>2
<1>2. done = [i \in 0 .. n |-> IF i = 0 THEN d ELSE InsertLine(done[i - 1])]
  BY <1>1
<1>3. Times(InsertLine, n, d) = done[n]
  BY DEF Times
<1> HIDE DEF done
<1>4. done[0] = d
  BY <1>2
<1>5. ASSUME NEW i \in 1 .. n, done[i - 1] = f[i - 1] PROVE done[i] = f[i]
  <2>1. i \in 0 .. n /\ i # 0
    OBVIOUS
  <2> QED
    BY <1>1, <1>2, <1>5, <2>1
<1> QED
  BY <1>3, <1>4, <1>5, ChainIs

\* The same for DeleteLine.
LEMMA TimesDeleteLine ==
  ASSUME NEW F \in [Displays -> Displays], \A d \in Displays : F[d] = DeleteLine(d),
         NEW d \in Displays, NEW n \in Nat, NEW f, Chain(f, F, d, n)
  PROVE  Times(DeleteLine, n, d) = f[n]
<1> DEFINE done[i \in 0 .. n] == IF i = 0 THEN d ELSE DeleteLine(done[i - 1])
<1>1. f = [i \in 0 .. n |-> IF i = 0 THEN d ELSE DeleteLine(f[i - 1])]
  <2>1. f = [i \in 0 .. n |-> f[i]]
    BY DEF Chain
  <2>2. \A i \in 0 .. n : f[i] = IF i = 0 THEN d ELSE DeleteLine(f[i - 1])
    <3>1. \A i \in 0 .. n : i # 0 => i \in 1 .. n /\ i - 1 \in 0 .. n
      OBVIOUS
    <3> QED
      BY <3>1 DEF Chain
  <2> QED
    BY <2>1, <2>2
<1>2. done = [i \in 0 .. n |-> IF i = 0 THEN d ELSE DeleteLine(done[i - 1])]
  BY <1>1
<1>3. Times(DeleteLine, n, d) = done[n]
  BY DEF Times
<1> HIDE DEF done
<1>4. done[0] = d
  BY <1>2
<1>5. ASSUME NEW i \in 1 .. n, done[i - 1] = f[i - 1] PROVE done[i] = f[i]
  <2>1. i \in 0 .. n /\ i # 0
    OBVIOUS
  <2> QED
    BY <1>1, <1>2, <1>5, <2>1
<1> QED
  BY <1>3, <1>4, <1>5, ChainIs

\* The same for InsertChar.
LEMMA TimesInsertChar ==
  ASSUME NEW F \in [Displays -> Displays], \A d \in Displays : F[d] = InsertChar(d),
         NEW d \in Displays, NEW n \in Nat, NEW f, Chain(f, F, d, n)
  PROVE  Times(InsertChar, n, d) = f[n]
<1> DEFINE done[i \in 0 .. n] == IF i = 0 THEN d ELSE InsertChar(done[i - 1])
<1>1. f = [i \in 0 .. n |-> IF i = 0 THEN d ELSE InsertChar(f[i - 1])]
  <2>1. f = [i \in 0 .. n |-> f[i]]
    BY DEF Chain
  <2>2. \A i \in 0 .. n : f[i] = IF i = 0 THEN d ELSE InsertChar(f[i - 1])
    <3>1. \A i \in 0 .. n : i # 0 => i \in 1 .. n /\ i - 1 \in 0 .. n
      OBVIOUS
    <3> QED
      BY <3>1 DEF Chain
  <2> QED
    BY <2>1, <2>2
<1>2. done = [i \in 0 .. n |-> IF i = 0 THEN d ELSE InsertChar(done[i - 1])]
  BY <1>1
<1>3. Times(InsertChar, n, d) = done[n]
  BY DEF Times
<1> HIDE DEF done
<1>4. done[0] = d
  BY <1>2
<1>5. ASSUME NEW i \in 1 .. n, done[i - 1] = f[i - 1] PROVE done[i] = f[i]
  <2>1. i \in 0 .. n /\ i # 0
    OBVIOUS
  <2> QED
    BY <1>1, <1>2, <1>5, <2>1
<1> QED
  BY <1>3, <1>4, <1>5, ChainIs

\* The same for DeleteChar.
LEMMA TimesDeleteChar ==
  ASSUME NEW F \in [Displays -> Displays], \A d \in Displays : F[d] = DeleteChar(d),
         NEW d \in Displays, NEW n \in Nat, NEW f, Chain(f, F, d, n)
  PROVE  Times(DeleteChar, n, d) = f[n]
<1> DEFINE done[i \in 0 .. n] == IF i = 0 THEN d ELSE DeleteChar(done[i - 1])
<1>1. f = [i \in 0 .. n |-> IF i = 0 THEN d ELSE DeleteChar(f[i - 1])]
  <2>1. f = [i \in 0 .. n |-> f[i]]
    BY DEF Chain
  <2>2. \A i \in 0 .. n : f[i] = IF i = 0 THEN d ELSE DeleteChar(f[i - 1])
    <3>1. \A i \in 0 .. n : i # 0 => i \in 1 .. n /\ i - 1 \in 0 .. n
      OBVIOUS
    <3> QED
      BY <3>1 DEF Chain
  <2> QED
    BY <2>1, <2>2
<1>2. done = [i \in 0 .. n |-> IF i = 0 THEN d ELSE DeleteChar(done[i - 1])]
  BY <1>1
<1>3. Times(DeleteChar, n, d) = done[n]
  BY DEF Times
<1> HIDE DEF done
<1>4. done[0] = d
  BY <1>2
<1>5. ASSUME NEW i \in 1 .. n, done[i - 1] = f[i - 1] PROVE done[i] = f[i]
  <2>1. i \in 0 .. n /\ i # 0
    OBVIOUS
  <2> QED
    BY <1>1, <1>2, <1>5, <2>1
<1> QED
  BY <1>3, <1>4, <1>5, ChainIs

-----------------------------------------------------------------------------
(* Erasing.                                                                *)

\* The cells from one position to another one, as T!Erase has it.
Erased(s, from, to) == [r \in Rows |-> [c \in Cols |->
  IF r * Columns + c \in from .. to - 1 THEN Blank ELSE s[r][c]]]

\* A range of the window.
LEMMA ErasedShows ==
  ASSUME NEW d, Good(d), NEW from \in Int, NEW to \in Int, 0 <= from, to <= Size,
         NEW p \in Int, NEW n \in Int, p = d.origin + from, n = to - from,
         NEW e, e = [d EXCEPT !.mem = Fill(@, p, n)]
  PROVE  Shows(e, Erased(View(d), from, to), d.x, d.y, d.top, d.bottom)
<1>1. /\ d.origin \in Int /\ d.scr_end = d.origin + Size /\ Size \in Int
  BY Fields, Sizes
<1>2. d.origin <= p /\ p + n <= d.scr_end
  BY <1>1
<1>3. /\ Shows(e, View(e), d.x, d.y, d.top, d.bottom)
      /\ View(e) = [r \in Rows |-> [c \in Cols |->
           IF r * Columns + c \in p - d.origin .. p - d.origin + n - 1
             THEN Blank ELSE View(d)[r][c]]]
  BY <1>2, FillShows
<1>4. p - d.origin = from /\ p - d.origin + n - 1 = to - 1
  BY <1>1
<1>5. View(e) = Erased(View(d), from, to)
  BY <1>3, <1>4 DEF Erased
<1> QED
  BY <1>3, <1>5

\* csi_J(), with its three parameters.
LEMMA EraseDisplayShows ==
  ASSUME NEW d, Good(d), NEW k, NEW e, e = EraseDisplay(d, k),
         NEW s, s = (CASE k = 0 -> Erased(View(d), d.y * Columns + d.x, Size)
                       [] k = 1 -> Erased(View(d), 0, d.y * Columns + d.x)
                       [] k = 2 -> Erased(View(d), 0, Size)
                       [] OTHER -> View(d))
  PROVE  Shows(e, s, d.x, d.y, d.top, d.bottom)
<1> DEFINE at == d.y * Columns + d.x
<1>1. /\ d \in Display /\ at \in Int /\ 0 <= at /\ at <= Size /\ d.origin \in Int /\ d.pos \in Int
      /\ d.pos = d.origin + at /\ d.scr_end = d.origin + Size /\ Size \in Int /\ 0 <= Size
      /\ Columns * Lines = Size /\ d.scr_end \in Int
  <2>1. /\ d \in Display /\ d.y * Columns \in Int /\ d.x \in Int /\ 0 <= d.y * Columns /\ 0 <= d.x
        /\ d.x <= Columns /\ d.y * Columns + Columns <= Size /\ Columns \in Int /\ Size \in Nat
        /\ d.origin \in Int /\ d.pos \in Int /\ d.pos = d.origin + d.y * Columns + d.x
        /\ d.scr_end = d.origin + Size /\ d.scr_end \in Int
    BY Fields, Sizes
  <2>2. Columns * Lines = Size
    BY Sizes DEF Size
  <2> QED
    BY <2>1, <2>2
<1> HIDE DEF at
<1>2. CASE k = 0
  <2>1. e = [d EXCEPT !.mem = Fill(@, d.pos, d.scr_end - d.pos)] /\ s = Erased(View(d), at, Size)
    BY <1>2 DEF EraseDisplay, at
  <2>2. d.scr_end - d.pos = Size - at /\ d.scr_end - d.pos \in Int
    BY <1>1
  <2> QED
    BY <1>1, <2>1, <2>2, ErasedShows
<1>3. CASE k = 1
  <2> DEFINE n == d.pos - d.origin
  <2>1. e = [d EXCEPT !.mem = Fill(@, d.origin, n)] /\ s = Erased(View(d), 0, at)
    BY <1>3 DEF EraseDisplay, at
  <2>2. n = at - 0 /\ n \in Int /\ d.origin = d.origin + 0
    BY <1>1
  <2> HIDE DEF n
  <2> QED
    BY <1>1, <2>1, <2>2, ErasedShows
<1>4. CASE k = 2
  <2>1. e = [d EXCEPT !.mem = Fill(@, d.origin, Size)] /\ s = Erased(View(d), 0, Size)
    BY <1>1, <1>4 DEF EraseDisplay
  <2>2. Size = Size - 0 /\ d.origin = d.origin + 0
    BY <1>1
  <2> QED
    BY <1>1, <2>1, <2>2, ErasedShows
<1>5. CASE k # 0 /\ k # 1 /\ k # 2
  <2>1. e = d /\ s = View(d)
    BY <1>1, <1>5 DEF EraseDisplay, Display
  <2> QED
    BY <2>1 DEF Shows
<1> QED
  BY <1>2, <1>3, <1>4, <1>5

\* csi_K(), with its three parameters.
LEMMA EraseLineShows ==
  ASSUME NEW d, Good(d), NEW k, NEW e, e = EraseLine(d, k),
         NEW s, s = (CASE k = 0 -> Erased(View(d), d.y * Columns + d.x, (d.y + 1) * Columns)
                       [] k = 1 -> Erased(View(d), d.y * Columns, d.y * Columns + d.x)
                       [] k = 2 -> Erased(View(d), d.y * Columns, (d.y + 1) * Columns)
                       [] OTHER -> View(d))
  PROVE  Shows(e, s, d.x, d.y, d.top, d.bottom)
<1> DEFINE row == d.y * Columns
           at == row + d.x
           next == (d.y + 1) * Columns
<1>1. /\ row \in Int /\ at \in Int /\ next \in Int /\ 0 <= row /\ row <= at /\ at <= next
      /\ next <= Size /\ next = row + Columns /\ d.x \in Int /\ at = row + d.x
      /\ d.origin \in Int /\ d.pos \in Int /\ d.pos = d.origin + at /\ Size \in Int
      /\ Columns \in Int /\ d \in Display
  <2>1. /\ d \in Display /\ row \in Int /\ d.x \in Int /\ 0 <= row /\ 0 <= d.x
        /\ d.x <= Columns /\ row + Columns <= Size /\ Columns \in Int /\ Size \in Nat
        /\ d.origin \in Int /\ d.pos \in Int /\ d.pos = d.origin + row + d.x
    BY Fields, Sizes
  <2>2. next = row + Columns
    BY Fields, RowAfterRow
  <2> HIDE DEF row, next
  <2> QED
    BY <2>1, <2>2
<1>2. s = (CASE k = 0 -> Erased(View(d), at, next)
             [] k = 1 -> Erased(View(d), row, at)
             [] k = 2 -> Erased(View(d), row, next)
             [] OTHER -> View(d))
  OBVIOUS
<1> HIDE DEF row, at, next
<1>3. CASE k = 0
  <2>1. e = [d EXCEPT !.mem = Fill(@, d.pos, Columns - d.x)] /\ s = Erased(View(d), at, next)
    BY <1>2, <1>3 DEF EraseLine
  <2>2. Columns - d.x = next - at /\ Columns - d.x \in Int /\ 0 <= at
    BY <1>1
  <2> QED
    BY <1>1, <2>1, <2>2, ErasedShows
<1>4. CASE k = 1
  <2> DEFINE p == d.pos - d.x
  <2>1. e = [d EXCEPT !.mem = Fill(@, p, d.x)] /\ s = Erased(View(d), row, at)
    BY <1>2, <1>4 DEF EraseLine
  <2>2. p \in Int /\ p = d.origin + row /\ d.x = at - row /\ at <= Size
    BY <1>1
  <2>3. 0 <= row /\ at - row = d.x /\ row \in Int /\ at \in Int /\ p \in Int /\ d.x \in Int
    BY <1>1, <2>2
  <2> HIDE DEF p
  <2> QED
    BY <2>1, <2>2, <2>3, ErasedShows
<1>5. CASE k = 2
  <2>1. e = [d EXCEPT !.mem = Fill(@, d.pos - d.x, Columns)] /\ s = Erased(View(d), row, next)
    BY <1>2, <1>5 DEF EraseLine
  <2>2. d.pos - d.x \in Int /\ d.pos - d.x = d.origin + row /\ Columns = next - row
    BY <1>1
  <2> QED
    BY <1>1, <2>1, <2>2, ErasedShows
<1>6. CASE k # 0 /\ k # 1 /\ k # 2
  <2>1. e = d /\ s = View(d)
    BY <1>1, <1>2, <1>6 DEF EraseLine, Display
  <2> QED
    BY <2>1 DEF Shows
<1> QED
  BY <1>3, <1>4, <1>5, <1>6

-----------------------------------------------------------------------------
(* Characters are inserted and deleted.                                    *)

\* The rows that T!InsertChars and T!DeleteChars make.
Inserted(s, y, x, n) == [s EXCEPT ![y] = [c \in Cols |->
  IF c < x THEN s[y][c] ELSE IF c - n >= x THEN s[y][c - n] ELSE Blank]]

Deleted(s, y, x, n) == [s EXCEPT ![y] = [c \in Cols |->
  IF c < x THEN s[y][c] ELSE IF c + n < Columns THEN s[y][c + n] ELSE Blank]]

\* Their cells.
LEMMA RowInserted ==
  ASSUME NEW s, IsScreen(s), NEW y \in Rows, NEW x \in Nat, NEW n \in Nat
  PROVE  /\ IsScreen(Inserted(s, y, x, n))
         /\ \A r \in Rows, c \in Cols : Inserted(s, y, x, n)[r][c] =
              IF r # y \/ c < x THEN s[r][c] ELSE IF c - n >= x THEN s[r][c - n] ELSE Blank
<1> DEFINE row == [c \in Cols |->
             IF c < x THEN s[y][c] ELSE IF c - n >= x THEN s[y][c - n] ELSE Blank]
           I == [s EXCEPT ![y] = row]
<1>1. s = [r \in Rows |-> s[r]] /\ \A r \in Rows : s[r] = [c \in Cols |-> s[r][c]]
  BY DEF IsScreen
<1>2. /\ row = [c \in Cols |-> row[c]]
      /\ \A c \in Cols :
           row[c] = IF c < x THEN s[y][c] ELSE IF c - n >= x THEN s[y][c - n] ELSE Blank
  OBVIOUS
<1>3. Inserted(s, y, x, n) = I
  BY DEF Inserted
<1> HIDE DEF row
<1>4. I = [r \in Rows |-> I[r]] /\ \A r \in Rows : I[r] = IF r = y THEN row ELSE s[r]
  BY <1>1
<1> HIDE DEF I
<1>5. \A r \in Rows : I[r] = [c \in Cols |-> I[r][c]]
  BY <1>1, <1>2, <1>4
<1>6. IsScreen(I)
  BY <1>4, <1>5 DEF IsScreen
<1>7. ASSUME NEW r \in Rows, NEW c \in Cols
      PROVE  I[r][c] = IF r # y \/ c < x THEN s[r][c]
                       ELSE IF c - n >= x THEN s[r][c - n] ELSE Blank
  BY <1>2, <1>4
<1> QED
  BY <1>3, <1>6, <1>7

\* The same for T!DeleteChars.
LEMMA RowDeleted ==
  ASSUME NEW s, IsScreen(s), NEW y \in Rows, NEW x \in Nat, NEW n \in Nat
  PROVE  /\ IsScreen(Deleted(s, y, x, n))
         /\ \A r \in Rows, c \in Cols : Deleted(s, y, x, n)[r][c] =
              IF r # y \/ c < x THEN s[r][c] ELSE IF c + n < Columns THEN s[r][c + n] ELSE Blank
<1> DEFINE row == [c \in Cols |->
             IF c < x THEN s[y][c] ELSE IF c + n < Columns THEN s[y][c + n] ELSE Blank]
           E == [s EXCEPT ![y] = row]
<1>1. s = [r \in Rows |-> s[r]] /\ \A r \in Rows : s[r] = [c \in Cols |-> s[r][c]]
  BY DEF IsScreen
<1>2. /\ row = [c \in Cols |-> row[c]]
      /\ \A c \in Cols :
           row[c] = IF c < x THEN s[y][c] ELSE IF c + n < Columns THEN s[y][c + n] ELSE Blank
  OBVIOUS
<1>3. Deleted(s, y, x, n) = E
  BY DEF Deleted
<1> HIDE DEF row
<1>4. E = [r \in Rows |-> E[r]] /\ \A r \in Rows : E[r] = IF r = y THEN row ELSE s[r]
  BY <1>1
<1> HIDE DEF E
<1>5. \A r \in Rows : E[r] = [c \in Cols |-> E[r][c]]
  BY <1>1, <1>2, <1>4
<1>6. IsScreen(E)
  BY <1>4, <1>5 DEF IsScreen
<1>7. ASSUME NEW r \in Rows, NEW c \in Cols
      PROVE  E[r][c] = IF r # y \/ c < x THEN s[r][c]
                       ELSE IF c + n < Columns THEN s[r][c + n] ELSE Blank
  BY <1>2, <1>4
<1> QED
  BY <1>3, <1>6, <1>7

\* No character, and one more.
LEMMA RowsAddUp ==
  ASSUME NEW s, IsScreen(s), NEW y \in Rows, NEW x \in Nat, NEW n \in Nat
  PROVE  /\ Inserted(s, y, x, 0) = s /\ Deleted(s, y, x, 0) = s
         /\ Inserted(Inserted(s, y, x, n), y, x, 1) = Inserted(s, y, x, n + 1)
         /\ Deleted(Deleted(s, y, x, n), y, x, 1) = Deleted(s, y, x, n + 1)
<1> DEFINE I == Inserted(s, y, x, n)
           E == Deleted(s, y, x, n)
<1>1. \A c \in Cols : c \in Int /\ 0 <= c /\ c < Columns
  BY Sizes DEF Cols
<1>2. \A c \in Int : 0 <= c /\ c < Columns => c \in Cols
  BY Sizes DEF Cols
<1>3. IsScreen(I) /\ IsScreen(E)
  BY RowInserted, RowDeleted
<1>4. \A k \in Nat :
      /\ IsScreen(Inserted(s, y, x, k)) /\ IsScreen(Deleted(s, y, x, k))
      /\ \A r \in Rows, c \in Cols :
           /\ Inserted(s, y, x, k)[r][c] =
                IF r # y \/ c < x THEN s[r][c] ELSE IF c - k >= x THEN s[r][c - k] ELSE Blank
           /\ Deleted(s, y, x, k)[r][c] =
                IF r # y \/ c < x THEN s[r][c] ELSE IF c + k < Columns THEN s[r][c + k] ELSE Blank
  BY RowInserted, RowDeleted
<1>5. Inserted(s, y, x, 0) = s /\ Deleted(s, y, x, 0) = s
  <2>1. ASSUME NEW r \in Rows, NEW c \in Cols
        PROVE  Inserted(s, y, x, 0)[r][c] = s[r][c] /\ Deleted(s, y, x, 0)[r][c] = s[r][c]
    <3>1. c \in Int /\ c - 0 = c /\ c + 0 = c /\ c < Columns /\ (~(c < x) => c - 0 >= x)
      BY <1>1
    <3> QED
      BY <1>4, <3>1
  <2> QED
    BY <1>4, <2>1, SameScreen
<1>6. Inserted(I, y, x, 1) = Inserted(s, y, x, n + 1)
  <2>1. IsScreen(Inserted(I, y, x, 1))
    BY <1>3, RowInserted, RowDeleted
  <2>2. \A r \in Rows, c \in Cols : Inserted(I, y, x, 1)[r][c] =
          IF r # y \/ c < x THEN I[r][c] ELSE IF c - 1 >= x THEN I[r][c - 1] ELSE Blank
    BY <1>3, RowInserted, RowDeleted
  <2>3. \A r \in Rows, c \in Cols : I[r][c] =
          IF r # y \/ c < x THEN s[r][c] ELSE IF c - n >= x THEN s[r][c - n] ELSE Blank
    BY <1>4
  <2>4. n + 1 \in Nat
    OBVIOUS
  <2>5. \A r \in Rows, c \in Cols : Inserted(s, y, x, n + 1)[r][c] =
          IF r # y \/ c < x THEN s[r][c] ELSE IF c - (n + 1) >= x THEN s[r][c - (n + 1)] ELSE Blank
    BY <1>4, <2>4
  <2> HIDE DEF I
  <2>6. ASSUME NEW r \in Rows, NEW c \in Cols
        PROVE  Inserted(I, y, x, 1)[r][c] = Inserted(s, y, x, n + 1)[r][c]
    <3>1. CASE r # y \/ c < x
      BY <2>2, <2>3, <2>5, <3>1
    <3>2. CASE ~(r # y \/ c < x) /\ ~(c - 1 >= x)
      <4>1. ~(c - (n + 1) >= x)
        BY <1>1, <3>2
      <4> QED
        BY <2>2, <2>5, <3>2, <4>1
    <3>3. CASE ~(r # y \/ c < x) /\ c - 1 >= x
      <4>1. /\ c - 1 \in Cols /\ ~(r # y \/ c - 1 < x) /\ c - 1 - n = c - (n + 1)
            /\ (c - 1 - n >= x <=> c - (n + 1) >= x)
        BY <1>1, <1>2, <3>3, Sizes
      <4>2. I[r][c - 1] = IF c - 1 - n >= x THEN s[r][c - 1 - n] ELSE Blank
        BY <2>3, <4>1
      <4> QED
        BY <2>2, <2>5, <3>3, <4>1, <4>2
    <3> QED
      BY <3>1, <3>2, <3>3
  <2> QED
    BY <1>4, <2>1, <2>4, <2>6, SameScreen
<1>7. Deleted(E, y, x, 1) = Deleted(s, y, x, n + 1)
  <2>1. IsScreen(Deleted(E, y, x, 1))
    BY <1>3, RowInserted, RowDeleted
  <2>2. \A r \in Rows, c \in Cols : Deleted(E, y, x, 1)[r][c] =
          IF r # y \/ c < x THEN E[r][c] ELSE IF c + 1 < Columns THEN E[r][c + 1] ELSE Blank
    BY <1>3, RowInserted, RowDeleted
  <2>3. \A r \in Rows, c \in Cols : E[r][c] =
          IF r # y \/ c < x THEN s[r][c] ELSE IF c + n < Columns THEN s[r][c + n] ELSE Blank
    BY <1>4
  <2>4. n + 1 \in Nat
    OBVIOUS
  <2>5. \A r \in Rows, c \in Cols : Deleted(s, y, x, n + 1)[r][c] =
          IF r # y \/ c < x THEN s[r][c] ELSE IF c + (n + 1) < Columns THEN s[r][c + (n + 1)] ELSE Blank
    BY <1>4, <2>4
  <2> HIDE DEF E
  <2>6. ASSUME NEW r \in Rows, NEW c \in Cols
        PROVE  Deleted(E, y, x, 1)[r][c] = Deleted(s, y, x, n + 1)[r][c]
    <3>1. CASE r # y \/ c < x
      BY <2>2, <2>3, <2>5, <3>1
    <3>2. CASE ~(r # y \/ c < x) /\ ~(c + 1 < Columns)
      <4>1. ~(c + (n + 1) < Columns)
        BY <1>1, <3>2, Sizes
      <4> QED
        BY <2>2, <2>5, <3>2, <4>1
    <3>3. CASE ~(r # y \/ c < x) /\ c + 1 < Columns
      <4>1. /\ c + 1 \in Cols /\ ~(r # y \/ c + 1 < x) /\ c + 1 + n = c + (n + 1)
            /\ (c + 1 + n < Columns <=> c + (n + 1) < Columns)
        BY <1>1, <1>2, <3>3, Sizes
      <4>2. E[r][c + 1] = IF c + 1 + n < Columns THEN s[r][c + 1 + n] ELSE Blank
        BY <2>3, <4>1
      <4> QED
        BY <2>2, <2>5, <3>3, <4>1, <4>2
    <3> QED
      BY <3>1, <3>2, <3>3
  <2> QED
    BY <1>4, <2>1, <2>4, <2>6, SameScreen
<1> QED
  BY <1>5, <1>6, <1>7

\* csi_at(), one character.
LEMMA InsertCharShows ==
  ASSUME NEW d, Good(d), NEW e, e = InsertChar(d)
  PROVE  Shows(e, Inserted(View(d), d.y, d.x, 1), d.x, d.y, d.top, d.bottom)
<1> DEFINE s == Inserted(View(d), d.y, d.x, 1)
           last == d.pos + Columns - d.x - 1
           m == [a \in Address |->
                  CASE a = d.pos /\ d.x < Columns -> Blank
                    [] a \in d.pos + 1 .. last -> d.mem[a - 1]
                    [] OTHER -> d.mem[a]]
<1>1. /\ d \in Display /\ d.y \in Rows /\ d.y \in Int /\ d.x \in Nat /\ d.x \in Int /\ d.x <= Columns
      /\ d.origin \in Int /\ 0 <= d.origin /\ d.y * Columns \in Int /\ d.pos \in Int
      /\ 0 <= d.y * Columns /\ d.y * Columns + Columns <= Size
      /\ d.pos = d.origin + d.y * Columns + d.x /\ d.scr_end = d.origin + Size
      /\ d.scr_end <= VideoMem /\ d.scr_end \in Int /\ Size \in Int
      /\ Columns \in Nat /\ VideoMem \in Nat /\ Kept(d.mem)
  BY Fields, Sizes
<1>2. last \in Int /\ last = d.origin + d.y * Columns + (Columns - 1)
  BY <1>1
<1>3. e = [d EXCEPT !.mem = m]
  BY DEF InsertChar
<1> HIDE DEF last
<1>4. 0 <= d.pos /\ last < VideoMem /\ (d.x < Columns => d.pos <= last)
  BY <1>1, <1>2
<1>5. Kept(m)
  <2>1. \A a \in Address : a \in Int
    BY DEF Address
  <2>2. \A a \in Address : a \in d.pos + 1 .. last => a \in Video /\ a - 1 \in Address
    BY <1>1, <1>2, <1>4 DEF Address, Video
  <2>3. d.x < Columns => d.pos \in Video
    BY <1>1, <1>2, <1>4 DEF Video
  <2>4. \A a \in Address : d.mem[a] \in Glyph \cup {Foreign}
    BY <1>1 DEF Kept, Memory
  <2>5. m \in Memory
    BY <2>2, <2>4, CellAssumption DEF Memory
  <2>6. \A a \in Address \ Video : m[a] = d.mem[a]
    BY <2>2, <2>3
  <2> QED
    BY <1>1, <2>5, <2>6 DEF Kept
<1>6. /\ IsScreen(View(d)) /\ IsScreen(s)
      /\ \A r \in Rows, c \in Cols : s[r][c] =
           IF r # d.y \/ c < d.x THEN View(d)[r][c]
           ELSE IF c - 1 >= d.x THEN View(d)[r][c - 1] ELSE Blank
  <2>1. IsScreen(View(d)) /\ d.y \in Rows /\ d.x \in Nat /\ 1 \in Nat
    BY <1>1, ViewIsScreen
  <2> DEFINE v == View(d)
             y == d.y
             x == d.x
  <2> HIDE DEF v, y, x
  <2>2. ASSUME NEW n \in Nat
        PROVE  /\ IsScreen(Inserted(v, y, x, n))
               /\ \A r \in Rows, c \in Cols : Inserted(v, y, x, n)[r][c] =
                    IF r # y \/ c < x THEN v[r][c]
                    ELSE IF c - n >= x THEN v[r][c - n] ELSE Blank
    <3>1. IsScreen(v) /\ y \in Rows /\ x \in Nat
      BY <2>1 DEF v, y, x
    <3> QED
      BY <3>1, RowInserted
  <2> QED
    BY <2>1, <2>2 DEF v, y, x
<1> HIDE DEF s
<1>7. ASSUME NEW r \in Rows, NEW c \in Cols
      PROVE  m[d.origin + r * Columns + c] = s[r][c]
  <2> DEFINE a == d.origin + r * Columns + c
  <2>1. /\ a \in Address /\ View(d)[r][c] = d.mem[a] /\ r * Columns \in Int /\ c \in Int
        /\ c < Columns
    BY CellIsVideo, Sizes DEF Cols
  <2>2. \A x1, x2 \in Int : 0 <= x1 /\ x2 < Columns =>
          (r * Columns + c \in d.y * Columns + x1 .. d.y * Columns + x2 <=> r = d.y /\ c \in x1 .. x2)
    BY <1>1, InRow
  <2>3. a \in d.pos + 1 .. last <=> r = d.y /\ c \in d.x + 1 .. Columns - 1
    <3>1. r * Columns + c \in d.y * Columns + (d.x + 1) .. d.y * Columns + (Columns - 1)
            <=> r = d.y /\ c \in d.x + 1 .. Columns - 1
      BY <1>1, <2>2
    <3>2. r * Columns + c \in d.y * Columns + (d.x + 1) .. d.y * Columns + (Columns - 1)
            <=> a \in d.pos + 1 .. last
      BY <1>1, <1>2, <2>1
    <3> QED
      BY <3>1, <3>2
  <2>4. a = d.pos /\ d.x < Columns <=> r = d.y /\ c = d.x
    <3>1. d.x < Columns => (r * Columns + c \in d.y * Columns + d.x .. d.y * Columns + d.x
            <=> r = d.y /\ c \in d.x .. d.x)
      <4>1. d.x \in Int /\ 0 <= d.x
        BY <1>1
      <4> QED
        BY <2>2, <4>1
    <3> QED
      BY <1>1, <2>1, <3>1
  <2>5. m[a] = CASE a = d.pos /\ d.x < Columns -> Blank
                 [] a \in d.pos + 1 .. last -> d.mem[a - 1]
                 [] OTHER -> d.mem[a]
    BY <2>1
  <2> HIDE DEF m
  <2>6. CASE r # d.y \/ c < d.x
    <3>1. ~(a = d.pos /\ d.x < Columns) /\ a \notin d.pos + 1 .. last
      BY <1>1, <2>1, <2>3, <2>4, <2>6
    <3>2. m[a] = d.mem[a]
      BY <2>5, <3>1
    <3> QED
      BY <1>6, <2>1, <2>6, <3>2
  <2>7. CASE r = d.y /\ c = d.x
    <3>1. a = d.pos /\ d.x < Columns
      BY <2>4, <2>7
    <3>2. a \notin d.pos + 1 .. last
      BY <1>1, <3>1
    <3>3. m[a] = Blank
      BY <2>5, <3>1, <3>2
    <3>4. ~(c - 1 >= d.x) /\ ~(r # d.y \/ c < d.x)
      BY <1>1, <2>7
    <3> QED
      BY <1>6, <3>3, <3>4
  <2>8. CASE r = d.y /\ c > d.x
    <3>1. ~(a = d.pos /\ d.x < Columns) /\ a \in d.pos + 1 .. last
      BY <1>1, <2>1, <2>3, <2>4, <2>8
    <3>2. m[a] = d.mem[a - 1]
      BY <2>5, <3>1
    <3>3. c - 1 \in Cols /\ ~(r # d.y \/ c < d.x) /\ c - 1 >= d.x
      BY <1>1, <2>1, <2>8 DEF Cols
    <3>4. View(d)[r][c - 1] = d.mem[d.origin + r * Columns + (c - 1)]
      BY <3>3, CellIsVideo
    <3>5. d.origin + r * Columns + (c - 1) = a - 1
      BY <1>1, <2>1
    <3> QED
      BY <1>6, <3>2, <3>3, <3>4, <3>5
  <2> QED
    BY <1>1, <2>1, <2>6, <2>7, <2>8
<1> HIDE DEF m
<1>8. Shows(e, s, d.x, d.y, d.top, d.bottom)
  BY <1>3, <1>5, <1>6, <1>7, CellsShow
<1> QED
  BY <1>8 DEF s

\* The same for csi_P(), one character.
LEMMA DeleteCharShows ==
  ASSUME NEW d, Good(d), NEW e, e = DeleteChar(d)
  PROVE  Shows(e, Deleted(View(d), d.y, d.x, 1), d.x, d.y, d.top, d.bottom)
<1> DEFINE s == Deleted(View(d), d.y, d.x, 1)
           last == d.pos + Columns - d.x - 1
           m == [a \in Address |->
                  CASE a = last -> Blank
                    [] a \in d.pos .. last - 1 -> d.mem[a + 1]
                    [] OTHER -> d.mem[a]]
<1>1. /\ d \in Display /\ d.y \in Rows /\ d.y \in Int /\ d.x \in Nat /\ d.x \in Int /\ d.x <= Columns
      /\ d.origin \in Int /\ 0 <= d.origin /\ d.y * Columns \in Int /\ d.pos \in Int
      /\ 0 <= d.y * Columns /\ d.y * Columns + Columns <= Size
      /\ d.pos = d.origin + d.y * Columns + d.x /\ d.scr_end = d.origin + Size
      /\ d.scr_end <= VideoMem /\ d.scr_end \in Int /\ Size \in Int
      /\ Columns \in Nat /\ VideoMem \in Nat /\ Kept(d.mem)
  BY Fields, Sizes
<1>2. last \in Int /\ last = d.origin + d.y * Columns + (Columns - 1)
  BY <1>1
<1>3. e = IF d.x >= Columns THEN d ELSE [d EXCEPT !.mem = m]
  BY DEF DeleteChar
<1> HIDE DEF last
<1>4. 0 <= d.pos /\ last < VideoMem /\ (d.x < Columns => d.pos <= last)
  BY <1>1, <1>2
<1>5. d.x < Columns => Kept(m)
  <2>1. \A a \in Address : a \in Int
    BY DEF Address
  <2>2. \A a \in Address : a \in d.pos .. last - 1 => a \in Video /\ a + 1 \in Address
    BY <1>1, <1>2, <1>4 DEF Address, Video
  <2>3. d.x < Columns => last \in Video
    BY <1>1, <1>2, <1>4 DEF Video
  <2>4. \A a \in Address : d.mem[a] \in Glyph \cup {Foreign}
    BY <1>1 DEF Kept, Memory
  <2>5. m \in Memory
    BY <2>2, <2>4, CellAssumption DEF Memory
  <2>6. d.x < Columns => \A a \in Address \ Video : m[a] = d.mem[a]
    BY <2>2, <2>3
  <2> QED
    BY <1>1, <2>5, <2>6 DEF Kept
<1>6. /\ IsScreen(View(d)) /\ IsScreen(s)
      /\ \A r \in Rows, c \in Cols : s[r][c] =
           IF r # d.y \/ c < d.x THEN View(d)[r][c]
           ELSE IF c + 1 < Columns THEN View(d)[r][c + 1] ELSE Blank
  <2>1. IsScreen(View(d)) /\ d.y \in Rows /\ d.x \in Nat /\ 1 \in Nat
    BY <1>1, ViewIsScreen
  <2> DEFINE v == View(d)
             y == d.y
             x == d.x
  <2> HIDE DEF v, y, x
  <2>2. ASSUME NEW n \in Nat
        PROVE  /\ IsScreen(Deleted(v, y, x, n))
               /\ \A r \in Rows, c \in Cols : Deleted(v, y, x, n)[r][c] =
                    IF r # y \/ c < x THEN v[r][c]
                    ELSE IF c + n < Columns THEN v[r][c + n] ELSE Blank
    <3>1. IsScreen(v) /\ y \in Rows /\ x \in Nat
      BY <2>1 DEF v, y, x
    <3> QED
      BY <3>1, RowDeleted
  <2> QED
    BY <2>1, <2>2 DEF v, y, x
<1> HIDE DEF s
<1>7. ASSUME NEW r \in Rows, NEW c \in Cols, d.x < Columns
      PROVE  m[d.origin + r * Columns + c] = s[r][c]
  <2> DEFINE a == d.origin + r * Columns + c
  <2>1. /\ a \in Address /\ View(d)[r][c] = d.mem[a] /\ r * Columns \in Int /\ c \in Int
        /\ c < Columns
    BY CellIsVideo, Sizes DEF Cols
  <2>2. \A x1, x2 \in Int : 0 <= x1 /\ x2 < Columns =>
          (r * Columns + c \in d.y * Columns + x1 .. d.y * Columns + x2 <=> r = d.y /\ c \in x1 .. x2)
    BY <1>1, InRow
  <2>3. a \in d.pos .. last - 1 <=> r = d.y /\ c \in d.x .. Columns - 2
    <3>1. r * Columns + c \in d.y * Columns + d.x .. d.y * Columns + (Columns - 2)
            <=> r = d.y /\ c \in d.x .. Columns - 2
      <4>1. d.x \in Int /\ Columns - 2 \in Int /\ 0 <= d.x /\ Columns - 2 < Columns
        BY <1>1
      <4> QED
        BY <2>2, <4>1
    <3>2. r * Columns + c \in d.y * Columns + d.x .. d.y * Columns + (Columns - 2)
            <=> a \in d.pos .. last - 1
      BY <1>1, <1>2, <2>1
    <3> QED
      BY <3>1, <3>2
  <2>4. a = last <=> r = d.y /\ c = Columns - 1
    <3>1. r * Columns + c \in d.y * Columns + (Columns - 1) .. d.y * Columns + (Columns - 1)
            <=> r = d.y /\ c \in Columns - 1 .. Columns - 1
      <4>1. Columns - 1 \in Int /\ 0 <= Columns - 1 /\ Columns - 1 < Columns
        BY Sizes
      <4> QED
        BY <2>2, <4>1
    <3> QED
      BY <1>1, <1>2, <2>1, <3>1
  <2>5. m[a] = CASE a = last -> Blank
                 [] a \in d.pos .. last - 1 -> d.mem[a + 1]
                 [] OTHER -> d.mem[a]
    BY <2>1
  <2> HIDE DEF m
  <2>6. CASE r # d.y \/ c < d.x
    <3>1. a # last /\ a \notin d.pos .. last - 1
      BY <1>1, <1>7, <2>1, <2>3, <2>4, <2>6
    <3>2. m[a] = d.mem[a]
      BY <2>5, <3>1
    <3> QED
      BY <1>6, <2>1, <2>6, <3>2
  <2>7. CASE r = d.y /\ c = Columns - 1
    <3>1. a = last /\ a \notin d.pos .. last - 1
      BY <1>2, <2>4, <2>7
    <3>2. m[a] = Blank
      BY <2>5, <3>1
    <3>3. ~(c + 1 < Columns) /\ ~(r # d.y \/ c < d.x)
      BY <1>1, <1>7, <2>1, <2>7
    <3> QED
      BY <1>6, <3>2, <3>3
  <2>8. CASE r = d.y /\ d.x <= c /\ c < Columns - 1
    <3>1. a # last /\ a \in d.pos .. last - 1
      BY <1>1, <2>1, <2>3, <2>4, <2>8
    <3>2. m[a] = d.mem[a + 1]
      BY <2>5, <3>1
    <3>3. c + 1 \in Cols /\ ~(r # d.y \/ c < d.x) /\ c + 1 < Columns
      BY <1>1, <2>1, <2>8 DEF Cols
    <3>4. View(d)[r][c + 1] = d.mem[d.origin + r * Columns + (c + 1)]
      BY <3>3, CellIsVideo
    <3>5. d.origin + r * Columns + (c + 1) = a + 1
      <4> DEFINE k == r * Columns
                 o == d.origin
      <4>1. k \in Int /\ o \in Int /\ c \in Int
        BY <1>1, <2>1
      <4> HIDE DEF k, o
      <4>2. o + k + (c + 1) = o + k + c + 1
        BY <4>1
      <4> QED
        BY <4>2 DEF k, o
    <3> QED
      BY <1>6, <3>2, <3>3, <3>4, <3>5
  <2> QED
    BY <1>1, <2>1, <2>6, <2>7, <2>8
<1> HIDE DEF m
<1>8. CASE d.x < Columns
  <2>1. e = [d EXCEPT !.mem = m]
    BY <1>1, <1>3, <1>8
  <2>2. Shows(e, s, d.x, d.y, d.top, d.bottom)
    BY <1>5, <1>6, <1>7, <1>8, <2>1, CellsShow
  <2> QED
    BY <2>2 DEF s
<1>9. CASE d.x >= Columns
  <2>1. e = d
    BY <1>3, <1>9
  <2>2. \A r \in Rows, c \in Cols : s[r][c] = View(d)[r][c]
    <3>1. \A c \in Cols : c < d.x
      BY <1>1, <1>9 DEF Cols
    <3> QED
      BY <1>6, <3>1
  <2>3. s = View(d)
    BY <1>6, <2>2, SameScreen
  <2> QED
    BY <2>1, <2>3 DEF Shows, s
<1> QED
  BY <1>1, <1>8, <1>9

-----------------------------------------------------------------------------
(* Lines are inserted and deleted.                                         *)

\* The region changes.
LEMMA RegionShows ==
  ASSUME NEW d, Good(d), NEW t \in Rows, NEW b \in t + 1 .. Lines,
         NEW e, e = [d EXCEPT !.top = t, !.bottom = b]
  PROVE  Shows(e, View(d), d.x, d.y, t, b)
<1>1. d \in Display /\ t \in Int /\ b \in Int /\ t \in 0 .. Lines - 1
  BY Fields, Sizes DEF Rows
<1>2. /\ e \in Display /\ e.x = d.x /\ e.pos = d.pos /\ e.y = d.y /\ e.mem = d.mem /\ e.top = t
      /\ e.bottom = b /\ e.origin = d.origin /\ e.scr_end = d.scr_end /\ e.shown = d.shown
  BY <1>1 DEF Display
<1>3. Good(e) /\ View(e) = View(d)
  BY <1>1, <1>2 DEF Good, Window, Place, View
<1> QED
  BY <1>2, <1>3 DEF Shows

\* csi_L() and csi_M(), one line.
LEMMA LineShows ==
  ASSUME NEW d, Good(d)
  PROVE  /\ Shows(InsertLine(d), T!Down(View(d), d.y, Lines, 1), d.x, d.y, d.top, d.bottom)
         /\ Shows(DeleteLine(d), T!Up(View(d), d.y, Lines, 1), d.x, d.y, d.top, d.bottom)
<1> DEFINE f == FromCursor(d)
<1>1. /\ d.y \in Rows /\ d.top \in Rows /\ Lines \in d.y + 1 .. Lines
      /\ d.bottom \in d.top + 1 .. Lines
  BY Fields, Sizes DEF Rows
<1>2. Shows(f, View(d), d.x, d.y, d.y, Lines)
  BY <1>1, RegionShows DEF FromCursor
<1> HIDE DEF f
<1>3. Good(f) /\ View(f) = View(d) /\ f.x = d.x /\ f.y = d.y /\ f.top = d.y /\ f.bottom = Lines
  BY <1>2 DEF Shows
<1>4. ASSUME NEW g, NEW s, Shows(g, s, d.x, d.y, d.y, Lines)
      PROVE  Shows(WithRegion(g, d), s, d.x, d.y, d.top, d.bottom)
  <2>1. Good(g) /\ View(g) = s /\ g.x = d.x /\ g.y = d.y
    BY <1>4 DEF Shows
  <2> DEFINE t == d.top
             b == d.bottom
             e == WithRegion(g, d)
  <2>2. e = [g EXCEPT !.top = t, !.bottom = b]
    BY DEF WithRegion
  <2>3. t \in Rows /\ b \in t + 1 .. Lines
    BY <1>1
  <2> HIDE DEF t, b, e
  <2>4. Shows(e, View(g), g.x, g.y, t, b)
    BY <2>1, <2>2, <2>3, RegionShows
  <2> QED
    BY <2>1, <2>4 DEF t, b, e
<1>5. Shows(Scrdown(f), T!Down(View(d), d.y, Lines, 1), d.x, d.y, d.y, Lines)
  <2> DEFINE g == Scrdown(f)
  <2> HIDE DEF g
  <2>1. Shows(g, View(g), f.x, f.y, f.top, f.bottom) /\ View(g) = T!Down(View(f), f.top, f.bottom, 1)
    BY <1>3, ScrdownShows DEF g
  <2>2. Shows(g, T!Down(View(d), d.y, Lines, 1), d.x, d.y, d.y, Lines)
    BY <1>3, <2>1
  <2> QED
    BY <2>2 DEF g
<1>6. Shows(Scrup(f), T!Up(View(d), d.y, Lines, 1), d.x, d.y, d.y, Lines)
  <2> DEFINE g == Scrup(f)
  <2> HIDE DEF g
  <2>1. Shows(g, View(g), f.x, f.y, f.top, f.bottom) /\ View(g) = T!Up(View(f), f.top, f.bottom, 1)
    BY <1>3, ScrupShows DEF g
  <2>2. Shows(g, T!Up(View(d), d.y, Lines, 1), d.x, d.y, d.y, Lines)
    BY <1>3, <2>1
  <2> QED
    BY <2>2 DEF g
<1> QED
  BY <1>4, <1>5, <1>6 DEF InsertLine, DeleteLine, f

\* No line, and one more.
LEMMA LinesAddUp ==
  ASSUME NEW s, IsScreen(s), NEW y \in Rows, NEW n \in Nat
  PROVE  /\ T!Up(s, y, Lines, 0) = s /\ T!Down(s, y, Lines, 0) = s
         /\ T!Up(T!Up(s, y, Lines, n), y, Lines, 1) = T!Up(s, y, Lines, n + 1)
         /\ T!Down(T!Down(s, y, Lines, n), y, Lines, 1) = T!Down(s, y, Lines, n + 1)
<1> DEFINE Later(u, k) == T!Up(u, y, Lines, k)
           Sooner(u, k) == T!Down(u, y, Lines, k)
           up == Later(s, n)
           down == Sooner(s, n)
<1>1. Lines \in Int /\ y \in Int /\ 0 <= y /\ \A r \in Rows : r \in Int /\ 0 <= r /\ r < Lines
  BY Sizes DEF Rows
<1>2. \A r \in Int : 0 <= r /\ r < Lines => r \in Rows
  BY Sizes DEF Rows
<1>3. ASSUME NEW u, IsScreen(u), NEW k \in Nat
      PROVE  /\ IsScreen(Later(u, k)) /\ IsScreen(Sooner(u, k))
             /\ \A r \in Rows, c \in Cols :
                  /\ Later(u, k)[r][c] = IF r < y THEN u[r][c]
                                         ELSE IF r + k < Lines THEN u[r + k][c] ELSE Blank
                  /\ Sooner(u, k)[r][c] = IF r < y THEN u[r][c]
                                          ELSE IF r - k >= y THEN u[r - k][c] ELSE Blank
  <2>1. \A r \in Rows : r \notin y .. Lines - 1 <=> r < y
    BY <1>1
  <2>2. /\ IsScreen(Later(u, k)) /\ IsScreen(Sooner(u, k))
        /\ \A r \in Rows, c \in Cols :
             /\ Later(u, k)[r][c] = IF r \notin y .. Lines - 1 THEN u[r][c]
                                    ELSE IF r + k < Lines THEN u[r + k][c] ELSE Blank
             /\ Sooner(u, k)[r][c] = IF r \notin y .. Lines - 1 THEN u[r][c]
                                     ELSE IF r - k >= y THEN u[r - k][c] ELSE Blank
    <3> DEFINE b == Lines
    <3>1. b \in Int /\ b <= Lines /\ y \in Int /\ 0 <= y
      BY <1>1
    <3> HIDE DEF b
    <3>2. /\ IsScreen(T!Up(u, y, b, k)) /\ IsScreen(T!Down(u, y, b, k))
          /\ \A r \in Rows, c \in Cols :
               /\ T!Up(u, y, b, k)[r][c] = IF r \notin y .. b - 1 THEN u[r][c]
                                           ELSE IF r + k < b THEN u[r + k][c] ELSE Blank
               /\ T!Down(u, y, b, k)[r][c] = IF r \notin y .. b - 1 THEN u[r][c]
                                             ELSE IF r - k >= y THEN u[r - k][c] ELSE Blank
      BY <1>3, <3>1, Moved
    <3> QED
      BY <3>2 DEF b
  <2> QED
    BY <2>1, <2>2
<1> HIDE DEF Later, Sooner
<1>4. Later(s, 0) = s /\ Sooner(s, 0) = s
  <2>1. ASSUME NEW r \in Rows, NEW c \in Cols
        PROVE  Later(s, 0)[r][c] = s[r][c] /\ Sooner(s, 0)[r][c] = s[r][c]
    <3>1. r + 0 = r /\ r - 0 = r /\ r + 0 < Lines /\ (~(r < y) => r - 0 >= y)
      BY <1>1
    <3> QED
      BY <1>3, <3>1
  <2> QED
    BY <1>3, <2>1, SameScreen
<1>5. n + 1 \in Nat /\ 1 \in Nat /\ IsScreen(up) /\ IsScreen(down)
  BY <1>3
<1>6. Later(up, 1) = Later(s, n + 1)
  <2>1. ASSUME NEW r \in Rows, NEW c \in Cols
        PROVE  Later(up, 1)[r][c] = Later(s, n + 1)[r][c]
    <3>1. Later(up, 1)[r][c] = IF r < y THEN up[r][c]
                               ELSE IF r + 1 < Lines THEN up[r + 1][c] ELSE Blank
      BY <1>3, <1>5
    <3>2. Later(s, n + 1)[r][c] = IF r < y THEN s[r][c]
                                  ELSE IF r + (n + 1) < Lines THEN s[r + (n + 1)][c] ELSE Blank
      BY <1>3, <1>5
    <3>3. \A q \in Rows : up[q][c] = IF q < y THEN s[q][c]
                                     ELSE IF q + n < Lines THEN s[q + n][c] ELSE Blank
      BY <1>3
    <3> HIDE DEF up
    <3>4. CASE r < y
      BY <3>1, <3>2, <3>3, <3>4
    <3>5. CASE ~(r < y) /\ ~(r + 1 < Lines)
      <4>1. ~(r + (n + 1) < Lines)
        BY <1>1, <3>5
      <4> QED
        BY <3>1, <3>2, <3>5, <4>1
    <3>6. CASE ~(r < y) /\ r + 1 < Lines
      <4>1. r + 1 \in Rows /\ ~(r + 1 < y) /\ r + 1 + n = r + (n + 1)
        BY <1>1, <1>2, <3>6
      <4>2. up[r + 1][c] = IF r + (n + 1) < Lines THEN s[r + (n + 1)][c] ELSE Blank
        BY <3>3, <4>1
      <4> QED
        BY <3>1, <3>2, <3>6, <4>2
    <3> QED
      BY <3>4, <3>5, <3>6
  <2>2. IsScreen(Later(up, 1)) /\ IsScreen(Later(s, n + 1))
    BY <1>3, <1>5
  <2> HIDE DEF up
  <2> QED
    BY <2>1, <2>2, SameScreen
<1>7. Sooner(down, 1) = Sooner(s, n + 1)
  <2>1. ASSUME NEW r \in Rows, NEW c \in Cols
        PROVE  Sooner(down, 1)[r][c] = Sooner(s, n + 1)[r][c]
    <3>1. Sooner(down, 1)[r][c] = IF r < y THEN down[r][c]
                                  ELSE IF r - 1 >= y THEN down[r - 1][c] ELSE Blank
      BY <1>3, <1>5
    <3>2. Sooner(s, n + 1)[r][c] = IF r < y THEN s[r][c]
                                   ELSE IF r - (n + 1) >= y THEN s[r - (n + 1)][c] ELSE Blank
      BY <1>3, <1>5
    <3>3. \A q \in Rows : down[q][c] = IF q < y THEN s[q][c]
                                       ELSE IF q - n >= y THEN s[q - n][c] ELSE Blank
      BY <1>3
    <3> HIDE DEF down
    <3>4. CASE r < y
      BY <3>1, <3>2, <3>3, <3>4
    <3>5. CASE ~(r < y) /\ ~(r - 1 >= y)
      <4>1. ~(r - (n + 1) >= y)
        BY <1>1, <3>5
      <4> QED
        BY <3>1, <3>2, <3>5, <4>1
    <3>6. CASE ~(r < y) /\ r - 1 >= y
      <4>1. r - 1 \in Rows /\ ~(r - 1 < y) /\ r - 1 - n = r - (n + 1)
        BY <1>1, <1>2, <3>6
      <4>2. down[r - 1][c] = IF r - (n + 1) >= y THEN s[r - (n + 1)][c] ELSE Blank
        BY <3>3, <4>1
      <4> QED
        BY <3>1, <3>2, <3>6, <4>2
    <3> QED
      BY <3>4, <3>5, <3>6
  <2>2. IsScreen(Sooner(down, 1)) /\ IsScreen(Sooner(s, n + 1))
    BY <1>3, <1>5
  <2> HIDE DEF down
  <2> QED
    BY <2>1, <2>2, SameScreen
<1> QED
  BY <1>4, <1>6, <1>7 DEF Later, Sooner

-----------------------------------------------------------------------------
(* Repeated steps add up.                                                  *)

\* csi_L(): the lines below move down.
LEMMA InsertLinesShow ==
  ASSUME NEW d, Good(d), NEW n \in Nat
  PROVE  Shows(Times(InsertLine, n, d), T!Down(View(d), d.y, Lines, n),
               d.x, d.y, d.top, d.bottom)
<1> DEFINE F == [u \in Displays |-> InsertLine(u)]
           Made(k) == T!Down(View(d), d.y, Lines, k)
           S == {i \in Nat : \A f : Chain(f, F, d, n) =>
                               Shows(f[i], Made(i), d.x, d.y, d.top, d.bottom)}
<1>1. ASSUME NEW u \in Displays
      PROVE  /\ Good(u) /\ InsertLine(u) \in Displays
             /\ Shows(InsertLine(u), T!Down(View(u), u.y, Lines, 1), u.x, u.y, u.top, u.bottom)
  <2>1. Good(u)
    BY DEF Displays
  <2>2. Shows(InsertLine(u), T!Down(View(u), u.y, Lines, 1), u.x, u.y, u.top, u.bottom)
    BY <2>1, LineShows
  <2> QED
    BY <2>1, <2>2 DEF Shows, Displays, Good
<1>2. F \in [Displays -> Displays] /\ \A u \in Displays : F[u] = InsertLine(u)
  BY <1>1
<1>3. d \in Displays /\ d.y \in Rows /\ d.x \in Nat /\ IsScreen(View(d))
  BY Fields, ViewIsScreen DEF Displays
<1> HIDE DEF F
<1>4. Made(0) = View(d) /\ \A k \in Nat : T!Down(Made(k), d.y, Lines, 1) = Made(k + 1)
  BY <1>3, LinesAddUp
<1> HIDE DEF Made
<1>5. 0 \in S
  <2>1. Shows(d, Made(0), d.x, d.y, d.top, d.bottom)
    BY <1>4 DEF Shows
  <2> QED
    BY <2>1 DEF Chain
<1>6. ASSUME NEW i \in 1 .. n, i - 1 \in S PROVE i \in S
  <2>1. i \in Nat /\ i - 1 \in Nat /\ i - 1 \in 0 .. n /\ (i - 1) + 1 = i
    OBVIOUS
  <2>2. ASSUME NEW f, Chain(f, F, d, n)
        PROVE  Shows(f[i], Made(i), d.x, d.y, d.top, d.bottom)
    <3> DEFINE u == f[i - 1]
    <3>1. u \in Displays /\ f[i] = F[u]
      BY <2>1, <2>2 DEF Chain
    <3>2. Shows(u, Made(i - 1), d.x, d.y, d.top, d.bottom)
      BY <1>6, <2>2
    <3> HIDE DEF u
    <3>3. /\ View(u) = Made(i - 1) /\ u.x = d.x /\ u.y = d.y
          /\ u.top = d.top /\ u.bottom = d.bottom
      BY <3>2 DEF Shows
    <3>4. f[i] = InsertLine(u)
      BY <1>2, <3>1
    <3>5. Shows(f[i], T!Down(View(u), u.y, Lines, 1), u.x, u.y, u.top, u.bottom)
      BY <1>1, <3>1, <3>4
    <3>6. T!Down(Made(i - 1), d.y, Lines, 1) = Made(i)
      BY <1>4, <2>1
    <3> QED
      BY <3>3, <3>5, <3>6
  <2> QED
    BY <2>1, <2>2
<1> HIDE DEF S
<1>7. n \in S
  BY <1>5, <1>6, UpTo
<1>8. PICK f : Chain(f, F, d, n)
  BY <1>2, <1>3, ChainExists
<1>9. Times(InsertLine, n, d) = f[n]
  BY <1>2, <1>3, <1>8, TimesInsertLine
<1> QED
  BY <1>7, <1>8, <1>9 DEF S, Made

\* csi_M(): the lines below move up.
LEMMA DeleteLinesShow ==
  ASSUME NEW d, Good(d), NEW n \in Nat
  PROVE  Shows(Times(DeleteLine, n, d), T!Up(View(d), d.y, Lines, n),
               d.x, d.y, d.top, d.bottom)
<1> DEFINE F == [u \in Displays |-> DeleteLine(u)]
           Made(k) == T!Up(View(d), d.y, Lines, k)
           S == {i \in Nat : \A f : Chain(f, F, d, n) =>
                               Shows(f[i], Made(i), d.x, d.y, d.top, d.bottom)}
<1>1. ASSUME NEW u \in Displays
      PROVE  /\ Good(u) /\ DeleteLine(u) \in Displays
             /\ Shows(DeleteLine(u), T!Up(View(u), u.y, Lines, 1), u.x, u.y, u.top, u.bottom)
  <2>1. Good(u)
    BY DEF Displays
  <2>2. Shows(DeleteLine(u), T!Up(View(u), u.y, Lines, 1), u.x, u.y, u.top, u.bottom)
    BY <2>1, LineShows
  <2> QED
    BY <2>1, <2>2 DEF Shows, Displays, Good
<1>2. F \in [Displays -> Displays] /\ \A u \in Displays : F[u] = DeleteLine(u)
  BY <1>1
<1>3. d \in Displays /\ d.y \in Rows /\ d.x \in Nat /\ IsScreen(View(d))
  BY Fields, ViewIsScreen DEF Displays
<1> HIDE DEF F
<1>4. Made(0) = View(d) /\ \A k \in Nat : T!Up(Made(k), d.y, Lines, 1) = Made(k + 1)
  BY <1>3, LinesAddUp
<1> HIDE DEF Made
<1>5. 0 \in S
  <2>1. Shows(d, Made(0), d.x, d.y, d.top, d.bottom)
    BY <1>4 DEF Shows
  <2> QED
    BY <2>1 DEF Chain
<1>6. ASSUME NEW i \in 1 .. n, i - 1 \in S PROVE i \in S
  <2>1. i \in Nat /\ i - 1 \in Nat /\ i - 1 \in 0 .. n /\ (i - 1) + 1 = i
    OBVIOUS
  <2>2. ASSUME NEW f, Chain(f, F, d, n)
        PROVE  Shows(f[i], Made(i), d.x, d.y, d.top, d.bottom)
    <3> DEFINE u == f[i - 1]
    <3>1. u \in Displays /\ f[i] = F[u]
      BY <2>1, <2>2 DEF Chain
    <3>2. Shows(u, Made(i - 1), d.x, d.y, d.top, d.bottom)
      BY <1>6, <2>2
    <3> HIDE DEF u
    <3>3. /\ View(u) = Made(i - 1) /\ u.x = d.x /\ u.y = d.y
          /\ u.top = d.top /\ u.bottom = d.bottom
      BY <3>2 DEF Shows
    <3>4. f[i] = DeleteLine(u)
      BY <1>2, <3>1
    <3>5. Shows(f[i], T!Up(View(u), u.y, Lines, 1), u.x, u.y, u.top, u.bottom)
      BY <1>1, <3>1, <3>4
    <3>6. T!Up(Made(i - 1), d.y, Lines, 1) = Made(i)
      BY <1>4, <2>1
    <3> QED
      BY <3>3, <3>5, <3>6
  <2> QED
    BY <2>1, <2>2
<1> HIDE DEF S
<1>7. n \in S
  BY <1>5, <1>6, UpTo
<1>8. PICK f : Chain(f, F, d, n)
  BY <1>2, <1>3, ChainExists
<1>9. Times(DeleteLine, n, d) = f[n]
  BY <1>2, <1>3, <1>8, TimesDeleteLine
<1> QED
  BY <1>7, <1>8, <1>9 DEF S, Made

\* csi_at().
LEMMA InsertCharsShow ==
  ASSUME NEW d, Good(d), NEW n \in Nat
  PROVE  Shows(Times(InsertChar, n, d), Inserted(View(d), d.y, d.x, n),
               d.x, d.y, d.top, d.bottom)
<1> DEFINE F == [u \in Displays |-> InsertChar(u)]
           Made(k) == Inserted(View(d), d.y, d.x, k)
           S == {i \in Nat : \A f : Chain(f, F, d, n) =>
                               Shows(f[i], Made(i), d.x, d.y, d.top, d.bottom)}
<1>1. ASSUME NEW u \in Displays
      PROVE  /\ Good(u) /\ InsertChar(u) \in Displays
             /\ Shows(InsertChar(u), Inserted(View(u), u.y, u.x, 1), u.x, u.y, u.top, u.bottom)
  <2>1. Good(u)
    BY DEF Displays
  <2>2. Shows(InsertChar(u), Inserted(View(u), u.y, u.x, 1), u.x, u.y, u.top, u.bottom)
    BY <2>1, InsertCharShows
  <2> QED
    BY <2>1, <2>2 DEF Shows, Displays, Good
<1>2. F \in [Displays -> Displays] /\ \A u \in Displays : F[u] = InsertChar(u)
  BY <1>1
<1>3. d \in Displays /\ d.y \in Rows /\ d.x \in Nat /\ IsScreen(View(d))
  BY Fields, ViewIsScreen DEF Displays
<1> HIDE DEF F
<1>4. Made(0) = View(d) /\ \A k \in Nat : Inserted(Made(k), d.y, d.x, 1) = Made(k + 1)
  BY <1>3, RowsAddUp
<1> HIDE DEF Made
<1>5. 0 \in S
  <2>1. Shows(d, Made(0), d.x, d.y, d.top, d.bottom)
    BY <1>4 DEF Shows
  <2> QED
    BY <2>1 DEF Chain
<1>6. ASSUME NEW i \in 1 .. n, i - 1 \in S PROVE i \in S
  <2>1. i \in Nat /\ i - 1 \in Nat /\ i - 1 \in 0 .. n /\ (i - 1) + 1 = i
    OBVIOUS
  <2>2. ASSUME NEW f, Chain(f, F, d, n)
        PROVE  Shows(f[i], Made(i), d.x, d.y, d.top, d.bottom)
    <3> DEFINE u == f[i - 1]
    <3>1. u \in Displays /\ f[i] = F[u]
      BY <2>1, <2>2 DEF Chain
    <3>2. Shows(u, Made(i - 1), d.x, d.y, d.top, d.bottom)
      BY <1>6, <2>2
    <3> HIDE DEF u
    <3>3. /\ View(u) = Made(i - 1) /\ u.x = d.x /\ u.y = d.y
          /\ u.top = d.top /\ u.bottom = d.bottom
      BY <3>2 DEF Shows
    <3>4. f[i] = InsertChar(u)
      BY <1>2, <3>1
    <3>5. Shows(f[i], Inserted(View(u), u.y, u.x, 1), u.x, u.y, u.top, u.bottom)
      BY <1>1, <3>1, <3>4
    <3>6. Inserted(Made(i - 1), d.y, d.x, 1) = Made(i)
      BY <1>4, <2>1
    <3> QED
      BY <3>3, <3>5, <3>6
  <2> QED
    BY <2>1, <2>2
<1> HIDE DEF S
<1>7. n \in S
  BY <1>5, <1>6, UpTo
<1>8. PICK f : Chain(f, F, d, n)
  BY <1>2, <1>3, ChainExists
<1>9. Times(InsertChar, n, d) = f[n]
  BY <1>2, <1>3, <1>8, TimesInsertChar
<1> QED
  BY <1>7, <1>8, <1>9 DEF S, Made

\* csi_P().
LEMMA DeleteCharsShow ==
  ASSUME NEW d, Good(d), NEW n \in Nat
  PROVE  Shows(Times(DeleteChar, n, d), Deleted(View(d), d.y, d.x, n),
               d.x, d.y, d.top, d.bottom)
<1> DEFINE F == [u \in Displays |-> DeleteChar(u)]
           Made(k) == Deleted(View(d), d.y, d.x, k)
           S == {i \in Nat : \A f : Chain(f, F, d, n) =>
                               Shows(f[i], Made(i), d.x, d.y, d.top, d.bottom)}
<1>1. ASSUME NEW u \in Displays
      PROVE  /\ Good(u) /\ DeleteChar(u) \in Displays
             /\ Shows(DeleteChar(u), Deleted(View(u), u.y, u.x, 1), u.x, u.y, u.top, u.bottom)
  <2>1. Good(u)
    BY DEF Displays
  <2>2. Shows(DeleteChar(u), Deleted(View(u), u.y, u.x, 1), u.x, u.y, u.top, u.bottom)
    BY <2>1, DeleteCharShows
  <2> QED
    BY <2>1, <2>2 DEF Shows, Displays, Good
<1>2. F \in [Displays -> Displays] /\ \A u \in Displays : F[u] = DeleteChar(u)
  BY <1>1
<1>3. d \in Displays /\ d.y \in Rows /\ d.x \in Nat /\ IsScreen(View(d))
  BY Fields, ViewIsScreen DEF Displays
<1> HIDE DEF F
<1>4. Made(0) = View(d) /\ \A k \in Nat : Deleted(Made(k), d.y, d.x, 1) = Made(k + 1)
  BY <1>3, RowsAddUp
<1> HIDE DEF Made
<1>5. 0 \in S
  <2>1. Shows(d, Made(0), d.x, d.y, d.top, d.bottom)
    BY <1>4 DEF Shows
  <2> QED
    BY <2>1 DEF Chain
<1>6. ASSUME NEW i \in 1 .. n, i - 1 \in S PROVE i \in S
  <2>1. i \in Nat /\ i - 1 \in Nat /\ i - 1 \in 0 .. n /\ (i - 1) + 1 = i
    OBVIOUS
  <2>2. ASSUME NEW f, Chain(f, F, d, n)
        PROVE  Shows(f[i], Made(i), d.x, d.y, d.top, d.bottom)
    <3> DEFINE u == f[i - 1]
    <3>1. u \in Displays /\ f[i] = F[u]
      BY <2>1, <2>2 DEF Chain
    <3>2. Shows(u, Made(i - 1), d.x, d.y, d.top, d.bottom)
      BY <1>6, <2>2
    <3> HIDE DEF u
    <3>3. /\ View(u) = Made(i - 1) /\ u.x = d.x /\ u.y = d.y
          /\ u.top = d.top /\ u.bottom = d.bottom
      BY <3>2 DEF Shows
    <3>4. f[i] = DeleteChar(u)
      BY <1>2, <3>1
    <3>5. Shows(f[i], Deleted(View(u), u.y, u.x, 1), u.x, u.y, u.top, u.bottom)
      BY <1>1, <3>1, <3>4
    <3>6. Deleted(Made(i - 1), d.y, d.x, 1) = Made(i)
      BY <1>4, <2>1
    <3> QED
      BY <3>3, <3>5, <3>6
  <2> QED
    BY <2>1, <2>2
<1> HIDE DEF S
<1>7. n \in S
  BY <1>5, <1>6, UpTo
<1>8. PICK f : Chain(f, F, d, n)
  BY <1>2, <1>3, ChainExists
<1>9. Times(DeleteChar, n, d) = f[n]
  BY <1>2, <1>3, <1>8, TimesDeleteChar
<1> QED
  BY <1>7, <1>8, <1>9 DEF S, Made

-----------------------------------------------------------------------------
(* The steps of Terminal, as relations between the display d and the       *)
(* screen s, cursor x, y and region t .. b - 1 after it.                   *)

MayType(d, s, x, y) == \E g \in Glyph :
  IF d.x < Columns
    THEN s = [View(d) EXCEPT ![d.y][d.x] = g] /\ x = d.x + 1 /\ y = d.y
    ELSE /\ s = [Fed(View(d), d.y, d.top, d.bottom) EXCEPT ![RowFed(d.y, d.bottom)][0] = g]
         /\ x = 1 /\ y = RowFed(d.y, d.bottom)

MayFeed(d, s, x, y) ==
  s = Fed(View(d), d.y, d.top, d.bottom) /\ y = RowFed(d.y, d.bottom) /\ x \in 0 .. d.x

MayReverse(d, s, x, y) ==
  /\ s = IF d.y <= d.top THEN T!Down(View(d), d.top, d.bottom, 1) ELSE View(d)
  /\ y = IF d.y <= d.top THEN d.y ELSE d.y - 1
  /\ x = d.x

MayMove(d, s, x, y) == s = View(d) /\ x \in 0 .. Columns /\ y \in Rows

MayRubout(d, s, x, y) ==
  /\ d.x > 0 /\ s = [View(d) EXCEPT ![d.y][d.x - 1] = Blank]
  /\ x = d.x - 1 /\ y = d.y

MayErase(d, s) ==
  LET at == d.y * Columns + d.x IN
  \/ s = Erased(View(d), at, Size)
  \/ s = Erased(View(d), 0, at)
  \/ s = Erased(View(d), 0, Size)
  \/ s = Erased(View(d), at, (d.y + 1) * Columns)
  \/ s = Erased(View(d), d.y * Columns, at)
  \/ s = Erased(View(d), d.y * Columns, (d.y + 1) * Columns)

MayEdit(d, s) ==
  \/ \E n \in 1 .. Columns : \/ s = Inserted(View(d), d.y, d.x, n)
                             \/ s = Deleted(View(d), d.y, d.x, n)
  \/ \E n \in 1 .. Lines : \/ s = T!Down(View(d), d.y, Lines, n)
                           \/ s = T!Up(View(d), d.y, Lines, n)

MayRegion(d, t, b) == t \in Rows /\ b \in 1 .. Lines /\ t < b

May(d, s, x, y, t, b) ==
  \/ /\ t = d.top /\ b = d.bottom
     /\ \/ MayType(d, s, x, y) \/ MayFeed(d, s, x, y) \/ MayReverse(d, s, x, y)
        \/ MayMove(d, s, x, y) \/ MayRubout(d, s, x, y)
        \/ x = d.x /\ y = d.y /\ (MayErase(d, s) \/ MayEdit(d, s))
  \/ s = View(d) /\ x = d.x /\ y = d.y /\ MayRegion(d, t, b)

\* The display e may follow the display d.
Follows(d, e) ==
  \E s, x, y, t, b : Shows(e, s, x, y, t, b) /\ May(d, s, x, y, t, b)

\* set_cursor().
LEMMA ShowKeeps ==
  ASSUME NEW d, NEW e, Follows(d, e), NEW f, f = [e EXCEPT !.cursor = e.pos]
  PROVE  Follows(d, f) /\ Good(f) /\ f.cursor = f.pos
<1>1. Good(e) /\ e \in Display /\ e.pos \in Int
  <2>1. Good(e)
    BY DEF Follows, Shows
  <2> QED
    BY <2>1, Fields
<1>2. /\ f \in Display /\ f.x = e.x /\ f.pos = e.pos /\ f.y = e.y /\ f.mem = e.mem /\ f.top = e.top
      /\ f.bottom = e.bottom /\ f.origin = e.origin /\ f.scr_end = e.scr_end /\ f.shown = e.shown
      /\ f.cursor = e.pos
  BY <1>1 DEF Display
<1>3. Good(f) /\ View(f) = View(e)
  BY <1>1, <1>2 DEF Good, Window, Place, View
<1>4. \A s, x, y, t, b : Shows(e, s, x, y, t, b) => Shows(f, s, x, y, t, b)
  BY <1>2, <1>3 DEF Shows
<1> QED
  BY <1>2, <1>3, <1>4 DEF Follows

\* What May says is what Terminal does.
LEMMA FollowsIsNext ==
  ASSUME Follows(scr, scr')
  PROVE  T!Next
<1>1. Shown = View(scr) /\ Shown' = View(scr')
  BY DEF Shown, View, Rows, Cols
<1>2. PICK s, x, y, t, b : Shows(scr', s, x, y, t, b) /\ May(scr, s, x, y, t, b)
  BY DEF Follows
<1>3. /\ Shown' = s /\ scr'.x = x /\ scr'.y = y /\ scr'.top = t /\ scr'.bottom = b
  BY <1>1, <1>2 DEF Shows
<1>4. T!Rows = Rows /\ T!Cols = Cols
  BY DEF T!Rows, T!Cols, Rows, Cols
<1>5. /\ T!AfterFeed = Fed(View(scr), scr.y, scr.top, scr.bottom)
      /\ T!RowAfterFeed = RowFed(scr.y, scr.bottom)
  BY <1>1 DEF T!AfterFeed, T!RowAfterFeed, T!AtBottom, Fed, RowFed
<1>6. CASE t = scr.top /\ b = scr.bottom /\ MayType(scr, s, x, y)
  <2>1. \E g \in Glyph : T!Type(g)
    BY <1>1, <1>3, <1>5, <1>6 DEF MayType, T!Type
  <2> QED
    BY <2>1 DEF T!Next
<1>7. CASE t = scr.top /\ b = scr.bottom /\ MayFeed(scr, s, x, y)
  <2>1. T!Feed
    BY <1>1, <1>3, <1>5, <1>7 DEF MayFeed, T!Feed
  <2> QED
    BY <2>1 DEF T!Next
<1>8. CASE t = scr.top /\ b = scr.bottom /\ MayReverse(scr, s, x, y)
  <2>1. T!ReverseFeed
    BY <1>1, <1>3, <1>8 DEF MayReverse, T!ReverseFeed
  <2> QED
    BY <2>1 DEF T!Next
<1>9. CASE t = scr.top /\ b = scr.bottom /\ MayMove(scr, s, x, y)
  <2>1. T!Move
    BY <1>1, <1>3, <1>4, <1>9 DEF MayMove, T!Move
  <2> QED
    BY <2>1 DEF T!Next
<1>10. CASE t = scr.top /\ b = scr.bottom /\ MayRubout(scr, s, x, y)
  <2>1. T!Rubout
    BY <1>1, <1>3, <1>10 DEF MayRubout, T!Rubout
  <2> QED
    BY <2>1 DEF T!Next
<1>11. CASE t = scr.top /\ b = scr.bottom /\ x = scr.x /\ y = scr.y /\ MayErase(scr, s)
  <2>1. ASSUME NEW from, NEW to, s = Erased(View(scr), from, to) PROVE T!Erase(from, to)
    BY <1>1, <1>3, <1>4, <1>11, <2>1 DEF Erased, T!Erase
  <2>2. T!EraseDisplay \/ T!EraseLine
    BY <1>11, <2>1 DEF MayErase, T!EraseDisplay, T!EraseLine, T!Cursor, Size
  <2> QED
    BY <2>2 DEF T!Next
<1>12. CASE t = scr.top /\ b = scr.bottom /\ x = scr.x /\ y = scr.y /\ MayEdit(scr, s)
  <2>1. ASSUME NEW n, s = Inserted(View(scr), scr.y, scr.x, n) PROVE T!InsertChars(n)
    BY <1>1, <1>3, <1>4, <1>12, <2>1 DEF Inserted, T!InsertChars, T!ChangeRow
  <2>2. ASSUME NEW n, s = Deleted(View(scr), scr.y, scr.x, n) PROVE T!DeleteChars(n)
    BY <1>1, <1>3, <1>4, <1>12, <2>2 DEF Deleted, T!DeleteChars, T!ChangeRow
  <2>3. ASSUME NEW n, s = T!Down(View(scr), scr.y, Lines, n) PROVE T!InsertLines(n)
    BY <1>1, <1>3, <1>12, <2>3 DEF T!InsertLines
  <2>4. ASSUME NEW n, s = T!Up(View(scr), scr.y, Lines, n) PROVE T!DeleteLines(n)
    BY <1>1, <1>3, <1>12, <2>4 DEF T!DeleteLines
  <2>5. \/ \E n \in 1 .. Columns : T!InsertChars(n) \/ T!DeleteChars(n)
        \/ \E n \in 1 .. Lines : T!InsertLines(n) \/ T!DeleteLines(n)
    BY <1>12, <2>1, <2>2, <2>3, <2>4 DEF MayEdit
  <2> QED
    BY <2>5 DEF T!Next
<1>13. CASE s = View(scr) /\ x = scr.x /\ y = scr.y /\ MayRegion(scr, t, b)
  <2>1. T!SetRegion
    BY <1>1, <1>3, <1>4, <1>13 DEF MayRegion, T!SetRegion
  <2> QED
    BY <2>1 DEF T!Next
<1> QED
  BY <1>2, <1>6, <1>7, <1>8, <1>9, <1>10, <1>11, <1>12, <1>13 DEF May

-----------------------------------------------------------------------------
(* Every procedure does what Terminal may do.                              *)

\* Nothing happens.
LEMMA StaysFollows ==
  ASSUME NEW d, Good(d)
  PROVE  Follows(d, d)
<1>1. d.x \in 0 .. Columns /\ d.y \in Rows
  BY Fields, Sizes
<1>2. Shows(d, View(d), d.x, d.y, d.top, d.bottom)
  BY DEF Shows
<1>3. May(d, View(d), d.x, d.y, d.top, d.bottom)
  BY <1>1 DEF May, MayMove
<1> QED
  BY <1>2, <1>3 DEF Follows

\* Outside escape sequences.
LEMMA PutFollows ==
  ASSUME NEW d, Good(d), NEW g \in Glyph
  PROVE  Follows(d, Put(d, g))
<1> DEFINE e == Put(d, g)
           fed == [Fed(View(d), d.y, d.top, d.bottom) EXCEPT ![RowFed(d.y, d.bottom)][0] = g]
           put == [View(d) EXCEPT ![d.y][d.x] = g]
<1>1. IF d.x < Columns
        THEN Shows(e, put, d.x + 1, d.y, d.top, d.bottom)
        ELSE Shows(e, fed, 1, RowFed(d.y, d.bottom), d.top, d.bottom)
  BY PutShows
<1> HIDE DEF e
<1>2. CASE d.x < Columns
  <2>1. MayType(d, put, d.x + 1, d.y)
    BY <1>2 DEF MayType
  <2>2. May(d, put, d.x + 1, d.y, d.top, d.bottom)
    BY <2>1 DEF May
  <2> QED
    BY <1>1, <1>2, <2>2 DEF Follows, e
<1>3. CASE ~(d.x < Columns)
  <2>1. MayType(d, fed, 1, RowFed(d.y, d.bottom))
    BY <1>3 DEF MayType
  <2>2. May(d, fed, 1, RowFed(d.y, d.bottom), d.top, d.bottom)
    BY <2>1 DEF May
  <2> QED
    BY <1>1, <1>3, <2>2 DEF Follows, e
<1> QED
  BY <1>2, <1>3

\* lf() is Feed.
LEMMA LfFollows ==
  ASSUME NEW d, Good(d)
  PROVE  Follows(d, Lf(d))
<1> DEFINE s == Fed(View(d), d.y, d.top, d.bottom)
<1>1. Shows(Lf(d), s, d.x, RowFed(d.y, d.bottom), d.top, d.bottom)
  BY LfShows
<1>2. d.x \in 0 .. d.x
  BY Fields
<1>3. May(d, s, d.x, RowFed(d.y, d.bottom), d.top, d.bottom)
  BY <1>2 DEF May, MayFeed
<1> QED
  BY <1>1, <1>3 DEF Follows

\* ri() is ReverseFeed, and may scroll the region down.
LEMMA RiFollows ==
  ASSUME NEW d, Good(d)
  PROVE  Follows(d, Ri(d))
<1> DEFINE s == IF d.y <= d.top THEN T!Down(View(d), d.top, d.bottom, 1) ELSE View(d)
           y == IF d.y <= d.top THEN d.y ELSE d.y - 1
<1>1. Shows(Ri(d), s, d.x, y, d.top, d.bottom)
  BY RiShows
<1>2. MayReverse(d, s, d.x, y)
  BY DEF MayReverse
<1> HIDE DEF s, y
<1>3. May(d, s, d.x, y, d.top, d.bottom)
  BY <1>2 DEF May
<1> QED
  BY <1>1, <1>3 DEF Follows

\* The cursor moves.
LEMMA MoveFollows ==
  ASSUME NEW d, NEW e, NEW x \in 0 .. Columns, NEW y \in Rows,
         Shows(e, View(d), x, y, d.top, d.bottom)
  PROVE  Follows(d, e)
<1>1. May(d, View(d), x, y, d.top, d.bottom)
  BY DEF May, MayMove
<1> QED
  BY <1>1 DEF Follows

\* gotoxy() with whatever it is asked for.
LEMMA GotoxyFollows ==
  ASSUME NEW d, Good(d), NEW x \in Nat, NEW y \in Nat
  PROVE  Follows(d, Gotoxy(d, x, y))
<1>1. PICK x2 \in 0 .. Columns, y2 \in Rows :
        Shows(Gotoxy(d, x, y), View(d), x2, y2, d.top, d.bottom)
  BY GotoxyShows
<1> QED
  BY <1>1, MoveFollows

\* The control characters.
LEMMA ControlFollows ==
  ASSUME NEW d, Good(d), NEW c \in {"LF", "CR", "DEL", "BS", "TAB"}
  PROVE  Follows(d, Control(c, d))
<1>1. d.x \in Int /\ 0 <= d.x /\ d.x <= Columns /\ Columns \in Int /\ d.y \in Rows
  BY Fields, Sizes
<1>2. CASE c = "LF"
  <2>1. Control(c, d) = Lf(d)
    BY <1>2 DEF Control
  <2> QED
    BY <2>1, LfFollows
<1>3. CASE c = "CR"
  <2>1. Control(c, d) = Cr(d)
    BY <1>3 DEF Control
  <2>2. Shows(Cr(d), View(d), 0, d.y, d.top, d.bottom)
    BY CrShows
  <2>3. 0 \in 0 .. Columns
    BY <1>1
  <2>4. Follows(d, Cr(d))
    BY <1>1, <2>2, <2>3, MoveFollows
  <2> QED
    BY <2>1, <2>4
<1>4. CASE c = "DEL"
  <2>1. Control(c, d) = Del(d)
    BY <1>4 DEF Control
  <2>2. CASE d.x > 0
    <3> DEFINE s == [View(d) EXCEPT ![d.y][d.x - 1] = Blank]
    <3>1. Shows(Del(d), s, d.x - 1, d.y, d.top, d.bottom)
      BY <2>2, DelShows
    <3>2. MayRubout(d, s, d.x - 1, d.y)
      BY <2>2 DEF MayRubout
    <3>3. May(d, s, d.x - 1, d.y, d.top, d.bottom)
      BY <3>2 DEF May
    <3> HIDE DEF s
    <3>4. Follows(d, Del(d))
      BY <3>1, <3>3 DEF Follows
    <3> QED
      BY <2>1, <3>4
  <2>3. CASE ~(d.x > 0)
    <3>1. Control(c, d) = d
      BY <2>1, <2>3 DEF Del
    <3> QED
      BY <3>1, StaysFollows
  <2> QED
    BY <2>2, <2>3
<1>5. CASE c = "BS"
  <2>1. Control(c, d) = Backspace(d)
    BY <1>5 DEF Control
  <2>2. CASE d.x > 0
    <3>1. Shows(Backspace(d), View(d), d.x - 1, d.y, d.top, d.bottom)
      BY <2>2, BackspaceShows
    <3>2. d.x - 1 \in 0 .. Columns
      BY <1>1, <2>2
    <3>3. Follows(d, Backspace(d))
      BY <1>1, <3>1, <3>2, MoveFollows
    <3> QED
      BY <2>1, <3>3
  <2>3. CASE ~(d.x > 0)
    <3>1. Control(c, d) = d
      BY <2>1, <2>3 DEF Backspace
    <3> QED
      BY <3>1, StaysFollows
  <2> QED
    BY <2>2, <2>3
<1>6. CASE c = "TAB"
  <2> DEFINE e == Tab(d)
             s == Fed(View(d), d.y, d.top, d.bottom)
             y == RowFed(d.y, d.bottom)
  <2>1. Control(c, d) = e
    BY <1>6 DEF Control
  <2>2. \/ \E x \in 0 .. Columns : Shows(e, View(d), x, d.y, d.top, d.bottom)
        \/ \E x \in 0 .. d.x : Shows(e, s, x, y, d.top, d.bottom)
    BY TabShows
  <2> HIDE DEF e
  <2>3. (\E x \in 0 .. Columns : Shows(e, View(d), x, d.y, d.top, d.bottom)) => Follows(d, e)
    BY <1>1, MoveFollows
  <2>4. ASSUME NEW x \in 0 .. d.x, Shows(e, s, x, y, d.top, d.bottom) PROVE Follows(d, e)
    <3>1. May(d, s, x, y, d.top, d.bottom)
      BY DEF May, MayFeed
    <3> HIDE DEF s, y
    <3> QED
      BY <2>4, <3>1 DEF Follows
  <2> QED
    BY <2>1, <2>2, <2>3, <2>4
<1> QED
  BY <1>2, <1>3, <1>4, <1>5, <1>6

-----------------------------------------------------------------------------
(* Commands.                                                               *)

\* The cells meant are erased, or the parameter is not known.
LEMMA EraseFollows ==
  ASSUME NEW d, Good(d), NEW k
  PROVE  Follows(d, EraseDisplay(d, k)) /\ Follows(d, EraseLine(d, k))
<1> DEFINE at == d.y * Columns + d.x
           row == d.y * Columns
           next == (d.y + 1) * Columns
<1>1. ASSUME NEW e, NEW s, Shows(e, s, d.x, d.y, d.top, d.bottom), MayErase(d, s)
      PROVE  Follows(d, e)
  <2>1. May(d, s, d.x, d.y, d.top, d.bottom)
    BY <1>1 DEF May
  <2> QED
    BY <1>1, <2>1 DEF Follows
<1>2. ASSUME NEW e, Shows(e, View(d), d.x, d.y, d.top, d.bottom)
      PROVE  Follows(d, e)
  <2>1. d.x \in 0 .. Columns /\ d.y \in Rows
    BY Fields, Sizes
  <2> QED
    BY <1>2, <2>1, MoveFollows
<1>3. /\ MayErase(d, Erased(View(d), at, Size)) /\ MayErase(d, Erased(View(d), 0, at))
      /\ MayErase(d, Erased(View(d), 0, Size)) /\ MayErase(d, Erased(View(d), at, next))
      /\ MayErase(d, Erased(View(d), row, at)) /\ MayErase(d, Erased(View(d), row, next))
  BY DEF MayErase
<1>4. Follows(d, EraseDisplay(d, k))
  <2> DEFINE e == EraseDisplay(d, k)
             s == CASE k = 0 -> Erased(View(d), at, Size)
                    [] k = 1 -> Erased(View(d), 0, at)
                    [] k = 2 -> Erased(View(d), 0, Size)
                    [] OTHER -> View(d)
  <2>1. Shows(e, s, d.x, d.y, d.top, d.bottom)
    BY EraseDisplayShows
  <2> HIDE DEF e, at
  <2>2. CASE k = 0
    BY <1>1, <1>3, <2>1, <2>2 DEF e
  <2>3. CASE k = 1
    BY <1>1, <1>3, <2>1, <2>3 DEF e
  <2>4. CASE k = 2
    BY <1>1, <1>3, <2>1, <2>4 DEF e
  <2>5. CASE k # 0 /\ k # 1 /\ k # 2
    BY <1>2, <2>1, <2>5 DEF e
  <2> QED
    BY <2>2, <2>3, <2>4, <2>5
<1>5. Follows(d, EraseLine(d, k))
  <2> DEFINE e == EraseLine(d, k)
             s == CASE k = 0 -> Erased(View(d), at, next)
                    [] k = 1 -> Erased(View(d), row, at)
                    [] k = 2 -> Erased(View(d), row, next)
                    [] OTHER -> View(d)
  <2>1. Shows(e, s, d.x, d.y, d.top, d.bottom)
    BY EraseLineShows
  <2> HIDE DEF e, at, row, next
  <2>2. CASE k = 0
    BY <1>1, <1>3, <2>1, <2>2 DEF e
  <2>3. CASE k = 1
    BY <1>1, <1>3, <2>1, <2>3 DEF e
  <2>4. CASE k = 2
    BY <1>1, <1>3, <2>1, <2>4 DEF e
  <2>5. CASE k # 0 /\ k # 1 /\ k # 2
    BY <1>2, <2>1, <2>5 DEF e
  <2> QED
    BY <2>2, <2>3, <2>4, <2>5
<1> QED
  BY <1>4, <1>5

\* Characters and lines are inserted and deleted at least once.
LEMMA EditFollows ==
  ASSUME NEW d, Good(d), NEW k \in Nat
  PROVE  /\ Follows(d, Times(InsertLine, Count(k, Lines), d))
         /\ Follows(d, Times(DeleteLine, Count(k, Lines), d))
         /\ Follows(d, Times(InsertChar, Count(k, Columns), d))
         /\ Follows(d, Times(DeleteChar, Count(k, Columns), d))
<1> DEFINE m == Count(k, Lines)
           n == Count(k, Columns)
<1>1. m \in 1 .. Lines /\ n \in 1 .. Columns /\ m \in Nat /\ n \in Nat
  BY Sizes DEF Count
<1> HIDE DEF m, n
<1>2. ASSUME NEW e, NEW s, Shows(e, s, d.x, d.y, d.top, d.bottom), MayEdit(d, s)
      PROVE  Follows(d, e)
  <2>1. May(d, s, d.x, d.y, d.top, d.bottom)
    BY <1>2 DEF May
  <2> QED
    BY <1>2, <2>1 DEF Follows
<1>3. /\ MayEdit(d, T!Down(View(d), d.y, Lines, m)) /\ MayEdit(d, T!Up(View(d), d.y, Lines, m))
      /\ MayEdit(d, Inserted(View(d), d.y, d.x, n)) /\ MayEdit(d, Deleted(View(d), d.y, d.x, n))
  BY <1>1 DEF MayEdit
<1>4. Follows(d, Times(InsertLine, m, d))
  BY <1>1, <1>2, <1>3, InsertLinesShow
<1>5. Follows(d, Times(DeleteLine, m, d))
  BY <1>1, <1>2, <1>3, DeleteLinesShow
<1>6. Follows(d, Times(InsertChar, n, d))
  BY <1>1, <1>2, <1>3, InsertCharsShow
<1>7. Follows(d, Times(DeleteChar, n, d))
  BY <1>1, <1>2, <1>3, DeleteCharsShow
<1> QED
  BY <1>4, <1>5, <1>6, <1>7 DEF m, n

\* The region changes.
LEMMA SetRegionFollows ==
  ASSUME NEW d, Good(d), NEW t \in Nat, NEW b \in Nat
  PROVE  Follows(d, SetRegion(d, t, b))
<1>1. PICK t2 \in Rows, b2 \in 1 .. Lines :
        t2 < b2 /\ Shows(SetRegion(d, t, b), View(d), d.x, d.y, t2, b2)
  BY SetRegionShows
<1>2. May(d, View(d), d.x, d.y, t2, b2)
  BY <1>1 DEF May, MayRegion
<1> QED
  BY <1>1, <1>2 DEF Follows

\* Whatever the command is, and whatever its parameters are.
LEMMA CsiFollows ==
  ASSUME NEW d, Good(d), NEW p \in [0 .. NPAR - 1 -> 0 .. ULONG - 1],
         saved \in (0 .. Columns) \X (0 .. Lines - 1), NEW c
  PROVE  Follows(d, Csi(c, p, d))
<1>1. /\ p[0] \in Nat /\ p[1] \in Nat /\ d.x \in Nat /\ d.y \in Nat /\ Lines \in Nat
      /\ saved[1] \in Nat /\ saved[2] \in Nat /\ 0 \in Nat
  <2>1. 0 \in 0 .. NPAR - 1 /\ 1 \in 0 .. NPAR - 1 /\ ULONG \in Nat
    BY ParserAssumption
  <2>2. p[0] \in Nat /\ p[1] \in Nat
    BY <2>1
  <2>3. d.x \in Nat /\ d.y \in Nat /\ Lines \in Nat
    BY Fields, Sizes
  <2> QED
    BY <2>2, <2>3, Sizes
<1>2. \A n \in Nat : OneBased(n) \in Nat /\ AtLeast1(n) \in Nat
  BY DEF OneBased, AtLeast1
<1>3. \A a, b \in Nat : Plus(a, b) \in Nat /\ Minus(a, b) \in Nat
  <2>1. ULONG \in Nat \ {0}
    BY ParserAssumption, Sizes
  <2>2. \A a \in Int : a % ULONG \in 0 .. ULONG - 1
    BY <2>1
  <2>3. \A a, b \in Nat : a + b \in Int /\ a - b \in Int
    OBVIOUS
  <2>4. \A a \in 0 .. ULONG - 1 : a \in Nat
    BY <2>1
  <2> QED
    BY <2>2, <2>3, <2>4 DEF Plus, Minus
<1>4. \A x, y \in Nat : Follows(d, Gotoxy(d, x, y))
  BY GotoxyFollows
<1>5. CASE c \in {"G", "A", "B", "C", "D", "E", "F", "d", "H", "u"}
  BY <1>1, <1>2, <1>3, <1>4, <1>5 DEF Csi
<1>6. CASE c \in {"J", "K"}
  BY <1>6, EraseFollows DEF Csi
<1>7. CASE c \in {"L", "M", "P", "@"}
  BY <1>1, <1>7, EditFollows DEF Csi
<1>8. CASE c = "r"
  <2>1. \A t, b \in Nat : Follows(d, SetRegion(d, t, b))
    BY SetRegionFollows
  <2> QED
    BY <1>1, <1>2, <1>8, <2>1 DEF Csi
<1>9. CASE c \notin {"G", "A", "B", "C", "D", "E", "F", "d", "H", "u", "J", "K",
                     "L", "M", "P", "@", "r"}
  <2>1. Csi(c, p, d) = d
    BY <1>9 DEF Csi
  <2> QED
    BY <2>1, StaysFollows
<1> QED
  BY <1>5, <1>6, <1>7, <1>8, <1>9

-----------------------------------------------------------------------------
(* The inductive invariant.                                                *)

\* con_init().
LEMMA InitInv ==
  ASSUME Init
  PROVE  Inv /\ T!Init
<1>1. /\ Lines \in Nat \ {0} /\ Columns \in Nat \ {0} /\ Size \in Nat /\ Size <= VideoMem
      /\ VideoMem \in Nat
  BY Sizes
<1>2. scr.mem \in Memory /\ Kept(scr.mem) /\ \A a \in Video : scr.mem[a] = Blank
  <2>1. scr.mem = [a \in Address |-> IF a \in Video THEN Blank ELSE Foreign]
    BY DEF Init
  <2>2. Video \subseteq Address
    BY <1>1 DEF Video, Address
  <2> QED
    BY <2>1, <2>2, CellAssumption DEF Memory, Kept
<1>3. /\ scr.origin = 0 /\ scr.scr_end = Size /\ scr.top = 0 /\ scr.bottom = Lines
      /\ scr.x = 0 /\ scr.y = 0 /\ scr.pos = 0 /\ scr.shown = 0 /\ scr.cursor = 0
  BY DEF Init, Size
<1>4. scr \in Display
  <2>1. scr = [mem |-> scr.mem, origin |-> 0, scr_end |-> Size, top |-> 0, bottom |-> Lines,
               x |-> 0, y |-> 0, pos |-> 0, shown |-> 0, cursor |-> 0]
    BY DEF Init, Size
  <2>2. 0 \in Int /\ Size \in Int /\ Lines \in Int
    BY <1>1
  <2> QED
    BY <1>2, <2>1, <2>2 DEF Display
<1>5. Good(scr)
  <2>1. scr.origin + scr.y * Columns + scr.x = 0
    BY <1>1, <1>3
  <2>2. Window(scr)
    BY <1>1, <1>3 DEF Window
  <2>3. Place(scr) /\ scr.x \in 0 .. Columns
    BY <1>1, <1>3, <2>1 DEF Place
  <2> QED
    BY <1>2, <1>4, <2>2, <2>3 DEF Good
<1>6. Inv
  <2>1. NPAR \in Nat /\ NPAR >= 2 /\ ULONG \in Nat /\ 0 < ULONG
    BY <1>1, ParserAssumption
  <2>2. /\ state = 0 /\ npar = 0 /\ par = [i \in 0 .. NPAR - 1 |-> 0] /\ saved = <<0, 0>>
    BY DEF Init
  <2>3. /\ state \in 0 .. 3 /\ npar \in 0 .. NPAR - 1
        /\ par \in [0 .. NPAR - 1 -> 0 .. ULONG - 1]
    BY <2>1, <2>2
  <2>4. saved \in (0 .. Columns) \X (0 .. Lines - 1)
    BY <1>1, <2>2
  <2> QED
    BY <1>3, <1>5, <2>3, <2>4 DEF Inv
<1>7. T!Init
  <2>1. Shown = View(scr)
    BY DEF Shown, View, Rows, Cols
  <2>2. \A r \in Rows, c \in Cols : View(scr)[r][c] \in Glyph
    BY <1>2, <1>5, CellIsVideo, CellAssumption
  <2>3. View(scr) = [r \in Rows |-> [c \in Cols |-> View(scr)[r][c]]]
    BY DEF View
  <2>4. View(scr) \in [Rows -> [Cols -> Glyph]]
    <3> DEFINE v == View(scr)
    <3> HIDE DEF v
    <3>1. v \in [Rows -> [Cols -> Glyph]]
      BY <2>2, <2>3 DEF v
    <3> QED
      BY <3>1 DEF v
  <2>5. T!Rows = Rows /\ T!Cols = Cols
    BY DEF T!Rows, T!Cols, Rows, Cols
  <2>6. scr.x \in 0 .. Columns /\ scr.y \in Rows
    BY <1>1, <1>3 DEF Rows
  <2> QED
    BY <1>3, <2>1, <2>4, <2>5, <2>6 DEF T!Init
<1> QED
  BY <1>6, <1>7

\* One character, and set_cursor().
LEMMA ScreenFollows ==
  ASSUME Inv, Next
  PROVE  Follows(scr, scr') /\ Good(scr') /\ scr'.cursor = scr'.pos
<1>1. /\ Good(scr) /\ par \in [0 .. NPAR - 1 -> 0 .. ULONG - 1]
      /\ saved \in (0 .. Columns) \X (0 .. Lines - 1)
  BY DEF Inv
<1>2. ASSUME NEW e, Follows(scr, e), scr' = [e EXCEPT !.cursor = e.pos]
      PROVE  Follows(scr, scr') /\ Good(scr') /\ scr'.cursor = scr'.pos
  BY <1>2, ShowKeeps
<1>3. Follows(scr, scr)
  BY <1>1, StaysFollows
<1>4. CASE Text
  <2>1. CASE \E g \in Printable : Show(Put(scr, g))
    <3>1. PICK g \in Printable : Show(Put(scr, g))
      BY <2>1
    <3>2. g \in Glyph
      BY CellAssumption DEF Printable
    <3>3. Follows(scr, Put(scr, g))
      BY <1>1, <3>2, PutFollows
    <3> QED
      BY <1>2, <3>1, <3>3 DEF Show
  <2>2. CASE \E c \in {"LF", "CR", "DEL", "BS", "TAB"} : Show(Control(c, scr))
    BY <1>1, <1>2, <2>2, ControlFollows DEF Show
  <2> QED
    BY <1>4, <2>1, <2>2 DEF Text
<1>5. CASE Escape
  BY <1>2, <1>3, <1>5 DEF Escape, Show
<1>6. CASE AfterEscape
  <2>1. /\ 0 \in Nat /\ scr.y + 1 \in Nat /\ saved[1] \in Nat /\ saved[2] \in Nat
    <3>1. scr.y \in Nat /\ 0 \in Nat
      BY <1>1, Fields
    <3>2. saved[1] \in Nat /\ saved[2] \in Nat
      BY <1>1, Sizes
    <3> QED
      BY <3>1, <3>2
  <2>2. CASE Show(scr)
    BY <1>2, <1>3, <2>2 DEF Show
  <2>3. CASE Show(Gotoxy(scr, 0, scr.y + 1))
    <3>1. Follows(scr, Gotoxy(scr, 0, scr.y + 1))
      BY <1>1, <2>1, GotoxyFollows
    <3> QED
      BY <1>2, <2>3, <3>1 DEF Show
  <2>4. CASE Show(Ri(scr))
    BY <1>1, <1>2, <2>4, RiFollows DEF Show
  <2>5. CASE Show(Lf(scr))
    BY <1>1, <1>2, <2>5, LfFollows DEF Show
  <2>6. CASE Show(Gotoxy(scr, saved[1], saved[2]))
    <3>1. Follows(scr, Gotoxy(scr, saved[1], saved[2]))
      BY <1>1, <2>1, GotoxyFollows
    <3> QED
      BY <1>2, <2>6, <3>1 DEF Show
  <2> QED
    BY <1>6, <2>2, <2>3, <2>4, <2>5, <2>6 DEF AfterEscape
<1>7. CASE Question
  BY <1>2, <1>3, <1>7 DEF Question, Show
<1>8. CASE NextParameter
  BY <1>2, <1>3, <1>8 DEF NextParameter, Show
<1>9. ASSUME NEW n \in Digit, ParameterDigit(n)
      PROVE  Follows(scr, scr') /\ Good(scr') /\ scr'.cursor = scr'.pos
  BY <1>2, <1>3, <1>9 DEF ParameterDigit, Show
<1>10. ASSUME NEW c \in Commands, Command(c)
       PROVE  Follows(scr, scr') /\ Good(scr') /\ scr'.cursor = scr'.pos
  <2>1. Follows(scr, Csi(c, par, scr))
    BY <1>1, CsiFollows
  <2> QED
    BY <1>2, <1>10, <2>1 DEF Command, Show
<1> QED
  BY <1>4, <1>5, <1>6, <1>7, <1>8, <1>9, <1>10 DEF Next

\* The parser.
LEMMA ParserKept ==
  ASSUME Inv, Next
  PROVE  /\ state' \in 0 .. 3
         /\ npar' \in 0 .. NPAR - 1 /\ par' \in [0 .. NPAR - 1 -> 0 .. ULONG - 1]
         /\ saved' \in (0 .. Columns) \X (0 .. Lines - 1)
<1>1. /\ Good(scr) /\ state \in 0 .. 3
      /\ npar \in 0 .. NPAR - 1 /\ par \in [0 .. NPAR - 1 -> 0 .. ULONG - 1]
      /\ saved \in (0 .. Columns) \X (0 .. Lines - 1)
  BY DEF Inv
<1>2. NPAR \in Nat /\ NPAR >= 2 /\ ULONG \in Nat /\ 0 < ULONG
  BY Sizes, ParserAssumption
<1>3. <<scr.x, scr.y>> \in (0 .. Columns) \X (0 .. Lines - 1)
  BY <1>1, Fields, Sizes
<1>4. ToText => /\ state' \in 0 .. 3 /\ npar' \in 0 .. NPAR - 1
                /\ par' \in [0 .. NPAR - 1 -> 0 .. ULONG - 1]
  BY <1>2 DEF ToText
<1>5. CASE Text
  BY <1>1, <1>5 DEF Text
<1>6. CASE Escape
  BY <1>1, <1>6 DEF Escape
<1>7. CASE AfterEscape
  BY <1>1, <1>3, <1>4, <1>7 DEF AfterEscape
<1>8. CASE Question
  BY <1>1, <1>8 DEF Question
<1>9. CASE NextParameter
  <2>1. npar + 1 \in 0 .. NPAR - 1
    BY <1>1, <1>2, <1>9 DEF NextParameter
  <2> QED
    BY <1>1, <1>9, <2>1 DEF NextParameter
<1>10. ASSUME NEW n \in Digit, ParameterDigit(n)
       PROVE  /\ state' \in 0 .. 3
              /\ npar' \in 0 .. NPAR - 1 /\ par' \in [0 .. NPAR - 1 -> 0 .. ULONG - 1]
              /\ saved' \in (0 .. Columns) \X (0 .. Lines - 1)
  <2>1. n \in Int
    BY ParserAssumption
  <2>2. par[npar] \in Int
    BY <1>1, <1>2
  <2> DEFINE value == 10 * par[npar] + n
  <2>3. value \in Int
    BY <2>1, <2>2
  <2>4. par' = [par EXCEPT ![npar] = value % ULONG]
    BY <1>10 DEF ParameterDigit
  <2> HIDE DEF value
  <2>5. value % ULONG \in 0 .. ULONG - 1
    BY <1>2, <2>3
  <2>6. par' \in [0 .. NPAR - 1 -> 0 .. ULONG - 1]
    BY <1>1, <2>4, <2>5
  <2> QED
    BY <1>1, <1>10, <2>6 DEF ParameterDigit
<1>11. ASSUME NEW c \in Commands, Command(c)
       PROVE  /\ state' \in 0 .. 3
              /\ npar' \in 0 .. NPAR - 1 /\ par' \in [0 .. NPAR - 1 -> 0 .. ULONG - 1]
              /\ saved' \in (0 .. Columns) \X (0 .. Lines - 1)
  BY <1>1, <1>3, <1>4, <1>11 DEF Command
<1> QED
  BY <1>5, <1>6, <1>7, <1>8, <1>9, <1>10, <1>11 DEF Next

\* The display is in order after every character, whatever it is part of.
THEOREM InvHolds == Spec => []Inv
<1>1. Init => Inv
  BY InitInv
<1>2. Inv /\ [Next]_vars => Inv'
  <2> SUFFICES ASSUME Inv, [Next]_vars PROVE Inv'
    OBVIOUS
  <2>1. CASE Next
    BY <2>1, ScreenFollows, ParserKept DEF Inv
  <2>2. CASE UNCHANGED vars
    BY <2>2 DEF vars, Inv, Good, Kept, Window, Place
  <2> QED
    BY <2>1, <2>2
<1> QED
  BY <1>1, <1>2, PTL DEF Spec

-----------------------------------------------------------------------------
(* The properties.                                                         *)

\* Every variable has its type: the cursor is on the screen or one column behind
\* it, and the region has at least one line.
THEOREM TypesCorrect == Spec => []TypeOK
<1>1. Inv => TypeOK
  BY DEF Inv, Good, Kept, Memory, Place, TypeOK
<1> QED
  BY <1>1, InvHolds, PTL

\* con_write() keeps pos where x and y are, and the window in the adapter's memory.
THEOREM CursorCorrect == Spec => []CursorIsInWindow
<1>1. Inv => CursorIsInWindow
  BY DEF Inv, Good, Kept, Memory, Window, Place, TypeOK, CursorIsInWindow, Size
<1> QED
  BY <1>1, InvHolds, PTL

\* con_write() writes nothing outside the adapter's memory.
THEOREM MemoryCorrect == Spec => []OthersMemoryKept
<1>1. Inv => OthersMemoryKept
  BY DEF Inv, Good, Kept, OthersMemoryKept
<1> QED
  BY <1>1, InvHolds, PTL

\* What con_write() makes the adapter show is what a terminal shows.
THEOREM Refinement == Spec => ImplementsTerminal
<1>1. Init => T!Init
  BY InitInv
<1>2. Inv /\ [Next]_vars => [T!Next]_(T!vars)
  <2> SUFFICES ASSUME Inv, [Next]_vars PROVE [T!Next]_(T!vars)
    OBVIOUS
  <2>1. CASE Next
    BY <2>1, ScreenFollows, FollowsIsNext
  <2>2. CASE UNCHANGED vars
    BY <2>2 DEF vars, T!vars, Shown
  <2> QED
    BY <2>1, <2>2
<1> QED
  BY <1>1, <1>2, InvHolds, PTL DEF Spec, ImplementsTerminal, T!Spec
=============================================================================
