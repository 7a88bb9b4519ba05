------------------------------ MODULE TtyProofs ------------------------------
(***************************************************************************)
(* The terminal for every number of processes, every size of the rings and *)
(* all messages and keys: what is written is shown, and the echo is the    *)
(* line, unless an echo has come at a moment when it harms.                *)
(***************************************************************************)
EXTENDS Tty, WellFoundedInduction, SequenceTheorems, TLAPS

-----------------------------------------------------------------------------
(* Positions in a ring.                                                    *)

LEMMA Sizes == TTY_BUF_SIZE \in Nat /\ TTY_BUF_SIZE >= 2 /\ 0 \in Index
BY SizeAssumption DEF Index

\* The k-th cell from i on, and how far it is from i to j.
Pos(i, k)  == IF i + k < TTY_BUF_SIZE THEN i + k ELSE i + k - TTY_BUF_SIZE
Dist(i, j) == IF i <= j THEN j - i ELSE j - i + TTY_BUF_SIZE

LEMMA IncIs ==
  ASSUME NEW i \in Index
  PROVE  INC(i) = Pos(i, 1) /\ INC(i) \in Index
<1>1. TTY_BUF_SIZE \in Nat \ {0} /\ TTY_BUF_SIZE >= 2 /\ i \in Int /\ 0 <= i /\ i < TTY_BUF_SIZE
  BY Sizes DEF Index
<1> DEFINE a == i + 1
<1>2. a \in Int /\ 0 <= a /\ a < 2 * TTY_BUF_SIZE /\ INC(i) = a % TTY_BUF_SIZE
  BY <1>1 DEF INC
<1> HIDE DEF a
<1>4. INC(i) = IF a < TTY_BUF_SIZE THEN a ELSE a - TTY_BUF_SIZE
  BY <1>1, <1>2
<1>3. INC(i) = IF i + 1 < TTY_BUF_SIZE THEN i + 1 ELSE i + 1 - TTY_BUF_SIZE
  BY <1>1, <1>4 DEF a
<1> QED
  BY <1>1, <1>3 DEF Pos, Index

LEMMA CountIs ==
  ASSUME NEW q, q.head \in Index, q.tail \in Index
  PROVE  /\ CHARS(q) = Dist(q.tail, q.head) /\ CHARS(q) \in Index
         /\ LEFT(q) = TTY_BUF_SIZE - 1 - CHARS(q)
         /\ FULL(q) <=> CHARS(q) = TTY_BUF_SIZE - 1
<1> DEFINE h == q.head
           t == q.tail
           m == TTY_BUF_SIZE
<1>1. m \in Nat \ {0} /\ h \in Int /\ t \in Int /\ 0 <= h /\ h < m /\ 0 <= t /\ t < m
  BY Sizes DEF Index
<1>2. CHARS(q) = (h - t) % m /\ LEFT(q) = (t - h - 1) % m
  BY DEF CHARS, LEFT
<1> HIDE DEF h, t, m
<1> DEFINE c == h - t
           l == t - h - 1
<1>3. c \in Int /\ -m <= c /\ c < m /\ l \in Int /\ -m <= l /\ l < m
  BY <1>1
<1>8. CHARS(q) = c % m /\ LEFT(q) = l % m
  BY <1>2
<1>9. (t <= h <=> 0 <= c) /\ (t <= h <=> l < 0)
  BY <1>1
<1> HIDE DEF c, l
<1>10. CHARS(q) = IF 0 <= c THEN c ELSE c + m
  BY <1>1, <1>3, <1>8
<1>11. LEFT(q) = IF 0 <= l THEN l ELSE l + m
  BY <1>1, <1>3, <1>8
<1>4. CHARS(q) = IF t <= h THEN h - t ELSE h - t + m
  BY <1>9, <1>10 DEF c
<1>5. LEFT(q) = IF t <= h THEN t - h - 1 + m ELSE t - h - 1
  <2>1. 0 <= l <=> ~(t <= h)
    BY <1>3, <1>9
  <2> QED
    BY <1>11, <2>1 DEF l
<1>6. CHARS(q) \in 0 .. m - 1 /\ LEFT(q) = m - 1 - CHARS(q)
  BY <1>1, <1>4, <1>5
<1>7. FULL(q) <=> CHARS(q) = m - 1
  BY <1>1, <1>6 DEF FULL
<1> QED
  BY <1>4, <1>6, <1>7 DEF h, t, m, Dist, Index

\* Going round.
LEMMA Around ==
  ASSUME NEW i \in Index, NEW j \in Index
  PROVE  /\ Pos(i, 0) = i /\ Dist(i, i) = 0 /\ Dist(i, j) \in Index /\ Pos(i, Dist(i, j)) = j
         /\ Dist(i, j) = 0 <=> i = j
         /\ Dist(i, j) < TTY_BUF_SIZE - 1 => Dist(i, INC(j)) = Dist(i, j) + 1
         /\ Dist(i, j) > 0 => Dist(INC(i), j) = Dist(i, j) - 1
<1>1. /\ TTY_BUF_SIZE \in Nat /\ i \in Int /\ 0 <= i /\ i < TTY_BUF_SIZE
      /\ j \in Int /\ 0 <= j /\ j < TTY_BUF_SIZE
  BY Sizes DEF Index
<1>2. INC(i) = Pos(i, 1) /\ INC(j) = Pos(j, 1)
  BY IncIs
<1> QED
  BY <1>1, <1>2 DEF Pos, Dist, Index

LEMMA PosIs ==
  ASSUME NEW i \in Index, NEW k \in Index
  PROVE  /\ Pos(i, k) \in Index
         /\ \A j \in Index : Pos(i, j) = Pos(i, k) => j = k
         /\ k + 1 \in Index => Pos(INC(i), k) = Pos(i, k + 1) /\ INC(Pos(i, k)) = Pos(i, k + 1)
<1>1. /\ TTY_BUF_SIZE \in Nat /\ i \in Int /\ 0 <= i /\ i < TTY_BUF_SIZE
      /\ k \in Int /\ 0 <= k /\ k < TTY_BUF_SIZE
  BY Sizes DEF Index
<1>2. Pos(i, k) \in Index
  BY <1>1 DEF Pos, Index
<1>3. INC(i) = Pos(i, 1) /\ INC(Pos(i, k)) = Pos(Pos(i, k), 1)
  BY <1>2, IncIs
<1>4. \A j \in Index : Pos(i, j) = Pos(i, k) => j = k
  BY <1>1 DEF Pos, Index
<1>5. k + 1 \in Index => Pos(INC(i), k) = Pos(i, k + 1) /\ INC(Pos(i, k)) = Pos(i, k + 1)
  BY <1>1, <1>3 DEF Pos, Index
<1> QED
  BY <1>2, <1>4, <1>5
-----------------------------------------------------------------------------
(* Repetition.                                                             *)

\* What holds at first and is kept, holds always.
LEMMA UpTo ==
  ASSUME NEW n \in Nat, NEW S, 0 \in S, \A i \in 1 .. n : i - 1 \in S => i \in S
  PROVE  \A i \in 0 .. n : i \in S
<1> DEFINE R == OpToRel(<, Nat)
           Out == {i \in 0 .. n : i \notin S}
<1>1. IsWellFoundedOn(R, Nat)
  BY NatLessThanWellFounded
<1>2. \A j, k \in Nat : j < k => <<j, k>> \in R
  BY DEF OpToRel
<1> HIDE DEF R
<1>3. Out \subseteq Nat
  OBVIOUS
<1> SUFFICES ASSUME Out # {} PROVE FALSE
  OBVIOUS
<1>4. PICK i \in Out : \A j \in Out : ~(<<j, i>> \in R)
  BY <1>1, <1>3, WFMin
<1>5. i \in 1 .. n
  BY <1>4
<1>6. i - 1 \in 0 .. n /\ i - 1 \in Nat /\ i \in Nat /\ i - 1 < i
  BY <1>5
<1>7. <<i - 1, i>> \in R
  BY <1>2, <1>6
<1>8. i - 1 \in S
  BY <1>4, <1>6, <1>7
<1> QED
  BY <1>4, <1>5, <1>8

\* f makes n steps F from t on.
Chain(f, F, S, t, n) ==
  f \in [0 .. n -> S] /\ f[0] = t /\ \A i \in 1 .. n : f[i] = F[f[i - 1]]

\* Any number of steps can be made.
LEMMA ChainExists ==
  ASSUME NEW S, NEW F \in [S -> S], NEW t \in S, NEW n \in Nat
  PROVE  \E f : Chain(f, F, S, t, n)
<1> DEFINE K == {k \in Nat : \E f : Chain(f, F, S, t, k)}
<1>1. 0 \in K
  <2> DEFINE f == [i \in 0 .. 0 |-> t]
  <2>1. Chain(f, F, S, t, 0)
    BY DEF Chain
  <2> QED
    BY <2>1
<1>2. ASSUME NEW k \in 1 .. n, k - 1 \in K PROVE k \in K
  <2>1. PICK f : Chain(f, F, S, t, k - 1)
    BY <1>2
  <2> DEFINE g == [i \in 0 .. k |-> IF i = k THEN F[f[k - 1]] ELSE f[i]]
  <2>2. /\ k \in Nat /\ k - 1 \in 0 .. k - 1 /\ 0 \in 0 .. k - 1 /\ k # 0
        /\ \A i \in 0 .. k : i # k => i \in 0 .. k - 1
        /\ \A i \in 1 .. k : i - 1 \in 0 .. k - 1 /\ i \in 0 .. k
        /\ \A i \in 1 .. k : i # k => i \in 1 .. k - 1
        /\ \A i \in 0 .. k - 1 : i \in 0 .. k /\ i # k
    OBVIOUS
  <2>3. g \in [0 .. k -> S]
    BY <2>1, <2>2 DEF Chain
  <2>4. g[0] = t
    BY <2>1, <2>2 DEF Chain
  <2>5. ASSUME NEW i \in 1 .. k PROVE g[i] = F[g[i - 1]]
    <3>1. g[i - 1] = f[i - 1]
      BY <2>2
    <3>2. g[i] = IF i = k THEN F[f[k - 1]] ELSE f[i]
      BY <2>2
    <3> QED
      BY <2>1, <2>2, <3>1, <3>2 DEF Chain
  <2>6. Chain(g, F, S, t, k)
    BY <2>3, <2>4, <2>5 DEF Chain
  <2> QED
    BY <2>2, <2>6
<1> HIDE DEF K
<1>3. n \in K
  BY <1>1, <1>2, UpTo
<1> QED
  BY <1>3 DEF K

\* What a step keeps, a chain keeps.
LEMMA ChainKeeps ==
  ASSUME NEW S, NEW F, NEW t, NEW n \in Nat, NEW f, Chain(f, F, S, t, n),
         NEW G, t \in G, \A u \in S : u \in G => F[u] \in G
  PROVE  f[n] \in G
<1> DEFINE K == {i \in Nat : f[i] \in G}
<1>1. 0 \in K
  BY DEF Chain
<1>2. ASSUME NEW i \in 1 .. n, i - 1 \in K PROVE i \in K
  <2>1. i - 1 \in 0 .. n /\ i \in Nat
    OBVIOUS
  <2> QED
    BY <1>2, <2>1 DEF Chain
<1> HIDE DEF K
<1>3. n \in K
  BY <1>1, <1>2, UpTo
<1> QED
  BY <1>3 DEF K

\* A recursive function that is a chain.
LEMMA ChainIs ==
  ASSUME NEW n \in Nat, NEW f, NEW g, g[0] = f[0],
         \A i \in 1 .. n : g[i - 1] = f[i - 1] => g[i] = f[i]
  PROVE  g[n] = f[n]
<1> DEFINE K == {i \in Nat : g[i] = f[i]}
<1>1. 0 \in K
  OBVIOUS
<1>2. \A i \in 1 .. n : i - 1 \in K => i \in K
  OBVIOUS
<1> HIDE DEF K
<1>3. n \in K
  BY <1>1, <1>2, UpTo
<1> QED
  BY <1>3 DEF K

-----------------------------------------------------------------------------
(* Types.                                                                  *)

InChar   == {"a", "^A", "M-1", "M-M", "CR", "^D", "DEL", "^U", "^S"}
LineChar == {"a", "^A", "M-1", "M-M", "^D", "LF"}
EchoChar == {"glyph", "DEL", "LF", "CR", "ignored"}
Cell == [from : Proc \cup {"echo", "none"}, i : Nat,
         is : EchoChar \cup {"written", "taken"}]
Ring == [head : Index, tail : Index, buf : [Index -> Cell]]
Row  == [x : 0 .. video_num_columns, echo : Int, whole : BOOLEAN]
Lasts == {"CR", "echoed", "other"}

\* What the interrupt works on.
State == [read : {s \in Seq(InChar) : Len(s) < TTY_BUF_SIZE},
          sec : {s \in Seq(LineChar) : Len(s) < TTY_BUF_SIZE},
          data : Nat, q : Ring, shown : [Proc -> Int], last : Lasts, row : Row]

-----------------------------------------------------------------------------
(* The row of the cursor.                                                  *)

LEMMA Columns == video_num_columns \in Nat /\ video_num_columns >= 1
BY InputAssumption

\* n cells are the echo of the line, as long as it is whole.
Fits(r, n) == r \in Row /\ (r.whole => r.echo = n /\ n <= r.x)

LEMMA RowIs ==
  ASSUME NEW r \in Row
  PROVE  r.x \in Nat /\ r.x <= video_num_columns /\ r.echo \in Int /\ r.whole \in BOOLEAN
BY Columns DEF Row

LEMMA RowMade ==
  ASSUME NEW x \in Int, 0 <= x, x <= video_num_columns, NEW k \in Int, NEW w \in BOOLEAN
  PROVE  [x |-> x, echo |-> k, whole |-> w] \in Row
BY Columns DEF Row

LEMMA AnewFits ==
  ASSUME NEW r \in Row
  PROVE  Fits(Anew(r), 0) /\ Anew(r).x = r.x
<1>1. PICK e : e = Anew(r)
  OBVIOUS
<1>2. e \in Row /\ e.x = r.x /\ e.echo = 0 /\ e.whole = TRUE
  BY <1>1, RowIs, Columns DEF Anew, Row
<1>3. Fits(e, 0) /\ e.x = r.x
  BY <1>2, RowIs DEF Fits
<1> QED
  BY <1>1, <1>3

LEMMA TornFits ==
  ASSUME NEW r \in Row
  PROVE  Torn(r) \in Row /\ Torn(r).x = r.x /\ ~Torn(r).whole /\ \A n : Fits(Torn(r), n)
<1>1. PICK e : e = Torn(r)
  OBVIOUS
<1>2. e \in Row /\ e.x = r.x /\ e.echo = 0 /\ e.whole = FALSE
  BY <1>1, RowIs, Columns DEF Torn, Row
<1>3. e \in Row /\ e.x = r.x /\ ~e.whole /\ \A n : Fits(e, n)
  BY <1>2, RowIs DEF Fits
<1> QED
  BY <1>1, <1>3

\* It is whole only with nothing echoed yet.
LEMMA LeaveFits ==
  ASSUME NEW r \in Row
  PROVE  /\ Leave(r) \in Row /\ Leave(r).x = r.x /\ (Leave(r).whole => Leave(r).echo = 0)
         /\ \A n \in Int : Fits(r, n) => Fits(Leave(r), n) /\ (Leave(r).whole => n = 0)
<1>1. CASE r.echo = 0
  BY <1>1 DEF Leave, Fits
<1>2. CASE r.echo # 0
  BY <1>2, TornFits DEF Leave
<1> QED
  BY <1>1, <1>2

\* A glyph appears: at the end of the row, or on the next row.
LEMMA GlyphFits ==
  ASSUME NEW r \in Row
  PROVE  /\ Glyph(r) \in Row
         /\ \A n \in Int : Fits(r, n) /\ Glyph(r).whole
              => Glyph(r).echo = n /\ n + 1 <= Glyph(r).x
<1>1. CASE r.x < video_num_columns
  <2>1. Glyph(r) = [x |-> r.x + 1, echo |-> r.echo, whole |-> r.whole]
    BY <1>1, RowIs DEF Glyph, Row
  <2> QED
    BY <1>1, <2>1, RowIs, RowMade, Columns DEF Fits
<1>2. CASE ~(r.x < video_num_columns)
  <2>1. PICK l : l = Leave(r)
    OBVIOUS
  <2>2. /\ l \in Row /\ (l.whole => l.echo = 0)
        /\ \A n \in Int : Fits(r, n) => (l.whole => n = 0)
    BY <2>1, LeaveFits
  <2>3. Glyph(r) = [x |-> 1, echo |-> l.echo, whole |-> l.whole]
    BY <1>2, <2>1, <2>2, RowIs DEF Glyph, Row
  <2> QED
    BY <2>2, <2>3, RowIs, RowMade, Columns
<1> QED
  BY <1>1, <1>2

\* What is written never stands between the echo and the cursor.
LEMMA WrittenFits ==
  ASSUME NEW r \in Row, NEW is
  PROVE  /\ WrittenOn(is, r) \in Row
         /\ \A n \in Int : Fits(r, n) => Fits(WrittenOn(is, r), n)
<1>1. PICK l : l = Leave(r)
  OBVIOUS
<1>2. /\ l \in Row /\ (l.whole => l.echo = 0)
      /\ \A n \in Int : Fits(r, n) => Fits(l, n) /\ (l.whole => n = 0)
  BY <1>1, LeaveFits
<1>3. CASE is = "CR"
  <2>1. WrittenOn(is, r) = [x |-> 0, echo |-> l.echo, whole |-> l.whole]
    BY <1>1, <1>2, <1>3, RowIs DEF WrittenOn, Row
  <2> QED
    BY <1>2, <2>1, RowIs, RowMade, Columns DEF Fits
<1>4. CASE is = "LF"
  <2>1. WrittenOn(is, r) = l
    BY <1>1, <1>4 DEF WrittenOn
  <2> QED
    BY <1>2, <2>1
<1>5. CASE is # "CR" /\ is # "LF"
  <2>1. PICK g : g = Glyph(l)
    OBVIOUS
  <2>2. /\ g \in Row
        /\ \A n \in Int : Fits(l, n) /\ g.whole => g.echo = n /\ n + 1 <= g.x
    BY <1>2, <2>1, GlyphFits
  <2>3. WrittenOn(is, r) = g
    BY <1>1, <1>5, <2>1 DEF WrittenOn
  <2>4. \A n \in Int : Fits(r, n) => Fits(g, n)
    BY <1>2, <2>2, RowIs DEF Fits
  <2> QED
    BY <2>2, <2>3, <2>4
<1> QED
  BY <1>3, <1>4, <1>5

\* How many cells the line has when c has been echoed.
Count(is, k) == IF is = "DEL" THEN k - 1 ELSE k + 1

LEMMA EchoFits ==
  ASSUME NEW r \in Row, NEW is
  PROVE  /\ EchoOn(is, r) \in Row
         /\ \A n \in Int : Fits(r, n) => Fits(EchoOn(is, r), Count(is, n))
<1>1. CASE is = "glyph"
  <2>1. PICK g : g = Glyph(r)
    OBVIOUS
  <2>2. /\ g \in Row
        /\ \A n \in Int : Fits(r, n) /\ g.whole => g.echo = n /\ n + 1 <= g.x
    BY <2>1, GlyphFits
  <2> DEFINE k == IF g.whole THEN g.echo + 1 ELSE 0
  <2>3. EchoOn(is, r) = [g EXCEPT !.echo = k]
    BY <1>1, <2>1, <2>2 DEF EchoOn
  <2>4. k \in Int /\ (g.whole => k = g.echo + 1)
    BY <2>2, RowIs
  <2> HIDE DEF k
  <2>5. EchoOn(is, r) = [x |-> g.x, echo |-> k, whole |-> g.whole]
    BY <2>2, <2>3 DEF Row
  <2>6. \A n : Count(is, n) = n + 1
    BY <1>1 DEF Count
  <2>7. PICK e : e = EchoOn(is, r)
    OBVIOUS
  <2>8. e \in Row /\ e.x = g.x /\ e.echo = k /\ e.whole = g.whole
    BY <2>2, <2>4, <2>5, <2>7, RowIs, RowMade
  <2>9. \A n \in Int : Fits(r, n) => Fits(e, n + 1)
    BY <2>2, <2>4, <2>8 DEF Fits
  <2> QED
    BY <2>6, <2>7, <2>8, <2>9
<1>2. CASE is = "DEL"
  <2> DEFINE x == IF r.x > 0 THEN r.x - 1 ELSE 0
             k == IF r.whole THEN r.echo - 1 ELSE 0
  <2>1. EchoOn(is, r) = [r EXCEPT !.x = x, !.echo = k]
    BY <1>2 DEF EchoOn, Row
  <2>2. /\ x \in Int /\ 0 <= x /\ x <= video_num_columns /\ r.x - 1 <= x
        /\ k \in Int /\ (r.whole => k = r.echo - 1)
    BY RowIs, Columns
  <2> HIDE DEF x, k
  <2>3. EchoOn(is, r) = [x |-> x, echo |-> k, whole |-> r.whole]
    BY <2>1 DEF Row
  <2>4. \A n : Count(is, n) = n - 1
    BY <1>2 DEF Count
  <2>5. PICK e : e = EchoOn(is, r)
    OBVIOUS
  <2>6. e \in Row /\ e.x = x /\ e.echo = k /\ e.whole = r.whole
    BY <2>2, <2>3, <2>5, RowIs, RowMade
  <2>7. \A n \in Int : Fits(r, n) => Fits(e, n - 1)
    BY <2>2, <2>6, RowIs DEF Fits
  <2> QED
    BY <2>4, <2>5, <2>6, <2>7
<1>3. CASE is \notin {"glyph", "DEL"}
  <2>1. PICK l : l = Torn(r)
    OBVIOUS
  <2>2. l \in Row /\ ~l.whole /\ \A n : Fits(l, n)
    BY <2>1, TornFits
  <2>3. CASE is = "CR"
    <3>1. EchoOn(is, r) = [x |-> 0, echo |-> l.echo, whole |-> l.whole]
      BY <2>1, <2>2, <2>3, RowIs DEF EchoOn, Row
    <3> QED
      BY <2>2, <3>1, RowIs, RowMade, Columns DEF Fits
  <2>4. CASE is # "CR"
    <3>1. EchoOn(is, r) = l
      BY <1>3, <2>1, <2>4 DEF EchoOn
    <3> QED
      BY <2>2, <3>1
  <2> QED
    BY <2>3, <2>4
<1> QED
  BY <1>1, <1>2, <1>3

-----------------------------------------------------------------------------
(* A character appears.                                                    *)

Heard(l) == IF l = "CR" THEN "echoed" ELSE l

\* Only the fields of the screen change.
LEMMA DisplayKeeps ==
  ASSUME NEW t \in State, NEW c \in Cell, NEW u, u = Display(c, t)
  PROVE  /\ u \in State
         /\ u.read = t.read /\ u.sec = t.sec /\ u.data = t.data /\ u.q = t.q
<1> DEFINE OnScreen(e) == /\ e \in State
                          /\ e.read = t.read /\ e.sec = t.sec /\ e.data = t.data /\ e.q = t.q
<1>1. OnScreen(t)
  OBVIOUS
<1>2. /\ t.row \in Row /\ t.last \in Lasts /\ c.i \in Int
      /\ \A is : WrittenOn(is, t.row) \in Row /\ EchoOn(is, t.row) \in Row
  BY WrittenFits, EchoFits DEF State, Cell
<1> HIDE DEF OnScreen
<1>3. CASE c.from \in Proc /\ ~raced
  <2>1. CASE c.i = 0
    <3>1. PICK r \in Row : r = WrittenOn("CR", t.row)
      BY <1>2
    <3>2. u = [t EXCEPT !.last = "CR", !.row = r]
      BY <1>3, <2>1, <3>1, ProcAssumption DEF Display
    <3>3. "CR" \in Lasts
      BY DEF Lasts
    <3> QED
      BY <3>2, <3>3 DEF OnScreen, State
  <2>2. CASE c.i # 0
    <3> DEFINE k == IF Follows(c.from, c.i, t) THEN c.i ELSE Garbled
    <3>1. PICK r \in Row : r = WrittenOn(msg[c.from][c.i], t.row)
      BY <1>2
    <3>2. u = [t EXCEPT !.last = "other", !.row = r, !.shown[c.from] = k]
      BY <1>3, <2>2, <3>1, ProcAssumption DEF Display
    <3>3. k \in Int
      BY <1>2 DEF Garbled
    <3> HIDE DEF k
    <3>4. "other" \in Lasts
      BY DEF Lasts
    <3>5. PICK f : f = [t.shown EXCEPT ![c.from] = k]
      OBVIOUS
    <3>6. f \in [Proc -> Int]
      BY <3>3, <3>5 DEF State
    <3>7. u = [t EXCEPT !.last = "other", !.row = r, !.shown = f]
      BY <3>2, <3>5 DEF State
    <3> QED
      BY <3>4, <3>6, <3>7 DEF OnScreen, State
  <2> QED
    BY <2>1, <2>2
<1>4. CASE c.from \notin Proc /\ c.from = "echo" /\ ~raced
  <2>1. PICK r \in Row : r = EchoOn(c.is, t.row)
    BY <1>2
  <2>2. PICK l : l = Heard(t.last)
    OBVIOUS
  <2>3. l \in Lasts
    BY <1>2, <2>2 DEF Heard, Lasts
  <2>4. u = [t EXCEPT !.last = l, !.row = r]
    BY <1>4, <2>1, <2>2 DEF Display, Heard
  <2> QED
    BY <2>3, <2>4 DEF OnScreen, State
<1>5. CASE ~raced /\ c.from \notin Proc /\ c.from # "echo"
  <2>1. u = t
    BY <1>5 DEF Display
  <2> QED
    BY <1>1, <2>1 DEF OnScreen
<1>6. CASE raced
  <2>1. u = t
    BY <1>6 DEF Display
  <2> QED
    BY <1>1, <2>1 DEF OnScreen
<1> QED
  BY <1>3, <1>4, <1>5, <1>6

-----------------------------------------------------------------------------
(* What is queued.  A mark is how much of its message a process sees, what *)
(* has appeared last, and how many cells the line has.                     *)

Mark == Nat \X Lasts \X Int

\* The character c moves the mark from x to z; m is the message of p, who is
\* writing, if there is one.
Moves(p, m, c, x, z) ==
  \/ p \in Proc /\ c.from = p /\ c.i = 0 /\ z = <<x[1], "CR", x[3]>>
  \/ /\ p \in Proc /\ c.from = p /\ c.i = x[1] + 1 /\ (m[c.i] = "LF" => x[2] # "other")
     /\ z = <<c.i, "other", x[3]>>
  \/ c.from = "echo" /\ z = <<x[1], Heard(x[2]), Count(c.is, x[3])>>

\* So do the n characters from the tail on.
Run(p, m, q, n, x, z) ==
  \E f \in [0 .. n -> Mark] :
    /\ f[0] = x /\ f[n] = z
    /\ \A k \in 0 .. n - 1 : Moves(p, m, q.buf[Pos(q.tail, k)], f[k], f[k + 1])

LEMMA CountInt == \A is : \A k \in Int : Count(is, k) \in Int
BY DEF Count

LEMMA MovesMark ==
  ASSUME NEW p, NEW m, NEW c \in Cell, NEW x \in Mark, NEW z, Moves(p, m, c, x, z)
  PROVE  z \in Mark
<1>1. x[1] \in Nat /\ x[2] \in Lasts /\ x[3] \in Int /\ c.i \in Nat
  BY DEF Mark, Cell
<1>2. Count(c.is, x[3]) \in Int /\ Heard(x[2]) \in Lasts
  BY <1>1, CountInt DEF Heard, Lasts
<1> QED
  BY <1>1, <1>2 DEF Moves, Mark, Lasts

\* None.
LEMMA RunEmpty ==
  ASSUME NEW p, NEW m, NEW q, NEW x, NEW z
  PROVE  Run(p, m, q, 0, x, z) <=> x = z /\ x \in Mark
<1>1. ASSUME x = z, x \in Mark PROVE Run(p, m, q, 0, x, z)
  <2> DEFINE f == [k \in 0 .. 0 |-> x]
  <2>1. f \in [0 .. 0 -> Mark] /\ f[0] = x /\ \A k \in 0 .. 0 - 1 : FALSE
    BY <1>1
  <2> QED
    BY <1>1, <2>1 DEF Run
<1>2. ASSUME Run(p, m, q, 0, x, z) PROVE x = z /\ x \in Mark
  BY <1>2 DEF Run
<1> QED
  BY <1>1, <1>2

LEMMA RunMarks ==
  ASSUME NEW p, NEW m, NEW q, NEW n \in Nat, NEW x, NEW z, Run(p, m, q, n, x, z)
  PROVE  x \in Mark /\ z \in Mark
BY DEF Run

\* The first one is taken.
LEMMA RunTake ==
  ASSUME NEW p, NEW m, NEW q, q.tail \in Index, NEW n \in Index, n > 0, NEW x, NEW z,
         Run(p, m, q, n, x, z),
         NEW r, r.tail = INC(q.tail), \A i \in Index : i # q.tail => r.buf[i] = q.buf[i]
  PROVE  \E y \in Mark : Moves(p, m, q.buf[q.tail], x, y) /\ Run(p, m, r, n - 1, y, z)
<1>1. PICK f \in [0 .. n -> Mark] :
        /\ f[0] = x /\ f[n] = z
        /\ \A k \in 0 .. n - 1 : Moves(p, m, q.buf[Pos(q.tail, k)], f[k], f[k + 1])
  BY DEF Run
<1>2. n \in Nat /\ n < TTY_BUF_SIZE /\ TTY_BUF_SIZE \in Nat /\ n - 1 \in Nat
  BY Sizes DEF Index
<1> DEFINE g == [k \in 0 .. n - 1 |-> f[k + 1]]
<1>3. /\ \A k \in 0 .. n - 1 : k + 1 \in 0 .. n /\ g[k] = f[k + 1]
      /\ \A k \in 0 .. (n - 1) - 1 : k \in 0 .. n - 1 /\ k + 1 \in 0 .. n - 1
      /\ 0 \in 0 .. n - 1 /\ n - 1 \in 0 .. n - 1 /\ (n - 1) + 1 = n
  BY <1>2
<1>4. g \in [0 .. n - 1 -> Mark] /\ g[0] = f[1] /\ g[n - 1] = z
  BY <1>1, <1>3
<1> HIDE DEF g
<1>5. ASSUME NEW k \in 0 .. (n - 1) - 1
      PROVE  Moves(p, m, r.buf[Pos(r.tail, k)], g[k], g[k + 1])
  <2>1. k \in Index /\ k + 1 \in Index /\ 0 \in Index /\ k + 1 # 0
    BY <1>2 DEF Index
  <2>2. Pos(r.tail, k) = Pos(q.tail, k + 1) /\ Pos(q.tail, k + 1) \in Index
    BY <2>1, PosIs, ZenonT(60)
  <2>3. Pos(q.tail, k + 1) # q.tail
    <3>1. Pos(q.tail, 0) = q.tail
      BY Around
    <3>2. \A j \in Index : Pos(q.tail, j) = Pos(q.tail, k + 1) => j = k + 1
      BY <2>1, PosIs
    <3> QED
      BY <2>1, <3>1, <3>2
  <2>4. r.buf[Pos(r.tail, k)] = q.buf[Pos(q.tail, k + 1)]
    BY <2>2, <2>3
  <2>5. Moves(p, m, q.buf[Pos(q.tail, k + 1)], f[k + 1], f[(k + 1) + 1])
    BY <1>1, <1>3
  <2> QED
    BY <1>3, <2>4, <2>5
<1>6. Run(p, m, r, n - 1, f[1], z)
  BY <1>4, <1>5 DEF Run
<1>7. Moves(p, m, q.buf[q.tail], x, f[1]) /\ f[1] \in Mark
  <2>1. Pos(q.tail, 0) = q.tail
    BY Around
  <2>2. 0 \in 0 .. n - 1 /\ 0 + 1 = 1 /\ 1 \in 0 .. n
    BY <1>2
  <2> QED
    BY <1>1, <2>1, <2>2
<1> QED
  BY <1>6, <1>7

\* One more is put behind them.
LEMMA RunPut ==
  ASSUME NEW p, NEW m, NEW q, q.tail \in Index, NEW n \in Index, n + 1 \in Index,
         NEW x, NEW y, NEW z \in Mark, Run(p, m, q, n, x, y),
         NEW r, r.tail = q.tail,
         \A i \in Index : i # Pos(q.tail, n) => r.buf[i] = q.buf[i],
         Moves(p, m, r.buf[Pos(q.tail, n)], y, z)
  PROVE  Run(p, m, r, n + 1, x, z)
<1>1. PICK f \in [0 .. n -> Mark] :
        /\ f[0] = x /\ f[n] = y
        /\ \A k \in 0 .. n - 1 : Moves(p, m, q.buf[Pos(q.tail, k)], f[k], f[k + 1])
  BY DEF Run
<1>2. n \in Nat /\ n < TTY_BUF_SIZE /\ TTY_BUF_SIZE \in Nat
  BY Sizes DEF Index
<1> DEFINE g == [k \in 0 .. n + 1 |-> IF k = n + 1 THEN z ELSE f[k]]
<1>3. /\ \A k \in 0 .. n : k \in 0 .. n + 1 /\ k # n + 1
      /\ \A k \in 0 .. n + 1 : k # n + 1 => k \in 0 .. n
      /\ \A k \in 0 .. n : k # n => k \in 0 .. n - 1
      /\ \A k \in 0 .. n - 1 : k \in 0 .. n /\ k + 1 \in 0 .. n
      /\ 0 \in 0 .. n /\ n \in 0 .. n /\ n + 1 \in 0 .. n + 1 /\ (n + 1) - 1 = n
  BY <1>2
<1>4. /\ g \in [0 .. n + 1 -> Mark] /\ g[0] = x /\ g[n + 1] = z
      /\ \A k \in 0 .. n : g[k] = f[k]
  BY <1>1, <1>3
<1> HIDE DEF g
<1>5. ASSUME NEW k \in 0 .. n
      PROVE  Moves(p, m, r.buf[Pos(r.tail, k)], g[k], g[k + 1])
  <2>1. CASE k = n
    BY <1>1, <1>4, <2>1
  <2>2. CASE k # n
    <3>1. k \in 0 .. n - 1 /\ k + 1 \in 0 .. n
      BY <1>3, <2>2
    <3>2. k \in Index
      BY <1>2 DEF Index
    <3>3. Pos(q.tail, k) \in Index /\ Pos(q.tail, k) # Pos(q.tail, n)
      BY <2>2, <3>2, PosIs, ZenonT(60)
    <3>4. Moves(p, m, q.buf[Pos(q.tail, k)], f[k], f[k + 1])
      BY <1>1, <3>1
    <3> QED
      BY <1>4, <3>1, <3>3, <3>4
  <2> QED
    BY <2>1, <2>2
<1> QED
  BY <1>3, <1>4, <1>5 DEF Run

\* Other cells do not matter.
LEMMA RunSame ==
  ASSUME NEW p, NEW m, NEW q, NEW n \in Nat, NEW x, NEW z, Run(p, m, q, n, x, z),
         NEW r, \A k \in 0 .. n - 1 : r.buf[Pos(r.tail, k)] = q.buf[Pos(q.tail, k)]
  PROVE  Run(p, m, r, n, x, z)
BY DEF Run

-----------------------------------------------------------------------------
(* con_write(), as the interrupt calls it.                                 *)

\* The mark x is what p sees; nobody may be writing.
Shows(p, t, x) ==
  /\ x \in Mark /\ x[1] = (IF p \in Proc THEN t.shown[p] ELSE 0) /\ x[2] = t.last
  /\ Fits(t.row, x[3])

\* A character that appears moves the mark, for nobody but its writer.
LEMMA DisplayMoves ==
  ASSUME ~raced, NEW t \in State, NEW c \in Cell, NEW p, NEW x, Shows(p, t, x),
         NEW m, m = msg[p], NEW z, Moves(p, m, c, x, z),
         NEW u, u = Display(c, t)
  PROVE  Shows(p, u, z) /\ \A o \in Proc : o # p => u.shown[o] = t.shown[o]
<1>1. /\ t.shown \in [Proc -> Int] /\ c.i \in Nat /\ t.row \in Row
      /\ "echo" \notin Proc
  BY ProcAssumption DEF State, Cell
<1>2. /\ x \in Mark /\ x[2] = t.last /\ (p \in Proc => x[1] = t.shown[p])
      /\ (p \notin Proc => x[1] = 0) /\ Fits(t.row, x[3]) /\ x[3] \in Int
  BY DEF Shows, Mark
<1>3. z \in Mark
  BY <1>2, MovesMark
<1>4. CASE p \in Proc /\ c.from = p /\ c.i = 0 /\ z = <<x[1], "CR", x[3]>>
  <2>1. PICK r : r = WrittenOn("CR", t.row)
    OBVIOUS
  <2>2. u = [t EXCEPT !.last = "CR", !.row = r]
    BY <1>1, <1>4, <2>1 DEF Display
  <2>3. u.last = "CR" /\ u.shown = t.shown /\ u.row = r
    BY <2>2 DEF State
  <2>4. Fits(r, x[3])
    BY <1>1, <1>2, <2>1, WrittenFits
  <2> QED
    BY <1>2, <1>3, <1>4, <2>3, <2>4 DEF Shows
<1>5. CASE /\ p \in Proc /\ c.from = p /\ c.i = x[1] + 1 /\ (m[c.i] = "LF" => x[2] # "other")
           /\ z = <<c.i, "other", x[3]>>
  <2>1. c.i # 0
    <3>1. x[1] \in Nat
      BY <1>2 DEF Mark
    <3> QED
      BY <1>5, <3>1
  <2>2. Follows(c.from, c.i, t)
    BY <1>2, <1>5 DEF Follows
  <2>3. PICK r : r = WrittenOn(msg[c.from][c.i], t.row)
    OBVIOUS
  <2>4. u = [t EXCEPT !.last = "other", !.row = r, !.shown[p] = c.i]
    BY <1>1, <1>5, <2>1, <2>2, <2>3 DEF Display
  <2>5. u.last = "other" /\ u.shown = [t.shown EXCEPT ![p] = c.i] /\ u.row = r
    BY <2>4 DEF State
  <2>6. Fits(r, x[3])
    BY <1>1, <1>2, <2>3, WrittenFits
  <2> QED
    BY <1>1, <1>2, <1>3, <1>5, <2>5, <2>6 DEF Shows
<1>6. CASE c.from = "echo" /\ z = <<x[1], Heard(x[2]), Count(c.is, x[3])>>
  <2>1. PICK r : r = EchoOn(c.is, t.row)
    OBVIOUS
  <2>2. PICK l : l = Heard(t.last)
    OBVIOUS
  <2>3. u = [t EXCEPT !.last = l, !.row = r]
    BY <1>1, <1>6, <2>1, <2>2 DEF Display, Heard
  <2>4. u.last = l /\ u.shown = t.shown /\ u.row = r
    BY <2>3 DEF State
  <2>5. Fits(r, Count(c.is, x[3]))
    BY <1>1, <1>2, <2>1, EchoFits
  <2> QED
    BY <1>2, <1>3, <1>6, <2>2, <2>4, <2>5 DEF Shows
<1> QED
  BY <1>4, <1>5, <1>6 DEF Moves

\* One turn of the loop.
Taken(u) == [Display(u.q.buf[u.q.tail], u) EXCEPT !.q.buf[u.q.tail] = Stale, !.q.tail = INC(@)]

LEMMA TakenKeeps ==
  ASSUME NEW t \in State, NEW u, u = Taken(t)
  PROVE  /\ u \in State
         /\ u.read = t.read /\ u.sec = t.sec /\ u.data = t.data
         /\ u.q.head = t.q.head /\ u.q.tail = INC(t.q.tail)
         /\ \A i \in Index : i # t.q.tail => u.q.buf[i] = t.q.buf[i]
         /\ LET e == Display(t.q.buf[t.q.tail], t)
            IN  u.shown = e.shown /\ u.last = e.last /\ u.row = e.row
<1> DEFINE c == t.q.buf[t.q.tail]
           e == Display(c, t)
<1>1. t.q \in Ring /\ t.q.tail \in Index /\ t.q.buf \in [Index -> Cell] /\ c \in Cell
  BY DEF State, Ring
<1>2. e \in State /\ e.read = t.read /\ e.sec = t.sec /\ e.data = t.data /\ e.q = t.q
  BY <1>1, DisplayKeeps
<1>3. Stale \in Cell
  BY DEF Stale, Cell, None
<1>4. INC(t.q.tail) \in Index
  BY <1>1, IncIs
<1>5. u = [e EXCEPT !.q.buf[t.q.tail] = Stale, !.q.tail = INC(@)]
  BY DEF Taken
<1> HIDE DEF e, c
<1> DEFINE r == [t.q EXCEPT !.buf[t.q.tail] = Stale, !.tail = INC(@)]
<1>6. /\ r \in Ring /\ r.head = t.q.head /\ r.tail = INC(t.q.tail)
      /\ \A i \in Index : i # t.q.tail => r.buf[i] = t.q.buf[i]
  BY <1>1, <1>3, <1>4 DEF Ring
<1>7. u = [e EXCEPT !.q = r]
  BY <1>2, <1>5 DEF State
<1> HIDE DEF r
<1>8. /\ u \in State /\ u.q = r /\ u.read = e.read /\ u.sec = e.sec /\ u.data = e.data
      /\ u.shown = e.shown /\ u.last = e.last /\ u.row = e.row
  BY <1>2, <1>6, <1>7 DEF State
<1> QED
  BY <1>2, <1>6, <1>8 DEF e, c

\* con_write() is as many turns as characters were queued.
LEMMA ConWriteIs ==
  ASSUME NEW t \in State
  PROVE  /\ CHARS(t.q) \in Nat
         /\ \E f : /\ Chain(f, [u \in State |-> Taken(u)], State, t, CHARS(t.q))
                   /\ ConWrite(t) = f[CHARS(t.q)]
<1> DEFINE n == CHARS(t.q)
           F == [u \in State |-> Taken(u)]
           taken[i \in 0 .. n] == IF i = 0 THEN t ELSE Taken(taken[i - 1])
<1>1. n \in Nat
  BY CountIs DEF State, Ring, Index
<1>2. F \in [State -> State] /\ \A u \in State : F[u] = Taken(u)
  BY TakenKeeps
<1> HIDE DEF n, F
<1>3. PICK f : Chain(f, F, State, t, n)
  BY <1>1, <1>2, ChainExists
<1>4. f = [i \in 0 .. n |-> IF i = 0 THEN t ELSE Taken(f[i - 1])]
  <2>1. f = [i \in 0 .. n |-> f[i]]
    BY <1>3 DEF Chain
  <2>2. \A i \in 0 .. n : f[i] = IF i = 0 THEN t ELSE Taken(f[i - 1])
    <3>1. \A i \in 0 .. n : i # 0 => i \in 1 .. n /\ i - 1 \in 0 .. n
      BY <1>1
    <3> QED
      BY <1>2, <1>3, <3>1 DEF Chain
  <2> QED
    BY <2>1, <2>2
<1>5. taken = [i \in 0 .. n |-> IF i = 0 THEN t ELSE Taken(taken[i - 1])]
  BY <1>4
<1>6. ConWrite(t) = taken[n]
  BY DEF ConWrite, Taken, n
<1> HIDE DEF taken
<1>7. taken[n] = f[n]
  <2>1. taken[0] = f[0]
    BY <1>1, <1>4, <1>5
  <2>2. ASSUME NEW i \in 1 .. n, taken[i - 1] = f[i - 1] PROVE taken[i] = f[i]
    <3>1. i \in 0 .. n /\ i # 0
      OBVIOUS
    <3> QED
      BY <1>4, <1>5, <2>2, <3>1
  <2> QED
    BY <1>1, <2>1, <2>2, ChainIs
<1> QED
  BY <1>1, <1>3, <1>6, <1>7 DEF n, F
LEMMA ConWriteKeeps ==
  ASSUME NEW t \in State, NEW r, r = ConWrite(t)
  PROVE  r \in State /\ r.read = t.read /\ r.sec = t.sec /\ r.data = t.data
<1> DEFINE n == CHARS(t.q)
           F == [u \in State |-> Taken(u)]
           G == {u \in State : u.read = t.read /\ u.sec = t.sec /\ u.data = t.data}
<1>1. n \in Nat /\ \E f : Chain(f, F, State, t, n) /\ r = f[n]
  BY ConWriteIs
<1>2. PICK f : Chain(f, F, State, t, n) /\ r = f[n]
  BY <1>1
<1>3. \A u \in State : u \in G => F[u] \in G
  BY TakenKeeps
<1>4. t \in G
  OBVIOUS
<1> HIDE DEF n, F, G
<1>5. f[n] \in G
  BY <1>1, <1>2, <1>3, <1>4, ChainKeeps
<1> QED
  BY <1>2, <1>5 DEF G

\* One turn: a character less, and what moves the mark has appeared.
OneLess(p, t, z) ==
  \E u, y : /\ u = Taken(t) /\ CHARS(u.q) = CHARS(t.q) - 1 /\ Shows(p, u, y)
            /\ Run(p, msg[p], u.q, CHARS(u.q), y, z)
            /\ \A o \in Proc : o # p => u.shown[o] = t.shown[o]

LEMMA TakenShows ==
  ASSUME ~raced, NEW t \in State, NEW p, NEW x, NEW z, CHARS(t.q) > 0, Shows(p, t, x),
         Run(p, msg[p], t.q, CHARS(t.q), x, z)
  PROVE  OneLess(p, t, z)
<1>1. PICK c, e : c = t.q.buf[t.q.tail] /\ e = Display(c, t)
  OBVIOUS
<1>2. /\ t.q.tail \in Index /\ t.q.head \in Index /\ c \in Cell
      /\ CHARS(t.q) \in Index /\ CHARS(t.q) = Dist(t.q.tail, t.q.head)
  BY <1>1, CountIs DEF State, Ring
<1>3. ASSUME NEW y, Moves(p, msg[p], c, x, y)
      PROVE  Shows(p, e, y) /\ \A o \in Proc : o # p => e.shown[o] = t.shown[o]
  BY <1>1, <1>2, <1>3, DisplayMoves
<1>4. PICK u : u = Taken(t)
  OBVIOUS
<1>5. /\ u \in State /\ u.q.head = t.q.head /\ u.q.tail = INC(t.q.tail)
      /\ \A i \in Index : i # t.q.tail => u.q.buf[i] = t.q.buf[i]
      /\ u.shown = e.shown /\ u.last = e.last /\ u.row = e.row
  BY <1>1, <1>4, TakenKeeps
<1>6. PICK y \in Mark : /\ Moves(p, msg[p], c, x, y)
                        /\ Run(p, msg[p], u.q, CHARS(t.q) - 1, y, z)
  BY <1>1, <1>2, <1>5, RunTake
<1>7. Shows(p, u, y) /\ \A o \in Proc : o # p => u.shown[o] = t.shown[o]
  <2>1. Shows(p, e, y) /\ \A o \in Proc : o # p => e.shown[o] = t.shown[o]
    BY <1>3, <1>6
  <2> QED
    BY <1>5, <2>1 DEF Shows
<1>8. CHARS(u.q) = CHARS(t.q) - 1
  <2>1. u.q.tail \in Index /\ u.q.head \in Index
    BY <1>2, <1>5, IncIs
  <2>2. CHARS(u.q) = Dist(u.q.tail, u.q.head)
    BY <2>1, CountIs
  <2>3. Dist(INC(t.q.tail), t.q.head) = Dist(t.q.tail, t.q.head) - 1
    BY <1>2, Around
  <2> QED
    BY <1>2, <1>5, <2>2, <2>3
<1> QED
  BY <1>4, <1>6, <1>7, <1>8 DEF OneLess

\* It empties the queue, and what moves the mark there has appeared.
LEMMA ConWriteShows ==
  ASSUME ~raced, NEW t \in State, NEW p, NEW x, NEW z, Shows(p, t, x),
         Run(p, msg[p], t.q, CHARS(t.q), x, z),
         NEW r, r = ConWrite(t)
  PROVE  /\ CHARS(r.q) = 0 /\ Shows(p, r, z)
         /\ \A o \in Proc : o # p => r.shown[o] = t.shown[o]
<1> DEFINE n == CHARS(t.q)
           F == [u \in State |-> Taken(u)]
           Rest(u) == /\ \E y : Shows(p, u, y) /\ Run(p, msg[p], u.q, CHARS(u.q), y, z)
                      /\ \A o \in Proc : o # p => u.shown[o] = t.shown[o]
<1>1. n \in Nat /\ \E f : Chain(f, F, State, t, n) /\ r = f[n]
  BY ConWriteIs
<1>2. PICK f : Chain(f, F, State, t, n) /\ r = f[n]
  BY <1>1
<1>3. Rest(t)
  OBVIOUS
<1>4. ASSUME NEW u \in State, CHARS(u.q) > 0, Rest(u)
      PROVE  Rest(F[u]) /\ CHARS(F[u].q) = CHARS(u.q) - 1
  <2>1. F[u] = Taken(u)
    OBVIOUS
  <2>2. PICK y : Shows(p, u, y) /\ Run(p, msg[p], u.q, CHARS(u.q), y, z)
    BY <1>4
  <2>3. PICK v, y2 : /\ v = Taken(u) /\ CHARS(v.q) = CHARS(u.q) - 1 /\ Shows(p, v, y2)
                     /\ Run(p, msg[p], v.q, CHARS(v.q), y2, z)
                     /\ \A o \in Proc : o # p => v.shown[o] = u.shown[o]
    <3>1. OneLess(p, u, z)
      BY <1>4, <2>2, TakenShows
    <3> QED
      BY <3>1 DEF OneLess
  <2>4. Rest(v)
    BY <1>4, <2>3
  <2> HIDE DEF Rest, F
  <2> QED
    BY <2>1, <2>3, <2>4
<1> HIDE DEF Rest
<1> DEFINE K == {i \in Nat : i <= n => Rest(f[i]) /\ CHARS(f[i].q) = n - i}
<1>5. 0 \in K
  BY <1>1, <1>2, <1>3 DEF Chain
<1>6. ASSUME NEW i \in 1 .. n, i - 1 \in K PROVE i \in K
  <2>1. i - 1 \in 0 .. n /\ n - (i - 1) > 0 /\ (n - (i - 1)) - 1 = n - i
    BY <1>1
  <2>2. f[i - 1] \in State /\ f[i] = F[f[i - 1]]
    BY <1>2, <2>1 DEF Chain
  <2>3. Rest(f[i - 1]) /\ CHARS(f[i - 1].q) = n - (i - 1)
    BY <1>1, <1>6, <2>1
  <2> HIDE DEF F, n
  <2>4. Rest(f[i]) /\ CHARS(f[i].q) = (n - (i - 1)) - 1
    BY <1>4, <2>1, <2>2, <2>3
  <2> QED
    BY <2>1, <2>4
<1> HIDE DEF K
<1>7. n \in K
  BY <1>1, <1>5, <1>6, UpTo
<1>8. Rest(r) /\ CHARS(r.q) = 0
  <2>1. n - n = 0 /\ n <= n
    BY <1>1
  <2> HIDE DEF n
  <2> QED
    BY <1>2, <1>7, <2>1 DEF K
<1>9. PICK y : Shows(p, r, y) /\ Run(p, msg[p], r.q, 0, y, z)
  BY <1>8 DEF Rest
<1>10. y = z
  BY <1>9, RunEmpty
<1> QED
  BY <1>8, <1>9, <1>10 DEF Rest

-----------------------------------------------------------------------------
(* The echo.                                                               *)

LEMMA PutchKeeps ==
  ASSUME NEW q \in Ring, NEW c \in Cell, NEW r, r = PUTCH(c, q)
  PROVE  /\ r \in Ring /\ r.tail = q.tail /\ r.head = INC(q.head) /\ r.buf[q.head] = c
         /\ \A i \in Index : i # q.head => r.buf[i] = q.buf[i]
         /\ Pos(q.tail, CHARS(q)) = q.head
         /\ ~FULL(q) => CHARS(r) = CHARS(q) + 1 /\ CHARS(q) + 1 \in Index
<1>1. q.head \in Index /\ q.tail \in Index /\ q.buf \in [Index -> Cell] /\ INC(q.head) \in Index
  BY IncIs DEF Ring
<1>2. /\ r \in Ring /\ r.tail = q.tail /\ r.head = INC(q.head) /\ r.buf[q.head] = c
      /\ \A i \in Index : i # q.head => r.buf[i] = q.buf[i]
  BY <1>1 DEF PUTCH, Ring
<1>3. /\ CHARS(q) = Dist(q.tail, q.head) /\ CHARS(q) \in Index
      /\ (FULL(q) <=> CHARS(q) = TTY_BUF_SIZE - 1) /\ CHARS(r) = Dist(r.tail, r.head)
  BY <1>1, <1>2, CountIs
<1>4. Pos(q.tail, CHARS(q)) = q.head
  BY <1>1, <1>3, Around
<1>5. ASSUME ~FULL(q) PROVE CHARS(r) = CHARS(q) + 1 /\ CHARS(q) + 1 \in Index
  <2>1. CHARS(q) < TTY_BUF_SIZE - 1 /\ CHARS(q) + 1 \in Index
    BY <1>3, <1>5, Sizes DEF Index
  <2> QED
    BY <1>1, <1>2, <1>3, <2>1, Around
<1> QED
  BY <1>2, <1>4, <1>5

\* An echo that is put into the queue moves the mark behind what is there.
LEMMA PutEcho ==
  ASSUME NEW q \in Ring, NEW c \in EchoChar, NEW r, r = PUTCH(Echo(c), q),
         NEW p, NEW m, NEW x, NEW z, ~FULL(q), Run(p, m, q, CHARS(q), x, z)
  PROVE  Run(p, m, r, CHARS(r), x, <<z[1], Heard(z[2]), Count(c, z[3])>>)
<1>1. Echo(c) \in Cell /\ Echo(c).from = "echo" /\ Echo(c).is = c
  BY DEF Echo, Cell
<1>2. /\ r.tail = q.tail /\ r.buf[q.head] = Echo(c)
      /\ \A i \in Index : i # q.head => r.buf[i] = q.buf[i]
      /\ Pos(q.tail, CHARS(q)) = q.head
      /\ CHARS(r) = CHARS(q) + 1 /\ CHARS(q) + 1 \in Index
  BY <1>1, PutchKeeps
<1>3. q.tail \in Index /\ CHARS(q) \in Index
  BY CountIs DEF Ring
<1> DEFINE y == <<z[1], Heard(z[2]), Count(c, z[3])>>
<1>4. z \in Mark
  BY <1>3, RunMarks DEF Index
<1>5. y \in Mark
  <2>1. z[1] \in Nat /\ z[2] \in Lasts /\ z[3] \in Int
    BY <1>4 DEF Mark
  <2>2. Count(c, z[3]) \in Int /\ Heard(z[2]) \in Lasts
    BY <2>1, CountInt DEF Heard, Lasts
  <2> QED
    BY <2>1, <2>2 DEF Mark
<1>6. Moves(p, m, r.buf[q.head], z, y)
  BY <1>1, <1>2 DEF Moves
<1> HIDE DEF y
<1>7. Run(p, m, r, CHARS(q) + 1, x, y)
  BY <1>2, <1>3, <1>5, <1>6, RunPut
<1> QED
  BY <1>2, <1>7 DEF y

\* What is echoed at once is one or two characters.
Echoes == {cs \in Seq(EchoChar) : Len(cs) \in {1, 2}}

EchoAll(cs, k) ==
  IF Len(cs) = 1 THEN Count(cs[1], k) ELSE Count(cs[2], Count(cs[1], k))

LEMMA EchoedIs ==
  ASSUME NEW t \in State, NEW cs \in Echoes
  PROVE  \E q \in Ring :
           /\ Echoed(t, cs) = ConWrite([t EXCEPT !.q = q])
           /\ \A p, m, x, z :
                CHARS(t.q) + 2 < TTY_BUF_SIZE /\ Run(p, m, t.q, CHARS(t.q), x, z)
                  => Run(p, m, q, CHARS(q), x, <<z[1], Heard(z[2]), EchoAll(cs, z[3])>>)
<1> DEFINE one == PUTCH(Echo(cs[1]), t.q)
           two == PUTCH(Echo(cs[2]), one)
           queued[n \in 0 .. Len(cs)] ==
             IF n = 0 THEN t.q ELSE PUTCH(Echo(cs[n]), queued[n - 1])
           f == [n \in 0 .. Len(cs) |-> IF n = 0 THEN t.q ELSE IF n = 1 THEN one ELSE two]
<1>1. /\ t.q \in Ring /\ Len(cs) \in {1, 2} /\ cs[1] \in EchoChar
      /\ Len(cs) # 1 => Len(cs) = 2 /\ cs[2] \in EchoChar
  BY DEF State, Echoes
<1>2. Echo(cs[1]) \in Cell /\ (Len(cs) # 1 => Echo(cs[2]) \in Cell)
  BY <1>1 DEF Echo, Cell
<1>3. f = [n \in 0 .. Len(cs) |-> IF n = 0 THEN t.q ELSE PUTCH(Echo(cs[n]), f[n - 1])]
  <2> HIDE DEF one
  <2>1. two = PUTCH(Echo(cs[2]), one)
    OBVIOUS
  <2> HIDE DEF two
  <2>2. \A n \in 0 .. Len(cs) : f[n] = IF n = 0 THEN t.q ELSE PUTCH(Echo(cs[n]), f[n - 1])
    <3>1. \A n \in 0 .. Len(cs) : n \in {0, 1, 2}
      <4>1. \A k \in {1, 2} : \A n \in 0 .. k : n = 0 \/ n = 1 \/ n = 2
        OBVIOUS
      <4> QED
        BY <1>1, <4>1
    <3>2. /\ 0 \in 0 .. Len(cs) /\ 1 \in 0 .. Len(cs) /\ 1 - 1 = 0 /\ 2 - 1 = 1 /\ 0 # 1
          /\ 2 # 0 /\ 2 # 1
      BY <1>1
    <3>3. f[0] = t.q /\ f[1] = one
      BY <3>2
    <3>4. one = PUTCH(Echo(cs[1]), t.q)
      BY DEF one
    <3> QED
      BY <2>1, <3>1, <3>2, <3>3, <3>4
  <2> QED
    BY <2>2
<1>4. queued = [n \in 0 .. Len(cs) |-> IF n = 0 THEN t.q ELSE PUTCH(Echo(cs[n]), queued[n - 1])]
  <2> HIDE DEF f
  <2> QED
    BY <1>3
<1>5. Echoed(t, cs) = ConWrite([t EXCEPT !.q = queued[Len(cs)]])
  BY DEF Echoed
<1> HIDE DEF queued, f
<1>6. queued[0] = t.q /\ queued[1] = one /\ (Len(cs) = 2 => queued[2] = two)
  <2>1. 0 \in 0 .. Len(cs) /\ 1 \in 0 .. Len(cs) /\ 1 - 1 = 0 /\ 2 - 1 = 1 /\ 0 # 1 /\ 2 # 0
    BY <1>1
  <2>2. queued[0] = t.q
    BY <1>4, <2>1
  <2>3. queued[1] = one
    BY <1>4, <2>1, <2>2
  <2>4. ASSUME Len(cs) = 2 PROVE queued[2] = two
    <3>1. 2 \in 0 .. Len(cs)
      BY <2>4
    <3>2. queued[2] = PUTCH(Echo(cs[2]), queued[2 - 1])
      BY <1>4, <2>1, <3>1
    <3> QED
      BY <2>1, <2>3, <3>2
  <2> QED
    BY <2>2, <2>3, <2>4
<1>7. one \in Ring /\ (Len(cs) = 2 => two \in Ring)
  <2>1. one \in Ring
    BY <1>1, <1>2, PutchKeeps
  <2> HIDE DEF one
  <2> QED
    BY <1>2, <2>1, PutchKeeps
<1>8. ASSUME NEW p, NEW m, NEW x, NEW z,
             CHARS(t.q) + 2 < TTY_BUF_SIZE, Run(p, m, t.q, CHARS(t.q), x, z)
      PROVE  /\ Run(p, m, one, CHARS(one), x, <<z[1], Heard(z[2]), Count(cs[1], z[3])>>)
             /\ Len(cs) = 2 =>
                  Run(p, m, two, CHARS(two), x,
                      <<z[1], Heard(z[2]), Count(cs[2], Count(cs[1], z[3]))>>)
  <2> DEFINE y == <<z[1], Heard(z[2]), Count(cs[1], z[3])>>
  <2>1. /\ t.q.head \in Index /\ t.q.tail \in Index /\ one.head \in Index /\ one.tail \in Index
        /\ CHARS(t.q) \in Nat /\ TTY_BUF_SIZE \in Nat
    <3> HIDE DEF one
    <3>1. /\ t.q.head \in Index /\ t.q.tail \in Index
          /\ one.head \in Index /\ one.tail \in Index
      BY <1>1, <1>7 DEF Ring
    <3> QED
      BY <3>1, CountIs, Sizes DEF Index
  <2>2. ~FULL(t.q)
    BY <1>8, <2>1, CountIs
  <2>3. CHARS(one) = CHARS(t.q) + 1
    BY <1>1, <1>2, <2>2, PutchKeeps
  <2>4. ~FULL(one)
    BY <1>8, <2>1, <2>3, CountIs
  <2>5. Run(p, m, one, CHARS(one), x, y)
    BY <1>1, <1>8, <2>2, PutEcho
  <2> HIDE DEF one
  <2>6. y[1] = z[1] /\ y[2] = Heard(z[2]) /\ Heard(y[2]) = y[2] /\ y[3] = Count(cs[1], z[3])
    BY DEF Heard
  <2>7. ASSUME Len(cs) = 2
        PROVE  Run(p, m, two, CHARS(two), x, <<y[1], Heard(y[2]), Count(cs[2], y[3])>>)
    <3> HIDE DEF y
    <3> QED
      BY <1>1, <1>7, <2>4, <2>5, <2>7, PutEcho
  <2> QED
    BY <2>5, <2>6, <2>7
<1> HIDE DEF one, two
<1>9. CASE Len(cs) = 1
  <2>1. Echoed(t, cs) = ConWrite([t EXCEPT !.q = one])
    BY <1>5, <1>6, <1>9
  <2> QED
    BY <1>7, <1>8, <1>9, <2>1 DEF EchoAll
<1>10. CASE Len(cs) = 2
  <2>1. Echoed(t, cs) = ConWrite([t EXCEPT !.q = two])
    BY <1>5, <1>6, <1>10
  <2>2. \A k : EchoAll(cs, k) = Count(cs[2], Count(cs[1], k))
    BY <1>10 DEF EchoAll
  <2>3. \A p, m, x, z :
          CHARS(t.q) + 2 < TTY_BUF_SIZE /\ Run(p, m, t.q, CHARS(t.q), x, z)
            => Run(p, m, two, CHARS(two), x, <<z[1], Heard(z[2]), EchoAll(cs, z[3])>>)
    BY <1>8, <1>10, <2>2
  <2> QED
    BY <1>7, <1>10, <2>1, <2>3
<1> QED
  BY <1>1, <1>9, <1>10

LEMMA EchoedKeeps ==
  ASSUME NEW t \in State, NEW cs \in Echoes, NEW r, r = Echoed(t, cs)
  PROVE  r \in State /\ r.read = t.read /\ r.sec = t.sec /\ r.data = t.data
<1>1. PICK q \in Ring : r = ConWrite([t EXCEPT !.q = q])
  BY EchoedIs
<1> DEFINE u == [t EXCEPT !.q = q]
<1>2. u \in State /\ u.read = t.read /\ u.sec = t.sec /\ u.data = t.data
  BY DEF State
<1> HIDE DEF u
<1>3. r = ConWrite(u)
  BY <1>1 DEF u
<1> QED
  BY <1>2, <1>3, ConWriteKeeps

\* The echo appears, behind all that was queued.
LEMMA EchoedShows ==
  ASSUME ~raced, NEW t \in State, NEW cs \in Echoes, NEW r, r = Echoed(t, cs),
         NEW p, NEW x, NEW z, CHARS(t.q) + 2 < TTY_BUF_SIZE, Shows(p, t, x),
         Run(p, msg[p], t.q, CHARS(t.q), x, z)
  PROVE  /\ CHARS(r.q) = 0 /\ Shows(p, r, <<z[1], Heard(z[2]), EchoAll(cs, z[3])>>)
         /\ \A o \in Proc : o # p => r.shown[o] = t.shown[o]
<1> DEFINE y == <<z[1], Heard(z[2]), EchoAll(cs, z[3])>>
<1>1. PICK q \in Ring :
        /\ r = ConWrite([t EXCEPT !.q = q])
        /\ Run(p, msg[p], q, CHARS(q), x, y)
  BY EchoedIs
<1>2. PICK u : u = [t EXCEPT !.q = q]
  OBVIOUS
<1>3. u \in State /\ u.q = q /\ u.shown = t.shown /\ u.last = t.last /\ u.row = t.row
  BY <1>2 DEF State
<1>4. Shows(p, u, x)
  BY <1>3 DEF Shows
<1> HIDE DEF y
<1>5. Run(p, msg[p], u.q, CHARS(u.q), x, y) /\ r = ConWrite(u)
  BY <1>1, <1>2, <1>3
<1>6. /\ CHARS(r.q) = 0 /\ Shows(p, r, y)
      /\ \A o \in Proc : o # p => r.shown[o] = u.shown[o]
  BY <1>3, <1>4, <1>5, ConWriteShows
<1> QED
  BY <1>3, <1>6 DEF y

-----------------------------------------------------------------------------
(* The line and its cells.                                                 *)

\* The cells of a line, with one character more.
Grow(k, c) == IF EndsLine(c) THEN 0 ELSE k + (IF IsControl(c) THEN 2 ELSE 1)

\* g counts them.
Counts(g, s) ==
  /\ g \in [0 .. Len(s) -> Nat] /\ g[0] = 0
  /\ \A i \in 1 .. Len(s) : g[i] = Grow(g[i - 1], s[i])

LEMMA CellsAre ==
  ASSUME NEW s \in Seq(LineChar)
  PROVE  \E g : Counts(g, s) /\ Cells(s) = g[Len(s)]
<1> DEFINE n == Len(s)
           P == Nat \X Nat
           F == [x \in P |-> <<x[1] + 1, IF x[1] + 1 \in 1 .. n THEN Grow(x[2], s[x[1] + 1]) ELSE 0>>]
           upto[i \in 0 .. n] == IF i = 0 \/ EndsLine(s[i]) THEN 0
                                 ELSE upto[i - 1] + (IF IsControl(s[i]) THEN 2 ELSE 1)
<1>1. n \in Nat /\ <<0, 0>> \in P
  OBVIOUS
<1>2. \A k \in Nat : \A c : Grow(k, c) \in Nat
  BY DEF Grow
<1>3. F \in [P -> P]
  BY <1>2
<1>4. PICK f : Chain(f, F, P, <<0, 0>>, n)
  <2> HIDE DEF P, F, n
  <2> QED
    BY <1>1, <1>3, ChainExists
<1>5. f \in [0 .. n -> P] /\ f[0] = <<0, 0>> /\ \A i \in 1 .. n : f[i] = F[f[i - 1]]
  BY <1>4 DEF Chain
<1>6. \A i \in 0 .. n : f[i][1] = i
  <2> DEFINE K == {i \in Nat : i <= n => f[i][1] = i}
  <2>1. 0 \in K
    BY <1>5
  <2>2. ASSUME NEW i \in 1 .. n, i - 1 \in K PROVE i \in K
    <3>1. i - 1 \in 0 .. n /\ i - 1 <= n /\ i \in Nat /\ (i - 1) + 1 = i
      BY <1>1
    <3>2. f[i - 1] \in P /\ f[i - 1][1] = i - 1 /\ f[i] = F[f[i - 1]]
      BY <1>5, <2>2, <3>1
    <3>3. \A x \in P : F[x][1] = x[1] + 1
      OBVIOUS
    <3> HIDE DEF P, F
    <3> QED
      BY <3>1, <3>2, <3>3
  <2> HIDE DEF K
  <2>3. \A i \in 0 .. n : i \in K
    BY <1>1, <2>1, <2>2, UpTo
  <2> QED
    BY <2>3 DEF K
<1> DEFINE g == [i \in 0 .. n |-> f[i][2]]
<1>7. g \in [0 .. n -> Nat] /\ g[0] = 0
  BY <1>1, <1>5
<1>8. ASSUME NEW i \in 1 .. n PROVE g[i] = Grow(g[i - 1], s[i])
  <2>1. i \in 0 .. n /\ i - 1 \in 0 .. n /\ (i - 1) + 1 = i
    BY <1>1
  <2>2. f[i - 1] \in P /\ f[i - 1][1] = i - 1 /\ f[i] = F[f[i - 1]]
    BY <1>5, <1>6, <2>1
  <2>3. \A x \in P : x[1] + 1 \in 1 .. n => F[x][2] = Grow(x[2], s[x[1] + 1])
    OBVIOUS
  <2>4. g[i] = f[i][2] /\ g[i - 1] = f[i - 1][2]
    BY <2>1
  <2> HIDE DEF P, F, g
  <2> QED
    BY <2>1, <2>2, <2>3, <2>4
<1>9. Counts(g, s)
  BY <1>7, <1>8 DEF Counts
<1> HIDE DEF g, P, F
<1>10. g = [i \in 0 .. n |-> IF i = 0 \/ EndsLine(s[i]) THEN 0
                             ELSE g[i - 1] + (IF IsControl(s[i]) THEN 2 ELSE 1)]
  <2>1. \A i \in 0 .. n : i # 0 => i \in 1 .. n
    BY <1>1
  <2>2. \A i \in 0 .. n : g[i] = IF i = 0 \/ EndsLine(s[i]) THEN 0
                                 ELSE g[i - 1] + (IF IsControl(s[i]) THEN 2 ELSE 1)
    BY <1>7, <1>8, <2>1 DEF Grow
  <2> QED
    BY <1>7, <2>2
<1>11. upto = [i \in 0 .. n |-> IF i = 0 \/ EndsLine(s[i]) THEN 0
                                ELSE upto[i - 1] + (IF IsControl(s[i]) THEN 2 ELSE 1)]
  BY <1>10
<1>12. Cells(s) = upto[n]
  BY DEF Cells
<1> HIDE DEF upto
<1>13. upto[n] = g[n]
  <2>1. upto[0] = g[0]
    BY <1>1, <1>7, <1>11
  <2>2. ASSUME NEW i \in 1 .. n, upto[i - 1] = g[i - 1] PROVE upto[i] = g[i]
    <3>1. i \in 0 .. n /\ i # 0
      BY <1>1
    <3> QED
      BY <1>10, <1>11, <2>2, <3>1
  <2> QED
    BY <1>1, <2>1, <2>2, ChainIs
<1> QED
  BY <1>9, <1>12, <1>13

LEMMA CellsGrow ==
  ASSUME NEW s \in Seq(LineChar), NEW c \in LineChar
  PROVE  Cells(s) \in Nat /\ Cells(Append(s, c)) = Grow(Cells(s), c)
<1> DEFINE u == Append(s, c)
           n == Len(s)
<1>1. /\ n \in Nat /\ u \in Seq(LineChar) /\ Len(u) = n + 1 /\ u[n + 1] = c
      /\ \A i \in 1 .. n : u[i] = s[i]
  OBVIOUS
<1>2. PICK g : Counts(g, s) /\ Cells(s) = g[n]
  BY CellsAre
<1> HIDE DEF u
<1>3. PICK h : Counts(h, u) /\ Cells(u) = h[n + 1]
  BY <1>1, CellsAre
<1> HIDE DEF n
<1>4. /\ n \in 0 .. n /\ (n + 1) - 1 = n /\ n + 1 \in 1 .. n + 1
      /\ \A i \in 1 .. n : i \in 1 .. n + 1
  BY <1>1
<1>5. /\ g \in [0 .. n -> Nat] /\ g[0] = 0 /\ \A i \in 1 .. n : g[i] = Grow(g[i - 1], s[i])
  BY <1>2 DEF Counts, n
<1>6. /\ h[0] = 0 /\ \A i \in 1 .. n + 1 : h[i] = Grow(h[i - 1], u[i])
  BY <1>1, <1>3 DEF Counts
<1>7. h[n] = g[n]
  <2>1. ASSUME NEW i \in 1 .. n, h[i - 1] = g[i - 1] PROVE h[i] = g[i]
    BY <1>1, <1>4, <1>5, <1>6, <2>1
  <2> QED
    BY <1>1, <1>5, <1>6, <2>1, ChainIs, ZenonT(60)
<1>8. h[n + 1] = Grow(h[n], c)
  BY <1>1, <1>4, <1>6
<1>9. Cells(s) \in Nat
  BY <1>2, <1>4, <1>5
<1> QED
  BY <1>2, <1>3, <1>7, <1>8, <1>9 DEF u

\* The echo of a character is its cells, unless it ends the line.
LEMMA EchoOfShows ==
  ASSUME NEW c \in LineChar
  PROVE  /\ EchoOf(c) \in Echoes
         /\ ~EndsLine(c) => \A k \in Nat : EchoAll(EchoOf(c), k) = Grow(k, c)
<1>1. CASE c = "a"
  <2>1. EchoOf(c) = <<"glyph">> /\ ~IsControl(c)
    BY <1>1 DEF EchoOf, IsControl
  <2>2. EchoOf(c) \in Echoes
    BY <2>1 DEF Echoes, EchoChar
  <2> QED
    BY <2>1, <2>2 DEF EchoAll, Count, Grow
<1>2. CASE c # "a"
  <2>1. PICK d \in {"glyph", "LF"}, e \in {"glyph", "CR", "ignored"} : EchoOf(c) = <<d, e>>
    BY <1>2 DEF EchoOf, LineChar
  <2>2. EchoOf(c) \in Echoes
    BY <2>1 DEF Echoes, EchoChar
  <2>3. Len(EchoOf(c)) # 1 /\ EchoOf(c)[1] = d /\ EchoOf(c)[2] = e /\ d # "DEL" /\ e # "DEL"
    BY <2>1
  <2>4. \A k \in Nat : EchoAll(EchoOf(c), k) = k + 2
    BY <2>3 DEF EchoAll, Count
  <2>5. ~EndsLine(c) => \A k \in Nat : Grow(k, c) = k + 2
    BY <1>2 DEF EndsLine, IsControl, LineChar, Grow
  <2> QED
    BY <2>2, <2>4, <2>5
<1> QED
  BY <1>1, <1>2

\* A line that is empty, or begins anew, has none.
LEMMA CellsRestart ==
  ASSUME NEW s \in Seq(LineChar), s = <<>> \/ EndsLine(Last(s))
  PROVE  Cells(s) = 0
<1>1. PICK g : Counts(g, s) /\ Cells(s) = g[Len(s)]
  BY CellsAre
<1>2. CASE s = <<>>
  BY <1>1, <1>2 DEF Counts
<1>3. CASE s # <<>> /\ EndsLine(Last(s))
  <2>1. Len(s) \in 1 .. Len(s) /\ s[Len(s)] = Last(s)
    BY <1>3, EmptySeq, LenProperties DEF Last
  <2>2. Cells(s) = Grow(g[Len(s) - 1], Last(s))
    BY <1>1, <2>1 DEF Counts
  <2> QED
    BY <1>3, <2>2 DEF Grow
<1> QED
  BY <1>2, <1>3

\* The last character is taken with its cells.
Rubout(c) == IF IsControl(c) THEN <<"DEL", "DEL">> ELSE <<"DEL">>

LEMMA RuboutShows ==
  ASSUME NEW s \in Seq(LineChar), s # <<>>, ~EndsLine(Last(s))
  PROVE  /\ Front(s) \in Seq(LineChar) /\ Len(Front(s)) = Len(s) - 1
         /\ Rubout(Last(s)) \in Echoes
         /\ EchoAll(Rubout(Last(s)), Cells(s)) = Cells(Front(s))
<1> DEFINE u == Front(s)
           c == Last(s)
<1>1. /\ u \in Seq(LineChar) /\ Len(u) = Len(s) - 1 /\ c \in LineChar /\ s = Append(u, c)
  <2> DEFINE n == Len(s)
  <2>1. n \in Nat /\ n > 0 /\ n - 1 \in Int /\ 1 \in Int /\ c \in LineChar
    BY EmptySeq, LenProperties DEF Last
  <2>2. \A i \in 1 .. n : s[i] \in LineChar
    BY ElementOfSeq
  <2>3. \A i \in 1 .. n - 1 : s[i] \in LineChar
    BY <2>1, <2>2
  <2>4. u = SubSeq(s, 1, n - 1)
    BY DEF Front
  <2> HIDE DEF u, n
  <2>5. /\ u \in Seq(LineChar) /\ Len(u) = (IF 1 <= n - 1 THEN (n - 1) - 1 + 1 ELSE 0)
        /\ \A i \in 1 .. (n - 1) - 1 + 1 : u[i] = s[1 + i - 1]
    BY <2>1, <2>3, <2>4, SubSeqProperties
  <2>6. Len(u) = n - 1 /\ \A i \in 1 .. n - 1 : u[i] = s[i]
    BY <2>1, <2>5
  <2>7. c = s[n]
    BY DEF Last, n
  <2> HIDE DEF c
  <2>8. /\ Append(u, c) \in Seq(LineChar) /\ Len(Append(u, c)) = n
        /\ \A i \in 1 .. n : Append(u, c)[i] = s[i]
    BY <2>1, <2>5, <2>6, <2>7
  <2>9. s = Append(u, c)
    BY <2>1, <2>8, SeqEqual DEF n
  <2> QED
    BY <2>1, <2>5, <2>6, <2>9 DEF n
<1>2. ~EndsLine(c)
  OBVIOUS
<1> HIDE DEF u, c
<1>3. Cells(u) \in Nat /\ Cells(s) = Grow(Cells(u), c)
  BY <1>1, CellsGrow
<1>4. Rubout(c) \in Echoes /\ EchoAll(Rubout(c), Cells(s)) = Cells(u)
  <2>1. CASE IsControl(c)
    <3>1. Rubout(c) = <<"DEL", "DEL">> /\ Cells(s) = Cells(u) + 2
      BY <1>2, <1>3, <2>1 DEF Rubout, Grow
    <3>2. Rubout(c) \in Echoes
      BY <3>1 DEF Echoes, EchoChar
    <3> QED
      BY <1>3, <3>1, <3>2 DEF EchoAll, Count
  <2>2. CASE ~IsControl(c)
    <3>1. Rubout(c) = <<"DEL">> /\ Cells(s) = Cells(u) + 1
      BY <1>2, <1>3, <2>2 DEF Rubout, Grow
    <3>2. Rubout(c) \in Echoes
      BY <3>1 DEF Echoes, EchoChar
    <3> QED
      BY <1>3, <3>1, <3>2 DEF EchoAll, Count
  <2> QED
    BY <2>1, <2>2
<1> QED
  BY <1>1, <1>4 DEF u, c

-----------------------------------------------------------------------------
(* copy_to_cooked().                                                       *)

\* Where p has brought the mark of its characters, and what the others see, stay
\* as they were, and no line feed comes up that had a carriage return before it; and
\* the echo, when all that is queued has appeared, is the line.
Fine(p, k, cr, t0) ==
  {t \in State :
     /\ CHARS(t.q) + 2 < TTY_BUF_SIZE
     /\ \E l, x : /\ (cr => l # "other") /\ Shows(p, t, x)
                  /\ Run(p, msg[p], t.q, CHARS(t.q), x, <<k, l, Cells(t.sec)>>)
     /\ CHARS(t.q) = 0 \/ t.q = t0.q
     /\ \A o \in Proc : o # p => t.shown[o] = t0.shown[o]}

LEMMA RingCount ==
  ASSUME NEW t \in State
  PROVE  /\ CHARS(t.q) \in Nat /\ Len(t.read) \in Nat
         /\ t.sec \in Seq(LineChar) /\ Cells(t.sec) \in Nat
<1>1. CHARS(t.q) \in Index
  BY CountIs DEF State, Ring
<1>2. t.sec \in Seq(LineChar) /\ "a" \in LineChar /\ Len(t.read) \in Nat
  BY DEF State, LineChar
<1> QED
  BY <1>1, <1>2, CellsGrow DEF Index

LEMMA FineSame ==
  ASSUME NEW p, NEW k, NEW cr, NEW t0, NEW t \in Fine(p, k, cr, t0), NEW r \in State,
         r.q = t.q, r.sec = t.sec, r.shown = t.shown, r.last = t.last, r.row = t.row
  PROVE  r \in Fine(p, k, cr, t0)
<1>1. \A x : Shows(p, t, x) => Shows(p, r, x)
  BY DEF Shows
<1> QED
  BY <1>1 DEF Fine

\* The line has changed and the echo with it.
LEMMA FineEchoed ==
  ASSUME ~raced, NEW p, NEW k, NEW cr, NEW t0, NEW t \in Fine(p, k, cr, t0),
         NEW cs \in Echoes, NEW e, e = Echoed(t, cs),
         NEW r \in State, r.q = e.q, r.shown = e.shown, r.last = e.last,
         Fits(e.row, EchoAll(cs, Cells(t.sec))) => Fits(r.row, Cells(r.sec))
  PROVE  r \in Fine(p, k, cr, t0)
<1>1. /\ t \in State /\ CHARS(t.q) + 2 < TTY_BUF_SIZE
      /\ \A o \in Proc : o # p => t.shown[o] = t0.shown[o]
  BY DEF Fine
<1>2. PICK l, x : /\ (cr => l # "other") /\ Shows(p, t, x)
                  /\ Run(p, msg[p], t.q, CHARS(t.q), x, <<k, l, Cells(t.sec)>>)
  BY DEF Fine
<1> DEFINE z == <<k, l, Cells(t.sec)>>
           y == <<k, Heard(l), Cells(r.sec)>>
<1>3. CHARS(t.q) \in Nat /\ TTY_BUF_SIZE \in Nat
  BY <1>1, RingCount, Sizes
<1>4. z[1] = k /\ z[2] = l /\ z[3] = Cells(t.sec)
  OBVIOUS
<1>5. k \in Nat /\ l \in Lasts
  <2>1. z \in Mark
    <3> HIDE DEF z
    <3> QED
      BY <1>2, <1>3, RunMarks DEF z
  <2> QED
    BY <1>4, <2>1 DEF Mark
<1>6. Heard(l) \in Lasts /\ (cr => Heard(l) # "other")
  BY <1>2, <1>5 DEF Heard, Lasts
<1>7. y \in Mark
  BY <1>5, <1>6, RingCount DEF Mark
<1>8. /\ CHARS(e.q) = 0 /\ Shows(p, e, <<k, Heard(l), EchoAll(cs, Cells(t.sec))>>)
      /\ \A o \in Proc : o # p => e.shown[o] = t.shown[o]
  <2> HIDE DEF z
  <2>1. Run(p, msg[p], t.q, CHARS(t.q), x, z)
    BY <1>2 DEF z
  <2>2. /\ CHARS(e.q) = 0 /\ Shows(p, e, <<z[1], Heard(z[2]), EchoAll(cs, z[3])>>)
        /\ \A o \in Proc : o # p => e.shown[o] = t.shown[o]
    BY <1>1, <1>2, <2>1, EchoedShows, SMTT(30)
  <2> QED
    BY <1>4, <2>2
<1>9. Shows(p, r, y)
  <2>1. Fits(r.row, Cells(r.sec))
    BY <1>8 DEF Shows
  <2> QED
    BY <1>7, <1>8, <2>1 DEF Shows
<1>10. Run(p, msg[p], r.q, 0, y, y)
  <2> HIDE DEF y
  <2> QED
    BY <1>7, RunEmpty
<1>11. CHARS(r.q) = 0 /\ 0 + 2 < TTY_BUF_SIZE
  BY <1>1, <1>3, <1>8
<1> QED
  BY <1>1, <1>6, <1>8, <1>9, <1>10, <1>11 DEF Fine

LEMMA EraseCharKeeps ==
  ASSUME NEW t \in State, Erasable(t), NEW r, r = EraseChar(t)
  PROVE  /\ r \in State /\ r.read = t.read
         /\ ~raced => \A p, k, cr, t0 : t \in Fine(p, k, cr, t0) => r \in Fine(p, k, cr, t0)
<1> DEFINE cs == Rubout(Last(t.sec))
           s == Front(t.sec)
<1>1. t.sec \in Seq(LineChar) /\ Len(t.sec) < TTY_BUF_SIZE /\ t.sec # <<>> /\ ~EndsLine(Last(t.sec))
  BY DEF State, Erasable
<1>2. /\ s \in Seq(LineChar) /\ Len(s) = Len(t.sec) - 1 /\ cs \in Echoes
      /\ EchoAll(cs, Cells(t.sec)) = Cells(s)
  BY <1>1, RuboutShows
<1>3. PICK e : e = Echoed(t, cs)
  OBVIOUS
<1>4. e \in State /\ e.read = t.read /\ e.sec = t.sec
  BY <1>2, <1>3, EchoedKeeps
<1>5. PICK u : u = [e EXCEPT !.sec = Front(@)]
  OBVIOUS
<1>6. r = IF Erasable(u) \/ u.row.whole THEN u ELSE [u EXCEPT !.row = Anew(@)]
  BY <1>3, <1>5 DEF EraseChar, Rubout
<1> HIDE DEF cs
<1>7. u = [e EXCEPT !.sec = s]
  BY <1>4, <1>5 DEF State
<1> HIDE DEF s
<1>8. s \in Seq(LineChar) /\ Len(s) < TTY_BUF_SIZE
  BY <1>1, <1>2, Sizes
<1>9. /\ u \in State /\ u.read = e.read /\ u.sec = s /\ u.row \in Row
      /\ u.q = e.q /\ u.shown = e.shown /\ u.last = e.last /\ u.row = e.row
  BY <1>4, <1>7, <1>8 DEF State
<1>10. Fits(e.row, EchoAll(cs, Cells(t.sec))) => Fits(u.row, Cells(u.sec))
  BY <1>2, <1>9
<1>11. CASE r = u
  <2>1. ASSUME ~raced, NEW p, NEW k, NEW cr, NEW t0, t \in Fine(p, k, cr, t0)
        PROVE  u \in Fine(p, k, cr, t0)
    BY <1>2, <1>3, <1>9, <1>10, <2>1, FineEchoed
  <2> QED
    BY <1>4, <1>9, <1>11, <2>1
<1>12. CASE ~Erasable(u) /\ r = [u EXCEPT !.row = Anew(@)]
  <2>1. PICK a : a = Anew(u.row)
    OBVIOUS
  <2>2. a \in Row /\ Fits(a, 0)
    BY <1>9, <2>1, AnewFits DEF Fits
  <2>3. r = [u EXCEPT !.row = a]
    BY <1>12, <2>1
  <2>4. /\ r \in State /\ r.read = u.read /\ r.sec = u.sec /\ r.row = a
        /\ r.q = u.q /\ r.shown = u.shown /\ r.last = u.last
    BY <1>9, <2>2, <2>3 DEF State
  <2>5. Cells(s) = 0
    BY <1>8, <1>9, <1>12, CellsRestart DEF Erasable
  <2>6. Fits(r.row, Cells(r.sec))
    BY <1>9, <2>2, <2>4, <2>5
  <2>7. ASSUME ~raced, NEW p, NEW k, NEW cr, NEW t0, t \in Fine(p, k, cr, t0)
        PROVE  r \in Fine(p, k, cr, t0)
    BY <1>2, <1>3, <1>9, <2>4, <2>6, <2>7, FineEchoed
  <2> QED
    BY <1>4, <1>9, <2>4, <2>7
<1> QED
  BY <1>6, <1>11, <1>12

LEMMA KillLineKeeps ==
  ASSUME NEW t \in State, NEW r, r = KillLine(t)
  PROVE  /\ r \in State /\ r.read = t.read
         /\ ~raced => \A p, k, cr, t0 : t \in Fine(p, k, cr, t0) => r \in Fine(p, k, cr, t0)
<1> DEFINE n == Len(t.sec)
           F == [u \in State |-> IF Erasable(u) THEN EraseChar(u) ELSE u]
           killed[i \in 0 .. n] ==
             IF i = 0 THEN t
             ELSE IF Erasable(killed[i - 1]) THEN EraseChar(killed[i - 1]) ELSE killed[i - 1]
<1>1. n \in Nat
  BY DEF State
<1>2. F \in [State -> State]
  BY EraseCharKeeps
<1>3. \A u \in State : F[u] = IF Erasable(u) THEN EraseChar(u) ELSE u
  OBVIOUS
<1> HIDE DEF n, F
<1>4. PICK f : Chain(f, F, State, t, n)
  BY <1>1, <1>2, ChainExists
<1>5. f = [i \in 0 .. n |->
             IF i = 0 THEN t
             ELSE IF Erasable(f[i - 1]) THEN EraseChar(f[i - 1]) ELSE f[i - 1]]
  <2>1. f = [i \in 0 .. n |-> f[i]]
    BY <1>4 DEF Chain
  <2>2. ASSUME NEW i \in 0 .. n
        PROVE  f[i] = IF i = 0 THEN t
                      ELSE IF Erasable(f[i - 1]) THEN EraseChar(f[i - 1]) ELSE f[i - 1]
    <3>1. i # 0 => i \in 1 .. n /\ i - 1 \in 0 .. n
      BY <1>1
    <3>2. i # 0 => f[i - 1] \in State /\ f[i] = F[f[i - 1]]
      BY <1>4, <3>1 DEF Chain
    <3>3. f[0] = t
      BY <1>4 DEF Chain
    <3> QED
      BY <1>3, <3>2, <3>3
  <2> QED
    BY <2>1, <2>2
<1>6. killed = [i \in 0 .. n |->
             IF i = 0 THEN t
             ELSE IF Erasable(killed[i - 1]) THEN EraseChar(killed[i - 1]) ELSE killed[i - 1]]
  BY <1>5
<1>7. r = killed[n]
  BY DEF KillLine, n
<1> HIDE DEF killed
<1>8. killed[n] = f[n]
  <2>1. killed[0] = f[0]
    BY <1>1, <1>5, <1>6
  <2>2. ASSUME NEW i \in 1 .. n, killed[i - 1] = f[i - 1] PROVE killed[i] = f[i]
    <3>1. i \in 0 .. n /\ i # 0
      OBVIOUS
    <3> QED
      BY <1>5, <1>6, <2>2, <3>1
  <2> QED
    BY <1>1, <2>1, <2>2, ChainIs
<1>9. r = f[n]
  BY <1>7, <1>8
<1>10. r \in State /\ r.read = t.read
  <2> DEFINE G == {u \in State : u.read = t.read}
  <2>1. \A u \in State : u \in G => F[u] \in G
    BY <1>3, EraseCharKeeps
  <2>2. t \in G
    OBVIOUS
  <2> HIDE DEF G
  <2>3. f[n] \in G
    BY <1>1, <1>4, <2>1, <2>2, ChainKeeps
  <2> QED
    BY <1>9, <2>3 DEF G
<1>11. ASSUME ~raced, NEW p, NEW k, NEW cr, NEW t0, t \in Fine(p, k, cr, t0)
       PROVE  r \in Fine(p, k, cr, t0)
  <2> DEFINE G == Fine(p, k, cr, t0)
  <2>1. \A u \in State : u \in G => F[u] \in G
    <3>1. TAKE u \in State
    <3>2. HAVE u \in G
    <3>3. CASE Erasable(u)
      <4>1. PICK v : v = EraseChar(u)
        OBVIOUS
      <4>2. v \in G
        BY <1>11, <3>2, <3>3, <4>1, EraseCharKeeps
      <4> QED
        BY <1>3, <3>3, <4>1, <4>2
    <3> QED
      BY <1>3, <3>2, <3>3
  <2> HIDE DEF G
  <2>2. t \in G
    BY <1>11 DEF G
  <2>3. f[n] \in G
    BY <1>1, <1>4, <2>1, <2>2, ChainKeeps
  <2> QED
    BY <1>9, <2>3 DEF G
<1> QED
  BY <1>10, <1>11

LEMMA StoreKeeps ==
  ASSUME NEW t \in State, Len(t.sec) # TTY_BUF_SIZE - 1, NEW c \in LineChar, NEW r, r = Store(t, c)
  PROVE  /\ r \in State /\ r.read = t.read
         /\ ~raced => \A p, k, cr, t0 : t \in Fine(p, k, cr, t0) => r \in Fine(p, k, cr, t0)
<1> DEFINE s == Append(t.sec, c)
           d == IF EndsLine(c) THEN t.data + 1 ELSE t.data
<1>1. t.sec \in Seq(LineChar) /\ Len(t.sec) < TTY_BUF_SIZE /\ t.data \in Nat /\ d \in Nat
  BY DEF State
<1>2. /\ EchoOf(c) \in Echoes
      /\ ~EndsLine(c) => \A k \in Nat : EchoAll(EchoOf(c), k) = Grow(k, c)
  BY EchoOfShows
<1>3. s \in Seq(LineChar) /\ Len(s) < TTY_BUF_SIZE
  <2>1. s \in Seq(LineChar) /\ Len(s) = Len(t.sec) + 1 /\ Len(t.sec) \in Nat
    BY <1>1
  <2> QED
    BY <1>1, <2>1, Sizes
<1>4. Cells(t.sec) \in Nat /\ Cells(s) = Grow(Cells(t.sec), c)
  BY <1>1, CellsGrow
<1> HIDE DEF d
<1>5. PICK u : u = [t EXCEPT !.data = d]
  OBVIOUS
<1>6. /\ u \in State /\ u.read = t.read /\ u.sec = t.sec /\ u.q = t.q
      /\ u.shown = t.shown /\ u.last = t.last /\ u.row = t.row
  BY <1>1, <1>5 DEF State
<1>7. PICK e : e = Echoed(u, EchoOf(c))
  OBVIOUS
<1>8. e \in State /\ e.read = u.read /\ e.sec = u.sec
  BY <1>2, <1>6, <1>7, EchoedKeeps
<1> DEFINE a == IF EndsLine(c) THEN Anew(e.row) ELSE e.row
<1>9. r = [e EXCEPT !.sec = s, !.row = a]
  <2>1. [t EXCEPT !.data = IF EndsLine(c) THEN @ + 1 ELSE @] = u
    BY <1>5 DEF State, d
  <2>2. r = [e EXCEPT !.sec = Append(e.sec, c), !.row = a]
    BY <1>7, <1>8, <2>1 DEF Store, State
  <2> QED
    BY <1>6, <1>8, <2>2 DEF State
<1>10. /\ a \in Row /\ (EndsLine(c) => Fits(a, 0)) /\ (~EndsLine(c) => a = e.row)
  <2>1. e.row \in Row
    BY <1>8 DEF State
  <2> QED
    BY <2>1, AnewFits DEF Fits
<1> HIDE DEF s, a
<1>11. /\ r \in State /\ r.read = e.read /\ r.sec = s /\ r.row = a
       /\ r.q = e.q /\ r.shown = e.shown /\ r.last = e.last
  BY <1>3, <1>8, <1>9, <1>10 DEF State
<1>12. Fits(e.row, EchoAll(EchoOf(c), Cells(u.sec))) => Fits(r.row, Cells(r.sec))
  <2>1. CASE EndsLine(c)
    BY <1>4, <1>10, <1>11, <2>1 DEF Grow
  <2>2. CASE ~EndsLine(c)
    BY <1>2, <1>4, <1>6, <1>10, <1>11, <2>2
  <2> QED
    BY <2>1, <2>2
<1>13. ASSUME ~raced, NEW p, NEW k, NEW cr, NEW t0, t \in Fine(p, k, cr, t0)
       PROVE  r \in Fine(p, k, cr, t0)
  <2>1. u \in Fine(p, k, cr, t0)
    BY <1>6, <1>13, FineSame
  <2> QED
    BY <1>2, <1>7, <1>11, <1>12, <1>13, <2>1, FineEchoed
<1> QED
  BY <1>6, <1>8, <1>11, <1>13

\* One turn takes a character, and all stays fine.
LEMMA CookOneKeeps ==
  ASSUME NEW t \in State, t.read # <<>>, Len(t.sec) # TTY_BUF_SIZE - 1,
         NEW r, r = CookOne(t)
  PROVE  /\ r \in State /\ Len(r.read) = Len(t.read) - 1
         /\ ~raced => \A p, k, cr, t0 : t \in Fine(p, k, cr, t0) => r \in Fine(p, k, cr, t0)
<1> DEFINE c == IF Head(t.read) = "CR" THEN "LF" ELSE Head(t.read)
<1>1. t.read \in Seq(InChar) /\ Len(t.read) < TTY_BUF_SIZE
  BY DEF State
<1>2. /\ Head(t.read) \in InChar /\ Tail(t.read) \in Seq(InChar)
      /\ Len(Tail(t.read)) = Len(t.read) - 1 /\ Len(t.read) \in Nat
  BY <1>1, HeadTailProperties, LenProperties
<1>3. PICK u : u = [t EXCEPT !.read = Tail(@)]
  OBVIOUS
<1>4. /\ u \in State /\ Len(u.read) = Len(t.read) - 1 /\ u.sec = t.sec /\ u.q = t.q
      /\ u.shown = t.shown /\ u.last = t.last /\ u.row = t.row
  <2>1. Len(Tail(t.read)) < TTY_BUF_SIZE
    BY <1>1, <1>2, Sizes
  <2> QED
    BY <1>2, <1>3, <2>1 DEF State
<1>5. ASSUME NEW p, NEW k, NEW cr, NEW t0, t \in Fine(p, k, cr, t0)
      PROVE  u \in Fine(p, k, cr, t0)
  BY <1>4, <1>5, FineSame
<1>6. r = CASE c = "^U"  -> KillLine(u)
            [] c = "DEL" -> IF Erasable(u) THEN EraseChar(u) ELSE u
            [] c = "^S"  -> u
            [] OTHER     -> Store(u, c)
  BY <1>3 DEF CookOne
<1>7. c \in {"a", "^A", "M-1", "M-M", "LF", "^D", "DEL", "^U", "^S"}
  BY <1>2 DEF InChar
<1> HIDE DEF c
<1>8. CASE c = "^U"
  <2>1. r = KillLine(u)
    BY <1>6, <1>8
  <2> QED
    BY <1>4, <1>5, <2>1, KillLineKeeps
<1>9. CASE c = "DEL" /\ Erasable(u)
  <2>1. r = EraseChar(u)
    BY <1>6, <1>9
  <2> QED
    BY <1>4, <1>5, <1>9, <2>1, EraseCharKeeps
<1>10. CASE c = "^S" \/ (c = "DEL" /\ ~Erasable(u))
  <2>1. r = u
    BY <1>6, <1>10
  <2> QED
    BY <1>4, <1>5, <2>1
<1>11. CASE c \notin {"DEL", "^U", "^S"}
  <2>1. r = Store(u, c) /\ c \in LineChar
    BY <1>6, <1>7, <1>11 DEF LineChar
  <2> QED
    BY <1>4, <1>5, <2>1, StoreKeeps
<1> QED
  BY <1>7, <1>8, <1>9, <1>10, <1>11

LEMMA CopyToCookedKeeps ==
  ASSUME NEW t \in State, NEW r, r = CopyToCooked(t)
  PROVE  /\ r \in State
         /\ ~raced => \A p, k, cr, t0 : t \in Fine(p, k, cr, t0) => r \in Fine(p, k, cr, t0)
<1> DEFINE n == Len(t.read)
           Turn(u) == IF Len(u.sec) = TTY_BUF_SIZE - 1 THEN u ELSE CookOne(u)
           F == [u \in State |-> IF u.read = <<>> THEN u ELSE Turn(u)]
           cooked[i \in 0 .. n] ==
             IF i = 0 THEN t
             ELSE LET u == cooked[i - 1]
                  IN  IF Len(u.sec) = TTY_BUF_SIZE - 1 THEN u ELSE CookOne(u)
<1>1. n \in Nat
  BY DEF State
<1>2. ASSUME NEW u \in State
      PROVE  /\ F[u] \in State /\ Len(F[u].read) >= Len(u.read) - 1
             /\ u.read # <<>> => F[u] = Turn(u)
             /\ ~raced => \A p, k, cr, t0 : u \in Fine(p, k, cr, t0) => F[u] \in Fine(p, k, cr, t0)
  <2>1. F[u] = IF u.read = <<>> THEN u ELSE Turn(u)
    OBVIOUS
  <2>2. Len(u.read) \in Nat
    BY DEF State
  <2>3. CASE u.read = <<>> \/ Len(u.sec) = TTY_BUF_SIZE - 1
    <3>1. F[u] = u
      BY <2>3
    <3> HIDE DEF F
    <3> QED
      BY <2>1, <2>2, <2>3, <3>1
  <2>4. CASE u.read # <<>> /\ Len(u.sec) # TTY_BUF_SIZE - 1
    <3>1. F[u] = CookOne(u)
      BY <2>4
    <3> HIDE DEF F
    <3>2. PICK v : v = CookOne(u)
      OBVIOUS
    <3>3. /\ v \in State /\ Len(v.read) = Len(u.read) - 1
          /\ ~raced => \A p, k, cr, t0 : u \in Fine(p, k, cr, t0) => v \in Fine(p, k, cr, t0)
      BY <2>4, <3>2, CookOneKeeps
    <3>4. F[u] = v
      BY <3>1, <3>2
    <3> QED
      BY <2>1, <2>2, <3>3, <3>4
  <2> QED
    BY <2>3, <2>4
<1>3. F \in [State -> State]
  <2>1. F = [u \in State |-> F[u]]
    OBVIOUS
  <2> HIDE DEF F
  <2> QED
    BY <1>2, <2>1
<1> HIDE DEF n, F
<1>4. PICK f : Chain(f, F, State, t, n)
  BY <1>1, <1>3, ChainExists
<1>5. \A i \in 0 .. n : f[i] \in State /\ Len(f[i].read) >= n - i
  <2> DEFINE K == {i \in Nat : i <= n => Len(f[i].read) >= n - i}
  <2>1. 0 \in K
    <3>1. f[0] = t /\ n - 0 = n /\ n >= n
      BY <1>1, <1>4 DEF Chain
    <3> QED
      BY <3>1 DEF n
  <2>2. ASSUME NEW i \in 1 .. n, i - 1 \in K PROVE i \in K
    <3>1. i - 1 \in 0 .. n /\ i - 1 <= n
      BY <1>1
    <3>2. f[i - 1] \in State /\ f[i] = F[f[i - 1]]
      BY <1>4, <3>1 DEF Chain
    <3>3. Len(f[i - 1].read) >= n - (i - 1) /\ Len(f[i].read) >= Len(f[i - 1].read) - 1
      BY <1>2, <2>2, <3>1, <3>2
    <3>4. Len(f[i - 1].read) \in Nat /\ Len(f[i].read) \in Nat
      <4>1. f[i] \in State
        BY <1>2, <3>2
      <4> QED
        BY <3>2, <4>1, RingCount
    <3>5. \A x, y \in Nat : x >= n - (i - 1) /\ y >= x - 1 => y >= n - i
      BY <1>1
    <3> QED
      BY <3>3, <3>4, <3>5
  <2> HIDE DEF K
  <2>3. \A i \in 0 .. n : i \in K
    BY <1>1, <2>1, <2>2, UpTo
  <2> QED
    BY <1>1, <1>4, <2>3 DEF K, Chain
<1>6. f = [i \in 0 .. n |-> IF i = 0 THEN t ELSE Turn(f[i - 1])]
  <2>1. f = [i \in 0 .. n |-> f[i]]
    BY <1>4 DEF Chain
  <2>2. ASSUME NEW i \in 0 .. n
        PROVE  f[i] = IF i = 0 THEN t ELSE Turn(f[i - 1])
    <3>1. f[0] = t
      BY <1>4 DEF Chain
    <3>2. ASSUME i # 0 PROVE f[i] = Turn(f[i - 1])
      <4>1. i \in 1 .. n /\ i - 1 \in 0 .. n /\ n - (i - 1) > 0
        BY <1>1, <3>2
      <4>2. f[i - 1] \in State /\ Len(f[i - 1].read) >= n - (i - 1) /\ f[i] = F[f[i - 1]]
        BY <1>4, <1>5, <4>1 DEF Chain
      <4>3. f[i - 1].read # <<>>
        <5>1. Len(f[i - 1].read) \in Nat
          BY <4>2, RingCount
        <5>2. Len(f[i - 1].read) # 0
          BY <1>1, <4>1, <4>2, <5>1, SMTT(60)
        <5> QED
          BY <5>2, EmptySeq
      <4> HIDE DEF Turn
      <4> QED
        BY <1>2, <4>2, <4>3
    <3> QED
      BY <3>1, <3>2
  <2> HIDE DEF Turn
  <2> QED
    BY <2>1, <2>2
<1>7. cooked = [i \in 0 .. n |-> IF i = 0 THEN t ELSE Turn(cooked[i - 1])]
  BY <1>6, Zenon
<1>8. r = cooked[n]
  BY DEF CopyToCooked, n
<1> HIDE DEF cooked, Turn
<1>9. cooked[n] = f[n]
  <2>1. cooked[0] = f[0]
    BY <1>1, <1>6, <1>7
  <2>2. ASSUME NEW i \in 1 .. n, cooked[i - 1] = f[i - 1] PROVE cooked[i] = f[i]
    <3>1. i \in 0 .. n /\ i # 0
      OBVIOUS
    <3> QED
      BY <1>6, <1>7, <2>2, <3>1
  <2> QED
    BY <1>1, <2>1, <2>2, ChainIs
<1>10. r = f[n] /\ r \in State
  BY <1>1, <1>5, <1>8, <1>9
<1>11. ASSUME ~raced, NEW p, NEW k, NEW cr, NEW t0, t \in Fine(p, k, cr, t0)
       PROVE  r \in Fine(p, k, cr, t0)
  <2> DEFINE G == Fine(p, k, cr, t0)
  <2>1. \A u \in State : u \in G => F[u] \in G
    BY <1>2, <1>11
  <2> HIDE DEF G
  <2>2. t \in G
    BY <1>11 DEF G
  <2>3. f[n] \in G
    BY <1>1, <1>4, <2>1, <2>2, ChainKeeps
  <2> QED
    BY <1>10, <2>3 DEF G
<1> QED
  BY <1>10, <1>11

-----------------------------------------------------------------------------
(* The invariant.                                                          *)

\* A process that writes has no echo in the queue: the interrupt empties it.
NoEcho(q, n) == \A k \in 0 .. n - 1 : q.buf[Pos(q.tail, k)].from # "echo"

LEMMA NoEchoRun ==
  ASSUME NEW p, NEW m, NEW q, NEW n \in Nat, NEW x, NEW z, Run(p, m, q, n, x, z), NoEcho(q, n)
  PROVE  z[3] = x[3]
<1>1. PICK f \in [0 .. n -> Mark] :
        /\ f[0] = x /\ f[n] = z
        /\ \A k \in 0 .. n - 1 : Moves(p, m, q.buf[Pos(q.tail, k)], f[k], f[k + 1])
  BY DEF Run
<1> DEFINE K == {i \in Nat : i <= n => f[i][3] = x[3]}
<1>2. 0 \in K
  BY <1>1
<1>3. ASSUME NEW i \in 1 .. n, i - 1 \in K PROVE i \in K
  <2>1. i - 1 \in 0 .. n - 1 /\ i - 1 <= n /\ (i - 1) + 1 = i /\ i \in Nat
    OBVIOUS
  <2>2. PICK c : c = q.buf[Pos(q.tail, i - 1)]
    OBVIOUS
  <2>3. c.from # "echo" /\ Moves(p, m, c, f[i - 1], f[i])
    BY <1>1, <2>1, <2>2 DEF NoEcho
  <2>4. f[i][3] = f[i - 1][3]
    BY <2>3 DEF Moves
  <2> QED
    BY <1>3, <2>1, <2>4
<1> HIDE DEF K
<1>4. n \in K
  BY <1>2, <1>3, UpTo
<1> QED
  BY <1>1, <1>4 DEF K

LEMMA NoEchoTake ==
  ASSUME NEW q, q.tail \in Index, NEW n \in Index, n > 0, NoEcho(q, n),
         NEW r, r.tail = INC(q.tail), \A i \in Index : i # q.tail => r.buf[i] = q.buf[i]
  PROVE  q.buf[q.tail].from # "echo" /\ NoEcho(r, n - 1)
<1>1. n \in Nat /\ n < TTY_BUF_SIZE /\ TTY_BUF_SIZE \in Nat /\ 0 \in Index
  BY Sizes DEF Index
<1>2. Pos(q.tail, 0) = q.tail
  BY Around
<1>3. q.buf[q.tail].from # "echo"
  BY <1>1, <1>2 DEF NoEcho
<1>4. ASSUME NEW k \in 0 .. (n - 1) - 1 PROVE r.buf[Pos(r.tail, k)].from # "echo"
  <2>1. k \in Index /\ k + 1 \in Index /\ k + 1 # 0 /\ k + 1 \in 0 .. n - 1
    BY <1>1 DEF Index
  <2>2. Pos(r.tail, k) = Pos(q.tail, k + 1) /\ Pos(q.tail, k + 1) \in Index
    BY <2>1, PosIs, ZenonT(60)
  <2>3. Pos(q.tail, k + 1) # q.tail
    <3>1. \A j \in Index : Pos(q.tail, j) = Pos(q.tail, k + 1) => j = k + 1
      BY <2>1, PosIs
    <3> QED
      BY <1>1, <1>2, <2>1, <3>1
  <2> QED
    BY <2>1, <2>2, <2>3 DEF NoEcho
<1> QED
  BY <1>3, <1>4 DEF NoEcho

LEMMA NoEchoPut ==
  ASSUME NEW q, q.tail \in Index, NEW n \in Index, n + 1 \in Index, NoEcho(q, n),
         NEW r, r.tail = q.tail,
         \A i \in Index : i # Pos(q.tail, n) => r.buf[i] = q.buf[i],
         r.buf[Pos(q.tail, n)].from # "echo"
  PROVE  NoEcho(r, n + 1)
<1>1. n \in Nat /\ n < TTY_BUF_SIZE /\ TTY_BUF_SIZE \in Nat
  BY Sizes DEF Index
<1>2. ASSUME NEW k \in 0 .. (n + 1) - 1 PROVE r.buf[Pos(r.tail, k)].from # "echo"
  <2>1. CASE k = n
    BY <2>1
  <2>2. CASE k # n
    <3>1. k \in 0 .. n - 1 /\ k \in Index
      BY <1>1, <2>2 DEF Index
    <3>2. Pos(q.tail, k) \in Index /\ Pos(q.tail, k) # Pos(q.tail, n)
      BY <2>2, <3>1, PosIs
    <3> QED
      BY <3>1, <3>2 DEF NoEcho
  <2> QED
    BY <2>1, <2>2
<1> QED
  BY <1>2 DEF NoEcho

\* From what p sees, x, the queue brings the mark to the k-th character; cr_flag
\* says that a carriage return is the last thing written.
Flow(p, m, q, x, k, cr) ==
  \E l \in Lasts :
    (cr => l # "other") /\ Run(p, m, q, CHARS(q), x, <<k, l, x[3]>>)

LEMMA FlowIdle ==
  ASSUME NEW p, NEW m, NEW q, CHARS(q) = 0, NEW x, NEW k, NEW cr
  PROVE  Flow(p, m, q, x, k, cr) <=> x \in Mark /\ x[1] = k /\ (cr => x[2] # "other")
<1>1. ASSUME Flow(p, m, q, x, k, cr) PROVE x \in Mark /\ x[1] = k /\ (cr => x[2] # "other")
  <2>1. PICK l : (cr => l # "other") /\ Run(p, m, q, 0, x, <<k, l, x[3]>>)
    BY <1>1 DEF Flow
  <2>2. x = <<k, l, x[3]>> /\ x \in Mark
    BY <2>1, RunEmpty
  <2> QED
    BY <2>1, <2>2
<1>2. ASSUME x \in Mark, x[1] = k, cr => x[2] # "other" PROVE Flow(p, m, q, x, k, cr)
  <2>1. x = <<k, x[2], x[3]>> /\ x[2] \in Lasts
    BY <1>2 DEF Mark
  <2>2. Run(p, m, q, 0, x, <<k, x[2], x[3]>>)
    BY <1>2, <2>1, RunEmpty
  <2> QED
    BY <1>2, <2>1, <2>2 DEF Flow
<1> QED
  BY <1>1, <1>2

InKernel == {"wait", "fill", "load_head", "store_head", "get", "load_tail", "store_tail"}
Filling  == {"load_head", "store_head"}
Taking   == {"load_tail", "store_tail"}

Types ==
  /\ read_q \in Seq(InChar) /\ Len(read_q) < TTY_BUF_SIZE
  /\ secondary \in Seq(LineChar) /\ Len(secondary) < TTY_BUF_SIZE
  /\ data \in Nat
  /\ write_q \in Ring
  /\ cr_flag \in BOOLEAN /\ raced \in BOOLEAN
  /\ running \in Proc \cup {None}
  /\ pc \in [Proc -> Places]
  /\ msg \in [Proc -> Seq({"x", "LF"})]
  /\ b \in [Proc -> Nat] /\ \A p \in Proc : b[p] <= Len(msg[p])
  /\ reg \in [Proc -> Index] /\ nr \in [Proc -> Index]
  /\ shown \in [Proc -> Int] /\ last \in Lasts /\ row \in Row

\* One process is in the kernel, and one that is not there has nothing to write.
OneRuns ==
  \A p \in Proc : /\ pc[p] \in InKernel <=> running = p
                  /\ pc[p] = "user" => b[p] = 0

Among(places) == running \in Proc /\ pc[running] \in places

\* The index is stored after the character is put or taken: the queue as it is then.
Queue ==
  IF Among(Filling) THEN [write_q EXCEPT !.head = INC(@)]
  ELSE IF Among(Taking) THEN [write_q EXCEPT !.tail = INC(@)]
  ELSE write_q

\* The registers are what the process loaded, and it counts what is left.
Registers ==
  /\ running = None \/ Among({"wait"}) => CHARS(write_q) = 0
  /\ \A p \in Proc :
       /\ pc[p] \in Filling => ~FULL(write_q)
       /\ pc[p] = "store_head" => reg[p] = write_q.head
       /\ pc[p] = "get" => nr[p] = CHARS(write_q)
       /\ pc[p] \in Taking => nr[p] = CHARS(write_q) - 1
       /\ pc[p] = "store_tail" => reg[p] = write_q.tail

Sees(p) == <<IF p \in Proc THEN shown[p] ELSE 0, last, Cells(secondary)>>
Sent(p) == IF p \in Proc THEN b[p] ELSE 0

Shown ==
  /\ \A p \in Proc : p # running => shown[p] = b[p]
  /\ Fits(row, Cells(secondary))
  /\ NoEcho(Queue, CHARS(Queue))
  /\ Flow(running, msg[running], Queue, Sees(running), Sent(running), cr_flag)

Inv == Types /\ OneRuns /\ (~raced => Registers /\ Shown)

LEMMA CellsNat ==
  ASSUME NEW s \in Seq(LineChar)
  PROVE  Cells(s) \in Nat
<1>1. "a" \in LineChar
  BY DEF LineChar
<1> QED
  BY <1>1, CellsGrow

\* What is seen is a mark, and the interrupt finds it so.
LEMMA NowIs ==
  ASSUME Types
  PROVE  /\ Now \in State /\ Cells(secondary) \in Nat
         /\ \A p : Sees(p) \in Mark /\ Fits(row, Cells(secondary)) => Shows(p, Now, Sees(p))
<1>1. Cells(secondary) \in Nat
  BY CellsNat DEF Types
<1>2. Now \in State
  BY DEF Types, Now, State
<1>3. /\ \A p : /\ Sees(p)[1] = (IF p \in Proc THEN shown[p] ELSE 0)
                /\ Sees(p)[2] = last /\ Sees(p)[3] = Cells(secondary)
      /\ Now.shown = shown /\ Now.last = last /\ Now.row = row
  BY DEF Sees, Now
<1> QED
  BY <1>1, <1>2, <1>3 DEF Shows

LEMMA BlankFits == Fits(Blank, 0)
<1>1. Blank = [x |-> 0, echo |-> 0, whole |-> TRUE]
  BY DEF Blank
<1>2. Blank \in Row
  BY <1>1, Columns DEF Row
<1> QED
  BY <1>1, <1>2 DEF Fits

LEMMA InitInv == ASSUME Init PROVE Inv
<1>1. Stale \in Cell
  BY DEF Stale, Cell, None
<1>2. write_q \in Ring /\ write_q.head = 0 /\ write_q.tail = 0
  BY <1>1, Sizes DEF Init, Ring
<1>3. Types
  <2>1. /\ \A S : <<>> \in Seq(S)
        /\ Len(<<>>) = 0 /\ 0 < TTY_BUF_SIZE /\ 0 <= 0 /\ 0 \in Int /\ 0 \in Nat /\ 0 \in Index
    BY Sizes
  <2>2. /\ read_q = <<>> /\ secondary = <<>> /\ data = 0 /\ cr_flag = FALSE /\ raced = FALSE
        /\ running = None /\ last = "other" /\ row = Blank
    BY DEF Init
  <2>3. pc \in [Proc -> Places]
    BY DEF Init, Places
  <2>4. /\ msg \in [Proc -> Seq({"x", "LF"})] /\ b \in [Proc -> Nat]
        /\ \A p \in Proc : b[p] <= Len(msg[p])
    BY <2>1 DEF Init
  <2>5. reg \in [Proc -> Index] /\ nr \in [Proc -> Index] /\ shown \in [Proc -> Int]
    BY <2>1 DEF Init
  <2>6. row \in Row /\ last \in Lasts
    BY <2>2, BlankFits DEF Fits, Lasts
  <2> QED
    BY <1>2, <2>1, <2>2, <2>3, <2>4, <2>5, <2>6 DEF Types
<1>4. OneRuns /\ ~Among(Filling) /\ ~Among(Taking) /\ running \notin Proc
  BY ProcAssumption DEF Init, OneRuns, InKernel, Among, None
<1>5. CHARS(write_q) = 0
  BY <1>2, Sizes, CountIs, Around
<1>6. Registers
  BY <1>5 DEF Init, Registers, Filling, Taking
<1>7. Queue = write_q
  BY <1>4 DEF Queue
<1>8. NoEcho(Queue, 0)
  BY DEF NoEcho
<1>9. Sees(running) = <<0, last, Cells(secondary)>> /\ Sent(running) = 0 /\ Sees(running) \in Mark
  BY <1>3, <1>4, NowIs DEF Sees, Sent, Mark, Types
<1>10. cr_flag = FALSE
  BY DEF Init
<1>11. Flow(running, msg[running], Queue, Sees(running), Sent(running), cr_flag)
  BY <1>5, <1>7, <1>9, <1>10, FlowIdle
<1>12. Cells(<<>>) = 0
  <2>1. <<>> \in Seq(LineChar) /\ Len(<<>>) = 0
    OBVIOUS
  <2>2. PICK g : Counts(g, <<>>) /\ Cells(<<>>) = g[0]
    BY <2>1, CellsAre
  <2> QED
    BY <2>2 DEF Counts
<1>13. Fits(row, Cells(secondary))
  BY <1>12, BlankFits DEF Init
<1> QED
  BY <1>3, <1>4, <1>5, <1>6, <1>7, <1>8, <1>11, <1>13 DEF Inv, Shown, Init

-----------------------------------------------------------------------------
(* The steps of a process.                                                 *)

\* A process goes on in the kernel.
LEMMA GoesOn ==
  ASSUME Types, OneRuns, NEW p \in Proc, running = p,
         NEW place \in InKernel, Goto(p, place), running' = running,
         \A o \in Proc : o # p => b'[o] = b[o]
  PROVE  /\ OneRuns' /\ pc' \in [Proc -> Places] /\ pc'[p] = place
         /\ \A o \in Proc : o # p => pc[o] \notin InKernel /\ pc'[o] \notin InKernel
         /\ Among(Filling)' <=> place \in Filling
         /\ Among(Taking)' <=> place \in Taking
         /\ Among({"wait"})' <=> place = "wait"
         /\ Among(Filling) <=> pc[p] \in Filling
         /\ Among(Taking) <=> pc[p] \in Taking
         /\ Among({"wait"}) <=> pc[p] = "wait"
<1>1. place \in Places /\ place # "user"
  BY DEF InKernel, Places
<1>2. pc' \in [Proc -> Places] /\ pc'[p] = place /\ \A o \in Proc : o # p => pc'[o] = pc[o]
  BY <1>1 DEF Types, Goto
<1>3. \A o \in Proc : o # p => pc[o] \notin InKernel /\ pc'[o] \notin InKernel
  BY <1>2 DEF OneRuns
<1>4. OneRuns'
  BY <1>1, <1>2, <1>3 DEF OneRuns
<1> QED
  BY <1>2, <1>3, <1>4 DEF Among

\* Nothing moves but a register.
LEMMA ShownSame ==
  ASSUME Shown, Queue' = Queue,
         UNCHANGED <<running, shown, b, row, secondary, msg, last, cr_flag>>
  PROVE  Shown'
BY DEF Shown, Sees, Sent

\* When nothing is queued, all that was sent is seen.
LEMMA IdleIs ==
  ASSUME Inv, ~raced, CHARS(write_q) = 0, Queue = write_q
  PROVE  /\ \A o \in Proc : shown[o] = b[o]
         /\ Fits(row, Cells(secondary))
         /\ cr_flag => last # "other"
<1>1. Flow(running, msg[running], write_q, Sees(running), Sent(running), cr_flag)
  BY DEF Inv, Shown
<1>2. Sees(running)[1] = Sent(running) /\ (cr_flag => Sees(running)[2] # "other")
  BY <1>1, FlowIdle
<1> QED
  BY <1>2 DEF Inv, Shown, Sees, Sent

\* The same in the next state.
LEMMA IdleIn ==
  ASSUME Types', Queue' = write_q', CHARS(write_q)' = 0,
         \A o \in Proc : shown'[o] = b'[o],
         Fits(row', Cells(secondary)'), cr_flag' => last' # "other"
  PROVE  Shown'
<1>1. Sent(running)' \in Nat /\ Cells(secondary)' \in Nat
  BY CellsNat DEF Types, Sent
<1>2. Sees(running)' = <<Sent(running)', last', Cells(secondary)'>>
  BY DEF Sees, Sent
<1>3. Sees(running)' \in Mark /\ Sees(running)'[1] = Sent(running)' /\ Sees(running)'[2] = last'
  BY <1>1, <1>2 DEF Mark, Types
<1>4. CHARS(Queue') = 0
  OBVIOUS
<1>5. Flow(running', msg'[running'], Queue', Sees(running)', Sent(running)', cr_flag')
  BY <1>3, <1>4, FlowIdle
<1>6. NoEcho(Queue', 0)
  BY DEF NoEcho
<1> QED
  BY <1>4, <1>5, <1>6 DEF Shown

LEMMA CallInv ==
  ASSUME Inv, NEW p \in Proc, NEW m \in Message, Call(p, m)
  PROVE  Inv'
<1>1. Types /\ OneRuns /\ running = None /\ pc[p] = "user" /\ None \notin Proc
  BY ProcAssumption DEF Inv, Call, None
<1>2. /\ running' = p /\ pc' = [pc EXCEPT ![p] = "wait"] /\ msg' = [msg EXCEPT ![p] = m]
      /\ UNCHANGED <<read_q, secondary, data, write_q, cr_flag, b, reg, nr, shown, last, row, raced>>
  BY DEF Call, Goto, input, screen
<1>3. pc' \in [Proc -> Places] /\ pc'[p] = "wait" /\ \A o \in Proc : o # p => pc'[o] = pc[o]
  BY <1>1, <1>2 DEF Types, Places
<1>4. Types'
  <2>1. m \in Seq({"x", "LF"}) /\ b[p] = 0 /\ Len(m) \in Nat
    BY <1>1, InputAssumption DEF OneRuns
  <2>2. msg' \in [Proc -> Seq({"x", "LF"})] /\ \A o \in Proc : b[o] <= Len(msg'[o])
    BY <1>1, <1>2, <2>1 DEF Types
  <2> QED
    BY <1>1, <1>2, <1>3, <2>2 DEF Types
<1>5. \A o \in Proc : pc[o] \notin InKernel
  BY <1>1 DEF OneRuns
<1>6. OneRuns'
  BY <1>1, <1>2, <1>3, <1>5 DEF OneRuns, InKernel
<1>7. ASSUME ~raced' PROVE Registers' /\ Shown'
  <2>1. ~raced /\ CHARS(write_q) = 0 /\ CHARS(write_q)' = 0
    BY <1>1, <1>2, <1>7 DEF Inv, Registers
  <2>2. Queue = write_q /\ Queue' = write_q'
    BY <1>1, <1>2, <1>3 DEF Queue, Among, Filling, Taking
  <2>3. Registers'
    BY <1>3, <1>5, <2>1 DEF Registers, InKernel, Filling, Taking
  <2>4. Shown'
    BY <1>2, <1>4, <2>1, <2>2, IdleIs, IdleIn
  <2> QED
    BY <2>3, <2>4
<1> QED
  BY <1>4, <1>6, <1>7 DEF Inv

LEMMA ResumeInv ==
  ASSUME Inv, NEW p \in Proc, Resume(p)
  PROVE  Inv'
<1>1. Types /\ OneRuns /\ running = None /\ pc[p] = "resched" /\ None \notin Proc
  BY ProcAssumption DEF Inv, Resume, None
<1>2. /\ running' = p /\ pc' = [pc EXCEPT ![p] = "wait"]
      /\ UNCHANGED <<read_q, secondary, data, write_q, cr_flag, msg, b, reg, nr,
                     shown, last, row, raced>>
  BY DEF Resume, Goto, input, screen
<1>3. pc' \in [Proc -> Places] /\ pc'[p] = "wait" /\ \A o \in Proc : o # p => pc'[o] = pc[o]
  BY <1>1, <1>2 DEF Types, Places
<1>4. Types'
  BY <1>1, <1>2, <1>3 DEF Types
<1>5. \A o \in Proc : pc[o] \notin InKernel
  BY <1>1 DEF OneRuns
<1>6. OneRuns'
  BY <1>1, <1>2, <1>3, <1>5 DEF OneRuns, InKernel
<1>7. ASSUME ~raced' PROVE Registers' /\ Shown'
  <2>1. ~raced /\ CHARS(write_q) = 0 /\ CHARS(write_q)' = 0
    BY <1>1, <1>2, <1>7 DEF Inv, Registers
  <2>2. Queue = write_q /\ Queue' = write_q'
    BY <1>1, <1>2, <1>3 DEF Queue, Among, Filling, Taking
  <2>3. Registers'
    BY <1>3, <1>5, <2>1 DEF Registers, InKernel, Filling, Taking
  <2>4. Shown'
    BY <1>2, <1>4, <2>1, <2>2, IdleIs, IdleIn
  <2> QED
    BY <2>3, <2>4
<1> QED
  BY <1>4, <1>6, <1>7 DEF Inv

\* The queue is empty when a process comes, so nobody sleeps, unless a race has
\* left it full.
LEMMA SleepIfFullInv ==
  ASSUME Inv, NEW p \in Proc, SleepIfFull(p)
  PROVE  Inv'
<1>1. Types /\ OneRuns /\ running = p /\ pc[p] = "wait" /\ None \notin Proc
  BY ProcAssumption DEF Inv, SleepIfFull, At, None
<1>2. UNCHANGED <<read_q, secondary, data, write_q, cr_flag, msg, b, reg, nr,
                  shown, last, row, raced>>
  BY DEF SleepIfFull, input, screen
<1>3. CASE FULL(write_q)
  <2>1. running' = None /\ pc' = [pc EXCEPT ![p] = "asleep"]
    BY <1>3 DEF SleepIfFull, Goto
  <2>2. pc' \in [Proc -> Places] /\ pc'[p] = "asleep" /\ \A o \in Proc : o # p => pc'[o] = pc[o]
    BY <1>1, <2>1 DEF Types, Places
  <2>3. Types'
    BY <1>1, <1>2, <2>1, <2>2 DEF Types
  <2>4. OneRuns'
    BY <1>1, <1>2, <2>1, <2>2 DEF OneRuns, InKernel
  <2>5. raced'
    <3>1. ~raced => CHARS(write_q) = 0
      BY <1>1 DEF Inv, Registers, Among
    <3>2. CHARS(write_q) = TTY_BUF_SIZE - 1
      BY <1>1, <1>3, CountIs DEF Types, Ring
    <3> QED
      BY <1>2, <3>1, <3>2, Sizes
  <2> QED
    BY <2>3, <2>4, <2>5 DEF Inv
<1>4. CASE ~FULL(write_q)
  <2>1. running' = running /\ Goto(p, "fill") /\ "fill" \in InKernel
    BY <1>4 DEF SleepIfFull, InKernel
  <2>2. /\ OneRuns' /\ pc' \in [Proc -> Places] /\ pc'[p] = "fill"
        /\ \A o \in Proc : o # p => pc[o] \notin InKernel /\ pc'[o] \notin InKernel
        /\ ~Among(Filling)' /\ ~Among(Taking)' /\ ~Among({"wait"})'
        /\ ~Among(Filling) /\ ~Among(Taking) /\ Among({"wait"})
    BY <1>1, <1>2, <2>1, GoesOn DEF Filling, Taking
  <2>3. Types'
    BY <1>1, <1>2, <2>1, <2>2 DEF Types
  <2>4. ASSUME ~raced' PROVE Registers' /\ Shown'
    <3>1. Queue' = Queue
      BY <1>2, <2>2 DEF Queue
    <3>2. Shown'
      BY <1>2, <2>1, <2>4, <3>1, ShownSame DEF Inv
    <3>3. running' # None
      BY <1>1, <2>1
    <3>4. Registers'
      BY <2>2, <3>3 DEF Registers, InKernel, Filling, Taking
    <3> QED
      BY <3>2, <3>4
  <2> QED
    BY <2>2, <2>3, <2>4 DEF Inv
<1> QED
  BY <1>3, <1>4

\* What a process puts into the queue appears after what is there.
LEMMA FlowPut ==
  ASSUME NEW p \in Proc, NEW m, NEW q \in Ring, ~FULL(q), NEW c \in Cell, c.from = p,
         NEW r, r = PUTCH(c, q), NEW x, NEW k \in Nat, NEW cr, Flow(p, m, q, x, k, cr),
         NEW k2, NEW cr2,
         \/ c.i = 0 /\ k2 = k
         \/ c.i = k + 1 /\ k2 = k + 1 /\ (m[k + 1] = "LF" => cr) /\ ~cr2
  PROVE  /\ Flow(p, m, r, x, k2, cr2)
         /\ NoEcho(q, CHARS(q)) => NoEcho(r, CHARS(r))
<1>1. /\ r.tail = q.tail /\ r.buf[q.head] = c
      /\ \A i \in Index : i # q.head => r.buf[i] = q.buf[i]
      /\ Pos(q.tail, CHARS(q)) = q.head
      /\ CHARS(r) = CHARS(q) + 1 /\ CHARS(q) + 1 \in Index
  BY PutchKeeps
<1>2. q.tail \in Index /\ CHARS(q) \in Index /\ CHARS(q) \in Nat
  BY CountIs DEF Ring, Index
<1>3. p # "echo"
  BY ProcAssumption
<1>4. PICK l \in Lasts : (cr => l # "other") /\ Run(p, m, q, CHARS(q), x, <<k, l, x[3]>>)
  BY DEF Flow
<1>5. x[3] \in Int
  <2>1. x \in Mark
    BY <1>2, <1>4, RunMarks
  <2> QED
    BY <2>1 DEF Mark
<1>6. \E l2 \in Lasts :
        /\ cr2 => l2 # "other"
        /\ Moves(p, m, c, <<k, l, x[3]>>, <<k2, l2, x[3]>>)
        /\ <<k2, l2, x[3]>> \in Mark
  <2>1. CASE c.i = 0 /\ k2 = k
    <3>1. Moves(p, m, c, <<k, l, x[3]>>, <<k2, "CR", x[3]>>)
      BY <2>1 DEF Moves
    <3>2. <<k2, "CR", x[3]>> \in Mark
      BY <1>5, <2>1 DEF Mark, Lasts
    <3> QED
      BY <3>1, <3>2 DEF Lasts
  <2>2. CASE c.i = k + 1 /\ k2 = k + 1 /\ (m[k + 1] = "LF" => cr) /\ ~cr2
    <3>1. m[c.i] = "LF" => l # "other"
      BY <1>4, <2>2
    <3>2. Moves(p, m, c, <<k, l, x[3]>>, <<k2, "other", x[3]>>)
      BY <2>2, <3>1 DEF Moves
    <3>3. <<k2, "other", x[3]>> \in Mark
      BY <1>5, <2>2 DEF Mark, Lasts
    <3> QED
      BY <2>2, <3>2, <3>3 DEF Lasts
  <2> QED
    BY <2>1, <2>2
<1>7. PICK l2 \in Lasts :
        /\ cr2 => l2 # "other"
        /\ Moves(p, m, c, <<k, l, x[3]>>, <<k2, l2, x[3]>>)
        /\ <<k2, l2, x[3]>> \in Mark
  BY <1>6
<1>8. Run(p, m, r, CHARS(r), x, <<k2, l2, x[3]>>)
  <2>1. PICK y, z : y = <<k, l, x[3]>> /\ z = <<k2, l2, x[3]>>
    OBVIOUS
  <2>2. Run(p, m, r, CHARS(q) + 1, x, z)
    BY <1>1, <1>2, <1>4, <1>7, <2>1, RunPut
  <2> QED
    BY <1>1, <2>1, <2>2
<1>9. ASSUME NoEcho(q, CHARS(q)) PROVE NoEcho(r, CHARS(r))
  <2>1. NoEcho(r, CHARS(q) + 1)
    BY <1>1, <1>2, <1>3, <1>9, NoEchoPut
  <2> QED
    BY <1>1, <2>1
<1> QED
  BY <1>7, <1>8, <1>9 DEF Flow

\* PUTCH, up to its store of the index: n is how much has been sent then, f what
\* cr_flag is.
LEMMA PutInv ==
  ASSUME Inv, NEW p \in Proc, At(p, "fill"), More(p), NEW c \in Cell, c.from = p, Put(p, c),
         cr_flag' \in BOOLEAN, b' \in [Proc -> Nat], \A o \in Proc : o # p => b'[o] = b[o],
         \/ c.i = 0 /\ b'[p] = b[p]
         \/ c.i = b[p] + 1 /\ b'[p] = b[p] + 1 /\ (msg[p][b[p] + 1] = "LF" => cr_flag) /\ ~cr_flag',
         UNCHANGED <<input, running, msg, reg, nr, screen, raced>>
  PROVE  Inv'
<1>1. /\ Types /\ OneRuns /\ running = p /\ pc[p] = "fill" /\ ~FULL(write_q) /\ b[p] < Len(msg[p])
      /\ write_q \in Ring /\ b[p] \in Nat
  BY DEF Inv, At, More, Types
<1>2. /\ UNCHANGED <<read_q, secondary, data, running, msg, reg, nr, shown, last, row, raced>>
      /\ write_q' = [write_q EXCEPT !.buf[write_q.head] = IF raced THEN Stale ELSE c]
      /\ Goto(p, "load_head") /\ "load_head" \in InKernel
  BY DEF Put, input, screen, InKernel
<1>3. /\ OneRuns' /\ pc' \in [Proc -> Places] /\ pc'[p] = "load_head"
      /\ \A o \in Proc : o # p => pc[o] \notin InKernel /\ pc'[o] \notin InKernel
      /\ Among(Filling)' /\ ~Among(Taking)' /\ ~Among({"wait"})'
      /\ ~Among(Filling) /\ ~Among(Taking) /\ ~Among({"wait"})
  BY <1>1, <1>2, GoesOn DEF Filling, Taking
<1>4. write_q' \in Ring /\ write_q'.head = write_q.head /\ write_q'.tail = write_q.tail
  <2>1. (IF raced THEN Stale ELSE c) \in Cell
    BY DEF Stale, Cell, None
  <2> QED
    BY <1>1, <1>2, <2>1 DEF Ring
<1>5. \A o \in Proc : b'[o] <= Len(msg[o])
  <2>1. \A o \in Proc : Len(msg[o]) \in Nat /\ b[o] <= Len(msg[o])
    BY <1>1 DEF Types
  <2> QED
    BY <1>1, <2>1
<1>6. Types'
  BY <1>1, <1>2, <1>3, <1>4, <1>5 DEF Types
<1>7. ASSUME ~raced' PROVE Registers' /\ Shown'
  <2>1. ~raced /\ Shown /\ Registers
    BY <1>2, <1>7 DEF Inv
  <2>2. CHARS(write_q)' = CHARS(write_q) /\ (FULL(write_q)' <=> FULL(write_q))
    BY <1>4 DEF CHARS, FULL, LEFT
  <2>3. Registers'
    <3>1. running' # None
      BY <1>1, <1>2, ProcAssumption DEF None
    <3> QED
      BY <1>1, <1>3, <2>2, <3>1 DEF Registers, InKernel, Filling, Taking
  <2>4. Queue = write_q
    BY <1>3 DEF Queue
  <2>5. Queue' = PUTCH(c, write_q)
    <3>1. Queue' = [write_q' EXCEPT !.head = INC(@)]
      BY <1>3 DEF Queue
    <3>2. write_q' = [write_q EXCEPT !.buf[write_q.head] = c]
      BY <1>2, <2>1
    <3> QED
      BY <1>1, <3>1, <3>2 DEF PUTCH, Ring
  <2>6. /\ Flow(p, msg[p], write_q, Sees(p), b[p], cr_flag)
        /\ NoEcho(write_q, CHARS(write_q))
    BY <1>1, <2>1, <2>4 DEF Shown, Sent
  <2>7. /\ Flow(p, msg[p], Queue', Sees(p), b'[p], cr_flag')
        /\ NoEcho(Queue', CHARS(Queue'))
    <3>1. \A r, m, x, k, cr, k2, cr2 :
            /\ r = PUTCH(c, write_q) /\ k \in Nat /\ Flow(p, m, write_q, x, k, cr)
            /\ \/ c.i = 0 /\ k2 = k
               \/ c.i = k + 1 /\ k2 = k + 1 /\ (m[k + 1] = "LF" => cr) /\ ~cr2
            => Flow(p, m, r, x, k2, cr2) /\ (NoEcho(write_q, CHARS(write_q)) => NoEcho(r, CHARS(r)))
      BY <1>1, FlowPut
    <3>2. \/ c.i = 0 /\ b'[p] = b[p]
          \/ /\ c.i = b[p] + 1 /\ b'[p] = b[p] + 1
             /\ (msg[p][b[p] + 1] = "LF" => cr_flag) /\ ~cr_flag'
      OBVIOUS
    <3> QED
      BY <1>1, <2>5, <2>6, <3>1, <3>2
  <2>8. Sees(p)' = Sees(p) /\ Sent(p)' = b'[p]
    BY <1>2 DEF Sees, Sent
  <2>9. \A o \in Proc : o # running' => shown'[o] = b'[o]
    BY <1>1, <1>2, <2>1 DEF Shown
  <2>10. Fits(row', Cells(secondary'))
    BY <1>2, <2>1 DEF Shown
  <2>11. Flow(running, msg[running], Queue, Sees(running), Sent(running), cr_flag)'
    BY <1>1, <1>2, <2>7, <2>8
  <2> QED
    BY <2>3, <2>7, <2>9, <2>10, <2>11 DEF Shown
<1> QED
  BY <1>3, <1>6, <1>7 DEF Inv

LEMMA PutCrInv ==
  ASSUME Inv, NEW p \in Proc, PutCr(p)
  PROVE  Inv'
<1>1. Char(p, 0) \in Cell /\ Char(p, 0).from = p /\ Char(p, 0).i = 0
  BY DEF Char, Cell
<1>2. /\ At(p, "fill") /\ More(p) /\ Put(p, Char(p, 0)) /\ cr_flag' = TRUE
      /\ UNCHANGED <<input, running, msg, b, reg, nr, screen, raced>>
  BY DEF PutCr
<1>3. b' \in [Proc -> Nat] /\ cr_flag' \in BOOLEAN
  BY <1>2 DEF Inv, Types
<1> QED
  BY <1>1, <1>2, <1>3, PutInv

LEMMA PutNextInv ==
  ASSUME Inv, NEW p \in Proc, PutNext(p)
  PROVE  Inv'
<1>1. b \in [Proc -> Nat]
  BY DEF Inv, Types
<1> DEFINE c == Char(p, b[p] + 1)
<1>2. c \in Cell /\ c.from = p /\ c.i = b[p] + 1
  BY <1>1 DEF Char, Cell
<1> HIDE DEF c
<1>3. /\ At(p, "fill") /\ More(p) /\ Put(p, c) /\ cr_flag' = FALSE
      /\ b' = [b EXCEPT ![p] = @ + 1]
      /\ (msg[p][b[p] + 1] = "LF" => cr_flag)
      /\ UNCHANGED <<input, running, msg, reg, nr, screen, raced>>
  BY DEF PutNext, c
<1>4. /\ b' \in [Proc -> Nat] /\ b'[p] = b[p] + 1 /\ \A o \in Proc : o # p => b'[o] = b[o]
  BY <1>1, <1>3
<1>5. cr_flag' \in BOOLEAN
  BY <1>3
<1> QED
  BY <1>2, <1>3, <1>4, <1>5, PutInv

LEMMA LoadHeadInv ==
  ASSUME Inv, NEW p \in Proc, LoadHead(p)
  PROVE  Inv'
<1>1. Types /\ OneRuns /\ running = p /\ pc[p] = "load_head" /\ write_q \in Ring
  BY DEF Inv, LoadHead, At, Types
<1>2. /\ UNCHANGED <<read_q, secondary, data, write_q, cr_flag, running, msg, b, nr,
                     shown, last, row, raced>>
      /\ reg' = [reg EXCEPT ![p] = write_q.head]
      /\ Goto(p, "store_head") /\ "store_head" \in InKernel
  BY DEF LoadHead, input, screen, InKernel
<1>3. /\ OneRuns' /\ pc' \in [Proc -> Places] /\ pc'[p] = "store_head"
      /\ \A o \in Proc : o # p => pc[o] \notin InKernel /\ pc'[o] \notin InKernel
      /\ Among(Filling)' /\ ~Among(Taking)' /\ ~Among({"wait"})'
      /\ Among(Filling) /\ ~Among(Taking) /\ ~Among({"wait"})
  BY <1>1, <1>2, GoesOn DEF Filling, Taking
<1>4. Types'
  <2>1. reg' \in [Proc -> Index]
    BY <1>1, <1>2 DEF Types, Ring
  <2> QED
    BY <1>1, <1>2, <1>3, <2>1 DEF Types
<1>5. ASSUME ~raced' PROVE Registers' /\ Shown'
  <2>1. ~raced /\ Shown /\ Registers
    BY <1>2, <1>5 DEF Inv
  <2>2. Queue' = Queue
    BY <1>2, <1>3 DEF Queue
  <2>3. Shown'
    BY <1>2, <2>1, <2>2, ShownSame
  <2>4. running' # None /\ ~FULL(write_q) /\ reg'[p] = write_q.head
    BY <1>1, <1>2, <2>1, ProcAssumption DEF None, Registers, Filling, Types
  <2>5. FULL(write_q)' <=> FULL(write_q)
    BY <1>2 DEF FULL, LEFT
  <2>6. Registers'
    BY <1>2, <1>3, <2>4, <2>5 DEF Registers, InKernel, Filling, Taking
  <2> QED
    BY <2>3, <2>6
<1> QED
  BY <1>3, <1>4, <1>5 DEF Inv

LEMMA StoreHeadInv ==
  ASSUME Inv, NEW p \in Proc, StoreHead(p)
  PROVE  Inv'
<1>1. Types /\ OneRuns /\ running = p /\ pc[p] = "store_head" /\ write_q \in Ring /\ reg[p] \in Index
  BY DEF Inv, StoreHead, At, Types
<1>2. /\ UNCHANGED <<read_q, secondary, data, cr_flag, running, msg, b, nr,
                     shown, last, row, raced>>
      /\ reg' = [reg EXCEPT ![p] = 0]
      /\ write_q' = [write_q EXCEPT !.head = INC(reg[p])]
      /\ Goto(p, "fill") /\ "fill" \in InKernel
  BY DEF StoreHead, input, screen, InKernel
<1>3. /\ OneRuns' /\ pc' \in [Proc -> Places] /\ pc'[p] = "fill"
      /\ \A o \in Proc : o # p => pc[o] \notin InKernel /\ pc'[o] \notin InKernel
      /\ ~Among(Filling)' /\ ~Among(Taking)' /\ ~Among({"wait"})'
      /\ Among(Filling) /\ ~Among(Taking) /\ ~Among({"wait"})
  BY <1>1, <1>2, GoesOn DEF Filling, Taking
<1>4. Types'
  <2>1. reg' \in [Proc -> Index]
    BY <1>1, <1>2, Sizes DEF Types
  <2>2. write_q' \in Ring
    BY <1>1, <1>2, IncIs DEF Ring
  <2> QED
    BY <1>1, <1>2, <1>3, <2>1, <2>2 DEF Types
<1>5. ASSUME ~raced' PROVE Registers' /\ Shown'
  <2>1. ~raced /\ Shown /\ Registers
    BY <1>2, <1>5 DEF Inv
  <2>2. Queue' = Queue
    <3>1. reg[p] = write_q.head
      BY <1>1, <2>1 DEF Registers
    <3> QED
      BY <1>2, <1>3, <3>1 DEF Queue
  <2>3. Shown'
    BY <1>2, <2>1, <2>2, ShownSame
  <2>4. running' # None
    BY <1>1, <1>2, ProcAssumption DEF None
  <2>5. Registers'
    BY <1>3, <2>4 DEF Registers, InKernel, Filling, Taking
  <2> QED
    BY <2>3, <2>5
<1> QED
  BY <1>3, <1>4, <1>5 DEF Inv

LEMMA WriteInv ==
  ASSUME Inv, NEW p \in Proc, Write(p)
  PROVE  Inv'
<1>1. Types /\ OneRuns /\ running = p /\ pc[p] = "fill" /\ write_q \in Ring
  BY DEF Inv, Write, At, Types
<1>2. /\ UNCHANGED <<read_q, secondary, data, write_q, cr_flag, running, msg, b, reg,
                     shown, last, row, raced>>
      /\ nr' = [nr EXCEPT ![p] = CHARS(write_q)]
      /\ Goto(p, "get") /\ "get" \in InKernel
  BY DEF Write, input, screen, InKernel
<1>3. /\ OneRuns' /\ pc' \in [Proc -> Places] /\ pc'[p] = "get"
      /\ \A o \in Proc : o # p => pc[o] \notin InKernel /\ pc'[o] \notin InKernel
      /\ ~Among(Filling)' /\ ~Among(Taking)' /\ ~Among({"wait"})'
      /\ ~Among(Filling) /\ ~Among(Taking) /\ ~Among({"wait"})
  BY <1>1, <1>2, GoesOn DEF Filling, Taking
<1>4. nr' \in [Proc -> Index] /\ nr'[p] = CHARS(write_q)
  <2>1. CHARS(write_q) \in Index
    BY <1>1, CountIs DEF Ring
  <2> QED
    BY <1>1, <1>2, <2>1 DEF Types
<1>5. Types'
  BY <1>1, <1>2, <1>3, <1>4 DEF Types
<1>6. ASSUME ~raced' PROVE Registers' /\ Shown'
  <2>1. ~raced /\ Shown /\ Registers
    BY <1>2, <1>6 DEF Inv
  <2>2. Queue' = Queue
    BY <1>2, <1>3 DEF Queue
  <2>3. Shown'
    BY <1>2, <2>1, <2>2, ShownSame
  <2>4. running' # None /\ CHARS(write_q)' = CHARS(write_q)
    BY <1>1, <1>2, ProcAssumption DEF None
  <2>5. Registers'
    BY <1>3, <1>4, <2>4 DEF Registers, InKernel, Filling, Taking
  <2> QED
    BY <2>3, <2>5
<1> QED
  BY <1>3, <1>5, <1>6 DEF Inv

\* GETCH, up to its store of the index.
LEMMA GetInv ==
  ASSUME Inv, NEW p \in Proc, Get(p)
  PROVE  Inv'
<1>1. /\ Types /\ OneRuns /\ running = p /\ pc[p] = "get" /\ nr[p] > 0
      /\ write_q \in Ring /\ write_q.tail \in Index /\ write_q.head \in Index
      /\ write_q.buf \in [Index -> Cell] /\ nr[p] \in Index
  BY DEF Inv, Get, At, Types, Ring
<1>2. /\ UNCHANGED <<read_q, secondary, data, cr_flag, running, msg, b, reg, raced>>
      /\ nr' = [nr EXCEPT ![p] = @ - 1]
      /\ write_q' = [write_q EXCEPT !.buf[write_q.tail] = Stale]
      /\ Goto(p, "load_tail") /\ "load_tail" \in InKernel
  BY DEF Get, input, InKernel
<1>3. /\ OneRuns' /\ pc' \in [Proc -> Places] /\ pc'[p] = "load_tail"
      /\ \A o \in Proc : o # p => pc[o] \notin InKernel /\ pc'[o] \notin InKernel
      /\ ~Among(Filling)' /\ Among(Taking)' /\ ~Among({"wait"})'
      /\ ~Among(Filling) /\ ~Among(Taking) /\ ~Among({"wait"})
  BY <1>1, <1>2, GoesOn DEF Filling, Taking
<1>4. nr' \in [Proc -> Index] /\ nr'[p] = nr[p] - 1
  <2>1. nr[p] - 1 \in Index
    BY <1>1, Sizes DEF Index
  <2> QED
    BY <1>1, <1>2, <2>1 DEF Types
<1>5. write_q' \in Ring /\ write_q'.head = write_q.head /\ write_q'.tail = write_q.tail
  <2>1. Stale \in Cell
    BY DEF Stale, Cell, None
  <2> QED
    BY <1>1, <1>2, <2>1 DEF Ring
<1>6. /\ Now \in State /\ Now.q = write_q /\ Now.shown = shown /\ Cells(secondary) \in Nat
      /\ Sees(p) \in Mark /\ Fits(row, Cells(secondary)) => Shows(p, Now, Sees(p))
  BY <1>1, NowIs DEF Now
<1>7. PICK e : e = Display(write_q.buf[write_q.tail], Now)
  OBVIOUS
<1>8. shown' = e.shown /\ last' = e.last /\ row' = e.row
  BY <1>7 DEF Get
<1>9. e \in State /\ e.q = write_q
  BY <1>1, <1>6, <1>7, DisplayKeeps
<1>10. Types'
  <2>1. shown' \in [Proc -> Int] /\ last' \in Lasts /\ row' \in Row
    BY <1>8, <1>9 DEF State
  <2> QED
    BY <1>1, <1>2, <1>3, <1>4, <1>5, <2>1 DEF Types
<1>11. ASSUME ~raced' PROVE Registers' /\ Shown'
  <2>1. ~raced /\ Shown /\ Registers
    BY <1>2, <1>11 DEF Inv
  <2>2. nr[p] = CHARS(write_q) /\ CHARS(write_q)' = CHARS(write_q)
    BY <1>1, <1>5, <2>1 DEF Registers, CHARS
  <2>3. Registers'
    <3>1. running' # None
      BY <1>1, <1>2, ProcAssumption DEF None
    <3> QED
      BY <1>3, <1>4, <2>2, <3>1 DEF Registers, InKernel, Filling, Taking
  <2>4. Queue = write_q
    BY <1>3 DEF Queue
  <2>5. PICK l \in Lasts :
          /\ cr_flag => l # "other"
          /\ Run(p, msg[p], write_q, CHARS(write_q), Sees(p), <<b[p], l, Sees(p)[3]>>)
    BY <1>1, <2>1, <2>4 DEF Shown, Flow, Sent
  <2>6. PICK z : z = <<b[p], l, Sees(p)[3]>>
    OBVIOUS
  <2>7. /\ Run(p, msg[p], Now.q, CHARS(Now.q), Sees(p), z)
        /\ CHARS(Now.q) > 0 /\ CHARS(Now.q) \in Nat
    BY <1>1, <1>6, <2>2, <2>5, <2>6 DEF Index
  <2>8. Shows(p, Now, Sees(p))
    <3>1. Sees(p) \in Mark
      BY <2>7, RunMarks
    <3> QED
      BY <1>6, <2>1, <3>1 DEF Shown
  <2>9. PICK u, y : /\ u = Taken(Now) /\ Shows(p, u, y)
                    /\ Run(p, msg[p], u.q, CHARS(u.q), y, z)
                    /\ \A o \in Proc : o # p => u.shown[o] = Now.shown[o]
                    /\ CHARS(u.q) = CHARS(Now.q) - 1
    <3>1. PICK v, x : v = Now /\ x = Sees(p)
      OBVIOUS
    <3>2. /\ v \in State /\ CHARS(v.q) > 0 /\ Shows(p, v, x)
          /\ Run(p, msg[p], v.q, CHARS(v.q), x, z)
      BY <1>6, <2>7, <2>8, <3>1
    <3>3. ~raced
      BY <2>1
    <3>4. OneLess(p, v, z)
      BY <3>2, <3>3, TakenShows
    <3> QED
      BY <3>1, <3>4 DEF OneLess
  <2>10. u.shown = e.shown /\ u.last = e.last /\ u.row = e.row
    BY <1>6, <1>7, <2>9, TakenKeeps
  <2>11. u.q = Queue'
    <3>1. Queue' = [write_q' EXCEPT !.tail = INC(@)]
      <4>1. ~Among(Filling)' /\ Among(Taking)'
        BY <1>3
      <4> QED
        BY <4>1 DEF Queue
    <3>2. u = [e EXCEPT !.q.buf[write_q.tail] = Stale, !.q.tail = INC(@)]
      BY <1>6, <1>7, <2>9, Zenon DEF Taken
    <3>3. u.q = [write_q EXCEPT !.buf[write_q.tail] = Stale, !.tail = INC(@)]
      BY <1>9, <3>2 DEF State
    <3> QED
      BY <1>1, <1>2, <3>1, <3>3 DEF Ring
  <2>12. NoEcho(Queue', CHARS(Queue'))
    <3>1. /\ u.q.tail = INC(write_q.tail)
          /\ \A i \in Index : i # write_q.tail => u.q.buf[i] = write_q.buf[i]
      BY <1>6, <2>9, TakenKeeps
    <3>2. CHARS(write_q) > 0 /\ CHARS(write_q) \in Index /\ CHARS(u.q) = CHARS(write_q) - 1
      BY <1>1, <1>6, <2>2, <2>9
    <3>3. NoEcho(write_q, CHARS(write_q))
      BY <2>1, <2>4 DEF Shown
    <3>4. NoEcho(u.q, CHARS(write_q) - 1)
      BY <1>1, <3>1, <3>2, <3>3, NoEchoTake
    <3> QED
      BY <2>11, <3>2, <3>4
  <2>13. Run(p, msg[p], Queue', CHARS(Queue'), y, z)
    BY <2>9, <2>11
  <2>14. y[3] = z[3] /\ z[3] = Cells(secondary)
    <3>1. CHARS(Queue') \in Nat
      BY <1>1, <1>6, <2>2, <2>9, <2>11 DEF Index
    <3>2. z[3] = y[3]
      BY <2>12, <2>13, <3>1, NoEchoRun
    <3>3. z[3] = Sees(p)[3] /\ Sees(p)[3] = Cells(secondary)
      BY <2>6 DEF Sees
    <3> QED
      BY <3>2, <3>3
  <2>15. y = Sees(p)' /\ Fits(row', Cells(secondary'))
    <3>1. /\ y \in Mark /\ y[1] = u.shown[p] /\ y[2] = u.last /\ Fits(u.row, y[3])
      BY <2>9 DEF Shows
    <3>2. secondary' = secondary /\ u.shown = shown' /\ u.last = last' /\ u.row = row'
      BY <1>2, <1>8, <2>10
    <3>3. y = <<y[1], y[2], y[3]>>
      BY <3>1 DEF Mark
    <3> QED
      BY <2>14, <3>1, <3>2, <3>3 DEF Sees
  <2>16. Flow(running, msg[running], Queue, Sees(running), Sent(running), cr_flag)'
    <3>1. z = <<b[p], l, Sees(p)'[3]>>
      BY <2>6, <2>14, <2>15
    <3>2. Flow(p, msg[p], Queue', Sees(p)', b[p], cr_flag)
      BY <2>5, <2>13, <2>15, <3>1 DEF Flow
    <3>3. running' = p /\ msg' = msg /\ cr_flag' = cr_flag /\ Sent(p)' = b[p]
      BY <1>1, <1>2 DEF Sent
    <3> QED
      BY <3>2, <3>3
  <2>17. \A o \in Proc : o # running' => shown'[o] = b'[o]
    BY <1>1, <1>2, <1>6, <1>8, <2>1, <2>9, <2>10 DEF Shown
  <2> QED
    BY <2>3, <2>12, <2>15, <2>16, <2>17 DEF Shown
<1> QED
  BY <1>3, <1>10, <1>11 DEF Inv

LEMMA LoadTailInv ==
  ASSUME Inv, NEW p \in Proc, LoadTail(p)
  PROVE  Inv'
<1>1. Types /\ OneRuns /\ running = p /\ pc[p] = "load_tail" /\ write_q \in Ring
  BY DEF Inv, LoadTail, At, Types
<1>2. /\ UNCHANGED <<read_q, secondary, data, write_q, cr_flag, running, msg, b, nr,
                     shown, last, row, raced>>
      /\ reg' = [reg EXCEPT ![p] = write_q.tail]
      /\ Goto(p, "store_tail") /\ "store_tail" \in InKernel
  BY DEF LoadTail, input, screen, InKernel
<1>3. /\ OneRuns' /\ pc' \in [Proc -> Places] /\ pc'[p] = "store_tail"
      /\ \A o \in Proc : o # p => pc[o] \notin InKernel /\ pc'[o] \notin InKernel
      /\ ~Among(Filling)' /\ Among(Taking)' /\ ~Among({"wait"})'
      /\ ~Among(Filling) /\ Among(Taking) /\ ~Among({"wait"})
  BY <1>1, <1>2, GoesOn DEF Filling, Taking
<1>4. reg' \in [Proc -> Index] /\ reg'[p] = write_q.tail
  BY <1>1, <1>2 DEF Types, Ring
<1>5. Types'
  BY <1>1, <1>2, <1>3, <1>4 DEF Types
<1>6. ASSUME ~raced' PROVE Registers' /\ Shown'
  <2>1. ~raced /\ Shown /\ Registers
    BY <1>2, <1>6 DEF Inv
  <2>2. Queue' = Queue
    BY <1>2, <1>3 DEF Queue
  <2>3. Shown'
    BY <1>2, <2>1, <2>2, ShownSame
  <2>4. running' # None /\ CHARS(write_q)' = CHARS(write_q) /\ nr'[p] = CHARS(write_q) - 1
    BY <1>1, <1>2, <2>1, ProcAssumption DEF None, Registers, Taking
  <2>5. Registers'
    BY <1>2, <1>3, <1>4, <2>4 DEF Registers, InKernel, Filling, Taking
  <2> QED
    BY <2>3, <2>5
<1> QED
  BY <1>3, <1>5, <1>6 DEF Inv

LEMMA StoreTailInv ==
  ASSUME Inv, NEW p \in Proc, StoreTail(p)
  PROVE  Inv'
<1>1. /\ Types /\ OneRuns /\ running = p /\ pc[p] = "store_tail"
      /\ write_q \in Ring /\ write_q.tail \in Index /\ write_q.head \in Index
      /\ reg[p] \in Index /\ nr[p] \in Index
  BY DEF Inv, StoreTail, At, Types, Ring
<1>2. /\ UNCHANGED <<read_q, secondary, data, cr_flag, running, msg, b, nr,
                     shown, last, row, raced>>
      /\ reg' = [reg EXCEPT ![p] = 0]
      /\ write_q' = [write_q EXCEPT !.tail = INC(reg[p])]
      /\ Goto(p, "get") /\ "get" \in InKernel
  BY DEF StoreTail, input, screen, InKernel
<1>3. /\ OneRuns' /\ pc' \in [Proc -> Places] /\ pc'[p] = "get"
      /\ \A o \in Proc : o # p => pc[o] \notin InKernel /\ pc'[o] \notin InKernel
      /\ ~Among(Filling)' /\ ~Among(Taking)' /\ ~Among({"wait"})'
      /\ ~Among(Filling) /\ Among(Taking) /\ ~Among({"wait"})
  BY <1>1, <1>2, GoesOn DEF Filling, Taking
<1>4. write_q' \in Ring /\ write_q'.head = write_q.head /\ write_q'.tail = INC(reg[p])
  BY <1>1, <1>2, IncIs DEF Ring
<1>5. Types'
  <2>1. reg' \in [Proc -> Index]
    BY <1>1, <1>2, Sizes DEF Types
  <2> QED
    BY <1>1, <1>2, <1>3, <1>4, <2>1 DEF Types
<1>6. ASSUME ~raced' PROVE Registers' /\ Shown'
  <2>1. ~raced /\ Shown /\ Registers
    BY <1>2, <1>6 DEF Inv
  <2>2. reg[p] = write_q.tail /\ nr[p] = CHARS(write_q) - 1
    BY <1>1, <2>1 DEF Registers, Taking
  <2>3. Queue' = Queue
    BY <1>2, <1>3, <2>2 DEF Queue
  <2>4. Shown'
    BY <1>2, <2>1, <2>3, ShownSame
  <2>5. CHARS(write_q)' = CHARS(write_q) - 1
    <3>1. /\ CHARS(write_q) = Dist(write_q.tail, write_q.head)
          /\ CHARS(write_q)' = Dist(write_q'.tail, write_q'.head)
      <4>1. \A q \in Ring : CHARS(q) = Dist(q.tail, q.head)
        BY CountIs DEF Ring
      <4> QED
        BY <1>1, <1>4, <4>1
    <3>2. Dist(write_q.tail, write_q.head) > 0
      <4>1. Dist(write_q.tail, write_q.head) \in Nat /\ nr[p] \in Nat
        <5>1. Dist(write_q.tail, write_q.head) \in Index
          BY <1>1, Around
        <5> QED
          BY <1>1, <5>1 DEF Index
      <4>2. nr[p] = Dist(write_q.tail, write_q.head) - 1 /\ nr[p] \in Nat
        BY <1>1, <2>2, <3>1, <4>1
      <4> QED
        BY <4>1, <4>2
    <3> QED
      BY <1>1, <1>4, <2>2, <3>1, <3>2, Around
  <2>6. Registers'
    <3>1. running' # None /\ nr'[p] = CHARS(write_q)'
      BY <1>1, <1>2, <2>2, <2>5, ProcAssumption DEF None
    <3> QED
      BY <1>3, <3>1 DEF Registers, InKernel, Filling, Taking
  <2> QED
    BY <2>4, <2>6
<1> QED
  BY <1>3, <1>5, <1>6 DEF Inv

LEMMA WrittenInv ==
  ASSUME Inv, NEW p \in Proc, Written(p)
  PROVE  Inv'
<1>1. /\ Types /\ OneRuns /\ running = p /\ pc[p] = "get" /\ nr[p] = 0
      /\ b[p] \in Nat /\ b[p] <= Len(msg[p])
  BY DEF Inv, Written, At, Types
<1>2. /\ UNCHANGED <<read_q, secondary, data, write_q, cr_flag, reg, nr, last, row, raced>>
      /\ running' = None /\ None \notin Proc
  BY ProcAssumption DEF Written, input, None
<1>3. \/ b[p] < Len(msg[p]) /\ Goto(p, "resched") /\ UNCHANGED <<msg, b, shown>>
      \/ /\ Goto(p, "user") /\ msg' = [msg EXCEPT ![p] = <<>>]
         /\ b' = [b EXCEPT ![p] = 0] /\ shown' = [shown EXCEPT ![p] = 0]
  BY DEF Written
<1>4. \E place \in {"user", "resched"} :
        /\ pc' = [pc EXCEPT ![p] = place]
        /\ place = "user" => b'[p] = 0
  BY <1>1, <1>3 DEF Goto, Types
<1>5. PICK place \in {"user", "resched"} :
        /\ pc' = [pc EXCEPT ![p] = place]
        /\ place = "user" => b'[p] = 0
  BY <1>4
<1>6. pc' \in [Proc -> Places] /\ pc'[p] = place /\ \A o \in Proc : o # p => pc'[o] = pc[o]
  BY <1>1, <1>5 DEF Types, Places
<1>7. /\ msg' \in [Proc -> Seq({"x", "LF"})] /\ b' \in [Proc -> Nat] /\ shown' \in [Proc -> Int]
      /\ \A o \in Proc : b'[o] <= Len(msg'[o])
      /\ \A o \in Proc : o # p => b'[o] = b[o] /\ shown'[o] = shown[o]
      /\ shown[p] = b[p] => shown'[p] = b'[p]
  <2>1. CASE b[p] < Len(msg[p]) /\ Goto(p, "resched") /\ UNCHANGED <<msg, b, shown>>
    BY <1>1, <2>1 DEF Types
  <2>2. CASE /\ Goto(p, "user") /\ msg' = [msg EXCEPT ![p] = <<>>]
             /\ b' = [b EXCEPT ![p] = 0] /\ shown' = [shown EXCEPT ![p] = 0]
    <3>1. <<>> \in Seq({"x", "LF"}) /\ Len(<<>>) = 0 /\ 0 \in Nat /\ 0 \in Int /\ 0 <= 0
      OBVIOUS
    <3> QED
      BY <1>1, <2>2, <3>1 DEF Types
  <2> QED
    BY <1>3, <2>1, <2>2
<1>8. Types'
  BY <1>1, <1>2, <1>6, <1>7 DEF Types
<1>9. \A o \in Proc : o # p => pc[o] \notin InKernel
  BY <1>1 DEF OneRuns
<1>10. OneRuns'
  BY <1>1, <1>2, <1>5, <1>6, <1>7, <1>9 DEF OneRuns, InKernel
<1>11. ASSUME ~raced' PROVE Registers' /\ Shown'
  <2>1. ~raced /\ Shown /\ Registers
    BY <1>2, <1>11 DEF Inv
  <2>2. CHARS(write_q) = 0 /\ CHARS(write_q)' = 0
    BY <1>1, <1>2, <2>1 DEF Registers
  <2>3. Queue = write_q /\ Queue' = write_q'
    BY <1>1, <1>2 DEF Queue, Among, Filling, Taking
  <2>4. Registers'
    BY <1>6, <1>9, <2>2 DEF Registers, InKernel, Filling, Taking
  <2>5. /\ \A o \in Proc : shown[o] = b[o]
        /\ Fits(row, Cells(secondary))
        /\ cr_flag => last # "other"
    BY <2>1, <2>2, <2>3, IdleIs
  <2>6. \A o \in Proc : shown'[o] = b'[o]
    BY <1>7, <2>5
  <2>7. Shown'
    BY <1>2, <1>8, <2>2, <2>3, <2>5, <2>6, IdleIn
  <2> QED
    BY <2>4, <2>7
<1> QED
  BY <1>8, <1>10, <1>11 DEF Inv

-----------------------------------------------------------------------------
(* The interrupt.                                                          *)

LEMMA KeyboardInterruptInv ==
  ASSUME Inv, NEW k \in Key, KeyboardInterrupt(k)
  PROVE  Inv'
<1>1. Types /\ OneRuns /\ running \in Proc \cup {None}
  BY DEF Inv, Types
<1>2. UNCHANGED <<cr_flag, running, pc, msg, b, reg, nr>> /\ raced' = (raced \/ Unsafe)
  BY DEF KeyboardInterrupt
<1>3. PICK t0 : t0 = [Now EXCEPT !.read = PutQueue(k)]
  OBVIOUS
<1>4. PICK t : t = CopyToCooked(t0)
  OBVIOUS
<1>5. /\ read_q' = t.read /\ secondary' = t.sec /\ data' = t.data
      /\ IF raced'
           THEN /\ write_q' = [t.q EXCEPT !.buf = [i \in Index |-> Stale]]
                /\ shown' = [p \in Proc |-> 0] /\ last' = "other" /\ row' = Blank
           ELSE write_q' = t.q /\ shown' = t.shown /\ last' = t.last /\ row' = t.row
  BY <1>3, <1>4 DEF KeyboardInterrupt
<1>6. /\ t0 \in State /\ t0.q = write_q /\ t0.sec = secondary /\ t0.shown = shown
      /\ t0.last = last /\ t0.row = row
  <2>1. PutQueue(k) \in Seq(InChar) /\ Len(PutQueue(k)) < TTY_BUF_SIZE
    <3>1. k \in Seq(InChar) /\ read_q \in Seq(InChar) /\ Len(read_q) < TTY_BUF_SIZE
      BY <1>1, InputAssumption DEF InChar, Types
    <3>2. read_q \o k \in Seq(InChar) /\ Len(read_q \o k) = Len(read_q) + Len(k)
      BY <3>1
    <3> QED
      BY <3>1, <3>2 DEF PutQueue
  <2>2. Now \in State
    BY <1>1, NowIs
  <2>3. t0 \in State
    BY <1>3, <2>1, <2>2 DEF State
  <2> QED
    BY <1>3, <2>3 DEF Now
<1>7. /\ t \in State
      /\ ~raced => \A p, n, cr, s : t0 \in Fine(p, n, cr, s) => t \in Fine(p, n, cr, s)
  BY <1>4, <1>6, CopyToCookedKeeps
<1>8. raced' \in BOOLEAN
  BY <1>2
<1>9. /\ read_q' \in Seq(InChar) /\ Len(read_q') < TTY_BUF_SIZE
      /\ secondary' \in Seq(LineChar) /\ Len(secondary') < TTY_BUF_SIZE
      /\ data' \in Nat
  BY <1>5, <1>7 DEF State
<1>10. /\ write_q' \in Ring
       /\ shown' \in [Proc -> Int] /\ last' \in Lasts /\ row' \in Row
  <2>1. CASE raced'
    <3>1. Stale \in Cell
      BY DEF Stale, Cell, None
    <3>2. t.q \in Ring
      BY <1>7 DEF State
    <3>3. write_q' \in Ring
      BY <1>5, <2>1, <3>1, <3>2 DEF Ring
    <3>4. Blank \in Row /\ "other" \in Lasts
      BY BlankFits DEF Fits, Lasts
    <3> QED
      BY <1>5, <2>1, <3>3, <3>4
  <2>2. CASE ~raced'
    BY <1>5, <1>7, <2>2 DEF State
  <2> QED
    BY <2>1, <2>2
<1>11. Types'
  BY <1>1, <1>2, <1>8, <1>9, <1>10 DEF Types
<1>12. OneRuns'
  BY <1>1, <1>2 DEF OneRuns
<1>13. ASSUME ~raced' PROVE Registers' /\ Shown'
  <2>1. ~raced /\ ~Unsafe /\ Registers /\ Shown
    BY <1>2, <1>13 DEF Inv
  <2>2. /\ write_q' = t.q /\ shown' = t.shown /\ last' = t.last /\ row' = t.row
    BY <1>5, <1>13
  <2>3. /\ \A p \in Proc : pc[p] \notin Filling /\ pc[p] \notin Taking
        /\ \A p \in Proc : pc[p] = "get" => ~(nr[p] > 0)
        /\ ~(LEFT(write_q) < 2)
    BY <2>1 DEF Unsafe, Filling, Taking
  <2>4. Queue = write_q /\ Queue' = write_q'
    BY <1>2, <2>3 DEF Queue, Among
  <2>5. CHARS(write_q) \in Nat /\ CHARS(write_q) + 2 < TTY_BUF_SIZE
    <3>1. write_q.head \in Index /\ write_q.tail \in Index
      BY <1>1 DEF Types, Ring
    <3>2. CHARS(write_q) \in Index /\ LEFT(write_q) = TTY_BUF_SIZE - 1 - CHARS(write_q)
      BY <3>1, CountIs
    <3>3. CHARS(write_q) \in Nat
      BY <3>2 DEF Index
    <3> HIDE DEF CHARS, LEFT
    <3> QED
      BY <2>3, <3>2, <3>3, Sizes
  <2>6. PICK l \in Lasts :
          /\ cr_flag => l # "other"
          /\ Run(running, msg[running], write_q, CHARS(write_q), Sees(running),
                 <<Sent(running), l, Sees(running)[3]>>)
    BY <2>1, <2>4 DEF Shown, Flow
  <2>7. Shows(running, t0, Sees(running)) /\ Sees(running)[3] = Cells(t0.sec)
    <3>1. Sees(running) \in Mark /\ Sees(running)[3] = Cells(secondary)
      BY <2>5, <2>6, RunMarks DEF Sees
    <3>2. Shows(running, Now, Sees(running))
      BY <1>1, <2>1, <3>1, NowIs DEF Shown
    <3>3. Now.shown = t0.shown /\ Now.last = t0.last /\ Now.row = t0.row
      BY <1>6 DEF Now
    <3> QED
      BY <1>6, <3>1, <3>2, <3>3 DEF Shows
  <2>8. t0 \in Fine(running, Sent(running), cr_flag, t0)
    BY <1>6, <2>5, <2>6, <2>7 DEF Fine
  <2>9. t \in Fine(running, Sent(running), cr_flag, t0)
    BY <1>7, <2>1, <2>8
  <2>10. /\ \E l2, x2 : /\ (cr_flag => l2 # "other") /\ Shows(running, t, x2)
                        /\ Run(running, msg[running], t.q, CHARS(t.q), x2,
                               <<Sent(running), l2, Cells(t.sec)>>)
         /\ CHARS(t.q) = 0 \/ t.q = write_q
         /\ \A o \in Proc : o # running => t.shown[o] = shown[o]
    BY <1>6, <2>9 DEF Fine
  <2>11. NoEcho(t.q, CHARS(t.q))
    <3>1. NoEcho(write_q, CHARS(write_q))
      BY <2>1, <2>4 DEF Shown
    <3>2. \A q : NoEcho(q, 0)
      BY DEF NoEcho
    <3> QED
      BY <2>10, <3>1, <3>2
  <2>12. PICK l2, x2 : /\ (cr_flag => l2 # "other") /\ Shows(running, t, x2)
                       /\ Run(running, msg[running], t.q, CHARS(t.q), x2,
                              <<Sent(running), l2, Cells(t.sec)>>)
    BY <2>10
  <2>13. Flow(running, msg[running], Queue, Sees(running), Sent(running), cr_flag)' /\ x2[3] = Cells(t.sec)
    <3>1. PICK z : z = <<Sent(running), l2, Cells(t.sec)>>
      OBVIOUS
    <3>2. CHARS(t.q) \in Nat
      BY <1>7, RingCount
    <3>3. z[3] = x2[3] /\ z \in Mark
      BY <2>11, <2>12, <3>1, <3>2, NoEchoRun, RunMarks
    <3>4. x2[3] = Cells(t.sec) /\ l2 \in Lasts
      BY <3>1, <3>3 DEF Mark
    <3>5. x2 = <<x2[1], x2[2], x2[3]>>
      BY <2>12 DEF Shows, Mark
    <3>6. Sees(running)' = x2
      BY <1>2, <1>5, <2>2, <2>12, <3>4, <3>5 DEF Sees, Shows
    <3>7. Flow(running, msg[running], t.q, Sees(running)', Sent(running), cr_flag)
      BY <2>12, <3>4, <3>6 DEF Flow
    <3> QED
      BY <1>2, <2>2, <2>4, <3>4, <3>7 DEF Sent
  <2>14. \A o \in Proc : o # running' => shown'[o] = b'[o]
    BY <1>2, <2>1, <2>2, <2>10 DEF Shown
  <2>15. NoEcho(Queue', CHARS(Queue'))
    BY <2>2, <2>4, <2>11
  <2>16. Fits(row', Cells(secondary'))
    BY <1>5, <2>2, <2>12, <2>13 DEF Shows
  <2>17. Shown'
    BY <2>13, <2>14, <2>15, <2>16 DEF Shown
  <2>18. CHARS(write_q) = 0 => CHARS(write_q)' = 0
    BY <2>2, <2>10
  <2>19. \A p \in Proc : pc[p] = "get" => CHARS(write_q) = 0 /\ nr[p] = 0
    <3>1. \A p \in Proc : nr[p] \in Nat
      BY <1>1 DEF Types, Index
    <3> QED
      BY <2>1, <2>3, <3>1 DEF Registers
  <2>20. Registers'
    BY <1>2, <2>1, <2>3, <2>18, <2>19 DEF Registers, Among, Filling, Taking
  <2> QED
    BY <2>17, <2>20
<1> QED
  BY <1>11, <1>12, <1>13 DEF Inv

-----------------------------------------------------------------------------
(* The theorems.                                                           *)

\* The queue and the screen are what the processes have sent and what has been
\* typed, at every step of tty_write(), of con_write() and of the interrupt.
THEOREM InvHolds == Spec => []Inv
<1>1. Init => Inv
  BY InitInv
<1>2. Inv /\ [Next]_vars => Inv'
  <2> SUFFICES ASSUME Inv, [Next]_vars PROVE Inv'
    OBVIOUS
  <2>1. ASSUME NEW p \in Proc, Step(p) PROVE Inv'
    BY <2>1, SleepIfFullInv, PutCrInv, PutNextInv, LoadHeadInv, StoreHeadInv, WriteInv,
       GetInv, LoadTailInv, StoreTailInv, WrittenInv DEF Step
  <2>2. ASSUME NEW p \in Proc, Resume(p) PROVE Inv'
    BY <2>2, ResumeInv
  <2>3. ASSUME NEW p \in Proc, NEW m \in Message, Call(p, m) PROVE Inv'
    BY <2>3, CallInv
  <2>4. ASSUME NEW k \in Key, KeyboardInterrupt(k) PROVE Inv'
    BY <2>4, KeyboardInterruptInv
  <2>5. CASE UNCHANGED vars
    <3>1. UNCHANGED <<read_q, secondary, data, write_q, cr_flag, running, pc, msg, b, reg, nr,
                      shown, last, row, raced>>
      BY <2>5 DEF vars, input, screen
    <3>2. Types' /\ OneRuns'
      BY <3>1 DEF Inv, Types, OneRuns
    <3>3. Queue' = Queue
      BY <3>1 DEF Queue, Among
    <3>4. ~raced' => Shown'
      BY <3>1, <3>3, ShownSame DEF Inv
    <3>5. ~raced' => Registers'
      BY <3>1 DEF Inv, Registers, Among
    <3> QED
      BY <3>2, <3>4, <3>5 DEF Inv
  <2> QED
    BY <2>1, <2>2, <2>3, <2>4, <2>5 DEF Next
<1> QED
  BY <1>1, <1>2, PTL DEF Spec

\* Type correctness; put_queue() and copy_to_cooked() never put more into read_q and
\* secondary than their size less one.
THEOREM TypesCorrect == Spec => []TypeOK
<1>1. Inv => TypeOK
  <2> SUFFICES ASSUME Inv PROVE TypeOK
    OBVIOUS
  <2>1. Types
    BY DEF Inv
  <2>2. \A p \in Proc : b[p] \in 0 .. Len(msg[p])
    <3>1. \A p \in Proc : b[p] \in Nat /\ b[p] <= Len(msg[p]) /\ Len(msg[p]) \in Nat
      BY <2>1 DEF Types
    <3> QED
      BY <3>1
  <2> QED
    BY <2>1, <2>2 DEF Types, TypeOK, Ring
<1> QED
  BY <1>1, InvHolds, PTL

\* tty_write(): unless an echo races, every character is shown once and in order, each
\* line feed after a carriage return with nothing between but what keys echo, and when
\* con_write() is done all that was queued is there.
THEOREM WrittenCorrect == Spec => []WrittenIsShown
<1>1. Inv => WrittenIsShown
  <2> SUFFICES ASSUME Inv, ~raced, NEW p \in Proc
               PROVE  /\ shown[p] # Garbled
                      /\ pc[p] = "get" /\ nr[p] = 0 => shown[p] = b[p]
    BY DEF WrittenIsShown
  <2>1. Types /\ OneRuns /\ Registers /\ Shown /\ b[p] \in Nat
    BY DEF Inv, Types
  <2>2. CASE running # p
    <3>1. shown[p] = b[p]
      BY <2>1, <2>2 DEF Shown
    <3> QED
      BY <2>1, <3>1 DEF Garbled
  <2>3. CASE running = p
    <3>1. PICK l : Run(p, msg[p], Queue, CHARS(Queue), Sees(p), <<b[p], l, Sees(p)[3]>>)
      BY <2>1, <2>3 DEF Shown, Flow, Sent
    <3>2. CHARS(Queue) \in Nat
      <4>1. write_q \in Ring
        BY <2>1 DEF Types
      <4>2. Queue \in Ring
        BY <4>1, IncIs DEF Queue, Ring
      <4> QED
        BY <4>2, CountIs DEF Ring, Index
    <3>3. Sees(p) \in Mark /\ Sees(p)[1] = shown[p]
      BY <3>1, <3>2, RunMarks DEF Sees
    <3>4. shown[p] # Garbled
      BY <3>3 DEF Mark, Garbled
    <3>5. ASSUME pc[p] = "get", nr[p] = 0 PROVE shown[p] = b[p]
      <4>1. Queue = write_q /\ CHARS(write_q) = 0
        BY <2>1, <2>3, <3>5 DEF Queue, Among, Filling, Taking, Registers
      <4>2. Run(p, msg[p], Queue, 0, Sees(p), <<b[p], l, Sees(p)[3]>>)
        BY <3>1, <4>1
      <4>3. Sees(p) = <<b[p], l, Sees(p)[3]>>
        BY <4>2, RunEmpty
      <4> QED
        BY <3>3, <4>3
    <3> QED
      BY <3>4, <3>5
  <2> QED
    BY <2>2, <2>3
<1> QED
  BY <1>1, InvHolds, PTL

\* copy_to_cooked() and del() of the console: for every width of the screen and any keys
\* and messages, the cells left of the cursor are the echo of the line in secondary, as
\* long as the line is whole (on one row, nothing written in its midst, no character
\* with the left Alt key) and no echo has raced.
THEOREM EchoCorrect == Spec => []EchoIsTheLine
<1>1. Inv => EchoIsTheLine
  BY DEF Inv, Shown, EchoIsTheLine, Fits
<1> QED
  BY <1>1, InvHolds, PTL
=============================================================================
