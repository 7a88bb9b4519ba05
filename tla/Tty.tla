--------------------------------- MODULE Tty ---------------------------------
(***************************************************************************)
(* The terminal, kernel/chr_drv/tty_io.c with include/linux/tty.h, the end *)
(* of the keyboard interrupt (keyboard.S) and the loop of con_write() that *)
(* empties the write queue (console.c).                                    *)
(*                                                                         *)
(* Processes write through tty_write(); nothing disables interrupts there, *)
(* and the keyboard interrupt, which runs copy_to_cooked() and echoes      *)
(* through the same write queue and the same con_write(), may come between *)
(* any two steps.  It is one step itself: the next key comes long after.   *)
(*                                                                         *)
(* The write queue is the ring of tty.h.  read_q and secondary are         *)
(* sequences: put_queue() and copy_to_cooked() look for room, and for a    *)
(* character, before each access.  A process that gave up the processor is *)
(* chosen again by Sched.                                                  *)
(*                                                                         *)
(* Of the characters: "a" is any that is echoed as itself, "^A" one that   *)
(* is echoed as '^' and another one.  The left Alt key makes a character   *)
(* negative (keyboard.S:523): with a small letter it is like "^A"; "M-1"   *)
(* is one of those whose echo is '^' alone, and "M-M" one that is obeyed.  *)
(* Not modelled are the three whose echo moves the cursor otherwise (Alt   *)
(* with '[', H or I), and writing anything but plain characters and line   *)
(* feeds.                                                                  *)
(***************************************************************************)
EXTENDS Integers, Sequences, FiniteSets, SequencesExt

CONSTANTS
  Proc,
  TTY_BUF_SIZE,  \* 1024 in the code
  video_num_columns,  \* 80 on most adapters
  Message,       \* the strings that are written
  Key,           \* the characters a key puts into the read queue
  MaxBacklog,    \* bound: no more keys when more than so many wait in read_q
  AfterRace      \* bound: whether keys still come after a race

ASSUME ProcAssumption == "echo" \notin Proc /\ "none" \notin Proc
ASSUME SizeAssumption == TTY_BUF_SIZE \in Nat /\ TTY_BUF_SIZE >= 2
ASSUME InputAssumption ==
  /\ video_num_columns \in Nat \ {0}
  /\ Message \subseteq Seq({"x", "LF"})
  /\ Key \subseteq Seq({"a", "^A", "M-1", "M-M", "CR", "^D", "DEL", "^U", "^S"})
  /\ MaxBacklog \in Nat /\ AfterRace \in BOOLEAN

VARIABLES
  read_q, secondary, data,  \* data is secondary.data, a count of lines
  write_q,
  cr_flag,                  \* static in tty_write(): one for all processes
  running,                  \* the process in the kernel, if any
  pc, msg, b, reg, nr,      \* of each process: its place, buf, b - buf, a register
  shown, last, row,         \* ghosts: what has appeared on the screen
  raced                     \* ghost: an echo came at a moment when it harms

input  == <<read_q, secondary, data>>
screen == <<shown, last, row>>
vars == <<input, write_q, cr_flag, running, pc, msg, b, reg, nr, screen, raced>>

None == "none"
Index == 0 .. TTY_BUF_SIZE - 1

\* tty.h
INC(i)   == (i + 1) % TTY_BUF_SIZE
EMPTY(q) == q.head = q.tail
LEFT(q)  == (q.tail - q.head - 1) % TTY_BUF_SIZE
FULL(q)  == LEFT(q) = 0
CHARS(q) == (q.head - q.tail) % TTY_BUF_SIZE

PUTCH(c, q) == [q EXCEPT !.buf[q.head] = c, !.head = INC(@)]

\* A character in the write queue: the i-th of what a process writes, or the
\* carriage return before a line feed (i = 0), or an echo.
Char(p, i) == [from |-> p, i |-> i, is |-> "written"]
Echo(c)    == [from |-> "echo", i |-> 0, is |-> c]
Stale      == [from |-> None, i |-> 0, is |-> "taken"]

-----------------------------------------------------------------------------
(* What appears on the screen.  s has the fields shown, last and row.      *)
(* shown[p] is how many characters of its string p has seen appear, in     *)
(* order and each line feed after a carriage return, or Garbled; last is   *)
(* what has appeared last: a carriage return, that and an echo, or else.   *)
(* Nothing else depends on what the ring contains; after a race they and   *)
(* it are given up.                                                        *)

Garbled == -1

Follows(p, i, s) == i = s.shown[p] + 1 /\ (msg[p][i] = "LF" => s.last # "other")

(* The row of the cursor: its column x and, on the left of it, echo cells  *)
(* of the line that is being typed, as long as they are whole: all there,  *)
(* in one piece and nothing else.                                          *)

Blank    == [x |-> 0, echo |-> 0, whole |-> TRUE]
Anew(r)  == [x |-> r.x, echo |-> 0, whole |-> TRUE]   \* a line begins
Torn(r)  == [x |-> r.x, echo |-> 0, whole |-> FALSE]
Leave(r) == IF r.echo = 0 THEN r ELSE Torn(r)       \* something comes behind the echo

Glyph(r) ==
  IF r.x < video_num_columns THEN [r EXCEPT !.x = @ + 1] ELSE [Leave(r) EXCEPT !.x = 1]

WrittenOn(is, r) ==
  CASE is = "CR" -> [Leave(r) EXCEPT !.x = 0]
    [] is = "LF" -> Leave(r)
    [] OTHER     -> Glyph(Leave(r))

\* del() erases whatever is on the left of the cursor, if there is anything.
EchoOn(is, r) ==
  CASE is = "glyph" -> LET g == Glyph(r) IN [g EXCEPT !.echo = IF g.whole THEN @ + 1 ELSE 0]
    [] is = "DEL"   -> [r EXCEPT !.x = IF @ > 0 THEN @ - 1 ELSE 0,
                                 !.echo = IF r.whole THEN @ - 1 ELSE 0]
    [] is = "CR"    -> [Torn(r) EXCEPT !.x = 0]
    [] OTHER        -> Torn(r)

Display(c, s) ==
  IF raced THEN s ELSE
  CASE c.from \in Proc /\ c.i = 0 -> [s EXCEPT !.last = "CR", !.row = WrittenOn("CR", s.row)]
    [] c.from \in Proc /\ c.i # 0 ->
         [s EXCEPT !.last = "other", !.row = WrittenOn(msg[c.from][c.i], s.row),
                   !.shown[c.from] = IF Follows(c.from, c.i, s) THEN c.i ELSE Garbled]
    [] c.from = "echo" ->
         [s EXCEPT !.last = IF s.last = "CR" THEN "echoed" ELSE s.last,
                   !.row = EchoOn(c.is, s.row)]
    [] OTHER -> s

-----------------------------------------------------------------------------
Init ==
  /\ read_q = <<>> /\ secondary = <<>> /\ data = 0
  /\ write_q = [head |-> 0, tail |-> 0, buf |-> [i \in Index |-> Stale]]
  /\ cr_flag = FALSE
  /\ running = None
  /\ pc = [p \in Proc |-> "user"] /\ msg = [p \in Proc |-> <<>>]
  /\ b = [p \in Proc |-> 0] /\ reg = [p \in Proc |-> 0] /\ nr = [p \in Proc |-> 0]
  /\ shown = [p \in Proc |-> 0] /\ last = "other" /\ row = Blank
  /\ raced = FALSE

-----------------------------------------------------------------------------
(* The keyboard interrupt.  t has the fields of the input, of the screen   *)
(* and q, the write queue.                                                 *)

Now == [read |-> read_q, sec |-> secondary, data |-> data, q |-> write_q,
        shown |-> shown, last |-> last, row |-> row]

\* con_write() from copy_to_cooked(): all that is queued, uninterrupted.
ConWrite(t) ==
  LET taken[n \in 0 .. CHARS(t.q)] ==
        IF n = 0 THEN t
        ELSE LET u == taken[n - 1]
             IN  [Display(u.q.buf[u.q.tail], u) EXCEPT !.q.buf[u.q.tail] = Stale,
                                                       !.q.tail = INC(@)]
  IN  taken[CHARS(t.q)]

\* The echo is put into the write queue whether there is room or not.
Echoed(t, cs) ==
  LET queued[n \in 0 .. Len(cs)] ==
        IF n = 0 THEN t.q ELSE PUTCH(Echo(cs[n]), queued[n - 1])
  IN  ConWrite([t EXCEPT !.q = queued[Len(cs)]])

\* c < 32: a char is signed, so with the left Alt key too.
IsControl(c) == c \in {"^A", "^D", "M-1", "M-M"}
EndsLine(c)  == c \in {"LF", "^D"}   \* no erasing past these
Erasable(t)  == t.sec # <<>> /\ ~EndsLine(Last(t.sec))

\* Mutant: one cell, whatever the character.
EraseOneCell(t) ==
  LET u == [Echoed(t, <<"DEL">>) EXCEPT !.sec = Front(@)]
  IN  IF Erasable(u) \/ u.row.whole THEN u ELSE [u EXCEPT !.row = Anew(@)]

\* One character of the typed line is rubbed out, and its echo; that of a control
\* character is two cells.
EraseChar(t) ==
  LET rubout == IF IsControl(Last(t.sec)) THEN <<"DEL", "DEL">> ELSE <<"DEL">>
      u      == [Echoed(t, rubout) EXCEPT !.sec = Front(@)]
  IN  IF Erasable(u) \/ u.row.whole THEN u ELSE [u EXCEPT !.row = Anew(@)]

KillLine(t) ==
  LET killed[n \in 0 .. Len(t.sec)] ==
        IF n = 0 THEN t
        ELSE IF Erasable(killed[n - 1]) THEN EraseChar(killed[n - 1]) ELSE killed[n - 1]
  IN  killed[Len(t.sec)]

\* Of a control character '^' and c + 64.  With the left Alt key and a key of less
\* than 96, before the small letters, that is no glyph: con_write() ignores or obeys it.
EchoOf(c) ==
  CASE c = "LF"  -> <<"LF", "CR">>
    [] c = "M-1" -> <<"glyph", "ignored">>
    [] c = "M-M" -> <<"glyph", "CR">>
    [] c \in {"^A", "^D"} -> <<"glyph", "glyph">>
    [] OTHER     -> <<"glyph">>

Store(t, c) ==
  [Echoed([t EXCEPT !.data = IF EndsLine(c) THEN @ + 1 ELSE @], EchoOf(c))
     EXCEPT !.sec = Append(@, c), !.row = IF EndsLine(c) THEN Anew(@) ELSE @]

\* One turn of the loop of copy_to_cooked().  tty->stopped, which "^S" sets, is
\* never looked at.
CookOne(t) ==
  LET c == IF Head(t.read) = "CR" THEN "LF" ELSE Head(t.read)
      u == [t EXCEPT !.read = Tail(@)]
  IN  CASE c = "^U"  -> KillLine(u)
        [] c = "DEL" -> IF Erasable(u) THEN EraseChar(u) ELSE u
        [] c = "^S"  -> u
        [] OTHER     -> Store(u, c)

CopyToCooked(t) ==
  LET cooked[n \in 0 .. Len(t.read)] ==
        IF n = 0 THEN t
        ELSE LET u == cooked[n - 1]
             IN  IF Len(u.sec) = TTY_BUF_SIZE - 1 THEN u ELSE CookOne(u)
  IN  cooked[Len(t.read)]

\* Mutant: the room is not looked at.
PutQueueAlways(k) == read_q \o k

\* put_queue(): all the characters of a key, or none when they do not fit.
PutQueue(k) ==
  IF Len(read_q) + Len(k) < TTY_BUF_SIZE THEN read_q \o k ELSE read_q

\* An echo harms when the process is between reading head or tail and writing it
\* back, or in the loop of con_write(), or when two characters do not fit.
Unsafe ==
  \/ \E p \in Proc : \/ pc[p] \in {"load_head", "store_head", "load_tail", "store_tail"}
                     \/ pc[p] = "get" /\ nr[p] > 0
  \/ LEFT(write_q) < 2

KeyboardInterrupt(k) ==
  LET t == CopyToCooked([Now EXCEPT !.read = PutQueue(k)])
  IN  /\ Len(read_q) <= MaxBacklog /\ (raced => AfterRace)
      /\ read_q' = t.read /\ secondary' = t.sec /\ data' = t.data
      /\ raced' = (raced \/ Unsafe)
      /\ IF raced'
           THEN /\ write_q' = [t.q EXCEPT !.buf = [i \in Index |-> Stale]]
                /\ shown' = [p \in Proc |-> 0] /\ last' = "other" /\ row' = Blank
           ELSE write_q' = t.q /\ shown' = t.shown /\ last' = t.last /\ row' = t.row
      /\ UNCHANGED <<cr_flag, running, pc, msg, b, reg, nr>>

-----------------------------------------------------------------------------
(* tty_write().  PUTCH and GETCH are compiled into an access to buf, a     *)
(* load of the index, and a store.                                         *)

Goto(p, place) == pc' = [pc EXCEPT ![p] = place]
At(p, place)   == running = p /\ pc[p] = place

Call(p, m) ==
  /\ running = None /\ pc[p] = "user"
  /\ running' = p /\ Goto(p, "wait")
  /\ msg' = [msg EXCEPT ![p] = m]
  /\ UNCHANGED <<input, write_q, cr_flag, b, reg, nr, screen, raced>>

\* sleep_if_full().  The process waits for more room than a full queue has, and
\* no wake_up() names the write queue.
SleepIfFull(p) ==
  /\ At(p, "wait")
  /\ IF FULL(write_q) THEN Goto(p, "asleep") /\ running' = None
     ELSE Goto(p, "fill") /\ UNCHANGED running
  /\ UNCHANGED <<input, write_q, cr_flag, msg, b, reg, nr, screen, raced>>

Put(p, c) ==
  /\ write_q' = [write_q EXCEPT !.buf[write_q.head] = IF raced THEN Stale ELSE c]
  /\ Goto(p, "load_head")

More(p) == b[p] < Len(msg[p]) /\ ~FULL(write_q)

PutCr(p) ==
  /\ At(p, "fill") /\ More(p)
  /\ msg[p][b[p] + 1] = "LF" /\ ~cr_flag
  /\ cr_flag' = TRUE
  /\ Put(p, Char(p, 0))
  /\ UNCHANGED <<input, running, msg, b, reg, nr, screen, raced>>

\* Mutant: cr_flag stays set after a line feed.
PutNextKeepsFlag(p) ==
  /\ At(p, "fill") /\ More(p)
  /\ msg[p][b[p] + 1] # "LF" \/ cr_flag
  /\ b' = [b EXCEPT ![p] = @ + 1]
  /\ Put(p, Char(p, b[p] + 1))
  /\ UNCHANGED <<input, cr_flag, running, msg, reg, nr, screen, raced>>

PutNext(p) ==
  /\ At(p, "fill") /\ More(p)
  /\ msg[p][b[p] + 1] # "LF" \/ cr_flag
  /\ cr_flag' = FALSE
  /\ b' = [b EXCEPT ![p] = @ + 1]
  /\ Put(p, Char(p, b[p] + 1))
  /\ UNCHANGED <<input, running, msg, reg, nr, screen, raced>>

LoadHead(p) ==
  /\ At(p, "load_head")
  /\ reg' = [reg EXCEPT ![p] = write_q.head] /\ Goto(p, "store_head")
  /\ UNCHANGED <<input, write_q, cr_flag, running, msg, b, nr, screen, raced>>

StoreHead(p) ==
  /\ At(p, "store_head")
  /\ write_q' = [write_q EXCEPT !.head = INC(reg[p])] /\ Goto(p, "fill")
  /\ reg' = [reg EXCEPT ![p] = 0]
  /\ UNCHANGED <<input, cr_flag, running, msg, b, nr, screen, raced>>

\* Mutant: only a whole message is shown; a full queue is waited for.
WriteWhole(p) ==
  /\ At(p, "fill") /\ ~More(p)
  /\ IF b[p] < Len(msg[p]) THEN Goto(p, "resched") /\ running' = None /\ UNCHANGED nr
     ELSE Goto(p, "get") /\ nr' = [nr EXCEPT ![p] = CHARS(write_q)] /\ UNCHANGED running
  /\ UNCHANGED <<input, write_q, cr_flag, msg, b, reg, screen, raced>>

\* con_write() looks at the length of the queue once.
Write(p) ==
  /\ At(p, "fill") /\ ~More(p)
  /\ nr' = [nr EXCEPT ![p] = CHARS(write_q)] /\ Goto(p, "get")
  /\ UNCHANGED <<input, write_q, cr_flag, running, msg, b, reg, screen, raced>>

Get(p) ==
  /\ At(p, "get") /\ nr[p] > 0
  /\ nr' = [nr EXCEPT ![p] = @ - 1]
  /\ LET s == Display(write_q.buf[write_q.tail], Now)
     IN  shown' = s.shown /\ last' = s.last /\ row' = s.row
  /\ write_q' = [write_q EXCEPT !.buf[write_q.tail] = Stale]
  /\ Goto(p, "load_tail")
  /\ UNCHANGED <<input, cr_flag, running, msg, b, reg, raced>>

LoadTail(p) ==
  /\ At(p, "load_tail")
  /\ reg' = [reg EXCEPT ![p] = write_q.tail] /\ Goto(p, "store_tail")
  /\ UNCHANGED <<input, write_q, cr_flag, running, msg, b, nr, screen, raced>>

StoreTail(p) ==
  /\ At(p, "store_tail")
  /\ write_q' = [write_q EXCEPT !.tail = INC(reg[p])] /\ Goto(p, "get")
  /\ reg' = [reg EXCEPT ![p] = 0]
  /\ UNCHANGED <<input, cr_flag, running, msg, b, nr, screen, raced>>

\* con_write() is done: return, or schedule() when characters are left.
Written(p) ==
  /\ At(p, "get") /\ nr[p] = 0
  /\ running' = None
  /\ IF b[p] < Len(msg[p])
       THEN Goto(p, "resched") /\ UNCHANGED <<msg, b, shown>>
       ELSE /\ Goto(p, "user")
            /\ msg' = [msg EXCEPT ![p] = <<>>] /\ b' = [b EXCEPT ![p] = 0]
            /\ shown' = [shown EXCEPT ![p] = 0]
  /\ UNCHANGED <<input, write_q, cr_flag, reg, nr, last, row, raced>>

Resume(p) ==
  /\ running = None /\ pc[p] = "resched"
  /\ running' = p /\ Goto(p, "wait")
  /\ UNCHANGED <<input, write_q, cr_flag, msg, b, reg, nr, screen, raced>>

Step(p) ==
  \/ SleepIfFull(p) \/ PutCr(p) \/ PutNext(p) \/ LoadHead(p) \/ StoreHead(p)
  \/ Write(p) \/ Get(p) \/ LoadTail(p) \/ StoreTail(p) \/ Written(p)

Next ==
  \/ \E p \in Proc : Step(p) \/ Resume(p) \/ \E m \in Message : Call(p, m)
  \/ \E k \in Key : KeyboardInterrupt(k)

Spec == Init /\ [][Next]_vars

\* A process in the kernel goes on, and schedule() returns to everybody: that is
\* RunnableTaskRuns of Sched.
Fairness == \A p \in Proc : WF_vars(Step(p)) /\ SF_vars(Resume(p))
FairSpec == Spec /\ Fairness

-----------------------------------------------------------------------------
Places == {"user", "wait", "asleep", "fill", "load_head", "store_head", "get",
           "load_tail", "store_tail", "resched"}

\* Every variable has its type; read_q and secondary, whose users look for room, hold
\* no more than TTY_BUF_SIZE - 1 characters.
TypeOK ==
  /\ Len(read_q) < TTY_BUF_SIZE /\ Len(secondary) < TTY_BUF_SIZE
  /\ write_q.head \in Index /\ write_q.tail \in Index
  /\ cr_flag \in BOOLEAN /\ raced \in BOOLEAN
  /\ running \in Proc \cup {None}
  /\ pc \in [Proc -> Places]
  /\ \A p \in Proc : b[p] \in 0 .. Len(msg[p]) /\ nr[p] \in Index /\ reg[p] \in Index

\* Every character that a process writes appears once and in order, whatever other
\* processes write between its chunks and whatever is echoed, unless an echo races;
\* after each chunk all that was put in the queue is there.  Each of its line feeds
\* comes after a carriage return, with nothing between but what keys echo: cr_flag
\* stays set while the writer is interrupted or gives up the processor.  (That it
\* appears is all: a DEL may rub it out later.)
WrittenIsShown ==
  ~raced => \A p \in Proc :
    /\ shown[p] # Garbled
    /\ pc[p] = "get" /\ nr[p] = 0 => shown[p] = b[p]

Cells(line) ==
  LET upto[n \in 0 .. Len(line)] ==
        IF n = 0 \/ EndsLine(line[n]) THEN 0
        ELSE upto[n - 1] + (IF IsControl(line[n]) THEN 2 ELSE 1)
  IN  upto[Len(line)]

\* The cells on the left of the cursor are the echo of the line being typed: each
\* character that DEL or ^U takes from the line takes its echo with it, one cell or
\* two, and nothing else.  Only as long as the line is whole: on one row of the
\* screen, nothing written in its midst, no character in it with the left Alt key;
\* and no echo has raced.
EchoIsTheLine ==
  ~raced /\ row.whole => row.echo = Cells(secondary) /\ row.echo <= row.x

\* tty_write() returns, or a race has left the queue full with nobody to empty it.
WriteReturns == \A p \in Proc : pc[p] # "user" ~> pc[p] = "user" \/ raced
=============================================================================
