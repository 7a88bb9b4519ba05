------------------------------ MODULE HardDisk ------------------------------
(***************************************************************************)
(* The hard disk driver, kernel/blk_drv/hd.c: do_hd_request() and the      *)
(* interrupt handlers it installs in do_hd, with their retry, reset and    *)
(* recalibrate logic.                                                      *)
(*                                                                         *)
(* A request is one block of two sectors, transferred sector by sector;    *)
(* each sector ends with an interrupt.  do_hd_request() is called by the   *)
(* handlers with interrupts disabled, or by add_request() when the queue   *)
(* was empty and so no command is outstanding: either way it runs to its   *)
(* end, and it is one step here.                                           *)
(*                                                                         *)
(* The controller is external: it answers each command with one interrupt  *)
(* per sector, well or with an error, and may refuse to take the data of a *)
(* write (DRQ does not come); a refused command does not interrupt later.  *)
(***************************************************************************)
EXTENDS Integers, Sequences

CONSTANTS
  NR_SECTS,    \* hd[dev].nr_sects, the size of the partition
  MAX_ERRORS,  \* 7 in the code
  MaxQueue     \* bound: requests queued at a time

ASSUME SizeAssumption   == NR_SECTS \in Nat /\ NR_SECTS >= 2
ASSUME ErrorsAssumption == MAX_ERRORS \in Nat /\ MAX_ERRORS >= 1
ASSUME QueueAssumption  == MaxQueue \in Nat /\ MaxQueue >= 1

VARIABLES
  queue,        \* CURRENT and its successors
  do_hd,        \* the handler of the next interrupt
  reset, recalibrate,
  ctl,          \* the controller: its command and how far it got
  outcome       \* the requests that ended in the last step

vars == <<queue, do_hd, reset, recalibrate, ctl, outcome>>

\* The first sectors of all blocks, and of one beyond the partition.
First == {2 * b : b \in 0 .. NR_SECTS \div 2}

\* half is the part of the buffer that `buffer' points to; good collects the
\* halves that were moved between their place in memory and their sector.
New(cmd, f) ==
  [cmd |-> cmd, first |-> f, sector |-> f, nr_sectors |-> 2, half |-> 0,
   errors |-> 0, good |-> {}]

Quiet == [cmd |-> "NONE", sector |-> 0, left |-> 0, half |-> 0, st |-> "idle"]

Init ==
  /\ queue = <<>>
  /\ do_hd = "none"
  /\ reset = TRUE /\ recalibrate = TRUE
  /\ ctl = Quiet
  /\ outcome = {}

-----------------------------------------------------------------------------
CURRENT == Head(queue)

\* The test asks for two sectors, however many the request still needs.
InRange(r) == r.sector + 2 <= NR_SECTS

Ended(r, ok) == [request |-> r, ok |-> ok]

HdOut(cmd, sector, n, half, st) ==
  ctl' = [cmd |-> cmd, sector |-> sector, left |-> n, half |-> half, st |-> st]

Transfer(r) ==
  /\ do_hd' = r.cmd
  /\ UNCHANGED recalibrate
  /\ \/ HdOut(r.cmd, r.sector, r.nr_sectors, r.half, "busy")
     \/ r.cmd = "WRITE" /\ HdOut(r.cmd, r.sector, r.nr_sectors, r.half, "refused")

\* do_hd_request() with the queue q, the flag rst and the handler h in do_hd;
\* the requests in `ended' ended before it was called.  It first ends those at
\* the head of the queue that are out of range.
DoHdRequest(q, rst, h, ended) ==
  \E k \in 0 .. Len(q) :
    /\ \A i \in 1 .. k : ~InRange(q[i])
    /\ k < Len(q) => InRange(q[k + 1])
    /\ queue'   = SubSeq(q, k + 1, Len(q))
    /\ outcome' = ended \cup {Ended(q[i], FALSE) : i \in 1 .. k}
    /\ reset'   = (rst /\ k = Len(q))
    /\ \/ k = Len(q) /\ ctl' = Quiet /\ do_hd' = h /\ UNCHANGED recalibrate
       \/ /\ k < Len(q) /\ rst
          /\ recalibrate' = TRUE
          /\ do_hd' = "RECAL" /\ HdOut("SPECIFY", 0, 1, 0, "busy")
       \/ /\ k < Len(q) /\ ~rst /\ recalibrate
          /\ recalibrate' = FALSE
          /\ do_hd' = "RECAL" /\ HdOut("RESTORE", 0, 1, 0, "busy")
       \/ k < Len(q) /\ ~rst /\ ~recalibrate /\ Transfer(q[k + 1])

\* Mutant: errors are not counted.
NotCounted == queue

\* Mutant: `>' instead of `>='.
AfterErrorLate ==
  LET r == [CURRENT EXCEPT !.errors = @ + 1]
  IN  IF r.errors > MAX_ERRORS THEN Tail(queue) ELSE <<r>> \o Tail(queue)

\* bad_rw_intr(): one more error; the last one allowed ends the request.
AfterError ==
  LET r == [CURRENT EXCEPT !.errors = @ + 1]
  IN  IF r.errors >= MAX_ERRORS THEN Tail(queue) ELSE <<r>> \o Tail(queue)

GivenUp ==
  IF CURRENT.errors + 1 >= MAX_ERRORS
    THEN {Ended([CURRENT EXCEPT !.errors = @ + 1], FALSE)} ELSE {}

\* It then looks at CURRENT->errors, although end_request() may have made
\* CURRENT the next request, or NULL: then the value is that of some memory.
ResetAfterError(rst) ==
  IF AfterError = <<>> THEN rst \in {reset, TRUE}
  ELSE rst = (reset \/ Head(AfterError).errors > MAX_ERRORS \div 2)

BadRw(h) == \E rst \in BOOLEAN :
  ResetAfterError(rst) /\ DoHdRequest(AfterError, rst, h, GivenUp)

-----------------------------------------------------------------------------
(* The handlers.  hd_interrupt takes the handler out of do_hd, so that one *)
(* that expects another interrupt must install itself again.               *)

Interrupted(h, st) == do_hd = h /\ ctl.st = st

\* The half in memory and the sector on the disk belong together.
Good(r, half) == IF ctl.sector = r.first + half THEN r.good \cup {half} ELSE r.good

\* Mutant: CURRENT->sector++ is forgotten.
ReadSectorStays(r) ==
  [r EXCEPT !.errors = 0, !.half = @ + 1, !.nr_sectors = @ - 1,
            !.good = Good(r, r.half)]

\* port_read() and what follows it in read_intr().
ReadSector(r) ==
  [r EXCEPT !.errors = 0, !.half = @ + 1, !.sector = @ + 1, !.nr_sectors = @ - 1,
            !.good = Good(r, r.half)]

ReadIntr ==
  /\ Interrupted("READ", "ok")
  /\ LET r == ReadSector(CURRENT)
     IN  IF r.nr_sectors # 0
           THEN /\ queue' = <<r>> \o Tail(queue)
                /\ ctl' = [ctl EXCEPT !.sector = @ + 1, !.left = @ - 1, !.st = "busy"]
                /\ outcome' = {}
                /\ do_hd' = "READ" /\ UNCHANGED <<reset, recalibrate>>
           ELSE DoHdRequest(Tail(queue), reset, "none", {Ended(r, TRUE)})

\* Mutant: the next sector is sent before `buffer' is moved on.
WriteIntrEarly ==
  /\ Interrupted("WRITE", "ok")
  /\ LET r == [CURRENT EXCEPT !.nr_sectors = @ - 1, !.good = Good(CURRENT, ctl.half)]
         s == [r EXCEPT !.sector = @ + 1, !.half = @ + 1]
     IN  IF r.nr_sectors # 0
           THEN /\ queue' = <<s>> \o Tail(queue)
                /\ ctl' = [ctl EXCEPT !.sector = @ + 1, !.left = @ - 1, !.st = "busy",
                                      !.half = r.half]
                /\ outcome' = {}
                /\ do_hd' = "WRITE" /\ UNCHANGED <<reset, recalibrate>>
           ELSE DoHdRequest(Tail(queue), reset, "none", {Ended(r, TRUE)})

\* A sector has been written: send the next one, or end the request.
WriteIntr ==
  /\ Interrupted("WRITE", "ok")
  /\ LET r == [CURRENT EXCEPT !.nr_sectors = @ - 1, !.good = Good(CURRENT, ctl.half)]
         s == [r EXCEPT !.sector = @ + 1, !.half = @ + 1]
     IN  IF r.nr_sectors # 0
           THEN /\ queue' = <<s>> \o Tail(queue)
                /\ ctl' = [ctl EXCEPT !.sector = @ + 1, !.left = @ - 1, !.st = "busy",
                                      !.half = s.half]
                /\ outcome' = {}
                /\ do_hd' = "WRITE" /\ UNCHANGED <<reset, recalibrate>>
           ELSE DoHdRequest(Tail(queue), reset, "none", {Ended(r, TRUE)})

RecalIntr ==
  /\ Interrupted("RECAL", "ok")
  /\ DoHdRequest(queue, reset, "none", {})

\* win_result() reports an error to any of the three handlers.
ErrorIntr == \E h \in {"READ", "WRITE", "RECAL"} : Interrupted(h, "err") /\ BadRw("none")

\* The controller does not ask for the data of a write within 3000 polls.
Refused == ctl.st = "refused" /\ BadRw(do_hd)

-----------------------------------------------------------------------------
\* add_request(): the driver is called when the queue was empty.  The buffer
\* is locked, so there is one request for a block at a time.
Submit(cmd, f) ==
  /\ ctl.st # "refused"
  /\ Len(queue) < MaxQueue
  /\ \A i \in 1 .. Len(queue) : queue[i].first # f
  /\ IF queue = <<>>
       THEN DoHdRequest(<<New(cmd, f)>>, reset, do_hd, {})
       ELSE /\ queue' = Append(queue, New(cmd, f))
            /\ outcome' = {}
            /\ UNCHANGED <<do_hd, reset, recalibrate, ctl>>

\* The controller answers.
Answer ==
  /\ ctl.st = "busy"
  /\ \E st \in {"ok", "err"} : ctl' = [ctl EXCEPT !.st = st]
  /\ outcome' = {}
  /\ UNCHANGED <<queue, do_hd, reset, recalibrate>>

Driver == ReadIntr \/ WriteIntr \/ RecalIntr \/ ErrorIntr \/ Refused

Next ==
  \/ \E cmd \in {"READ", "WRITE"}, f \in First : Submit(cmd, f)
  \/ Answer
  \/ Driver

Spec == Init /\ [][Next]_vars

\* Interrupts are taken and the controller answers (see the head comment).
Fairness == WF_vars(Answer) /\ WF_vars(Driver)

FairSpec == Spec /\ Fairness

-----------------------------------------------------------------------------
(* Properties.                                                             *)

Request ==
  [cmd : {"READ", "WRITE"}, first : First, sector : 0 .. NR_SECTS, nr_sectors : 1 .. 2,
   half : 0 .. 1, errors : 0 .. MAX_ERRORS - 1, good : SUBSET (0 .. 1)]

\* Every variable has its type; a queued request has had fewer errors than the
\* maximum.
TypeOK ==
  /\ queue \in Seq(Request)
  /\ do_hd \in {"none", "RECAL", "READ", "WRITE"}
  /\ reset \in BOOLEAN /\ recalibrate \in BOOLEAN
  /\ ctl.cmd \in {"NONE", "SPECIFY", "RESTORE", "READ", "WRITE"}
  /\ ctl.st \in {"idle", "busy", "ok", "err", "refused"}
  /\ \A e \in outcome : e.ok \in BOOLEAN

\* The driver and the controller agree: there is a command outstanding exactly
\* when there is a request, the handler installed is the one for it, and a
\* transfer is at the very sector and half of the buffer where CURRENT is, in
\* the first try and after every error, reset and recalibration.
CommandIsCurrent ==
  /\ (queue = <<>>) <=> (ctl.st = "idle")
  /\ ctl.cmd \in {"SPECIFY", "RESTORE"} => do_hd = "RECAL"
  /\ ctl.cmd \in {"READ", "WRITE"} =>
       /\ do_hd = ctl.cmd /\ CURRENT.cmd = ctl.cmd
       /\ ctl.sector = CURRENT.sector /\ ctl.left = CURRENT.nr_sectors
       /\ ctl.sector = CURRENT.first + CURRENT.half
       /\ ctl.cmd = "WRITE" => ctl.half = CURRENT.half

\* A request that ends well has moved both halves of its block, each between
\* its place in the buffer and its sector, whatever went wrong on the way.
SuccessIsComplete ==
  \A e \in outcome : e.ok => e.request.good = {0, 1}

\* Every request ends: errors, resets and recalibrations cannot go on for ever.
RequestEnds ==
  \A f \in First :
    (\E i \in 1 .. Len(queue) : queue[i].first = f)
      ~> ~(\E i \in 1 .. Len(queue) : queue[i].first = f)
=============================================================================
