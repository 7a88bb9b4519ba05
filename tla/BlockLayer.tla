----------------------------- MODULE BlockLayer -----------------------------
(***************************************************************************)
(* The block request layer: ll_rw_block(), make_request() and              *)
(* add_request() of kernel/blk_drv/ll_rw_blk.c and end_request() of        *)
(* kernel/blk_drv/blk.h, between the buffer cache above and the disk       *)
(* driver below.                                                           *)
(*                                                                         *)
(* make_request() runs with interrupts enabled except in its cli .. sti    *)
(* sections, so the interrupt that ends the current request may strike     *)
(* between any two steps of a process; another process, however, runs      *)
(* only when this one sleeps or returns (`running').                       *)
(*                                                                         *)
(* A buffer stands for one block of one device and is identified with its  *)
(* rank in the order (device, sector).  The driver is reduced to what the  *)
(* layer sees of it: it is started, moves the data at some moment, and     *)
(* interrupts with success or failure.  That a process blocked in          *)
(* lock_buffer() is woken when the buffer is unlocked is module Sched's    *)
(* subject: here it simply proceeds once the buffer is free.               *)
(***************************************************************************)
EXTENDS Integers, Sequences, FiniteSets

CONSTANTS
  Proc,        \* processes that do block I/O
  NBuf,        \* number of buffers, one block each
  NR_REQUEST,  \* request slots, 32 in the code
  MaxFailed,   \* bound: number of blocks with a defect
  None         \* a null process pointer

ASSUME BuffersAssumption == NBuf \in Nat /\ NBuf >= 1
ASSUME RequestsAssumption == NR_REQUEST \in Nat /\ NR_REQUEST >= 2
ASSUME NoneAssumption == None \notin Proc

Buffer == 1 .. NBuf
Slot   == 0 .. NR_REQUEST - 1

READ  == 0
WRITE == 1

VARIABLES
  \* struct buffer_head
  b_lock, b_dirt, b_uptodate,
  loaded,      \* the memory of the buffer was filled from the disk once
  synced,      \* the memory of the buffer equals the block on the disk
  failed,      \* an I/O on the buffer ended with an error
  \* struct request and the device's queue
  request,     \* slot -> its request, or Free (dev = -1)
  queue,       \* current_request and its successors
  wait_for_request,  \* head of the queue of processes that need a slot
  \* the driver
  device,      \* "idle" or "busy"
  moved,       \* data of the current write: not yet moved, moved, outdated
  \* the processes
  running,     \* the process inside make_request that has the processor
  pc, call,    \* where a process is, and the arguments of its ll_rw_block
  slot,        \* the local variable req
  tmp,         \* the local variable tmp of sleep_on(&wait_for_request)
  asleep       \* processes whose state is TASK_UNINTERRUPTIBLE

buffers  == <<b_lock, b_dirt, b_uptodate, loaded, synced, failed>>
requests == <<request, queue>>
driver   == <<device, moved>>
sleepers == <<wait_for_request, tmp, asleep>>
local    == <<call, slot>>
vars     == <<buffers, requests, driver, sleepers, local, running, pc>>

Free == [cmd |-> -1, bh |-> 0]
Request == [cmd : {READ, WRITE}, bh : Buffer]

\* The arguments of ll_rw_block: READA and WRITEA are reads and writes that
\* may be given up (rw_ahead).
Call == [rw : {READ, WRITE}, ahead : BOOLEAN, bh : Buffer]
NoCall == [rw |-> READ, ahead |-> FALSE, bh |-> 1]

Init ==
  /\ b_lock     = [b \in Buffer |-> FALSE]
  /\ b_dirt     = [b \in Buffer |-> FALSE]
  /\ b_uptodate = [b \in Buffer |-> FALSE]
  /\ loaded     = [b \in Buffer |-> FALSE]
  /\ synced     = [b \in Buffer |-> FALSE]
  /\ failed     = {}
  /\ request    = [i \in Slot |-> Free]
  /\ queue      = <<>>
  /\ wait_for_request = None
  /\ device     = "idle"
  /\ moved      = "no"
  /\ running    = None
  /\ pc         = [p \in Proc |-> "idle"]
  /\ call       = [p \in Proc |-> NoCall]
  /\ slot       = [p \in Proc |-> 0]
  /\ tmp        = [p \in Proc |-> None]
  /\ asleep     = {}

-----------------------------------------------------------------------------
(* The elevator.                                                           *)

\* IN_ORDER(s1, s2) of blk.h: by command, then by block.
InOrder(i, j) ==
  \/ request[i].cmd < request[j].cmd
  \/ request[i].cmd = request[j].cmd /\ request[i].bh < request[j].bh

\* Mutant: the end of the sweep is not recognised.
FitsNoWrap(k, r) == InOrder(queue[k], r) /\ InOrder(r, queue[k + 1])

\* The new request r may follow the one at position k of the queue.
Fits(k, r) ==
  /\ InOrder(queue[k], r) \/ ~InOrder(queue[k], queue[k + 1])
  /\ InOrder(r, queue[k + 1])

\* The loop of add_request stops at the first place that fits, or at the end.
Place(r) ==
  LET fits == {k \in 1 .. Len(queue) - 1 : Fits(k, r)}
  IN  IF fits = {} THEN Len(queue) ELSE CHOOSE k \in fits : \A j \in fits : k <= j

Inserted(r) ==
  LET k == Place(r)
  IN  SubSeq(queue, 1, k) \o <<r>> \o SubSeq(queue, k + 1, Len(queue))

-----------------------------------------------------------------------------
(* Helpers of the steps.                                                   *)

Goto(p, place) == pc' = [pc EXCEPT ![p] = place]
At(p, place)   == running = p /\ pc[p] = place
Bh(p)          == call[p].bh

\* The process sleeps or returns: another one may run.
LeaveTo(p, place) == running' = None /\ Goto(p, place)

Return(p) ==
  /\ LeaveTo(p, "idle")
  /\ call' = [call EXCEPT ![p] = NoCall]
  /\ slot' = [slot EXCEPT ![p] = 0]

\* Writes may use the lower two thirds of the slots only.
SlotsFor(rw) == {i \in Slot : rw = WRITE => i < (NR_REQUEST * 2) \div 3}

FreeSlots(rw) == {i \in SlotsFor(rw) : request[i] = Free}

-----------------------------------------------------------------------------
(* Steps of a process.                                                     *)

\* A holder of the buffer changes its data and sets b_dirt, without locking
\* it: as write_inode() and free_block() do after a bread().
Modify(b) ==
  /\ running = None /\ loaded[b]
  /\ b_dirt' = [b_dirt EXCEPT ![b] = TRUE]
  /\ synced' = [synced EXCEPT ![b] = FALSE]
  /\ moved'  = IF moved = "yes" /\ request[Head(queue)].bh = b THEN "outdated" ELSE moved
  /\ UNCHANGED <<b_lock, b_uptodate, loaded, failed, requests, device, sleepers,
                 local, running, pc>>

\* ll_rw_block() for a device with a driver (for any other it returns at once): READA
\* and WRITEA on a locked buffer are dropped.
Enter(p) ==
  /\ running = None /\ pc[p] = "idle"
  /\ \E c \in Call :
       /\ c.rw = WRITE => loaded[c.bh]
       /\ ~(c.ahead /\ b_lock[c.bh])
       /\ call' = [call EXCEPT ![p] = c]
  /\ running' = p
  /\ Goto(p, "lock")
  /\ UNCHANGED <<buffers, requests, driver, sleepers, slot>>

\* lock_buffer() finds the buffer locked: the process sleeps.
Blocked(p) ==
  /\ At(p, "lock") /\ b_lock[Bh(p)]
  /\ LeaveTo(p, "lock")
  /\ UNCHANGED <<buffers, requests, driver, sleepers, local>>

\* Mutant: lock_buffer() does not test the bit again after sleeping.
LockNoTest(p) ==
  /\ running \in {p, None} /\ pc[p] = "lock"
  /\ b_lock' = [b_lock EXCEPT ![Bh(p)] = TRUE]
  /\ running' = p
  /\ Goto(p, "check")
  /\ UNCHANGED <<b_dirt, b_uptodate, loaded, synced, failed, requests, driver,
                 sleepers, local>>

\* lock_buffer() finds it free, at once or after sleeping.
Lock(p) ==
  /\ running \in {p, None} /\ pc[p] = "lock" /\ ~b_lock[Bh(p)]
  /\ b_lock' = [b_lock EXCEPT ![Bh(p)] = TRUE]
  /\ running' = p
  /\ Goto(p, "check")
  /\ UNCHANGED <<b_dirt, b_uptodate, loaded, synced, failed, requests, driver,
                 sleepers, local>>

\* Mutant: b_uptodate is not looked at.
NothingToDoWrites(p) == call[p].rw = WRITE /\ ~b_dirt[Bh(p)]

NothingToDo(p) ==
  \/ call[p].rw = WRITE /\ ~b_dirt[Bh(p)]
  \/ call[p].rw = READ  /\ b_uptodate[Bh(p)]

GiveUp(p) ==
  /\ b_lock' = [b_lock EXCEPT ![Bh(p)] = FALSE]
  /\ Return(p)
  /\ UNCHANGED <<b_dirt, b_uptodate, loaded, synced, failed, requests, driver,
                 sleepers>>

\* With the buffer locked, is the transfer still needed?
Check(p) ==
  /\ At(p, "check")
  /\ \/ NothingToDo(p) /\ GiveUp(p)
     \/ /\ ~NothingToDo(p)
        /\ Goto(p, "find")
        /\ UNCHANGED <<buffers, requests, driver, sleepers, local, running>>

\* Mutant: READA and WRITEA are not turned into READ and WRITE.
FindAhead(p) ==
  LET free == FreeSlots(call[p].rw)
      top  == CHOOSE i \in free : \A j \in free : j <= i
      cmd  == IF call[p].ahead THEN call[p].rw + 2 ELSE call[p].rw
  IN /\ At(p, "find") /\ free # {}
     /\ slot' = [slot EXCEPT ![p] = top]
     /\ request' = [request EXCEPT ![top] = [cmd |-> cmd, bh |-> Bh(p)]]
     /\ Goto(p, "add")
     /\ UNCHANGED <<buffers, queue, driver, sleepers, call, running>>

\* The search for a free slot, from the top of the allowed slots down; no
\* process can take the slot before it is filled, so both are one step.
Find(p) ==
  LET free == FreeSlots(call[p].rw)
      top  == CHOOSE i \in free : \A j \in free : j <= i
  IN /\ At(p, "find") /\ free # {}
     /\ slot' = [slot EXCEPT ![p] = top]
     /\ request' = [request EXCEPT ![top] = [cmd |-> call[p].rw, bh |-> Bh(p)]]
     /\ Goto(p, "add")
     /\ UNCHANGED <<buffers, queue, driver, sleepers, call, running>>

\* No slot: a read-ahead is given up, another call will sleep.
NoSlot(p) ==
  /\ At(p, "find") /\ FreeSlots(call[p].rw) = {}
  /\ \/ call[p].ahead /\ GiveUp(p)
     \/ /\ ~call[p].ahead
        /\ Goto(p, "nap")
        /\ UNCHANGED <<buffers, requests, driver, sleepers, local, running>>

\* sleep_on(&wait_for_request) is called with interrupts enabled.  Its first
\* half puts the process at the head of the queue (an interrupt between the read
\* of the head and its replacement would at most leave in tmp a process that was
\* woken already and looks again) ...
QueueUp(p) ==
  /\ At(p, "nap")
  /\ tmp' = [tmp EXCEPT ![p] = wait_for_request]
  /\ wait_for_request' = p
  /\ Goto(p, "dozing")
  /\ UNCHANGED <<buffers, requests, driver, asleep, local, running>>

\* ... its second half sets TASK_UNINTERRUPTIBLE and calls schedule().
FallAsleep(p) ==
  /\ At(p, "dozing")
  /\ asleep' = asleep \cup {p}
  /\ LeaveTo(p, "sleeping")
  /\ UNCHANGED <<buffers, requests, driver, wait_for_request, tmp, local>>

\* Woken: sleep_on wakes its predecessor, and make_request repeats.
Awake(p) ==
  /\ running = None /\ pc[p] = "sleeping" /\ p \notin asleep
  /\ asleep' = asleep \ {tmp[p]}
  /\ tmp' = [tmp EXCEPT ![p] = None]
  /\ running' = p
  /\ Goto(p, "find")
  /\ UNCHANGED <<buffers, requests, driver, wait_for_request, local>>

\* add_request(), one cli .. sti section up to the call of request_fn.
Add(p) ==
  /\ At(p, "add")
  /\ b_dirt' = [b_dirt EXCEPT ![Bh(p)] = FALSE]
  /\ IF queue = <<>>
       THEN /\ queue' = <<slot[p]>>
            /\ Goto(p, "start") /\ UNCHANGED <<local, running>>
       ELSE /\ queue' = Inserted(slot[p])
            /\ Return(p)
  /\ UNCHANGED <<b_lock, b_uptodate, loaded, synced, failed, request, driver,
                 sleepers>>

-----------------------------------------------------------------------------
(* The driver.                                                             *)

\* Mutants: the driver does not go on with the next request; b_dirt is cleared
\* when the write ends instead of when it is queued.
EndRequestAs(ok, dirt, dev) ==
  LET i == Head(queue)
      b == request[i].bh
  IN /\ b_uptodate' = [b_uptodate EXCEPT ![b] = ok]
     /\ b_lock'  = [b_lock EXCEPT ![b] = FALSE]
     /\ b_dirt'  = [b_dirt EXCEPT ![b] = dirt /\ @]
     /\ loaded'  = [loaded EXCEPT ![b] = @ \/ ok]
     /\ failed'  = IF ok THEN failed ELSE failed \cup {b}
     /\ Cardinality(failed') <= MaxFailed
     /\ synced'  = [synced EXCEPT ![b] =
                     @ \/ (ok /\ (request[i].cmd = READ \/ moved = "yes"))]
     /\ asleep' = asleep \ {wait_for_request}
     /\ wait_for_request' = None
     /\ request' = [request EXCEPT ![i] = Free]
     /\ queue'   = Tail(queue)
     /\ device'  = dev
     /\ moved'   = "no"
     /\ UNCHANGED tmp

EndRequestStops(ok) == EndRequestAs(ok, TRUE, "idle")

EndRequestClears(ok) ==
  EndRequestAs(ok, FALSE, IF Tail(queue) = <<>> THEN "idle" ELSE "busy")

\* end_request(ok).  The last line of end_request makes CURRENT the next one,
\* and the driver goes on with it.
EndRequest(ok) ==
  LET i == Head(queue)
      b == request[i].bh
  IN /\ b_uptodate' = [b_uptodate EXCEPT ![b] = ok]
     /\ b_lock'  = [b_lock EXCEPT ![b] = FALSE]
     /\ loaded'  = [loaded EXCEPT ![b] = @ \/ ok]
     /\ failed'  = IF ok THEN failed ELSE failed \cup {b}
     /\ Cardinality(failed') <= MaxFailed
     /\ synced'  = [synced EXCEPT ![b] =
                     @ \/ (ok /\ (request[i].cmd = READ \/ moved = "yes"))]
     /\ asleep' = asleep \ {wait_for_request}
     /\ wait_for_request' = None
     /\ request' = [request EXCEPT ![i] = Free]
     /\ queue'   = Tail(queue)
     /\ device'  = IF Tail(queue) = <<>> THEN "idle" ELSE "busy"
     /\ moved'   = "no"
     /\ UNCHANGED <<b_dirt, tmp>>

\* request_fn called by add_request: the command is issued, or refused for a
\* block beyond the end of the device.
Start(p) ==
  /\ At(p, "start")
  /\ Return(p)
  /\ \/ /\ device' = "busy"
        /\ UNCHANGED <<buffers, requests, moved, sleepers>>
     \/ EndRequest(FALSE)

\* The processor hands the data of a write to the controller.
Move ==
  /\ device = "busy" /\ moved = "no" /\ request[Head(queue)].cmd = WRITE
  /\ moved' = "yes"
  /\ UNCHANGED <<buffers, requests, device, sleepers, local, running, pc>>

\* The interrupt that ends the current request.
Interrupt(ok) ==
  /\ device = "busy"
  /\ ok /\ request[Head(queue)].cmd = WRITE => moved # "no"
  /\ EndRequest(ok)
  /\ UNCHANGED <<running, pc, local>>

-----------------------------------------------------------------------------
Step(p) ==
  \/ Blocked(p) \/ Lock(p) \/ Check(p) \/ Find(p) \/ NoSlot(p)
  \/ QueueUp(p) \/ FallAsleep(p) \/ Awake(p) \/ Add(p) \/ Start(p)

Disk == Move \/ \E ok \in BOOLEAN : Interrupt(ok)

Next ==
  \/ \E p \in Proc : Enter(p) \/ Step(p)
  \/ \E b \in Buffer : Modify(b)
  \/ Disk

Spec == Init /\ [][Next]_vars

\* A process inside make_request executes, and the disk answers each command
\* (the driver has no time-out: a lost interrupt would stop the queue).
Fairness ==
  /\ \A p \in Proc : WF_vars(Step(p))
  /\ WF_vars(Disk)

FairSpec == Spec /\ Fairness

-----------------------------------------------------------------------------
(* Properties.                                                             *)

Places == {"idle", "lock", "check", "find", "nap", "dozing", "sleeping", "add", "start"}

\* Every variable has its type.
TypeOK ==
  /\ b_lock     \in [Buffer -> BOOLEAN]
  /\ b_dirt     \in [Buffer -> BOOLEAN]
  /\ b_uptodate \in [Buffer -> BOOLEAN]
  /\ loaded     \in [Buffer -> BOOLEAN]
  /\ synced     \in [Buffer -> BOOLEAN]
  /\ failed     \in SUBSET Buffer
  /\ request    \in [Slot -> Request \cup {Free}]
  /\ queue      \in Seq(Slot)
  /\ wait_for_request \in Proc \cup {None}
  /\ device     \in {"idle", "busy"}
  /\ moved      \in {"no", "yes", "outdated"}
  /\ running    \in Proc \cup {None}
  /\ pc         \in [Proc -> Places]
  /\ call       \in [Proc -> Call]
  /\ slot       \in [Proc -> Slot]
  /\ tmp        \in [Proc -> Proc \cup {None}]
  /\ asleep     \in SUBSET Proc

InQueue(i) == \E k \in 1 .. Len(queue) : queue[k] = i

\* The process fills slot i but has not queued it yet.
Filling(p, i) == pc[p] = "add" /\ slot[p] = i

\* The lock of a buffer has one owner: the process between lock_buffer() and
\* add_request(), or the one request that carries the buffer.  So INIT_REQUEST
\* never panics with "block not locked", and no block is in two requests.
LockHasOneOwner ==
  /\ \A i \in Slot : request[i] # Free =>
       b_lock[request[i].bh] /\ (InQueue(i) \/ \E p \in Proc : Filling(p, i))
  /\ \A i, j \in Slot : request[i] # Free /\ request[i].bh = request[j].bh => i = j
  /\ \A p \in Proc : pc[p] \in {"check", "find", "nap", "dozing", "sleeping", "add"} =>
       /\ b_lock[Bh(p)]
       /\ \A i \in Slot : request[i] # Free /\ request[i].bh = Bh(p) => Filling(p, i)
       /\ \A q \in Proc : pc[q] \in {"check", "find", "nap", "dozing", "sleeping", "add"}
            /\ Bh(q) = Bh(p) => q = p

\* The list holds used slots, each once, and the driver is at work exactly
\* when there is one, except while add_request is about to start it.
QueueIsServed ==
  /\ \A k \in 1 .. Len(queue) : request[queue[k]] # Free
  /\ \A k, m \in 1 .. Len(queue) : queue[k] = queue[m] => k = m
  /\ (device = "busy") <=> (queue # <<>> /\ \A p \in Proc : pc[p] # "start")

Descent(k) == ~InOrder(queue[k], queue[k + 1])

\* The elevator: the queue is one sweep in the order of IN_ORDER and then the
\* beginning of the next sweep, however requests arrive.
OneSweep ==
  \A j, k \in 1 .. Len(queue) - 1 : Descent(j) /\ Descent(k) => j = k

\* A buffer that is up to date, clean and not locked equals its block on the
\* disk, although b_dirt is cleared when the request is queued and the
\* buffer can be changed while it is being written.
CleanIsOnDisk ==
  \A b \in Buffer : b_uptodate[b] /\ ~b_dirt[b] /\ ~b_lock[b] => synced[b]

\* A read is queued only for a buffer that was never filled, unless an I/O on
\* it failed: two processes that both want the block do not read it twice,
\* which would wipe out what the first one changed meanwhile.
NoSecondRead ==
  \A i \in Slot : request[i].cmd = READ =>
    ~loaded[request[i].bh] \/ request[i].bh \in failed

\* Every request ends: new requests may be sorted in front of a waiting one
\* only as long as the sweep lasts.
RequestEnds == \A i \in Slot : (request[i] # Free) ~> (request[i] = Free)

\* What end_request says of wake_up(&wait_for_request): it wakes the processes
\* that wait for a request.  A sleeper that is neither at the head of the queue
\* nor the tmp of another waiting process is never woken.
RequesterCanBeWoken ==
  \A p \in asleep : p = wait_for_request \/ \E q \in Proc : tmp[q] = p
=============================================================================
