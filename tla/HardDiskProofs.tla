---------------------------- MODULE HardDiskProofs ----------------------------
(***************************************************************************)
(* Proofs about module HardDisk, for every size of the partition, every    *)
(* number of errors allowed and every length of the queue: the driver and  *)
(* the controller agree through every error, reset and recalibration, what *)
(* ends well was moved completely, and no transfer leaves the partition.   *)
(***************************************************************************)
EXTENDS HardDisk, SequenceTheorems, TLAPS

\* A request is always at the sector its half of the buffer belongs to, and has
\* moved exactly the halves before it.  The second half is reached only after
\* a range check, which asked for both sectors.
Consistent(r) ==
  /\ r.sector = r.first + r.half
  /\ r.nr_sectors = 2 - r.half
  /\ r.good = 0 .. r.half - 1
  /\ r.half = 1 => r.first + 2 <= NR_SECTS

SoundRequest == {r \in Request : Consistent(r)}

Controller ==
  [cmd : {"NONE", "SPECIFY", "RESTORE", "READ", "WRITE"}, sector : Int, left : Int,
   half : Int, st : {"idle", "busy", "ok", "err", "refused"}]

\* No command leaves the partition, although a request that is retried for its
\* second sector is checked as if it needed two.
TransferStaysInside ==
  ctl.cmd \in {"READ", "WRITE"} =>
    CURRENT.first <= ctl.sector /\ ctl.sector + ctl.left <= NR_SECTS

VariablesAreSound ==
  /\ queue \in Seq(SoundRequest)
  /\ do_hd \in {"none", "RECAL", "READ", "WRITE"}
  /\ reset \in BOOLEAN /\ recalibrate \in BOOLEAN
  /\ ctl \in Controller
  /\ ctl.cmd = "NONE" <=> ctl.st = "idle"
  /\ \A e \in outcome : e.ok \in BOOLEAN

\* The inductive invariant.
Inv == VariablesAreSound /\ CommandIsCurrent /\ SuccessIsComplete /\ TransferStaysInside

-----------------------------------------------------------------------------
\* A new request is at the first sector of its block.
LEMMA NewIsSound ==
  ASSUME NEW cmd \in {"READ", "WRITE"}, NEW f \in First
  PROVE  New(cmd, f) \in SoundRequest
<1> DEFINE r == New(cmd, f)
<1>1. /\ r.cmd = cmd /\ r.first = f /\ r.sector = f /\ r.nr_sectors = 2 /\ r.half = 0
      /\ r.errors = 0 /\ r.good = {}
  BY DEF New
<1>2. f \in Int /\ f \in 0 .. NR_SECTS
  <2>1. PICK b \in 0 .. NR_SECTS \div 2 : f = 2 * b
    BY DEF First
  <2>2. 2 * (NR_SECTS \div 2) <= NR_SECTS
    BY SizeAssumption
  <2> QED
    BY <2>1, <2>2, SizeAssumption
<1>3. r \in Request
  BY <1>2, ErrorsAssumption DEF New, Request
<1>4. Consistent(r)
  BY <1>1, <1>2 DEF Consistent
<1> QED
  BY <1>3, <1>4 DEF SoundRequest

\* Replacing or dropping the head of a queue.
LEMMA HeadAndTail ==
  ASSUME NEW S, NEW q \in Seq(S), q # <<>>
  PROVE  /\ Head(q) \in S /\ Tail(q) \in Seq(S)
         /\ \A r \in S : /\ <<r>> \o Tail(q) \in Seq(S)
                         /\ <<r>> \o Tail(q) # <<>>
                         /\ Head(<<r>> \o Tail(q)) = r
<1>1. Head(q) \in S /\ Tail(q) \in Seq(S)
  BY HeadTailProperties
<1>2. ASSUME NEW r \in S
      PROVE  /\ <<r>> \o Tail(q) \in Seq(S)
             /\ <<r>> \o Tail(q) # <<>>
             /\ Head(<<r>> \o Tail(q)) = r
  <2> DEFINE t == Tail(q)
             a == <<r>>
  <2>1. a \in Seq(S) /\ Len(a) = 1 /\ a[1] = r /\ t \in Seq(S)
    BY <1>1
  <2> HIDE DEF t, a
  <2>2. /\ a \o t \in Seq(S) /\ Len(a \o t) = Len(a) + Len(t)
        /\ \A i \in 1 .. Len(a) + Len(t) : (a \o t)[i] = IF i <= Len(a) THEN a[i] ELSE t[i - Len(a)]
    BY <2>1, ConcatProperties
  <2>3. Len(t) \in Nat
    BY <2>1, LenProperties
  <2>4. Len(a \o t) > 0 /\ 1 \in 1 .. Len(a) + Len(t) /\ 1 <= Len(a)
    BY <2>1, <2>2, <2>3
  <2>5. (a \o t)[1] = r
    BY <2>1, <2>2, <2>4
  <2>6. a \o t # <<>>
    BY <2>2, <2>4, EmptySeq
  <2>7. Head(a \o t) = r
    BY <2>2, <2>5, <2>6
  <2> QED
    BY <2>2, <2>6, <2>7 DEF a, t
<1> QED
  BY <1>1, <1>2

\* What is left of a queue when its first k requests have ended.
LEMMA RestOfQueue ==
  ASSUME NEW S, NEW q \in Seq(S), NEW k \in 0 .. Len(q)
  PROVE  /\ SubSeq(q, k + 1, Len(q)) \in Seq(S)
         /\ k = Len(q) => SubSeq(q, k + 1, Len(q)) = <<>>
         /\ k < Len(q) => /\ SubSeq(q, k + 1, Len(q)) # <<>>
                          /\ Head(SubSeq(q, k + 1, Len(q))) = q[k + 1]
<1> DEFINE n == Len(q)
           s == SubSeq(q, k + 1, n)
<1>1. n \in Nat /\ \A i \in 1 .. n : q[i] \in S
  BY LenProperties, ElementOfSeq
<1> HIDE DEF n
<1>2. \A i \in k + 1 .. n : q[i] \in S
  BY <1>1 DEF n
<1>3. /\ s \in Seq(S) /\ Len(s) = IF k + 1 <= n THEN n - (k + 1) + 1 ELSE 0
      /\ \A i \in 1 .. n - (k + 1) + 1 : s[i] = q[(k + 1) + i - 1]
  BY <1>1, <1>2, SubSeqProperties DEF n
<1> HIDE DEF s
<1>4. k = n => s = <<>>
  <2>1. k = n => Len(s) = 0
    BY <1>1, <1>3
  <2> QED
    BY <1>3, <2>1, EmptySeq
<1>5. ASSUME k < n PROVE s # <<>> /\ Head(s) = q[k + 1]
  <2>1. Len(s) > 0 /\ 1 \in 1 .. n - (k + 1) + 1 /\ (k + 1) + 1 - 1 = k + 1
    BY <1>1, <1>3, <1>5 DEF n
  <2>2. s # <<>>
    BY <1>3, <2>1, EmptySeq
  <2>3. s[1] = q[k + 1]
    BY <1>3, <2>1
  <2> QED
    BY <1>3, <2>2, <2>3
<1> QED
  BY <1>3, <1>4, <1>5 DEF n, s

\* do_hd_request() leaves the driver and the controller in agreement, whatever
\* queue, flag and handler it is called with.
LEMMA DoHdRequestInv ==
  ASSUME NEW q \in Seq(SoundRequest), NEW rst \in BOOLEAN,
         NEW h \in {"none", "RECAL", "READ", "WRITE"}, NEW ended,
         \A e \in ended : e.ok \in BOOLEAN /\ (e.ok => e.request.good = {0, 1}),
         recalibrate \in BOOLEAN,
         DoHdRequest(q, rst, h, ended)
  PROVE  Inv'
<1>1. PICK k \in 0 .. Len(q) :
    /\ k < Len(q) => InRange(q[k + 1])
    /\ queue'   = SubSeq(q, k + 1, Len(q))
    /\ outcome' = ended \cup {Ended(q[i], FALSE) : i \in 1 .. k}
    /\ reset'   = (rst /\ k = Len(q))
    /\ \/ k = Len(q) /\ ctl' = Quiet /\ do_hd' = h /\ UNCHANGED recalibrate
       \/ /\ k < Len(q) /\ rst
          /\ recalibrate' = TRUE
          /\ do_hd' = "RECAL" /\ HdOut("SPECIFY", 0, 1, 0, "busy")
       \/ /\ k < Len(q) /\ ~rst /\ recalibrate
          /\ recalibrate' = FALSE
          /\ do_hd' = "RECAL" /\ HdOut("RESTORE", 0, 1, 0, "busy")
       \/ k < Len(q) /\ ~rst /\ ~recalibrate /\ Transfer(q[k + 1])
  BY DEF DoHdRequest
<1>2. /\ queue' \in Seq(SoundRequest)
      /\ k = Len(q) => queue' = <<>>
      /\ k < Len(q) => queue' # <<>> /\ Head(queue') = q[k + 1]
  BY <1>1, RestOfQueue
<1>3. \A e \in outcome' : e.ok \in BOOLEAN /\ (e.ok => e.request.good = {0, 1})
  <2>1. \A r : Ended(r, FALSE).ok = FALSE
    BY DEF Ended
  <2>2. \A e \in outcome' : e \in ended \/ \E i \in 1 .. k : e = Ended(q[i], FALSE)
    BY <1>1
  <2> QED
    BY <2>1, <2>2
<1>4. SuccessIsComplete'
  BY <1>3 DEF SuccessIsComplete
<1>5. reset' \in BOOLEAN
  BY <1>1
<1>6. CASE k = Len(q) /\ ctl' = Quiet /\ do_hd' = h /\ UNCHANGED recalibrate
  <2>1. queue' = <<>> /\ ctl' = Quiet
    BY <1>2, <1>6
  <2>2. Quiet \in Controller /\ Quiet.cmd = "NONE" /\ Quiet.st = "idle"
    BY DEF Quiet, Controller
  <2>3. VariablesAreSound'
    BY <1>2, <1>3, <1>5, <1>6, <2>2 DEF VariablesAreSound
  <2>4. CommandIsCurrent' /\ TransferStaysInside'
    BY <2>1, <2>2 DEF CommandIsCurrent, TransferStaysInside
  <2> QED
    BY <1>4, <2>3, <2>4 DEF Inv
<1>7. CASE /\ k < Len(q) /\ recalibrate' \in BOOLEAN /\ do_hd' = "RECAL"
           /\ \E cmd \in {"SPECIFY", "RESTORE"} : HdOut(cmd, 0, 1, 0, "busy")
  <2>1. PICK cmd \in {"SPECIFY", "RESTORE"} :
           ctl' = [cmd |-> cmd, sector |-> 0, left |-> 1, half |-> 0, st |-> "busy"]
    BY <1>7 DEF HdOut
  <2>2. ctl' \in Controller /\ ctl'.cmd = cmd /\ ctl'.st = "busy"
    BY <2>1 DEF Controller
  <2>3. VariablesAreSound'
    BY <1>2, <1>3, <1>5, <1>7, <2>2 DEF VariablesAreSound
  <2>4. CommandIsCurrent' /\ TransferStaysInside'
    BY <1>2, <1>7, <2>2 DEF CommandIsCurrent, TransferStaysInside
  <2> QED
    BY <1>4, <2>3, <2>4 DEF Inv
<1>8. CASE k < Len(q) /\ Transfer(q[k + 1])
  <2> DEFINE r == q[k + 1]
  <2>1. /\ do_hd' = r.cmd /\ recalibrate' = recalibrate
        /\ \E st \in {"busy", "refused"} :
             ctl' = [cmd |-> r.cmd, sector |-> r.sector, left |-> r.nr_sectors,
                     half |-> r.half, st |-> st]
    BY <1>8 DEF Transfer, HdOut
  <2>2. queue' # <<>> /\ Head(queue') = r /\ InRange(r)
    BY <1>1, <1>2, <1>8
  <2> HIDE DEF r
  <2>3. r \in SoundRequest
    BY <1>2, <2>2, HeadTailProperties
  <2>4. /\ r.cmd \in {"READ", "WRITE"} /\ r.sector \in Int /\ r.half \in 0 .. 1 /\ r.first \in Int
        /\ Consistent(r)
    <3>1. r \in Request /\ Consistent(r)
      BY <2>3 DEF SoundRequest
    <3>2. r.first \in Int
      BY <3>1, SizeAssumption DEF Request, First
    <3> QED
      BY <3>1, <3>2, SizeAssumption DEF Request
  <2>5. r.nr_sectors \in Int
    BY <2>4 DEF Consistent
  <2>6. /\ ctl' \in Controller /\ ctl'.cmd = r.cmd /\ ctl'.sector = r.sector
        /\ ctl'.left = r.nr_sectors /\ ctl'.half = r.half /\ ctl'.st \in {"busy", "refused"}
    BY <2>1, <2>4, <2>5 DEF Controller
  <2>7. VariablesAreSound'
    BY <1>2, <1>3, <1>5, <2>1, <2>4, <2>6 DEF VariablesAreSound
  <2>8. CommandIsCurrent'
    BY <2>1, <2>2, <2>4, <2>6 DEF CommandIsCurrent, Consistent, CURRENT
  <2>9. TransferStaysInside'
    BY <2>2, <2>4, <2>6, SizeAssumption DEF TransferStaysInside, Consistent, CURRENT, InRange
  <2> QED
    BY <1>4, <2>7, <2>8, <2>9 DEF Inv
<1> QED
  BY <1>1, <1>6, <1>7, <1>8

-----------------------------------------------------------------------------
(* The handlers.                                                           *)

\* What the invariant says while a transfer is under way.
LEMMA TransferIs ==
  ASSUME Inv, ctl.cmd \in {"READ", "WRITE"}
  PROVE  /\ queue # <<>> /\ CURRENT \in SoundRequest /\ Tail(queue) \in Seq(SoundRequest)
         /\ do_hd = ctl.cmd /\ CURRENT.cmd = ctl.cmd
         /\ ctl.sector = CURRENT.sector /\ ctl.sector = CURRENT.first + CURRENT.half
         /\ ctl.left = CURRENT.nr_sectors
         /\ ctl.cmd = "WRITE" => ctl.half = CURRENT.half
         /\ CURRENT.first + 2 <= NR_SECTS
<1>1. ctl.st # "idle"
  BY DEF Inv, VariablesAreSound
<1>2. queue # <<>>
  BY <1>1 DEF Inv, CommandIsCurrent
<1>3. CURRENT \in SoundRequest /\ Tail(queue) \in Seq(SoundRequest)
  BY <1>2, HeadAndTail DEF Inv, VariablesAreSound, CURRENT
<1>4. /\ do_hd = ctl.cmd /\ CURRENT.cmd = ctl.cmd
      /\ ctl.sector = CURRENT.sector /\ ctl.sector = CURRENT.first + CURRENT.half
      /\ ctl.left = CURRENT.nr_sectors
      /\ ctl.cmd = "WRITE" => ctl.half = CURRENT.half
  BY DEF Inv, CommandIsCurrent
<1>5. CURRENT.first + 2 <= NR_SECTS
  <2>1. ctl.sector + ctl.left <= NR_SECTS
    BY DEF Inv, TransferStaysInside
  <2>2. Consistent(CURRENT) /\ CURRENT.half \in 0 .. 1 /\ CURRENT.first \in Int
    BY <1>3, SizeAssumption DEF SoundRequest, Request, First
  <2> QED
    BY <1>4, <2>1, <2>2, SizeAssumption DEF Consistent
<1> QED
  BY <1>2, <1>3, <1>4, <1>5

\* One more sector moved: s is the request after it, with the errors it has then.
Advanced(r, s) ==
  /\ s.cmd = r.cmd /\ s.first = r.first /\ s.sector = r.sector + 1
  /\ s.nr_sectors = r.nr_sectors - 1 /\ s.half = r.half + 1 /\ s.good = r.good \cup {r.half}

Moved(r, e) ==
  [cmd |-> r.cmd, first |-> r.first, sector |-> r.sector + 1, nr_sectors |-> r.nr_sectors - 1,
   half |-> r.half + 1, errors |-> e, good |-> r.good \cup {r.half}]

LEMMA MovedIs ==
  ASSUME NEW r \in SoundRequest, r.first + 2 <= NR_SECTS, NEW e \in 0 .. MAX_ERRORS - 1
  PROVE  /\ Advanced(r, Moved(r, e))
         /\ Moved(r, e).nr_sectors # 0 => Moved(r, e) \in SoundRequest
         /\ Moved(r, e).nr_sectors = 0 => Moved(r, e).good = {0, 1}
<1> DEFINE s == Moved(r, e)
<1>1. /\ r \in Request /\ Consistent(r) /\ r.cmd \in {"READ", "WRITE"} /\ r.first \in First
      /\ r.half \in 0 .. 1 /\ r.sector \in Int /\ r.first \in Int /\ r.first >= 0
  BY SizeAssumption DEF SoundRequest, Request, First
<1>2. Advanced(r, s) /\ s.errors = e
  BY DEF Moved, Advanced
<1>3. CASE r.half = 1
  <2>1. s.nr_sectors = 0 /\ s.good = {0, 1}
    BY <1>1, <1>2, <1>3 DEF Advanced, Consistent
  <2> QED
    BY <1>2, <2>1
<1>4. CASE r.half = 0
  <2>1. /\ s.nr_sectors = 1 /\ s.half = 1 /\ s.good = {0} /\ s.sector = r.first + 1
        /\ s.first = r.first /\ s.cmd = r.cmd
    BY <1>1, <1>2, <1>4 DEF Advanced, Consistent
  <2>2. r.first + 1 \in 0 .. NR_SECTS
    BY <1>1, SizeAssumption
  <2>3. s = [cmd |-> r.cmd, first |-> r.first, sector |-> r.first + 1, nr_sectors |-> 1,
             half |-> 1, errors |-> e, good |-> {0}]
    BY <2>1 DEF Moved
  <2>4. s \in Request
    BY <1>1, <2>2, <2>3 DEF Request
  <2> HIDE DEF s
  <2>5. Consistent(s)
    BY <1>1, <2>1 DEF Consistent
  <2> QED
    BY <1>2, <2>1, <2>4, <2>5 DEF SoundRequest, s
<1> QED
  BY <1>1, <1>3, <1>4

\* What a handler hands to do_hd_request() as ended well.
LEMMA EndedWell ==
  ASSUME NEW r, r.good = {0, 1}
  PROVE  \A e \in {Ended(r, TRUE)} : e.ok \in BOOLEAN /\ (e.ok => e.request.good = {0, 1})
<1>1. Ended(r, TRUE).request = r /\ Ended(r, TRUE).ok = TRUE
  BY DEF Ended
<1> QED
  BY <1>1

\* A sector has been moved and the request needs another: the controller goes on.
LEMMA NextSectorInv ==
  ASSUME Inv, ctl.cmd \in {"READ", "WRITE"}, NEW s \in SoundRequest,
         Advanced(CURRENT, s), queue' = <<s>> \o Tail(queue), outcome' = {},
         do_hd' = ctl.cmd, UNCHANGED <<reset, recalibrate>>,
         ctl' \in Controller, ctl'.cmd = ctl.cmd, ctl'.sector = ctl.sector + 1,
         ctl'.left = ctl.left - 1, ctl'.st = "busy", ctl.cmd = "WRITE" => ctl'.half = s.half
  PROVE  Inv'
<1>1. /\ queue # <<>> /\ Tail(queue) \in Seq(SoundRequest) /\ CURRENT \in SoundRequest
      /\ CURRENT.cmd = ctl.cmd
      /\ ctl.sector = CURRENT.sector /\ ctl.sector = CURRENT.first + CURRENT.half
      /\ ctl.left = CURRENT.nr_sectors
  BY TransferIs
<1>2. queue' \in Seq(SoundRequest) /\ queue' # <<>> /\ Head(queue') = s
  <2>1. queue \in Seq(SoundRequest)
    BY DEF Inv, VariablesAreSound
  <2> QED
    BY <1>1, <2>1, HeadAndTail
<1>3. /\ CURRENT.first \in Int /\ CURRENT.half \in 0 .. 1 /\ CURRENT.nr_sectors \in 1 .. 2
      /\ CURRENT.first >= 0
  BY <1>1, SizeAssumption, SMTT(30) DEF SoundRequest, Request, First
<1>4. VariablesAreSound'
  BY <1>2 DEF Inv, VariablesAreSound
<1>5. SuccessIsComplete'
  BY DEF SuccessIsComplete
<1>6. CommandIsCurrent'
  <2>1. s.cmd = ctl.cmd /\ s.sector = ctl.sector + 1 /\ s.nr_sectors = ctl.left - 1
        /\ s.first + s.half = ctl.sector + 1
    BY <1>1, <1>3 DEF Advanced
  <2> QED
    BY <1>1, <1>2, <2>1 DEF CommandIsCurrent, CURRENT
<1>7. TransferStaysInside'
  <2>1. ctl.sector + ctl.left <= NR_SECTS
    BY DEF Inv, TransferStaysInside
  <2>2. s.first = CURRENT.first
    BY DEF Advanced
  <2> QED
    BY <1>1, <1>2, <1>3, <2>1, <2>2, SizeAssumption DEF TransferStaysInside, CURRENT
<1> QED
  BY <1>4, <1>5, <1>6, <1>7 DEF Inv

\* The state of the controller follows from the handler that is called.
LEMMA HandlerIs ==
  ASSUME Inv, NEW h \in {"READ", "WRITE"}, do_hd = h, ctl.st = "ok"
  PROVE  ctl.cmd = h
BY DEF Inv, VariablesAreSound, Controller, CommandIsCurrent

\* The controller takes or delivers the next sector.
GoesOn(c, h) ==
  [cmd |-> c.cmd, sector |-> c.sector + 1, left |-> c.left - 1, half |-> h, st |-> "busy"]

LEMMA GoesOnIs ==
  ASSUME NEW c \in Controller, NEW h \in Int
  PROVE  /\ GoesOn(c, h) \in Controller
         /\ GoesOn(c, h).cmd = c.cmd /\ GoesOn(c, h).sector = c.sector + 1
         /\ GoesOn(c, h).left = c.left - 1 /\ GoesOn(c, h).half = h /\ GoesOn(c, h).st = "busy"
BY DEF Controller, GoesOn

LEMMA ReadGoesOn ==
  ASSUME NEW c \in Controller, NEW d, d = [c EXCEPT !.sector = @ + 1, !.left = @ - 1, !.st = "busy"]
  PROVE  d = GoesOn(c, c.half)
<1>1. d = [cmd |-> c.cmd, sector |-> c.sector + 1, left |-> c.left - 1, half |-> c.half,
           st |-> "busy"]
  BY DEF Controller
<1> QED
  BY <1>1 DEF GoesOn

LEMMA WriteGoesOn ==
  ASSUME NEW c \in Controller, NEW h, NEW d,
         d = [c EXCEPT !.sector = @ + 1, !.left = @ - 1, !.st = "busy", !.half = h]
  PROVE  d = GoesOn(c, h)
<1>1. d = [cmd |-> c.cmd, sector |-> c.sector + 1, left |-> c.left - 1, half |-> h, st |-> "busy"]
  BY DEF Controller
<1> QED
  BY <1>1 DEF GoesOn

\* write_intr() counts the sector first and moves on in the buffer afterwards.
LEMMA WriteMoves ==
  ASSUME NEW c \in Request, NEW g, NEW d,
         d = [c EXCEPT !.nr_sectors = @ - 1, !.good = g, !.sector = @ + 1, !.half = @ + 1],
         g = c.good \cup {c.half}
  PROVE  d = Moved(c, c.errors)
<1>1. d = [cmd |-> c.cmd, first |-> c.first, sector |-> c.sector + 1,
           nr_sectors |-> c.nr_sectors - 1, half |-> c.half + 1, errors |-> c.errors, good |-> g]
  BY DEF Request
<1> QED
  BY <1>1 DEF Moved

LEMMA ReadIntrInv ==
  ASSUME Inv, ReadIntr
  PROVE  Inv'
<1> DEFINE c == CURRENT
           s == Moved(c, 0)
<1>1. ctl.cmd = "READ" /\ do_hd = "READ"
  BY HandlerIs DEF ReadIntr, Interrupted
<1>2. /\ queue # <<>> /\ c \in SoundRequest /\ Tail(queue) \in Seq(SoundRequest)
      /\ c.cmd = "READ" /\ ctl.sector = c.sector /\ ctl.sector = c.first + c.half
      /\ c.first + 2 <= NR_SECTS
  BY <1>1, TransferIs
<1>3. ReadSector(CURRENT) = s
  <2>1. Good(c, c.half) = c.good \cup {c.half}
    BY <1>2 DEF Good
  <2> HIDE DEF c
  <2>2. ReadSector(c) = [c EXCEPT !.errors = 0, !.half = @ + 1, !.sector = @ + 1,
                                  !.nr_sectors = @ - 1, !.good = c.good \cup {c.half}]
    BY <2>1 DEF ReadSector
  <2>3. c \in Request
    BY <1>2 DEF SoundRequest
  <2>4. ReadSector(c) = s
    BY <2>2, <2>3 DEF Request, Moved
  <2> QED
    BY <2>4 DEF c
<1>4. 0 \in 0 .. MAX_ERRORS - 1
  BY ErrorsAssumption
<1> HIDE DEF c
<1>5. /\ Advanced(c, s)
      /\ s.nr_sectors # 0 => s \in SoundRequest
      /\ s.nr_sectors = 0 => s.good = {0, 1}
  BY <1>2, <1>4, MovedIs
<1>6. IF s.nr_sectors # 0
        THEN /\ queue' = <<s>> \o Tail(queue)
             /\ ctl' = [ctl EXCEPT !.sector = @ + 1, !.left = @ - 1, !.st = "busy"]
             /\ outcome' = {}
             /\ do_hd' = "READ" /\ UNCHANGED <<reset, recalibrate>>
        ELSE DoHdRequest(Tail(queue), reset, "none", {Ended(s, TRUE)})
  BY <1>3 DEF ReadIntr
<1> HIDE DEF s
<1>7. reset \in BOOLEAN /\ recalibrate \in BOOLEAN /\ ctl \in Controller
  BY DEF Inv, VariablesAreSound
<1>8. CASE s.nr_sectors # 0
  <2>1. ctl' = GoesOn(ctl, ctl.half) /\ ctl.half \in Int
    BY <1>6, <1>7, <1>8, ReadGoesOn DEF Controller
  <2>2. /\ ctl' \in Controller /\ ctl'.cmd = ctl.cmd /\ ctl'.sector = ctl.sector + 1
        /\ ctl'.left = ctl.left - 1 /\ ctl'.st = "busy"
    BY <1>7, <2>1, GoesOnIs
  <2> QED
    BY <1>1, <1>5, <1>6, <1>8, <2>2, NextSectorInv DEF c
<1>9. CASE s.nr_sectors = 0
  <2> DEFINE E == {Ended(s, TRUE)}
  <2>1. DoHdRequest(Tail(queue), reset, "none", E)
    BY <1>6, <1>9
  <2>2. \A e \in E : e.ok \in BOOLEAN /\ (e.ok => e.request.good = {0, 1})
    BY <1>5, <1>9, EndedWell
  <2> HIDE DEF E
  <2> QED
    BY <1>2, <1>7, <2>1, <2>2, DoHdRequestInv
<1> QED
  BY <1>8, <1>9

LEMMA WriteIntrInv ==
  ASSUME Inv, WriteIntr
  PROVE  Inv'
<1> DEFINE c == CURRENT
           r == [c EXCEPT !.nr_sectors = @ - 1, !.good = Good(c, ctl.half)]
           s == [r EXCEPT !.sector = @ + 1, !.half = @ + 1]
           m == Moved(c, c.errors)
<1>1. ctl.cmd = "WRITE" /\ do_hd = "WRITE"
  BY HandlerIs DEF WriteIntr, Interrupted
<1>2. /\ queue # <<>> /\ c \in SoundRequest /\ Tail(queue) \in Seq(SoundRequest)
      /\ c.cmd = "WRITE" /\ ctl.sector = c.sector /\ ctl.sector = c.first + c.half
      /\ ctl.half = c.half /\ c.first + 2 <= NR_SECTS
  BY <1>1, TransferIs
<1>3. IF r.nr_sectors # 0
        THEN /\ queue' = <<s>> \o Tail(queue)
             /\ ctl' = [ctl EXCEPT !.sector = @ + 1, !.left = @ - 1, !.st = "busy",
                                   !.half = s.half]
             /\ outcome' = {}
             /\ do_hd' = "WRITE" /\ UNCHANGED <<reset, recalibrate>>
        ELSE DoHdRequest(Tail(queue), reset, "none", {Ended(r, TRUE)})
  BY DEF WriteIntr
<1>4. c \in Request
  BY <1>2 DEF SoundRequest
<1>5. Good(c, ctl.half) = c.good \cup {c.half}
  BY <1>2 DEF Good
<1> HIDE DEF c
<1>6. r = [c EXCEPT !.nr_sectors = @ - 1, !.good = c.good \cup {c.half}]
  BY <1>5
<1> HIDE DEF r
<1>7. s = m /\ r.nr_sectors = m.nr_sectors /\ r.good = m.good /\ m.half = c.half + 1
  <2>1. s = [c EXCEPT !.nr_sectors = @ - 1, !.good = c.good \cup {c.half},
                      !.sector = @ + 1, !.half = @ + 1]
    BY <1>4, <1>6 DEF Request
  <2>2. s = m
    <3> HIDE DEF s, m
    <3>1. PICK g : g = c.good \cup {c.half}
      OBVIOUS
    <3> QED
      BY <1>4, <2>1, <3>1, WriteMoves DEF m
  <2>3. r.nr_sectors = c.nr_sectors - 1 /\ r.good = c.good \cup {c.half}
    BY <1>4, <1>6 DEF Request
  <2>4. m.nr_sectors = c.nr_sectors - 1 /\ m.good = c.good \cup {c.half} /\ m.half = c.half + 1
    BY DEF Moved
  <2> QED
    BY <2>2, <2>3, <2>4
<1> HIDE DEF s
<1>8. c.errors \in 0 .. MAX_ERRORS - 1 /\ c.half \in Int
  BY <1>4 DEF Request
<1>9. /\ Advanced(c, m)
      /\ m.nr_sectors # 0 => m \in SoundRequest
      /\ m.nr_sectors = 0 => m.good = {0, 1}
  BY <1>2, <1>8, MovedIs
<1> HIDE DEF m
<1>10. reset \in BOOLEAN /\ recalibrate \in BOOLEAN /\ ctl \in Controller
  BY DEF Inv, VariablesAreSound
<1>11. CASE r.nr_sectors # 0
  <2>1. s.half \in Int
    BY <1>7, <1>8
  <2>2. ctl' = GoesOn(ctl, s.half)
    BY <1>3, <1>10, <1>11, WriteGoesOn
  <2>3. /\ ctl' \in Controller /\ ctl'.cmd = ctl.cmd /\ ctl'.sector = ctl.sector + 1
        /\ ctl'.left = ctl.left - 1 /\ ctl'.st = "busy" /\ ctl'.half = s.half
    BY <1>10, <2>1, <2>2, GoesOnIs
  <2> QED
    BY <1>1, <1>3, <1>7, <1>9, <1>11, <2>3, NextSectorInv DEF c
<1>12. CASE r.nr_sectors = 0
  <2> DEFINE E == {Ended(r, TRUE)}
  <2>1. DoHdRequest(Tail(queue), reset, "none", E)
    BY <1>3, <1>12
  <2>2. \A e \in E : e.ok \in BOOLEAN /\ (e.ok => e.request.good = {0, 1})
    BY <1>7, <1>9, <1>12, EndedWell
  <2> HIDE DEF E
  <2> QED
    BY <1>2, <1>10, <2>1, <2>2, DoHdRequestInv
<1> QED
  BY <1>11, <1>12

\* One more error leaves a request what it was, as long as it is not the last one.
LEMMA ErrorKeepsRequest ==
  ASSUME NEW c \in SoundRequest, NEW d, d = [c EXCEPT !.errors = @ + 1], d.errors < MAX_ERRORS
  PROVE  d \in SoundRequest
<1>1. c \in Request /\ Consistent(c) /\ c.errors \in 0 .. MAX_ERRORS - 1
  BY DEF SoundRequest, Request
<1>2. d = [cmd |-> c.cmd, first |-> c.first, sector |-> c.sector, nr_sectors |-> c.nr_sectors,
           half |-> c.half, errors |-> c.errors + 1, good |-> c.good]
  BY <1>1 DEF Request
<1>3. d.errors = c.errors + 1
  BY <1>2
<1>4. c.errors + 1 \in 0 .. MAX_ERRORS - 1
  BY <1>1, <1>3, ErrorsAssumption
<1>5. d \in Request
  BY <1>1, <1>2, <1>4 DEF Request
<1>6. Consistent(d)
  BY <1>1, <1>2 DEF Consistent
<1> QED
  BY <1>5, <1>6 DEF SoundRequest

\* bad_rw_intr() keeps the request, or gives it up, and starts the driver again.
LEMMA BadRwInv ==
  ASSUME Inv, queue # <<>>, NEW h \in {"none", "RECAL", "READ", "WRITE"}, BadRw(h)
  PROVE  Inv'
<1> DEFINE r == [CURRENT EXCEPT !.errors = @ + 1]
<1>1. queue \in Seq(SoundRequest) /\ recalibrate \in BOOLEAN
  BY DEF Inv, VariablesAreSound
<1>2. CURRENT \in SoundRequest /\ Tail(queue) \in Seq(SoundRequest)
  BY <1>1, HeadAndTail DEF CURRENT
<1>3. AfterError \in Seq(SoundRequest)
  <2>1. CASE r.errors >= MAX_ERRORS
    BY <1>2, <2>1 DEF AfterError
  <2>2. CASE ~(r.errors >= MAX_ERRORS)
    <3>1. r.errors = CURRENT.errors + 1 /\ CURRENT.errors \in Nat
      BY <1>2 DEF SoundRequest, Request
    <3>2. r.errors < MAX_ERRORS
      BY <2>2, <3>1, ErrorsAssumption
    <3>3. r \in SoundRequest
      <4> HIDE DEF CURRENT
      <4> QED
        BY <1>2, <3>2, ErrorKeepsRequest
    <3>4. AfterError = <<r>> \o Tail(queue)
      BY <2>2 DEF AfterError
    <3> HIDE DEF r
    <3> QED
      BY <1>1, <3>3, <3>4, HeadAndTail
  <2> QED
    BY <2>1, <2>2
<1>4. \A e \in GivenUp : e.ok \in BOOLEAN /\ (e.ok => e.request.good = {0, 1})
  <2>1. \A q : Ended(q, FALSE).ok = FALSE
    BY DEF Ended
  <2>2. \A e \in GivenUp : \E q : e = Ended(q, FALSE)
    BY DEF GivenUp
  <2> QED
    BY <2>1, <2>2
<1>5. PICK rst \in BOOLEAN : DoHdRequest(AfterError, rst, h, GivenUp)
  BY DEF BadRw
<1> QED
  BY <1>1, <1>3, <1>4, <1>5, DoHdRequestInv

LEMMA DriverInv ==
  ASSUME Inv, Driver
  PROVE  Inv'
<1>1. ctl.st # "idle" => queue # <<>>
  BY DEF Inv, CommandIsCurrent
<1>2. queue \in Seq(SoundRequest) /\ reset \in BOOLEAN /\ recalibrate \in BOOLEAN
      /\ do_hd \in {"none", "RECAL", "READ", "WRITE"}
  BY DEF Inv, VariablesAreSound
<1>3. CASE ReadIntr
  BY <1>3, ReadIntrInv
<1>4. CASE WriteIntr
  BY <1>4, WriteIntrInv
<1>5. CASE RecalIntr
  <2> DEFINE E == {}
  <2>1. DoHdRequest(queue, reset, "none", E) /\ \A e \in E : e.ok \in BOOLEAN /\ (e.ok => e.request.good = {0, 1})
    BY <1>5 DEF RecalIntr
  <2> HIDE DEF E
  <2> QED
    BY <1>2, <2>1, DoHdRequestInv
<1>6. CASE ErrorIntr
  BY <1>1, <1>6, BadRwInv DEF ErrorIntr, Interrupted
<1>7. CASE Refused
  BY <1>1, <1>2, <1>7, BadRwInv DEF Refused
<1> QED
  BY <1>3, <1>4, <1>5, <1>6, <1>7 DEF Driver

\* A request is added to the queue.
LEMMA SubmitInv ==
  ASSUME Inv, NEW cmd \in {"READ", "WRITE"}, NEW f \in First, Submit(cmd, f)
  PROVE  Inv'
<1> DEFINE r == New(cmd, f)
<1>1. r \in SoundRequest
  BY NewIsSound
<1>2. /\ queue \in Seq(SoundRequest) /\ reset \in BOOLEAN /\ recalibrate \in BOOLEAN
      /\ do_hd \in {"none", "RECAL", "READ", "WRITE"}
  BY DEF Inv, VariablesAreSound
<1>3. IF queue = <<>>
        THEN DoHdRequest(<<r>>, reset, do_hd, {})
        ELSE /\ queue' = Append(queue, r) /\ outcome' = {}
             /\ UNCHANGED <<do_hd, reset, recalibrate, ctl>>
  BY DEF Submit
<1> HIDE DEF r
<1>4. CASE queue = <<>>
  <2> DEFINE E == {}
             q == <<r>>
  <2>1. /\ DoHdRequest(q, reset, do_hd, E) /\ q \in Seq(SoundRequest)
        /\ \A e \in E : e.ok \in BOOLEAN /\ (e.ok => e.request.good = {0, 1})
    BY <1>1, <1>3, <1>4
  <2> HIDE DEF E, q
  <2> QED
    BY <1>2, <2>1, DoHdRequestInv
<1>5. CASE queue # <<>>
  <2>1. /\ queue' \in Seq(SoundRequest) /\ Len(queue') = Len(queue) + 1
        /\ \A i \in 1 .. Len(queue) : queue'[i] = queue[i]
    BY <1>1, <1>2, <1>3, <1>5, AppendProperties
  <2>2. Len(queue) \in Nat /\ Len(queue) > 0
    BY <1>2, <1>5, EmptySeq, LenProperties
  <2>3. queue' # <<>> /\ Head(queue') = Head(queue)
    <3>1. queue' # <<>>
      BY <2>1, <2>2, EmptySeq
    <3>2. Head(queue') = queue'[1] /\ Head(queue) = queue[1]
      BY <1>2, <1>5, <2>1, <3>1
    <3> QED
      BY <2>1, <2>2, <3>1, <3>2
  <2>4. VariablesAreSound'
    BY <1>3, <1>5, <2>1 DEF Inv, VariablesAreSound
  <2>5. SuccessIsComplete'
    BY <1>3, <1>5 DEF SuccessIsComplete
  <2>6. CURRENT' = CURRENT
    BY <2>3 DEF CURRENT
  <2>7. CommandIsCurrent' /\ TransferStaysInside'
    BY <1>3, <1>5, <2>3, <2>6 DEF Inv, CommandIsCurrent, TransferStaysInside
  <2> QED
    BY <2>4, <2>5, <2>7 DEF Inv
<1> QED
  BY <1>4, <1>5

\* The controller answers.
LEMMA AnswerInv ==
  ASSUME Inv, Answer
  PROVE  Inv'
<1>1. PICK st \in {"ok", "err"} : ctl' = [ctl EXCEPT !.st = st]
  BY DEF Answer
<1>2. /\ ctl \in Controller /\ ctl.st = "busy" /\ outcome' = {}
      /\ UNCHANGED <<queue, do_hd, reset, recalibrate>>
  BY DEF Inv, VariablesAreSound, Answer
<1>3. /\ ctl' \in Controller /\ ctl'.cmd = ctl.cmd /\ ctl'.sector = ctl.sector
      /\ ctl'.left = ctl.left /\ ctl'.half = ctl.half /\ ctl'.st = st
  BY <1>1, <1>2 DEF Controller
<1>4. VariablesAreSound'
  BY <1>2, <1>3 DEF Inv, VariablesAreSound
<1>5. SuccessIsComplete'
  BY <1>2 DEF SuccessIsComplete
<1>6. CURRENT' = CURRENT
  BY <1>2 DEF CURRENT
<1>7. CommandIsCurrent' /\ TransferStaysInside'
  BY <1>2, <1>3, <1>6 DEF Inv, CommandIsCurrent, TransferStaysInside
<1> QED
  BY <1>4, <1>5, <1>7 DEF Inv

LEMMA InitInv == Init => Inv
<1> SUFFICES ASSUME Init PROVE Inv
  OBVIOUS
<1>1. Quiet \in Controller /\ Quiet.cmd = "NONE" /\ Quiet.st = "idle"
  BY DEF Quiet, Controller
<1>2. VariablesAreSound
  BY <1>1 DEF Init, VariablesAreSound
<1>3. CommandIsCurrent /\ SuccessIsComplete /\ TransferStaysInside
  BY <1>1 DEF Init, CommandIsCurrent, SuccessIsComplete, TransferStaysInside
<1> QED
  BY <1>2, <1>3 DEF Inv

LEMMA NextInv == Inv /\ [Next]_vars => Inv'
<1> SUFFICES ASSUME Inv, [Next]_vars PROVE Inv'
  OBVIOUS
<1>1. ASSUME NEW cmd \in {"READ", "WRITE"}, NEW f \in First, Submit(cmd, f) PROVE Inv'
  BY <1>1, SubmitInv
<1>2. CASE Answer
  BY <1>2, AnswerInv
<1>3. CASE Driver
  BY <1>3, DriverInv
<1>4. CASE UNCHANGED vars
  <2>1. VariablesAreSound' /\ SuccessIsComplete'
    BY <1>4 DEF Inv, VariablesAreSound, SuccessIsComplete, vars
  <2>2. CommandIsCurrent' /\ TransferStaysInside'
    BY <1>4 DEF Inv, CommandIsCurrent, TransferStaysInside, CURRENT, vars
  <2> QED
    BY <2>1, <2>2 DEF Inv
<1> QED
  BY <1>1, <1>2, <1>3, <1>4 DEF Next

\* The invariant holds in every state of every execution.
THEOREM InvHolds == Spec => []Inv
<1>1. Init => Inv
  BY InitInv
<1>2. Inv /\ [Next]_vars => Inv'
  BY NextInv
<1> QED
  BY <1>1, <1>2, PTL DEF Spec

\* Every variable of the driver has its type, and no queued request has used up
\* its errors.
THEOREM TypesCorrect == Spec => []TypeOK
<1>1. Inv => TypeOK
  <2> SUFFICES ASSUME Inv PROVE TypeOK
    OBVIOUS
  <2>1. queue \in Seq(SoundRequest)
    BY DEF Inv, VariablesAreSound
  <2>2. \A i \in 1 .. Len(queue) : queue[i] \in Request
    BY <2>1, ElementOfSeq DEF SoundRequest
  <2>3. queue \in Seq(Request)
    BY <2>1, <2>2, SeqDef, LenProperties
  <2> QED
    BY <2>3 DEF Inv, VariablesAreSound, Controller, TypeOK
<1> QED
  BY <1>1, InvHolds, PTL

\* Through every error, refusal, reset and recalibration the command outstanding
\* is the one for CURRENT, and the handler installed the one for the command.
THEOREM CommandCorrect == Spec => []CommandIsCurrent
<1>1. Inv => CommandIsCurrent
  BY DEF Inv
<1> QED
  BY <1>1, InvHolds, PTL

\* A request ends well only after both sectors were moved from or to their place.
THEOREM SuccessCorrect == Spec => []SuccessIsComplete
<1>1. Inv => SuccessIsComplete
  BY DEF Inv
<1> QED
  BY <1>1, InvHolds, PTL

\* No transfer leaves the partition, in the first try and in a retry that has
\* only the second sector left.
THEOREM InsideCorrect == Spec => []TransferStaysInside
<1>1. Inv => TransferStaysInside
  BY DEF Inv
<1> QED
  BY <1>1, InvHolds, PTL
=============================================================================
