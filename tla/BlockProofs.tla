----------------------------- MODULE BlockProofs -----------------------------
(***************************************************************************)
(* Proofs about module BlockLayer, for every set of processes, every       *)
(* number of buffers and of request slots: locks and requests belong       *)
(* together, the queue is served, the elevator makes one sweep, and no     *)
(* write or late read loses data.                                          *)
(***************************************************************************)
EXTENDS BlockLayer, SequenceTheorems, WellFoundedInduction, TLAPS

\* The places where a process owns the lock of its buffer, and those where it
\* has the processor.
Owning == {"check", "find", "nap", "dozing", "sleeping", "add"}
Active == {"check", "find", "nap", "dozing", "add", "start"}

OneIsActive == \A p \in Proc : pc[p] \in Active => running = p

\* add_request() calls request_fn for the request it has just queued.
StartHasRequest == \A p \in Proc : pc[p] = "start" => queue # <<>>

\* A process in add_request() has filled its slot, and nobody has queued it.
FilledIsMine ==
  \A p \in Proc : pc[p] = "add" =>
    /\ request[slot[p]] = [cmd |-> call[p].rw, bh |-> Bh(p)]
    /\ ~InQueue(slot[p])

\* The data of a write that has overtaken a change are only outdated while the
\* write is under way, and then the buffer is dirty again.
OutdatedIsDirty ==
  /\ moved # "no" => queue # <<>>
  /\ moved = "outdated" => b_dirt[request[Head(queue)].bh]

\* A buffer that no queued request carries is as on the disk, or known not to be.
Queued(b) == \E i \in Slot : InQueue(i) /\ request[i].bh = b
RestIsOnDisk ==
  \A b \in Buffer : b_uptodate[b] /\ ~b_dirt[b] /\ ~Queued(b) => synced[b]

\* Only an error takes a filled buffer out of date, and a process goes on to
\* read only what is not up to date.
StaleHasFailed == \A b \in Buffer : loaded[b] /\ ~b_uptodate[b] => b \in failed
ReadIsNeeded ==
  \A p \in Proc : pc[p] \in {"find", "nap", "dozing", "sleeping"} /\ call[p].rw = READ =>
    ~b_uptodate[Bh(p)]

\* The inductive invariant.
Inv ==
  /\ TypeOK /\ OneIsActive /\ StartHasRequest /\ FilledIsMine
  /\ LockHasOneOwner /\ QueueIsServed /\ OneSweep
  /\ OutdatedIsDirty /\ RestIsOnDisk /\ StaleHasFailed /\ ReadIsNeeded /\ NoSecondRead

-----------------------------------------------------------------------------
(* Numbers and sequences.                                                  *)

\* A set of numbers that is not empty has a smallest element.
LEMMA HasMinimum ==
  ASSUME NEW S \in SUBSET Nat, S # {}
  PROVE  \E x \in S : \A y \in S : x <= y
<1> DEFINE R == OpToRel(<, Nat)
<1>1. IsWellFoundedOn(R, Nat)
  BY NatLessThanWellFounded
<1> HIDE DEF R
<1>2. PICK x \in S : \A y \in S : ~(<<y, x>> \in R)
  BY <1>1, WFMin
<1>3. \A y \in S : y < x => <<y, x>> \in R
  BY DEF R, OpToRel
<1>4. ASSUME NEW y \in S PROVE x <= y
  <2>1. x \in Nat /\ y \in Nat
    OBVIOUS
  <2>2. ~(y < x)
    BY <1>2, <1>3
  <2> HIDE DEF R
  <2> QED
    BY <2>1, <2>2
<1> QED
  BY <1>4

\* A set of numbers below a bound has a largest one.
LEMMA HasMaximum ==
  ASSUME NEW n \in Nat, NEW S \in SUBSET (0 .. n - 1), S # {}
  PROVE  \E x \in S : \A y \in S : y <= x
<1> DEFINE T == {n - x : x \in S}
<1>1. T \in SUBSET Nat /\ T # {}
  <2>1. \A x \in S : n - x \in Nat
    OBVIOUS
  <2>2. \A t \in T : t \in Nat
    BY <2>1
  <2>3. PICK x \in S : TRUE
    OBVIOUS
  <2>4. n - x \in T
    OBVIOUS
  <2> QED
    BY <2>2, <2>4
<1> HIDE DEF T
<1>2. PICK t \in T : \A y \in T : t <= y
  BY <1>1, HasMinimum
<1>3. PICK x \in S : t = n - x
  BY DEF T
<1>4. \A y \in S : n - y \in T
  BY DEF T
<1>5. ASSUME NEW y \in S PROVE y <= x
  <2>1. n - x <= n - y
    BY <1>2, <1>3, <1>4
  <2> QED
    BY <2>1
<1> QED
  BY <1>5

\* The queue as a function, and its first element.
LEMMA QueueIs ==
  ASSUME TypeOK
  PROVE  /\ Len(queue) \in Nat
         /\ \A k \in 1 .. Len(queue) : queue[k] \in Slot
         /\ queue # <<>> <=> Len(queue) > 0
         /\ queue # <<>> => Head(queue) = queue[1] /\ Head(queue) \in Slot /\ InQueue(Head(queue))
<1>1. queue \in Seq(Slot)
  BY DEF TypeOK
<1>2. Len(queue) \in Nat /\ \A k \in 1 .. Len(queue) : queue[k] \in Slot
  BY <1>1, LenProperties, ElementOfSeq
<1>3. queue # <<>> <=> Len(queue) > 0
  BY <1>1, EmptySeq
<1>4. queue # <<>> => Head(queue) = queue[1]
  BY <1>1
<1> QED
  BY <1>2, <1>3, <1>4 DEF InQueue

\* end_request() takes the first request out of the queue.
LEMMA TailIs ==
  ASSUME TypeOK, QueueIsServed, queue # <<>>, queue' = Tail(queue)
  PROVE  /\ queue' \in Seq(Slot) /\ Len(queue') = Len(queue) - 1
         /\ \A k \in 1 .. Len(queue') : queue'[k] = queue[k + 1]
         /\ queue' = <<>> <=> Len(queue) = 1
         /\ \A i : InQueue(i)' <=> InQueue(i) /\ i # Head(queue)
<1>1. queue \in Seq(Slot)
  BY DEF TypeOK
<1>2. /\ queue' \in Seq(Slot) /\ Len(queue') = Len(queue) - 1
      /\ \A k \in 1 .. Len(queue') : queue'[k] = queue[k + 1]
  BY <1>1, HeadTailProperties
<1>3. queue' = <<>> <=> Len(queue) = 1
  <2>1. Len(queue') = 0 <=> queue' = <<>>
    BY <1>2, EmptySeq
  <2> QED
    BY <1>2, <2>1, QueueIs
<1>4. \A i : InQueue(i)' => InQueue(i) /\ i # Head(queue)
  <2> SUFFICES ASSUME NEW i, InQueue(i)' PROVE InQueue(i) /\ i # Head(queue)
    OBVIOUS
  <2>1. PICK k \in 1 .. Len(queue') : queue'[k] = i
    BY DEF InQueue
  <2>2. k + 1 \in 1 .. Len(queue) /\ queue[k + 1] = i /\ 1 \in 1 .. Len(queue) /\ k + 1 # 1
    BY <1>2, <2>1, QueueIs
  <2> QED
    BY <2>2, QueueIs DEF InQueue, QueueIsServed
<1>5. \A i : InQueue(i) /\ i # Head(queue) => InQueue(i)'
  <2> SUFFICES ASSUME NEW i, InQueue(i), i # Head(queue) PROVE InQueue(i)'
    OBVIOUS
  <2>1. PICK k \in 1 .. Len(queue) : queue[k] = i
    BY DEF InQueue
  <2>2. k - 1 \in 1 .. Len(queue') /\ (k - 1) + 1 = k
    BY <1>2, <2>1, QueueIs
  <2>3. queue'[k - 1] = i
    BY <1>2, <2>1, <2>2
  <2> QED
    BY <2>2, <2>3 DEF InQueue
<1> QED
  BY <1>2, <1>3, <1>4, <1>5

\* add_request() finds a place behind an element of the queue.
LEMMA PlaceIs ==
  ASSUME TypeOK, queue # <<>>, NEW r
  PROVE  /\ Place(r) \in 1 .. Len(queue)
         /\ \/ Place(r) < Len(queue) /\ Fits(Place(r), r)
            \/ Place(r) = Len(queue) /\ \A k \in 1 .. Len(queue) - 1 : ~Fits(k, r)
<1> DEFINE fits == {k \in 1 .. Len(queue) - 1 : Fits(k, r)}
<1>0. Len(queue) \in Nat /\ Len(queue) > 0
  BY QueueIs
<1>1. CASE fits = {}
  BY <1>0, <1>1 DEF Place
<1>2. CASE fits # {}
  <2>1. fits \in SUBSET Nat
    BY <1>0
  <2>2. Place(r) = CHOOSE k \in fits : \A j \in fits : k <= j
    BY <1>2 DEF Place
  <2> HIDE DEF fits
  <2>3. Place(r) \in fits
    BY <1>2, <2>1, <2>2, HasMinimum
  <2> QED
    BY <1>0, <2>3 DEF fits
<1> QED
  BY <1>1, <1>2

\* The queue with the new request in its place.
LEMMA InsertedIs ==
  ASSUME TypeOK, queue # <<>>, NEW r \in Slot
  PROVE  /\ Inserted(r) \in Seq(Slot) /\ Len(Inserted(r)) = Len(queue) + 1
         /\ \A j \in 1 .. Place(r) : Inserted(r)[j] = queue[j]
         /\ Inserted(r)[Place(r) + 1] = r
         /\ \A j \in Place(r) + 2 .. Len(queue) + 1 : Inserted(r)[j] = queue[j - 1]
<1> DEFINE k == Place(r)
           n == Len(queue)
           a == SubSeq(queue, 1, k)
           c == SubSeq(queue, k + 1, n)
<1>1. k \in 1 .. n /\ n \in Nat
  BY PlaceIs, QueueIs
<1>2. Inserted(r) = (a \o <<r>>) \o c
  BY DEF Inserted
<1> HIDE DEF k, n
<1>3. \A j \in 1 .. n : queue[j] \in Slot
  BY QueueIs DEF n
<1>4. a \in Seq(Slot) /\ Len(a) = k /\ \A j \in 1 .. k : a[j] = queue[j]
  <2>1. \A j \in 1 .. k : queue[j] \in Slot
    BY <1>1, <1>3
  <2>2. /\ a \in Seq(Slot) /\ Len(a) = IF 1 <= k THEN k - 1 + 1 ELSE 0
        /\ \A j \in 1 .. k - 1 + 1 : a[j] = queue[1 + j - 1]
    BY <1>1, <2>1, SubSeqProperties
  <2> HIDE DEF a
  <2> QED
    BY <1>1, <2>2
<1>5. c \in Seq(Slot) /\ Len(c) = n - k /\ \A j \in 1 .. n - k : c[j] = queue[k + j]
  <2>1. \A j \in k + 1 .. n : queue[j] \in Slot
    BY <1>1, <1>3
  <2>2. /\ c \in Seq(Slot) /\ Len(c) = IF k + 1 <= n THEN n - (k + 1) + 1 ELSE 0
        /\ \A j \in 1 .. n - (k + 1) + 1 : c[j] = queue[(k + 1) + j - 1]
    BY <1>1, <2>1, SubSeqProperties
  <2> HIDE DEF c
  <2> QED
    BY <1>1, <2>2
<1> DEFINE b == a \o <<r>>
<1> HIDE DEF a, c
<1>6. b \in Seq(Slot) /\ Len(b) = k + 1 /\ (\A j \in 1 .. k : b[j] = queue[j]) /\ b[k + 1] = r
  <2>1. <<r>> \in Seq(Slot) /\ Len(<<r>>) = 1 /\ <<r>>[1] = r
    OBVIOUS
  <2> DEFINE e == <<r>>
  <2> HIDE DEF e
  <2>2. /\ a \o e \in Seq(Slot) /\ Len(a \o e) = Len(a) + Len(e)
        /\ \A j \in 1 .. Len(a) + Len(e) : (a \o e)[j] = IF j <= Len(a) THEN a[j] ELSE e[j - Len(a)]
    BY <1>4, <2>1, ConcatProperties DEF e
  <2>3. b = a \o e
    BY DEF e
  <2>4. e[1] = r /\ Len(e) = 1
    BY <2>1 DEF e
  <2> HIDE DEF b
  <2> QED
    BY <1>1, <1>4, <2>2, <2>3, <2>4
<1> HIDE DEF b
<1>7. /\ b \o c \in Seq(Slot) /\ Len(b \o c) = Len(b) + Len(c)
      /\ \A j \in 1 .. Len(b) + Len(c) : (b \o c)[j] = IF j <= Len(b) THEN b[j] ELSE c[j - Len(b)]
  BY <1>5, <1>6, ConcatProperties
<1>8. Inserted(r) = b \o c
  BY <1>2 DEF b
<1>9. Len(b) + Len(c) = n + 1 /\ Len(b) = k + 1
  BY <1>1, <1>5, <1>6
<1>10. \A j \in 1 .. k : (b \o c)[j] = queue[j]
  BY <1>1, <1>6, <1>7, <1>9
<1>11. (b \o c)[k + 1] = r
  BY <1>1, <1>6, <1>7, <1>9
<1>12. \A j \in k + 2 .. n + 1 : (b \o c)[j] = queue[j - 1]
  <2> SUFFICES ASSUME NEW j \in k + 2 .. n + 1 PROVE (b \o c)[j] = queue[j - 1]
    OBVIOUS
  <2>1. j - (k + 1) \in 1 .. n - k /\ k + (j - (k + 1)) = j - 1 /\ j \in 1 .. n + 1 /\ ~(j <= k + 1)
    BY <1>1
  <2> QED
    BY <1>5, <1>7, <1>9, <2>1
<1> QED
  BY <1>7, <1>8, <1>9, <1>10, <1>11, <1>12 DEF k, n

-----------------------------------------------------------------------------
(* The steps.                                                              *)

\* The processes that may read next.
Seeking == {"find", "nap", "dozing", "sleeping"}

\* A step that changes nothing but where p is, and who sleeps.
LEMMA WalkInv ==
  ASSUME Inv, NEW p \in Proc, NEW place \in Places, pc' = [pc EXCEPT ![p] = place],
         UNCHANGED <<buffers, requests, driver, local>>,
         wait_for_request' \in Proc \cup {None}, tmp' \in [Proc -> Proc \cup {None}],
         asleep' \in SUBSET Proc, running' \in Proc \cup {None},
         place \in Active => running' = p,
         \A q \in Proc : q # p /\ pc[q] \in Active => running' = q,
         place \in Owning <=> pc[p] \in Owning,
         {place, pc[p]} \cap {"add", "start"} = {},
         place \in Seeking /\ call[p].rw = READ => ~b_uptodate[Bh(p)]
  PROVE  Inv'
<1> USE DEF buffers, requests, driver, local
<1>1. pc'[p] = place /\ \A q \in Proc : q # p => pc'[q] = pc[q]
  BY DEF Inv, TypeOK
<1>2. TypeOK'
  BY DEF Inv, TypeOK
<1>3. OneIsActive'
  BY <1>1 DEF Inv, OneIsActive
<1>4. \A q \in Proc : (pc'[q] = "add" <=> pc[q] = "add") /\ (pc'[q] = "start" <=> pc[q] = "start")
  BY <1>1
<1>5. FilledIsMine'
  BY <1>4 DEF Inv, FilledIsMine, InQueue, Bh
<1>6. \A q \in Proc : pc'[q] \in Owning <=> pc[q] \in Owning
  BY <1>1
<1>7. LockHasOneOwner'
  BY <1>4, <1>6 DEF Inv, LockHasOneOwner, InQueue, Filling, Bh, Owning
<1>8. QueueIsServed' /\ StartHasRequest'
  BY <1>4 DEF Inv, QueueIsServed, StartHasRequest
<1>9. OneSweep' /\ OutdatedIsDirty' /\ RestIsOnDisk' /\ StaleHasFailed' /\ NoSecondRead'
  BY DEF Inv, OneSweep, Descent, InOrder, OutdatedIsDirty, RestIsOnDisk, Queued, InQueue,
         StaleHasFailed, NoSecondRead
<1>10. ReadIsNeeded'
  BY <1>1 DEF Inv, ReadIsNeeded, Seeking, Bh
<1> QED
  BY <1>2, <1>3, <1>5, <1>7, <1>8, <1>9, <1>10 DEF Inv

\* The process that runs is the only one that is active.
LEMMA OthersRest ==
  ASSUME Inv, NEW p \in Proc, running \in {p, None}
  PROVE  \A q \in Proc : q # p => pc[q] \notin Active
BY NoneAssumption DEF Inv, OneIsActive

LEMMA QuietInv ==
  ASSUME Inv, NEW p \in Proc,
         \/ Blocked(p) \/ QueueUp(p) \/ FallAsleep(p) \/ Awake(p)
         \/ Check(p) /\ ~NothingToDo(p)
         \/ NoSlot(p) /\ ~call[p].ahead
  PROVE  Inv'
<1> USE DEF sleepers
<1>1. /\ running \in {p, None} /\ UNCHANGED <<buffers, requests, driver, local>>
      /\ running' \in {p, None}
      /\ wait_for_request' \in Proc \cup {None} /\ tmp' \in [Proc -> Proc \cup {None}]
      /\ asleep' \in SUBSET Proc /\ running' \in Proc \cup {None}
  <2>1. /\ wait_for_request \in Proc \cup {None} /\ tmp \in [Proc -> Proc \cup {None}]
        /\ asleep \in SUBSET Proc
    BY DEF Inv, TypeOK
  <2> QED
    BY <2>1 DEF Blocked, QueueUp, FallAsleep, Awake, Check, NoSlot, At, LeaveTo, GiveUp
<1>2. \A q \in Proc : q # p => pc[q] \notin Active
  BY <1>1, OthersRest
<1>3. CASE Blocked(p)
  <2>1. pc[p] = "lock" /\ pc' = [pc EXCEPT ![p] = "lock"]
    BY <1>3 DEF Blocked, At, LeaveTo, Goto
  <2> QED
    BY <1>1, <1>2, <2>1, WalkInv DEF Places, Active, Owning, Seeking
<1>4. CASE QueueUp(p)
  <2>1. pc[p] = "nap" /\ pc' = [pc EXCEPT ![p] = "dozing"] /\ running' = p
    BY <1>4 DEF QueueUp, At, Goto
  <2>2. call[p].rw = READ => ~b_uptodate[Bh(p)]
    BY <2>1 DEF Inv, ReadIsNeeded
  <2> QED
    BY <1>1, <1>2, <2>1, <2>2, WalkInv DEF Places, Active, Owning, Seeking
<1>5. CASE FallAsleep(p)
  <2>1. pc[p] = "dozing" /\ pc' = [pc EXCEPT ![p] = "sleeping"]
    BY <1>5 DEF FallAsleep, At, LeaveTo, Goto
  <2>2. call[p].rw = READ => ~b_uptodate[Bh(p)]
    BY <2>1 DEF Inv, ReadIsNeeded
  <2> QED
    BY <1>1, <1>2, <2>1, <2>2, WalkInv DEF Places, Active, Owning, Seeking
<1>6. CASE Awake(p)
  <2>1. pc[p] = "sleeping" /\ pc' = [pc EXCEPT ![p] = "find"] /\ running' = p
    BY <1>6 DEF Awake, Goto
  <2>2. call[p].rw = READ => ~b_uptodate[Bh(p)]
    BY <2>1 DEF Inv, ReadIsNeeded
  <2> QED
    BY <1>1, <1>2, <2>1, <2>2, WalkInv DEF Places, Active, Owning, Seeking
<1>7. CASE Check(p) /\ ~NothingToDo(p)
  <2>1. pc[p] = "check" /\ pc' = [pc EXCEPT ![p] = "find"] /\ running' = p
    BY <1>7 DEF Check, At, Goto
  <2>2. call[p].rw = READ => ~b_uptodate[Bh(p)]
    BY <1>7 DEF NothingToDo
  <2> QED
    BY <1>1, <1>2, <2>1, <2>2, WalkInv DEF Places, Active, Owning, Seeking
<1>8. CASE NoSlot(p) /\ ~call[p].ahead
  <2>1. pc[p] = "find" /\ pc' = [pc EXCEPT ![p] = "nap"] /\ running' = p
    BY <1>8 DEF NoSlot, At, Goto
  <2>2. call[p].rw = READ => ~b_uptodate[Bh(p)]
    BY <2>1 DEF Inv, ReadIsNeeded
  <2> QED
    BY <1>1, <1>2, <2>1, <2>2, WalkInv DEF Places, Active, Owning, Seeking
<1> QED
  BY <1>3, <1>4, <1>5, <1>6, <1>7, <1>8

\* A call begins.
LEMMA EnterInv ==
  ASSUME Inv, NEW p \in Proc, Enter(p)
  PROVE  Inv'
<1> USE DEF buffers, requests, driver
<1>1. /\ running = None /\ pc[p] = "idle" /\ running' = p /\ pc' = [pc EXCEPT ![p] = "lock"]
      /\ UNCHANGED <<buffers, requests, driver, sleepers, slot>>
  BY DEF Enter, Goto
<1>2. call' \in [Proc -> Call] /\ \A q \in Proc : q # p => call'[q] = call[q]
  BY DEF Enter, Inv, TypeOK
<1>3. pc'[p] = "lock" /\ \A q \in Proc : q # p => pc'[q] = pc[q] /\ pc[q] \notin Active
  BY <1>1, OthersRest DEF Inv, TypeOK
<1>4. TypeOK'
  BY <1>1, <1>2 DEF Inv, TypeOK, Places, sleepers
<1>5. OneIsActive' /\ StartHasRequest' /\ FilledIsMine' /\ QueueIsServed'
  BY <1>1, <1>3 DEF Inv, OneIsActive, StartHasRequest, FilledIsMine, QueueIsServed, Active
<1>6. LockHasOneOwner'
  <2>1. \A q \in Proc : pc'[q] \in Owning => q # p /\ pc[q] \in Owning
    BY <1>3 DEF Owning
  <2>2. \A q \in Proc, j \in Slot : Filling(q, j)' = Filling(q, j)
    BY <1>1, <1>3 DEF Filling
  <2> QED
    BY <1>1, <1>2, <1>3, <2>1, <2>2 DEF Inv, LockHasOneOwner, InQueue, Owning, Bh
<1>7. OneSweep' /\ OutdatedIsDirty' /\ RestIsOnDisk' /\ StaleHasFailed' /\ NoSecondRead'
  BY <1>1 DEF Inv, OneSweep, Descent, InOrder, OutdatedIsDirty, RestIsOnDisk, Queued, InQueue,
         StaleHasFailed, NoSecondRead
<1>8. ReadIsNeeded'
  BY <1>1, <1>2, <1>3 DEF Inv, ReadIsNeeded, Bh
<1> QED
  BY <1>4, <1>5, <1>6, <1>7, <1>8 DEF Inv

\* The holder of a buffer changes its data.
LEMMA ModifyInv ==
  ASSUME Inv, NEW b \in Buffer, Modify(b)
  PROVE  Inv'
<1> USE DEF requests, local
<1>1. /\ b_dirt' = [b_dirt EXCEPT ![b] = TRUE] /\ synced' = [synced EXCEPT ![b] = FALSE]
      /\ moved' = IF moved = "yes" /\ request[Head(queue)].bh = b THEN "outdated" ELSE moved
      /\ UNCHANGED <<b_lock, b_uptodate, loaded, failed, requests, device, sleepers,
                     local, running, pc>>
  BY DEF Modify
<1>2. /\ b_dirt' \in [Buffer -> BOOLEAN] /\ synced' \in [Buffer -> BOOLEAN] /\ b_dirt'[b]
      /\ \A c \in Buffer : c # b => b_dirt'[c] = b_dirt[c] /\ synced'[c] = synced[c]
      /\ \A c \in Buffer : b_dirt[c] => b_dirt'[c]
  BY <1>1 DEF Inv, TypeOK
<1>3. TypeOK'
  BY <1>1, <1>2 DEF Inv, TypeOK, sleepers
<1>4. OneIsActive' /\ StartHasRequest' /\ FilledIsMine' /\ LockHasOneOwner' /\ QueueIsServed' /\ OneSweep'
  BY <1>1 DEF Inv, OneIsActive, StartHasRequest, FilledIsMine, LockHasOneOwner, QueueIsServed, OneSweep,
              Descent, InOrder, InQueue, Filling, Bh
<1>5. RestIsOnDisk'
  BY <1>1, <1>2 DEF Inv, RestIsOnDisk, Queued, InQueue
<1>6. StaleHasFailed' /\ ReadIsNeeded' /\ NoSecondRead'
  BY <1>1 DEF Inv, StaleHasFailed, ReadIsNeeded, NoSecondRead, Bh
<1>7. OutdatedIsDirty'
  <2>1. moved' # "no" => queue # <<>>
    BY <1>1 DEF Inv, OutdatedIsDirty
  <2>2. CASE moved = "yes" /\ request[Head(queue)].bh = b
    BY <1>1, <1>2, <2>1, <2>2 DEF OutdatedIsDirty
  <2>3. CASE ~(moved = "yes" /\ request[Head(queue)].bh = b)
    <3>1. moved = "outdated" => /\ b_dirt[request[Head(queue)].bh]
                                /\ request[Head(queue)].bh \in Buffer
      <4>1. moved = "outdated" => request[Head(queue)] # Free /\ Head(queue) \in Slot
        BY QueueIs DEF Inv, OutdatedIsDirty, QueueIsServed
      <4> QED
        BY <4>1 DEF Inv, OutdatedIsDirty, TypeOK, Request
    <3> QED
      BY <1>1, <1>2, <2>1, <2>3, <3>1 DEF OutdatedIsDirty
  <2> QED
    BY <2>2, <2>3
<1> QED
  BY <1>3, <1>4, <1>5, <1>6, <1>7 DEF Inv

\* lock_buffer() succeeds.
LEMMA LockInv ==
  ASSUME Inv, NEW p \in Proc, Lock(p)
  PROVE  Inv'
<1> USE DEF requests, driver, local
<1> DEFINE b == Bh(p)
<1>1. /\ running \in {p, None} /\ running' = p /\ pc[p] = "lock" /\ ~b_lock[b]
      /\ b_lock' = [b_lock EXCEPT ![b] = TRUE] /\ pc' = [pc EXCEPT ![p] = "check"]
      /\ UNCHANGED <<b_dirt, b_uptodate, loaded, synced, failed, requests, driver,
                     sleepers, local>>
  BY DEF Lock, Goto
<1>2. b \in Buffer
  BY DEF Inv, TypeOK, Call, Bh
<1>3. /\ b_lock' \in [Buffer -> BOOLEAN] /\ b_lock'[b]
      /\ \A c \in Buffer : c # b => b_lock'[c] = b_lock[c]
  BY <1>1, <1>2 DEF Inv, TypeOK
<1>4. pc'[p] = "check" /\ \A q \in Proc : q # p => pc'[q] = pc[q] /\ pc[q] \notin Active
  BY <1>1, OthersRest DEF Inv, TypeOK
<1>5. TypeOK'
  BY <1>1, <1>3 DEF Inv, TypeOK, Places, sleepers
<1>6. OneIsActive' /\ StartHasRequest' /\ FilledIsMine'
  BY <1>1, <1>4 DEF Inv, OneIsActive, StartHasRequest, FilledIsMine, InQueue, Bh
<1>7. QueueIsServed' /\ OneSweep' /\ OutdatedIsDirty' /\ RestIsOnDisk' /\ StaleHasFailed'
      /\ NoSecondRead'
  BY <1>1, <1>4, ZenonT(60) DEF Inv, QueueIsServed, OneSweep, Descent, InOrder, OutdatedIsDirty,
         RestIsOnDisk, Queued, InQueue, StaleHasFailed, NoSecondRead
<1>8. ReadIsNeeded'
  BY <1>1, <1>4 DEF Inv, ReadIsNeeded, Bh
<1>9. LockHasOneOwner'
  <2>1. \A q \in Proc : pc'[q] \in Owning => q = p \/ pc[q] \in Owning
    BY <1>4
  <2>2. \A q \in Proc, j \in Slot : Filling(q, j)' = Filling(q, j)
    BY <1>1, <1>4 DEF Filling
  <2>3. \A j \in Slot : request[j] # Free => request[j].bh # b
    BY <1>1 DEF Inv, LockHasOneOwner
  <2>4. \A q \in Proc : pc[q] \in Owning => Bh(q) # b /\ b_lock[Bh(q)] /\ Bh(q) \in Buffer
    BY <1>1 DEF Inv, LockHasOneOwner, Owning, TypeOK, Call, Bh
  <2>5. \A j \in Slot : request[j] # Free =>
          b_lock'[request[j].bh] /\ (InQueue(j) \/ \E q \in Proc : Filling(q, j))
    BY <1>3, <2>3 DEF Inv, LockHasOneOwner, TypeOK, Request
  <2>6. ASSUME NEW q \in Proc, pc'[q] \in Owning
        PROVE  /\ b_lock'[Bh(q)]
               /\ \A j \in Slot : request[j] # Free /\ request[j].bh = Bh(q) => Filling(q, j)
               /\ \A u \in Proc : pc'[u] \in Owning /\ Bh(u) = Bh(q) => u = q
    <3>1. CASE q = p
      BY <1>3, <2>1, <2>3, <2>4, <3>1
    <3>2. CASE q # p
      <4>1. pc[q] \in Owning
        BY <2>1, <2>6, <3>2
      <4>2. \A j \in Slot : request[j] # Free /\ request[j].bh = Bh(q) => Filling(q, j)
        BY <4>1 DEF Inv, LockHasOneOwner, Owning
      <4>3. \A u \in Proc : pc[u] \in Owning /\ Bh(u) = Bh(q) => u = q
        BY <4>1 DEF Inv, LockHasOneOwner, Owning
      <4> QED
        BY <1>3, <2>1, <2>4, <4>1, <4>2, <4>3
    <3> QED
      BY <3>1, <3>2
  <2>7. \A q \in Proc : Bh(q)' = Bh(q)
    BY <1>1 DEF Bh
  <2>8. \A j, k \in Slot : request[j] # Free /\ request[j].bh = request[k].bh => j = k
    BY DEF Inv, LockHasOneOwner
  <2>9. \A j : InQueue(j)' = InQueue(j)
    BY <1>1 DEF InQueue
  <2> HIDE DEF b
  <2> QED
    BY <1>1, <2>2, <2>5, <2>6, <2>7, <2>8, <2>9 DEF LockHasOneOwner, Owning
<1> QED
  BY <1>5, <1>6, <1>7, <1>8, <1>9 DEF Inv

\* A process returns; what the others have is as before.
LEMMA ReturnLocals ==
  ASSUME Inv, NEW p \in Proc, running = p, Return(p)
  PROVE  /\ pc' \in [Proc -> Places] /\ call' \in [Proc -> Call] /\ slot' \in [Proc -> Slot]
         /\ running' = None /\ pc'[p] = "idle"
         /\ \A q \in Proc : q # p => /\ pc'[q] = pc[q] /\ pc[q] \notin Active
                                     /\ call'[q] = call[q] /\ slot'[q] = slot[q]
<1>1. NoCall \in Call /\ 0 \in Slot
  BY BuffersAssumption, RequestsAssumption DEF NoCall, Call, Buffer, Slot
<1>2. \A q \in Proc : q # p => pc[q] \notin Active
  BY OthersRest
<1> QED
  BY <1>1, <1>2 DEF Inv, TypeOK, Return, LeaveTo, Goto, Places

\* The transfer is not needed, or not worth waiting for.
LEMMA GiveUpInv ==
  ASSUME Inv, NEW p \in Proc, running = p, pc[p] \in {"check", "find"}, GiveUp(p)
  PROVE  Inv'
<1> USE DEF requests, driver
<1> DEFINE b == Bh(p)
<1>1. /\ b_lock' = [b_lock EXCEPT ![b] = FALSE]
      /\ UNCHANGED <<b_dirt, b_uptodate, loaded, synced, failed, requests, driver, sleepers>>
  BY DEF GiveUp
<1>2. b \in Buffer
  BY DEF Inv, TypeOK, Call, Bh
<1>3. /\ b_lock' \in [Buffer -> BOOLEAN]
      /\ \A c \in Buffer : c # b => b_lock'[c] = b_lock[c]
  BY <1>1, <1>2 DEF Inv, TypeOK
<1>4. /\ pc' \in [Proc -> Places] /\ call' \in [Proc -> Call] /\ slot' \in [Proc -> Slot]
      /\ running' = None /\ pc'[p] = "idle"
      /\ \A q \in Proc : q # p => /\ pc'[q] = pc[q] /\ pc[q] \notin Active
                                  /\ call'[q] = call[q] /\ slot'[q] = slot[q]
  BY ReturnLocals DEF GiveUp
<1>5. TypeOK'
  BY <1>1, <1>3, <1>4 DEF Inv, TypeOK, sleepers
<1>6. OneIsActive' /\ StartHasRequest' /\ FilledIsMine'
  BY <1>1, <1>4 DEF Inv, OneIsActive, StartHasRequest, FilledIsMine, InQueue, Bh, Active
<1>7. QueueIsServed' /\ OneSweep' /\ OutdatedIsDirty' /\ RestIsOnDisk' /\ StaleHasFailed'
      /\ NoSecondRead'
  BY <1>1, <1>4 DEF Inv, QueueIsServed, OneSweep, Descent, InOrder, OutdatedIsDirty,
         RestIsOnDisk, Queued, InQueue, StaleHasFailed, NoSecondRead
<1>8. ReadIsNeeded'
  BY <1>1, <1>4 DEF Inv, ReadIsNeeded, Bh
<1>9. LockHasOneOwner'
  <2>1. \A q \in Proc : pc'[q] \in Owning => q # p /\ pc[q] \in Owning
    BY <1>4 DEF Owning
  <2>2. \A q \in Proc, j \in Slot : Filling(q, j)' = Filling(q, j)
    BY <1>1, <1>4 DEF Filling
  <2>3. \A j \in Slot : request[j] # Free => request[j].bh # b
    BY <1>1 DEF Inv, LockHasOneOwner, Filling
  <2>4. \A q \in Proc : q # p /\ pc[q] \in Owning => Bh(q) # b /\ Bh(q) \in Buffer
    BY DEF Inv, LockHasOneOwner, Owning, TypeOK, Call, Bh
  <2>5. \A j \in Slot : request[j] # Free =>
          b_lock'[request[j].bh] /\ (InQueue(j) \/ \E q \in Proc : Filling(q, j))
    BY <1>3, <2>3 DEF Inv, LockHasOneOwner, TypeOK, Request
  <2>6. ASSUME NEW q \in Proc, pc'[q] \in Owning
        PROVE  /\ b_lock'[Bh(q)]
               /\ \A j \in Slot : request[j] # Free /\ request[j].bh = Bh(q) => Filling(q, j)
               /\ \A u \in Proc : pc'[u] \in Owning /\ Bh(u) = Bh(q) => u = q
    <3>1. q # p /\ pc[q] \in Owning
      BY <2>1, <2>6
    <3>2. /\ b_lock[Bh(q)]
          /\ \A j \in Slot : request[j] # Free /\ request[j].bh = Bh(q) => Filling(q, j)
          /\ \A u \in Proc : pc[u] \in Owning /\ Bh(u) = Bh(q) => u = q
      BY <3>1 DEF Inv, LockHasOneOwner, Owning
    <3> QED
      BY <1>3, <2>1, <2>4, <3>1, <3>2
  <2>7. \A q \in Proc : q # p => Bh(q)' = Bh(q)
    BY <1>4 DEF Bh
  <2>8. \A j, k \in Slot : request[j] # Free /\ request[j].bh = request[k].bh => j = k
    BY DEF Inv, LockHasOneOwner
  <2>9. \A j : InQueue(j)' = InQueue(j)
    BY <1>1 DEF InQueue
  <2> HIDE DEF b
  <2> QED
    BY <1>1, <2>1, <2>2, <2>5, <2>6, <2>7, <2>8, <2>9 DEF LockHasOneOwner, Owning
<1> QED
  BY <1>5, <1>6, <1>7, <1>8, <1>9 DEF Inv

\* The search for a free slot finds one.
LEMMA TopIsFree ==
  ASSUME NEW free \in SUBSET Slot, free # {}
  PROVE  (CHOOSE j \in free : \A k \in free : k <= j) \in free
<1>1. NR_REQUEST \in Nat /\ free \in SUBSET (0 .. NR_REQUEST - 1)
  BY RequestsAssumption DEF Slot
<1>2. \E j \in free : \A k \in free : k <= j
  BY <1>1, HasMaximum
<1> QED
  BY <1>2

\* make_request() fills a slot.
LEMMA FindInv ==
  ASSUME Inv, NEW p \in Proc, Find(p)
  PROVE  Inv'
<1> USE DEF buffers, driver
<1> DEFINE free == FreeSlots(call[p].rw)
           s == CHOOSE i \in free : \A j \in free : j <= i
           b == Bh(p)
           r == [cmd |-> call[p].rw, bh |-> b]
<1>1. /\ running = p /\ pc[p] = "find" /\ free # {} /\ slot' = [slot EXCEPT ![p] = s]
      /\ request' = [request EXCEPT ![s] = r] /\ pc' = [pc EXCEPT ![p] = "add"]
      /\ UNCHANGED <<buffers, queue, driver, sleepers, call, running>>
  BY DEF Find, At, Goto
<1>2. s \in Slot /\ request[s] = Free
  <2>1. free \in SUBSET Slot /\ \A i \in free : request[i] = Free
    BY DEF FreeSlots, SlotsFor
  <2> HIDE DEF free
  <2>2. s \in free
    BY <1>1, <2>1, TopIsFree
  <2> QED
    BY <2>1, <2>2
<1> HIDE DEF free, s
<1>3. b \in Buffer /\ call[p].rw \in {READ, WRITE} /\ r \in Request /\ r # Free
  BY DEF Inv, TypeOK, Call, Bh, Request, Free, READ, WRITE
<1>4. r.cmd = call[p].rw /\ r.bh = b
  OBVIOUS
<1> HIDE DEF r, b
<1>5. request'[s] = r /\ \A i \in Slot : i # s => request'[i] = request[i]
  BY <1>1, <1>2 DEF Inv, TypeOK
<1>6. /\ pc'[p] = "add" /\ slot'[p] = s
      /\ \A q \in Proc : q # p => pc'[q] = pc[q] /\ pc[q] \notin Active /\ slot'[q] = slot[q]
  BY <1>1, OthersRest DEF Inv, TypeOK
<1>7. \A i : InQueue(i) => i \in Slot /\ i # s
  BY <1>2, QueueIs DEF Inv, QueueIsServed, InQueue
<1>8. TypeOK'
  <2>1. request' \in [Slot -> Request \cup {Free}] /\ slot' \in [Proc -> Slot]
    BY <1>1, <1>2, <1>3 DEF Inv, TypeOK
  <2>2. pc' \in [Proc -> Places]
    BY <1>1 DEF Inv, TypeOK, Places
  <2> QED
    BY <1>1, <2>1, <2>2 DEF Inv, TypeOK, sleepers
<1>9. OneIsActive' /\ StartHasRequest'
  BY <1>1, <1>6 DEF Inv, OneIsActive, StartHasRequest
<1>10. \A i : InQueue(i)' = InQueue(i)
  BY <1>1 DEF InQueue
<1>11. FilledIsMine'
  <2> SUFFICES ASSUME NEW q \in Proc, pc'[q] = "add"
               PROVE  request'[slot'[q]] = [cmd |-> call[q].rw, bh |-> Bh(q)] /\ ~InQueue(slot'[q])
    BY <1>1, <1>10 DEF FilledIsMine, Bh
  <2>1. q = p
    BY <1>6 DEF Active
  <2> QED
    BY <1>5, <1>6, <1>7, <2>1 DEF r, b
<1>12. \A k \in 1 .. Len(queue) : request'[queue[k]] = request[queue[k]]
  BY <1>5, <1>7 DEF InQueue
<1>13. QueueIsServed'
  <2>1. \A q \in Proc : pc'[q] = "start" <=> pc[q] = "start"
    BY <1>1, <1>6
  <2> QED
    BY <1>1, <1>12, <2>1 DEF Inv, QueueIsServed
<1>14. OneSweep'
  <2>1. Len(queue) \in Nat
    BY QueueIs DEF Inv
  <2>2. \A k \in 1 .. Len(queue) - 1 : k \in 1 .. Len(queue) /\ k + 1 \in 1 .. Len(queue)
    BY <2>1
  <2>3. \A k \in 1 .. Len(queue) - 1 : Descent(k)' = Descent(k)
    BY <1>1, <1>12, <2>2 DEF Descent, InOrder
  <2> QED
    BY <1>1, <2>3 DEF Inv, OneSweep
<1>15. OutdatedIsDirty'
  BY <1>1, <1>5, <1>7, QueueIs DEF Inv, OutdatedIsDirty
<1>16. RestIsOnDisk'
  <2>1. \A c \in Buffer : Queued(c)' = Queued(c)
    BY <1>5, <1>7, <1>10 DEF Queued
  <2> QED
    BY <1>1, <2>1 DEF Inv, RestIsOnDisk
<1>17. StaleHasFailed' /\ ReadIsNeeded'
  BY <1>1, <1>6 DEF Inv, StaleHasFailed, ReadIsNeeded, Bh
<1>18. NoSecondRead'
  <2>1. r.cmd = READ => ~loaded[r.bh] \/ r.bh \in failed
    BY <1>1, <1>3, <1>4 DEF Inv, ReadIsNeeded, StaleHasFailed, b
  <2> QED
    BY <1>1, <1>5, <2>1 DEF Inv, NoSecondRead
<1>19. LockHasOneOwner'
  <2>1. /\ b_lock[b] /\ \A i \in Slot : request[i] # Free => request[i].bh # b
        /\ \A q \in Proc : pc[q] \in Owning /\ Bh(q) = b => q = p
    BY <1>1 DEF Inv, LockHasOneOwner, Owning, Filling, b
  <2>2. \A q \in Proc : pc'[q] \in Owning <=> pc[q] \in Owning
    BY <1>1, <1>6 DEF Owning
  <2>3. \A q \in Proc : q # p => pc[q] # "add"
    BY <1>6 DEF Active
  <2>4. \A q \in Proc, i \in Slot : Filling(q, i)' <=> q = p /\ i = s
    BY <1>1, <1>6, <2>3 DEF Filling
  <2>5. \A q \in Proc, i \in Slot : ~Filling(q, i)
    BY <1>1, <2>3 DEF Filling
  <2>6. \A i \in Slot : request'[i] # Free =>
          b_lock[request'[i].bh] /\ (InQueue(i) \/ \E q \in Proc : Filling(q, i)')
    BY <1>4, <1>5, <2>1, <2>4, <2>5 DEF Inv, LockHasOneOwner
  <2>7. \A i, j \in Slot : request'[i] # Free /\ request'[i].bh = request'[j].bh => i = j
    <3> SUFFICES ASSUME NEW i \in Slot, NEW j \in Slot, request'[i] # Free,
                        request'[i].bh = request'[j].bh
                 PROVE  i = j
      OBVIOUS
    <3>1. CASE i # s /\ j # s
      BY <1>5, <3>1 DEF Inv, LockHasOneOwner
    <3>2. CASE i # s /\ j = s
      BY <1>4, <1>5, <2>1, <3>2
    <3>3. CASE i = s /\ j # s
      <4>1. request[j].bh = b
        BY <1>4, <1>5, <3>3
      <4>2. request[j] # Free
        BY <1>3, <4>1 DEF Free, Buffer
      <4> QED
        BY <2>1, <4>1, <4>2
    <3> QED
      BY <3>1, <3>2, <3>3
  <2>8. ASSUME NEW q \in Proc, pc[q] \in Owning
        PROVE  /\ b_lock[Bh(q)]
               /\ \A i \in Slot : request'[i] # Free /\ request'[i].bh = Bh(q) => Filling(q, i)'
               /\ \A u \in Proc : pc[u] \in Owning /\ Bh(u) = Bh(q) => u = q
    <3>1. /\ b_lock[Bh(q)] /\ \A i \in Slot : request[i] # Free => request[i].bh # Bh(q)
          /\ \A u \in Proc : pc[u] \in Owning /\ Bh(u) = Bh(q) => u = q
      BY <2>5, <2>8 DEF Inv, LockHasOneOwner, Owning
    <3>2. q = p => Bh(q) = b
      BY DEF b
    <3> QED
      BY <1>4, <1>5, <2>1, <2>4, <2>8, <3>1, <3>2
  <2>9. \A q \in Proc : Bh(q)' = Bh(q)
    BY <1>1 DEF Bh
  <2> QED
    BY <1>1, <1>10, <2>2, <2>6, <2>7, <2>8, <2>9 DEF LockHasOneOwner, Owning
<1> QED
  BY <1>8, <1>9, <1>11, <1>13, <1>14, <1>15, <1>16, <1>17, <1>18, <1>19 DEF Inv

\* IN_ORDER compares any two requests: no two carry the same buffer.
LEMMA InOrderIsTotal ==
  ASSUME Inv, NEW i \in Slot, NEW j \in Slot, request[i] # Free, request[j] # Free, i # j
  PROVE  InOrder(i, j) \/ InOrder(j, i)
<1>1. /\ request[i].cmd \in {READ, WRITE} /\ request[i].bh \in Buffer
      /\ request[j].cmd \in {READ, WRITE} /\ request[j].bh \in Buffer
  BY DEF Inv, TypeOK, Request
<1>2. request[i].bh # request[j].bh
  BY DEF Inv, LockHasOneOwner
<1>3. NBuf \in Nat
  BY BuffersAssumption
<1> DEFINE x == request[i].cmd
           y == request[j].cmd
           u == request[i].bh
           v == request[j].bh
<1>4. x \in Int /\ y \in Int /\ u \in Int /\ v \in Int /\ u # v
  BY <1>1, <1>2, <1>3 DEF READ, WRITE, Buffer
<1>5. InOrder(i, j) <=> x < y \/ (x = y /\ u < v)
  BY DEF InOrder
<1>6. InOrder(j, i) <=> y < x \/ (y = x /\ v < u)
  BY DEF InOrder
<1> HIDE DEF x, y, u, v
<1> QED
  BY <1>4, <1>5, <1>6

\* The place of the new request keeps the queue one sweep: it goes into the
\* gap where it fits, and when it starts a new sweep at the end there was none.
LEMMA SweepIsKept ==
  ASSUME Inv, queue # <<>>, NEW r \in Slot, request[r] # Free, ~InQueue(r),
         queue' = Inserted(r), request' = request
  PROVE  OneSweep'
<1> DEFINE n == Len(queue)
           k == Place(r)
           D(j) == Descent(j)
           E(j) == Descent(j)'
<1>1. /\ n \in Nat /\ k \in 1 .. n /\ Len(queue') = n + 1
      /\ \A j \in 1 .. k : queue'[j] = queue[j]
      /\ queue'[k + 1] = r
      /\ \A j \in k + 2 .. n + 1 : queue'[j] = queue[j - 1]
  BY QueueIs, PlaceIs, InsertedIs DEF Inv
<1>2. \/ k < n /\ Fits(k, r)
      \/ k = n /\ \A j \in 1 .. n - 1 : ~Fits(j, r)
  BY PlaceIs DEF Inv
<1>3. \A j \in 1 .. n : InOrder(queue[j], r) \/ InOrder(r, queue[j])
  <2> SUFFICES ASSUME NEW j \in 1 .. n PROVE InOrder(queue[j], r) \/ InOrder(r, queue[j])
    OBVIOUS
  <2>1. queue[j] \in Slot /\ request[queue[j]] # Free /\ queue[j] # r
    BY QueueIs DEF Inv, QueueIsServed, InQueue
  <2> QED
    BY <2>1, InOrderIsTotal
<1>4. \A i, j : InOrder(i, j)' = InOrder(i, j)
  BY DEF InOrder
<1>5. \A j : E(j) <=> ~InOrder(queue'[j], queue'[j + 1])
  BY <1>4 DEF Descent
<1>6. \A j : D(j) <=> ~InOrder(queue[j], queue[j + 1])
  BY DEF Descent
<1>7. \A i, j \in 1 .. n - 1 : D(i) /\ D(j) => i = j
  BY DEF Inv, OneSweep
<1>8. OneSweep' <=> \A i, j \in 1 .. Len(queue') - 1 : E(i) /\ E(j) => i = j
  BY DEF OneSweep
<1> HIDE DEF n, k, D, E
<1>9. \A j \in 1 .. k - 1 : E(j) <=> D(j)
  <2> SUFFICES ASSUME NEW j \in 1 .. k - 1 PROVE E(j) <=> D(j)
    OBVIOUS
  <2>1. j \in 1 .. k /\ j + 1 \in 1 .. k
    BY <1>1
  <2> QED
    BY <1>1, <1>5, <1>6, <2>1
<1>10. E(k) <=> ~InOrder(queue[k], r)
  BY <1>1, <1>5
<1>11. CASE k < n /\ Fits(k, r)
  <2>1. /\ InOrder(queue[k], r) \/ ~InOrder(queue[k], queue[k + 1])
        /\ InOrder(r, queue[k + 1])
    BY <1>11 DEF Fits
  <2>2. E(k) => D(k)
    BY <1>6, <1>10, <2>1
  <2>3. ~E(k + 1)
    <3>1. k + 2 \in k + 2 .. n + 1 /\ (k + 2) - 1 = k + 1 /\ (k + 1) + 1 = k + 2
      BY <1>1, <1>11
    <3> QED
      BY <1>1, <1>5, <2>1, <3>1
  <2>4. \A j \in k + 2 .. n : E(j) => D(j - 1)
    <3> SUFFICES ASSUME NEW j \in k + 2 .. n, E(j) PROVE D(j - 1)
      OBVIOUS
    <3>1. /\ j \in k + 2 .. n + 1 /\ j + 1 \in k + 2 .. n + 1 /\ (j + 1) - 1 = j
          /\ (j - 1) + 1 = j
      BY <1>1
    <3>2. queue'[j] = queue[j - 1] /\ queue'[j + 1] = queue[j]
      BY <1>1, <3>1
    <3> QED
      BY <1>5, <1>6, <3>1, <3>2
  <2>5. \A j \in 1 .. n : E(j) => \/ j <= k /\ D(j) /\ j \in 1 .. n - 1
                                  \/ j >= k + 2 /\ D(j - 1) /\ j - 1 \in 1 .. n - 1
    <3> SUFFICES ASSUME NEW j \in 1 .. n, E(j)
                 PROVE  \/ j <= k /\ D(j) /\ j \in 1 .. n - 1
                        \/ j >= k + 2 /\ D(j - 1) /\ j - 1 \in 1 .. n - 1
      OBVIOUS
    <3>1. j \in 1 .. k - 1 \/ j = k \/ j = k + 1 \/ j \in k + 2 .. n
      BY <1>1
    <3>2. CASE j \in 1 .. k - 1
      BY <1>1, <1>9, <1>11, <3>2
    <3>3. CASE j = k
      BY <1>1, <1>11, <2>2, <3>3
    <3>4. CASE j \in k + 2 .. n
      <4>1. j \in Int /\ j - 1 \in 1 .. n - 1 /\ j >= k + 2
        BY <1>1, <3>4
      <4> QED
        BY <2>4, <3>4, <4>1
    <3> QED
      BY <2>3, <3>1, <3>2, <3>3, <3>4
  <2>6. ASSUME NEW i \in 1 .. n, NEW j \in 1 .. n, E(i), E(j) PROVE i = j
    <3>1. CASE i <= k /\ j <= k
      BY <1>1, <1>7, <2>5, <2>6, <3>1
    <3>2. CASE i >= k + 2 /\ j >= k + 2
      <4>1. i - 1 \in 1 .. n - 1 /\ j - 1 \in 1 .. n - 1 /\ D(i - 1) /\ D(j - 1)
        BY <1>1, <2>5, <2>6, <3>2
      <4>2. i - 1 = j - 1
        BY <1>7, <4>1
      <4> QED
        BY <4>2
    <3>3. CASE i <= k /\ j >= k + 2
      <4>1. i \in 1 .. n - 1 /\ j - 1 \in 1 .. n - 1 /\ D(i) /\ D(j - 1)
        BY <1>1, <2>5, <2>6, <3>3
      <4>2. i = j - 1
        BY <1>7, <4>1
      <4> QED
        BY <1>1, <3>3, <4>2
    <3>4. CASE j <= k /\ i >= k + 2
      <4>1. j \in 1 .. n - 1 /\ i - 1 \in 1 .. n - 1 /\ D(j) /\ D(i - 1)
        BY <1>1, <2>5, <2>6, <3>4
      <4>2. j = i - 1
        BY <1>7, <4>1
      <4> QED
        BY <1>1, <3>4, <4>2
    <3>5. (i <= k \/ i >= k + 2) /\ (j <= k \/ j >= k + 2)
      BY <2>5, <2>6
    <3> QED
      BY <3>1, <3>2, <3>3, <3>4, <3>5
  <2> QED
    BY <1>1, <1>8, <2>6
<1>12. CASE k = n /\ \A j \in 1 .. n - 1 : ~Fits(j, r)
  <2>1. ASSUME E(n), NEW j \in 1 .. n - 1, D(j) PROVE FALSE
    <3> DEFINE S == {m \in j + 1 .. n : InOrder(r, queue[m])}
    <3>1. n \in S
      BY <1>1, <1>3, <1>10, <1>12, <2>1
    <3>2. S \in SUBSET Nat
      BY <1>1
    <3>3. PICK m \in S : \A y \in S : m <= y
      <4> HIDE DEF S
      <4> QED
        BY <3>1, <3>2, HasMinimum
    <3>4. m \in j + 1 .. n /\ InOrder(r, queue[m])
      OBVIOUS
    <3>5. m # j + 1
      <4>1. ~Fits(j, r)
        BY <1>12
      <4>2. ~InOrder(queue[j], queue[j + 1])
        BY <1>6, <2>1
      <4> QED
        BY <3>4, <4>1, <4>2 DEF Fits
    <3>6. m - 1 \in j + 1 .. n /\ m - 1 \in 1 .. n - 1 /\ (m - 1) + 1 = m /\ ~(m <= m - 1)
          /\ m - 1 \in 1 .. n
      BY <1>1, <3>4, <3>5
    <3>7. ~InOrder(r, queue[m - 1])
      BY <3>3, <3>6
    <3>8. InOrder(queue[m - 1], r)
      BY <1>3, <3>6, <3>7
    <3> QED
      BY <1>12, <3>4, <3>6, <3>8 DEF Fits
  <2>2. ASSUME NEW i \in 1 .. n, NEW j \in 1 .. n, E(i), E(j) PROVE i = j
    <3>1. \A h \in 1 .. n : h = n \/ (h \in 1 .. n - 1)
      BY <1>1
    <3>2. \A h \in 1 .. n - 1 : E(h) <=> D(h)
      BY <1>9, <1>12
    <3> QED
      BY <1>7, <2>1, <2>2, <3>1, <3>2
  <2>3. Len(queue') - 1 = n
    BY <1>1
  <2> QED
    BY <1>8, <2>2, <2>3
<1> QED
  BY <1>2, <1>11, <1>12

\* What the queue holds after the new request was put into it.
LEMMA QueueGrows ==
  ASSUME Inv, NEW r \in Slot, ~InQueue(r),
         IF queue = <<>> THEN queue' = <<r>> ELSE queue' = Inserted(r)
  PROVE  /\ queue' \in Seq(Slot) /\ queue' # <<>>
         /\ \A i : InQueue(i)' <=> InQueue(i) \/ i = r
         /\ \A j, m \in 1 .. Len(queue') : queue'[j] = queue'[m] => j = m
         /\ Head(queue') = IF queue = <<>> THEN r ELSE Head(queue)
<1>1. CASE queue = <<>>
  <2>1. queue' = <<r>> /\ Len(queue) = 0
    BY <1>1
  <2>2. Len(queue') = 1 /\ queue'[1] = r /\ Head(queue') = r /\ queue' \in Seq(Slot)
    BY <2>1
  <2> QED
    BY <1>1, <2>1, <2>2 DEF InQueue
<1>2. CASE queue # <<>>
  <2> DEFINE n == Len(queue)
             k == Place(r)
  <2>1. /\ n \in Nat /\ n > 0 /\ k \in 1 .. n
        /\ queue' \in Seq(Slot) /\ Len(queue') = n + 1
        /\ \A j \in 1 .. k : queue'[j] = queue[j]
        /\ queue'[k + 1] = r
        /\ \A j \in k + 2 .. n + 1 : queue'[j] = queue[j - 1]
    <3>1. queue' = Inserted(r)
      BY <1>2
    <3> QED
      BY <1>2, <3>1, QueueIs, PlaceIs, InsertedIs DEF Inv
  <2>2. \A j \in 1 .. n : queue[j] # r
    BY DEF InQueue
  <2>3. \A j, m \in 1 .. n : queue[j] = queue[m] => j = m
    BY DEF Inv, QueueIsServed
  <2>4. Head(queue) = queue[1]
    BY <1>2, QueueIs DEF Inv
  <2>5. \A i : InQueue(i) <=> \E j \in 1 .. n : queue[j] = i
    BY DEF InQueue
  <2>6. \A i : InQueue(i)' <=> \E j \in 1 .. n + 1 : queue'[j] = i
    BY <2>1 DEF InQueue
  <2> HIDE DEF n, k
  <2>7. \A j \in 1 .. n + 1 : j \in 1 .. k \/ j = k + 1 \/ j \in k + 2 .. n + 1
    BY <2>1
  <2>8. \A j \in k + 2 .. n + 1 : j - 1 \in k + 1 .. n /\ j - 1 \in 1 .. n
    BY <2>1
  <2>9. \A j \in 1 .. k : j \in 1 .. n
    BY <2>1
  <2>10. ASSUME NEW j \in 1 .. n + 1, NEW m \in 1 .. n + 1, queue'[j] = queue'[m] PROVE j = m
    <3>1. CASE j \in 1 .. k
      <4>1. queue'[j] = queue[j] /\ j \in 1 .. n /\ queue'[m] # r
        BY <2>1, <2>2, <2>9, <2>10, <3>1
      <4>2. CASE m \in 1 .. k
        BY <2>1, <2>3, <2>9, <2>10, <4>1, <4>2
      <4>3. CASE m \in k + 2 .. n + 1
        <5>1. queue'[m] = queue[m - 1] /\ m - 1 \in 1 .. n
          BY <2>1, <2>8, <4>3
        <5>2. j = m - 1
          BY <2>3, <2>10, <4>1, <5>1
        <5> QED
          BY <2>1, <2>8, <3>1, <4>3, <5>2
      <4> QED
        BY <2>1, <2>7, <4>1, <4>2, <4>3
    <3>2. CASE j = k + 1
      <4>1. queue'[m] = r
        BY <2>1, <2>10, <3>2
      <4> QED
        BY <2>1, <2>2, <2>7, <2>8, <2>9, <3>2, <4>1
    <3>3. CASE j \in k + 2 .. n + 1
      <4>1. queue'[j] = queue[j - 1] /\ j - 1 \in 1 .. n /\ queue'[m] # r
        BY <2>1, <2>2, <2>8, <2>10, <3>3
      <4>2. CASE m \in 1 .. k
        <5>1. m = j - 1
          BY <2>1, <2>3, <2>9, <2>10, <4>1, <4>2
        <5> QED
          BY <2>1, <2>8, <3>3, <4>2, <5>1
      <4>3. CASE m \in k + 2 .. n + 1
        <5>1. j - 1 = m - 1
          BY <2>1, <2>3, <2>8, <2>10, <4>1, <4>3
        <5> QED
          BY <5>1
      <4> QED
        BY <2>1, <2>7, <4>1, <4>2, <4>3
    <3> QED
      BY <2>7, <3>1, <3>2, <3>3
  <2>11. ASSUME NEW i, InQueue(i)' PROVE InQueue(i) \/ i = r
    BY <2>1, <2>5, <2>6, <2>7, <2>8, <2>9, <2>11
  <2>12. ASSUME NEW i, InQueue(i) \/ i = r PROVE InQueue(i)'
    <3>1. CASE i = r
      <4>1. k + 1 \in 1 .. n + 1
        BY <2>1
      <4> QED
        BY <2>1, <2>6, <3>1, <4>1
    <3>2. CASE InQueue(i)
      <4>1. PICK j \in 1 .. n : queue[j] = i
        BY <2>5, <3>2
      <4>2. CASE j <= k
        <5>1. j \in 1 .. k /\ j \in 1 .. n + 1
          BY <2>1, <4>2
        <5> QED
          BY <2>1, <2>6, <4>1, <5>1
      <4>3. CASE ~(j <= k)
        <5>1. j + 1 \in k + 2 .. n + 1 /\ j + 1 \in 1 .. n + 1 /\ (j + 1) - 1 = j
          BY <2>1, <4>3
        <5>2. queue'[j + 1] = i
          BY <2>1, <4>1, <5>1
        <5> QED
          BY <2>6, <5>1, <5>2
      <4> QED
        BY <4>2, <4>3
    <3> QED
      BY <2>12, <3>1, <3>2
  <2>13. queue' # <<>> /\ Head(queue') = queue'[1]
    <3>1. queue' # <<>>
      BY <2>1, EmptySeq
    <3> QED
      BY <2>1, <3>1
  <2>14. 1 \in 1 .. k
    BY <2>1
  <2> QED
    BY <1>2, <2>1, <2>4, <2>10, <2>11, <2>12, <2>13, <2>14
<1> QED
  BY <1>1, <1>2

\* add_request() queues the request, and finds the device idle or not.
LEMMA AddInv ==
  ASSUME Inv, NEW p \in Proc, Add(p)
  PROVE  Inv'
<1> DEFINE b == Bh(p)
           r == slot[p]
<1>1. /\ running = p /\ pc[p] = "add"
      /\ b_dirt' = [b_dirt EXCEPT ![b] = FALSE]
      /\ UNCHANGED <<b_lock, b_uptodate, loaded, synced, failed, request, driver, sleepers>>
  BY DEF Add, At
<1>2. b \in Buffer /\ r \in Slot
  BY DEF Inv, TypeOK, Call, Bh
<1>3. request[r] = [cmd |-> call[p].rw, bh |-> Bh(p)] /\ ~InQueue(r)
  BY <1>1 DEF Inv, FilledIsMine
<1>4. request[r].bh = b /\ request[r] # Free
  <2>1. request[r].bh = b
    BY <1>3
  <2>2. Free.bh = 0 /\ b # 0
    BY <1>2, BuffersAssumption DEF Free, Buffer
  <2> QED
    BY <2>1, <2>2
<1>5. \/ queue = <<>> /\ queue' = <<r>> /\ Goto(p, "start") /\ UNCHANGED <<local, running>>
      \/ queue # <<>> /\ queue' = Inserted(r) /\ Return(p)
  BY DEF Add
<1>6. \A q \in Proc : q # p => pc[q] \notin Active
  BY <1>1, OthersRest
<1> USE DEF driver, local, sleepers
<1>7. /\ pc' \in [Proc -> Places] /\ call' \in [Proc -> Call] /\ slot' \in [Proc -> Slot]
      /\ running' \in Proc \cup {None}
      /\ \A q \in Proc : q # p => /\ pc'[q] = pc[q] /\ pc[q] \notin Active
                                  /\ call'[q] = call[q] /\ slot'[q] = slot[q]
      /\ \/ queue = <<>> /\ pc'[p] = "start" /\ running' = p
         \/ queue # <<>> /\ pc'[p] = "idle" /\ running' = None
  <2>1. CASE queue = <<>>
    BY <1>1, <1>5, <1>6, <2>1 DEF Goto, Inv, TypeOK, Places
  <2>2. CASE queue # <<>>
    BY <1>1, <1>5, <2>2, ReturnLocals
  <2> QED
    BY <2>1, <2>2
<1> HIDE DEF b, r
<1>8. /\ queue' \in Seq(Slot) /\ queue' # <<>>
      /\ \A i : InQueue(i)' <=> InQueue(i) \/ i = r
      /\ \A j, m \in 1 .. Len(queue') : queue'[j] = queue'[m] => j = m
      /\ Head(queue') = IF queue = <<>> THEN r ELSE Head(queue)
  <2>1. IF queue = <<>> THEN queue' = <<r>> ELSE queue' = Inserted(r)
    BY <1>5
  <2> QED
    BY <1>2, <1>3, <2>1, QueueGrows
<1>9. /\ b_dirt' \in [Buffer -> BOOLEAN]
      /\ \A c \in Buffer : c # b => b_dirt'[c] = b_dirt[c]
  BY <1>1, <1>2 DEF Inv, TypeOK
<1>10. TypeOK'
  BY <1>1, <1>7, <1>8, <1>9 DEF Inv, TypeOK
<1>11. OneIsActive' /\ StartHasRequest'
  BY <1>7, <1>8 DEF OneIsActive, StartHasRequest, Active
<1>12. \A q \in Proc : pc'[q] # "add"
  BY <1>7 DEF Active
<1>13. FilledIsMine'
  BY <1>12 DEF FilledIsMine
<1>14. \A i \in Slot : request[i] # Free /\ request[i].bh = b => i = r
  BY <1>2, <1>4 DEF Inv, LockHasOneOwner
<1>15. QueueIsServed'
  <2>1. \A j \in 1 .. Len(queue') : request[queue'[j]] # Free
    <3> SUFFICES ASSUME NEW j \in 1 .. Len(queue') PROVE request[queue'[j]] # Free
      OBVIOUS
    <3>1. PICK i : i = queue'[j]
      OBVIOUS
    <3>2. InQueue(i)'
      BY <3>1 DEF InQueue
    <3>3. InQueue(i) \/ i = r
      BY <1>8, <3>2
    <3> QED
      BY <1>4, <3>1, <3>3 DEF Inv, QueueIsServed, InQueue
  <2>2. (device = "busy") <=> (queue # <<>> /\ \A q \in Proc : pc[q] # "start")
    BY DEF Inv, QueueIsServed
  <2>3. (device = "busy") <=> \A q \in Proc : pc'[q] # "start"
    <3>1. \A q \in Proc : pc[q] # "start"
      BY <1>1, <1>6 DEF Active
    <3>2. \A q \in Proc : q # p => pc'[q] # "start"
      BY <1>7, <3>1
    <3>3. pc'[p] = "start" <=> queue = <<>>
      BY <1>7
    <3> QED
      BY <2>2, <3>1, <3>2, <3>3
  <2> QED
    BY <1>1, <1>8, <2>1, <2>3 DEF QueueIsServed
<1>16. OneSweep'
  <2>1. CASE queue = <<>>
    <3>1. queue' = <<r>>
      BY <1>5, <2>1
    <3>2. Len(queue') = 1
      BY <3>1
    <3> QED
      BY <3>2 DEF OneSweep
  <2>2. CASE queue # <<>>
    BY <1>1, <1>2, <1>3, <1>4, <1>5, <2>2, SweepIsKept
  <2> QED
    BY <2>1, <2>2
<1>17. OutdatedIsDirty'
  <2>1. moved # "no" => queue # <<>>
    BY DEF Inv, OutdatedIsDirty
  <2>2. ASSUME moved = "outdated" PROVE b_dirt'[request[Head(queue')].bh]
    <3>1. /\ Head(queue') = Head(queue) /\ Head(queue) \in Slot /\ InQueue(Head(queue))
          /\ b_dirt[request[Head(queue)].bh]
      BY <1>8, <2>1, <2>2, QueueIs DEF Inv, OutdatedIsDirty
    <3>2. request[Head(queue)] # Free
      BY <3>1 DEF Inv, QueueIsServed, InQueue
    <3>3. request[Head(queue)].bh \in Buffer /\ request[Head(queue)].bh # b
      <4>1. request[Head(queue)] \in Request
        BY <3>1, <3>2 DEF Inv, TypeOK
      <4>2. Head(queue) # r
        BY <1>3, <3>1 DEF r
      <4> QED
        BY <1>14, <3>1, <3>2, <4>1, <4>2 DEF Request
    <3> QED
      BY <1>9, <3>1, <3>3
  <2> QED
    BY <1>1, <1>8, <2>1, <2>2 DEF OutdatedIsDirty
<1>18. RestIsOnDisk'
  <2>1. \A c \in Buffer : c = b => Queued(c)'
    BY <1>1, <1>2, <1>4, <1>8 DEF Queued
  <2>2. \A c \in Buffer : Queued(c) => Queued(c)'
    BY <1>1, <1>8 DEF Queued
  <2> SUFFICES ASSUME NEW c \in Buffer, b_uptodate'[c], ~b_dirt'[c], ~Queued(c)'
               PROVE  synced'[c]
    BY DEF RestIsOnDisk
  <2>3. c # b
    BY <2>1
  <2> QED
    BY <1>1, <1>9, <2>2, <2>3 DEF Inv, RestIsOnDisk
<1>19. StaleHasFailed' /\ NoSecondRead'
  BY <1>1 DEF Inv, StaleHasFailed, NoSecondRead
<1>20. ReadIsNeeded'
  <2>1. pc'[p] \notin Seeking
    BY <1>7 DEF Seeking
  <2> QED
    BY <1>1, <1>7, <2>1 DEF Inv, ReadIsNeeded, Bh, Seeking
<1>21. LockHasOneOwner'
  <2>1. \A q \in Proc : pc'[q] \in Owning => q # p /\ pc[q] \in Owning
    BY <1>7 DEF Owning
  <2>2. \A q \in Proc, i \in Slot : ~Filling(q, i)'
    BY <1>12 DEF Filling
  <2>3. \A q \in Proc, i \in Slot : Filling(q, i) => i = r
    BY <1>6 DEF Filling, Active, r
  <2>4. \A i \in Slot : request[i] # Free => b_lock[request[i].bh] /\ InQueue(i)'
    BY <1>8, <2>3 DEF Inv, LockHasOneOwner
  <2>5. ASSUME NEW q \in Proc, pc'[q] \in Owning
        PROVE  /\ b_lock[Bh(q)]
               /\ \A i \in Slot : ~(request[i] # Free /\ request[i].bh = Bh(q))
               /\ \A u \in Proc : pc'[u] \in Owning /\ Bh(u) = Bh(q) => u = q
    <3>1. q # p /\ pc[q] \in Owning
      BY <2>1, <2>5
    <3>2. /\ b_lock[Bh(q)]
          /\ \A i \in Slot : request[i] # Free /\ request[i].bh = Bh(q) => Filling(q, i)
          /\ \A u \in Proc : pc[u] \in Owning /\ Bh(u) = Bh(q) => u = q
      BY <3>1 DEF Inv, LockHasOneOwner, Owning
    <3>3. \A i \in Slot : ~Filling(q, i)
      BY <1>6, <3>1 DEF Filling, Active
    <3> QED
      BY <2>1, <3>2, <3>3
  <2>6. \A q \in Proc : q # p => Bh(q)' = Bh(q)
    BY <1>7 DEF Bh
  <2>7. \A i, j \in Slot : request[i] # Free /\ request[i].bh = request[j].bh => i = j
    BY DEF Inv, LockHasOneOwner
  <2>8. ASSUME NEW q \in Proc, pc'[q] \in Owning
        PROVE  /\ b_lock[Bh(q)'] /\ Bh(q)' = Bh(q)
               /\ \A i \in Slot : ~(request[i] # Free /\ request[i].bh = Bh(q)')
               /\ \A u \in Proc : pc'[u] \in Owning /\ Bh(u)' = Bh(q)' => u = q
    BY <2>1, <2>5, <2>6, <2>8
  <2> HIDE DEF Bh
  <2> QED
    BY <1>1, <2>4, <2>7, <2>8 DEF LockHasOneOwner, Owning
<1> QED
  BY <1>10, <1>11, <1>13, <1>15, <1>16, <1>17, <1>18, <1>19, <1>20, <1>21 DEF Inv

\* end_request(), from the driver's start or from its interrupt: the buffer
\* that is unlocked is nobody else's.
LEMMA EndInv ==
  ASSUME Inv, NEW ok \in BOOLEAN, queue # <<>>, EndRequest(ok),
         ok /\ request[Head(queue)].cmd = WRITE => moved # "no",
         pc' \in [Proc -> Places], call' \in [Proc -> Call], slot' \in [Proc -> Slot],
         running' \in Proc \cup {None}, OneIsActive',
         \A q \in Proc : pc'[q] # "start",
         \A q \in Proc : pc'[q] \in Owning <=> pc[q] \in Owning,
         \A q \in Proc : pc[q] \in Owning =>
           pc'[q] = pc[q] /\ call'[q] = call[q] /\ slot'[q] = slot[q]
  PROVE  Inv'
<1> DEFINE h == Head(queue)
           b == request[h].bh
<1>1. /\ b_uptodate' = [b_uptodate EXCEPT ![b] = ok]
      /\ b_lock'  = [b_lock EXCEPT ![b] = FALSE]
      /\ loaded'  = [loaded EXCEPT ![b] = @ \/ ok]
      /\ failed'  = IF ok THEN failed ELSE failed \cup {b}
      /\ synced'  = [synced EXCEPT ![b] =
                      @ \/ (ok /\ (request[h].cmd = READ \/ moved = "yes"))]
      /\ asleep' = asleep \ {wait_for_request}
      /\ wait_for_request' = None
      /\ request' = [request EXCEPT ![h] = Free]
      /\ queue'   = Tail(queue)
      /\ device'  = IF queue' = <<>> THEN "idle" ELSE "busy"
      /\ moved'   = "no"
      /\ b_dirt' = b_dirt /\ tmp' = tmp
  BY DEF EndRequest
<1>2. h \in Slot /\ InQueue(h)
  BY QueueIs DEF Inv
<1>3. request[h] # Free /\ request[h] \in Request
  BY <1>2 DEF Inv, QueueIsServed, InQueue, TypeOK
<1>4. b \in Buffer /\ request[h].cmd \in {READ, WRITE}
  BY <1>3 DEF Request
<1>5. /\ queue' \in Seq(Slot) /\ Len(queue') = Len(queue) - 1 /\ Len(queue) \in Nat
      /\ \A k \in 1 .. Len(queue') : queue'[k] = queue[k + 1]
      /\ \A i : InQueue(i)' <=> InQueue(i) /\ i # h
  BY <1>1, TailIs, QueueIs DEF Inv
<1>6. /\ \A i, j \in Slot : request[i] # Free /\ request[i].bh = request[j].bh => i = j
      /\ \A i \in Slot : request[i] # Free =>
           b_lock[request[i].bh] /\ (InQueue(i) \/ \E p \in Proc : Filling(p, i))
  BY DEF Inv, LockHasOneOwner
<1>7. \A i \in Slot : i # h => request[i].bh # b
  BY <1>2, <1>3, <1>6
<1>8. \A q \in Proc : pc[q] \in Owning => Bh(q) # b
  <2> SUFFICES ASSUME NEW q \in Proc, pc[q] \in Owning, Bh(q) = b PROVE FALSE
    OBVIOUS
  <2>1. Filling(q, h)
    BY <1>2, <1>3 DEF Inv, LockHasOneOwner, Owning
  <2> QED
    BY <1>2, <2>1 DEF Filling, Inv, FilledIsMine
<1>9. Free.bh = 0 /\ Free.cmd = -1 /\ 0 \notin Buffer
  BY BuffersAssumption DEF Free, Buffer
<1> HIDE DEF h, b
<1>10. request'[h] = Free /\ \A i \in Slot : i # h => request'[i] = request[i]
  BY <1>1, <1>2 DEF Inv, TypeOK
<1>11. /\ b_uptodate' \in [Buffer -> BOOLEAN] /\ b_lock' \in [Buffer -> BOOLEAN]
       /\ loaded' \in [Buffer -> BOOLEAN] /\ synced' \in [Buffer -> BOOLEAN]
       /\ \A c \in Buffer : c # b => /\ b_uptodate'[c] = b_uptodate[c] /\ b_lock'[c] = b_lock[c]
                                     /\ loaded'[c] = loaded[c] /\ synced'[c] = synced[c]
       /\ b_uptodate'[b] = ok
       /\ ok /\ (request[h].cmd = READ \/ moved = "yes") => synced'[b]
  <2>1. /\ b_uptodate \in [Buffer -> BOOLEAN] /\ b_lock \in [Buffer -> BOOLEAN]
        /\ loaded \in [Buffer -> BOOLEAN] /\ synced \in [Buffer -> BOOLEAN]
    BY DEF Inv, TypeOK
  <2>2. b_uptodate' \in [Buffer -> BOOLEAN] /\ b_lock' \in [Buffer -> BOOLEAN]
    BY <1>1, <1>4, <2>1
  <2>3. loaded' \in [Buffer -> BOOLEAN]
    BY <1>1, <1>4, <2>1
  <2>4. synced' \in [Buffer -> BOOLEAN]
    BY <1>1, <1>4, <2>1
  <2>5. \A c \in Buffer : c # b => /\ b_uptodate'[c] = b_uptodate[c] /\ b_lock'[c] = b_lock[c]
                                   /\ loaded'[c] = loaded[c] /\ synced'[c] = synced[c]
    BY <1>1, <2>1
  <2> QED
    BY <1>1, <1>4, <2>1, <2>2, <2>3, <2>4, <2>5
<1>12. failed' \in SUBSET Buffer /\ failed \subseteq failed' /\ (~ok => b \in failed')
  BY <1>1, <1>4 DEF Inv, TypeOK
<1>13. TypeOK' /\ StartHasRequest'
  <2>1. request' \in [Slot -> Request \cup {Free}]
    BY <1>1, <1>2 DEF Inv, TypeOK
  <2>2. /\ asleep' \in SUBSET Proc /\ wait_for_request' \in Proc \cup {None}
        /\ tmp' \in [Proc -> Proc \cup {None}] /\ b_dirt' \in [Buffer -> BOOLEAN]
    BY <1>1 DEF Inv, TypeOK
  <2>3. device' \in {"idle", "busy"} /\ moved' \in {"no", "yes", "outdated"}
    BY <1>1
  <2> QED
    BY <1>5, <1>11, <1>12, <2>1, <2>2, <2>3 DEF TypeOK, StartHasRequest
<1>14. FilledIsMine'
  <2> SUFFICES ASSUME NEW q \in Proc, pc'[q] = "add"
               PROVE  /\ request'[slot'[q]] = [cmd |-> call'[q].rw, bh |-> Bh(q)']
                      /\ ~InQueue(slot[q])' /\ slot'[q] = slot[q]
    BY DEF FilledIsMine, InQueue
  <2>1. pc[q] = "add" /\ call'[q] = call[q] /\ slot'[q] = slot[q]
    BY DEF Owning
  <2>2. request[slot[q]] = [cmd |-> call[q].rw, bh |-> Bh(q)] /\ ~InQueue(slot[q])
    BY <2>1 DEF Inv, FilledIsMine
  <2>3. PICK i : i = slot[q]
    OBVIOUS
  <2>4. i \in Slot /\ i # h /\ ~InQueue(i)'
    BY <1>2, <1>5, <2>2, <2>3 DEF Inv, TypeOK
  <2> QED
    BY <1>10, <2>1, <2>2, <2>3, <2>4 DEF Bh, InQueue
<1>15. LockHasOneOwner'
  <2>1. \A q \in Proc, i \in Slot : Filling(q, i)' <=> Filling(q, i)
    BY DEF Filling, Owning
  <2>2. \A q \in Proc : pc'[q] \in Owning => Bh(q)' = Bh(q)
    BY DEF Bh
  <2>3. \A i \in Slot : request'[i] # Free => i # h /\ request'[i] = request[i]
                          /\ request[i].bh \in Buffer /\ request[i].bh # b
    BY <1>7, <1>10 DEF Inv, TypeOK, Request
  <2>4. \A i \in Slot : request'[i] # Free =>
          b_lock'[request'[i].bh] /\ (InQueue(i)' \/ \E p \in Proc : Filling(p, i)')
    BY <1>5, <1>6, <1>11, <2>1, <2>3
  <2>5. \A i, j \in Slot : request'[i] # Free /\ request'[i].bh = request'[j].bh => i = j
    <3> SUFFICES ASSUME NEW i \in Slot, NEW j \in Slot, request'[i] # Free,
                        request'[i].bh = request'[j].bh
                 PROVE  i = j
      OBVIOUS
    <3>1. j # h
      BY <1>9, <1>10, <2>3
    <3> QED
      BY <1>6, <1>10, <2>3, <3>1
  <2>6. ASSUME NEW q \in Proc, pc[q] \in Owning
        PROVE  /\ b_lock'[Bh(q)]
               /\ \A i \in Slot : request'[i] # Free /\ request'[i].bh = Bh(q) => Filling(q, i)
               /\ \A u \in Proc : pc[u] \in Owning /\ Bh(u) = Bh(q) => u = q
    <3>1. /\ b_lock[Bh(q)]
          /\ \A i \in Slot : request[i] # Free /\ request[i].bh = Bh(q) => Filling(q, i)
          /\ \A u \in Proc : pc[u] \in Owning /\ Bh(u) = Bh(q) => u = q
      BY <2>6 DEF Inv, LockHasOneOwner, Owning
    <3>2. Bh(q) \in Buffer /\ Bh(q) # b
      BY <1>8, <2>6 DEF Inv, TypeOK, Call, Bh
    <3> QED
      BY <1>11, <2>3, <3>1, <3>2
  <2>7. ASSUME NEW q \in Proc, pc'[q] \in Owning
        PROVE  /\ b_lock'[Bh(q)']
               /\ \A i \in Slot : request'[i] # Free /\ request'[i].bh = Bh(q)' => Filling(q, i)'
               /\ \A u \in Proc : pc'[u] \in Owning /\ Bh(u)' = Bh(q)' => u = q
    <3>1. pc[q] \in Owning /\ Bh(q)' = Bh(q)
      BY <2>2, <2>7
    <3> HIDE DEF Bh
    <3>2. \A i \in Slot : request'[i] # Free /\ request'[i].bh = Bh(q)' => Filling(q, i)'
      BY <2>1, <2>6, <3>1
    <3> QED
      BY <2>2, <2>6, <3>1, <3>2
  <2> HIDE DEF Bh
  <2> QED
    BY <2>4, <2>5, <2>7 DEF LockHasOneOwner, Owning
<1>16. QueueIsServed'
  <2>1. \A k \in 1 .. Len(queue') : k + 1 \in 1 .. Len(queue) /\ queue'[k] = queue[k + 1]
    BY <1>5
  <2>2. \A k \in 1 .. Len(queue') : request'[queue'[k]] # Free
    <3> SUFFICES ASSUME NEW k \in 1 .. Len(queue') PROVE request'[queue'[k]] # Free
      OBVIOUS
    <3>1. PICK i : i = queue'[k]
      OBVIOUS
    <3>2. i \in Slot /\ i # h
      BY <1>5, <2>1, <3>1, QueueIs DEF Inv, InQueue
    <3> QED
      BY <1>10, <2>1, <3>1, <3>2 DEF Inv, QueueIsServed
  <2>3. \A k, m \in 1 .. Len(queue') : queue'[k] = queue'[m] => k = m
    <3> SUFFICES ASSUME NEW k \in 1 .. Len(queue'), NEW m \in 1 .. Len(queue'),
                        queue'[k] = queue'[m]
                 PROVE  k = m
      OBVIOUS
    <3>1. k + 1 = m + 1
      BY <2>1 DEF Inv, QueueIsServed
    <3> QED
      BY <1>5, <3>1
  <2>4. (device' = "busy") <=> (queue' # <<>> /\ \A q \in Proc : pc'[q] # "start")
    BY <1>1
  <2> QED
    BY <2>2, <2>3, <2>4 DEF QueueIsServed
<1>17. OneSweep'
  <2>1. \A k \in 1 .. Len(queue') - 1 :
           /\ k + 1 \in 1 .. Len(queue) - 1 /\ k \in 1 .. Len(queue') /\ k + 1 \in 1 .. Len(queue')
    BY <1>5
  <2>2. \A k \in 1 .. Len(queue') : /\ queue'[k] = queue[k + 1] /\ queue'[k] \in Slot
                                    /\ request'[queue'[k]] = request[queue'[k]]
    <3> SUFFICES ASSUME NEW k \in 1 .. Len(queue')
                 PROVE  /\ queue'[k] = queue[k + 1] /\ queue'[k] \in Slot
                        /\ request'[queue'[k]] = request[queue'[k]]
      OBVIOUS
    <3>1. PICK i : i = queue'[k]
      OBVIOUS
    <3>2. i \in Slot /\ i # h
      BY <1>5, <3>1, ElementOfSeq DEF InQueue
    <3> QED
      BY <1>5, <1>10, <3>1, <3>2
  <2>3. \A k \in 1 .. Len(queue') - 1 : Descent(k)' => Descent(k + 1)
    BY <2>1, <2>2 DEF Descent, InOrder
  <2> SUFFICES ASSUME NEW j \in 1 .. Len(queue') - 1, NEW k \in 1 .. Len(queue') - 1,
                      Descent(j)', Descent(k)'
               PROVE  j = k
    BY DEF OneSweep
  <2>4. j + 1 = k + 1
    BY <2>1, <2>3 DEF Inv, OneSweep
  <2> QED
    BY <1>5, <2>4
<1>18. OutdatedIsDirty'
  BY <1>1 DEF OutdatedIsDirty
<1>19. RestIsOnDisk'
  <2> SUFFICES ASSUME NEW c \in Buffer, b_uptodate'[c], ~b_dirt[c], ~Queued(c)'
               PROVE  synced'[c]
    BY <1>1 DEF RestIsOnDisk
  <2>1. CASE c = b
    <3>1. ok
      BY <1>11, <2>1
    <3>2. moved # "outdated"
      BY <2>1 DEF Inv, OutdatedIsDirty, b, h
    <3>3. request[h].cmd = READ \/ moved = "yes"
      BY <1>4, <3>1, <3>2 DEF Inv, TypeOK, h
    <3> QED
      BY <1>11, <2>1, <3>1, <3>3
  <2>2. CASE c # b
    <3>1. ~Queued(c)
      <4> SUFFICES ASSUME NEW i \in Slot, InQueue(i), request[i].bh = c PROVE FALSE
        BY DEF Queued
      <4>1. i # h
        BY <2>2 DEF b
      <4> QED
        BY <1>5, <1>10, <4>1 DEF Queued
    <3> QED
      BY <1>11, <2>2, <3>1 DEF Inv, RestIsOnDisk
  <2> QED
    BY <2>1, <2>2
<1>20. StaleHasFailed'
  BY <1>11, <1>12 DEF Inv, StaleHasFailed
<1>21. ReadIsNeeded'
  <2> SUFFICES ASSUME NEW q \in Proc, pc'[q] \in Seeking, call'[q].rw = READ
               PROVE  ~b_uptodate'[Bh(q)']
    BY DEF ReadIsNeeded, Seeking
  <2>1. pc[q] \in Owning /\ pc'[q] = pc[q] /\ call'[q] = call[q]
    BY DEF Seeking, Owning
  <2>2. Bh(q) \in Buffer /\ Bh(q) # b /\ Bh(q)' = Bh(q)
    BY <1>8, <2>1 DEF Inv, TypeOK, Call, Bh
  <2> QED
    BY <1>11, <2>1, <2>2 DEF Inv, ReadIsNeeded, Seeking
<1>22. NoSecondRead'
  <2> SUFFICES ASSUME NEW i \in Slot, request'[i].cmd = READ
               PROVE  ~loaded'[request'[i].bh] \/ request'[i].bh \in failed'
    BY DEF NoSecondRead
  <2>1. i # h
    BY <1>9, <1>10 DEF READ
  <2>2. request'[i] = request[i] /\ request[i] \in Request /\ request[i].bh # b
    BY <1>7, <1>9, <1>10, <2>1 DEF Inv, TypeOK, READ
  <2> QED
    BY <1>11, <1>12, <2>2 DEF Inv, NoSecondRead, Request
<1> QED
  BY <1>13, <1>14, <1>15, <1>16, <1>17, <1>18, <1>19, <1>20, <1>21, <1>22 DEF Inv

\* request_fn, called by add_request(), issues the command or refuses it.
LEMMA StartInv ==
  ASSUME Inv, NEW p \in Proc, Start(p)
  PROVE  Inv'
<1>1. running = p /\ pc[p] = "start" /\ Return(p)
  BY DEF Start, At
<1>2. /\ pc' \in [Proc -> Places] /\ call' \in [Proc -> Call] /\ slot' \in [Proc -> Slot]
      /\ running' = None /\ pc'[p] = "idle"
      /\ \A q \in Proc : q # p => /\ pc'[q] = pc[q] /\ pc[q] \notin Active
                                  /\ call'[q] = call[q] /\ slot'[q] = slot[q]
  BY <1>1, ReturnLocals
<1>3. OneIsActive'
  BY <1>2 DEF OneIsActive, Active
<1>4. \A q \in Proc : pc'[q] # "start"
  BY <1>2 DEF Active
<1>5. \A q \in Proc : pc'[q] \in Owning <=> pc[q] \in Owning
  BY <1>1, <1>2 DEF Owning
<1>6. \A q \in Proc : pc[q] \in Owning =>
        q # p /\ pc'[q] = pc[q] /\ call'[q] = call[q] /\ slot'[q] = slot[q]
  BY <1>1, <1>2 DEF Owning
<1>7. CASE EndRequest(FALSE)
  <2>1. queue # <<>>
    BY <1>1 DEF Inv, StartHasRequest
  <2> QED
    BY <1>2, <1>3, <1>4, <1>5, <1>6, <1>7, <2>1, EndInv
<1>8. CASE device' = "busy" /\ UNCHANGED <<buffers, requests, moved, sleepers>>
  <2> USE DEF buffers, requests, sleepers
  <2>1. \A q \in Proc : pc[q] \in Owning => Bh(q)' = Bh(q)
    BY <1>6 DEF Bh
  <2>2. \A q \in Proc, i \in Slot : Filling(q, i)' <=> Filling(q, i)
    BY <1>1, <1>2 DEF Filling
  <2>3. TypeOK'
    BY <1>2, <1>8 DEF Inv, TypeOK
  <2>4. FilledIsMine'
    BY <1>1, <1>2, <1>8 DEF Inv, FilledIsMine, InQueue, Bh
  <2>5. \A i : InQueue(i)' = InQueue(i)
    BY <1>8 DEF InQueue
  <2>6. LockHasOneOwner'
    BY <1>5, <1>8, <2>1, <2>2, <2>5 DEF Inv, LockHasOneOwner, Owning
  <2>7. QueueIsServed' /\ StartHasRequest'
    BY <1>1, <1>4, <1>8 DEF Inv, QueueIsServed, StartHasRequest
  <2>8. OneSweep' /\ OutdatedIsDirty' /\ RestIsOnDisk' /\ StaleHasFailed' /\ NoSecondRead'
    BY <1>8, <2>5 DEF Inv, OneSweep, Descent, InOrder, OutdatedIsDirty, RestIsOnDisk, Queued,
           StaleHasFailed, NoSecondRead
  <2>9. ReadIsNeeded'
    BY <1>1, <1>2, <1>8 DEF Inv, ReadIsNeeded, Bh
  <2> QED
    BY <1>3, <2>3, <2>4, <2>6, <2>7, <2>8, <2>9 DEF Inv
<1> QED
  BY <1>7, <1>8 DEF Start

\* The data of a write go to the controller.
LEMMA MoveInv ==
  ASSUME Inv, Move
  PROVE  Inv'
<1> USE DEF buffers, requests, local
<1>1. /\ device = "busy" /\ moved = "no" /\ moved' = "yes"
      /\ UNCHANGED <<buffers, requests, device, sleepers, local, running, pc>>
  BY DEF Move
<1>2. TypeOK'
  BY <1>1 DEF Inv, TypeOK, sleepers
<1>3. /\ OneIsActive' /\ StartHasRequest' /\ FilledIsMine' /\ LockHasOneOwner' /\ QueueIsServed'
      /\ OneSweep' /\ RestIsOnDisk' /\ StaleHasFailed' /\ ReadIsNeeded' /\ NoSecondRead'
  BY <1>1 DEF Inv, OneIsActive, StartHasRequest, FilledIsMine, LockHasOneOwner, QueueIsServed,
       OneSweep, Descent, InOrder, InQueue, Filling, Bh, RestIsOnDisk, Queued, StaleHasFailed,
       ReadIsNeeded, NoSecondRead
<1>4. OutdatedIsDirty'
  BY <1>1 DEF Inv, QueueIsServed, OutdatedIsDirty
<1> QED
  BY <1>2, <1>3, <1>4 DEF Inv

\* The interrupt ends the current request.
LEMMA InterruptInv ==
  ASSUME Inv, NEW ok \in BOOLEAN, Interrupt(ok)
  PROVE  Inv'
<1>1. /\ device = "busy" /\ EndRequest(ok) /\ UNCHANGED <<running, pc, call, slot>>
      /\ ok /\ request[Head(queue)].cmd = WRITE => moved # "no"
  BY DEF Interrupt, local
<1>2. queue # <<>> /\ \A q \in Proc : pc[q] # "start"
  BY <1>1 DEF Inv, QueueIsServed
<1>3. /\ pc' \in [Proc -> Places] /\ call' \in [Proc -> Call] /\ slot' \in [Proc -> Slot]
      /\ running' \in Proc \cup {None} /\ OneIsActive'
  BY <1>1 DEF Inv, TypeOK, OneIsActive
<1> QED
  BY <1>1, <1>2, <1>3, EndInv

LEMMA InitInv == Init => Inv
<1> SUFFICES ASSUME Init PROVE Inv
  OBVIOUS
<1>1. NoCall \in Call /\ 0 \in Slot
  BY BuffersAssumption, RequestsAssumption DEF NoCall, Call, Buffer, Slot
<1>2. Len(queue) = 0 /\ queue \in Seq(Slot) /\ queue = <<>>
  BY DEF Init
<1>3. TypeOK
  BY <1>1, <1>2 DEF Init, TypeOK, Places
<1>4. OneIsActive /\ StartHasRequest /\ FilledIsMine /\ ReadIsNeeded
  BY DEF Init, OneIsActive, StartHasRequest, FilledIsMine, ReadIsNeeded, Active
<1>5. LockHasOneOwner
  <2>1. \A i \in Slot : request[i] = Free
    BY DEF Init
  <2>2. \A p \in Proc : pc[p] = "idle"
    BY DEF Init
  <2> QED
    BY <2>1, <2>2 DEF LockHasOneOwner
<1>6. QueueIsServed
  BY <1>2 DEF Init, QueueIsServed
<1>7. OneSweep
  BY <1>2 DEF OneSweep
<1>8. OutdatedIsDirty /\ RestIsOnDisk /\ StaleHasFailed
  BY DEF Init, OutdatedIsDirty, RestIsOnDisk, StaleHasFailed
<1>9. NoSecondRead
  BY DEF Init, NoSecondRead, Free, READ
<1> QED
  BY <1>3, <1>4, <1>5, <1>6, <1>7, <1>8, <1>9 DEF Inv

LEMMA StepInv ==
  ASSUME Inv, NEW p \in Proc, Step(p)
  PROVE  Inv'
<1>1. CASE Blocked(p) \/ QueueUp(p) \/ FallAsleep(p) \/ Awake(p)
  BY <1>1, QuietInv
<1>2. CASE Lock(p)
  BY <1>2, LockInv
<1>3. CASE Check(p)
  <2>1. running = p /\ pc[p] = "check"
    BY <1>3 DEF Check, At
  <2>2. GiveUp(p) \/ ~NothingToDo(p)
    BY <1>3 DEF Check
  <2> QED
    BY <1>3, <2>1, <2>2, QuietInv, GiveUpInv
<1>4. CASE Find(p)
  BY <1>4, FindInv
<1>5. CASE NoSlot(p)
  <2>1. running = p /\ pc[p] = "find"
    BY <1>5 DEF NoSlot, At
  <2>2. GiveUp(p) \/ ~call[p].ahead
    BY <1>5 DEF NoSlot
  <2> QED
    BY <1>5, <2>1, <2>2, QuietInv, GiveUpInv
<1>6. CASE Add(p)
  BY <1>6, AddInv
<1>7. CASE Start(p)
  BY <1>7, StartInv
<1> QED
  BY <1>1, <1>2, <1>3, <1>4, <1>5, <1>6, <1>7 DEF Step

LEMMA StutterInv == Inv /\ UNCHANGED vars => Inv'
<1> SUFFICES ASSUME Inv, UNCHANGED vars PROVE Inv'
  OBVIOUS
<1> USE DEF vars, buffers, requests, driver, sleepers, local
<1>1. TypeOK'
  BY DEF Inv, TypeOK
<1>2. /\ OneIsActive' /\ StartHasRequest' /\ FilledIsMine' /\ LockHasOneOwner' /\ QueueIsServed'
      /\ OneSweep' /\ OutdatedIsDirty' /\ RestIsOnDisk' /\ StaleHasFailed' /\ ReadIsNeeded'
      /\ NoSecondRead'
  BY DEF Inv, OneIsActive, StartHasRequest, FilledIsMine, LockHasOneOwner, QueueIsServed,
       OneSweep, Descent, InOrder, InQueue, Filling, Bh, OutdatedIsDirty, RestIsOnDisk, Queued,
       StaleHasFailed, ReadIsNeeded, NoSecondRead
<1> QED
  BY <1>1, <1>2 DEF Inv

LEMMA NextInv == Inv /\ [Next]_vars => Inv'
<1> SUFFICES ASSUME Inv, [Next]_vars PROVE Inv'
  OBVIOUS
<1>1. ASSUME NEW p \in Proc, Enter(p) PROVE Inv'
  BY <1>1, EnterInv
<1>2. ASSUME NEW p \in Proc, Step(p) PROVE Inv'
  BY <1>2, StepInv
<1>3. ASSUME NEW b \in Buffer, Modify(b) PROVE Inv'
  BY <1>3, ModifyInv
<1>4. CASE Move
  BY <1>4, MoveInv
<1>5. ASSUME NEW ok \in BOOLEAN, Interrupt(ok) PROVE Inv'
  BY <1>5, InterruptInv
<1>6. CASE UNCHANGED vars
  BY <1>6, StutterInv
<1> QED
  BY <1>1, <1>2, <1>3, <1>4, <1>5, <1>6 DEF Next, Disk

\* The invariant holds in every state of every execution.
THEOREM InvHolds == Spec => []Inv
<1>1. Init => Inv
  BY InitInv
<1>2. Inv /\ [Next]_vars => Inv'
  BY NextInv
<1> QED
  BY <1>1, <1>2, PTL DEF Spec

\* Every variable of the block layer has its type.
THEOREM TypesCorrect == Spec => []TypeOK
<1>1. Inv => TypeOK
  BY DEF Inv
<1> QED
  BY <1>1, InvHolds, PTL

\* The lock of a buffer has one owner, however many processes ask for the block
\* and whenever the interrupt strikes: no block is in two requests.
THEOREM LockCorrect == Spec => []LockHasOneOwner
<1>1. Inv => LockHasOneOwner
  BY DEF Inv
<1> QED
  BY <1>1, InvHolds, PTL

\* The driver is at work exactly when there is a request, whether the last one
\* ended before, during or after add_request().
THEOREM QueueCorrect == Spec => []QueueIsServed
<1>1. Inv => QueueIsServed
  BY DEF Inv
<1> QED
  BY <1>1, InvHolds, PTL

\* The elevator: the first-fit loop of add_request() keeps the queue one sweep
\* and the beginning of the next, for every order of arrivals.
THEOREM SweepCorrect == Spec => []OneSweep
<1>1. Inv => OneSweep
  BY DEF Inv
<1> QED
  BY <1>1, InvHolds, PTL

\* A clean buffer is as on the disk, although b_dirt is cleared before the
\* data move and the holder may change them while they do.
THEOREM CleanCorrect == Spec => []CleanIsOnDisk
<1>1. Inv => CleanIsOnDisk
  <2> SUFFICES ASSUME Inv, NEW b \in Buffer, b_uptodate[b], ~b_dirt[b], ~b_lock[b]
               PROVE  synced[b]
    BY DEF CleanIsOnDisk
  <2>1. ASSUME NEW i \in Slot, InQueue(i), request[i].bh = b PROVE FALSE
    <3>1. request[i] # Free
      BY <2>1 DEF Inv, QueueIsServed, InQueue
    <3> QED
      BY <2>1, <3>1 DEF Inv, LockHasOneOwner
  <2>2. ~Queued(b)
    BY <2>1 DEF Queued
  <2> QED
    BY <2>2 DEF Inv, RestIsOnDisk
<1> QED
  BY <1>1, InvHolds, PTL

\* A block is not read a second time over data that a process changed: the test
\* of b_uptodate under the lock suffices.
THEOREM ReadCorrect == Spec => []NoSecondRead
<1>1. Inv => NoSecondRead
  BY DEF Inv
<1> QED
  BY <1>1, InvHolds, PTL
=============================================================================
