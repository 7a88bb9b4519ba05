---------------------------- MODULE BufferCache ----------------------------
(***************************************************************************)
(* The buffer cache of fs/buffer.c: getblk(), get_hash_table(), bread(),   *)
(* brelse() and sync_dev() of one device.                                  *)
(*                                                                         *)
(* Processes are interrupted in the middle by the disk only; another one   *)
(* runs when this one sleeps: in wait_on_buffer() on a locked buffer, on   *)
(* buffer_wait, or inside ll_rw_block() for want of a request slot.  Then  *)
(* everything this one has looked up may change under its feet.            *)
(*                                                                         *)
(* The hash table is represented by what it computes, the buffer of a      *)
(* block.  Request slots and the order of the requests are the subject of  *)
(* module BlockLayer: here a process may have to wait for a slot, and      *)
(* queued buffers are transferred in any order.  The sleeping itself is    *)
(* the subject of Sched: a process that waits for a buffer goes on once    *)
(* the buffer is unlocked.                                                 *)
(***************************************************************************)
EXTENDS Integers, Sequences, FiniteSets

CONSTANTS
  Proc, Block, Data,
  MaxSize,     \* bound: the buffers, and the blocks on which an I/O fails, together
  NoBlock,     \* the identity of a buffer that has no device yet
  None         \* no process

ASSUME SetsAssumption == IsFiniteSet(Proc) /\ Data # {}
ASSUME BuffersAssumption == MaxSize \in Nat /\ MaxSize >= 1
ASSUME NullAssumption == NoBlock \notin Block /\ None \notin Proc

VARIABLES
  b_block,     \* (b_dev, b_blocknr) of a buffer
  b_count, b_lock, b_dirt, b_uptodate, b_data,
  free_list,   \* all buffers, in the order of the circular list
  buffer_wait, \* the processes asleep on buffer_wait
  io,          \* the transfer of a locked buffer
  disk,        \* the contents of the disk
  failed,      \* the blocks on which an I/O failed
  running,     \* the process that has the processor
  pc,          \* where a process is
  block,       \* the argument of its getblk(), or NoBlock
  bh,          \* the buffer its local variable bh points to (1 when none)
  pass         \* the loop counter of its sync_dev()

identity == <<b_block, b_count, free_list>>
flags    == <<b_lock, b_dirt, b_uptodate>>
drive    == <<io, disk, failed>>
local    == <<block, bh, pass>>
vars     == <<identity, flags, b_data, buffer_wait, drive, running, pc, local>>

\* How many buffers there are depends on the size of the memory.
NR_BUFFERS == Len(free_list)
Buffer     == 1 .. NR_BUFFERS

Init ==
  /\ free_list \in {[i \in 1 .. n |-> i] : n \in 1 .. MaxSize}
  /\ b_block    = [b \in Buffer |-> NoBlock]
  /\ b_count    = [b \in Buffer |-> 0]
  /\ b_lock     = [b \in Buffer |-> FALSE]
  /\ b_dirt     = [b \in Buffer |-> FALSE]
  /\ b_uptodate = [b \in Buffer |-> FALSE]
  /\ b_data     = [b \in Buffer |-> CHOOSE d \in Data : TRUE]
  /\ buffer_wait = {}
  /\ io         = [b \in Buffer |-> "none"]
  /\ disk       = [k \in Block |-> CHOOSE d \in Data : TRUE]
  /\ failed     = {}
  /\ running    = None
  /\ pc         = [p \in Proc |-> "idle"]
  /\ block      = [p \in Proc |-> NoBlock]
  /\ bh         = [p \in Proc |-> 1]
  /\ pass       = [p \in Proc |-> 0]

-----------------------------------------------------------------------------
Goto(p, place) == pc' = [pc EXCEPT ![p] = place]
At(p, place)   == running = p /\ pc[p] = place

\* The process gets to the end of its system call, or sleeps.
LeaveTo(p, place) == running' = None /\ Goto(p, place)

\* The buffer sync_dev() has come to.
Index(p) == ((pass[p] - 1) % NR_BUFFERS) + 1

\* wait_on_buffer(b): the process has the processor, or gets it back, when the
\* buffer is not locked.
Waited(p, place, b) ==
  /\ running \in {p, None} /\ pc[p] = place /\ ~b_lock[b]
  /\ running' = p

\* sleep_on(): the buffer is locked, or ll_rw_block() finds no request slot, and
\* others run meanwhile.
Sleep(p) ==
  /\ running = p
  /\ \/ pc[p] \in {"hit", "victim", "got", "reading"} /\ b_lock[bh[p]]
        /\ ~(pc[p] = "got" /\ b_uptodate[bh[p]])
     \/ pc[p] = "sync" /\ b_block[Index(p)] # NoBlock /\ b_lock[Index(p)]
     \/ pc[p] \in {"syncadd", "readadd"}
  /\ running' = None
  /\ UNCHANGED <<identity, flags, b_data, buffer_wait, drive, pc, local>>

\* find_buffer()
Cached(k) == {b \in Buffer : b_block[b] = k}

\* The search of the free list: the first buffer that nobody uses and that
\* costs least to take.
Badness(b) == (IF b_dirt[b] THEN 2 ELSE 0) + (IF b_lock[b] THEN 1 ELSE 0)

Victim(b) ==
  \E i \in 1 .. NR_BUFFERS :
    /\ free_list[i] = b /\ b_count[b] = 0
    /\ \A j \in 1 .. NR_BUFFERS : b_count[free_list[j]] = 0 =>
         Badness(b) < Badness(free_list[j])
           \/ (Badness(b) = Badness(free_list[j]) /\ i <= j)

\* remove_from_queues() and insert_into_queues(): to the end of the free list.
MovedToEnd(b) ==
  LET k == CHOOSE i \in Buffer : free_list[i] = b
  IN  [i \in Buffer |-> IF i = NR_BUFFERS THEN b ELSE free_list[IF i < k THEN i ELSE i + 1]]

-----------------------------------------------------------------------------
(* getblk().                                                               *)

\* `goto repeat', or the next round of get_hash_table().
Again(p) == Goto(p, "getblk") /\ bh' = [bh EXCEPT ![p] = 1]

\* bread() is called for block k, or sync_dev() by iput().
Bread(p, k) ==
  /\ running = None /\ pc[p] = "idle"
  /\ block' = [block EXCEPT ![p] = k]
  /\ running' = p
  /\ Goto(p, "getblk")
  /\ UNCHANGED <<identity, flags, b_data, buffer_wait, drive, bh, pass>>

\* get_hash_table() finds the block: the reference is taken before waiting.
Hit(p) ==
  /\ At(p, "getblk")
  /\ \E b \in Cached(block[p]) :
       /\ bh' = [bh EXCEPT ![p] = b]
       /\ b_count' = [b_count EXCEPT ![b] = @ + 1]
  /\ Goto(p, "hit")
  /\ UNCHANGED <<b_block, free_list, flags, b_data, buffer_wait, drive, running,
                 block, pass>>

\* After the wait the identity is checked again.
HitChecked(p) ==
  /\ Waited(p, "hit", bh[p])
  /\ IF b_block[bh[p]] = block[p]
       THEN Goto(p, "got") /\ UNCHANGED <<b_count, bh>>
       ELSE /\ Again(p)
            /\ b_count' = [b_count EXCEPT ![bh[p]] = @ - 1]
  /\ UNCHANGED <<b_block, free_list, flags, b_data, buffer_wait, drive, block, pass>>

\* The block is not cached: choose the buffer to be reused.
Choose(p) ==
  /\ At(p, "getblk") /\ Cached(block[p]) = {}
  /\ \E b \in Buffer : Victim(b) /\ bh' = [bh EXCEPT ![p] = b]
  /\ Goto(p, "victim")
  /\ UNCHANGED <<identity, flags, b_data, buffer_wait, drive, running, block, pass>>

\* Every buffer is in use: sleep_on(&buffer_wait), then repeat.
NoBuffer(p) ==
  /\ At(p, "getblk") /\ Cached(block[p]) = {}
  /\ \A b \in Buffer : b_count[b] > 0
  /\ buffer_wait' = buffer_wait \cup {p}
  /\ LeaveTo(p, "nobuffer")
  /\ UNCHANGED <<identity, flags, b_data, drive, local>>

Repeat(p) ==
  /\ running = None /\ pc[p] = "nobuffer" /\ p \notin buffer_wait
  /\ running' = p
  /\ Goto(p, "getblk")
  /\ UNCHANGED <<identity, flags, b_data, buffer_wait, drive, local>>

\* wait_on_buffer(bh) is over, in the first place or after sync_dev().
Taken(p) ==            \* somebody else uses the buffer by now
  /\ Waited(p, "victim", bh[p]) /\ b_count[bh[p]] > 0
  /\ Again(p)
  /\ UNCHANGED <<identity, flags, b_data, buffer_wait, drive, block, pass>>

Dirty(p) ==            \* write back, the whole device
  /\ Waited(p, "victim", bh[p]) /\ b_count[bh[p]] = 0 /\ b_dirt[bh[p]]
  /\ pass' = [pass EXCEPT ![p] = 1]
  /\ Goto(p, "sync")
  /\ UNCHANGED <<identity, flags, b_data, buffer_wait, drive, block, bh>>

Appeared(p) ==         \* somebody else has brought the block in
  /\ Waited(p, "victim", bh[p]) /\ b_count[bh[p]] = 0 /\ ~b_dirt[bh[p]]
  /\ Cached(block[p]) # {}
  /\ Again(p)
  /\ UNCHANGED <<identity, flags, b_data, buffer_wait, drive, block, pass>>

\* Mutants: the last look into the hash table, the check of the reference
\* count, and `bh->b_uptodate = 0' are forgotten.
ReuseAs(p, up) ==
  /\ b_count'    = [b_count EXCEPT ![bh[p]] = 1]
  /\ b_uptodate' = [b_uptodate EXCEPT ![bh[p]] = up]
  /\ b_block'    = [b_block EXCEPT ![bh[p]] = block[p]]
  /\ free_list'  = MovedToEnd(bh[p])
  /\ Goto(p, "got")
  /\ UNCHANGED <<b_lock, b_dirt, b_data, buffer_wait, drive, local>>

ReuseUnchecked(p) ==
  /\ Waited(p, "victim", bh[p]) /\ b_count[bh[p]] = 0 /\ ~b_dirt[bh[p]]
  /\ ReuseAs(p, FALSE)

ReuseUsed(p) ==
  /\ Waited(p, "victim", bh[p]) /\ ~b_dirt[bh[p]] /\ Cached(block[p]) = {}
  /\ ReuseAs(p, FALSE)

ReuseStale(p) ==
  /\ Waited(p, "victim", bh[p]) /\ b_count[bh[p]] = 0 /\ ~b_dirt[bh[p]]
  /\ Cached(block[p]) = {}
  /\ ReuseAs(p, b_uptodate[bh[p]])

Reuse(p) ==
  /\ Waited(p, "victim", bh[p]) /\ b_count[bh[p]] = 0 /\ ~b_dirt[bh[p]]
  /\ Cached(block[p]) = {}
  /\ b_count'    = [b_count EXCEPT ![bh[p]] = 1]
  /\ b_uptodate' = [b_uptodate EXCEPT ![bh[p]] = FALSE]
  /\ b_block'    = [b_block EXCEPT ![bh[p]] = block[p]]
  /\ free_list'  = MovedToEnd(bh[p])
  /\ Goto(p, "got")
  /\ UNCHANGED <<b_lock, b_dirt, b_data, buffer_wait, drive, local>>

-----------------------------------------------------------------------------
(* sync_dev(): two passes over all buffers.  sync_inodes(), called in      *)
(* between, is in InodeTable.                                              *)

\* Mutant: one buffer too many.
NextBufferPast(p) ==
  IF pass[p] <= 2 * NR_BUFFERS
    THEN pass' = [pass EXCEPT ![p] = @ + 1] /\ Goto(p, "sync")
    ELSE pass' = [pass EXCEPT ![p] = 0] /\ Goto(p, "victim")

NextBuffer(p) ==
  IF pass[p] < 2 * NR_BUFFERS
    THEN pass' = [pass EXCEPT ![p] = @ + 1] /\ Goto(p, "sync")
    ELSE pass' = [pass EXCEPT ![p] = 0] /\ Goto(p, "victim")

\* A buffer of no device is skipped without waiting, a clean one after it.
Skip(p) ==
  /\ \/ At(p, "sync") /\ b_block[Index(p)] = NoBlock /\ UNCHANGED running
     \/ Waited(p, "sync", Index(p)) /\ ~b_dirt[Index(p)]
  /\ NextBuffer(p)
  /\ UNCHANGED <<identity, flags, b_data, buffer_wait, drive, block, bh>>

\* ll_rw_block(WRITE): the buffer is locked; there may be no request slot.
SyncLock(p) ==
  /\ Waited(p, "sync", Index(p)) /\ b_dirt[Index(p)]
  /\ b_lock' = [b_lock EXCEPT ![Index(p)] = TRUE]
  /\ Goto(p, "syncadd")
  /\ UNCHANGED <<identity, b_dirt, b_uptodate, b_data, buffer_wait, drive, local>>

\* add_request() clears b_dirt when the write is queued.
SyncAdd(p) ==
  /\ running \in {p, None} /\ pc[p] = "syncadd"
  /\ running' = p
  /\ b_dirt' = [b_dirt EXCEPT ![Index(p)] = FALSE]
  /\ io' = [io EXCEPT ![Index(p)] = "write"]
  /\ NextBuffer(p)
  /\ UNCHANGED <<identity, b_lock, b_uptodate, b_data, buffer_wait, disk, failed,
                 block, bh>>

-----------------------------------------------------------------------------
(* The rest of bread(), and brelse().                                      *)

\* The buffer is up to date, at once or when ll_rw_block(READ) has waited for
\* its lock: bread() returns it.
Ready(p) ==
  /\ running = p \/ (running = None /\ ~b_lock[bh[p]])
  /\ pc[p] = "got" /\ b_uptodate[bh[p]]
  /\ LeaveTo(p, "use")
  /\ UNCHANGED <<identity, flags, b_data, buffer_wait, drive, local>>

\* ll_rw_block(READ) locks the buffer.
ReadLock(p) ==
  /\ Waited(p, "got", bh[p]) /\ ~b_uptodate[bh[p]]
  /\ b_lock' = [b_lock EXCEPT ![bh[p]] = TRUE]
  /\ Goto(p, "readadd")
  /\ UNCHANGED <<identity, b_dirt, b_uptodate, b_data, buffer_wait, drive, local>>

ReadAdd(p) ==
  /\ running \in {p, None} /\ pc[p] = "readadd"
  /\ running' = p
  /\ b_dirt' = [b_dirt EXCEPT ![bh[p]] = FALSE]
  /\ io' = [io EXCEPT ![bh[p]] = "read"]
  /\ Goto(p, "reading")
  /\ UNCHANGED <<identity, b_lock, b_uptodate, b_data, buffer_wait, disk, failed, local>>

\* brelse() after its wait; wake_up(&buffer_wait) sets off the chain that wakes
\* every process that found no buffer.
\* The local variables of the process are gone then.
PutBuffer(p) ==
  /\ b_count' = [b_count EXCEPT ![bh[p]] = @ - 1]
  /\ buffer_wait' = {}
  /\ Goto(p, "idle")
  /\ block' = [block EXCEPT ![p] = NoBlock]
  /\ bh' = [bh EXCEPT ![p] = 1]
  /\ UNCHANGED pass

\* bread() returns the buffer, or NULL after a failed read.
ReadDone(p) ==
  /\ running \in {p, None} /\ pc[p] = "reading" /\ ~b_lock[bh[p]]
  /\ b_uptodate[bh[p]]
  /\ LeaveTo(p, "use")
  /\ UNCHANGED <<identity, flags, b_data, buffer_wait, drive, local>>

\* Mutant: bread() forgets brelse() after a failed read.
ReadFailedLeaks(p) ==
  /\ running \in {p, None} /\ pc[p] = "reading" /\ ~b_lock[bh[p]]
  /\ ~b_uptodate[bh[p]]
  /\ LeaveTo(p, "idle")
  /\ UNCHANGED <<identity, flags, b_data, buffer_wait, drive, local>>

ReadFailed(p) ==
  /\ running \in {p, None} /\ pc[p] = "reading" /\ ~b_lock[bh[p]]
  /\ ~b_uptodate[bh[p]]
  /\ PutBuffer(p)
  /\ running' = None
  /\ UNCHANGED <<b_block, free_list, flags, b_data, drive>>

\* The holder changes the data and marks the buffer dirty, whether or not the
\* buffer is being written at the moment.
Modify(p, d) ==
  /\ running = None /\ pc[p] = "use"
  /\ b_data' = [b_data EXCEPT ![bh[p]] = d]
  /\ b_dirt' = [b_dirt EXCEPT ![bh[p]] = TRUE]
  /\ UNCHANGED <<identity, b_lock, b_uptodate, buffer_wait, drive, running, pc, local>>

Brelse(p) ==
  /\ running = None /\ pc[p] = "use" /\ ~b_lock[bh[p]]
  /\ PutBuffer(p)
  /\ UNCHANGED <<b_block, free_list, flags, b_data, drive, running>>

-----------------------------------------------------------------------------
(* The disk.                                                               *)

Fail(k) ==
  /\ failed' = failed \cup {k}
  /\ NR_BUFFERS + Cardinality(failed') <= MaxSize

\* The data of a write leave the buffer some time before the write ends.
Move(b) ==
  /\ io[b] = "write"
  /\ io' = [io EXCEPT ![b] = "moved"]
  /\ disk' = [disk EXCEPT ![b_block[b]] = b_data[b]]
  /\ UNCHANGED <<identity, flags, b_data, buffer_wait, failed, running, pc, local>>

\* end_request()
EndRequest(b, ok) ==
  /\ io[b] \in {"read", "moved"} \/ (io[b] = "write" /\ ~ok)
  /\ io' = [io EXCEPT ![b] = "none"]
  /\ b_lock' = [b_lock EXCEPT ![b] = FALSE]
  /\ b_uptodate' = [b_uptodate EXCEPT ![b] = ok]
  /\ b_data' = [b_data EXCEPT ![b] = IF io[b] = "read" /\ ok THEN disk[b_block[b]] ELSE @]
  /\ IF ok THEN UNCHANGED failed ELSE Fail(b_block[b])
  /\ UNCHANGED <<identity, b_dirt, buffer_wait, disk, running, pc, local>>

-----------------------------------------------------------------------------
GetBlk(p) ==
  \/ Sleep(p) \/ Hit(p) \/ HitChecked(p) \/ Choose(p) \/ NoBuffer(p) \/ Repeat(p)
  \/ Taken(p) \/ Dirty(p) \/ Appeared(p) \/ Reuse(p)
  \/ Skip(p) \/ SyncLock(p) \/ SyncAdd(p)

Rest(p) ==
  \/ Ready(p) \/ ReadLock(p) \/ ReadAdd(p) \/ ReadDone(p) \/ ReadFailed(p)

Disk == \E b \in Buffer : Move(b) \/ \E ok \in BOOLEAN : EndRequest(b, ok)

Next ==
  \/ \E p \in Proc :
       \/ \E k \in Block : Bread(p, k)
       \/ GetBlk(p) \/ Rest(p) \/ Brelse(p)
       \/ \E d \in Data : Modify(p, d)
  \/ Disk

Spec == Init /\ [][Next]_vars

-----------------------------------------------------------------------------
(* Properties.                                                             *)

\* Every variable has its type.
TypeOK ==
  /\ b_block    \in [Buffer -> Block \cup {NoBlock}]
  /\ b_count    \in [Buffer -> Nat]
  /\ b_lock     \in [Buffer -> BOOLEAN]
  /\ b_dirt     \in [Buffer -> BOOLEAN]
  /\ b_uptodate \in [Buffer -> BOOLEAN]
  /\ b_data     \in [Buffer -> Data]
  /\ free_list  \in [Buffer -> Buffer]
  /\ buffer_wait \in SUBSET Proc
  /\ io         \in [Buffer -> {"none", "read", "write", "moved"}]
  /\ disk       \in [Block -> Data]
  /\ failed     \in SUBSET Block
  /\ running    \in Proc \cup {None}
  /\ pc         \in [Proc -> {"idle", "getblk", "hit", "nobuffer", "victim", "sync",
                              "syncadd", "got", "readadd", "reading", "use"}]
  /\ block      \in [Proc -> Block \cup {NoBlock}]
  /\ bh         \in [Proc -> Buffer]
  /\ pass       \in [Proc -> 0 .. 2 * NR_BUFFERS]

\* A block is cached in at most one buffer, although getblk() sleeps between
\* missing the block and taking a buffer for it.
OneBufferPerBlock ==
  \A a, b \in Buffer : b_block[a] = b_block[b] /\ b_block[a] # NoBlock => a = b

\* The processes that own a reference to a buffer.
Using == {"hit", "got", "readadd", "reading", "use"}

Users(b) == {p \in Proc : bh[p] = b /\ pc[p] \in Using}

\* b_count counts the owners of references: brelse() never frees a free buffer
\* and no buffer is lost for reuse.
CountIsUsers == \A b \in Buffer : b_count[b] = Cardinality(Users(b))

\* From the moment a process owns a reference the buffer is that of its block,
\* through every wait (so the second look of get_hash_table() never fails), and
\* what bread() returned is up to date until brelse().
HolderHasItsBlock ==
  \A p \in Proc :
    /\ pc[p] \in Using => b_block[bh[p]] = block[p]
    /\ pc[p] = "use" => b_uptodate[bh[p]] \/ block[p] \in failed

\* The contents of a block as the file system sees them.
Contents(k) ==
  IF \E b \in Cached(k) : b_uptodate[b]
    THEN b_data[CHOOSE b \in Cached(k) : b_uptodate[b]]
    ELSE disk[k]

Held(p) == IF pc[p] = "use" THEN b_block[bh[p]] ELSE NoBlock

Store == INSTANCE BlockStore WITH
  store   <- [k \in Block |-> Contents(k)],
  holding <- [p \in Proc |-> Held(p)],
  broken  <- failed

\* The cache implements the array of blocks: no modification is lost to an
\* eviction, a late read or a write that was overtaken by the modification.
ImplementsBlockStore == Store!Spec
=============================================================================
