----------------------------- MODULE InodeTable -----------------------------
(***************************************************************************)
(* The inode table, fs/inode.c, with free_inode(), truncate() and the      *)
(* bitmaps (bitmap.c, truncate.c), on one mounted device.                  *)
(*                                                                         *)
(* A process keeps the processor until it sleeps, in wait_on_inode() or in *)
(* bread(): an action is what it does between two such places.  The buffer *)
(* cache is the one of BlockStore: after bread() the block is there, and   *)
(* what is copied into it is not lost.                                     *)
(*                                                                         *)
(* The callers of iget() and iput() are outside this code: they look up    *)
(* inodes that have a name, change them while they hold a reference, and   *)
(* take names away.                                                        *)
(***************************************************************************)
EXTENDS Integers, FiniteSets

CONSTANTS
  Proc,
  NR_INODE,          \* 32 in the code
  NrBlocks,          \* blocks of the inode area of the device
  INODES_PER_BLOCK,
  Special,           \* the inodes of block device files
  Data               \* contents of an inode

ROOT_INO == 1
Inode == 1 .. NrBlocks * INODES_PER_BLOCK
Slot  == 0 .. NR_INODE - 1

ASSUME ProcAssumption == IsFiniteSet(Proc)

ASSUME TableAssumption ==
  /\ NR_INODE \in Nat /\ NR_INODE > 1
  /\ NrBlocks \in Nat \ {0} /\ INODES_PER_BLOCK \in Nat \ {0}
  /\ Special \subseteq Inode \ {ROOT_INO}
  /\ Data # {}

\* -1 stands for no inode, and for no contents.
ASSUME DataAssumption == -1 \notin Data

VARIABLES
  inode_table,
  last_inode,     \* static in get_empty_inode()
  disk,           \* the inode area, seen through the buffer cache
  imap, zmap,     \* the inodes, and the inodes' data blocks, in use
  pc,             \* where a process is
  inode, empty,   \* its local variables: a slot
  nr,             \* the argument of iget(), until the inode is put back
  i,              \* the loop variable of sync_inodes()
  block,          \* of write_inode()
  panicked,
  names,          \* the inodes with a directory entry
  intact          \* ghost: no inode was freed while it was used

table == <<inode_table, last_inode, disk>>
maps  == <<imap, zmap>>
local == <<inode, empty, nr, i, block>>
vars  == <<table, maps, pc, local, panicked, names, intact>>

None == -1
Zero == CHOOSE d \in Data : TRUE
\* An inode as on the disk, and a slot of the table; i_num is 0 while i_dev is.
DInode(nlinks, data) == [i_nlinks |-> nlinks, data |-> data]
Cleared == [i_num |-> 0, i_count |-> 0, i_lock |-> FALSE, i_dirt |-> FALSE,
            d |-> DInode(0, Zero)]

\* mount_root(): the root inode is in the table and has four users for ever.
Root == [Cleared EXCEPT !.i_num = ROOT_INO, !.i_count = 4, !.d = DInode(1, Zero)]

Init ==
  /\ last_inode = 1
  /\ inode_table = [s \in Slot |-> IF s = last_inode THEN Root ELSE Cleared]
  /\ disk = [k \in Inode |-> DInode(1, Zero)]
  /\ imap = Inode /\ zmap = Inode /\ names = Inode
  /\ pc = [p \in Proc |-> "idle"]
  /\ inode = [p \in Proc |-> None] /\ empty = [p \in Proc |-> None]
  /\ nr = [p \in Proc |-> None] /\ i = [p \in Proc |-> None] /\ block = [p \in Proc |-> None]
  /\ panicked = FALSE
  /\ intact = TRUE

-----------------------------------------------------------------------------
Goto(p, place) == pc' = [pc EXCEPT ![p] = place]

\* iget() returns with a reference, iput() without it.
Return(p, s, n) ==
  /\ Goto(p, IF s = None THEN "idle" ELSE "use")
  /\ inode' = [inode EXCEPT ![p] = s]
  /\ nr' = [nr EXCEPT ![p] = n]

Panic == panicked' = TRUE /\ UNCHANGED <<table, maps, pc, local, names, intact>>

\* The place of an inode in the inode area.  i_num - 1 is unsigned in the second
\* one: in a cleared slot it is the last place of a block.
BlockOf(n) == (n - 1) \div INODES_PER_BLOCK
PlaceIn(k, n) == (k * INODES_PER_BLOCK) + ((n - 1) % INODES_PER_BLOCK) + 1

-----------------------------------------------------------------------------
(* write_inode(), up to bread() and after it.  Every caller has just seen  *)
(* that the slot is not locked, and that it is dirty.                      *)

WriteInode(p, s, t, place) ==
  /\ inode_table' = [t EXCEPT ![s].i_lock = TRUE]
  /\ block' = [block EXCEPT ![p] = BlockOf(t[s].i_num)]
  /\ Goto(p, place)

Written(p, s) ==
  disk' = [disk EXCEPT ![PlaceIn(block[p], inode_table[s].i_num)] = inode_table[s].d]

Clean(s) == [inode_table EXCEPT ![s].i_dirt = FALSE, ![s].i_lock = FALSE]

-----------------------------------------------------------------------------
(* sync_inodes(), from getblk() or from iput() of a device file.           *)

SyncFrom(p, n, t) ==
  LET todo == {s \in n .. NR_INODE - 1 : t[s].i_lock \/ t[s].i_dirt}
      next == CHOOSE s \in todo : \A u \in todo : s <= u
  IN  IF todo = {}
        THEN /\ i' = [i EXCEPT ![p] = None]
             /\ Goto(p, IF inode[p] = None THEN "idle" ELSE "repeat")
             /\ inode_table' = t /\ block' = [block EXCEPT ![p] = None]
        ELSE /\ i' = [i EXCEPT ![p] = next]
             /\ IF t[next].i_lock
                  THEN /\ Goto(p, "sync") /\ inode_table' = t
                         /\ block' = [block EXCEPT ![p] = None]
                  ELSE WriteInode(p, next, t, "sync_write")

SyncInodes(p) ==
  /\ pc[p] = "idle"
  /\ SyncFrom(p, 0, inode_table)
  /\ UNCHANGED <<last_inode, disk, maps, inode, empty, nr, panicked, names, intact>>

SyncWaited(p) ==
  /\ pc[p] = "sync" /\ ~inode_table[i[p]].i_lock
  /\ SyncFrom(p, i[p], inode_table)
  /\ UNCHANGED <<last_inode, disk, maps, inode, empty, nr, panicked, names, intact>>

SyncWritten(p) ==
  /\ pc[p] = "sync_write"
  /\ Written(p, i[p])
  /\ SyncFrom(p, i[p] + 1, Clean(i[p]))
  /\ UNCHANGED <<last_inode, maps, inode, empty, nr, panicked, names, intact>>

-----------------------------------------------------------------------------
(* get_empty_inode(): the next slot with i_count = 0.  It is clean and not *)
(* locked (FreeIsIdle), so the waiting and writing in that function never  *)
(* happens.                                                                *)

Unused == {s \in Slot : inode_table[s].i_count = 0}

\* Mutant: the rotor runs past the end of the table.
NextUnusedPast == last_inode + CHOOSE k \in 1 .. NR_INODE : (last_inode + k) % NR_INODE \in Unused

NextUnused ==
  LET s(k) == (last_inode + k) % NR_INODE
      k0 == CHOOSE k \in 1 .. NR_INODE :
              s(k) \in Unused /\ \A m \in 1 .. k - 1 : s(m) \notin Unused
  IN  s(k0)

(* iget().  e is the slot taken in advance.                                *)

\* Mutant: e is kept.
FoundKeeps(p, n, s, e, t) ==
  /\ inode_table' = [t EXCEPT ![s].i_count = @ + 1]
  /\ Return(p, s, n)
  /\ empty' = [empty EXCEPT ![p] = None]

\* The inode is in slot s: one reference more, and e is given back.
Found(p, n, s, e, t) ==
  /\ inode_table' = [t EXCEPT ![s].i_count = @ + 1, ![e].i_count = @ - 1]
  /\ Return(p, s, n)
  /\ empty' = [empty EXCEPT ![p] = None]

\* It is in no slot: read_inode() into e.
ReadInode(p, n, e, t) ==
  /\ inode_table' = [t EXCEPT ![e].i_num = n, ![e].i_lock = TRUE]
  /\ Goto(p, "read") /\ inode' = [inode EXCEPT ![p] = e]
  /\ empty' = [empty EXCEPT ![p] = None] /\ nr' = [nr EXCEPT ![p] = n]

\* Mutant: the inode is returned without waiting for its lock.
LookupUnwaited(p, n, e, t) ==
  LET same == {s \in Slot : t[s].i_num = n}
  IN  IF same = {} THEN ReadInode(p, n, e, t)
      ELSE Found(p, n, CHOOSE s \in same : \A u \in same : s <= u, e, t)

\* The scan of the table, from the first slot: it starts again there when a slot
\* that had to be waited for has changed.
Lookup(p, n, e, t) ==
  LET same  == {s \in Slot : t[s].i_num = n}
      first == CHOOSE s \in same : \A u \in same : s <= u
  IN  IF same = {} THEN ReadInode(p, n, e, t)
      ELSE IF t[first].i_lock
             THEN /\ inode_table' = t
                  /\ Goto(p, "iget") /\ inode' = [inode EXCEPT ![p] = first]
                  /\ empty' = [empty EXCEPT ![p] = e] /\ nr' = [nr EXCEPT ![p] = n]
             ELSE Found(p, n, first, e, t)

Iget(p, n) ==
  /\ pc[p] = "idle"
  /\ IF Unused = {} THEN Panic
     ELSE LET e == NextUnused
          IN  /\ last_inode' = e
              /\ Lookup(p, n, e, [inode_table EXCEPT ![e] = [Cleared EXCEPT !.i_count = 1]])
              /\ UNCHANGED <<disk, maps, i, block, panicked, names, intact>>

\* Mutant: after the wait the slot is not looked at again.
IgetUnchecked(p) ==
  /\ pc[p] = "iget" /\ ~inode_table[inode[p]].i_lock
  /\ Found(p, nr[p], inode[p], empty[p], inode_table)
  /\ UNCHANGED <<last_inode, disk, maps, i, block, panicked, names, intact>>

\* Mutant: when the slot has changed, the scan does not start again.
IgetGivesUp(p) ==
  /\ pc[p] = "iget" /\ ~inode_table[inode[p]].i_lock
  /\ IF inode_table[inode[p]].i_num = nr[p]
       THEN Found(p, nr[p], inode[p], empty[p], inode_table)
       ELSE ReadInode(p, nr[p], empty[p], inode_table)
  /\ UNCHANGED <<last_inode, disk, maps, i, block, panicked, names, intact>>

IgetWaited(p) ==
  /\ pc[p] = "iget" /\ ~inode_table[inode[p]].i_lock
  /\ IF inode_table[inode[p]].i_num = nr[p]
       THEN Found(p, nr[p], inode[p], empty[p], inode_table)
       ELSE Lookup(p, nr[p], empty[p], inode_table)
  /\ UNCHANGED <<last_inode, disk, maps, i, block, panicked, names, intact>>

\* bread() in read_inode() is done.
ReadDone(p) ==
  /\ pc[p] = "read"
  /\ LET n == inode_table[inode[p]].i_num
     IN  inode_table' = [inode_table EXCEPT ![inode[p]].i_lock = FALSE,
                                            ![inode[p]].d = disk[PlaceIn(BlockOf(n), n)]]
  /\ Return(p, inode[p], nr[p])
  /\ UNCHANGED <<last_inode, disk, maps, empty, i, block, panicked, names, intact>>

-----------------------------------------------------------------------------
(* iput()                                                                  *)

\* Mutant: the last reference goes without the inode being written.
ReleaseUnwritten(p) ==
  LET s == inode[p]
  IN  IF inode_table[s].i_count = 1 /\ inode_table[s].d.i_nlinks = 0
        THEN Goto(p, "truncate") /\ UNCHANGED <<inode_table, inode, nr, block>>
        ELSE /\ inode_table' = [inode_table EXCEPT ![s].i_count = @ - 1]
             /\ Return(p, None, None) /\ UNCHANGED block

\* From `repeat' on.
Release(p) ==
  LET s == inode[p]
      slot == inode_table[s]
  IN  CASE slot.i_count > 1 \/ (slot.d.i_nlinks # 0 /\ ~slot.i_dirt) ->
             /\ inode_table' = [inode_table EXCEPT ![s].i_count = @ - 1]
             /\ Return(p, None, None) /\ UNCHANGED block
        [] slot.i_count = 1 /\ slot.d.i_nlinks = 0 ->
             Goto(p, "truncate") /\ UNCHANGED <<inode_table, inode, nr, block>>
        [] OTHER ->
             WriteInode(p, s, inode_table, "write") /\ UNCHANGED <<inode, nr>>

Iput(p) ==
  /\ pc[p] = "use" /\ ~inode_table[inode[p]].i_lock
  /\ IF inode_table[inode[p]].i_num \in Special
       THEN SyncFrom(p, 0, inode_table) /\ UNCHANGED <<inode, nr>>
       ELSE Release(p) /\ UNCHANGED i
  /\ UNCHANGED <<last_inode, disk, maps, empty, panicked, names, intact>>

IputWritten(p) ==
  /\ pc[p] = "write"
  /\ Written(p, inode[p])
  /\ inode_table' = Clean(inode[p])
  /\ block' = [block EXCEPT ![p] = None]
  /\ Goto(p, "repeat")
  /\ UNCHANGED <<last_inode, maps, inode, empty, nr, i, panicked, names, intact>>

IputRepeat(p) ==
  /\ pc[p] = "repeat" /\ ~inode_table[inode[p]].i_lock
  /\ Release(p)
  /\ UNCHANGED <<last_inode, disk, maps, empty, i, panicked, names, intact>>

\* What a process does with an inode, by slot or by number.
Uses(q, s) ==
  \/ inode[q] = s
  \/ i[q] = s /\ pc[q] = "sync_write"
  \/ nr[q] = inode_table[s].i_num

\* truncate(), which may have slept in bread(), and free_inode(): both check
\* what they free.  (For a block device file truncate() returns at once: here it
\* may sleep as well.)
Free(p) ==
  LET s == inode[p]
      n == inode_table[s].i_num
  IN  /\ pc[p] = "truncate"
      /\ intact' = (intact /\ ~\E q \in Proc \ {p} : Uses(q, s))
      /\ IF n \notin zmap \/ inode_table[s].i_count > 1
           THEN panicked' = TRUE /\ UNCHANGED <<table, maps, pc, local>>
           ELSE /\ zmap' = zmap \ {n} /\ imap' = imap \ {n}
                /\ inode_table' = [inode_table EXCEPT ![s] = Cleared]
                /\ Return(p, None, None)
                /\ UNCHANGED <<last_inode, disk, empty, i, block, panicked>>
      /\ UNCHANGED names

-----------------------------------------------------------------------------
(* The callers                                                             *)

Modify(p, d) ==
  /\ pc[p] = "use"
  /\ inode_table' = [inode_table EXCEPT ![inode[p]].d.data = d, ![inode[p]].i_dirt = TRUE]
  /\ UNCHANGED <<last_inode, disk, maps, pc, local, panicked, names, intact>>

Unlink(p) ==
  /\ pc[p] = "use"
  /\ inode_table[inode[p]].i_num \in names \ {ROOT_INO}
  /\ names' = names \ {inode_table[inode[p]].i_num}
  /\ inode_table' = [inode_table EXCEPT ![inode[p]].d.i_nlinks = 0, ![inode[p]].i_dirt = TRUE]
  /\ UNCHANGED <<last_inode, disk, maps, pc, local, panicked, intact>>

-----------------------------------------------------------------------------
Step(p) ==
  \/ SyncInodes(p) \/ SyncWaited(p) \/ SyncWritten(p)
  \/ \E n \in names : Iget(p, n)
  \/ IgetWaited(p) \/ ReadDone(p)
  \/ Iput(p) \/ IputWritten(p) \/ IputRepeat(p) \/ Free(p)
  \/ \E d \in Data : Modify(p, d)
  \/ Unlink(p)

\* panic() loops for ever.
Halted == panicked /\ UNCHANGED vars

Next == (~panicked /\ \E p \in Proc : Step(p)) \/ Halted

Spec == Init /\ [][Next]_vars

-----------------------------------------------------------------------------
Places == {"idle", "iget", "read", "use", "repeat", "write", "truncate", "sync", "sync_write"}

\* Every variable has its type; an inode whose blocks are in use is in use itself.
TypeOK ==
  /\ inode_table \in [Slot -> [i_num : Inode \cup {0}, i_count : Nat, i_lock : BOOLEAN,
                               i_dirt : BOOLEAN, d : [i_nlinks : 0 .. 1, data : Data]]]
  /\ last_inode \in Slot
  /\ disk \in [Inode -> [i_nlinks : 0 .. 1, data : Data]]
  /\ imap \subseteq Inode /\ zmap \subseteq imap /\ names \subseteq Inode
  /\ pc \in [Proc -> Places]
  /\ inode \in [Proc -> Slot \cup {None}] /\ empty \in [Proc -> Slot \cup {None}]
  /\ nr \in [Proc -> Inode \cup {None}] /\ i \in [Proc -> Slot \cup {None}]
  /\ block \in [Proc -> (0 .. NrBlocks - 1) \cup {None}]
  /\ panicked \in BOOLEAN /\ intact \in BOOLEAN

\* No inode is in two slots, whoever else looks for it, and waits, meanwhile.
OneSlotPerInode ==
  \A s, u \in Slot : inode_table[s].i_num = inode_table[u].i_num
                       /\ inode_table[s].i_num # 0 => s = u

\* A process has the inode it asked for, from iget() until it has put it back.
HolderHasItsInode ==
  \A p \in Proc : pc[p] \in {"read", "use", "repeat", "write", "truncate"} =>
    inode_table[inode[p]].i_num = nr[p]

\* The count of a slot is the number of processes that point to it with a
\* reference, besides the four users of the root.
References(s) ==
  {p \in Proc : inode[p] = s /\ pc[p] # "iget"} \cup {p \in Proc : empty[p] = s}
CountIsReferences ==
  \A s \in Slot :
    inode_table[s].i_count = Cardinality(References(s))
                               + (IF inode_table[s].i_num = ROOT_INO THEN 4 ELSE 0)

\* A slot that may be taken for another inode is never waiting to be written, or
\* locked by somebody who sleeps: what get_empty_inode() throws away is not needed.
FreeIsIdle ==
  \A s \in Slot : inode_table[s].i_count = 0 =>
    ~inode_table[s].i_dirt /\ ~inode_table[s].i_lock

\* iput() truncates and frees an inode that no other process is using.  (Somebody
\* may: sync_inodes() may be writing it, iget() may find it or wait for it.)
FreedIsUnused ==
  \A p, q \in Proc : p # q /\ pc[p] = "truncate" => ~Uses(q, inode[p])

\* Opening, changing and closing files is what it seems to be: no change of an
\* inode is lost or seen in another one, an inode is complete when iget() returns
\* it, and a file is there as long as it is open or has a name, until an inode is
\* freed while it is used.
At(s, places) == {p \in Proc : inode[p] = s /\ pc[p] \in places}
Current(n) ==
  LET valid == {s \in Slot : inode_table[s].i_num = n /\ (At(s, {"read"}) = {} \/ At(s, {"use"}) # {})}
  IN  IF n \notin zmap THEN None
      ELSE IF valid = {} THEN disk[n].data
      ELSE inode_table[CHOOSE s \in valid : TRUE].d.data

F == INSTANCE Files WITH
       NoFile  <- None,
       content <- [n \in Inode |-> Current(n)],
       named   <- names,
       open    <- [p \in Proc |-> IF pc[p] = "use" THEN inode_table[inode[p]].i_num ELSE None]
ImplementsFiles == F!Spec
=============================================================================
