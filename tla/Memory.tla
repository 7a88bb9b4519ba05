------------------------------- MODULE Memory -------------------------------
(***************************************************************************)
(* Memory management, mm/memory.c, and its use by fork (kernel/fork.c):    *)
(* page reference counts, sharing of pages at fork and copying them when   *)
(* they are written.                                                       *)
(*                                                                         *)
(* Kernel code is not pre-empted and nothing here sleeps, so a system call *)
(* and a page fault are one step each.  User instructions of the tasks     *)
(* interleave; they go through the TLB, which keeps what it has seen of    *)
(* the page tables until invalidate().                                     *)
(*                                                                         *)
(* All tasks share one page directory, each has one entry in use: the data *)
(* limit is INIT_TASK's 640 KB and nothing changes it.  Page is the set of *)
(* pages of those 640 KB.  Task 0's page v is the physical page v, which   *)
(* is below LOW_MEM and has no count; after its one fork task 0 only calls *)
(* pause() and writes no memory.                                           *)
(***************************************************************************)
EXTENDS Integers, FiniteSets

CONSTANTS
  NR_TASKS,  \* slots of task[], 64 in the code
  Page,      \* pages of an address space, and the physical pages of task 0
  PageZero,  \* the page at address 0; also what get_free_page() fails with
  Frame,     \* physical pages that mem_init() makes free
  Data, Zero

ASSUME TasksAssumption == NR_TASKS \in Nat /\ NR_TASKS >= 1
ASSUME PagesAssumption == PageZero \in Page /\ IsFiniteSet(Page)
ASSUME FramesAssumption == Frame \cap Page = {} /\ IsFiniteSet(Frame)
ASSUME DataAssumption == Zero \in Data

Task == 0 .. NR_TASKS - 1

VARIABLES
  mem_map,  \* the counts (bytes; at most NR_TASKS references to a page)
  task,     \* the page of the task's task_struct, or PageZero (none)
  dir,      \* the page of its page table, or PageZero (not present)
  pte,      \* its page table
  tlb,      \* cached page table entries: [task, page, frame, rw]
  content,  \* of each physical page
  wrecked   \* the page directory has been overwritten

vars == <<mem_map, task, dir, pte, tlb, content, wrecked>>

Pte == [frame : Page \cup Frame, rw : BOOLEAN]
NoTable == [v \in Page |-> [frame |-> PageZero, rw |-> FALSE]]

Init ==
  /\ mem_map = [f \in Frame |-> 0]
  /\ task = [t \in Task |-> PageZero]
  /\ dir = [t \in Task |-> PageZero]
  /\ pte = [t \in Task |-> IF t = 0 THEN [v \in Page |-> [frame |-> v, rw |-> TRUE]]
                                    ELSE NoTable]
  /\ tlb = {}
  /\ content \in [Page \cup Frame -> Data]
  /\ \A f \in Frame : content[f] = Zero
  /\ wrecked = FALSE

\* INIT_TASK and its page table are static.
Live == {0} \cup {t \in Task : task[t] # PageZero}

\* Task 0 runs in user mode until it has forked.
InUserMode(t) == t \in Live /\ (t = 0 => Live = {0})

-----------------------------------------------------------------------------
(* Pages.  map is a value of mem_map.                                      *)

\* Those get_free_page() may return; which of them it is does not matter.
FreePages(map) == {f \in Frame : map[f] = 0}

Taken(map, f)    == [map EXCEPT ![f] = 1]

Released(map, f) == IF f \in Frame THEN [map EXCEPT ![f] = @ - 1] ELSE map

\* The loop of copy_page_tables(): one more reference to each page of task p
\* above LOW_MEM.
SharedOnceMore(map, p) ==
  [f \in Frame |-> map[f] + Cardinality({v \in Page : pte[p][v].frame = f})]

\* Mutant: the parent may go on writing.
CopiedTablesParentWrites(p, c) ==
  [pte EXCEPT ![c] = [v \in Page |-> [pte[p][v] EXCEPT !.rw = FALSE]]]

\* Both tables refer to the pages read-only; only the pages below LOW_MEM
\* remain writable for the parent.
CopiedTables(p, c) ==
  [pte EXCEPT
    ![p] = [v \in Page |-> [pte[p][v] EXCEPT !.rw = @ /\ pte[p][v].frame \notin Frame]],
    ![c] = [v \in Page |-> [pte[p][v] EXCEPT !.rw = FALSE]]]

-----------------------------------------------------------------------------
(* fork.                                                                   *)

\* find_empty_process(): the first free slot.
FirstFree(c) ==
  /\ c \in Task \ Live
  /\ \A t \in 0 .. c - 1 : t \in Live

\* sys_fork with enough memory: a page for the task_struct, one for the table.
Fork(p, c) ==
  /\ ~wrecked /\ InUserMode(p) /\ FirstFree(c)
  /\ \E f \in FreePages(mem_map) : \E g \in FreePages(Taken(mem_map, f)) :
       /\ task' = [task EXCEPT ![c] = f]
       /\ dir' = [dir EXCEPT ![c] = g]
       /\ mem_map' = SharedOnceMore(Taken(Taken(mem_map, f), g), p)
       /\ content' = [content EXCEPT ![f] = Zero, ![g] = Zero]
  /\ pte' = CopiedTables(p, c)
  /\ tlb' = {}
  /\ UNCHANGED wrecked

\* Mutant: copy_process() forgets the page of the task_struct.
ForkFailsLeaks(p, c) ==
  /\ ~wrecked /\ InUserMode(p) /\ FirstFree(c)
  /\ \E f \in FreePages(mem_map) :
       /\ FreePages(Taken(mem_map, f)) = {}
       /\ mem_map' = Taken(mem_map, f)
       /\ content' = [content EXCEPT ![f] = Zero]
  /\ tlb' = {}
  /\ UNCHANGED <<task, dir, pte, wrecked>>

\* No page is left for the table: free_page_tables() finds no entry in the
\* directory, and copy_process() gives back the slot and the page.  (With no
\* free page or no free slot at all, nothing happens.)
ForkFails(p, c) ==
  /\ ~wrecked /\ InUserMode(p) /\ FirstFree(c)
  /\ \E f \in FreePages(mem_map) :
       /\ FreePages(Taken(mem_map, f)) = {}
       /\ mem_map' = Released(Taken(mem_map, f), f)
       /\ content' = [content EXCEPT ![f] = Zero]
  /\ tlb' = {}
  /\ UNCHANGED <<task, dir, pte, wrecked>>

-----------------------------------------------------------------------------
(* User instructions.                                                      *)

Cached(t, v) == {e \in tlb : e.task = t /\ e.page = v}

\* What the processor uses for the page: the TLB if it can, or the table.
Translation(t, v) ==
  IF Cached(t, v) = {} THEN pte[t][v]
  ELSE LET e == CHOOSE x \in Cached(t, v) : TRUE IN [frame |-> e.frame, rw |-> e.rw]

\* The processor may keep the translation.
Remember(t, v) ==
  LET e == Translation(t, v)
  IN  tlb' \in {tlb, tlb \cup {[task |-> t, page |-> v, frame |-> e.frame, rw |-> e.rw]}}

Read(t, v) ==
  /\ ~wrecked /\ InUserMode(t)
  /\ Remember(t, v)
  /\ UNCHANGED <<mem_map, task, dir, pte, content, wrecked>>

Write(t, v, d) ==
  /\ ~wrecked /\ InUserMode(t) /\ Translation(t, v).rw
  /\ content' = [content EXCEPT ![Translation(t, v).frame] = d]
  /\ Remember(t, v)
  /\ UNCHANGED <<mem_map, task, dir, pte, wrecked>>

-----------------------------------------------------------------------------
(* The page fault of a write to a read-only page: do_wp_page().            *)

Fault(t, v) == ~wrecked /\ InUserMode(t) /\ ~Translation(t, v).rw

\* Nobody else refers to the page any more.
LastReference(t, v) == pte[t][v].frame \in Frame /\ mem_map[pte[t][v].frame] = 1

Unprotect(t, v) ==
  /\ Fault(t, v) /\ LastReference(t, v)
  /\ pte' = [pte EXCEPT ![t][v].rw = TRUE]
  /\ tlb' = {}
  /\ UNCHANGED <<mem_map, task, dir, content, wrecked>>

\* Mutant: the TLB is not told.
MoveToStale(t, v, n) ==
  /\ pte' = [pte EXCEPT ![t][v] = [frame |-> n, rw |-> TRUE]]
  /\ tlb' = tlb
  /\ content' = [content EXCEPT ![n] = content[pte[t][v].frame]]

\* un_wp_page() makes the entry refer to page n, and copies.
MoveTo(t, v, n) ==
  /\ pte' = [pte EXCEPT ![t][v] = [frame |-> n, rw |-> TRUE]]
  /\ tlb' = {}
  /\ content' = [content EXCEPT ![n] = content[pte[t][v].frame]]

CopyPage(t, v) ==
  /\ Fault(t, v) /\ ~LastReference(t, v)
  /\ \E n \in FreePages(mem_map) :
       /\ mem_map' = Released(Taken(mem_map, n), pte[t][v].frame)
       /\ MoveTo(t, v, n)
  /\ UNCHANGED <<task, dir, wrecked>>

\* oom() returns, since do_exit() does nothing: the entry now refers to the
\* page at address 0, the page directory, and the copy goes there.
OutOfMemory(t, v) ==
  /\ Fault(t, v) /\ ~LastReference(t, v)
  /\ FreePages(mem_map) = {}
  /\ mem_map' = Released(mem_map, pte[t][v].frame)
  /\ MoveTo(t, v, PageZero)
  /\ wrecked' = TRUE
  /\ UNCHANGED <<task, dir>>

Next ==
  \/ \E p, c \in Task : Fork(p, c) \/ ForkFails(p, c)
  \/ \E t \in Task, v \in Page :
       \/ Read(t, v) \/ \E d \in Data : Write(t, v, d)
       \/ Unprotect(t, v) \/ CopyPage(t, v) \/ OutOfMemory(t, v)

Spec == Init /\ [][Next]_vars

-----------------------------------------------------------------------------
(* Properties.                                                             *)

\* Every variable has its type; no count exceeds the number of tasks, so that
\* the bytes of mem_map do not overflow.
TypeOK ==
  /\ mem_map \in [Frame -> 0 .. NR_TASKS]
  /\ task \in [Task -> {PageZero} \cup Frame]
  /\ dir  \in [Task -> {PageZero} \cup Frame]
  /\ pte  \in [Task -> [Page -> Pte]]
  /\ tlb  \subseteq [task : Task, page : Page, frame : Page \cup Frame, rw : BOOLEAN]
  /\ content \in [Page \cup Frame -> Data]
  /\ wrecked \in BOOLEAN

\* What refers to the physical page f: task_structs, page tables, and entries
\* (a slot that is not in use has no entries above LOW_MEM).
TaskRefs(f) == {t \in Task : task[t] = f}
DirRefs(f)  == {t \in Task : dir[t] = f}
PageRefs(f) == {x \in Task \X Page : pte[x[1]][x[2]].frame = f}

\* The count of a page is the number of references to it: no page is lost when
\* fork fails half way or a page is copied, and none is freed while in use.
CountsAreReferences ==
  \A f \in Frame :
    mem_map[f] = Cardinality(TaskRefs(f)) + Cardinality(DirRefs(f)) + Cardinality(PageRefs(f))

\* The TLB never disagrees with the page tables.
TlbIsCurrent ==
  \A e \in tlb : pte[e.task][e.page] = [frame |-> e.frame, rw |-> e.rw]

\* A page that a forked task may write belongs to it alone.
WritableIsPrivate ==
  ~wrecked => \A t \in Live \ {0}, v \in Page :
    pte[t][v].rw => pte[t][v].frame \in Frame /\ mem_map[pte[t][v].frame] = 1

\* The memory of a task as its program sees it.
Contents(t, v) == IF t \in Live THEN content[pte[t][v].frame] ELSE Zero

\* Nothing but a task's own write changes its memory: no fork, no page fault,
\* no write of another task and no page that is freed and cleared.
OnlyWritesChangeMemory ==
  [][\A t \in Live, v \in Page :
        ~wrecked' /\ Contents(t, v)' # Contents(t, v) => \E d \in Data : Write(t, v, d)]_vars

Spaces == INSTANCE AddressSpaces WITH
  live <- Live,
  mem  <- [t \in Task |-> [v \in Page |-> Contents(t, v)]],
  ok   <- ~wrecked

\* Sharing is invisible: each task sees a memory of its own that began as a
\* copy of its parent's.
ImplementsAddressSpaces == Spaces!Spec

\* The comment on oom(): it ends the current process.  So a page fault without
\* memory must not go on to hand the page directory to the process.
OomEndsTheProcess ==
  \A t \in Live \ {0}, v \in Page : pte[t][v].rw => pte[t][v].frame # PageZero
=============================================================================
