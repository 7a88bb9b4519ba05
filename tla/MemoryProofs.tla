---------------------------- MODULE MemoryProofs ----------------------------
(***************************************************************************)
(* Proofs of the safety properties of module Memory and of its refinement  *)
(* of AddressSpaces, for every number of tasks and of pages.               *)
(***************************************************************************)
EXTENDS Memory, FiniteSetTheorems, TLAPS

\* TypeOK without the bound on the counts.
Types ==
  /\ mem_map \in [Frame -> Nat]
  /\ task \in [Task -> {PageZero} \cup Frame]
  /\ dir  \in [Task -> {PageZero} \cup Frame]
  /\ pte  \in [Task -> [Page -> Pte]]
  /\ tlb  \subseteq [task : Task, page : Page, frame : Page \cup Frame, rw : BOOLEAN]
  /\ content \in [Page \cup Frame -> Data]
  /\ wrecked \in BOOLEAN

\* Task 0 keeps its own pages, writable.
TaskZeroIsFixed ==
  /\ task[0] = PageZero /\ dir[0] = PageZero
  /\ \A v \in Page : pte[0][v] = [frame |-> v, rw |-> TRUE]

\* A slot that is not in use refers to nothing.
EmptySlots == \A t \in Task \ Live : dir[t] = PageZero /\ pte[t] = NoTable

\* A page is used for one purpose only: one task_struct, one page table, or
\* the memory of tasks.
OneUse ==
  \A t, u \in Task :
    /\ task[t] \in Frame =>
         /\ task[u] = task[t] => u = t
         /\ dir[u] # task[t]
         /\ \A v \in Page : pte[u][v].frame # task[t]
    /\ dir[t] \in Frame =>
         /\ dir[u] = dir[t] => u = t
         /\ \A v \in Page : pte[u][v].frame # dir[t]

\* Tasks that share a page have it at the same place.
OnePlace ==
  \A t, u \in Task, v, w \in Page :
    pte[t][v].frame = pte[u][w].frame /\ pte[t][v].frame \in Frame => v = w

\* The inductive invariant.
Inv ==
  /\ Types
  /\ CountsAreReferences
  /\ TlbIsCurrent
  /\ WritableIsPrivate
  /\ TaskZeroIsFixed
  /\ EmptySlots
  /\ OneUse
  /\ OnePlace

-----------------------------------------------------------------------------
(* Counting.                                                               *)

\* There are NR_TASKS tasks.
LEMMA TaskFinite == IsFiniteSet(Task) /\ Cardinality(Task) = NR_TASKS
<1>1. 0 \in Int /\ NR_TASKS - 1 \in Int /\ ~(0 > NR_TASKS - 1)
  BY TasksAssumption
<1>2. QED
  BY <1>1, FS_Interval, TasksAssumption DEF Task

\* The sets of references are finite.
LEMMA RefsFinite ==
  ASSUME NEW f
  PROVE  /\ IsFiniteSet(TaskRefs(f)) /\ Cardinality(TaskRefs(f)) \in Nat
         /\ IsFiniteSet(DirRefs(f)) /\ Cardinality(DirRefs(f)) \in Nat
         /\ IsFiniteSet(PageRefs(f)) /\ Cardinality(PageRefs(f)) \in Nat
<1>1. TaskRefs(f) \in SUBSET Task /\ DirRefs(f) \in SUBSET Task
  BY DEF TaskRefs, DirRefs
<1>2. PageRefs(f) \in SUBSET (Task \X Page)
  BY DEF PageRefs
<1>3. IsFiniteSet(Task \X Page)
  BY TaskFinite, PagesAssumption, FS_Product
<1>4. IsFiniteSet(TaskRefs(f)) /\ IsFiniteSet(DirRefs(f)) /\ IsFiniteSet(PageRefs(f))
  BY <1>1, <1>2, <1>3, TaskFinite, FS_Subset
<1>5. QED
  BY <1>4, FS_CardinalityType

\* A page with count 0 is not referred to.
LEMMA CountZero ==
  ASSUME CountsAreReferences, NEW f \in Frame, mem_map[f] = 0
  PROVE  /\ TaskRefs(f) = {} /\ DirRefs(f) = {} /\ PageRefs(f) = {}
         /\ \A t \in Task : task[t] # f /\ dir[t] # f /\ \A v \in Page : pte[t][v].frame # f
<1>1. /\ Cardinality(TaskRefs(f)) = 0
      /\ Cardinality(DirRefs(f)) = 0
      /\ Cardinality(PageRefs(f)) = 0
  BY RefsFinite, SMT DEF CountsAreReferences
<1>2. TaskRefs(f) = {} /\ DirRefs(f) = {} /\ PageRefs(f) = {}
  BY <1>1, RefsFinite, FS_EmptySet
<1>3. ASSUME NEW t \in Task, NEW v \in Page, pte[t][v].frame = f
      PROVE  FALSE
  <2>1. <<t, v>> \in PageRefs(f)
    BY <1>3 DEF PageRefs
  <2>2. QED
    BY <2>1, <1>2
<1>4. QED
  BY <1>2, <1>3 DEF TaskRefs, DirRefs

\* A page of a task with count 1 is not referred to by anything else.
LEMMA CountOne ==
  ASSUME CountsAreReferences,
         NEW t \in Task, NEW v \in Page,
         pte[t][v].frame \in Frame, mem_map[pte[t][v].frame] = 1
  PROVE  \A u \in Task, w \in Page : pte[u][w].frame = pte[t][v].frame => u = t /\ w = v
<1> DEFINE f == pte[t][v].frame
<1>1. <<t, v>> \in PageRefs(f)
  BY DEF PageRefs
<1>2. Cardinality(PageRefs(f)) # 0
  BY <1>1, RefsFinite, FS_EmptySet
<1>a. 1 = Cardinality(TaskRefs(f)) + Cardinality(DirRefs(f)) + Cardinality(PageRefs(f))
  BY DEF CountsAreReferences
<1> HIDE DEF f
<1>3. Cardinality(PageRefs(f)) = 1
  BY <1>2, <1>a, RefsFinite, SMT
<1>4. PICK x : PageRefs(f) = {x}
  BY <1>3, RefsFinite, FS_Singleton
<1>5. ASSUME NEW u \in Task, NEW w \in Page, pte[u][w].frame = f
      PROVE  u = t /\ w = v
  <2>1. <<u, w>> \in PageRefs(f)
    BY <1>5 DEF PageRefs
  <2>2. <<u, w>> = <<t, v>>
    BY <2>1, <1>1, <1>4
  <2>3. QED
    BY <2>2
<1>6. QED
  BY <1>5 DEF f

-----------------------------------------------------------------------------
(* The initial state, and user instructions.                               *)

\* The invariant holds when the first process starts.
LEMMA InitInv == Init => Inv
<1> SUFFICES ASSUME Init PROVE Inv
  OBVIOUS
<1>0. 0 \in Task /\ Live = {0}
  BY TasksAssumption DEF Init, Live, Task
<1>1. Types
  BY <1>0, PagesAssumption DEF Init, Types, Pte, NoTable
<1>2. \A t \in Task, v \in Page : pte[t][v].frame \notin Frame
  BY FramesAssumption, PagesAssumption DEF Init, NoTable
<1>3. CountsAreReferences
  <2> SUFFICES ASSUME NEW f \in Frame
               PROVE  mem_map[f] = Cardinality(TaskRefs(f)) + Cardinality(DirRefs(f))
                                     + Cardinality(PageRefs(f))
    BY DEF CountsAreReferences
  <2>1. TaskRefs(f) = {} /\ DirRefs(f) = {}
    BY FramesAssumption, PagesAssumption DEF Init, TaskRefs, DirRefs
  <2>2. PageRefs(f) = {}
    BY <1>2 DEF PageRefs
  <2>3. QED
    BY <2>1, <2>2, FS_EmptySet DEF Init
<1>4. TlbIsCurrent /\ WritableIsPrivate
  BY <1>0 DEF Init, TlbIsCurrent, WritableIsPrivate
<1>5. TaskZeroIsFixed /\ EmptySlots
  BY <1>0 DEF Init, TaskZeroIsFixed, EmptySlots
<1>6. OneUse /\ OnePlace
  BY <1>2, FramesAssumption, PagesAssumption DEF Init, OneUse, OnePlace
<1>7. QED
  BY <1>1, <1>3, <1>4, <1>5, <1>6 DEF Inv

\* The processor never uses an outdated entry.
LEMMA TranslationIsEntry ==
  ASSUME Types, TlbIsCurrent, NEW t \in Task, NEW v \in Page
  PROVE  Translation(t, v) = pte[t][v]
<1>1. CASE Cached(t, v) = {}
  BY <1>1 DEF Translation
<1>2. CASE Cached(t, v) # {}
  <2> DEFINE e == CHOOSE x \in Cached(t, v) : TRUE
  <2>1. e \in Cached(t, v)
    BY <1>2
  <2>2. e \in tlb /\ e.task = t /\ e.page = v
    BY <2>1 DEF Cached
  <2>3. pte[t][v] = [frame |-> e.frame, rw |-> e.rw]
    BY <2>2 DEF TlbIsCurrent
  <2>4. QED
    BY <1>2, <2>3 DEF Translation
<1>3. QED
  BY <1>1, <1>2

\* What an instruction leaves in the TLB is current.
LEMMA RememberInv ==
  ASSUME Types, TlbIsCurrent, NEW t \in Task, NEW v \in Page, Remember(t, v), pte' = pte
  PROVE  /\ tlb' \subseteq [task : Task, page : Page, frame : Page \cup Frame, rw : BOOLEAN]
         /\ TlbIsCurrent'
<1> DEFINE e == Translation(t, v)
           n == [task |-> t, page |-> v, frame |-> e.frame, rw |-> e.rw]
<1>1. e = pte[t][v]
  BY TranslationIsEntry
<1>2. e \in Pte
  BY <1>1 DEF Types
<1>3. n \in [task : Task, page : Page, frame : Page \cup Frame, rw : BOOLEAN]
  BY <1>2 DEF Pte
<1>4. pte[n.task][n.page] = [frame |-> n.frame, rw |-> n.rw]
  BY <1>1, <1>2 DEF Pte
<1>5. tlb' \subseteq tlb \cup {n}
  BY DEF Remember
<1>6. QED
  BY <1>3, <1>4, <1>5 DEF Types, TlbIsCurrent

\* The parts of the invariant that do not mention the TLB and the contents.
LEMMA UserInv ==
  ASSUME Inv, NEW t \in Task, NEW v \in Page, Remember(t, v),
         UNCHANGED <<mem_map, task, dir, pte, wrecked>>,
         content' \in [Page \cup Frame -> Data]
  PROVE  Inv'
<1>1. Types' /\ TlbIsCurrent'
  BY RememberInv DEF Inv, Types
<1>2. CountsAreReferences'
  BY DEF Inv, CountsAreReferences, TaskRefs, DirRefs, PageRefs
<1>3. WritableIsPrivate' /\ TaskZeroIsFixed' /\ EmptySlots' /\ OneUse' /\ OnePlace'
  BY DEF Inv, WritableIsPrivate, TaskZeroIsFixed, EmptySlots, OneUse, OnePlace, Live
<1>4. QED
  BY <1>1, <1>2, <1>3 DEF Inv

\* An instruction that reads keeps the invariant.
LEMMA ReadInv ==
  ASSUME Inv, NEW t \in Task, NEW v \in Page, Read(t, v)
  PROVE  Inv'
  BY UserInv DEF Read, Inv, Types

\* An instruction that writes keeps the invariant.
LEMMA WriteInv ==
  ASSUME Inv, NEW t \in Task, NEW v \in Page, NEW d \in Data, Write(t, v, d)
  PROVE  Inv'
<1>1. content' \in [Page \cup Frame -> Data]
  BY DEF Write, Inv, Types
<1>2. QED
  BY <1>1, UserInv DEF Write

-----------------------------------------------------------------------------
(* The page fault.                                                         *)

\* A write fault is never taken by task 0, and the entry is read-only.
LEMMA FaultFacts ==
  ASSUME Inv, NEW t \in Task, NEW v \in Page, Fault(t, v)
  PROVE  ~wrecked /\ t # 0 /\ t \in Live /\ pte[t][v] \in Pte /\ ~pte[t][v].rw
<1>1. Translation(t, v) = pte[t][v]
  BY TranslationIsEntry DEF Inv
<1>2. ~wrecked /\ t \in Live /\ pte[t][v] \in Pte
  BY DEF Fault, InUserMode, Inv, Types
<1>3. ~pte[t][v].rw
  BY <1>1 DEF Fault
<1>4. ASSUME t = 0 PROVE FALSE
  <2>1. pte[t][v] = [frame |-> v, rw |-> TRUE]
    BY <1>4 DEF Inv, TaskZeroIsFixed
  <2>2. QED
    BY <1>3, <2>1
<1>5. QED
  BY <1>2, <1>3, <1>4

\* Making the entry writable, for the only task that refers to the page,
\* keeps the invariant.
LEMMA UnprotectInv ==
  ASSUME Inv, NEW t \in Task, NEW v \in Page, Unprotect(t, v)
  PROVE  Inv'
<1> USE DEF Inv
<1>0. t # 0 /\ t \in Live /\ pte[t][v] \in Pte /\ ~wrecked
  BY FaultFacts DEF Unprotect
<1>1. /\ pte' = [pte EXCEPT ![t][v].rw = TRUE] /\ tlb' = {}
      /\ UNCHANGED <<mem_map, task, dir, content, wrecked>>
  BY DEF Unprotect
<1> DEFINE new == [pte[t][v] EXCEPT !.rw = TRUE]
<1>a. new \in Pte /\ new.frame = pte[t][v].frame
  BY <1>0 DEF Pte
<1>b. pte' = [pte EXCEPT ![t] = [pte[t] EXCEPT ![v] = new]]
  BY <1>1
<1> HIDE DEF new
<1>2. pte' \in [Task -> [Page -> Pte]]
  BY <1>a, <1>b DEF Types
<1>3. \A u \in Task, w \in Page :
        /\ pte'[u][w].frame = pte[u][w].frame
        /\ <<u, w>> # <<t, v>> => pte'[u][w] = pte[u][w]
  BY <1>a, <1>b DEF Types
<1>4. Types' /\ TlbIsCurrent'
  BY <1>1, <1>2 DEF Types, TlbIsCurrent
<1>5. CountsAreReferences'
  BY <1>1, <1>3 DEF CountsAreReferences, TaskRefs, DirRefs, PageRefs
<1>6. Live' = Live
  BY <1>1 DEF Live
<1>7. WritableIsPrivate'
  BY <1>0, <1>1, <1>3, <1>6 DEF WritableIsPrivate, Unprotect, LastReference, Live
<1>8. TaskZeroIsFixed'
  BY <1>0, <1>1, <1>3, TasksAssumption DEF TaskZeroIsFixed, Task
<1>9. EmptySlots'
  BY <1>0, <1>1, <1>6 DEF EmptySlots, Types
<1>10. OneUse' /\ OnePlace'
  BY <1>1, <1>3 DEF OneUse, OnePlace
<1>11. QED
  BY <1>4, <1>5, <1>7, <1>8, <1>9, <1>10

\* The entry moves from page old to page n, which nothing refers to (or which
\* is the page directory); n gains a reference and old loses one.
LEMMA MoveInv ==
  ASSUME Inv, NEW t \in Task, NEW v \in Page, Fault(t, v), ~LastReference(t, v),
         NEW n \in {PageZero} \cup FreePages(mem_map), MoveTo(t, v, n),
         UNCHANGED <<task, dir>>, wrecked' \in BOOLEAN,
         n = PageZero => wrecked',
         mem_map' = Released(IF n \in Frame THEN Taken(mem_map, n) ELSE mem_map, pte[t][v].frame)
  PROVE  Inv'
<1> USE DEF Inv
<1> DEFINE old == pte[t][v].frame
<1>0. t # 0 /\ t \in Live /\ pte[t][v] \in Pte /\ old \in Page \cup Frame
  BY FaultFacts DEF Pte
<1>1. n \in Page \cup Frame /\ (n \in Frame => mem_map[n] = 0) /\ (n \notin Frame => n = PageZero)
  BY PagesAssumption, FramesAssumption DEF FreePages
<1>2. n \in Frame =>
        /\ TaskRefs(n) = {} /\ DirRefs(n) = {} /\ PageRefs(n) = {}
        /\ \A u \in Task : task[u] # n /\ dir[u] # n /\ \A w \in Page : pte[u][w].frame # n
  BY <1>1, CountZero
<1>3. pte' = [pte EXCEPT ![t][v] = [frame |-> n, rw |-> TRUE]] /\ tlb' = {}
  BY DEF MoveTo
<1>4. pte' \in [Task -> [Page -> Pte]]
  BY <1>1, <1>3 DEF Types, Pte
<1>5. /\ pte'[t][v] = [frame |-> n, rw |-> TRUE]
      /\ \A u \in Task, w \in Page : <<u, w>> # <<t, v>> => pte'[u][w] = pte[u][w]
  BY <1>3 DEF Types
<1>6. Live' = Live
  BY DEF Live
<1>7. <<t, v>> \in PageRefs(old)
  BY DEF PageRefs
<1>8. \A f \in Frame :
        mem_map'[f] = IF f = n THEN 1 ELSE IF f = old THEN mem_map[f] - 1 ELSE mem_map[f]
  BY <1>1, <1>2 DEF Released, Taken, Types
<1>9. old \in Frame => mem_map[old] >= 1 /\ mem_map[old] # 1
  <2> SUFFICES ASSUME old \in Frame PROVE mem_map[old] >= 1 /\ mem_map[old] # 1
    OBVIOUS
  <2>1. mem_map[old] # 0
    BY <1>7, CountZero
  <2>2. mem_map[old] # 1
    BY DEF LastReference
  <2>3. mem_map[old] \in Nat
    BY DEF Types
  <2>4. QED
    BY <2>1, <2>2, <2>3
<1>10. mem_map' \in [Frame -> Nat]
  <2>1. mem_map' \in [Frame -> Int]
    BY <1>1 DEF Released, Taken, Types
  <2>2. \A f \in Frame : mem_map'[f] \in Nat
    BY <1>8, <1>9 DEF Types
  <2>3. QED
    BY <2>1, <2>2
<1>11. content' \in [Page \cup Frame -> Data]
  BY <1>0, <1>1 DEF MoveTo, Types
<1>12. Types' /\ TlbIsCurrent'
  BY <1>3, <1>4, <1>10, <1>11 DEF Types, TlbIsCurrent
<1>13. CountsAreReferences'
  <2> SUFFICES ASSUME NEW f \in Frame
               PROVE  mem_map'[f] = Cardinality(TaskRefs(f)') + Cardinality(DirRefs(f)')
                                      + Cardinality(PageRefs(f)')
    BY DEF CountsAreReferences
  <2>1. TaskRefs(f)' = TaskRefs(f) /\ DirRefs(f)' = DirRefs(f)
    BY DEF TaskRefs, DirRefs
  <2>2. mem_map[f] = Cardinality(TaskRefs(f)) + Cardinality(DirRefs(f)) + Cardinality(PageRefs(f))
    BY DEF CountsAreReferences
  <2>3. CASE f = n
    <3>1. PageRefs(f)' = {<<t, v>>}
      BY <1>2, <1>5, <2>3 DEF PageRefs
    <3>2. Cardinality(TaskRefs(f)') = 0 /\ Cardinality(DirRefs(f)') = 0
      BY <1>2, <2>1, <2>3, FS_EmptySet
    <3>3. Cardinality(PageRefs(f)') = 1
      BY <3>1, FS_Singleton
    <3>4. QED
      BY <1>8, <2>3, <3>2, <3>3
  <2>4. CASE f # n /\ f = old
    <3>1. PageRefs(f)' = PageRefs(f) \ {<<t, v>>}
      BY <1>5, <2>4 DEF PageRefs
    <3>2. Cardinality(PageRefs(f)') = Cardinality(PageRefs(f)) - 1
      <4>1. IsFiniteSet(PageRefs(f)) /\ <<t, v>> \in PageRefs(f)
        BY <1>7, <2>4, RefsFinite
      <4>2. QED
        BY <3>1, <4>1, FS_RemoveElement
    <3>3. mem_map'[f] = mem_map[f] - 1
      BY <1>8, <2>4
    <3>4. QED
      BY <2>1, <2>2, <3>2, <3>3, RefsFinite
  <2>5. CASE f # n /\ f # old
    <3>1. PageRefs(f)' = PageRefs(f)
      BY <1>5, <2>5 DEF PageRefs
    <3>2. QED
      BY <1>8, <2>1, <2>2, <2>5, <3>1
  <2>6. QED
    BY <2>3, <2>4, <2>5
<1>14. WritableIsPrivate'
  <2> SUFFICES ASSUME ~wrecked', NEW u \in Live \ {0}, NEW w \in Page, pte'[u][w].rw
               PROVE  pte'[u][w].frame \in Frame /\ mem_map'[pte'[u][w].frame] = 1
    BY <1>6 DEF WritableIsPrivate
  <2>0. n \in Frame /\ u \in Task
    BY <1>1, TasksAssumption DEF Live, Task
  <2>1. CASE <<u, w>> = <<t, v>>
    BY <1>5, <1>8, <2>0, <2>1
  <2>2. CASE <<u, w>> # <<t, v>>
    <3>1. pte[u][w].rw /\ pte'[u][w] = pte[u][w] /\ ~wrecked
      BY <1>5, <2>0, <2>2, FaultFacts
    <3>2. pte[u][w].frame \in Frame /\ mem_map[pte[u][w].frame] = 1
      BY <3>1 DEF WritableIsPrivate
    <3>3. pte[u][w].frame # n /\ pte[u][w].frame # old
      BY <1>1, <1>9, <3>2
    <3>4. QED
      BY <1>8, <3>1, <3>2, <3>3
  <2>3. QED
    BY <2>1, <2>2
<1>15. TaskZeroIsFixed' /\ EmptySlots'
  BY <1>0, <1>3, <1>5, <1>6, TasksAssumption DEF TaskZeroIsFixed, EmptySlots, Task, Types
<1>16. OneUse'
  <2>1. \A u, x \in Task, w \in Page :
          /\ task[u] \in Frame => pte'[x][w].frame # task[u]
          /\ dir[u] \in Frame => pte'[x][w].frame # dir[u]
    BY <1>2, <1>5 DEF OneUse
  <2>2. QED
    BY <2>1 DEF OneUse
<1>17. OnePlace'
  BY <1>2, <1>5 DEF OnePlace
<1>18. QED
  BY <1>12, <1>13, <1>14, <1>15, <1>16, <1>17

\* Copying a shared page keeps the invariant.
LEMMA CopyPageInv ==
  ASSUME Inv, NEW t \in Task, NEW v \in Page, CopyPage(t, v)
  PROVE  Inv'
<1>1. PICK n \in FreePages(mem_map) :
        mem_map' = Released(Taken(mem_map, n), pte[t][v].frame) /\ MoveTo(t, v, n)
  BY DEF CopyPage
<1>2. n \in Frame /\ n # PageZero
  BY PagesAssumption, FramesAssumption DEF FreePages
<1>3. QED
  BY <1>1, <1>2, MoveInv DEF CopyPage, Inv, Types

\* The page fault without memory keeps the invariant: WritableIsPrivate
\* promises nothing once the page directory is overwritten.
LEMMA OutOfMemoryInv ==
  ASSUME Inv, NEW t \in Task, NEW v \in Page, OutOfMemory(t, v)
  PROVE  Inv'
<1>1. PageZero \notin Frame
  BY PagesAssumption, FramesAssumption
<1>2. QED
  BY <1>1, MoveInv DEF OutOfMemory

-----------------------------------------------------------------------------
(* fork.                                                                   *)

\* A fork that fails half way keeps the invariant.
LEMMA ForkFailsInv ==
  ASSUME Inv, NEW p \in Task, NEW c \in Task, ForkFails(p, c)
  PROVE  Inv'
<1> USE DEF Inv
<1>1. PICK f \in FreePages(mem_map) :
        /\ mem_map' = Released(Taken(mem_map, f), f)
        /\ content' = [content EXCEPT ![f] = Zero]
  BY DEF ForkFails
<1>2. tlb' = {} /\ UNCHANGED <<task, dir, pte, wrecked>>
  BY DEF ForkFails
<1>3. mem_map' = mem_map
  BY <1>1 DEF FreePages, Released, Taken, Types
<1>4. Types' /\ TlbIsCurrent'
  BY <1>1, <1>2, <1>3, DataAssumption DEF Types, TlbIsCurrent
<1>5. CountsAreReferences'
  BY <1>2, <1>3 DEF CountsAreReferences, TaskRefs, DirRefs, PageRefs
<1>6. WritableIsPrivate' /\ TaskZeroIsFixed' /\ EmptySlots' /\ OneUse' /\ OnePlace'
  BY <1>2, <1>3 DEF WritableIsPrivate, TaskZeroIsFixed, EmptySlots, OneUse, OnePlace, Live
<1>7. QED
  BY <1>4, <1>5, <1>6

\* The page tables after a fork: the child has its parent's pages, nobody
\* else's table changes, and only pages below LOW_MEM stay writable for the
\* parent.
LEMMA CopiedTablesFacts ==
  ASSUME Types, NEW p \in Task, NEW c \in Task, p # c, pte' = CopiedTables(p, c)
  PROVE  /\ pte' \in [Task -> [Page -> Pte]]
         /\ \A v \in Page : pte'[c][v].frame = pte[p][v].frame /\ ~pte'[c][v].rw
         /\ \A t \in Task \ {c}, v \in Page : pte'[t][v].frame = pte[t][v].frame
         /\ \A v \in Page : pte[p][v].frame \in Frame => ~pte'[p][v].rw
         /\ \A v \in Page : pte[p][v].frame \notin Frame => pte'[p][v] = pte[p][v]
         /\ \A t \in Task \ {c, p} : pte'[t] = pte[t]
<1> DEFINE P == [v \in Page |-> [pte[p][v] EXCEPT !.rw = @ /\ pte[p][v].frame \notin Frame]]
           C == [v \in Page |-> [pte[p][v] EXCEPT !.rw = FALSE]]
<1>1. pte' = [pte EXCEPT ![p] = P, ![c] = C]
  BY DEF CopiedTables
<1>2. ASSUME NEW v \in Page
      PROVE  /\ C[v] \in Pte /\ C[v].frame = pte[p][v].frame /\ ~C[v].rw
             /\ P[v] \in Pte /\ P[v].frame = pte[p][v].frame
             /\ pte[p][v].frame \in Frame => ~P[v].rw
             /\ pte[p][v].frame \notin Frame => P[v] = pte[p][v]
  <2>1. pte[p][v] \in Pte
    BY DEF Types
  <2>2. C[v] \in Pte /\ C[v].frame = pte[p][v].frame /\ ~C[v].rw
    BY <2>1 DEF Pte
  <2>3. CASE pte[p][v].frame \in Frame
    <3>1. P[v] = [pte[p][v] EXCEPT !.rw = FALSE]
      BY <2>3
    <3>2. QED
      BY <2>1, <2>2, <2>3, <3>1
  <2>4. CASE pte[p][v].frame \notin Frame
    <3>1. P[v] = pte[p][v]
      BY <2>1, <2>4 DEF Pte
    <3>2. QED
      BY <2>1, <2>2, <2>4, <3>1
  <2>5. QED
    BY <2>3, <2>4
<1>3. P \in [Page -> Pte] /\ C \in [Page -> Pte]
  BY <1>2
<1> HIDE DEF P, C
<1>4. /\ pte' \in [Task -> [Page -> Pte]]
      /\ pte'[c] = C /\ pte'[p] = P
      /\ \A t \in Task \ {c, p} : pte'[t] = pte[t]
  BY <1>1, <1>3 DEF Types
<1>5. ASSUME NEW t \in Task \ {c}, NEW v \in Page
      PROVE  pte'[t][v].frame = pte[t][v].frame
  <2>1. CASE t = p
    BY <1>2, <1>4, <2>1
  <2>2. CASE t # p
    BY <1>4, <2>2
  <2>3. QED
    BY <2>1, <2>2
<1>6. \A v \in Page : pte'[c][v].frame = pte[p][v].frame /\ ~pte'[c][v].rw
  BY <1>2, <1>4
<1>7. \A v \in Page : pte[p][v].frame \in Frame => ~pte'[p][v].rw
  BY <1>2, <1>4
<1>8. \A v \in Page : pte[p][v].frame \notin Frame => pte'[p][v] = pte[p][v]
  BY <1>2, <1>4
<1>9. QED
  BY <1>4, <1>5, <1>6, <1>7, <1>8

\* A fork keeps the invariant.
LEMMA ForkInv ==
  ASSUME Inv, NEW p \in Task, NEW c \in Task, Fork(p, c)
  PROVE  Inv'
<1> USE DEF Inv
<1>0. PICK f \in FreePages(mem_map) : \E g \in FreePages(Taken(mem_map, f)) :
        /\ task' = [task EXCEPT ![c] = f]
        /\ dir' = [dir EXCEPT ![c] = g]
        /\ mem_map' = SharedOnceMore(Taken(Taken(mem_map, f), g), p)
        /\ content' = [content EXCEPT ![f] = Zero, ![g] = Zero]
  BY DEF Fork
<1>1. PICK g \in FreePages(Taken(mem_map, f)) :
        /\ task' = [task EXCEPT ![c] = f]
        /\ dir' = [dir EXCEPT ![c] = g]
        /\ mem_map' = SharedOnceMore(Taken(Taken(mem_map, f), g), p)
        /\ content' = [content EXCEPT ![f] = Zero, ![g] = Zero]
  BY <1>0
<1>2. /\ ~wrecked /\ wrecked' = wrecked /\ tlb' = {} /\ pte' = CopiedTables(p, c)
      /\ p \in Live /\ c \notin Live /\ c # p /\ c # 0
  BY DEF Fork, InUserMode, FirstFree, Live
<1>3. f \in Frame /\ g \in Frame /\ f # g /\ mem_map[f] = 0 /\ mem_map[g] = 0
  BY <1>1 DEF FreePages, Taken, Types
<1>4. /\ f # PageZero /\ g # PageZero /\ PageZero \notin Frame
  BY <1>3, PagesAssumption, FramesAssumption
<1>5. \A x \in {f, g} :
        /\ TaskRefs(x) = {} /\ DirRefs(x) = {} /\ PageRefs(x) = {}
        /\ \A t \in Task : task[t] # x /\ dir[t] # x /\ \A v \in Page : pte[t][v].frame # x
  BY <1>3, CountZero
<1>6. /\ pte' \in [Task -> [Page -> Pte]]
      /\ \A v \in Page : pte'[c][v].frame = pte[p][v].frame /\ ~pte'[c][v].rw
      /\ \A t \in Task \ {c}, v \in Page : pte'[t][v].frame = pte[t][v].frame
      /\ \A v \in Page : pte[p][v].frame \in Frame => ~pte'[p][v].rw
      /\ \A v \in Page : pte[p][v].frame \notin Frame => pte'[p][v] = pte[p][v]
      /\ \A t \in Task \ {c, p} : pte'[t] = pte[t]
  BY <1>2, CopiedTablesFacts
<1>7. /\ task'[c] = f /\ \A t \in Task \ {c} : task'[t] = task[t]
      /\ dir'[c] = g /\ \A t \in Task \ {c} : dir'[t] = dir[t]
  BY <1>1 DEF Types
<1>8. task[c] = PageZero /\ dir[c] = PageZero /\ \A v \in Page : pte[c][v].frame = PageZero
  <2>1. task[c] = PageZero /\ dir[c] = PageZero /\ pte[c] = NoTable
    BY <1>2 DEF Live, EmptySlots
  <2>2. \A v \in Page : NoTable[v].frame = PageZero
    BY DEF NoTable
  <2>3. QED
    BY <2>1, <2>2
<1>9. Live' = Live \cup {c}
  BY <1>4, <1>7 DEF Live
<1> DEFINE Shared(x) == {v \in Page : pte[p][v].frame = x}
<1>10. \A x \in Frame : IsFiniteSet(Shared(x)) /\ Cardinality(Shared(x)) \in Nat
  <2> SUFFICES ASSUME NEW x \in Frame
               PROVE  IsFiniteSet(Shared(x)) /\ Cardinality(Shared(x)) \in Nat
    OBVIOUS
  <2>1. Shared(x) \in SUBSET Page
    OBVIOUS
  <2> HIDE DEF Shared
  <2>2. IsFiniteSet(Shared(x))
    BY <2>1, PagesAssumption, FS_Subset
  <2>3. QED
    BY <2>2, FS_CardinalityType
<1>11. \A x \in Frame :
         mem_map'[x] = (IF x \in {f, g} THEN 1 ELSE mem_map[x]) + Cardinality(Shared(x))
  BY <1>1, <1>3 DEF SharedOnceMore, Taken, Types
<1>12. mem_map' \in [Frame -> Nat]
  <2>1. mem_map' = [x \in Frame |-> Taken(Taken(mem_map, f), g)[x] + Cardinality(Shared(x))]
    BY <1>1 DEF SharedOnceMore
  <2>2. \A x \in Frame : mem_map'[x] \in Nat
    <3> HIDE DEF Shared
    <3>1. QED
      BY <1>10, <1>11 DEF Types
  <2>3. QED
    BY <2>1, <2>2
<1>13. content' \in [Page \cup Frame -> Data]
  BY <1>1, <1>3, DataAssumption DEF Types
<1>14. task' \in [Task -> {PageZero} \cup Frame] /\ dir' \in [Task -> {PageZero} \cup Frame]
  BY <1>1, <1>3 DEF Types
<1>15. Types' /\ TlbIsCurrent'
  BY <1>2, <1>6, <1>12, <1>13, <1>14 DEF Types, TlbIsCurrent
<1>16. CountsAreReferences'
  <2> SUFFICES ASSUME NEW x \in Frame
               PROVE  mem_map'[x] = Cardinality(TaskRefs(x)') + Cardinality(DirRefs(x)')
                                      + Cardinality(PageRefs(x)')
    BY DEF CountsAreReferences
  <2>1. mem_map[x] = Cardinality(TaskRefs(x)) + Cardinality(DirRefs(x)) + Cardinality(PageRefs(x))
    BY DEF CountsAreReferences
  <2>2. Cardinality(TaskRefs(x)') = IF x = f THEN 1 ELSE Cardinality(TaskRefs(x))
    <3>1. TaskRefs(x)' = IF x = f THEN {c} ELSE TaskRefs(x)
      BY <1>4, <1>5, <1>7, <1>8 DEF TaskRefs
    <3>2. QED
      BY <3>1, FS_Singleton
  <2>3. Cardinality(DirRefs(x)') = IF x = g THEN 1 ELSE Cardinality(DirRefs(x))
    <3>1. DirRefs(x)' = IF x = g THEN {c} ELSE DirRefs(x)
      BY <1>4, <1>5, <1>7, <1>8 DEF DirRefs
    <3>2. QED
      BY <3>1, FS_Singleton
  <2>4. Cardinality(PageRefs(x)') = Cardinality(PageRefs(x)) + Cardinality(Shared(x))
    <3> DEFINE New == {c} \X Shared(x)
    <3>1. PageRefs(x)' = PageRefs(x) \cup New
      <4>1. ASSUME NEW t \in Task, NEW v \in Page
            PROVE  <<t, v>> \in PageRefs(x)' <=> <<t, v>> \in PageRefs(x) \cup New
        BY <1>4, <1>6, <1>8 DEF PageRefs
      <4>2. PageRefs(x)' \subseteq Task \X Page /\ PageRefs(x) \cup New \subseteq Task \X Page
        BY DEF PageRefs
      <4>3. QED
        BY <4>1, <4>2
    <3>2. PageRefs(x) \cap New = {}
      BY <1>4, <1>8 DEF PageRefs
    <3>3. IsFiniteSet(New) /\ Cardinality(New) = Cardinality(Shared(x))
      <4> HIDE DEF Shared
      <4>1. IsFiniteSet({c}) /\ Cardinality({c}) = 1
        BY FS_Singleton
      <4>2. IsFiniteSet(New) /\ Cardinality(New) = 1 * Cardinality(Shared(x))
        BY <1>10, <4>1, FS_Product
      <4>3. QED
        BY <1>10, <4>2
    <3> HIDE DEF New, Shared
    <3>4. Cardinality(PageRefs(x) \cup New)
            = Cardinality(PageRefs(x)) + Cardinality(New) - Cardinality(PageRefs(x) \cap New)
      BY <3>3, RefsFinite, FS_Union
    <3>5. Cardinality(PageRefs(x) \cap New) = 0
      BY <3>2, FS_EmptySet
    <3>6. Cardinality(PageRefs(x)) \in Nat /\ Cardinality(Shared(x)) \in Nat
      BY <1>10, RefsFinite
    <3>7. QED
      BY <3>1, <3>3, <3>4, <3>5, <3>6
  <2>5. /\ Cardinality(TaskRefs(x)) \in Nat /\ Cardinality(DirRefs(x)) \in Nat
        /\ Cardinality(PageRefs(x)) \in Nat /\ Cardinality(Shared(x)) \in Nat
    BY <1>10, RefsFinite
  <2>6. x \in {f, g} => /\ Cardinality(TaskRefs(x)) = 0 /\ Cardinality(DirRefs(x)) = 0
                        /\ Cardinality(PageRefs(x)) = 0
    BY <1>5, FS_EmptySet
  <2>7. mem_map'[x] = (IF x \in {f, g} THEN 1 ELSE mem_map[x]) + Cardinality(Shared(x))
    BY <1>11
  <2> HIDE DEF Shared
  <2>8. CASE x = f
    BY <1>3, <2>2, <2>3, <2>4, <2>5, <2>6, <2>7, <2>8
  <2>9. CASE x = g
    BY <1>3, <2>2, <2>3, <2>4, <2>5, <2>6, <2>7, <2>9
  <2>10. CASE x \notin {f, g}
    BY <2>1, <2>2, <2>3, <2>4, <2>5, <2>7, <2>10
  <2>11. QED
    BY <2>8, <2>9, <2>10
<1>17. WritableIsPrivate'
  <2> SUFFICES ASSUME NEW t \in Live' \ {0}, NEW v \in Page, pte'[t][v].rw
               PROVE  pte'[t][v].frame \in Frame /\ mem_map'[pte'[t][v].frame] = 1
    BY DEF WritableIsPrivate
  <2>1. t \in Live /\ t # c /\ t \in Task
    <3>1. t # c
      BY <1>6
    <3>2. QED
      BY <1>9, <3>1 DEF Live
  <2>2. CASE t = p
    <3>1. pte[p][v].frame \notin Frame
      BY <1>6, <2>2
    <3>2. pte[p][v].rw
      BY <1>6, <2>2, <3>1
    <3>3. QED
      BY <1>2, <2>1, <2>2, <3>1, <3>2 DEF WritableIsPrivate
  <2>3. CASE t # p
    <3>1. pte'[t] = pte[t]
      BY <1>6, <2>1, <2>3
    <3>2. pte[t][v].frame \in Frame /\ mem_map[pte[t][v].frame] = 1
      BY <1>2, <2>1, <3>1 DEF WritableIsPrivate
    <3> DEFINE x == pte[t][v].frame
    <3>3. Shared(x) = {}
      BY <2>1, <2>3, <3>2, CountOne
    <3>4. x \notin {f, g}
      BY <1>3, <3>2
    <3>5. mem_map'[x] = 1 + Cardinality(Shared(x))
      BY <1>11, <3>2, <3>4
    <3>6. Cardinality(Shared(x)) = 0
      BY <3>3, FS_EmptySet
    <3>7. mem_map'[x] = 1
      BY <3>5, <3>6
    <3>8. QED
      BY <3>1, <3>2, <3>7
  <2>4. QED
    BY <2>2, <2>3
<1>18. TaskZeroIsFixed'
  <2>1. 0 \in Task
    BY TasksAssumption DEF Task
  <2>2. task'[0] = PageZero /\ dir'[0] = PageZero
    BY <1>2, <1>7, <2>1 DEF TaskZeroIsFixed
  <2>3. \A v \in Page : pte[0][v] = [frame |-> v, rw |-> TRUE] /\ v \notin Frame
    BY FramesAssumption DEF TaskZeroIsFixed
  <2>4. CASE p = 0
    BY <1>6, <2>2, <2>3, <2>4 DEF TaskZeroIsFixed
  <2>5. CASE p # 0
    BY <1>2, <1>6, <2>1, <2>2, <2>3, <2>5 DEF TaskZeroIsFixed
  <2>6. QED
    BY <2>4, <2>5
<1>19. EmptySlots'
  BY <1>2, <1>6, <1>7, <1>9 DEF EmptySlots
<1>20. OneUse'
  <2>1. ASSUME NEW t \in Task, NEW u \in Task, task'[t] \in Frame
        PROVE  /\ task'[u] = task'[t] => u = t
               /\ dir'[u] # task'[t]
               /\ \A v \in Page : pte'[u][v].frame # task'[t]
    <3>1. CASE t = c
      BY <1>3, <1>5, <1>6, <1>7, <3>1
    <3>2. CASE t # c
      BY <1>3, <1>5, <1>6, <1>7, <2>1, <3>2 DEF OneUse
    <3>3. QED
      BY <3>1, <3>2
  <2>2. ASSUME NEW t \in Task, NEW u \in Task, dir'[t] \in Frame
        PROVE  /\ dir'[u] = dir'[t] => u = t
               /\ \A v \in Page : pte'[u][v].frame # dir'[t]
    <3>1. CASE t = c
      BY <1>3, <1>5, <1>6, <1>7, <3>1
    <3>2. CASE t # c
      BY <1>3, <1>5, <1>6, <1>7, <2>2, <3>2 DEF OneUse
    <3>3. QED
      BY <3>1, <3>2
  <2>3. QED
    BY <2>1, <2>2 DEF OneUse
<1>21. OnePlace'
  <2>1. \A t \in Task, v \in Page : \E u \in Task : pte'[t][v].frame = pte[u][v].frame
    BY <1>6
  <2>2. ASSUME NEW t \in Task, NEW u \in Task, NEW v \in Page, NEW w \in Page,
               pte'[t][v].frame = pte'[u][w].frame, pte'[t][v].frame \in Frame
        PROVE  v = w
    <3>1. PICK x \in Task : pte'[t][v].frame = pte[x][v].frame
      BY <2>1
    <3>2. PICK y \in Task : pte'[u][w].frame = pte[y][w].frame
      BY <2>1
    <3>3. QED
      BY <2>2, <3>1, <3>2 DEF OnePlace
  <2>3. QED
    BY <2>2 DEF OnePlace
<1>22. QED
  BY <1>15, <1>16, <1>17, <1>18, <1>19, <1>20, <1>21
-----------------------------------------------------------------------------
(* Safety.                                                                 *)

\* Every step keeps the invariant.
LEMMA NextInv == Inv /\ [Next]_vars => Inv'
<1> SUFFICES ASSUME Inv, [Next]_vars PROVE Inv'
  OBVIOUS
<1>1. ASSUME NEW p \in Task, NEW c \in Task, Fork(p, c) PROVE Inv'
  BY <1>1, ForkInv
<1>2. ASSUME NEW p \in Task, NEW c \in Task, ForkFails(p, c) PROVE Inv'
  BY <1>2, ForkFailsInv
<1>3. ASSUME NEW t \in Task, NEW v \in Page, Read(t, v) PROVE Inv'
  BY <1>3, ReadInv
<1>4. ASSUME NEW t \in Task, NEW v \in Page, NEW d \in Data, Write(t, v, d) PROVE Inv'
  BY <1>4, WriteInv
<1>5. ASSUME NEW t \in Task, NEW v \in Page, Unprotect(t, v) PROVE Inv'
  BY <1>5, UnprotectInv
<1>6. ASSUME NEW t \in Task, NEW v \in Page, CopyPage(t, v) PROVE Inv'
  BY <1>6, CopyPageInv
<1>7. ASSUME NEW t \in Task, NEW v \in Page, OutOfMemory(t, v) PROVE Inv'
  BY <1>7, OutOfMemoryInv
<1>8. CASE UNCHANGED vars
  <2> USE <1>8 DEF vars, Inv
  <2>1. Types' /\ TlbIsCurrent'
    BY DEF Types, TlbIsCurrent
  <2>2. CountsAreReferences'
    BY DEF CountsAreReferences, TaskRefs, DirRefs, PageRefs
  <2>3. WritableIsPrivate' /\ TaskZeroIsFixed' /\ EmptySlots'
    BY DEF WritableIsPrivate, TaskZeroIsFixed, EmptySlots, Live
  <2>4. OneUse' /\ OnePlace'
    BY DEF OneUse, OnePlace
  <2>5. QED
    BY <2>1, <2>2, <2>3, <2>4
<1>9. QED
  BY <1>1, <1>2, <1>3, <1>4, <1>5, <1>6, <1>7, <1>8 DEF Next

\* The invariant holds in every reachable state.
THEOREM InvHolds == Spec => []Inv
  BY InitInv, NextInv, PTL DEF Spec

\* The count of a page is always the number of references to it.
THEOREM CountsCorrect == Spec => []CountsAreReferences
<1>1. Inv => CountsAreReferences
  BY DEF Inv
<1>2. QED
  BY <1>1, InvHolds, PTL

\* The TLB never disagrees with the page tables.
THEOREM TlbCorrect == Spec => []TlbIsCurrent
<1>1. Inv => TlbIsCurrent
  BY DEF Inv
<1>2. QED
  BY <1>1, InvHolds, PTL

\* A page that a forked task may write is always its own.
THEOREM PrivatePages == Spec => []WritableIsPrivate
<1>1. Inv => WritableIsPrivate
  BY DEF Inv
<1>2. QED
  BY <1>1, InvHolds, PTL

\* A page has at most one reference from each task, since tasks share it at
\* one place of their memory only.
LEMMA CountBound == Inv => \A f \in Frame : mem_map[f] <= NR_TASKS
<1> SUFFICES ASSUME Inv, NEW f \in Frame PROVE mem_map[f] <= NR_TASKS
  OBVIOUS
<1> USE DEF Inv
<1>1. /\ mem_map[f] = Cardinality(TaskRefs(f)) + Cardinality(DirRefs(f)) + Cardinality(PageRefs(f))
      /\ NR_TASKS \in Nat /\ NR_TASKS >= 1
  BY TasksAssumption DEF CountsAreReferences
<1>2. CASE TaskRefs(f) # {}
  <2>1. PICK t \in Task : task[t] = f
    BY <1>2 DEF TaskRefs
  <2>2. TaskRefs(f) = {t} /\ DirRefs(f) = {} /\ PageRefs(f) = {}
    BY <2>1 DEF OneUse, TaskRefs, DirRefs, PageRefs
  <2>3. /\ Cardinality(TaskRefs(f)) = 1 /\ Cardinality(DirRefs(f)) = 0
        /\ Cardinality(PageRefs(f)) = 0
    BY <2>2, FS_Singleton, FS_EmptySet
  <2>4. QED
    BY <1>1, <2>3
<1>3. CASE DirRefs(f) # {} /\ TaskRefs(f) = {}
  <2>1. PICK t \in Task : dir[t] = f
    BY <1>3 DEF DirRefs
  <2>2. DirRefs(f) = {t} /\ PageRefs(f) = {}
    BY <2>1 DEF OneUse, DirRefs, PageRefs
  <2>3. /\ Cardinality(TaskRefs(f)) = 0 /\ Cardinality(DirRefs(f)) = 1
        /\ Cardinality(PageRefs(f)) = 0
    BY <1>3, <2>2, FS_Singleton, FS_EmptySet
  <2>4. QED
    BY <1>1, <2>3
<1>4. CASE DirRefs(f) = {} /\ TaskRefs(f) = {} /\ PageRefs(f) = {}
  BY <1>1, <1>4, FS_EmptySet
<1>5. CASE DirRefs(f) = {} /\ TaskRefs(f) = {} /\ PageRefs(f) # {}
  <2>1. PICK t \in Task, v \in Page : pte[t][v].frame = f
    BY <1>5 DEF PageRefs
  <2>2. PageRefs(f) \in SUBSET (Task \X {v})
    BY <2>1 DEF OnePlace, PageRefs
  <2>3. IsFiniteSet({v}) /\ Cardinality({v}) = 1
    BY FS_Singleton
  <2>4. IsFiniteSet(Task \X {v}) /\ Cardinality(Task \X {v}) = NR_TASKS * 1
    BY <2>3, TaskFinite, FS_Product
  <2>5. Cardinality(PageRefs(f)) <= Cardinality(Task \X {v})
    BY <2>2, <2>4, FS_Subset
  <2>6. Cardinality(PageRefs(f)) <= NR_TASKS
    BY <1>1, <2>4, <2>5
  <2>7. QED
    BY <1>1, <1>5, <2>6, RefsFinite, FS_EmptySet
<1>6. QED
  BY <1>2, <1>3, <1>4, <1>5

\* Every variable has its type; the counts do not overflow their bytes.
THEOREM TypesCorrect == Spec => []TypeOK
<1>1. Inv => TypeOK
  <2> SUFFICES ASSUME Inv PROVE TypeOK
    OBVIOUS
  <2>1. mem_map \in [Frame -> 0 .. NR_TASKS]
    BY CountBound, TasksAssumption DEF Inv, Types
  <2>2. QED
    BY <2>1 DEF Inv, Types, TypeOK
<1>2. QED
  BY <1>1, InvHolds, PTL
-----------------------------------------------------------------------------
(* What the programs see.                                                  *)

\* A fork gives the child its parent's memory.  The two pages that are taken
\* and cleared are nobody's.
LEMMA ForkContents ==
  ASSUME Inv, NEW p \in Task, NEW c \in Task, Fork(p, c)
  PROVE  /\ p \in Live /\ c \notin Live /\ Live' = Live \cup {c}
         /\ ~wrecked /\ ~wrecked'
         /\ \A t \in Task \ {c}, v \in Page : Contents(t, v)' = Contents(t, v)
         /\ \A v \in Page : Contents(c, v)' = Contents(p, v)
<1> USE DEF Inv
<1>0. PICK f \in FreePages(mem_map) : \E g \in FreePages(Taken(mem_map, f)) :
        /\ task' = [task EXCEPT ![c] = f]
        /\ content' = [content EXCEPT ![f] = Zero, ![g] = Zero]
  BY DEF Fork
<1>1. PICK g \in FreePages(Taken(mem_map, f)) :
        /\ task' = [task EXCEPT ![c] = f]
        /\ content' = [content EXCEPT ![f] = Zero, ![g] = Zero]
  BY <1>0
<1>2. /\ ~wrecked /\ wrecked' = wrecked /\ pte' = CopiedTables(p, c)
      /\ p \in Live /\ c \notin Live /\ c # p
  BY DEF Fork, InUserMode, FirstFree, Live
<1>3. f \in Frame /\ g \in Frame /\ mem_map[f] = 0 /\ mem_map[g] = 0 /\ f # PageZero
  BY <1>1, PagesAssumption, FramesAssumption DEF FreePages, Taken, Types
<1>4. \A t \in Task, v \in Page : pte[t][v].frame \notin {f, g}
  BY <1>3, CountZero
<1>5. Live' = Live \cup {c}
  BY <1>1, <1>3 DEF Live, Types
<1>6. \A t \in Task, v \in Page : pte[t][v].frame \in Page \cup Frame
  BY DEF Types, Pte
<1>7. \A t \in Task, v \in Page : content'[pte[t][v].frame] = content[pte[t][v].frame]
  BY <1>1, <1>4, <1>6 DEF Types
<1>8. /\ \A t \in Task \ {c}, v \in Page : pte'[t][v].frame = pte[t][v].frame
      /\ \A v \in Page : pte'[c][v].frame = pte[p][v].frame
  BY <1>2, CopiedTablesFacts
<1>9. ASSUME NEW t \in Task \ {c}, NEW v \in Page
      PROVE  Contents(t, v)' = Contents(t, v)
  <2>1. t \in Live' <=> t \in Live
    BY <1>5
  <2>2. content'[pte'[t][v].frame] = content[pte[t][v].frame]
    BY <1>7, <1>8
  <2>3. QED
    BY <2>1, <2>2 DEF Contents
<1>10. ASSUME NEW v \in Page
       PROVE  Contents(c, v)' = Contents(p, v)
  <2>1. c \in Live' /\ p \in Live
    BY <1>2, <1>5
  <2>2. content'[pte'[c][v].frame] = content[pte[p][v].frame]
    BY <1>7, <1>8
  <2>3. QED
    BY <2>1, <2>2 DEF Contents
<1>11. QED
  BY <1>2, <1>5, <1>9, <1>10

\* A write changes the page of the task that wrote, and no other page of any
\* task: what the task may write is its own.
LEMMA WriteContents ==
  ASSUME Inv, NEW t \in Task, NEW v \in Page, NEW d \in Data, Write(t, v, d)
  PROVE  /\ t \in Live /\ Live' = Live /\ ~wrecked /\ wrecked' = wrecked
         /\ \A u \in Task, w \in Page :
              Contents(u, w)' = IF u = t /\ w = v THEN d ELSE Contents(u, w)
<1> USE DEF Inv
<1> DEFINE f == pte[t][v].frame
<1>1. /\ ~wrecked /\ pte[t][v].rw /\ content' = [content EXCEPT ![f] = d]
      /\ UNCHANGED <<mem_map, task, dir, pte, wrecked>>
      /\ t \in Live /\ (t = 0 => Live = {0})
  BY TranslationIsEntry DEF Write, InUserMode
<1>2. Live' = Live
  BY <1>1 DEF Live
<1>3. \A u \in Task, w \in Page : pte[u][w].frame \in Page \cup Frame
  BY DEF Types, Pte
<1>4. \A u \in Live, w \in Page : pte[u][w].frame = f => u = t /\ w = v
  <2>1. CASE t = 0
    <3>1. ASSUME NEW w \in Page PROVE pte[0][w].frame = w
      <4>1. pte[0][w] = [frame |-> w, rw |-> TRUE]
        BY DEF TaskZeroIsFixed
      <4>2. QED
        BY <4>1
    <3>2. QED
      BY <1>1, <2>1, <3>1
  <2>2. CASE t # 0
    <3>1. f \in Frame /\ mem_map[f] = 1
      BY <1>1, <2>2 DEF WritableIsPrivate
    <3>2. \A u \in Task, w \in Page : pte[u][w].frame = f => u = t /\ w = v
      BY <3>1, CountOne
    <3>3. Live \subseteq Task
      BY TasksAssumption DEF Live, Task
    <3>4. QED
      BY <3>2, <3>3
  <2>3. QED
    BY <2>1, <2>2
<1>5. ASSUME NEW u \in Task, NEW w \in Page
      PROVE  Contents(u, w)' = IF u = t /\ w = v THEN d ELSE Contents(u, w)
  <2>1. CASE u \notin Live
    BY <1>1, <1>2, <2>1 DEF Contents
  <2>2. CASE u \in Live /\ u = t /\ w = v
    BY <1>1, <1>2, <1>3, <2>2 DEF Contents, Types
  <2>3. CASE u \in Live /\ ~(u = t /\ w = v)
    <3>1. pte[u][w].frame # f
      BY <1>4, <2>3
    <3>2. content'[pte[u][w].frame] = content[pte[u][w].frame]
      BY <1>1, <1>3, <3>1 DEF Types
    <3>3. QED
      BY <1>1, <1>2, <2>3, <3>2 DEF Contents
  <2>4. QED
    BY <2>1, <2>2, <2>3
<1>6. QED
  BY <1>1, <1>2, <1>5

\* Copying a page moves the contents with the entry; the page copied to was
\* nobody's.
LEMMA CopyContents ==
  ASSUME Inv, NEW t \in Task, NEW v \in Page, CopyPage(t, v)
  PROVE  /\ Live' = Live /\ wrecked' = wrecked
         /\ \A u \in Task, w \in Page : Contents(u, w)' = Contents(u, w)
<1> USE DEF Inv
<1>1. PICK n \in FreePages(mem_map) : MoveTo(t, v, n)
  BY DEF CopyPage
<1>2. UNCHANGED <<task, dir, wrecked>>
  BY DEF CopyPage
<1>3. n \in Frame /\ \A u \in Task, w \in Page : pte[u][w].frame # n
  BY CountZero DEF FreePages
<1>4. /\ pte'[t][v].frame = n
      /\ \A u \in Task, w \in Page : <<u, w>> # <<t, v>> => pte'[u][w] = pte[u][w]
      /\ content' = [content EXCEPT ![n] = content[pte[t][v].frame]]
  BY <1>1 DEF MoveTo, Types
<1>5. \A u \in Task, w \in Page : pte[u][w].frame \in Page \cup Frame
  BY DEF Types, Pte
<1>6. Live' = Live
  BY <1>2 DEF Live
<1>7. ASSUME NEW u \in Task, NEW w \in Page
      PROVE  content'[pte'[u][w].frame] = content[pte[u][w].frame]
  <2>1. CASE <<u, w>> = <<t, v>>
    BY <1>3, <1>4, <2>1 DEF Types
  <2>2. CASE <<u, w>> # <<t, v>>
    BY <1>3, <1>4, <1>5, <2>2 DEF Types
  <2>3. QED
    BY <2>1, <2>2
<1>8. QED
  BY <1>2, <1>6, <1>7 DEF Contents

\* A fork that fails clears a page that is nobody's.
LEMMA ForkFailsContents ==
  ASSUME Inv, NEW p \in Task, NEW c \in Task, ForkFails(p, c)
  PROVE  /\ Live' = Live /\ wrecked' = wrecked
         /\ \A u \in Task, w \in Page : Contents(u, w)' = Contents(u, w)
<1> USE DEF Inv
<1>1. PICK f \in FreePages(mem_map) : content' = [content EXCEPT ![f] = Zero]
  BY DEF ForkFails
<1>2. UNCHANGED <<task, dir, pte, wrecked>>
  BY DEF ForkFails
<1>3. \A u \in Task, w \in Page : pte[u][w].frame # f
  BY CountZero DEF FreePages
<1>4. \A u \in Task, w \in Page : pte[u][w].frame \in Page \cup Frame
  BY DEF Types, Pte
<1>5. Live' = Live
  BY <1>2 DEF Live
<1>6. \A u \in Task, w \in Page : content'[pte[u][w].frame] = content[pte[u][w].frame]
  BY <1>1, <1>3, <1>4 DEF Types
<1>7. QED
  BY <1>2, <1>5, <1>6 DEF Contents

\* Making an entry writable moves no page.
LEMMA UnprotectContents ==
  ASSUME Inv, NEW t \in Task, NEW v \in Page, Unprotect(t, v)
  PROVE  /\ Live' = Live /\ wrecked' = wrecked
         /\ \A u \in Task, w \in Page : Contents(u, w)' = Contents(u, w)
<1> USE DEF Inv
<1>1. /\ pte' = [pte EXCEPT ![t][v].rw = TRUE]
      /\ UNCHANGED <<task, content, wrecked>>
  BY DEF Unprotect
<1>2. pte[t][v] \in Pte
  BY DEF Types
<1>3. \A u \in Task, w \in Page : pte'[u][w].frame = pte[u][w].frame
  BY <1>1, <1>2 DEF Types, Pte
<1>4. Live' = Live
  BY <1>1 DEF Live
<1>5. QED
  BY <1>1, <1>3, <1>4 DEF Contents

\* So a step is a fork, a write, the end of memory, or invisible.
LEMMA StepContents ==
  ASSUME Inv, [Next]_vars
  PROVE  \/ \E p, c \in Task : Fork(p, c)
         \/ \E t \in Task, v \in Page, d \in Data : Write(t, v, d)
         \/ wrecked'
         \/ /\ Live' = Live /\ wrecked' = wrecked
            /\ \A u \in Task, w \in Page : Contents(u, w)' = Contents(u, w)
<1>1. ASSUME UNCHANGED <<task, pte, content, wrecked>>
      PROVE  /\ Live' = Live /\ wrecked' = wrecked
             /\ \A u \in Task, w \in Page : Contents(u, w)' = Contents(u, w)
  BY <1>1 DEF Live, Contents
<1>2. CASE \E p, c \in Task : ForkFails(p, c)
  BY <1>2, ForkFailsContents
<1>3. CASE \E t \in Task, v \in Page : Read(t, v)
  BY <1>1, <1>3 DEF Read
<1>4. CASE \E t \in Task, v \in Page : Unprotect(t, v)
  BY <1>4, UnprotectContents
<1>5. CASE \E t \in Task, v \in Page : CopyPage(t, v)
  BY <1>5, CopyContents
<1>6. CASE \E t \in Task, v \in Page : OutOfMemory(t, v)
  BY <1>6 DEF OutOfMemory
<1>7. CASE UNCHANGED vars
  BY <1>1, <1>7 DEF vars
<1>8. QED
  BY <1>2, <1>3, <1>4, <1>5, <1>6, <1>7 DEF Next

\* Nothing but a task's own write changes its memory.
THEOREM OnlyWritesChange == Spec => OnlyWritesChangeMemory
<1>1. ASSUME Inv, [Next]_vars, NEW t \in Live, NEW v \in Page,
             ~wrecked', Contents(t, v)' # Contents(t, v)
      PROVE  \E d \in Data : Write(t, v, d)
  <2>0. t \in Task
    BY TasksAssumption DEF Live, Task
  <2>1. CASE \E p, c \in Task : Fork(p, c)
    <3>1. PICK p \in Task, c \in Task : Fork(p, c)
      BY <2>1
    <3>2. c # t
      BY <1>1, <3>1, ForkContents
    <3>3. Contents(t, v)' = Contents(t, v)
      BY <1>1, <2>0, <3>1, <3>2, ForkContents
    <3>4. QED
      BY <1>1, <3>3
  <2>2. CASE \E u \in Task, w \in Page, d \in Data : Write(u, w, d)
    <3>1. PICK u \in Task, w \in Page, d \in Data : Write(u, w, d)
      BY <2>2
    <3>2. Contents(t, v)' = IF t = u /\ v = w THEN d ELSE Contents(t, v)
      BY <1>1, <2>0, <3>1, WriteContents
    <3>3. t = u /\ v = w
      BY <1>1, <3>2
    <3>4. QED
      BY <3>1, <3>3
  <2>3. CASE \A u \in Task, w \in Page : Contents(u, w)' = Contents(u, w)
    BY <1>1, <2>0, <2>3
  <2>4. QED
    BY <1>1, <2>1, <2>2, <2>3, StepContents
<1>2. Inv /\ [Next]_vars =>
        [\A t \in Live, v \in Page :
           ~wrecked' /\ Contents(t, v)' # Contents(t, v) => \E d \in Data : Write(t, v, d)]_vars
  BY <1>1
<1>3. QED
  BY <1>2, InvHolds, PTL DEF Spec, OnlyWritesChangeMemory
-----------------------------------------------------------------------------
(* Refinement.                                                             *)

Mem == [t \in Task |-> [v \in Page |-> Contents(t, v)]]

\* Every cell of a memory holds data.
LEMMA MemType == Inv => Mem \in [Task -> [Page -> Data]]
<1> SUFFICES ASSUME Inv, NEW t \in Task, NEW v \in Page PROVE Contents(t, v) \in Data
  BY DEF Mem
<1>1. pte[t][v].frame \in Page \cup Frame
  BY DEF Inv, Types, Pte
<1>2. QED
  BY <1>1, DataAssumption DEF Contents, Inv, Types

\* The first state is one of AddressSpaces.
LEMMA InitRefines == Init => Spaces!Init
<1> SUFFICES ASSUME Init PROVE Spaces!Init
  OBVIOUS
<1>1. Live = {0} /\ wrecked = FALSE
  BY TasksAssumption DEF Init, Live, Task
<1>2. Mem \in [Task -> [Page -> Data]]
  BY InitInv, MemType
<1>3. \A t \in Task \ Live : Mem[t] = [v \in Page |-> Zero]
  BY DEF Mem, Contents
<1>4. QED
  BY <1>1, <1>2, <1>3 DEF Spaces!Init, Spaces!Task, Spaces!NoMemory, Mem, Task

\* Every step is a step of AddressSpaces, or invisible.
LEMMA NextRefines == Inv /\ [Next]_vars => [Spaces!Next]_(Spaces!vars)
<1> SUFFICES ASSUME Inv, [Next]_vars PROVE [Spaces!Next]_(Spaces!vars)
  OBVIOUS
<1>0. Mem \in [Task -> [Page -> Data]] /\ Mem' \in [Task -> [Page -> Data]]
  <2>1. (Inv => Mem \in [Task -> [Page -> Data]])'
    BY MemType, PTL
  <2>2. QED
    BY <2>1, MemType, NextInv
<1>1. \A t \in Task, v \in Page :
        Mem[t][v] = Contents(t, v) /\ Mem'[t][v] = Contents(t, v)'
  BY DEF Mem
<1>2. Live \subseteq Task
  BY TasksAssumption DEF Live, Task
<1>3. CASE \E p, c \in Task : Fork(p, c)
  <2>1. PICK p \in Task, c \in Task : Fork(p, c)
    BY <1>3
  <2>2. /\ p \in Live /\ c \notin Live /\ Live' = Live \cup {c}
        /\ ~wrecked /\ ~wrecked'
        /\ \A t \in Task \ {c}, v \in Page : Contents(t, v)' = Contents(t, v)
        /\ \A v \in Page : Contents(c, v)' = Contents(p, v)
    BY <2>1, ForkContents
  <2>3. \A t \in Task : Mem'[t] = IF t = c THEN Mem[p] ELSE Mem[t]
    BY <1>0, <1>1, <2>2
  <2>4. Mem' = [Mem EXCEPT ![c] = Mem[p]]
    BY <1>0, <2>3
  <2>5. Spaces!Fork(p, c)
    BY <2>2, <2>4 DEF Spaces!Fork, Mem
  <2>6. QED
    BY <2>2, <2>5 DEF Spaces!Next, Spaces!Task, Task
<1>4. CASE \E t \in Task, v \in Page, d \in Data : Write(t, v, d)
  <2>1. PICK t \in Task, v \in Page, d \in Data : Write(t, v, d)
    BY <1>4
  <2>2. /\ t \in Live /\ Live' = Live /\ ~wrecked /\ wrecked' = wrecked
        /\ \A u \in Task, w \in Page :
             Contents(u, w)' = IF u = t /\ w = v THEN d ELSE Contents(u, w)
    BY <2>1, WriteContents
  <2>3. \A u \in Task : Mem'[u] = IF u = t THEN [Mem[t] EXCEPT ![v] = d] ELSE Mem[u]
    BY <1>0, <1>1, <2>2
  <2>4. Mem' = [Mem EXCEPT ![t][v] = d]
    BY <1>0, <2>3
  <2>5. Spaces!Write(t, v, d)
    BY <2>2, <2>4 DEF Spaces!Write, Mem
  <2>6. QED
    BY <2>2, <2>5 DEF Spaces!Next, Spaces!Task, Task
<1>5. CASE wrecked'
  BY <1>5 DEF Spaces!Next
<1>6. CASE /\ Live' = Live /\ wrecked' = wrecked
           /\ \A u \in Task, w \in Page : Contents(u, w)' = Contents(u, w)
  <2>1. \A t \in Task : Mem'[t] = Mem[t]
    BY <1>0, <1>1, <1>6
  <2>2. Mem' = Mem
    BY <1>0, <2>1
  <2>3. QED
    BY <1>6, <2>2 DEF Spaces!vars, Mem
<1>7. QED
  BY <1>3, <1>4, <1>5, <1>6, StepContents

\* Sharing is invisible: memory management implements AddressSpaces.
THEOREM Refinement == Spec => ImplementsAddressSpaces
<1>1. QED
  BY InitRefines, NextRefines, InvHolds, PTL DEF Spec, ImplementsAddressSpaces, Spaces!Spec
=============================================================================
