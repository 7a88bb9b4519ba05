---------------------------- MODULE BufferProofs ----------------------------
(***************************************************************************)
(* Proofs about module BufferCache, for every finite set of processes, all *)
(* blocks and data, and every number of buffers: its safety properties,    *)
(* and that it implements BlockStore.                                      *)
(***************************************************************************)
EXTENDS BufferCache, FiniteSetTheorems, SequenceTheorems, TLAPS

\* There is a buffer, and each is in the list.
ListIsComplete ==
  /\ NR_BUFFERS \in Nat \ {0}
  /\ \A b \in Buffer : \E j \in Buffer : free_list[j] = b

\* Where a process is tells which of its local variables are in use.
Locals ==
  \A p \in Proc :
    /\ pc[p] # "idle" => block[p] \in Block
    /\ pc[p] \in {"sync", "syncadd"} => pass[p] >= 1

\* A process that has locked a buffer and waits for a request slot.
Pending(p) == pc[p] \in {"syncadd", "readadd"}
Own(p)     == IF pc[p] = "syncadd" THEN Index(p) ELSE bh[p]

\* Its buffer is locked, with no transfer yet, and is nobody else's.
LockIsOwned ==
  \A p \in Proc : Pending(p) =>
    /\ b_lock[Own(p)] /\ io[Own(p)] = "none"
    /\ pc[p] = "syncadd" => b_dirt[Own(p)]
    /\ pc[p] = "readadd" => ~b_uptodate[Own(p)]
    /\ \A q \in Proc : Pending(q) /\ Own(q) = Own(p) => q = p

\* Transfers and changes are of buffers that have a block; a buffer is not read
\* into while its contents are good.
TransfersAreLocked ==
  \A b \in Buffer :
    /\ io[b] # "none" => b_lock[b] /\ b_block[b] # NoBlock
    /\ b_dirt[b] => b_block[b] # NoBlock
    /\ io[b] = "read" => ~b_uptodate[b]

\* What is to be written is good, and what is neither changed nor about to be
\* written is on the disk, unless an I/O on the block has failed.
Good(b) ==
  /\ b_dirt[b] \/ io[b] \in {"write", "moved"} => b_uptodate[b]
  /\ b_uptodate[b] /\ ~b_dirt[b] /\ io[b] # "write" => b_data[b] = disk[b_block[b]]
UnchangedIsOnDisk ==
  \A b \in Buffer : b_block[b] \in Block \ failed => Good(b)

\* The inductive invariant.
Inv ==
  /\ TypeOK /\ ListIsComplete
  /\ OneBufferPerBlock /\ CountIsUsers /\ HolderHasItsBlock
  /\ Locals /\ LockIsOwned /\ TransfersAreLocked /\ UnchangedIsOnDisk

-----------------------------------------------------------------------------
(* Counting.                                                               *)

\* The buffer of which a process has a reference, or 0.
Refs == [p \in Proc |-> IF pc[p] \in Using THEN bh[p] ELSE 0]
UsersOf(M, b) == {q \in Proc : M[q] = b}

\* The users of a buffer are the processes with a reference to it.
LEMMA RefsAreUsers ==
  ASSUME NEW b \in Buffer
  PROVE  Users(b) = UsersOf(Refs, b)
<1>1. b # 0
  BY DEF Buffer
<1> QED
  BY <1>1 DEF Users, UsersOf, Refs

\* The number of users is finite, and is zero only if there are none.
LEMMA UsersFinite ==
  ASSUME NEW M, NEW b
  PROVE  /\ IsFiniteSet(UsersOf(M, b))
         /\ Cardinality(UsersOf(M, b)) \in Nat
         /\ Cardinality(UsersOf(M, b)) = 0 <=> UsersOf(M, b) = {}
<1>1. IsFiniteSet(UsersOf(M, b))
  BY SetsAssumption, FS_Subset DEF UsersOf
<1> QED
  BY <1>1, FS_CardinalityType, FS_EmptySet

\* Whether x is b, in numbers.
One(x, b) == IF x = b THEN 1 ELSE 0

\* A process that turns from M[p] to x.
LEMMA CountMoves ==
  ASSUME NEW M, DOMAIN M = Proc, M = [q \in Proc |-> M[q]], NEW p \in Proc, NEW x, NEW b
  PROVE  Cardinality(UsersOf([M EXCEPT ![p] = x], b)) =
           Cardinality(UsersOf(M, b)) - One(M[p], b) + One(x, b)
<1> DEFINE A == UsersOf(M, b)
           B == UsersOf([M EXCEPT ![p] = x], b)
<1>1. B = IF x = b THEN (A \ {p}) \cup {p} ELSE A \ {p}
  BY DEF UsersOf
<1>2. p \in A <=> M[p] = b
  BY DEF UsersOf
<1>3. IsFiniteSet(A) /\ Cardinality(A) \in Nat
  BY UsersFinite
<1> HIDE DEF A, B
<1>4. /\ IsFiniteSet(A \ {p})
      /\ Cardinality(A \ {p}) = IF p \in A THEN Cardinality(A) - 1 ELSE Cardinality(A)
  BY <1>3, FS_RemoveElement
<1>5. Cardinality((A \ {p}) \cup {p}) = Cardinality(A \ {p}) + 1
  BY <1>4, FS_AddElement
<1> QED
  BY <1>1, <1>2, <1>3, <1>4, <1>5 DEF A, B, One

-----------------------------------------------------------------------------
(* The list and the local variables.                                       *)

\* A function on 1 .. n is a sequence of length n.
LEMMA LengthOf ==
  ASSUME NEW n \in Nat \ {0}, NEW S, NEW f \in [1 .. n -> S]
  PROVE  Len(f) = n
<1>1. f \in Seq(S)
  BY SeqDef
<1>2. Len(f) \in Nat /\ DOMAIN f = 1 .. Len(f)
  BY <1>1, LenProperties
<1>3. DOMAIN f = 1 .. n
  OBVIOUS
<1>4. n \in 1 .. Len(f)
  BY <1>2, <1>3
<1>5. Len(f) \in 1 .. n
  BY <1>2, <1>3, <1>4
<1>6. \A x, y \in Nat : x \in 1 .. y /\ y \in 1 .. x => y = x
  OBVIOUS
<1>7. n \in Nat
  OBVIOUS
<1> QED
  BY <1>2, <1>4, <1>5, <1>6, <1>7, Zenon

\* What insert_into_queues() leaves behind is again a list of all buffers.
LEMMA MovedList ==
  ASSUME TypeOK, ListIsComplete, NEW b \in Buffer
  PROVE  /\ MovedToEnd(b) \in [Buffer -> Buffer]
         /\ Len(MovedToEnd(b)) = NR_BUFFERS
         /\ \A c \in Buffer : \E j \in Buffer : MovedToEnd(b)[j] = c
<1> DEFINE n == NR_BUFFERS
           k == CHOOSE j \in Buffer : free_list[j] = b
           new == [j \in Buffer |-> IF j = n THEN b ELSE free_list[IF j < k THEN j ELSE j + 1]]
<1>1. n \in Nat \ {0} /\ Buffer = 1 .. n
  BY DEF ListIsComplete, Buffer
<1>2. k \in Buffer /\ free_list[k] = b
  BY DEF ListIsComplete
<1>3. free_list \in [Buffer -> Buffer]
  BY DEF TypeOK
<1>4. MovedToEnd(b) = new
  BY DEF MovedToEnd
<1> HIDE DEF k, n
<1>5. new \in [Buffer -> Buffer]
  <2>1. \A j \in Buffer : j # n => (IF j < k THEN j ELSE j + 1) \in Buffer
    BY <1>1, <1>2
  <2>2. \A j \in Buffer : j # n => free_list[IF j < k THEN j ELSE j + 1] \in Buffer
    BY <2>1, <1>3
  <2> QED
    BY <2>2
<1>6. \A c \in Buffer : \E j \in Buffer : new[j] = c
  <2> SUFFICES ASSUME NEW c \in Buffer PROVE \E j \in Buffer : new[j] = c
    OBVIOUS
  <2>1. PICK j \in Buffer : free_list[j] = c
    BY DEF ListIsComplete
  <2>2. CASE c = b
    <3>1. n \in Buffer /\ new[n] = b
      BY <1>1
    <3> QED
      BY <2>2, <3>1
  <2>3. CASE c # b
    <3>1. j # k
      BY <2>1, <2>3, <1>2
    <3>2. CASE j < k
      <4>1. j # n /\ new[j] = free_list[j]
        BY <1>1, <1>2, <3>2
      <4> QED
        BY <4>1, <2>1
    <3>3. CASE ~(j < k)
      <4>1. j - 1 \in Buffer /\ j - 1 # n /\ ~(j - 1 < k) /\ (j - 1) + 1 = j
        BY <1>1, <1>2, <3>1, <3>3
      <4>2. new[j - 1] = free_list[j]
        BY <4>1
      <4> QED
        BY <4>1, <4>2, <2>1
    <3> QED
      BY <3>2, <3>3
  <2> QED
    BY <2>2, <2>3
<1> HIDE DEF new
<1>7. Len(new) = n
  BY <1>1, <1>5, LengthOf
<1> QED
  BY <1>4, <1>5, <1>6, <1>7 DEF n

Places == {"idle", "getblk", "hit", "nobuffer", "victim", "sync",
           "syncadd", "got", "readadd", "reading", "use"}

\* p goes to a place, with buffer s, block k, and sync_dev() at n.
Walk(p, place, s, k, n) ==
  /\ place \in Places /\ pc' = [pc EXCEPT ![p] = place]
  /\ s \in Buffer /\ bh' = [bh EXCEPT ![p] = s]
  /\ k \in Block \cup {NoBlock} /\ block' = [block EXCEPT ![p] = k]
  /\ n \in 0 .. 2 * NR_BUFFERS /\ pass' = [pass EXCEPT ![p] = n]

\* The local variables after it.
LEMMA LocalsOf ==
  ASSUME TypeOK, NEW p \in Proc, NEW place, NEW s, NEW k, NEW n, Walk(p, place, s, k, n),
         Buffer' = Buffer, NR_BUFFERS' = NR_BUFFERS
  PROVE  /\ pc'[p] = place /\ bh'[p] = s /\ block'[p] = k /\ pass'[p] = n
         /\ \A q \in Proc : q # p =>
              /\ pc'[q] = pc[q] /\ bh'[q] = bh[q] /\ block'[q] = block[q] /\ pass'[q] = pass[q]
              /\ Pending(q)' = Pending(q) /\ Own(q)' = Own(q)
         /\ pc' \in [Proc -> Places] /\ bh' \in [Proc -> Buffer']
         /\ block' \in [Proc -> Block \cup {NoBlock}]
         /\ pass' \in [Proc -> 0 .. 2 * NR_BUFFERS']
         /\ Refs' = [Refs EXCEPT ![p] = IF place \in Using THEN s ELSE 0]
<1>1. /\ pc'[p] = place /\ bh'[p] = s /\ block'[p] = k /\ pass'[p] = n
      /\ \A q \in Proc : q # p =>
              pc'[q] = pc[q] /\ bh'[q] = bh[q] /\ block'[q] = block[q] /\ pass'[q] = pass[q]
  BY DEF TypeOK, Walk
<1>2. /\ pc' \in [Proc -> Places] /\ bh' \in [Proc -> Buffer']
      /\ block' \in [Proc -> Block \cup {NoBlock}]
      /\ pass' \in [Proc -> 0 .. 2 * NR_BUFFERS']
  BY DEF TypeOK, Walk, Places
<1>3. \A q \in Proc : q # p => Pending(q)' = Pending(q) /\ Own(q)' = Own(q)
  BY <1>1 DEF Pending, Own, Index
<1>4. Refs' = [Refs EXCEPT ![p] = IF place \in Using THEN s ELSE 0]
  BY <1>1 DEF Refs
<1> QED
  BY <1>1, <1>2, <1>3, <1>4

-----------------------------------------------------------------------------
(* What a step of one process leaves to the others.                        *)

\* The references of the others, and what the step itself has to provide.
LEMMA HolderStep ==
  ASSUME Inv, NEW p \in Proc, NEW place, NEW s, NEW k, NEW n, Walk(p, place, s, k, n),
         Buffer' = Buffer, NR_BUFFERS' = NR_BUFFERS, failed \subseteq failed',
         \A q \in Proc : q # p /\ pc[q] \in Using =>
           /\ b_block'[bh[q]] = b_block[bh[q]]
           /\ b_uptodate[bh[q]] => b_uptodate'[bh[q]],
         place \in Using => b_block'[s] = k,
         place = "use" => b_uptodate'[s] \/ k \in failed',
         place # "idle" => k \in Block,
         place \in {"sync", "syncadd"} => n >= 1
  PROVE  HolderHasItsBlock' /\ Locals'
<1>1. /\ pc'[p] = place /\ bh'[p] = s /\ block'[p] = k /\ pass'[p] = n
      /\ \A q \in Proc : q # p =>
              pc'[q] = pc[q] /\ bh'[q] = bh[q] /\ block'[q] = block[q] /\ pass'[q] = pass[q]
  BY LocalsOf DEF Inv
<1>2. HolderHasItsBlock'
  BY <1>1 DEF Inv, HolderHasItsBlock, Using
<1>3. Locals'
  BY <1>1 DEF Inv, Locals
<1> QED
  BY <1>2, <1>3

\* The locks of the others, and what the step itself has to provide.
LEMMA OwnerStep ==
  ASSUME Inv, NEW p \in Proc, NEW place, NEW s, NEW k, NEW n, Walk(p, place, s, k, n),
         Buffer' = Buffer, NR_BUFFERS' = NR_BUFFERS,
         \A q \in Proc : q # p /\ Pending(q) =>
           /\ b_lock'[Own(q)] = b_lock[Own(q)] /\ io'[Own(q)] = io[Own(q)]
           /\ b_dirt'[Own(q)] = b_dirt[Own(q)] /\ b_uptodate'[Own(q)] = b_uptodate[Own(q)],
         place \in {"syncadd", "readadd"} =>
           /\ b_lock'[Own(p)'] /\ io'[Own(p)'] = "none"
           /\ place = "syncadd" => b_dirt'[Own(p)']
           /\ place = "readadd" => ~b_uptodate'[Own(p)']
           /\ \A q \in Proc : q # p /\ Pending(q) => Own(q) # Own(p)'
  PROVE  LockIsOwned'
<1>1. /\ pc'[p] = place
      /\ \A q \in Proc : q # p => /\ pc'[q] = pc[q]
                                  /\ Pending(q)' = Pending(q) /\ Own(q)' = Own(q)
  BY LocalsOf DEF Inv
<1>2. Pending(p)' <=> place \in {"syncadd", "readadd"}
  BY <1>1 DEF Pending
<1> SUFFICES ASSUME NEW r \in Proc, Pending(r)'
             PROVE  /\ b_lock'[Own(r)'] /\ io'[Own(r)'] = "none"
                    /\ pc'[r] = "syncadd" => b_dirt'[Own(r)']
                    /\ pc'[r] = "readadd" => ~b_uptodate'[Own(r)']
                    /\ \A q \in Proc : Pending(q)' /\ Own(q)' = Own(r)' => q = r
  BY DEF LockIsOwned
<1>3. CASE r = p
  BY <1>1, <1>2, <1>3
<1>4. CASE r # p
  <2>1. /\ b_lock[Own(r)] /\ io[Own(r)] = "none"
        /\ pc[r] = "syncadd" => b_dirt[Own(r)]
        /\ pc[r] = "readadd" => ~b_uptodate[Own(r)]
        /\ \A q \in Proc : Pending(q) /\ Own(q) = Own(r) => q = r
    BY <1>1, <1>4 DEF Inv, LockIsOwned
  <2>2. Pending(r) /\ Own(r)' = Own(r) /\ pc'[r] = pc[r]
    BY <1>1, <1>4
  <2>3. \A q \in Proc : Pending(q)' /\ Own(q)' = Own(r)' => q = r
    <3> SUFFICES ASSUME NEW q \in Proc, Pending(q)', Own(q)' = Own(r)' PROVE q = r
      OBVIOUS
    <3>1. CASE q = p
      BY <1>2, <1>4, <2>2, <3>1
    <3>2. CASE q # p
      BY <1>1, <2>1, <2>2, <3>2
    <3> QED
      BY <3>1, <3>2
  <2> QED
    BY <1>4, <2>1, <2>2, <2>3
<1> QED
  BY <1>3, <1>4

\* The counts, when p turns to another buffer, or none.
LEMMA CountStep ==
  ASSUME Inv, NEW p \in Proc, NEW x, Refs' = [Refs EXCEPT ![p] = x], Buffer' = Buffer,
         \A b \in Buffer : b_count'[b] = b_count[b] - One(Refs[p], b) + One(x, b)
  PROVE  CountIsUsers' /\ \A b \in Buffer : b_count'[b] \in Nat
<1> SUFFICES ASSUME NEW b \in Buffer
             PROVE  b_count'[b] = Cardinality(Users(b)') /\ b_count'[b] \in Nat
  BY DEF CountIsUsers
<1>1. Users(b) = UsersOf(Refs, b)
  BY RefsAreUsers
<1>2. Users(b)' = UsersOf(Refs', b)
  <2>1. b # 0
    BY DEF Buffer
  <2> QED
    BY <2>1 DEF Users, UsersOf, Refs
<1>3. b_count[b] = Cardinality(UsersOf(Refs, b))
  BY <1>1 DEF Inv, CountIsUsers
<1>4. DOMAIN Refs = Proc /\ Refs = [q \in Proc |-> Refs[q]]
  BY DEF Refs
<1> DEFINE R == [Refs EXCEPT ![p] = x]
<1>5. Cardinality(UsersOf(R, b)) = Cardinality(UsersOf(Refs, b)) - One(Refs[p], b) + One(x, b)
  <2> HIDE DEF R
  <2>1. R = [Refs EXCEPT ![p] = x]
    BY DEF R
  <2>2. Cardinality(UsersOf([Refs EXCEPT ![p] = x], b)) =
          Cardinality(UsersOf(Refs, b)) - One(Refs[p], b) + One(x, b)
    BY <1>4, CountMoves
  <2> QED
    BY <2>1, <2>2
<1> HIDE DEF R
<1>6. Refs' = R
  BY DEF R
<1>7. Cardinality(UsersOf(R, b)) \in Nat
  BY UsersFinite
<1> QED
  BY <1>2, <1>3, <1>5, <1>6, <1>7

\* A step that changes nothing but where p is, and what it looks at.
LEMMA ControlStep ==
  ASSUME Inv, NEW p \in Proc, NEW place, NEW s, NEW k, NEW n, Walk(p, place, s, k, n),
         UNCHANGED <<identity, flags, b_data, drive>>,
         buffer_wait' \in SUBSET Proc, running' \in Proc \cup {None},
         place \notin {"syncadd", "readadd"},
         place \in Using <=> pc[p] \in Using,
         place \in Using => s = bh[p] /\ k = block[p],
         place = "use" => b_uptodate[bh[p]] \/ k \in failed,
         place # "idle" => k \in Block,
         place = "sync" => n >= 1
  PROVE  Inv'
<1> USE DEF identity, flags, drive
<1>1. Buffer' = Buffer /\ NR_BUFFERS' = NR_BUFFERS
  BY DEF Buffer, NR_BUFFERS
<1>2. HolderHasItsBlock' /\ Locals'
  <2>1. place \in Using => b_block'[s] = k
    BY DEF Inv, HolderHasItsBlock
  <2>2. place = "use" => b_uptodate'[s] \/ k \in failed'
    BY DEF Using
  <2> QED
    BY <1>1, <2>1, <2>2, HolderStep
<1>3. LockIsOwned'
  BY <1>1, OwnerStep
<1>4. /\ pc' \in [Proc -> Places] /\ bh' \in [Proc -> Buffer']
      /\ block' \in [Proc -> Block \cup {NoBlock}]
      /\ pass' \in [Proc -> 0 .. 2 * NR_BUFFERS']
      /\ Refs' = [Refs EXCEPT ![p] = IF place \in Using THEN s ELSE 0]
  BY <1>1, LocalsOf DEF Inv
<1>5. TypeOK'
  BY <1>1, <1>4 DEF Inv, TypeOK, Places
<1>6. ListIsComplete' /\ OneBufferPerBlock'
  BY <1>1 DEF Inv, ListIsComplete, OneBufferPerBlock
<1>7. CountIsUsers'
  <2>1. Refs' = [Refs EXCEPT ![p] = Refs[p]]
    BY <1>4 DEF Refs
  <2>2. \A b \in Buffer : b_count'[b] = b_count[b] - One(Refs[p], b) + One(Refs[p], b)
    BY DEF Inv, TypeOK, One
  <2> QED
    BY <1>1, <2>1, <2>2, CountStep
<1>8. TransfersAreLocked' /\ UnchangedIsOnDisk'
  BY <1>1 DEF Inv, TransfersAreLocked, UnchangedIsOnDisk, Good
<1> QED
  BY <1>2, <1>3, <1>5, <1>6, <1>7, <1>8 DEF Inv

-----------------------------------------------------------------------------
(* The steps.                                                              *)

\* The steps of p that change nothing but where p is.
Quiet(p) ==
  \/ \E k \in Block : Bread(p, k)
  \/ HitChecked(p) \/ Choose(p) \/ NoBuffer(p) \/ Repeat(p) \/ Taken(p) \/ Dirty(p)
  \/ Appeared(p) \/ Skip(p) \/ Ready(p) \/ ReadDone(p)

\* Walk with the local variables that a step leaves alone.
LEMMA LocalTypes ==
  ASSUME Inv, NEW p \in Proc
  PROVE  /\ bh[p] \in Buffer /\ bh = [bh EXCEPT ![p] = bh[p]]
         /\ block[p] \in Block \cup {NoBlock} /\ block = [block EXCEPT ![p] = block[p]]
         /\ pass[p] \in 0 .. 2 * NR_BUFFERS /\ pass = [pass EXCEPT ![p] = pass[p]]
         /\ pc[p] \in Places /\ pc = [pc EXCEPT ![p] = pc[p]]
         /\ pc[p] # "idle" => block[p] \in Block
         /\ 1 \in Buffer /\ NR_BUFFERS \in Nat \ {0} /\ Buffer = 1 .. NR_BUFFERS
         /\ running \in Proc \cup {None} /\ buffer_wait \in SUBSET Proc
<1>1. /\ bh[p] \in Buffer /\ bh = [bh EXCEPT ![p] = bh[p]]
      /\ block[p] \in Block \cup {NoBlock} /\ block = [block EXCEPT ![p] = block[p]]
      /\ pass[p] \in 0 .. 2 * NR_BUFFERS /\ pass = [pass EXCEPT ![p] = pass[p]]
      /\ pc[p] \in Places /\ pc = [pc EXCEPT ![p] = pc[p]]
      /\ running \in Proc \cup {None} /\ buffer_wait \in SUBSET Proc
  BY DEF Inv, TypeOK, Places
<1>2. pc[p] # "idle" => block[p] \in Block
  BY DEF Inv, Locals
<1>3. 1 \in Buffer /\ NR_BUFFERS \in Nat \ {0} /\ Buffer = 1 .. NR_BUFFERS
  BY DEF Inv, ListIsComplete, Buffer
<1> QED
  BY <1>1, <1>2, <1>3

LEMMA QuietInv ==
  ASSUME Inv, NEW p \in Proc, Quiet(p)
  PROVE  Inv'
<1> USE DEF local
<1> DEFINE Post(place, s, k, n) ==
             /\ Walk(p, place, s, k, n)
             /\ UNCHANGED <<identity, flags, b_data, drive>>
             /\ buffer_wait' \in SUBSET Proc /\ running' \in Proc \cup {None}
             /\ place \notin {"syncadd", "readadd"}
             /\ place \in Using <=> pc[p] \in Using
             /\ place \in Using => s = bh[p] /\ k = block[p]
             /\ place = "use" => b_uptodate[bh[p]] \/ k \in failed
             /\ place # "idle" => k \in Block
             /\ place = "sync" => n >= 1
<1>1. ASSUME NEW place, NEW s, NEW k, NEW n, Post(place, s, k, n) PROVE Inv'
  BY <1>1, ControlStep
<1>2. ASSUME NEW k \in Block, Bread(p, k) PROVE Inv'
  <2>1. Post("getblk", bh[p], k, pass[p])
    BY <1>2, LocalTypes DEF Bread, Goto, Walk, Places, Using
  <2> QED
    BY <2>1, <1>1
<1>3. ASSUME HitChecked(p) PROVE Inv'
  <2>1. b_block[bh[p]] = block[p]
    BY <1>3 DEF HitChecked, Waited, Inv, HolderHasItsBlock, Using
  <2>2. Post("got", bh[p], block[p], pass[p])
    BY <1>3, <2>1, LocalTypes DEF HitChecked, Waited, Goto, Walk, Places, Using, identity
  <2> QED
    BY <2>2, <1>1
<1>4. ASSUME Choose(p) PROVE Inv'
  <2>1. PICK b \in Buffer : bh' = [bh EXCEPT ![p] = b]
    BY <1>4 DEF Choose
  <2>2. Post("victim", b, block[p], pass[p])
    BY <1>4, <2>1, LocalTypes DEF Choose, At, Goto, Walk, Places, Using
  <2> QED
    BY <2>2, <1>1
<1>5. ASSUME NoBuffer(p) PROVE Inv'
  <2>1. Post("nobuffer", bh[p], block[p], pass[p])
    BY <1>5, LocalTypes DEF NoBuffer, At, LeaveTo, Goto, Walk, Places, Using
  <2> QED
    BY <2>1, <1>1
<1>6. ASSUME Repeat(p) PROVE Inv'
  <2>1. Post("getblk", bh[p], block[p], pass[p])
    BY <1>6, LocalTypes DEF Repeat, Goto, Walk, Places, Using
  <2> QED
    BY <2>1, <1>1
<1>7. ASSUME Taken(p) \/ Appeared(p) PROVE Inv'
  <2>1. Post("getblk", 1, block[p], pass[p])
    BY <1>7, LocalTypes DEF Taken, Appeared, Waited, Again, Goto, Walk, Places, Using
  <2> QED
    BY <2>1, <1>1
<1>8. ASSUME Dirty(p) PROVE Inv'
  <2>1. Post("sync", bh[p], block[p], 1)
    BY <1>8, LocalTypes DEF Dirty, Waited, Goto, Walk, Places, Using
  <2> QED
    BY <2>1, <1>1
<1>9. ASSUME Skip(p) PROVE Inv'
  <2>1. /\ pc[p] = "sync" /\ NextBuffer(p) /\ running' \in Proc \cup {None}
        /\ UNCHANGED <<identity, flags, b_data, buffer_wait, drive, block, bh>>
    BY <1>9, LocalTypes DEF Skip, At, Waited
  <2>2. CASE pass[p] < 2 * NR_BUFFERS
    <3>1. pass' = [pass EXCEPT ![p] = pass[p] + 1] /\ Goto(p, "sync")
      BY <2>1, <2>2 DEF NextBuffer
    <3>2. pass[p] + 1 \in 0 .. 2 * NR_BUFFERS /\ pass[p] + 1 >= 1
      BY <2>2, LocalTypes
    <3>3. Post("sync", bh[p], block[p], pass[p] + 1)
      BY <2>1, <3>1, <3>2, LocalTypes DEF Goto, Walk, Places, Using
    <3> QED
      BY <3>3, <1>1
  <2>3. CASE ~(pass[p] < 2 * NR_BUFFERS)
    <3>1. pass' = [pass EXCEPT ![p] = 0] /\ Goto(p, "victim")
      BY <2>1, <2>3 DEF NextBuffer
    <3>2. 0 \in 0 .. 2 * NR_BUFFERS
      BY LocalTypes
    <3>3. Post("victim", bh[p], block[p], 0)
      BY <2>1, <3>1, <3>2, LocalTypes DEF Goto, Walk, Places, Using
    <3> QED
      BY <3>3, <1>1
  <2> QED
    BY <2>2, <2>3
<1>10. ASSUME Ready(p) \/ ReadDone(p) PROVE Inv'
  <2>1. Post("use", bh[p], block[p], pass[p])
    BY <1>10, LocalTypes DEF Ready, ReadDone, LeaveTo, Goto, Walk, Places, Using
  <2> QED
    BY <2>1, <1>1
<1> QED
  BY <1>2, <1>3, <1>4, <1>5, <1>6, <1>7, <1>8, <1>9, <1>10 DEF Quiet

\* Going to sleep in the middle.
LEMMA SleepInv ==
  ASSUME Inv, NEW p \in Proc, Sleep(p)
  PROVE  Inv'
<1> USE DEF identity, flags, drive, local
<1>1. UNCHANGED <<identity, flags, b_data, buffer_wait, drive, pc, local>> /\ running' = None
  BY DEF Sleep
<1>2. Buffer' = Buffer /\ NR_BUFFERS' = NR_BUFFERS
  BY <1>1 DEF Buffer, NR_BUFFERS
<1>3. TypeOK' /\ ListIsComplete' /\ OneBufferPerBlock'
  BY <1>1, <1>2 DEF Inv, TypeOK, ListIsComplete, OneBufferPerBlock
<1>4. CountIsUsers' /\ HolderHasItsBlock' /\ Locals'
  BY <1>1, <1>2 DEF Inv, CountIsUsers, Users, HolderHasItsBlock, Locals
<1>5. LockIsOwned'
  BY <1>1, <1>2 DEF Inv, LockIsOwned, Pending, Own, Index
<1>6. TransfersAreLocked' /\ UnchangedIsOnDisk'
  BY <1>1, <1>2 DEF Inv, TransfersAreLocked, UnchangedIsOnDisk, Good
<1> QED
  BY <1>3, <1>4, <1>5, <1>6 DEF Inv

\* get_hash_table() takes a reference.
LEMMA HitInv ==
  ASSUME Inv, NEW p \in Proc, Hit(p)
  PROVE  Inv'
<1> USE DEF flags, drive
<1>1. PICK b \in Cached(block[p]) : /\ bh' = [bh EXCEPT ![p] = b]
                                    /\ b_count' = [b_count EXCEPT ![b] = @ + 1]
  BY DEF Hit
<1>2. b \in Buffer /\ b_block[b] = block[p]
  BY <1>1 DEF Cached
<1>3. /\ pc[p] = "getblk" /\ pc' = [pc EXCEPT ![p] = "hit"]
      /\ UNCHANGED <<b_block, free_list, flags, b_data, buffer_wait, drive, running, block, pass>>
  BY DEF Hit, At, Goto
<1>4. Buffer' = Buffer /\ NR_BUFFERS' = NR_BUFFERS
  BY <1>3 DEF Buffer, NR_BUFFERS
<1>5. Walk(p, "hit", b, block[p], pass[p])
  BY <1>1, <1>2, <1>3, LocalTypes DEF Walk, Places
<1>6. HolderHasItsBlock' /\ Locals'
  <2>1. block[p] \in Block
    BY <1>3, LocalTypes
  <2> QED
    BY <1>2, <1>3, <1>4, <1>5, <2>1, HolderStep
<1>7. LockIsOwned'
  BY <1>3, <1>4, <1>5, OwnerStep
<1>8. /\ pc' \in [Proc -> Places] /\ bh' \in [Proc -> Buffer']
      /\ block' \in [Proc -> Block \cup {NoBlock}]
      /\ pass' \in [Proc -> 0 .. 2 * NR_BUFFERS']
      /\ Refs' = [Refs EXCEPT ![p] = b]
  BY <1>4, <1>5, LocalsOf DEF Inv, Using
<1>9. CountIsUsers' /\ \A c \in Buffer : b_count'[c] \in Nat
  <2>1. \A c \in Buffer : Refs[p] # c
    BY <1>3 DEF Refs, Using, Buffer
  <2>2. \A c \in Buffer : b_count'[c] = b_count[c] - One(Refs[p], c) + One(b, c)
    BY <1>1, <2>1 DEF Inv, TypeOK, One
  <2> QED
    BY <1>4, <1>8, <2>2, CountStep
<1>10. TypeOK'
  <2>1. b_count' \in [Buffer -> Nat]
    BY <1>1, <1>9 DEF Inv, TypeOK
  <2> QED
    BY <1>3, <1>4, <1>8, <2>1 DEF Inv, TypeOK, Places
<1>11. ListIsComplete' /\ OneBufferPerBlock'
  BY <1>3, <1>4 DEF Inv, ListIsComplete, OneBufferPerBlock
<1>12. TransfersAreLocked' /\ UnchangedIsOnDisk'
  BY <1>3, <1>4 DEF Inv, TransfersAreLocked, UnchangedIsOnDisk, Good
<1> QED
  BY <1>6, <1>7, <1>9, <1>10, <1>11, <1>12 DEF Inv

\* The buffer of a pending process is one, and nobody holds it for himself alone.
LEMMA OwnIsBuffer ==
  ASSUME Inv, NEW q \in Proc
  PROVE  Own(q) \in Buffer /\ Index(q) \in Buffer
<1>1. NR_BUFFERS \in Nat \ {0} /\ Buffer = 1 .. NR_BUFFERS /\ pass[q] \in Int
  BY LocalTypes
<1>2. \A x \in Int : (x - 1) % NR_BUFFERS \in 0 .. NR_BUFFERS - 1
  BY <1>1
<1>3. Index(q) \in Buffer
  BY <1>1, <1>2 DEF Index
<1> QED
  BY <1>3, LocalTypes DEF Own

\* p locks buffer b in ll_rw_block().
LEMMA LockStep ==
  ASSUME Inv, NEW p \in Proc, NEW b \in Buffer, ~b_lock[b],
         NEW place \in {"syncadd", "readadd"}, Walk(p, place, bh[p], block[p], pass[p]),
         b = Own(p)',
         b_lock' = [b_lock EXCEPT ![b] = TRUE],
         UNCHANGED <<identity, b_dirt, b_uptodate, b_data, buffer_wait, drive>>,
         running' \in Proc \cup {None},
         place \in Using <=> pc[p] \in Using, pc[p] # "idle",
         place = "syncadd" => b_dirt[b] /\ pass[p] >= 1,
         place = "readadd" => ~b_uptodate[b]
  PROVE  Inv'
<1> USE DEF identity, drive
<1>1. Buffer' = Buffer /\ NR_BUFFERS' = NR_BUFFERS
  BY DEF Buffer, NR_BUFFERS
<1>2. HolderHasItsBlock' /\ Locals'
  <2>1. place \in Using => b_block'[bh[p]] = block[p]
    BY DEF Inv, HolderHasItsBlock
  <2>2. place # "use" /\ block[p] \in Block /\ (place \in {"sync", "syncadd"} => pass[p] >= 1)
    BY LocalTypes
  <2> QED
    BY <1>1, <2>1, <2>2, HolderStep
<1>3. \A q \in Proc : Pending(q) => Own(q) # b
  BY DEF Inv, LockIsOwned
<1>4. io[b] = "none"
  BY DEF Inv, TransfersAreLocked
<1>5. b_lock' \in [Buffer -> BOOLEAN] /\ b_lock'[b]
      /\ \A c \in Buffer : c # b => b_lock'[c] = b_lock[c]
  BY DEF Inv, TypeOK
<1>6. LockIsOwned'
  <2>1. \A q \in Proc : q # p /\ Pending(q) => b_lock'[Own(q)] = b_lock[Own(q)]
    BY <1>3, <1>5, OwnIsBuffer
  <2> QED
    BY <1>1, <1>3, <1>4, <1>5, <2>1, OwnerStep
<1>7. /\ pc' \in [Proc -> Places] /\ bh' \in [Proc -> Buffer']
      /\ block' \in [Proc -> Block \cup {NoBlock}]
      /\ pass' \in [Proc -> 0 .. 2 * NR_BUFFERS']
      /\ Refs' = [Refs EXCEPT ![p] = IF place \in Using THEN bh[p] ELSE 0]
  BY <1>1, LocalsOf DEF Inv
<1>8. TypeOK'
  BY <1>1, <1>5, <1>7 DEF Inv, TypeOK, Places
<1>9. ListIsComplete' /\ OneBufferPerBlock'
  BY <1>1 DEF Inv, ListIsComplete, OneBufferPerBlock
<1>10. CountIsUsers'
  <2>1. Refs' = [Refs EXCEPT ![p] = Refs[p]]
    BY <1>7 DEF Refs
  <2>2. \A c \in Buffer : b_count'[c] = b_count[c] - One(Refs[p], c) + One(Refs[p], c)
    BY DEF Inv, TypeOK, One
  <2> QED
    BY <1>1, <2>1, <2>2, CountStep
<1>11. TransfersAreLocked' /\ UnchangedIsOnDisk'
  BY <1>1, <1>4, <1>5 DEF Inv, TransfersAreLocked, UnchangedIsOnDisk, Good
<1> QED
  BY <1>2, <1>6, <1>8, <1>9, <1>10, <1>11 DEF Inv

LEMMA LockInv ==
  ASSUME Inv, NEW p \in Proc, SyncLock(p) \/ ReadLock(p)
  PROVE  Inv'
<1> USE DEF local
<1>1. NR_BUFFERS' = NR_BUFFERS
  BY DEF SyncLock, ReadLock, NR_BUFFERS, identity
<1>2. CASE SyncLock(p)
  <2> DEFINE b == Index(p)
  <2>1. /\ pc[p] = "sync" /\ ~b_lock[b] /\ b_dirt[b] /\ running' = p
        /\ b_lock' = [b_lock EXCEPT ![b] = TRUE] /\ pc' = [pc EXCEPT ![p] = "syncadd"]
        /\ UNCHANGED <<identity, b_dirt, b_uptodate, b_data, buffer_wait, drive, local>>
    BY <1>2 DEF SyncLock, Waited, Goto
  <2>2. Walk(p, "syncadd", bh[p], block[p], pass[p])
    BY <2>1, LocalTypes DEF Walk, Places
  <2>3. pass[p] >= 1
    BY <2>1 DEF Inv, Locals
  <2>4. b \in Buffer
    BY OwnIsBuffer
  <2>5. b = Own(p)'
    <3>1. pc'[p] = "syncadd"
      BY <2>1, LocalTypes DEF Inv, TypeOK
    <3> QED
      BY <1>1, <2>1, <3>1 DEF Own, Index
  <2> HIDE DEF b
  <2> QED
    BY <2>1, <2>2, <2>3, <2>4, <2>5, LockStep DEF Using
<1>3. CASE ReadLock(p)
  <2> DEFINE b == bh[p]
  <2>1. /\ pc[p] = "got" /\ ~b_lock[b] /\ ~b_uptodate[b] /\ running' = p
        /\ b_lock' = [b_lock EXCEPT ![b] = TRUE] /\ pc' = [pc EXCEPT ![p] = "readadd"]
        /\ UNCHANGED <<identity, b_dirt, b_uptodate, b_data, buffer_wait, drive, local>>
    BY <1>3 DEF ReadLock, Waited, Goto
  <2>2. Walk(p, "readadd", bh[p], block[p], pass[p])
    BY <2>1, LocalTypes DEF Walk, Places
  <2>3. b \in Buffer
    BY LocalTypes
  <2>4. b = Own(p)'
    <3>1. pc'[p] = "readadd"
      BY <2>1, LocalTypes DEF Inv, TypeOK
    <3> QED
      BY <2>1, <3>1 DEF Own
  <2> HIDE DEF b
  <2> QED
    BY <2>1, <2>2, <2>3, <2>4, LockStep DEF Using
<1> QED
  BY <1>2, <1>3

\* add_request(): the transfer of the buffer that p has locked.
LEMMA AddStep ==
  ASSUME Inv, NEW p \in Proc, Pending(p), NEW b, b = Own(p),
         NEW kind, kind = IF pc[p] = "syncadd" THEN "write" ELSE "read",
         NEW place, NEW n, Walk(p, place, bh[p], block[p], n),
         b_dirt' = [b_dirt EXCEPT ![b] = FALSE], io' = [io EXCEPT ![b] = kind],
         UNCHANGED <<identity, b_lock, b_uptodate, b_data, buffer_wait, disk, failed>>,
         running' \in Proc \cup {None},
         place \notin {"idle", "syncadd", "readadd", "use"},
         place \in Using <=> pc[p] \in Using,
         place = "sync" => n >= 1
  PROVE  Inv'
<1> USE DEF identity
<1>1. Buffer' = Buffer /\ NR_BUFFERS' = NR_BUFFERS
  BY DEF Buffer, NR_BUFFERS
<1>2. HolderHasItsBlock' /\ Locals'
  <2>1. place \in Using => b_block'[bh[p]] = block[p]
    BY DEF Inv, HolderHasItsBlock
  <2>2. block[p] \in Block
    BY LocalTypes DEF Pending
  <2> QED
    BY <1>1, <2>1, <2>2, HolderStep
<1>3. b \in Buffer
  BY OwnIsBuffer
<1>4. /\ b_lock[b] /\ \A q \in Proc : Pending(q) /\ Own(q) = b => q = p
      /\ pc[p] = "syncadd" => b_dirt[b]
      /\ pc[p] # "syncadd" => ~b_uptodate[b]
  BY DEF Inv, LockIsOwned, Pending
<1>5. b_block[b] # NoBlock
  <2>1. CASE pc[p] = "syncadd"
    BY <1>3, <1>4, <2>1 DEF Inv, TransfersAreLocked
  <2>2. CASE pc[p] # "syncadd"
    <3>1. pc[p] = "readadd" /\ b = bh[p]
      BY <2>2 DEF Pending, Own
    <3>2. b_block[b] = block[p] /\ block[p] \in Block
      BY <3>1, LocalTypes DEF Inv, HolderHasItsBlock, Using
    <3> QED
      BY <3>2, NullAssumption
  <2> QED
    BY <2>1, <2>2
<1>6. /\ b_dirt' \in [Buffer -> BOOLEAN] /\ ~b_dirt'[b]
      /\ io' \in [Buffer -> {"none", "read", "write", "moved"}] /\ io'[b] = kind
      /\ \A c \in Buffer : c # b => b_dirt'[c] = b_dirt[c] /\ io'[c] = io[c]
  BY <1>3 DEF Inv, TypeOK
<1>7. LockIsOwned'
  <2>1. \A q \in Proc : q # p /\ Pending(q) => Own(q) # b /\ Own(q) \in Buffer
    BY <1>4, OwnIsBuffer
  <2>2. \A q \in Proc : q # p /\ Pending(q) =>
           /\ b_lock'[Own(q)] = b_lock[Own(q)] /\ io'[Own(q)] = io[Own(q)]
           /\ b_dirt'[Own(q)] = b_dirt[Own(q)] /\ b_uptodate'[Own(q)] = b_uptodate[Own(q)]
    BY <1>6, <2>1
  <2> QED
    BY <1>1, <2>2, OwnerStep
<1>8. /\ pc' \in [Proc -> Places] /\ bh' \in [Proc -> Buffer']
      /\ block' \in [Proc -> Block \cup {NoBlock}]
      /\ pass' \in [Proc -> 0 .. 2 * NR_BUFFERS']
      /\ Refs' = [Refs EXCEPT ![p] = IF place \in Using THEN bh[p] ELSE 0]
  BY <1>1, LocalsOf DEF Inv
<1>9. TypeOK'
  BY <1>1, <1>6, <1>8 DEF Inv, TypeOK, Places
<1>10. ListIsComplete' /\ OneBufferPerBlock'
  BY <1>1 DEF Inv, ListIsComplete, OneBufferPerBlock
<1>11. CountIsUsers'
  <2>1. Refs' = [Refs EXCEPT ![p] = Refs[p]]
    BY <1>8 DEF Refs
  <2>2. \A c \in Buffer : b_count'[c] = b_count[c] - One(Refs[p], c) + One(Refs[p], c)
    BY DEF Inv, TypeOK, One
  <2> QED
    BY <1>1, <2>1, <2>2, CountStep
<1>12. TransfersAreLocked'
  BY <1>1, <1>4, <1>5, <1>6 DEF Inv, TransfersAreLocked
<1>13. UnchangedIsOnDisk'
  <2> SUFFICES ASSUME NEW c \in Buffer, b_block[c] \in Block \ failed PROVE Good(c)'
    BY <1>1 DEF UnchangedIsOnDisk
  <2>1. Good(c)
    BY DEF Inv, UnchangedIsOnDisk
  <2>2. CASE c = b
    BY <1>4, <1>6, <2>1, <2>2 DEF Good
  <2>3. CASE c # b
    BY <1>6, <2>1, <2>3 DEF Good
  <2> QED
    BY <2>2, <2>3
<1> QED
  BY <1>2, <1>7, <1>9, <1>10, <1>11, <1>12, <1>13 DEF Inv

LEMMA AddInv ==
  ASSUME Inv, NEW p \in Proc, SyncAdd(p) \/ ReadAdd(p)
  PROVE  Inv'
<1>1. CASE SyncAdd(p)
  <2> DEFINE b == Index(p)
  <2>1. /\ pc[p] = "syncadd" /\ running' = p /\ NextBuffer(p)
        /\ b_dirt' = [b_dirt EXCEPT ![b] = FALSE] /\ io' = [io EXCEPT ![b] = "write"]
        /\ UNCHANGED <<identity, b_lock, b_uptodate, b_data, buffer_wait, disk, failed,
                       block, bh>>
    BY <1>1 DEF SyncAdd
  <2>2. Pending(p) /\ b = Own(p)
    BY <2>1 DEF Pending, Own
  <2> HIDE DEF b
  <2>3. CASE pass[p] < 2 * NR_BUFFERS
    <3>1. pass' = [pass EXCEPT ![p] = pass[p] + 1] /\ Goto(p, "sync")
      BY <2>1, <2>3 DEF NextBuffer
    <3>2. pass[p] + 1 \in 0 .. 2 * NR_BUFFERS /\ pass[p] + 1 >= 1
      BY <2>3, LocalTypes
    <3>3. Walk(p, "sync", bh[p], block[p], pass[p] + 1)
      BY <2>1, <3>1, <3>2, LocalTypes DEF Goto, Walk, Places
    <3> QED
      BY <2>1, <2>2, <3>2, <3>3, AddStep DEF Using
  <2>4. CASE ~(pass[p] < 2 * NR_BUFFERS)
    <3>1. pass' = [pass EXCEPT ![p] = 0] /\ Goto(p, "victim")
      BY <2>1, <2>4 DEF NextBuffer
    <3>2. Walk(p, "victim", bh[p], block[p], 0)
      BY <2>1, <3>1, LocalTypes DEF Goto, Walk, Places
    <3>3. "victim" \notin Using /\ pc[p] \notin Using /\ running' \in Proc \cup {None}
      BY <2>1 DEF Using
    <3>4. "write" = IF pc[p] = "syncadd" THEN "write" ELSE "read"
      BY <2>1
    <3> QED
      BY <2>1, <2>2, <3>2, <3>3, <3>4, AddStep
  <2> QED
    BY <2>3, <2>4
<1>2. CASE ReadAdd(p)
  <2> DEFINE b == bh[p]
  <2>1. /\ pc[p] = "readadd" /\ running' = p /\ pc' = [pc EXCEPT ![p] = "reading"]
        /\ b_dirt' = [b_dirt EXCEPT ![b] = FALSE] /\ io' = [io EXCEPT ![b] = "read"]
        /\ UNCHANGED <<identity, b_lock, b_uptodate, b_data, buffer_wait, disk, failed, local>>
    BY <1>2 DEF ReadAdd, Goto
  <2>2. Pending(p) /\ b = Own(p)
    BY <2>1 DEF Pending, Own
  <2>3. Walk(p, "reading", bh[p], block[p], pass[p])
    BY <2>1, LocalTypes DEF Walk, Places, local
  <2>4. "reading" \in Using /\ pc[p] \in Using /\ running' \in Proc \cup {None}
    BY <2>1 DEF Using
  <2>5. "read" = IF pc[p] = "syncadd" THEN "write" ELSE "read"
    BY <2>1
  <2> HIDE DEF b
  <2> QED
    BY <2>1, <2>2, <2>3, <2>4, <2>5, AddStep
<1> QED
  BY <1>1, <1>2

\* getblk() takes a buffer that nobody uses for another block.
LEMMA ReuseInv ==
  ASSUME Inv, NEW p \in Proc, Reuse(p)
  PROVE  Inv'
<1> USE DEF drive
<1> DEFINE b == bh[p]
<1>1. /\ pc[p] = "victim" /\ ~b_lock[b] /\ b_count[b] = 0 /\ ~b_dirt[b]
      /\ Cached(block[p]) = {} /\ running' = p
      /\ b_count' = [b_count EXCEPT ![b] = 1]
      /\ b_uptodate' = [b_uptodate EXCEPT ![b] = FALSE]
      /\ b_block' = [b_block EXCEPT ![b] = block[p]]
      /\ free_list' = MovedToEnd(b) /\ pc' = [pc EXCEPT ![p] = "got"]
      /\ UNCHANGED <<b_lock, b_dirt, b_data, buffer_wait, drive, local>>
  BY DEF Reuse, Waited, Goto
<1>2. b \in Buffer /\ block[p] \in Block
  BY <1>1, LocalTypes
<1>3. Walk(p, "got", b, block[p], pass[p])
  BY <1>1, LocalTypes DEF Walk, Places, local
<1> HIDE DEF b
<1>4. /\ free_list' \in [Buffer -> Buffer] /\ NR_BUFFERS' = NR_BUFFERS
      /\ \A c \in Buffer : \E j \in Buffer : free_list'[j] = c
  BY <1>1, <1>2, MovedList DEF Inv, NR_BUFFERS
<1>5. Buffer' = Buffer
  BY <1>4 DEF Buffer
<1>6. /\ b_block' \in [Buffer -> Block \cup {NoBlock}] /\ b_block'[b] = block[p]
      /\ \A c \in Buffer : c # b => /\ b_block'[c] = b_block[c] /\ b_count'[c] = b_count[c]
                                    /\ b_uptodate'[c] = b_uptodate[c]
      /\ b_uptodate' \in [Buffer -> BOOLEAN] /\ ~b_uptodate'[b] /\ b_count'[b] = 1
      /\ b_count' \in [Buffer -> Nat]
  BY <1>1, <1>2 DEF Inv, TypeOK
<1>7. io[b] = "none" /\ \A q \in Proc : Pending(q) => Own(q) # b
  BY <1>1, <1>2 DEF Inv, TransfersAreLocked, LockIsOwned
<1>8. \A q \in Proc : pc[q] \in Using => bh[q] # b
  <2>1. Cardinality(Users(b)) = 0
    BY <1>1, <1>2 DEF Inv, CountIsUsers
  <2>2. Users(b) = {}
    BY <2>1, <1>2, RefsAreUsers, UsersFinite
  <2> QED
    BY <2>2 DEF Users
<1>9. HolderHasItsBlock' /\ Locals'
  <2>1. \A q \in Proc : q # p /\ pc[q] \in Using =>
           /\ b_block'[bh[q]] = b_block[bh[q]]
           /\ b_uptodate[bh[q]] => b_uptodate'[bh[q]]
    BY <1>6, <1>8, LocalTypes
  <2>2. failed \subseteq failed'
    BY <1>1
  <2> QED
    BY <1>2, <1>3, <1>4, <1>5, <1>6, <2>1, <2>2, HolderStep
<1>10. LockIsOwned'
  <2>1. \A q \in Proc : q # p /\ Pending(q) =>
           /\ b_lock'[Own(q)] = b_lock[Own(q)] /\ io'[Own(q)] = io[Own(q)]
           /\ b_dirt'[Own(q)] = b_dirt[Own(q)] /\ b_uptodate'[Own(q)] = b_uptodate[Own(q)]
    BY <1>1, <1>6, <1>7, OwnIsBuffer
  <2> QED
    BY <1>3, <1>4, <1>5, <2>1, OwnerStep
<1>11. /\ pc' \in [Proc -> Places] /\ bh' \in [Proc -> Buffer']
       /\ block' \in [Proc -> Block \cup {NoBlock}]
       /\ pass' \in [Proc -> 0 .. 2 * NR_BUFFERS']
       /\ Refs' = [Refs EXCEPT ![p] = b]
  BY <1>3, <1>4, <1>5, LocalsOf DEF Inv, Using
<1>12. CountIsUsers'
  <2>1. \A c \in Buffer : Refs[p] # c
    BY <1>1 DEF Refs, Using, Buffer
  <2>2. \A c \in Buffer : b_count'[c] = b_count[c] - One(Refs[p], c) + One(b, c)
    BY <1>1, <1>6, <2>1 DEF Inv, TypeOK, One
  <2> QED
    BY <1>5, <1>11, <2>2, CountStep
<1>13. TypeOK'
  BY <1>1, <1>4, <1>5, <1>6, <1>11 DEF Inv, TypeOK, Places
<1>14. ListIsComplete'
  BY <1>4, <1>5 DEF Inv, ListIsComplete
<1>15. OneBufferPerBlock'
  <2>1. \A c \in Buffer : b_block[c] # block[p]
    BY <1>1 DEF Cached
  <2> QED
    BY <1>5, <1>6, <2>1 DEF Inv, OneBufferPerBlock
<1>16. TransfersAreLocked'
  BY <1>1, <1>5, <1>6, <1>7 DEF Inv, TransfersAreLocked
<1>17. UnchangedIsOnDisk'
  <2> SUFFICES ASSUME NEW c \in Buffer, b_block'[c] \in Block \ failed PROVE Good(c)'
    BY <1>1, <1>5 DEF UnchangedIsOnDisk
  <2>1. CASE c = b
    BY <1>1, <1>6, <1>7, <2>1 DEF Good
  <2>2. CASE c # b
    BY <1>1, <1>6, <2>2 DEF Inv, UnchangedIsOnDisk, Good
  <2> QED
    BY <2>1, <2>2
<1> QED
  BY <1>9, <1>10, <1>12, <1>13, <1>14, <1>15, <1>16, <1>17 DEF Inv

\* brelse(), of a read that has failed too.
LEMMA PutInv ==
  ASSUME Inv, NEW p \in Proc, pc[p] \in {"reading", "use"}, PutBuffer(p),
         UNCHANGED <<b_block, free_list, flags, b_data, drive>>,
         running' \in Proc \cup {None}
  PROVE  Inv'
<1> USE DEF flags, drive
<1> DEFINE b == bh[p]
<1>1. /\ b_count' = [b_count EXCEPT ![b] = b_count[b] - 1] /\ buffer_wait' = {}
      /\ pc' = [pc EXCEPT ![p] = "idle"]
  BY DEF PutBuffer, Goto
<1>2. Walk(p, "idle", 1, NoBlock, pass[p])
  BY LocalTypes DEF PutBuffer, Goto, Walk, Places
<1>3. b \in Buffer
  BY LocalTypes
<1> HIDE DEF b
<1>4. Buffer' = Buffer /\ NR_BUFFERS' = NR_BUFFERS
  BY DEF Buffer, NR_BUFFERS
<1>5. HolderHasItsBlock' /\ Locals'
  BY <1>2, <1>4, HolderStep DEF Using
<1>6. LockIsOwned'
  BY <1>2, <1>4, OwnerStep
<1>7. /\ pc' \in [Proc -> Places] /\ bh' \in [Proc -> Buffer']
      /\ block' \in [Proc -> Block \cup {NoBlock}]
      /\ pass' \in [Proc -> 0 .. 2 * NR_BUFFERS']
      /\ Refs' = [Refs EXCEPT ![p] = 0]
  BY <1>2, <1>4, LocalsOf DEF Inv, Using
<1>8. CountIsUsers' /\ \A c \in Buffer : b_count'[c] \in Nat
  <2>1. Refs[p] = b /\ \A c \in Buffer : c # 0
    BY DEF Refs, Using, Buffer, b
  <2>2. \A c \in Buffer : b_count'[c] = b_count[c] - One(Refs[p], c) + One(0, c)
    BY <1>1, <2>1 DEF Inv, TypeOK, One
  <2> QED
    BY <1>4, <1>7, <2>2, CountStep
<1>9. TypeOK'
  <2>1. b_count' \in [Buffer -> Nat]
    BY <1>1, <1>8 DEF Inv, TypeOK
  <2> QED
    BY <1>1, <1>4, <1>7, <2>1 DEF Inv, TypeOK, Places
<1>10. ListIsComplete' /\ OneBufferPerBlock'
  BY <1>4 DEF Inv, ListIsComplete, OneBufferPerBlock
<1>11. TransfersAreLocked' /\ UnchangedIsOnDisk'
  BY <1>4 DEF Inv, TransfersAreLocked, UnchangedIsOnDisk, Good
<1> QED
  BY <1>5, <1>6, <1>8, <1>9, <1>10, <1>11 DEF Inv

\* The holder of a buffer changes it.
LEMMA ModifyInv ==
  ASSUME Inv, NEW p \in Proc, NEW d \in Data, Modify(p, d)
  PROVE  Inv'
<1> USE DEF identity, drive, local
<1> DEFINE b == bh[p]
<1>1. /\ pc[p] = "use"
      /\ b_data' = [b_data EXCEPT ![b] = d] /\ b_dirt' = [b_dirt EXCEPT ![b] = TRUE]
      /\ UNCHANGED <<identity, b_lock, b_uptodate, buffer_wait, drive, running, pc, local>>
  BY DEF Modify
<1>2. b \in Buffer /\ block[p] \in Block
  BY <1>1, LocalTypes
<1>3. b_block[b] = block[p] /\ (b_uptodate[b] \/ block[p] \in failed)
  BY <1>1 DEF Inv, HolderHasItsBlock, Using
<1> HIDE DEF b
<1>4. /\ b_dirt' \in [Buffer -> BOOLEAN] /\ b_dirt'[b] /\ b_data' \in [Buffer -> Data]
      /\ \A c \in Buffer : c # b => b_dirt'[c] = b_dirt[c] /\ b_data'[c] = b_data[c]
  BY <1>1, <1>2 DEF Inv, TypeOK
<1>5. Buffer' = Buffer /\ NR_BUFFERS' = NR_BUFFERS
  BY <1>1 DEF Buffer, NR_BUFFERS
<1>6. TypeOK'
  BY <1>1, <1>4, <1>5 DEF Inv, TypeOK
<1>7. ListIsComplete' /\ OneBufferPerBlock' /\ HolderHasItsBlock' /\ Locals'
  BY <1>1, <1>5 DEF Inv, ListIsComplete, OneBufferPerBlock, HolderHasItsBlock, Locals
<1>8. CountIsUsers'
  BY <1>1, <1>5 DEF Inv, CountIsUsers, Users
<1>9. LockIsOwned'
  <2>1. \A q \in Proc : Pending(q)' = Pending(q) /\ Own(q)' = Own(q) /\ Own(q) \in Buffer
    BY <1>1, <1>5, OwnIsBuffer DEF Pending, Own, Index
  <2>2. \A c \in Buffer : b_dirt[c] => b_dirt'[c]
    BY <1>4
  <2> QED
    BY <1>1, <2>1, <2>2 DEF Inv, LockIsOwned
<1>10. TransfersAreLocked'
  <2>1. b_block[b] # NoBlock
    BY <1>2, <1>3, NullAssumption
  <2> QED
    BY <1>1, <1>4, <1>5, <2>1 DEF Inv, TransfersAreLocked
<1>11. UnchangedIsOnDisk'
  <2> SUFFICES ASSUME NEW c \in Buffer, b_block[c] \in Block \ failed PROVE Good(c)'
    BY <1>1, <1>5 DEF UnchangedIsOnDisk
  <2>1. CASE c = b
    BY <1>1, <1>3, <1>4, <2>1 DEF Good
  <2>2. CASE c # b
    BY <1>1, <1>4, <2>2 DEF Inv, UnchangedIsOnDisk, Good
  <2> QED
    BY <2>1, <2>2
<1> QED
  BY <1>6, <1>7, <1>8, <1>9, <1>10, <1>11 DEF Inv

\* A buffer in transfer has a block, and is not that of a waiting process.
LEMMA TransferFacts ==
  ASSUME Inv, NEW b \in Buffer, io[b] # "none"
  PROVE  /\ b_block[b] \in Block /\ b_lock[b]
         /\ \A q \in Proc : Pending(q) => Own(q) # b
         /\ \A c \in Buffer : c # b => b_block[c] # b_block[b]
<1>1. b_block[b] # NoBlock /\ b_lock[b]
  BY DEF Inv, TransfersAreLocked
<1>2. b_block[b] \in Block
  BY <1>1 DEF Inv, TypeOK
<1>3. \A q \in Proc : Pending(q) => Own(q) # b
  BY DEF Inv, LockIsOwned
<1>4. \A c \in Buffer : c # b => b_block[c] # b_block[b]
  BY <1>1 DEF Inv, OneBufferPerBlock
<1> QED
  BY <1>1, <1>2, <1>3, <1>4

\* The data of a write reach the disk.
LEMMA MoveInv ==
  ASSUME Inv, NEW b \in Buffer, Move(b)
  PROVE  Inv'
<1> USE DEF identity, flags, local
<1>1. /\ io[b] = "write" /\ io' = [io EXCEPT ![b] = "moved"]
      /\ disk' = [disk EXCEPT ![b_block[b]] = b_data[b]]
      /\ UNCHANGED <<identity, flags, b_data, buffer_wait, failed, running, pc, local>>
  BY DEF Move
<1>2. Buffer' = Buffer /\ NR_BUFFERS' = NR_BUFFERS
  BY <1>1 DEF Buffer, NR_BUFFERS
<1>3. /\ b_block[b] \in Block /\ b_lock[b]
      /\ \A q \in Proc : Pending(q) => Own(q) # b
      /\ \A c \in Buffer : c # b => b_block[c] # b_block[b]
  BY <1>1, TransferFacts
<1>4. /\ io' \in [Buffer -> {"none", "read", "write", "moved"}] /\ io'[b] = "moved"
      /\ \A c \in Buffer : c # b => io'[c] = io[c]
  BY <1>1 DEF Inv, TypeOK
<1>5. /\ disk' \in [Block -> Data] /\ disk'[b_block[b]] = b_data[b]
      /\ \A k \in Block : k # b_block[b] => disk'[k] = disk[k]
  BY <1>1, <1>3 DEF Inv, TypeOK
<1>6. TypeOK'
  BY <1>1, <1>2, <1>4, <1>5 DEF Inv, TypeOK
<1>7. ListIsComplete' /\ OneBufferPerBlock' /\ HolderHasItsBlock' /\ Locals'
  BY <1>1, <1>2 DEF Inv, ListIsComplete, OneBufferPerBlock, HolderHasItsBlock, Locals
<1>8. CountIsUsers'
  BY <1>1, <1>2 DEF Inv, CountIsUsers, Users
<1>9. LockIsOwned'
  <2>1. \A q \in Proc : Pending(q)' = Pending(q) /\ Own(q)' = Own(q) /\ Own(q) \in Buffer
    BY <1>1, <1>2, OwnIsBuffer DEF Pending, Own, Index
  <2> QED
    BY <1>1, <1>3, <1>4, <2>1 DEF Inv, LockIsOwned
<1>10. TransfersAreLocked'
  <2>1. b_block[b] # NoBlock
    BY <1>3, NullAssumption
  <2> QED
    BY <1>1, <1>2, <1>3, <1>4, <2>1 DEF Inv, TransfersAreLocked
<1>11. UnchangedIsOnDisk'
  <2> SUFFICES ASSUME NEW c \in Buffer, b_block[c] \in Block \ failed PROVE Good(c)'
    BY <1>1, <1>2 DEF UnchangedIsOnDisk
  <2>1. Good(c)
    BY DEF Inv, UnchangedIsOnDisk
  <2>2. CASE c = b
    BY <1>1, <1>4, <1>5, <2>1, <2>2 DEF Good
  <2>3. CASE c # b
    <3>1. disk'[b_block[c]] = disk[b_block[c]]
      BY <1>3, <1>5, <2>3
    <3> QED
      BY <1>1, <1>4, <2>1, <2>3, <3>1 DEF Good
  <2> QED
    BY <2>2, <2>3
<1> QED
  BY <1>6, <1>7, <1>8, <1>9, <1>10, <1>11 DEF Inv

\* end_request() ends a transfer, with the data or with an error.
LEMMA EndInv ==
  ASSUME Inv, NEW b \in Buffer, NEW ok \in BOOLEAN, EndRequest(b, ok)
  PROVE  Inv'
<1> USE DEF identity, local
<1>1. /\ io[b] \in {"read", "moved"} \/ (io[b] = "write" /\ ~ok)
      /\ io' = [io EXCEPT ![b] = "none"] /\ b_lock' = [b_lock EXCEPT ![b] = FALSE]
      /\ b_uptodate' = [b_uptodate EXCEPT ![b] = ok]
      /\ b_data' = [b_data EXCEPT ![b] = IF io[b] = "read" /\ ok THEN disk[b_block[b]] ELSE @]
      /\ ok => failed' = failed
      /\ ~ok => failed' = failed \cup {b_block[b]}
      /\ UNCHANGED <<identity, b_dirt, buffer_wait, disk, running, pc, local>>
  BY DEF EndRequest, Fail
<1>2. Buffer' = Buffer /\ NR_BUFFERS' = NR_BUFFERS
  BY <1>1 DEF Buffer, NR_BUFFERS
<1>3. /\ b_block[b] \in Block /\ b_lock[b]
      /\ \A q \in Proc : Pending(q) => Own(q) # b
      /\ \A c \in Buffer : c # b => b_block[c] # b_block[b]
  BY <1>1, TransferFacts
<1>4. /\ io' \in [Buffer -> {"none", "read", "write", "moved"}] /\ io'[b] = "none"
      /\ b_lock' \in [Buffer -> BOOLEAN] /\ ~b_lock'[b]
      /\ b_uptodate' \in [Buffer -> BOOLEAN] /\ b_uptodate'[b] = ok
      /\ \A c \in Buffer : c # b => /\ io'[c] = io[c] /\ b_lock'[c] = b_lock[c]
                                    /\ b_uptodate'[c] = b_uptodate[c] /\ b_data'[c] = b_data[c]
  BY <1>1 DEF Inv, TypeOK
<1>5. /\ b_data' \in [Buffer -> Data]
      /\ io[b] = "read" /\ ok => b_data'[b] = disk[b_block[b]]
      /\ ~(io[b] = "read" /\ ok) => b_data'[b] = b_data[b]
  <2>1. disk[b_block[b]] \in Data /\ b_data[b] \in Data
    BY <1>3 DEF Inv, TypeOK
  <2> QED
    BY <1>1, <2>1 DEF Inv, TypeOK
<1>6. failed' \in SUBSET Block /\ failed \subseteq failed' /\ (~ok => b_block[b] \in failed')
  BY <1>1, <1>3 DEF Inv, TypeOK
<1>7. TypeOK'
  BY <1>1, <1>2, <1>4, <1>5, <1>6 DEF Inv, TypeOK
<1>8. ListIsComplete' /\ OneBufferPerBlock' /\ Locals'
  BY <1>1, <1>2 DEF Inv, ListIsComplete, OneBufferPerBlock, Locals
<1>9. HolderHasItsBlock'
  <2> SUFFICES ASSUME NEW p \in Proc
               PROVE  /\ pc[p] \in Using => b_block[bh[p]] = block[p]
                      /\ pc[p] = "use" => b_uptodate'[bh[p]] \/ block[p] \in failed'
    BY <1>1 DEF HolderHasItsBlock
  <2>1. /\ pc[p] \in Using => b_block[bh[p]] = block[p]
        /\ pc[p] = "use" => b_uptodate[bh[p]] \/ block[p] \in failed
    BY DEF Inv, HolderHasItsBlock
  <2>2. bh[p] \in Buffer /\ (pc[p] = "use" => pc[p] \in Using)
    BY LocalTypes DEF Using
  <2> QED
    BY <1>4, <1>6, <2>1, <2>2
<1>10. CountIsUsers'
  BY <1>1, <1>2 DEF Inv, CountIsUsers, Users
<1>11. LockIsOwned'
  <2>1. \A q \in Proc : Pending(q)' = Pending(q) /\ Own(q)' = Own(q) /\ Own(q) \in Buffer
    BY <1>1, <1>2, OwnIsBuffer DEF Pending, Own, Index
  <2> QED
    BY <1>1, <1>3, <1>4, <2>1 DEF Inv, LockIsOwned
<1>12. TransfersAreLocked'
  BY <1>1, <1>2, <1>4 DEF Inv, TransfersAreLocked
<1>13. UnchangedIsOnDisk'
  <2> SUFFICES ASSUME NEW c \in Buffer, b_block[c] \in Block \ failed' PROVE Good(c)'
    BY <1>1, <1>2 DEF UnchangedIsOnDisk
  <2>1. Good(c)
    BY <1>6 DEF Inv, UnchangedIsOnDisk
  <2>2. CASE c = b
    BY <1>1, <1>4, <1>5, <1>6, <2>1, <2>2 DEF Good
  <2>3. CASE c # b
    BY <1>1, <1>4, <2>1, <2>3 DEF Good
  <2> QED
    BY <2>2, <2>3
<1> QED
  BY <1>7, <1>8, <1>9, <1>10, <1>11, <1>12, <1>13 DEF Inv

-----------------------------------------------------------------------------
(* The invariant.                                                          *)

LEMMA InitInv == Init => Inv
<1> SUFFICES ASSUME Init PROVE Inv
  OBVIOUS
<1> USE DEF Init
<1>1. PICK n \in 1 .. MaxSize : free_list = [i \in 1 .. n |-> i]
  OBVIOUS
<1>2. n \in Nat \ {0}
  BY BuffersAssumption
<1>3. Len(free_list) = n
  <2>1. free_list \in [1 .. n -> Nat]
    BY <1>1, <1>2
  <2> QED
    BY <1>2, <2>1, LengthOf
<1>4. NR_BUFFERS = n /\ Buffer = 1 .. n /\ 1 \in Buffer
  BY <1>2, <1>3 DEF NR_BUFFERS, Buffer
<1>5. (CHOOSE d \in Data : TRUE) \in Data
  BY SetsAssumption
<1>6. TypeOK
  <2>1. free_list \in [Buffer -> Buffer]
    BY <1>1, <1>4
  <2>2. 0 \in 0 .. 2 * NR_BUFFERS
    BY <1>2, <1>4
  <2> QED
    BY <1>4, <1>5, <2>1, <2>2 DEF TypeOK
<1>7. ListIsComplete
  BY <1>1, <1>2, <1>4 DEF ListIsComplete
<1>8. CountIsUsers
  <2> SUFFICES ASSUME NEW b \in Buffer PROVE Cardinality(Users(b)) = 0
    BY DEF CountIsUsers
  <2>1. Users(b) = {}
    BY DEF Users, Using
  <2> QED
    BY <2>1, FS_EmptySet
<1>9. OneBufferPerBlock /\ HolderHasItsBlock /\ Locals /\ LockIsOwned
  BY DEF OneBufferPerBlock, HolderHasItsBlock, Using, Locals, LockIsOwned, Pending
<1>10. TransfersAreLocked
  BY DEF TransfersAreLocked
<1>11. UnchangedIsOnDisk
  BY NullAssumption DEF UnchangedIsOnDisk
<1> QED
  BY <1>6, <1>7, <1>8, <1>9, <1>10, <1>11 DEF Inv

LEMMA NextInv == Inv /\ [Next]_vars => Inv'
<1> SUFFICES ASSUME Inv, [Next]_vars PROVE Inv'
  OBVIOUS
<1>1. ASSUME NEW p \in Proc, Quiet(p) PROVE Inv'
  BY <1>1, QuietInv
<1>2. ASSUME NEW p \in Proc, Sleep(p) PROVE Inv'
  BY <1>2, SleepInv
<1>3. ASSUME NEW p \in Proc, Hit(p) PROVE Inv'
  BY <1>3, HitInv
<1>4. ASSUME NEW p \in Proc, SyncLock(p) \/ ReadLock(p) PROVE Inv'
  BY <1>4, LockInv
<1>5. ASSUME NEW p \in Proc, SyncAdd(p) \/ ReadAdd(p) PROVE Inv'
  BY <1>5, AddInv
<1>6. ASSUME NEW p \in Proc, Reuse(p) PROVE Inv'
  BY <1>6, ReuseInv
<1>7. ASSUME NEW p \in Proc, ReadFailed(p) \/ Brelse(p) PROVE Inv'
  <2>1. /\ pc[p] \in {"reading", "use"} /\ PutBuffer(p)
        /\ UNCHANGED <<b_block, free_list, flags, b_data, drive>>
        /\ running' \in Proc \cup {None}
    BY <1>7, LocalTypes DEF ReadFailed, Brelse
  <2> QED
    BY <2>1, PutInv
<1>8. ASSUME NEW p \in Proc, NEW d \in Data, Modify(p, d) PROVE Inv'
  BY <1>8, ModifyInv
<1>9. ASSUME NEW b \in Buffer, Move(b) PROVE Inv'
  BY <1>9, MoveInv
<1>10. ASSUME NEW b \in Buffer, NEW ok \in BOOLEAN, EndRequest(b, ok) PROVE Inv'
  BY <1>10, EndInv
<1>11. CASE UNCHANGED vars
  <2> USE <1>11 DEF vars, identity, flags, drive, local
  <2>1. Buffer' = Buffer /\ NR_BUFFERS' = NR_BUFFERS
    BY DEF Buffer, NR_BUFFERS
  <2>2. TypeOK' /\ ListIsComplete' /\ OneBufferPerBlock'
    BY <2>1 DEF Inv, TypeOK, ListIsComplete, OneBufferPerBlock
  <2>3. CountIsUsers' /\ HolderHasItsBlock' /\ Locals'
    BY <2>1 DEF Inv, CountIsUsers, Users, HolderHasItsBlock, Locals
  <2>4. LockIsOwned' /\ TransfersAreLocked' /\ UnchangedIsOnDisk'
    BY <2>1 DEF Inv, LockIsOwned, Pending, Own, Index, TransfersAreLocked, UnchangedIsOnDisk, Good
  <2> QED
    BY <2>2, <2>3, <2>4 DEF Inv
<1>12. CASE Next
  BY <1>1, <1>2, <1>3, <1>4, <1>5, <1>6, <1>7, <1>8, <1>9, <1>10, <1>12
  DEF Next, GetBlk, Rest, Disk, Quiet
<1> QED
  BY <1>11, <1>12

\* The invariant holds in every reachable state of getblk(), bread(), brelse(),
\* sync_dev() and end_request().
THEOREM InvHolds == Spec => []Inv
<1>1. Init => Inv
  BY InitInv
<1>2. Inv /\ [Next]_vars => Inv'
  BY NextInv
<1> QED
  BY <1>1, <1>2, PTL DEF Spec

\* Every variable of the cache keeps its type: no list entry, buffer pointer or
\* loop counter leaves its range.
THEOREM TypesCorrect == Spec => []TypeOK
<1>1. Inv => TypeOK
  BY DEF Inv
<1> QED
  BY <1>1, InvHolds, PTL

\* getblk() never gives a block a second buffer, however often it has slept
\* since it missed the block.
THEOREM OneBufferCorrect == Spec => []OneBufferPerBlock
<1>1. Inv => OneBufferPerBlock
  BY DEF Inv
<1> QED
  BY <1>1, InvHolds, PTL

\* b_count is the number of owners of references: brelse() never frees a free
\* buffer, and no reference is lost on an error path.
THEOREM CountCorrect == Spec => []CountIsUsers
<1>1. Inv => CountIsUsers
  BY DEF Inv
<1> QED
  BY <1>1, InvHolds, PTL

\* A reference protects the identity of a buffer through every wait, and what
\* bread() returned stays up to date unless an I/O of the block failed.
THEOREM HolderCorrect == Spec => []HolderHasItsBlock
<1>1. Inv => HolderHasItsBlock
  BY DEF Inv
<1> QED
  BY <1>1, InvHolds, PTL

-----------------------------------------------------------------------------
(* Refinement.                                                             *)

\* The contents of a block are those of its buffer if that is up to date, and
\* those on the disk otherwise.
ContentsKnown(k) ==
  /\ \A b \in Buffer : b_block[b] = k /\ b_uptodate[b] => Contents(k) = b_data[b]
  /\ (\A b \in Buffer : b_block[b] = k => ~b_uptodate[b]) => Contents(k) = disk[k]
  /\ Contents(k) \in Data
AllContentsKnown == \A k \in Block : ContentsKnown(k)

LEMMA ContentsAreKnown == Inv => AllContentsKnown
<1> SUFFICES ASSUME Inv, NEW k \in Block PROVE ContentsKnown(k)
  BY DEF AllContentsKnown
<1>1. ASSUME NEW b \in Buffer, b_block[b] = k, b_uptodate[b] PROVE Contents(k) = b_data[b]
  <2>1. \A c \in Cached(k) : c = b
    BY <1>1, NullAssumption DEF Inv, OneBufferPerBlock, Cached
  <2>2. b \in Cached(k)
    BY <1>1 DEF Cached
  <2>3. (CHOOSE c \in Cached(k) : b_uptodate[c]) = b
    BY <1>1, <2>1, <2>2
  <2> QED
    BY <1>1, <2>2, <2>3 DEF Contents
<1>2. ASSUME \A b \in Buffer : b_block[b] = k => ~b_uptodate[b] PROVE Contents(k) = disk[k]
  <2>1. ~\E b \in Cached(k) : b_uptodate[b]
    BY <1>2 DEF Cached
  <2> QED
    BY <2>1 DEF Contents
<1>3. Contents(k) \in Data
  <2>1. CASE \E b \in Buffer : b_block[b] = k /\ b_uptodate[b]
    BY <1>1, <2>1 DEF Inv, TypeOK
  <2>2. CASE ~\E b \in Buffer : b_block[b] = k /\ b_uptodate[b]
    BY <1>2, <2>2 DEF Inv, TypeOK
  <2> QED
    BY <2>1, <2>2
<1> QED
  BY <1>1, <1>2, <1>3 DEF ContentsKnown

\* A step that leaves a block and its buffer alone.
LEMMA OtherContents ==
  ASSUME Inv, Inv', NEW k \in Block, Buffer' = Buffer, disk'[k] = disk[k],
         \A c \in Buffer : b_block'[c] = k <=> b_block[c] = k,
         \A c \in Buffer : b_block[c] = k =>
           b_uptodate'[c] = b_uptodate[c] /\ b_data'[c] = b_data[c]
  PROVE  Contents(k)' = Contents(k)
<1>1. ContentsKnown(k) /\ ContentsKnown(k)'
  <2>1. (Inv => AllContentsKnown)'
    BY ContentsAreKnown, PTL
  <2> QED
    BY <2>1, ContentsAreKnown DEF AllContentsKnown
<1>3. CASE \E b \in Buffer : b_block[b] = k /\ b_uptodate[b]
  <2>1. PICK b \in Buffer : b_block[b] = k /\ b_uptodate[b]
    BY <1>3
  <2>2. Contents(k) = b_data[b]
    BY <1>1, <2>1 DEF ContentsKnown
  <2>3. Contents(k)' = b_data'[b]
    BY <1>1, <2>1 DEF ContentsKnown
  <2> QED
    BY <2>1, <2>2, <2>3
<1>4. CASE ~\E b \in Buffer : b_block[b] = k /\ b_uptodate[b]
  <2>1. Contents(k) = disk[k]
    BY <1>1, <1>4 DEF ContentsKnown
  <2>2. Contents(k)' = disk'[k]
    BY <1>1, <1>4 DEF ContentsKnown
  <2> QED
    BY <2>1, <2>2
<1> QED
  BY <1>3, <1>4

\* Steps that leave all contents alone.
LEMMA SameContents ==
  ASSUME Inv, Inv', UNCHANGED <<b_block, free_list, b_uptodate, b_data, disk>>
  PROVE  \A k \in Block : Contents(k)' = Contents(k)
<1>1. Buffer' = Buffer
  BY DEF Buffer, NR_BUFFERS
<1> QED
  BY <1>1, OtherContents

\* The block a process holds.
HeldIsBlock ==
  \A p \in Proc : Held(p) = IF pc[p] = "use" THEN block[p] ELSE NoBlock

LEMMA HeldIsKnown == Inv => HeldIsBlock
BY DEF Inv, HolderHasItsBlock, Held, HeldIsBlock, Using

LEMMA SameHeld ==
  ASSUME Inv, Inv', NEW p \in Proc, (pc'[p] = "use") <=> (pc[p] = "use"),
         pc[p] = "use" => block'[p] = block[p]
  PROVE  Held(p)' = Held(p)
<1>1. Held(p) = IF pc[p] = "use" THEN block[p] ELSE NoBlock
  BY HeldIsKnown DEF HeldIsBlock
<1>2. Held(p)' = IF pc'[p] = "use" THEN block'[p] ELSE NoBlock
  <2>1. (Inv => HeldIsBlock)'
    BY HeldIsKnown, PTL
  <2> QED
    BY <2>1 DEF HeldIsBlock
<1> QED
  BY <1>1, <1>2

\* What BlockStore sees.
View == <<[k \in Block |-> Contents(k)], [p \in Proc |-> Held(p)], failed>>

\* The steps of p that BlockStore does not see.
Hidden(p) ==
  \/ \E k \in Block : Bread(p, k)
  \/ Sleep(p) \/ Hit(p) \/ HitChecked(p) \/ Choose(p) \/ NoBuffer(p) \/ Repeat(p)
  \/ Taken(p) \/ Dirty(p) \/ Appeared(p) \/ Skip(p) \/ SyncLock(p) \/ SyncAdd(p)
  \/ ReadLock(p) \/ ReadAdd(p) \/ ReadFailed(p)

LEMMA HiddenStutters ==
  ASSUME Inv, Inv', NEW p \in Proc, Hidden(p)
  PROVE  UNCHANGED View
<1> USE DEF identity, flags, drive, local, Goto, LeaveTo, Again, At, Waited
<1>1. /\ UNCHANGED <<b_block, free_list, b_uptodate, b_data, disk, failed>>
      /\ pc[p] # "use" /\ pc'[p] # "use"
      /\ \A q \in Proc : q # p => pc'[q] = pc[q] /\ block'[q] = block[q]
  <2>0. pc \in [Proc -> Places] /\ block \in [Proc -> Block \cup {NoBlock}]
    BY DEF Inv, TypeOK, Places
  <2>1. CASE \E k \in Block : Bread(p, k)
    BY <2>0, <2>1 DEF Bread
  <2>2. CASE Sleep(p)
    BY <2>0, <2>2 DEF Sleep
  <2>3. CASE Hit(p) \/ HitChecked(p) \/ Choose(p)
    BY <2>0, <2>3 DEF Hit, HitChecked, Choose
  <2>4. CASE NoBuffer(p) \/ Repeat(p) \/ Taken(p) \/ Dirty(p) \/ Appeared(p)
    BY <2>0, <2>4 DEF NoBuffer, Repeat, Taken, Dirty, Appeared
  <2>5. CASE Skip(p) \/ SyncLock(p) \/ SyncAdd(p)
    BY <2>0, <2>5 DEF Skip, SyncLock, SyncAdd, NextBuffer
  <2>6. CASE ReadLock(p) \/ ReadAdd(p) \/ ReadFailed(p)
    BY <2>0, <2>6 DEF ReadLock, ReadAdd, ReadFailed, PutBuffer
  <2> QED
    BY <2>1, <2>2, <2>3, <2>4, <2>5, <2>6 DEF Hidden
<1>2. \A k \in Block : Contents(k)' = Contents(k)
  BY <1>1, SameContents
<1>3. \A q \in Proc : Held(q)' = Held(q)
  <2>1. \A q \in Proc : /\ (pc'[q] = "use") <=> (pc[q] = "use")
                        /\ pc[q] = "use" => block'[q] = block[q]
    BY <1>1
  <2> QED
    BY <2>1, SameHeld
<1> QED
  BY <1>1, <1>2, <1>3 DEF View

\* bread() returns the buffer of the block: its caller holds it.
LEMMA AcquireRefines ==
  ASSUME Inv, Inv', NEW p \in Proc, Ready(p) \/ ReadDone(p)
  PROVE  Store!Acquire(p, block[p]) /\ block[p] \in Block
<1> USE DEF identity, flags, drive, local
<1>1. /\ UNCHANGED <<b_block, free_list, b_uptodate, b_data, disk, failed, block>>
      /\ pc[p] \in {"got", "reading"} /\ pc' = [pc EXCEPT ![p] = "use"]
  BY DEF Ready, ReadDone, LeaveTo, Goto
<1>2. block[p] \in Block /\ pc'[p] = "use" /\ \A q \in Proc : q # p => pc'[q] = pc[q]
  BY <1>1, LocalTypes DEF Inv, TypeOK
<1>3. \A k \in Block : Contents(k)' = Contents(k)
  BY <1>1, SameContents
<1>4. \A q \in Proc : q # p => Held(q)' = Held(q)
  <2>1. \A q \in Proc : q # p => (pc'[q] = "use") <=> (pc[q] = "use")
    BY <1>2
  <2> QED
    BY <1>1, <2>1, SameHeld
<1>5. Held(p) = NoBlock /\ Held(p)' = block[p]
  <2>1. (Inv => HeldIsBlock)'
    BY HeldIsKnown, PTL
  <2> QED
    BY <1>1, <1>2, <2>1, HeldIsKnown DEF HeldIsBlock
<1> QED
  BY <1>1, <1>2, <1>3, <1>4, <1>5 DEF Store!Acquire, Store!Undisturbed

\* brelse() gives it back.
LEMMA ReleaseRefines ==
  ASSUME Inv, Inv', NEW p \in Proc, Brelse(p)
  PROVE  Store!Release(p)
<1> USE DEF flags, drive
<1>1. /\ UNCHANGED <<b_block, free_list, b_uptodate, b_data, disk, failed>>
      /\ pc[p] = "use" /\ pc' = [pc EXCEPT ![p] = "idle"]
      /\ block' = [block EXCEPT ![p] = NoBlock]
  BY DEF Brelse, PutBuffer, Goto
<1>2. /\ block[p] \in Block /\ pc'[p] = "idle"
      /\ \A q \in Proc : q # p => pc'[q] = pc[q] /\ block'[q] = block[q]
  BY <1>1, LocalTypes, ZenonT(60) DEF Inv, TypeOK
<1>3. \A k \in Block : Contents(k)' = Contents(k)
  BY <1>1, SameContents
<1>4. \A q \in Proc : q # p => Held(q)' = Held(q)
  <2>1. \A q \in Proc : q # p => (pc'[q] = "use" <=> pc[q] = "use") /\ block'[q] = block[q]
    BY <1>2
  <2> QED
    BY <2>1, SameHeld
<1>5. Held(p) = block[p] /\ Held(p)' = NoBlock
  <2>1. (Inv => HeldIsBlock)'
    BY HeldIsKnown, PTL
  <2> QED
    BY <1>1, <1>2, <2>1, HeldIsKnown DEF HeldIsBlock
<1> QED
  BY <1>1, <1>2, <1>3, <1>4, <1>5, NullAssumption DEF Store!Release, Store!Undisturbed

\* A change of a buffer is a change of its block, and no other; while the block
\* is lost after an error the change is invisible.
LEMMA WriteRefines ==
  ASSUME Inv, Inv', NEW p \in Proc, NEW d \in Data, Modify(p, d)
  PROVE  Store!Write(p, d) \/ UNCHANGED View
<1> USE DEF identity, drive, local
<1> DEFINE b == bh[p]
<1>1. /\ pc[p] = "use" /\ b_data' = [b_data EXCEPT ![b] = d]
      /\ UNCHANGED <<identity, b_uptodate, drive, pc, local>>
  BY DEF Modify
<1>2. b \in Buffer /\ block[p] \in Block /\ b_block[b] = block[p] /\ Buffer' = Buffer
  BY <1>1, LocalTypes DEF Inv, HolderHasItsBlock, Using, Buffer, NR_BUFFERS
<1> HIDE DEF b
<1>3. b_data'[b] = d /\ \A c \in Buffer : c # b => b_data'[c] = b_data[c]
  BY <1>1, <1>2 DEF Inv, TypeOK
<1>4. \A c \in Buffer : b_block[c] = block[p] => c = b
  BY <1>2, NullAssumption DEF Inv, OneBufferPerBlock
<1>5. PICK blk \in Block : blk = block[p]
  BY <1>2
<1>6. \A k \in Block : k # blk => Contents(k)' = Contents(k)
  BY <1>5, <1>1, <1>2, <1>3, OtherContents
<1>7. \A q \in Proc : Held(q)' = Held(q)
  BY <1>1, SameHeld
<1>8. Held(p) = block[p]
  BY <1>1, HeldIsKnown DEF HeldIsBlock
<1>9. ContentsKnown(blk) /\ ContentsKnown(blk)'
  <2>1. (Inv => AllContentsKnown)'
    BY ContentsAreKnown, PTL
  <2> QED
    BY <2>1, ContentsAreKnown DEF AllContentsKnown
<1>10. CASE b_uptodate[b]
  <2>1. Contents(blk)' = d
    BY <1>5, <1>1, <1>2, <1>3, <1>9, <1>10 DEF ContentsKnown
  <2> QED
    BY <1>5, <1>1, <1>6, <1>7, <1>8, <2>1, NullAssumption DEF Store!Write
<1>11. CASE ~b_uptodate[b]
  <2>1. Contents(blk)' = Contents(blk)
    BY <1>5, <1>1, <1>2, <1>4, <1>9, <1>11 DEF ContentsKnown
  <2> QED
    BY <1>5, <1>1, <1>6, <1>7, <2>1 DEF View
<1> QED
  BY <1>10, <1>11

\* A step that disturbs lost blocks only.
LEMMA DecayRefines ==
  ASSUME Inv, Inv', UNCHANGED failed, \A q \in Proc : Held(q)' = Held(q),
         \A k \in Block \ failed : Contents(k)' = Contents(k)
  PROVE  Store!Decay
<1>1. \A k \in Block : Contents(k)' \in Data
  <2>1. (Inv => AllContentsKnown)'
    BY ContentsAreKnown, PTL
  <2> QED
    BY <2>1 DEF AllContentsKnown, ContentsKnown
<1> QED
  BY <1>1 DEF Store!Decay, Store!Undisturbed

\* Evicting a buffer loses nothing, and its new block is read from the disk.
LEMMA ReuseRefines ==
  ASSUME Inv, Inv', NEW p \in Proc, Reuse(p)
  PROVE  Store!Decay
<1> USE DEF drive, local
<1> DEFINE b == bh[p]
<1>1. /\ pc[p] = "victim" /\ ~b_lock[b] /\ ~b_dirt[b] /\ Cached(block[p]) = {}
      /\ b_uptodate' = [b_uptodate EXCEPT ![b] = FALSE]
      /\ b_block' = [b_block EXCEPT ![b] = block[p]]
      /\ free_list' = MovedToEnd(b) /\ pc' = [pc EXCEPT ![p] = "got"]
      /\ UNCHANGED <<b_data, drive, block>>
  BY DEF Reuse, Waited, Goto
<1>2. b \in Buffer /\ block[p] \in Block
  BY <1>1, LocalTypes
<1> HIDE DEF b
<1>3. Buffer' = Buffer
  BY <1>1, <1>2, MovedList DEF Inv, Buffer, NR_BUFFERS
<1>4. /\ b_block'[b] = block[p] /\ ~b_uptodate'[b]
      /\ \A c \in Buffer : c # b => b_block'[c] = b_block[c] /\ b_uptodate'[c] = b_uptodate[c]
  BY <1>1, <1>2 DEF Inv, TypeOK
<1>5. \A q \in Proc : Held(q)' = Held(q)
  <2>1. \A q \in Proc : (pc'[q] = "use") <=> (pc[q] = "use")
    BY <1>1 DEF Inv, TypeOK
  <2> QED
    BY <1>1, <2>1, SameHeld
<1>6. ASSUME NEW k \in Block \ failed PROVE Contents(k)' = Contents(k)
  <2>1. ContentsKnown(k) /\ ContentsKnown(k)'
    <3>1. (Inv => AllContentsKnown)'
      BY ContentsAreKnown, PTL
    <3> QED
      BY <3>1, ContentsAreKnown DEF AllContentsKnown
  <2>2. CASE k = block[p]
    <3>1. \A c \in Buffer : b_block[c] # k
      BY <1>1, <2>2 DEF Cached
    <3>2. \A c \in Buffer : b_block'[c] = k => ~b_uptodate'[c]
      BY <1>4, <3>1
    <3> QED
      BY <1>1, <1>3, <2>1, <3>1, <3>2 DEF ContentsKnown
  <2>3. CASE k # block[p] /\ k = b_block[b]
    <3>1. \A c \in Buffer : b_block[c] = k => c = b
      BY <1>2, <2>3, NullAssumption DEF Inv, OneBufferPerBlock
    <3>2. \A c \in Buffer : b_block'[c] # k
      BY <1>4, <2>3, <3>1
    <3>3. Contents(k)' = disk[k]
      BY <1>1, <1>3, <2>1, <3>2 DEF ContentsKnown
    <3>4. Contents(k) = disk[k]
      <4>1. io[b] = "none" /\ Good(b)
        BY <1>1, <1>2, <1>6, <2>3 DEF Inv, TransfersAreLocked, UnchangedIsOnDisk
      <4>2. b_uptodate[b] => b_data[b] = disk[k]
        BY <1>1, <2>3, <4>1 DEF Good
      <4> QED
        BY <1>2, <2>1, <2>3, <3>1, <4>2 DEF ContentsKnown
    <3> QED
      BY <3>3, <3>4
  <2>4. CASE k # block[p] /\ k # b_block[b]
    <3>1. \A c \in Buffer : b_block'[c] = k <=> b_block[c] = k
      BY <1>4, <2>4
    <3>2. \A c \in Buffer : b_block[c] = k =>
             b_uptodate'[c] = b_uptodate[c] /\ b_data'[c] = b_data[c]
      BY <1>1, <1>4, <2>4
    <3> QED
      BY <1>1, <1>3, <3>1, <3>2, OtherContents
  <2> QED
    BY <2>2, <2>3, <2>4
<1> QED
  BY <1>1, <1>5, <1>6, DecayRefines

\* Writing a block does not change its contents.
LEMMA MoveRefines ==
  ASSUME Inv, Inv', NEW b \in Buffer, Move(b)
  PROVE  Store!Decay
<1> USE DEF identity, flags, local
<1>1. /\ io[b] = "write" /\ disk' = [disk EXCEPT ![b_block[b]] = b_data[b]]
      /\ UNCHANGED <<identity, flags, b_data, failed, pc, local>>
  BY DEF Move
<1>2. Buffer' = Buffer
  BY <1>1 DEF Buffer, NR_BUFFERS
<1>3. \A q \in Proc : Held(q)' = Held(q)
  BY <1>1, SameHeld
<1>4. ASSUME NEW k \in Block \ failed PROVE Contents(k)' = Contents(k)
  <2>1. CASE k = b_block[b]
    <3>1. b_uptodate[b]
      BY <1>1, <2>1 DEF Inv, UnchangedIsOnDisk, Good
    <3>2. ContentsKnown(k) /\ ContentsKnown(k)'
      <4>1. (Inv => AllContentsKnown)'
        BY ContentsAreKnown, PTL
      <4> QED
        BY <4>1, ContentsAreKnown DEF AllContentsKnown
    <3> QED
      BY <1>1, <1>2, <2>1, <3>1, <3>2 DEF ContentsKnown
  <2>2. CASE k # b_block[b]
    <3>1. disk'[k] = disk[k]
      BY <1>1, <2>2 DEF Inv, TypeOK
    <3> QED
      BY <1>1, <1>2, <3>1, OtherContents
  <2> QED
    BY <2>1, <2>2
<1> QED
  BY <1>1, <1>3, <1>4, DecayRefines

\* The end of a transfer breaks its block or changes nothing.
LEMMA EndRefines ==
  ASSUME Inv, Inv', NEW b \in Buffer, NEW ok \in BOOLEAN, EndRequest(b, ok)
  PROVE  Store!Decay \/ \E k \in Block : Store!Break(k)
<1> USE DEF identity, local
<1>1. /\ io[b] \in {"read", "moved"} \/ (io[b] = "write" /\ ~ok)
      /\ b_uptodate' = [b_uptodate EXCEPT ![b] = ok]
      /\ b_data' = [b_data EXCEPT ![b] = IF io[b] = "read" /\ ok THEN disk[b_block[b]] ELSE @]
      /\ ok => failed' = failed
      /\ ~ok => failed' = failed \cup {b_block[b]}
      /\ UNCHANGED <<identity, disk, pc, local>>
  BY DEF EndRequest, Fail
<1>2. Buffer' = Buffer
  BY <1>1 DEF Buffer, NR_BUFFERS
<1>3. \A q \in Proc : Held(q)' = Held(q)
  BY <1>1, SameHeld
<1>4. b_block[b] \in Block
  BY <1>1, TransferFacts
<1>5. /\ b_uptodate'[b] = ok
      /\ io[b] = "read" /\ ok => b_data'[b] = disk[b_block[b]]
      /\ ~(io[b] = "read" /\ ok) => b_data'[b] = b_data[b]
      /\ \A c \in Buffer : c # b => b_uptodate'[c] = b_uptodate[c] /\ b_data'[c] = b_data[c]
  BY <1>1 DEF Inv, TypeOK
<1>6. ASSUME NEW k \in Block, k # b_block[b] PROVE Contents(k)' = Contents(k)
  <2>1. \A c \in Buffer : b_block[c] = k =>
             b_uptodate'[c] = b_uptodate[c] /\ b_data'[c] = b_data[c]
    BY <1>5, <1>6
  <2> QED
    BY <1>1, <1>2, <2>1, OtherContents
<1>7. CASE ok
  <2>1. ASSUME NEW k \in Block, k = b_block[b], k \notin failed
        PROVE  Contents(k)' = Contents(k)
    <3>1. ContentsKnown(k) /\ ContentsKnown(k)'
      <4>1. (Inv => AllContentsKnown)'
        BY ContentsAreKnown, PTL
      <4> QED
        BY <4>1, ContentsAreKnown DEF AllContentsKnown
    <3>2. Good(b)
      BY <2>1 DEF Inv, UnchangedIsOnDisk
    <3>3. Contents(k)' = b_data'[b]
      BY <1>1, <1>2, <1>5, <1>7, <2>1, <3>1 DEF ContentsKnown
    <3>4. CASE io[b] = "read"
      <4>1. \A c \in Buffer : b_block[c] = k => ~b_uptodate[c]
        BY <2>1, <3>4, NullAssumption DEF Inv, TransfersAreLocked, OneBufferPerBlock
      <4> QED
        BY <1>5, <1>7, <2>1, <3>1, <3>3, <3>4, <4>1 DEF ContentsKnown
    <3>5. CASE io[b] # "read"
      <4>1. b_uptodate[b]
        BY <1>1, <1>7, <3>2, <3>5 DEF Good
      <4> QED
        BY <1>5, <2>1, <3>1, <3>3, <3>5, <4>1 DEF ContentsKnown
    <3> QED
      BY <3>4, <3>5
  <2>2. \A k \in Block \ failed : Contents(k)' = Contents(k)
    BY <1>6, <2>1
  <2> QED
    BY <1>1, <1>3, <1>7, <2>2, DecayRefines
<1>8. CASE ~ok
  <2>1. \A k \in Block \ failed' : Contents(k)' = Contents(k)
    BY <1>1, <1>6, <1>8
  <2> QED
    BY <1>1, <1>3, <1>4, <1>8, <2>1 DEF Store!Break, Store!Undisturbed
<1> QED
  BY <1>7, <1>8

LEMMA InitRefines == Init => Store!Init
<1> SUFFICES ASSUME Init PROVE Store!Init
  OBVIOUS
<1>1. \A k \in Block : Contents(k) \in Data
  BY InitInv, ContentsAreKnown DEF AllContentsKnown, ContentsKnown
<1>2. \A p \in Proc : Held(p) = NoBlock
  BY DEF Init, Held
<1> QED
  BY <1>1, <1>2 DEF Init, Store!Init

LEMMA NextRefines == Inv /\ Inv' /\ [Next]_vars => [Store!Next]_(Store!vars)
<1> SUFFICES ASSUME Inv, Inv', [Next]_vars PROVE Store!Next \/ UNCHANGED View
  BY DEF View, Store!vars
<1>1. ASSUME NEW p \in Proc, Hidden(p) PROVE UNCHANGED View
  BY <1>1, HiddenStutters
<1>2. ASSUME NEW p \in Proc, Ready(p) \/ ReadDone(p) PROVE Store!Next
  BY <1>2, AcquireRefines DEF Store!Next
<1>3. ASSUME NEW p \in Proc, Brelse(p) PROVE Store!Next
  BY <1>3, ReleaseRefines DEF Store!Next
<1>4. ASSUME NEW p \in Proc, NEW d \in Data, Modify(p, d) PROVE Store!Next \/ UNCHANGED View
  BY <1>4, WriteRefines DEF Store!Next
<1>5. ASSUME NEW p \in Proc, Reuse(p) PROVE Store!Next
  BY <1>5, ReuseRefines DEF Store!Next
<1>6. ASSUME NEW b \in Buffer, Move(b) PROVE Store!Next
  BY <1>6, MoveRefines DEF Store!Next
<1>7. ASSUME NEW b \in Buffer, NEW ok \in BOOLEAN, EndRequest(b, ok) PROVE Store!Next
  BY <1>7, EndRefines DEF Store!Next
<1>8. CASE UNCHANGED vars
  <2>1. UNCHANGED <<b_block, free_list, b_uptodate, b_data, disk, failed, pc, block>>
    BY <1>8 DEF vars, identity, flags, drive, local
  <2> QED
    BY <2>1, SameContents, SameHeld DEF View
<1>9. CASE Next
  BY <1>1, <1>2, <1>3, <1>4, <1>5, <1>6, <1>7, <1>9 DEF Next, GetBlk, Rest, Disk, Hidden
<1> QED
  BY <1>8, <1>9

\* The cache implements the array of blocks: no change is lost to an eviction, a
\* late read, or a write that the change has overtaken.
THEOREM Refinement == Spec => ImplementsBlockStore
<1> QED
  BY InitRefines, NextRefines, InvHolds, PTL DEF Spec, ImplementsBlockStore, Store!Spec
=============================================================================
