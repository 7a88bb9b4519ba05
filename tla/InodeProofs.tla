----------------------------- MODULE InodeProofs -----------------------------
(***************************************************************************)
(* Proofs of the safety properties of module InodeTable, for every finite  *)
(* set of processes and every size of the table and of the device, and     *)
(* that it implements Files.                                               *)
(***************************************************************************)
EXTENDS InodeTable, FiniteSetTheorems, WellFoundedInduction, TLAPS

SlotType == [i_num : Inode \cup {0}, i_count : Nat, i_lock : BOOLEAN,
             i_dirt : BOOLEAN, d : [i_nlinks : 0 .. 1, data : Data]]

\* The slot a process has a reference to: the empty one while it waits in iget().
Mine    == [p \in Proc |-> IF pc[p] = "iget" THEN empty[p] ELSE inode[p]]
Waiting == [p \in Proc |-> pc[p] = "iget"]

UsersOf(M, s) == {q \in Proc : M[q] = s}

\* A slot that get_empty_inode() has handed out.
Fresh(slot) == slot.i_num = 0 /\ slot.i_count = 1 /\ ~slot.i_dirt /\ ~slot.i_lock

(* What is true of a table t when every q has a reference to M[q], wants   *)
(* inode N[q], and is still looking for it iff W[q].                       *)
TableTypes(t, M, N, W) ==
  /\ t \in [Slot -> SlotType]
  /\ M \in [Proc -> Slot \cup {None}]
  /\ N \in [Proc -> Inode \cup {None}]
  /\ W \in [Proc -> BOOLEAN]

OneSlot(t) ==
  \A s, u \in Slot : t[s].i_num = t[u].i_num /\ t[s].i_num # 0 => s = u

RootIsThere(t) == \E s \in Slot : t[s].i_num = ROOT_INO

Rooted(slot) == IF slot.i_num = ROOT_INO THEN 4 ELSE 0

Counts(t, M) ==
  \A s \in Slot : t[s].i_count = Cardinality(UsersOf(M, s)) + Rooted(t[s])

Idle(t) == \A s \in Slot : t[s].i_count = 0 => ~t[s].i_dirt /\ ~t[s].i_lock

DirtyIsSome(t) == \A s \in Slot : t[s].i_dirt => t[s].i_num # 0

Holders(t, M, N, W) ==
  \A q \in Proc : M[q] # None =>
    /\ N[q] \in Inode
    /\ W[q] => Fresh(t[M[q]])
    /\ ~W[q] => t[M[q]].i_num = N[q]

TableInv(t, M, N, W) ==
  /\ TableTypes(t, M, N, W)
  /\ OneSlot(t) /\ RootIsThere(t)
  /\ Counts(t, M)
  /\ Idle(t) /\ DirtyIsSome(t)
  /\ Holders(t, M, N, W)

\* Which local variables are in use where.
Fits(place, s, e, k) ==
  /\ place = "iget" <=> e # None
  /\ place \in {"iget", "read", "use", "repeat", "write", "truncate"} => s # None
  /\ place = "idle" => s = None
  /\ place \in {"sync", "sync_write"} => k # None
Locals == \A p \in Proc : Fits(pc[p], inode[p], empty[p], i[p])

LocalTypes ==
  /\ pc \in [Proc -> Places]
  /\ inode \in [Proc -> Slot \cup {None}] /\ empty \in [Proc -> Slot \cup {None}]
  /\ nr \in [Proc -> Inode \cup {None}] /\ i \in [Proc -> Slot \cup {None}]

\* What the processes do with the table.
Control == LocalTypes /\ Locals /\ TableInv(inode_table, Mine, nr, Waiting)

\* The variables that are not what a process has of the table.
BlockType  == block \in [Proc -> (0 .. NrBlocks - 1) \cup {None}]
WorldTypes ==
  /\ last_inode \in Slot
  /\ disk \in [Inode -> [i_nlinks : 0 .. 1, data : Data]]
  /\ imap \subseteq Inode /\ zmap \subseteq imap /\ names \subseteq Inode
  /\ BlockType
  /\ panicked \in BOOLEAN /\ intact \in BOOLEAN

\* The inductive invariant.
Inv == WorldTypes /\ Control

-----------------------------------------------------------------------------
(* Numbers and sets.                                                       *)

\* A set of numbers that is not empty has a smallest element.
LEMMA HasMinimum ==
  ASSUME NEW S \in SUBSET Nat, S # {}
  PROVE  \E x \in S : \A y \in S : x <= y
<1> DEFINE R == OpToRel(<, Nat)
<1>1. IsWellFoundedOn(R, Nat)
  BY NatLessThanWellFounded
<1> HIDE DEF R
<1>2. PICK x \in S : \A y \in S : ~(<<y, x>> \in R)
  BY <1>1, WFMin
<1>3. \A y \in S : y < x => <<y, x>> \in R
  BY DEF R, OpToRel
<1>4. ASSUME NEW y \in S PROVE x <= y
  <2>1. x \in Nat /\ y \in Nat
    OBVIOUS
  <2>2. ~(y < x)
    BY <1>2, <1>3
  <2> HIDE DEF R
  <2> QED
    BY <2>1, <2>2
<1> QED
  BY <1>4

\* The constants.
LEMMA Sizes ==
  /\ NR_INODE \in Nat /\ NR_INODE > 1
  /\ Slot \subseteq Nat /\ None \notin Slot
  /\ Inode \subseteq Nat \ {0} /\ ROOT_INO \in Inode /\ None \notin Inode
  /\ Zero \in Data
<1>1. NrBlocks * INODES_PER_BLOCK \in Nat \ {0}
  BY TableAssumption, SMT
<1>2. ROOT_INO \in Inode
  BY <1>1 DEF Inode, ROOT_INO
<1>3. Zero \in Data
  BY TableAssumption DEF Zero
<1> QED
  BY <1>1, <1>2, <1>3, TableAssumption DEF Slot, Inode, None

\* The number of users is finite, and is zero only if there are none.
LEMMA Users ==
  ASSUME NEW M, NEW s
  PROVE  /\ IsFiniteSet(UsersOf(M, s))
         /\ Cardinality(UsersOf(M, s)) \in Nat
         /\ Cardinality(UsersOf(M, s)) = 0 <=> UsersOf(M, s) = {}
<1>1. IsFiniteSet(UsersOf(M, s))
  BY ProcAssumption, FS_Subset DEF UsersOf
<1> QED
  BY <1>1, FS_CardinalityType, FS_EmptySet

\* Two users count two.
LEMMA OneUser ==
  ASSUME NEW M, NEW s, Cardinality(UsersOf(M, s)) = 1,
         NEW p \in UsersOf(M, s), NEW q \in UsersOf(M, s)
  PROVE  p = q
<1>1. PICK x : UsersOf(M, s) = {x}
  BY Users, FS_Singleton
<1> QED
  BY <1>1

\* Whether x is v, in numbers.
One(x, v) == IF x = v THEN 1 ELSE 0

\* A process that turns from slot M[p] to slot x.
LEMMA CountMoves ==
  ASSUME NEW M, M \in [Proc -> Slot \cup {None}], NEW p \in Proc,
         NEW x \in Slot \cup {None}, NEW v \in Slot
  PROVE  Cardinality(UsersOf([M EXCEPT ![p] = x], v)) =
           Cardinality(UsersOf(M, v)) - One(M[p], v) + One(x, v)
<1> DEFINE A == UsersOf(M, v)
           B == UsersOf([M EXCEPT ![p] = x], v)
<1>1. B = IF x = v THEN (A \ {p}) \cup {p} ELSE A \ {p}
  BY DEF UsersOf
<1>2. p \in A <=> M[p] = v
  BY DEF UsersOf
<1>3. IsFiniteSet(A) /\ Cardinality(A) \in Nat
  BY Users
<1> HIDE DEF A, B
<1>4. /\ IsFiniteSet(A \ {p})
      /\ Cardinality(A \ {p}) = IF p \in A THEN Cardinality(A) - 1 ELSE Cardinality(A)
  BY <1>3, FS_RemoveElement
<1>5. Cardinality((A \ {p}) \cup {p}) = Cardinality(A \ {p}) + 1
  BY <1>4, FS_AddElement
<1> QED
  BY <1>1, <1>2, <1>3, <1>4, <1>5 DEF A, B, One

-----------------------------------------------------------------------------
(* What a step does to a table with TableInv.                              *)

\* A slot that has an inode and a user.
Live(slot) == slot.i_num # 0 /\ slot.i_count # 0

\* What q refers to is in use.
LEMMA HeldCounts ==
  ASSUME NEW t, NEW M, NEW N, NEW W, TableInv(t, M, N, W),
         NEW q \in Proc, M[q] # None
  PROVE  /\ M[q] \in Slot /\ t[M[q]].i_count \in Nat \ {0}
         /\ ~W[q] => Live(t[M[q]])
<1>1. M[q] \in Slot
  BY DEF TableInv, TableTypes
<1>2. q \in UsersOf(M, M[q])
  BY DEF UsersOf
<1>3. Cardinality(UsersOf(M, M[q])) \in Nat \ {0}
  BY <1>2, Users
<1>4. t[M[q]].i_count = Cardinality(UsersOf(M, M[q])) + Rooted(t[M[q]])
  BY <1>1 DEF TableInv, Counts
<1>5. t[M[q]].i_count \in Nat \ {0}
  BY <1>3, <1>4 DEF Rooted
<1>6. ~W[q] => t[M[q]].i_num # 0
  BY Sizes DEF TableInv, Holders
<1> QED
  BY <1>1, <1>5, <1>6 DEF Live

\* A slot that was just handed out has one user.
LEMMA FreshIsMine ==
  ASSUME NEW t, NEW M, NEW N, NEW W, TableInv(t, M, N, W),
         NEW s \in Slot, t[s].i_count = 1, t[s].i_num # ROOT_INO,
         NEW p \in Proc, M[p] = s, NEW q \in Proc, M[q] = s
  PROVE  p = q
<1>1. t[s].i_count = Cardinality(UsersOf(M, s)) + Rooted(t[s])
  BY DEF TableInv, Counts
<1>2. Cardinality(UsersOf(M, s)) \in Nat
  BY Users
<1>3. Cardinality(UsersOf(M, s)) = 1
  BY <1>1, <1>2 DEF Rooted
<1> QED
  BY <1>3, OneUser, ZenonT(60) DEF UsersOf

\* A cleared slot is a slot.
LEMMA ClearedIsSlot == Cleared \in SlotType
<1>1. Zero \in Data
  BY Sizes
<1>2. [i_nlinks |-> 0, data |-> Zero] \in [i_nlinks : 0 .. 1, data : Data]
  BY <1>1
<1> QED
  BY <1>2 DEF Cleared, SlotType, DInode

\* Locking, unlocking, changing and writing back.
LEMMA QuietStep ==
  ASSUME NEW t, NEW M, NEW N, NEW W, TableInv(t, M, N, W),
         NEW u \in [Slot -> SlotType],
         \A s \in Slot : /\ u[s].i_num = t[s].i_num /\ u[s].i_count = t[s].i_count
                         /\ u[s].i_dirt => t[s].i_dirt \/ Live(t[s])
                         /\ u[s].i_lock => t[s].i_lock \/ Live(t[s])
  PROVE  TableInv(u, M, N, W)
<1>1. OneSlot(u) /\ RootIsThere(u)
  BY DEF TableInv, OneSlot, RootIsThere
<1>2. Counts(u, M)
  BY DEF TableInv, Counts, Rooted
<1>3. Idle(u) /\ DirtyIsSome(u)
  BY DEF TableInv, Idle, DirtyIsSome, Live
<1>4. Holders(u, M, N, W)
  BY DEF TableInv, Holders, Fresh, Live, TableTypes
<1> QED
  BY <1>1, <1>2, <1>3, <1>4 DEF TableInv, TableTypes

\* get_empty_inode(): p takes the unused slot e.
LEMMA TakeEmpty ==
  ASSUME NEW t, NEW M, NEW N, NEW W, TableInv(t, M, N, W),
         NEW p \in Proc, M[p] = None, NEW e \in Slot, t[e].i_count = 0, NEW n \in Inode
  PROVE  TableInv([t EXCEPT ![e] = [Cleared EXCEPT !.i_count = 1]],
                  [M EXCEPT ![p] = e], [N EXCEPT ![p] = n], [W EXCEPT ![p] = TRUE])
<1> DEFINE u == [t EXCEPT ![e] = [Cleared EXCEPT !.i_count = 1]]
           M2 == [M EXCEPT ![p] = e]
           N2 == [N EXCEPT ![p] = n]
           W2 == [W EXCEPT ![p] = TRUE]
<1>1. TableTypes(u, M2, N2, W2)
  <2>1. [Cleared EXCEPT !.i_count = 1] \in SlotType
    BY ClearedIsSlot DEF SlotType
  <2> QED
    BY <2>1 DEF TableInv, TableTypes
<1>2. /\ \A s \in Slot : s # e => u[s] = t[s]
      /\ Fresh(u[e])
  BY DEF TableInv, TableTypes, Fresh, Cleared
<1>3. Cardinality(UsersOf(M, e)) = 0 /\ Rooted(t[e]) = 0
  <2>1. Cardinality(UsersOf(M, e)) \in Nat
    BY Users
  <2> QED
    BY <2>1 DEF TableInv, Counts, Rooted
<1>4. UsersOf(M, e) = {}
  BY <1>3, Users
<1>5. OneSlot(u) /\ Idle(u) /\ DirtyIsSome(u)
  BY <1>2 DEF TableInv, OneSlot, Idle, DirtyIsSome, Fresh
<1>6. RootIsThere(u)
  BY <1>2, <1>3 DEF TableInv, RootIsThere, Rooted
<1>7. Counts(u, M2)
  <2> SUFFICES ASSUME NEW s \in Slot
               PROVE  u[s].i_count = Cardinality(UsersOf(M2, s)) + Rooted(u[s])
    BY DEF Counts
  <2>1. Cardinality(UsersOf(M2, s)) =
           Cardinality(UsersOf(M, s)) - One(M[p], s) + One(e, s)
    <3>1. M \in [Proc -> Slot \cup {None}] /\ e \in Slot \cup {None}
      BY DEF TableInv, TableTypes
    <3> HIDE DEF M2
    <3>2. M2 = [M EXCEPT ![p] = e]
      BY DEF M2
    <3>3. Cardinality(UsersOf([M EXCEPT ![p] = e], s)) =
           Cardinality(UsersOf(M, s)) - One(M[p], s) + One(e, s)
      BY <3>1, CountMoves
    <3> QED
      BY <3>2, <3>3
  <2>2. M[p] # s
    BY Sizes
  <2>3. CASE s = e
    BY <2>1, <2>2, <2>3, <1>2, <1>3 DEF Fresh, Rooted, ROOT_INO, One
  <2>4. CASE s # e
    <3>1. Cardinality(UsersOf(M, s)) \in Nat
      BY Users
    <3> QED
      BY <2>1, <2>2, <2>4, <3>1, <1>2 DEF TableInv, Counts, Rooted, One
  <2> QED
    BY <2>3, <2>4
<1>8. Holders(u, M2, N2, W2)
  <2> SUFFICES ASSUME NEW q \in Proc, M2[q] # None
               PROVE  /\ N2[q] \in Inode
                      /\ W2[q] => Fresh(u[M2[q]])
                      /\ ~W2[q] => u[M2[q]].i_num = N2[q]
    BY DEF Holders
  <2>1. CASE q = p
    BY <2>1, <1>2 DEF TableInv, TableTypes
  <2>2. CASE q # p
    <3>1. M2[q] = M[q] /\ N2[q] = N[q] /\ W2[q] = W[q]
      BY <2>2 DEF TableInv, TableTypes
    <3>2. M[q] # e
      BY <1>4 DEF UsersOf
    <3>3. M[q] \in Slot
      BY <3>1 DEF TableInv, TableTypes
    <3> QED
      BY <3>1, <3>2, <3>3, <1>2 DEF TableInv, Holders
  <2> QED
    BY <2>1, <2>2
<1> HIDE DEF u, M2, N2, W2
<1>9. TableInv(u, M2, N2, W2)
  BY <1>1, <1>5, <1>6, <1>7, <1>8 DEF TableInv
<1> QED
  BY <1>9 DEF u, M2, N2, W2

\* iget() has found inode n in slot s: p turns to it, and e is given back.
LEMMA FoundStep ==
  ASSUME NEW t, NEW M, NEW N, NEW W, TableInv(t, M, N, W),
         NEW p \in Proc, NEW e \in Slot, M[p] = e, W[p], NEW n \in Inode,
         NEW s \in Slot, t[s].i_num = n
  PROVE  TableInv([t EXCEPT ![s].i_count = @ + 1, ![e].i_count = @ - 1],
                  [M EXCEPT ![p] = s], [N EXCEPT ![p] = n], [W EXCEPT ![p] = FALSE])
<1> DEFINE u == [t EXCEPT ![s].i_count = @ + 1, ![e].i_count = @ - 1]
           M2 == [M EXCEPT ![p] = s]
           N2 == [N EXCEPT ![p] = n]
           W2 == [W EXCEPT ![p] = FALSE]
<1>1. Fresh(t[e]) /\ s # e
  BY Sizes DEF TableInv, Holders, Fresh
<1>2. /\ u \in [Slot -> SlotType]
      /\ u[s] = [t[s] EXCEPT !.i_count = @ + 1]
      /\ u[e] = [t[e] EXCEPT !.i_count = @ - 1]
      /\ \A v \in Slot : v # s /\ v # e => u[v] = t[v]
  <2>1. t[s].i_count \in Nat /\ t[e].i_count - 1 \in Nat
    BY <1>1 DEF TableInv, TableTypes, SlotType, Fresh
  <2>2. t \in [Slot -> SlotType]
    BY DEF TableInv, TableTypes
  <2>3. /\ [t[s] EXCEPT !.i_count = @ + 1] \in SlotType
        /\ [t[e] EXCEPT !.i_count = @ - 1] \in SlotType
    BY <2>1, <2>2 DEF SlotType
  <2>4. /\ u[s] = [t[s] EXCEPT !.i_count = @ + 1]
        /\ u[e] = [t[e] EXCEPT !.i_count = @ - 1]
        /\ \A v \in Slot : v # s /\ v # e => u[v] = t[v]
    BY <1>1, <2>2
  <2>5. u = [v \in Slot |-> u[v]]
    BY <2>2
  <2> HIDE DEF u
  <2>6. \A v \in Slot : u[v] \in SlotType
    BY <2>2, <2>3, <2>4
  <2> QED
    BY <2>4, <2>5, <2>6
<1>3. \A v \in Slot : /\ u[v].i_num = t[v].i_num /\ u[v].i_dirt = t[v].i_dirt
                      /\ u[v].i_lock = t[v].i_lock
  BY <1>2 DEF TableInv, TableTypes, SlotType
<1>4. /\ u[s].i_count = t[s].i_count + 1 /\ t[s].i_count \in Nat
      /\ u[e].i_count = 0
      /\ \A v \in Slot : v # s /\ v # e => u[v].i_count = t[v].i_count
  BY <1>1, <1>2 DEF TableInv, TableTypes, SlotType, Fresh
<1>5. TableTypes(u, M2, N2, W2)
  BY <1>2 DEF TableInv, TableTypes
<1> HIDE DEF u
<1>6. OneSlot(u) /\ RootIsThere(u) /\ DirtyIsSome(u)
  BY <1>3 DEF TableInv, OneSlot, RootIsThere, DirtyIsSome
<1>7. Idle(u)
  BY <1>1, <1>3, <1>4 DEF TableInv, Idle, Fresh
<1>8. Counts(u, M2)
  <2> SUFFICES ASSUME NEW v \in Slot
               PROVE  u[v].i_count = Cardinality(UsersOf(M2, v)) + Rooted(u[v])
    BY DEF Counts
  <2>1. Cardinality(UsersOf(M2, v)) =
           Cardinality(UsersOf(M, v)) - One(M[p], v) + One(s, v)
    <3>1. M \in [Proc -> Slot \cup {None}] /\ s \in Slot \cup {None}
      BY DEF TableInv, TableTypes
    <3> HIDE DEF M2
    <3>2. M2 = [M EXCEPT ![p] = s]
      BY DEF M2
    <3>3. Cardinality(UsersOf([M EXCEPT ![p] = s], v)) =
           Cardinality(UsersOf(M, v)) - One(M[p], v) + One(s, v)
      BY <3>1, CountMoves
    <3> QED
      BY <3>2, <3>3
  <2>2. t[v].i_count = Cardinality(UsersOf(M, v)) + Rooted(t[v])
    BY DEF TableInv, Counts
  <2>3. Cardinality(UsersOf(M, v)) \in Nat /\ Rooted(u[v]) = Rooted(t[v]) /\ Rooted(t[v]) \in Nat
    BY Users, <1>3 DEF Rooted
  <2>4. t[e].i_count = 1
    BY <1>1 DEF Fresh
  <2> QED
    BY <1>1, <1>4, <2>1, <2>2, <2>3, <2>4 DEF One
<1>9. Holders(u, M2, N2, W2)
  <2> SUFFICES ASSUME NEW q \in Proc, M2[q] # None
               PROVE  /\ N2[q] \in Inode
                      /\ W2[q] => Fresh(u[M2[q]])
                      /\ ~W2[q] => u[M2[q]].i_num = N2[q]
    BY DEF Holders
  <2>1. CASE q = p
    BY <2>1, <1>3 DEF TableInv, TableTypes
  <2>2. CASE q # p
    <3>1. M2[q] = M[q] /\ N2[q] = N[q] /\ W2[q] = W[q]
      BY <2>2 DEF TableInv, TableTypes
    <3>2. M[q] # e
      BY <1>1, <2>2, FreshIsMine, Sizes DEF Fresh
    <3>3. M[q] \in Slot
      BY <3>1 DEF TableInv, TableTypes
    <3>4. /\ N[q] \in Inode
          /\ W[q] => Fresh(t[M[q]])
          /\ ~W[q] => t[M[q]].i_num = N[q]
      BY <3>1 DEF TableInv, Holders
    <3>5. W[q] => M[q] # s
      BY <3>4, Sizes DEF Fresh
    <3> QED
      BY <3>1, <3>2, <3>3, <3>4, <3>5, <1>3, <1>4 DEF Fresh
  <2> QED
    BY <2>1, <2>2
<1> HIDE DEF M2, N2, W2
<1>10. TableInv(u, M2, N2, W2)
  BY <1>5, <1>6, <1>7, <1>8, <1>9 DEF TableInv
<1> QED
  BY <1>10 DEF u, M2, N2, W2

\* read_inode(): slot e, which p has from get_empty_inode(), becomes inode n.
LEMMA ReadStep ==
  ASSUME NEW t, NEW M, NEW N, NEW W, TableInv(t, M, N, W),
         NEW p \in Proc, NEW e \in Slot, M[p] = e, W[p], NEW n \in Inode,
         \A s \in Slot : t[s].i_num # n
  PROVE  TableInv([t EXCEPT ![e].i_num = n, ![e].i_lock = TRUE],
                  M, [N EXCEPT ![p] = n], [W EXCEPT ![p] = FALSE])
<1> DEFINE u == [t EXCEPT ![e].i_num = n, ![e].i_lock = TRUE]
           N2 == [N EXCEPT ![p] = n]
           W2 == [W EXCEPT ![p] = FALSE]
<1>1. Fresh(t[e])
  BY Sizes DEF TableInv, Holders
<1>2. /\ u \in [Slot -> SlotType]
      /\ u[e] = [t[e] EXCEPT !.i_num = n, !.i_lock = TRUE]
      /\ \A v \in Slot : v # e => u[v] = t[v]
  <2>1. t \in [Slot -> SlotType]
    BY DEF TableInv, TableTypes
  <2>2. [t[e] EXCEPT !.i_num = n, !.i_lock = TRUE] \in SlotType
    BY <2>1 DEF SlotType
  <2>3. u = [t EXCEPT ![e] = [t[e] EXCEPT !.i_num = n, !.i_lock = TRUE]]
    BY <2>1
  <2> HIDE DEF u
  <2> QED
    BY <2>1, <2>2, <2>3
<1>3. /\ u[e].i_num = n /\ u[e].i_lock /\ u[e].i_count = 1 /\ ~u[e].i_dirt
      /\ \A v \in Slot : u[v].i_count = t[v].i_count
      /\ \A v \in Slot : v # e => u[v] = t[v]
  BY <1>1, <1>2 DEF TableInv, TableTypes, SlotType, Fresh
<1>4. TableTypes(u, M, N2, W2)
  BY <1>2 DEF TableInv, TableTypes
<1>5. n # ROOT_INO /\ n # 0
  BY Sizes DEF TableInv, RootIsThere
<1> HIDE DEF u
<1>6. OneSlot(u)
  BY <1>3, <1>5 DEF TableInv, OneSlot
<1>11. Idle(u) /\ DirtyIsSome(u)
  BY <1>3, <1>5 DEF TableInv, Idle, DirtyIsSome
<1>7. RootIsThere(u)
  BY <1>1, <1>2, Sizes DEF TableInv, RootIsThere, Fresh
<1>8. Counts(u, M)
  <2>1. \A v \in Slot : Rooted(u[v]) = Rooted(t[v])
    BY <1>1, <1>2, <1>3, <1>5, Sizes DEF Rooted, Fresh
  <2> QED
    BY <1>3, <2>1 DEF TableInv, Counts
<1>9. Holders(u, M, N2, W2)
  <2> SUFFICES ASSUME NEW q \in Proc, M[q] # None
               PROVE  /\ N2[q] \in Inode
                      /\ W2[q] => Fresh(u[M[q]])
                      /\ ~W2[q] => u[M[q]].i_num = N2[q]
    BY DEF Holders
  <2>1. CASE q = p
    BY <2>1, <1>3 DEF TableInv, TableTypes
  <2>2. CASE q # p
    <3>1. N2[q] = N[q] /\ W2[q] = W[q]
      BY <2>2 DEF TableInv, TableTypes
    <3>2. M[q] # e
      BY <1>1, <2>2, FreshIsMine, Sizes DEF Fresh
    <3>3. M[q] \in Slot
      BY DEF TableInv, TableTypes
    <3> QED
      BY <3>1, <3>2, <3>3, <1>2 DEF TableInv, Holders
  <2> QED
    BY <2>1, <2>2
<1> HIDE DEF N2, W2
<1>10. TableInv(u, M, N2, W2)
  BY <1>4, <1>6, <1>11, <1>7, <1>8, <1>9 DEF TableInv
<1> QED
  BY <1>10 DEF u, N2, W2

\* iput(): p gives its reference back.
LEMMA LeaveStep ==
  ASSUME NEW t, NEW M, NEW N, NEW W, TableInv(t, M, N, W),
         NEW p \in Proc, NEW s \in Slot, M[p] = s, ~W[p],
         ~t[s].i_lock, t[s].i_count > 1 \/ ~t[s].i_dirt
  PROVE  TableInv([t EXCEPT ![s].i_count = @ - 1],
                  [M EXCEPT ![p] = None], [N EXCEPT ![p] = None], W)
<1> DEFINE u == [t EXCEPT ![s].i_count = @ - 1]
           M2 == [M EXCEPT ![p] = None]
           N2 == [N EXCEPT ![p] = None]
<1>1. t[s].i_count \in Nat \ {0} /\ s # None
  BY HeldCounts, Sizes
<1>2. /\ u \in [Slot -> SlotType]
      /\ u[s] = [t[s] EXCEPT !.i_count = @ - 1]
      /\ \A v \in Slot : v # s => u[v] = t[v]
  <2>1. t \in [Slot -> SlotType]
    BY DEF TableInv, TableTypes
  <2>2. t[s].i_count - 1 \in Nat
    BY <1>1
  <2>3. [t[s] EXCEPT !.i_count = @ - 1] \in SlotType
    BY <2>1, <2>2 DEF SlotType
  <2>4. u = [t EXCEPT ![s] = [t[s] EXCEPT !.i_count = @ - 1]]
    BY <2>1
  <2> HIDE DEF u
  <2> QED
    BY <2>1, <2>3, <2>4
<1>3. \A v \in Slot : /\ u[v].i_num = t[v].i_num /\ u[v].i_dirt = t[v].i_dirt
                      /\ u[v].i_lock = t[v].i_lock
                      /\ u[v].i_count = IF v = s THEN t[v].i_count - 1 ELSE t[v].i_count
  BY <1>2 DEF TableInv, TableTypes, SlotType
<1>4. TableTypes(u, M2, N2, W)
  BY <1>2 DEF TableInv, TableTypes
<1> HIDE DEF u
<1>5. OneSlot(u) /\ RootIsThere(u) /\ DirtyIsSome(u)
  BY <1>3 DEF TableInv, OneSlot, RootIsThere, DirtyIsSome
<1>6. Idle(u)
  BY <1>1, <1>3 DEF TableInv, Idle
<1>7. Counts(u, M2)
  <2> SUFFICES ASSUME NEW v \in Slot
               PROVE  u[v].i_count = Cardinality(UsersOf(M2, v)) + Rooted(u[v])
    BY DEF Counts
  <2>1. Cardinality(UsersOf(M2, v)) = Cardinality(UsersOf(M, v)) - One(M[p], v) + One(None, v)
    <3>1. M \in [Proc -> Slot \cup {None}] /\ None \in Slot \cup {None}
      BY DEF TableInv, TableTypes
    <3> HIDE DEF M2
    <3>2. M2 = [M EXCEPT ![p] = None]
      BY DEF M2
    <3>3. Cardinality(UsersOf([M EXCEPT ![p] = None], v)) =
            Cardinality(UsersOf(M, v)) - One(M[p], v) + One(None, v)
      BY <3>1, CountMoves
    <3> QED
      BY <3>2, <3>3
  <2>2. t[v].i_count = Cardinality(UsersOf(M, v)) + Rooted(t[v])
    BY DEF TableInv, Counts
  <2>3. Cardinality(UsersOf(M, v)) \in Nat /\ Rooted(u[v]) = Rooted(t[v]) /\ Rooted(t[v]) \in Nat
    BY Users, <1>3 DEF Rooted
  <2>4. None # v
    BY Sizes
  <2> QED
    BY <1>3, <2>1, <2>2, <2>3, <2>4 DEF One
<1>8. Holders(u, M2, N2, W)
  <2> SUFFICES ASSUME NEW q \in Proc, M2[q] # None
               PROVE  /\ N2[q] \in Inode
                      /\ W[q] => Fresh(u[M2[q]])
                      /\ ~W[q] => u[M2[q]].i_num = N2[q]
    BY DEF Holders
  <2>1. q # p
    BY DEF TableInv, TableTypes
  <2>2. M2[q] = M[q] /\ N2[q] = N[q]
    BY <2>1 DEF TableInv, TableTypes
  <2>3. M[q] \in Slot
    BY <2>2 DEF TableInv, TableTypes
  <2>4. /\ N[q] \in Inode
        /\ W[q] => Fresh(t[M[q]])
        /\ ~W[q] => t[M[q]].i_num = N[q]
    BY <2>2 DEF TableInv, Holders
  <2>5. t[s].i_num # 0
    BY <1>1, Sizes DEF TableInv, Holders
  <2>6. W[q] => M[q] # s
    BY <2>4, <2>5 DEF Fresh
  <2> QED
    BY <2>2, <2>3, <2>4, <2>6, <1>3 DEF Fresh
<1> HIDE DEF M2, N2
<1>9. TableInv(u, M2, N2, W)
  BY <1>4, <1>5, <1>6, <1>7, <1>8 DEF TableInv
<1> QED
  BY <1>9 DEF u, M2, N2

\* free_inode(): p clears the slot that only p uses.
LEMMA FreeStep ==
  ASSUME NEW t, NEW M, NEW N, NEW W, TableInv(t, M, N, W),
         NEW p \in Proc, NEW s \in Slot, M[p] = s, ~W[p], ~(t[s].i_count > 1)
  PROVE  TableInv([t EXCEPT ![s] = Cleared],
                  [M EXCEPT ![p] = None], [N EXCEPT ![p] = None], W)
<1> DEFINE u == [t EXCEPT ![s] = Cleared]
           M2 == [M EXCEPT ![p] = None]
           N2 == [N EXCEPT ![p] = None]
<1>1. t[s].i_count = 1
  BY HeldCounts, Sizes
<1>2. t[s].i_count = Cardinality(UsersOf(M, s)) + Rooted(t[s])
  BY DEF TableInv, Counts
<1>3. Cardinality(UsersOf(M, s)) = 1 /\ t[s].i_num # ROOT_INO
  BY <1>1, <1>2, Users DEF Rooted
<1>4. \A q \in Proc : M[q] = s => q = p
  BY <1>1, <1>3, FreshIsMine
<1>5. /\ \A v \in Slot : v # s => u[v] = t[v]
      /\ u[s].i_num = 0 /\ u[s].i_count = 0 /\ ~u[s].i_lock /\ ~u[s].i_dirt
  BY DEF TableInv, TableTypes, Cleared
<1>6. TableTypes(u, M2, N2, W)
  BY ClearedIsSlot DEF TableInv, TableTypes
<1> HIDE DEF u
<1>7. OneSlot(u)
  BY <1>5 DEF TableInv, OneSlot
<1>8. RootIsThere(u)
  BY <1>3, <1>5 DEF TableInv, RootIsThere
<1>9. Idle(u) /\ DirtyIsSome(u)
  BY <1>5 DEF TableInv, Idle, DirtyIsSome
<1>10. Counts(u, M2)
  <2> SUFFICES ASSUME NEW v \in Slot
               PROVE  u[v].i_count = Cardinality(UsersOf(M2, v)) + Rooted(u[v])
    BY DEF Counts
  <2>1. Cardinality(UsersOf(M2, v)) = Cardinality(UsersOf(M, v)) - One(M[p], v) + One(None, v)
    <3>1. M \in [Proc -> Slot \cup {None}] /\ None \in Slot \cup {None}
      BY DEF TableInv, TableTypes
    <3> HIDE DEF M2
    <3>2. M2 = [M EXCEPT ![p] = None]
      BY DEF M2
    <3>3. Cardinality(UsersOf([M EXCEPT ![p] = None], v)) =
            Cardinality(UsersOf(M, v)) - One(M[p], v) + One(None, v)
      BY <3>1, CountMoves
    <3> QED
      BY <3>2, <3>3
  <2>2. t[v].i_count = Cardinality(UsersOf(M, v)) + Rooted(t[v])
    BY DEF TableInv, Counts
  <2>3. Cardinality(UsersOf(M, v)) \in Nat /\ None # v
    BY Users, Sizes
  <2>4. CASE v = s
    BY <2>4, <2>1, <2>3, <1>3, <1>5 DEF One, Rooted, ROOT_INO
  <2>5. CASE v # s
    BY <2>5, <2>1, <2>2, <2>3, <1>5 DEF One, Rooted
  <2> QED
    BY <2>4, <2>5
<1>11. Holders(u, M2, N2, W)
  <2> SUFFICES ASSUME NEW q \in Proc, M2[q] # None
               PROVE  /\ N2[q] \in Inode
                      /\ W[q] => Fresh(u[M2[q]])
                      /\ ~W[q] => u[M2[q]].i_num = N2[q]
    BY DEF Holders
  <2>1. q # p
    BY DEF TableInv, TableTypes
  <2>2. M2[q] = M[q] /\ N2[q] = N[q]
    BY <2>1 DEF TableInv, TableTypes
  <2>3. M[q] \in Slot /\ M[q] # s
    BY <2>1, <2>2, <1>4 DEF TableInv, TableTypes
  <2> QED
    BY <2>2, <2>3, <1>5 DEF TableInv, Holders
<1> HIDE DEF M2, N2
<1>12. TableInv(u, M2, N2, W)
  BY <1>6, <1>7, <1>8, <1>9, <1>10, <1>11 DEF TableInv
<1> QED
  BY <1>12 DEF u, M2, N2

-----------------------------------------------------------------------------
(* The local variables.                                                    *)

\* p goes to a place, with the slots s and e, sync_inodes() at k, and inode number n.
Move(p, place, s, e, k, n) ==
  /\ place \in Places /\ pc' = [pc EXCEPT ![p] = place]
  /\ s \in Slot \cup {None} /\ inode' = [inode EXCEPT ![p] = s]
  /\ e \in Slot \cup {None} /\ empty' = [empty EXCEPT ![p] = e]
  /\ k \in Slot \cup {None} /\ i' = [i EXCEPT ![p] = k]
  /\ n \in Inode \cup {None} /\ nr' = [nr EXCEPT ![p] = n]
  /\ Fits(place, s, e, k)

\* A step of p, in the terms of the invariant.
LEMMA Moves ==
  ASSUME LocalTypes, Locals, NEW p \in Proc,
         NEW place, NEW s, NEW e, NEW k, NEW n, Move(p, place, s, e, k, n)
  PROVE  /\ LocalTypes' /\ Locals'
         /\ place = "iget" => /\ Mine' = [Mine EXCEPT ![p] = e]
                              /\ Waiting' = [Waiting EXCEPT ![p] = TRUE]
         /\ place # "iget" => /\ Mine' = [Mine EXCEPT ![p] = s]
                              /\ Waiting' = [Waiting EXCEPT ![p] = FALSE]
<1>1. LocalTypes'
  BY DEF LocalTypes, Move
<1>2. Locals'
  BY DEF LocalTypes, Locals, Move
<1>3. /\ pc'[p] = place /\ inode'[p] = s /\ empty'[p] = e
      /\ \A q \in Proc : q # p => pc'[q] = pc[q] /\ inode'[q] = inode[q] /\ empty'[q] = empty[q]
  BY DEF LocalTypes, Move
<1>4. /\ place = "iget" => Mine' = [Mine EXCEPT ![p] = e]
      /\ place # "iget" => Mine' = [Mine EXCEPT ![p] = s]
  BY <1>3 DEF Mine
<1>5. /\ place = "iget" => Waiting' = [Waiting EXCEPT ![p] = TRUE]
      /\ place # "iget" => Waiting' = [Waiting EXCEPT ![p] = FALSE]
  BY <1>3 DEF Waiting
<1> QED
  BY <1>1, <1>2, <1>4, <1>5

\* What p refers to.
LEMMA Refers ==
  ASSUME Control, NEW p \in Proc
  PROVE  /\ Mine[p] = IF pc[p] = "iget" THEN empty[p] ELSE inode[p]
         /\ Waiting[p] = (pc[p] = "iget")
         /\ Fits(pc[p], inode[p], empty[p], i[p])
         /\ pc[p] # "iget" => empty[p] = None
         /\ inode[p] \in Slot \cup {None} /\ empty[p] \in Slot \cup {None}
         /\ i[p] \in Slot \cup {None} /\ nr[p] \in Inode \cup {None}
         /\ pc[p] # "iget" => Mine = [Mine EXCEPT ![p] = inode[p]]
         /\ pc[p] # "iget" => Waiting = [Waiting EXCEPT ![p] = FALSE]
         /\ inode = [inode EXCEPT ![p] = inode[p]] /\ empty = [empty EXCEPT ![p] = empty[p]]
         /\ i = [i EXCEPT ![p] = i[p]] /\ nr = [nr EXCEPT ![p] = nr[p]]
         /\ pc = [pc EXCEPT ![p] = pc[p]]
         /\ inode_table \in [Slot -> SlotType]
<1>1. /\ Mine[p] = IF pc[p] = "iget" THEN empty[p] ELSE inode[p]
      /\ Waiting[p] = (pc[p] = "iget")
      /\ Fits(pc[p], inode[p], empty[p], i[p])
  BY DEF Control, Locals, Mine, Waiting
<1>2. pc[p] # "iget" => empty[p] = None
  BY <1>1 DEF Fits
<1>3. /\ inode[p] \in Slot \cup {None} /\ empty[p] \in Slot \cup {None}
      /\ i[p] \in Slot \cup {None} /\ nr[p] \in Inode \cup {None}
      /\ inode = [inode EXCEPT ![p] = inode[p]] /\ empty = [empty EXCEPT ![p] = empty[p]]
      /\ i = [i EXCEPT ![p] = i[p]] /\ nr = [nr EXCEPT ![p] = nr[p]]
      /\ pc = [pc EXCEPT ![p] = pc[p]]
  BY DEF Control, LocalTypes
<1>4. inode_table \in [Slot -> SlotType]
  BY DEF Control, TableInv, TableTypes
<1>5. pc[p] # "iget" => Mine = [Mine EXCEPT ![p] = inode[p]]
  BY <1>1 DEF Mine
<1>6. pc[p] # "iget" => Waiting = [Waiting EXCEPT ![p] = FALSE]
  BY <1>1 DEF Waiting
<1> QED
  BY <1>1, <1>2, <1>3, <1>4, <1>5, <1>6

-----------------------------------------------------------------------------
(* The procedures.                                                         *)

\* get_empty_inode() finds an unused slot when there is one.
LEMMA NextIsUnused ==
  ASSUME last_inode \in Slot, Unused # {}
  PROVE  NextUnused \in Unused
<1> DEFINE s(k) == (last_inode + k) % NR_INODE
           S == {k \in 1 .. NR_INODE : s(k) \in Unused}
<1>1. PICK v \in Unused : TRUE
  OBVIOUS
<1>2. v \in Slot /\ v \in Nat /\ v < NR_INODE
  BY <1>1, Sizes DEF Unused, Slot
<1>3. last_inode \in Nat /\ last_inode < NR_INODE /\ NR_INODE \in Nat
  BY Sizes DEF Slot
<1>4. \E k \in 1 .. NR_INODE : s(k) = v
  <2>1. CASE v > last_inode
    <3>1. v - last_inode \in 1 .. NR_INODE /\ last_inode + (v - last_inode) = v
      BY <1>2, <1>3, <2>1
    <3>2. v % NR_INODE = v
      BY <1>2, <1>3
    <3> QED
      BY <3>1, <3>2
  <2>2. CASE ~(v > last_inode)
    <3>1. /\ v + NR_INODE - last_inode \in 1 .. NR_INODE
          /\ last_inode + (v + NR_INODE - last_inode) = v + NR_INODE
      BY <1>2, <1>3, <2>2
    <3>2. (v + NR_INODE) % NR_INODE = v
      BY <1>2, <1>3
    <3> QED
      BY <3>1, <3>2
  <2> QED
    BY <2>1, <2>2
<1>5. S \in SUBSET Nat /\ S # {}
  <2>1. \E k \in 1 .. NR_INODE : s(k) \in Unused
    BY <1>1, <1>4
  <2> HIDE DEF s
  <2> QED
    BY <2>1
<1>6. PICK k \in S : \A m \in S : k <= m
  BY <1>5, HasMinimum
<1>7. \A m \in 1 .. k - 1 : s(m) \notin Unused
  BY <1>3, <1>6
<1> QED
  BY <1>6, <1>7 DEF NextUnused

\* The inode area has the block of every inode.
LEMMA BlockOfInode ==
  ASSUME NEW n \in Inode
  PROVE  BlockOf(n) \in 0 .. NrBlocks - 1
<1>1. n - 1 \in Nat /\ n - 1 < NrBlocks * INODES_PER_BLOCK
  BY TableAssumption DEF Inode
<1>2. \A x \in Nat : x < NrBlocks * INODES_PER_BLOCK => (x \div INODES_PER_BLOCK) \in 0 .. NrBlocks - 1
  BY TableAssumption
<1> QED
  BY <1>1, <1>2 DEF BlockOf

\* write_inode() up to bread(), for a slot that is dirty and not locked.
LEMMA WriteInodeStep ==
  ASSUME Control, BlockType,
         NEW p \in Proc, NEW s \in Slot, NEW t, TableInv(t, Mine, nr, Waiting),
         t[s].i_dirt
  PROVE  /\ TableInv([t EXCEPT ![s].i_lock = TRUE], Mine, nr, Waiting)
         /\ [block EXCEPT ![p] = BlockOf(t[s].i_num)] \in [Proc -> (0 .. NrBlocks - 1) \cup {None}]
<1> DEFINE u == [t EXCEPT ![s].i_lock = TRUE]
<1>1. t \in [Slot -> SlotType]
  BY DEF TableInv, TableTypes
<1>2. t[s].i_num \in Inode /\ Live(t[s])
  <2>1. t[s].i_num # 0
    BY DEF TableInv, DirtyIsSome
  <2>2. t[s].i_count # 0
    BY DEF TableInv, Idle
  <2> QED
    BY <1>1, <2>1, <2>2 DEF SlotType, Live
<1>3. u \in [Slot -> SlotType]
  BY <1>1 DEF SlotType
<1>4. /\ u[s] = [t[s] EXCEPT !.i_lock = TRUE]
      /\ \A v \in Slot : v # s => u[v] = t[v]
  BY <1>1
<1>5. \A v \in Slot : /\ u[v].i_num = t[v].i_num /\ u[v].i_count = t[v].i_count
                      /\ u[v].i_dirt = t[v].i_dirt
                      /\ v # s => u[v].i_lock = t[v].i_lock
  BY <1>1, <1>4 DEF SlotType
<1> HIDE DEF u
<1>6. TableInv(u, Mine, nr, Waiting)
  BY <1>2, <1>3, <1>5, QuietStep
<1> QED
  BY <1>2, <1>6, BlockOfInode DEF u, BlockType

\* sync_inodes(), from a place where p is not looking for an inode.
LEMMA SyncStep ==
  ASSUME Control, BlockType,
         NEW p \in Proc, pc[p] # "iget",
         NEW n \in Nat, NEW t, TableInv(t, Mine, nr, Waiting),
         SyncFrom(p, n, t), UNCHANGED <<inode, empty, nr>>
  PROVE  Control' /\ BlockType'
<1> DEFINE todo == {s \in n .. NR_INODE - 1 : t[s].i_lock \/ t[s].i_dirt}
           next == CHOOSE s \in todo : \A u \in todo : s <= u
           Post(place, k, v) ==
             /\ pc' = [pc EXCEPT ![p] = place] /\ place \in Places
             /\ i' = [i EXCEPT ![p] = k] /\ k \in Slot \cup {None}
             /\ Fits(place, inode[p], empty[p], k)
             /\ inode_table' = v /\ TableInv(v, Mine, nr, Waiting)
             /\ BlockType'
<1>1. ASSUME NEW place, NEW k, NEW v, Post(place, k, v)
      PROVE  Control' /\ BlockType'
  <2>1. /\ inode' = [inode EXCEPT ![p] = inode[p]] /\ empty' = [empty EXCEPT ![p] = empty[p]]
        /\ nr' = [nr EXCEPT ![p] = nr[p]] /\ empty[p] = None
        /\ inode[p] \in Slot \cup {None} /\ empty[p] \in Slot \cup {None}
        /\ nr[p] \in Inode \cup {None}
    BY Refers
  <2>2. place # "iget"
    BY <1>1, <2>1 DEF Fits
  <2>3. LocalTypes /\ Locals
    BY DEF Control
  <2>4. /\ LocalTypes' /\ Locals'
        /\ Mine' = [Mine EXCEPT ![p] = inode[p]]
        /\ Waiting' = [Waiting EXCEPT ![p] = FALSE]
    <3>1. Move(p, place, inode[p], empty[p], k, nr[p])
      BY <1>1, <2>1 DEF Move
    <3> QED
      BY <3>1, <2>2, <2>3, Moves
  <2>5. Mine' = Mine /\ Waiting' = Waiting
    BY <2>2, <2>4, Refers
  <2>6. TableInv(inode_table, Mine, nr, Waiting)'
    BY <1>1, <2>5
  <2> QED
    BY <1>1, <2>4, <2>6 DEF Control
<1>2. CASE todo = {}
  <2>1. Post(IF inode[p] = None THEN "idle" ELSE "repeat", None, t)
    BY <1>2, Refers DEF SyncFrom, Goto, Fits, Places, BlockType
  <2> QED
    BY <2>1, <1>1
<1>3. CASE todo # {}
  <2>1. PICK s \in todo : \A u \in todo : s <= u
    <3>1. todo \in SUBSET Nat
      BY Sizes
    <3> QED
      BY <1>3, <3>1, HasMinimum
  <2>2. next \in todo
    BY <2>1
  <2> HIDE DEF next
  <2>3. next \in Slot /\ next # None /\ (t[next].i_lock \/ t[next].i_dirt)
    BY <2>2, Sizes DEF Slot
  <2>4. CASE t[next].i_lock
    <3>1. Post("sync", next, t)
      BY <1>3, <2>3, <2>4, Refers DEF SyncFrom, Goto, Fits, Places, next, BlockType
    <3> QED
      BY <3>1, <1>1
  <2>5. CASE ~t[next].i_lock
    <3>1. /\ TableInv([t EXCEPT ![next].i_lock = TRUE], Mine, nr, Waiting)
          /\ [block EXCEPT ![p] = BlockOf(t[next].i_num)] \in [Proc -> (0 .. NrBlocks - 1) \cup {None}]
      BY <2>3, <2>5, WriteInodeStep
    <3>2. /\ i' = [i EXCEPT ![p] = next]
          /\ WriteInode(p, next, t, "sync_write")
      BY <1>3, <2>5 DEF SyncFrom, next
    <3>3. Post("sync_write", next, [t EXCEPT ![next].i_lock = TRUE])
      BY <3>1, <3>2, <2>3, Refers DEF WriteInode, Goto, Fits, Places, BlockType
    <3> QED
      BY <3>3, <1>1
  <2> QED
    BY <2>4, <2>5
<1> QED
  BY <1>2, <1>3

\* iget() has found the inode: p has it, and e is given back.
LEMMA FoundPost ==
  ASSUME Control, NEW p \in Proc, NEW n \in Inode, NEW e \in Slot, NEW s \in Slot, NEW t,
         TableInv(t, [Mine EXCEPT ![p] = e], [nr EXCEPT ![p] = n], [Waiting EXCEPT ![p] = TRUE]),
         t[s].i_num = n, Found(p, n, s, e, t), UNCHANGED i
  PROVE  Control'
<1> DEFINE M == [Mine EXCEPT ![p] = e]
           N == [nr EXCEPT ![p] = n]
           W == [Waiting EXCEPT ![p] = TRUE]
           u == [t EXCEPT ![s].i_count = @ + 1, ![e].i_count = @ - 1]
<1>1. M[p] = e /\ W[p]
  BY DEF Mine, Waiting
<1>2. TableInv(u, [M EXCEPT ![p] = s], [N EXCEPT ![p] = n], [W EXCEPT ![p] = FALSE])
  <2> HIDE DEF M, N, W, u
  <2>1. TableInv(t, M, N, W)
    BY DEF M, N, W
  <2> QED
    BY <1>1, <2>1, FoundStep DEF u
<1>3. /\ [M EXCEPT ![p] = s] = [Mine EXCEPT ![p] = s]
      /\ [W EXCEPT ![p] = FALSE] = [Waiting EXCEPT ![p] = FALSE]
      /\ [N EXCEPT ![p] = n] = [nr EXCEPT ![p] = n]
  BY DEF Mine, Waiting
<1>4. s # None /\ LocalTypes /\ Locals
  BY Sizes DEF Control
<1>5. Move(p, "use", s, None, i[p], n)
  BY <1>4, Refers DEF Found, Return, Goto, Move, Fits, Places
<1>6. /\ LocalTypes' /\ Locals'
      /\ Mine' = [Mine EXCEPT ![p] = s] /\ Waiting' = [Waiting EXCEPT ![p] = FALSE]
  BY <1>4, <1>5, Moves
<1>7. inode_table' = u /\ nr' = [nr EXCEPT ![p] = n]
  BY DEF Found, Return
<1> HIDE DEF M, N, W, u
<1> QED
  BY <1>2, <1>3, <1>6, <1>7 DEF Control

\* The scan of the table in iget(), with the slot e in hand.
LEMMA LookupPost ==
  ASSUME Control, NEW p \in Proc, NEW n \in Inode, NEW e \in Slot, NEW t,
         TableInv(t, [Mine EXCEPT ![p] = e], [nr EXCEPT ![p] = n], [Waiting EXCEPT ![p] = TRUE]),
         Lookup(p, n, e, t), UNCHANGED i
  PROVE  Control'
<1> DEFINE M == [Mine EXCEPT ![p] = e]
           N == [nr EXCEPT ![p] = n]
           W == [Waiting EXCEPT ![p] = TRUE]
           same == {s \in Slot : t[s].i_num = n}
           first == CHOOSE s \in same : \A u \in same : s <= u
<1>1. M[p] = e /\ W[p]
  BY DEF Mine, Waiting
<1>2. e # None /\ LocalTypes /\ Locals
  BY Sizes DEF Control
<1>3. CASE same = {}
  <2> DEFINE u == [t EXCEPT ![e].i_num = n, ![e].i_lock = TRUE]
  <2>1. ReadInode(p, n, e, t)
    BY <1>3 DEF Lookup
  <2>2. \A s \in Slot : t[s].i_num # n
    BY <1>3
  <2>3. TableInv(u, M, [N EXCEPT ![p] = n], [W EXCEPT ![p] = FALSE])
    <3> HIDE DEF M, N, W, u
    <3>1. TableInv(t, M, N, W)
      BY DEF M, N, W
    <3> QED
      BY <1>1, <2>2, <3>1, ReadStep DEF u
  <2>4. /\ [W EXCEPT ![p] = FALSE] = [Waiting EXCEPT ![p] = FALSE]
        /\ [N EXCEPT ![p] = n] = [nr EXCEPT ![p] = n]
    BY DEF Waiting
  <2>5. Move(p, "read", e, None, i[p], n)
    BY <1>2, <2>1, Refers DEF ReadInode, Goto, Move, Fits, Places
  <2>6. /\ LocalTypes' /\ Locals'
        /\ Mine' = [Mine EXCEPT ![p] = e] /\ Waiting' = [Waiting EXCEPT ![p] = FALSE]
    BY <1>2, <2>5, Moves
  <2>7. inode_table' = u /\ nr' = [nr EXCEPT ![p] = n]
    BY <2>1 DEF ReadInode
  <2> HIDE DEF N, W, u
  <2> QED
    BY <2>3, <2>4, <2>6, <2>7 DEF Control
<1>4. CASE same # {}
  <2>1. same \in SUBSET Nat
    BY Sizes
  <2>2. PICK s \in same : \A v \in same : s <= v
    BY <1>4, <2>1, HasMinimum
  <2>3. first \in same
    BY <2>2
  <2>4. CASE t[first].i_lock
    <3>1. /\ inode_table' = t
          /\ Goto(p, "iget") /\ inode' = [inode EXCEPT ![p] = first]
          /\ empty' = [empty EXCEPT ![p] = e] /\ nr' = [nr EXCEPT ![p] = n]
      BY <1>4, <2>4 DEF Lookup
    <3>2. first \in Slot /\ first # None
      BY <2>3, Sizes
    <3> HIDE DEF first
    <3>3. Move(p, "iget", first, e, i[p], n)
      BY <1>2, <3>1, <3>2, Refers DEF Goto, Move, Fits, Places
    <3>4. /\ LocalTypes' /\ Locals'
          /\ Mine' = [Mine EXCEPT ![p] = e] /\ Waiting' = [Waiting EXCEPT ![p] = TRUE]
      BY <1>2, <3>3, Moves
    <3> QED
      BY <3>1, <3>4 DEF Control
  <2>5. CASE ~t[first].i_lock
    <3>1. Found(p, n, first, e, t)
      BY <1>4, <2>5 DEF Lookup
    <3>2. first \in Slot /\ t[first].i_num = n
      BY <2>3
    <3> HIDE DEF first
    <3> QED
      BY <3>1, <3>2, FoundPost
  <2> QED
    BY <2>4, <2>5
<1> QED
  BY <1>3, <1>4

\* iput() from `repeat' on, when the inode of p is not locked.
LEMMA ReleasePost ==
  ASSUME Control, BlockType,
         NEW p \in Proc, pc[p] \in {"use", "repeat"}, ~inode_table[inode[p]].i_lock,
         Release(p), UNCHANGED <<empty, i>>
  PROVE  Control' /\ BlockType'
<1> DEFINE s == inode[p]
           slot == inode_table[s]
<1>1. /\ s \in Slot /\ s # None /\ Mine[p] = s /\ ~Waiting[p] /\ empty[p] = None
      /\ LocalTypes /\ Locals /\ TableInv(inode_table, Mine, nr, Waiting)
  BY Refers DEF Fits, Control
<1>2. slot.i_count \in Nat \ {0}
  BY <1>1, HeldCounts
<1>3. CASE slot.i_count > 1 \/ (slot.d.i_nlinks # 0 /\ ~slot.i_dirt)
  <2>1. /\ inode_table' = [inode_table EXCEPT ![s].i_count = @ - 1]
        /\ Return(p, None, None) /\ UNCHANGED block
    BY <1>3 DEF Release
  <2>2. TableInv([inode_table EXCEPT ![s].i_count = @ - 1],
                 [Mine EXCEPT ![p] = None], [nr EXCEPT ![p] = None], Waiting)
    BY <1>1, <1>3, LeaveStep
  <2>3. Move(p, "idle", None, None, i[p], None)
    BY <1>1, <2>1, Refers DEF Return, Goto, Move, Fits, Places
  <2>4. /\ LocalTypes' /\ Locals'
        /\ Mine' = [Mine EXCEPT ![p] = None] /\ Waiting' = [Waiting EXCEPT ![p] = FALSE]
    BY <1>1, <2>3, Moves
  <2>5. Waiting' = Waiting /\ nr' = [nr EXCEPT ![p] = None]
    BY <2>1, <2>4, Refers DEF Return
  <2> QED
    BY <2>1, <2>2, <2>4, <2>5 DEF Control, BlockType
<1>4. CASE slot.i_count = 1 /\ slot.d.i_nlinks = 0
  <2>1. Goto(p, "truncate") /\ UNCHANGED <<inode_table, inode, nr, block>>
    BY <1>4 DEF Release
  <2>2. Move(p, "truncate", s, None, i[p], nr[p])
    BY <1>1, <2>1, Refers DEF Goto, Move, Fits, Places
  <2>3. /\ LocalTypes' /\ Locals'
        /\ Mine' = [Mine EXCEPT ![p] = s] /\ Waiting' = [Waiting EXCEPT ![p] = FALSE]
    BY <1>1, <2>2, Moves
  <2>4. Mine' = Mine /\ Waiting' = Waiting
    BY <2>3, Refers
  <2> QED
    BY <1>1, <2>1, <2>3, <2>4 DEF Control, BlockType
<1>5. CASE /\ ~(slot.i_count > 1 \/ (slot.d.i_nlinks # 0 /\ ~slot.i_dirt))
           /\ ~(slot.i_count = 1 /\ slot.d.i_nlinks = 0)
  <2>1. WriteInode(p, s, inode_table, "write") /\ UNCHANGED <<inode, nr>>
    BY <1>5 DEF Release
  <2>2. slot.i_dirt
    BY <1>2, <1>5
  <2>3. /\ TableInv([inode_table EXCEPT ![s].i_lock = TRUE], Mine, nr, Waiting)
        /\ [block EXCEPT ![p] = BlockOf(slot.i_num)] \in [Proc -> (0 .. NrBlocks - 1) \cup {None}]
    BY <1>1, <2>2, WriteInodeStep
  <2>4. Move(p, "write", s, None, i[p], nr[p])
    BY <1>1, <2>1, Refers DEF WriteInode, Goto, Move, Fits, Places
  <2>5. /\ LocalTypes' /\ Locals'
        /\ Mine' = [Mine EXCEPT ![p] = s] /\ Waiting' = [Waiting EXCEPT ![p] = FALSE]
    BY <1>1, <2>4, Moves
  <2>6. Mine' = Mine /\ Waiting' = Waiting
    BY <2>5, Refers
  <2> QED
    BY <2>1, <2>3, <2>5, <2>6 DEF Control, WriteInode, BlockType
<1> QED
  BY <1>3, <1>4, <1>5

-----------------------------------------------------------------------------
(* The invariant.                                                          *)

\* Types are part of it.
LEMMA InvTypes == Inv => TypeOK
<1> SUFFICES ASSUME Inv PROVE TypeOK
  OBVIOUS
<1>1. inode_table \in [Slot -> SlotType]
  BY DEF Inv, Control, TableInv, TableTypes
<1> QED
  BY <1>1 DEF Inv, Control, WorldTypes, BlockType, LocalTypes, SlotType, TypeOK

\* mount_root() leaves the root inode in slot 1, and nothing else.
LEMMA InitInv == Init => Inv
<1> SUFFICES ASSUME Init PROVE Inv
  OBVIOUS
<1>1. Zero \in Data /\ 1 \in Slot /\ ROOT_INO \in Inode
  BY Sizes DEF Slot
<1>2. DInode(1, Zero) \in [i_nlinks : 0 .. 1, data : Data]
  BY <1>1 DEF DInode
<1>3. Root \in SlotType
  <2>1. Cleared \in SlotType
    BY ClearedIsSlot
  <2> QED
    BY <1>1, <1>2, <2>1 DEF Root, SlotType
<1>4. WorldTypes
  BY <1>1, <1>2 DEF Init, WorldTypes, BlockType
<1>5. LocalTypes /\ Locals
  BY DEF Init, LocalTypes, Locals, Fits, Places
<1>6. /\ Mine = [q \in Proc |-> None] /\ Waiting = [q \in Proc |-> FALSE]
      /\ nr = [q \in Proc |-> None]
  BY DEF Init, Mine, Waiting
<1>7. /\ inode_table[1] = Root
      /\ \A s \in Slot : s # 1 => inode_table[s] = Cleared
  BY <1>1 DEF Init
<1>8. /\ Root.i_num = ROOT_INO /\ Root.i_count = 4 /\ ~Root.i_lock /\ ~Root.i_dirt
      /\ Cleared.i_num = 0 /\ Cleared.i_count = 0 /\ ~Cleared.i_lock /\ ~Cleared.i_dirt
  BY DEF Root, Cleared
<1>9. TableTypes(inode_table, Mine, nr, Waiting)
  BY <1>3, <1>6, ClearedIsSlot DEF Init, TableTypes
<1>10. OneSlot(inode_table) /\ Idle(inode_table) /\ DirtyIsSome(inode_table)
  BY <1>7, <1>8 DEF OneSlot, Idle, DirtyIsSome, ROOT_INO
<1>11. RootIsThere(inode_table)
  BY <1>1, <1>7, <1>8 DEF RootIsThere
<1>12. Counts(inode_table, Mine)
  <2>1. \A s \in Slot : UsersOf(Mine, s) = {}
    BY <1>6, Sizes DEF UsersOf
  <2>2. \A s \in Slot : Cardinality(UsersOf(Mine, s)) = 0
    BY <2>1, Users
  <2> QED
    BY <2>2, <1>7, <1>8 DEF Counts, Rooted, ROOT_INO
<1>13. Holders(inode_table, Mine, nr, Waiting)
  BY <1>6 DEF Holders
<1> QED
  BY <1>4, <1>5, <1>9, <1>10, <1>11, <1>12, <1>13 DEF Inv, Control, TableInv

\* Writing slot s back: its data are on the disk, and it is clean and not locked.
LEMMA CleanStep ==
  ASSUME Control, NEW s \in Slot
  PROVE  TableInv(Clean(s), Mine, nr, Waiting)
<1>1. inode_table \in [Slot -> SlotType]
  BY DEF Control, TableInv, TableTypes
<1>2. Clean(s) \in [Slot -> SlotType]
  BY <1>1 DEF Clean, SlotType
<1>3. /\ Clean(s)[s] = [inode_table[s] EXCEPT !.i_dirt = FALSE, !.i_lock = FALSE]
      /\ \A v \in Slot : v # s => Clean(s)[v] = inode_table[v]
  BY <1>1 DEF Clean
<1>4. \A v \in Slot : /\ Clean(s)[v].i_num = inode_table[v].i_num
                      /\ Clean(s)[v].i_count = inode_table[v].i_count
                      /\ Clean(s)[v].i_dirt => inode_table[v].i_dirt
                      /\ Clean(s)[v].i_lock => inode_table[v].i_lock
  BY <1>1, <1>3, ZenonT(60) DEF SlotType
<1> QED
  BY <1>2, <1>4, QuietStep DEF Control

\* What is copied into the block is an inode.
LEMMA WrittenType ==
  ASSUME Inv, NEW p \in Proc, NEW s \in Slot, Written(p, s)
  PROVE  disk' \in [Inode -> [i_nlinks : 0 .. 1, data : Data]]
<1>1. inode_table[s].d \in [i_nlinks : 0 .. 1, data : Data]
  <2>1. inode_table \in [Slot -> SlotType]
    BY DEF Inv, Control, TableInv, TableTypes
  <2> QED
    BY <2>1 DEF SlotType
<1> QED
  BY <1>1 DEF Written, Inv, WorldTypes

\* A change of the slot that p has; its number and its count stay.
LEMMA ChangeStep ==
  ASSUME Control, NEW p \in Proc, pc[p] # "iget", inode[p] # None,
         NEW x \in SlotType,
         x.i_num = inode_table[inode[p]].i_num, x.i_count = inode_table[inode[p]].i_count
  PROVE  TableInv([inode_table EXCEPT ![inode[p]] = x], Mine, nr, Waiting)
<1> DEFINE s == inode[p]
           u == [inode_table EXCEPT ![s] = x]
<1>1. /\ s \in Slot /\ Mine[p] = s /\ ~Waiting[p]
      /\ TableInv(inode_table, Mine, nr, Waiting) /\ inode_table \in [Slot -> SlotType]
  BY Refers DEF Control
<1>2. Live(inode_table[s])
  BY <1>1, HeldCounts
<1>3. /\ u \in [Slot -> SlotType] /\ u[s] = x
      /\ \A v \in Slot : v # s => u[v] = inode_table[v]
  BY <1>1
<1> HIDE DEF u
<1>4. \A v \in Slot : /\ u[v].i_num = inode_table[v].i_num
                      /\ u[v].i_count = inode_table[v].i_count
                      /\ u[v].i_dirt => inode_table[v].i_dirt \/ Live(inode_table[v])
                      /\ u[v].i_lock => inode_table[v].i_lock \/ Live(inode_table[v])
  BY <1>2, <1>3
<1>5. TableInv(u, Mine, nr, Waiting)
  BY <1>1, <1>3, <1>4, QuietStep
<1> QED
  BY <1>5 DEF u

\* read_inode() and write_inode() compute the place of the inode they mean.
LEMMA PlaceOfInode ==
  ASSUME NEW n \in Inode
  PROVE  PlaceIn(BlockOf(n), n) = n
<1>1. n - 1 \in Nat
  BY TableAssumption DEF Inode
<1>2. \A x \in Nat : (x \div INODES_PER_BLOCK) * INODES_PER_BLOCK + (x % INODES_PER_BLOCK) = x
  BY TableAssumption
<1>3. ((n - 1) \div INODES_PER_BLOCK) * INODES_PER_BLOCK + ((n - 1) % INODES_PER_BLOCK) = n - 1
  BY <1>1, <1>2
<1> QED
  BY <1>1, <1>3 DEF PlaceIn, BlockOf, Inode

\* One step of a process keeps the invariant.
LEMMA StepInv ==
  ASSUME Inv, NEW p \in Proc, Step(p)
  PROVE  Inv'
<1> USE DEF vars, table, maps, local
<1>1. WorldTypes /\ Control /\ BlockType
  BY DEF Inv, WorldTypes
<1>2. /\ LocalTypes /\ Locals /\ TableInv(inode_table, Mine, nr, Waiting)
      /\ inode_table \in [Slot -> SlotType]
  BY <1>1 DEF Control, TableInv, TableTypes
<1>3. ASSUME SyncInodes(p) PROVE Inv'
  <2>1. Control' /\ BlockType'
    BY <1>1, <1>2, <1>3, SyncStep DEF SyncInodes
  <2> QED
    BY <1>1, <1>3, <2>1 DEF SyncInodes, Inv, WorldTypes
<1>4. ASSUME SyncWaited(p) PROVE Inv'
  <2>1. i[p] \in Nat
    BY <1>1, <1>4, Refers, Sizes DEF SyncWaited, Fits
  <2>2. Control' /\ BlockType'
    BY <1>1, <1>2, <1>4, <2>1, SyncStep DEF SyncWaited
  <2> QED
    BY <1>1, <1>4, <2>2 DEF SyncWaited, Inv, WorldTypes
<1>5. ASSUME SyncWritten(p) PROVE Inv'
  <2>1. i[p] \in Slot /\ i[p] + 1 \in Nat
    BY <1>1, <1>5, Refers, Sizes DEF SyncWritten, Fits
  <2>2. TableInv(Clean(i[p]), Mine, nr, Waiting)
    BY <1>1, <2>1, CleanStep
  <2>3. Control' /\ BlockType'
    BY <1>1, <1>5, <2>1, <2>2, SyncStep DEF SyncWritten
  <2>4. disk' \in [Inode -> [i_nlinks : 0 .. 1, data : Data]]
    BY <1>5, <2>1, WrittenType DEF SyncWritten
  <2> QED
    BY <1>1, <1>5, <2>3, <2>4 DEF SyncWritten, Inv, WorldTypes
<1>6. ASSUME NEW n \in names, Iget(p, n) PROVE Inv'
  <2>1. CASE Unused = {}
    <3>1. Panic
      BY <1>6, <2>1 DEF Iget
    <3>2. Mine' = Mine /\ Waiting' = Waiting
      BY <3>1 DEF Panic, Mine, Waiting
    <3>3. Control'
      BY <1>1, <3>1, <3>2 DEF Panic, Control, LocalTypes, Locals
    <3> QED
      BY <1>1, <3>1, <3>3 DEF Panic, Inv, WorldTypes, BlockType
  <2>2. CASE Unused # {}
    <3> DEFINE e == NextUnused
               t == [inode_table EXCEPT ![e] = [Cleared EXCEPT !.i_count = 1]]
    <3>1. /\ last_inode' = e /\ Lookup(p, n, e, t)
          /\ UNCHANGED <<disk, maps, i, block, panicked, names, intact>>
      BY <1>6, <2>2 DEF Iget
    <3>2. e \in Slot /\ inode_table[e].i_count = 0 /\ n \in Inode
      BY <1>1, <2>2, NextIsUnused DEF WorldTypes, Unused
    <3> HIDE DEF e
    <3>3. Mine[p] = None
      BY <1>1, <1>6, Refers DEF Iget, Fits
    <3>4. TableInv(t, [Mine EXCEPT ![p] = e], [nr EXCEPT ![p] = n], [Waiting EXCEPT ![p] = TRUE])
      BY <1>2, <3>2, <3>3, TakeEmpty
    <3> HIDE DEF t
    <3>5. Control'
      BY <1>1, <3>1, <3>2, <3>4, LookupPost
    <3> QED
      BY <1>1, <3>1, <3>2, <3>5 DEF Inv, WorldTypes, BlockType
  <2> QED
    BY <2>1, <2>2
<1>7. ASSUME IgetWaited(p) PROVE Inv'
  <2> DEFINE e == empty[p]
             s == inode[p]
             n == nr[p]
  <2>1. /\ pc[p] = "iget" /\ e \in Slot /\ s \in Slot
    BY <1>1, <1>7, Refers DEF IgetWaited, Fits
  <2>2. n \in Inode
    BY <1>2, <2>1, Sizes DEF TableInv, Holders, Mine
  <2>3. /\ [Mine EXCEPT ![p] = e] = Mine /\ [nr EXCEPT ![p] = n] = nr
        /\ [Waiting EXCEPT ![p] = TRUE] = Waiting
    BY <1>1, <2>1 DEF Mine, Waiting, Control, LocalTypes
  <2> HIDE DEF e, s, n
  <2>4. TableInv(inode_table, [Mine EXCEPT ![p] = e], [nr EXCEPT ![p] = n],
                 [Waiting EXCEPT ![p] = TRUE])
    BY <1>2, <2>3
  <2>5. UNCHANGED <<last_inode, disk, maps, i, block, panicked, names, intact>>
    BY <1>7 DEF IgetWaited
  <2>6. CASE inode_table[s].i_num = n
    <3>1. Found(p, n, s, e, inode_table)
      BY <1>7, <2>6 DEF IgetWaited, e, s, n
    <3>2. Control'
      BY <1>1, <2>1, <2>2, <2>4, <2>5, <2>6, <3>1, FoundPost
    <3> QED
      BY <1>1, <2>5, <3>2 DEF Inv, WorldTypes, BlockType
  <2>7. CASE inode_table[s].i_num # n
    <3>1. Lookup(p, n, e, inode_table)
      BY <1>7, <2>7 DEF IgetWaited, e, s, n
    <3>2. Control'
      BY <1>1, <2>1, <2>2, <2>4, <2>5, <3>1, LookupPost
    <3> QED
      BY <1>1, <2>5, <3>2 DEF Inv, WorldTypes, BlockType
  <2> QED
    BY <2>6, <2>7
<1>8. ASSUME ReadDone(p) PROVE Inv'
  <2> DEFINE s == inode[p]
             n == inode_table[s].i_num
             x == [inode_table[s] EXCEPT !.i_lock = FALSE, !.d = disk[PlaceIn(BlockOf(n), n)]]
  <2>1. pc[p] = "read" /\ s \in Slot /\ s # None /\ empty[p] = None
    BY <1>1, <1>8, Refers DEF ReadDone, Fits
  <2>2. n = nr[p] /\ n \in Inode
    BY <1>1, <1>2, <2>1, Refers DEF TableInv, Holders
  <2>3. disk[PlaceIn(BlockOf(n), n)] \in [i_nlinks : 0 .. 1, data : Data]
    BY <1>1, <2>2, PlaceOfInode DEF WorldTypes
  <2>4. x \in SlotType /\ x.i_num = inode_table[s].i_num /\ x.i_count = inode_table[s].i_count
    BY <1>2, <2>1, <2>3, ZenonT(60) DEF SlotType
  <2>5. inode_table' = [inode_table EXCEPT ![s] = x]
    BY <1>2, <1>8 DEF ReadDone
  <2>6. Move(p, "use", s, None, i[p], nr[p])
    BY <1>1, <1>8, <2>1, Refers DEF ReadDone, Return, Goto, Move, Fits, Places
  <2>7. /\ LocalTypes' /\ Locals'
        /\ Mine' = [Mine EXCEPT ![p] = s] /\ Waiting' = [Waiting EXCEPT ![p] = FALSE]
    BY <1>2, <2>6, Moves
  <2>8. Mine' = Mine /\ Waiting' = Waiting /\ nr' = nr
    BY <1>1, <1>8, <2>1, <2>7, Refers DEF ReadDone, Return
  <2> HIDE DEF x
  <2>9. TableInv([inode_table EXCEPT ![s] = x], Mine, nr, Waiting)
    BY <1>1, <2>1, <2>4, ChangeStep
  <2>10. Control'
    BY <2>5, <2>7, <2>8, <2>9 DEF Control
  <2> QED
    BY <1>1, <1>8, <2>10 DEF ReadDone, Inv, WorldTypes, BlockType
<1>9. ASSUME Iput(p) PROVE Inv'
  <2>1. pc[p] = "use" /\ ~inode_table[inode[p]].i_lock
    BY <1>9 DEF Iput
  <2>2. Control' /\ BlockType'
    <3>1. CASE inode_table[inode[p]].i_num \in Special
      <4>1. SyncFrom(p, 0, inode_table) /\ UNCHANGED <<inode, empty, nr>>
        BY <1>9, <3>1 DEF Iput
      <4> QED
        BY <1>1, <1>2, <2>1, <4>1, SyncStep
    <3>2. CASE inode_table[inode[p]].i_num \notin Special
      <4>1. Release(p) /\ UNCHANGED <<empty, i>>
        BY <1>9, <3>2 DEF Iput
      <4> QED
        BY <1>1, <2>1, <4>1, ReleasePost
    <3> QED
      BY <3>1, <3>2
  <2> QED
    BY <1>1, <1>9, <2>2 DEF Iput, Inv, WorldTypes
<1>10. ASSUME IputWritten(p) PROVE Inv'
  <2> DEFINE s == inode[p]
  <2>1. pc[p] = "write" /\ s \in Slot /\ s # None /\ empty[p] = None
    BY <1>1, <1>10, Refers DEF IputWritten, Fits
  <2>2. Move(p, "repeat", s, None, i[p], nr[p])
    BY <1>1, <1>10, <2>1, Refers DEF IputWritten, Goto, Move, Fits, Places
  <2>3. /\ LocalTypes' /\ Locals'
        /\ Mine' = [Mine EXCEPT ![p] = s] /\ Waiting' = [Waiting EXCEPT ![p] = FALSE]
    BY <1>2, <2>2, Moves
  <2>4. Mine' = Mine /\ Waiting' = Waiting
    BY <1>1, <2>1, <2>3, Refers
  <2>5. TableInv(Clean(s), Mine, nr, Waiting)
    BY <1>1, <2>1, CleanStep
  <2>6. Control'
    BY <1>10, <2>3, <2>4, <2>5 DEF IputWritten, Control
  <2>7. disk' \in [Inode -> [i_nlinks : 0 .. 1, data : Data]]
    BY <1>10, <2>1, WrittenType DEF IputWritten
  <2> QED
    BY <1>1, <1>10, <2>6, <2>7 DEF IputWritten, Inv, WorldTypes, BlockType
<1>11. ASSUME IputRepeat(p) PROVE Inv'
  <2>1. Control' /\ BlockType'
    BY <1>1, <1>11, ReleasePost DEF IputRepeat
  <2> QED
    BY <1>1, <1>11, <2>1 DEF IputRepeat, Inv, WorldTypes
<1>12. ASSUME Free(p) PROVE Inv'
  <2> DEFINE s == inode[p]
             n == inode_table[s].i_num
  <2>1. /\ pc[p] = "truncate" /\ s \in Slot /\ s # None /\ empty[p] = None
        /\ Mine[p] = s /\ ~Waiting[p]
    BY <1>1, <1>12, Refers DEF Free, Fits
  <2>2. intact' \in BOOLEAN
    BY <1>1, <1>12 DEF Free, WorldTypes
  <2>3. CASE n \notin zmap \/ inode_table[s].i_count > 1
    <3>1. panicked' = TRUE /\ UNCHANGED <<table, maps, pc, local, names>>
      BY <1>12, <2>3 DEF Free
    <3>2. Mine' = Mine /\ Waiting' = Waiting
      BY <3>1 DEF Mine, Waiting
    <3>3. Control'
      BY <1>1, <3>1, <3>2 DEF Control, LocalTypes, Locals
    <3> QED
      BY <1>1, <2>2, <3>1, <3>3 DEF Inv, WorldTypes, BlockType
  <2>4. CASE ~(n \notin zmap \/ inode_table[s].i_count > 1)
    <3>1. /\ zmap' = zmap \ {n} /\ imap' = imap \ {n}
          /\ inode_table' = [inode_table EXCEPT ![s] = Cleared]
          /\ Return(p, None, None)
          /\ UNCHANGED <<last_inode, disk, empty, i, block, panicked, names>>
      BY <1>12, <2>4 DEF Free
    <3>2. TableInv([inode_table EXCEPT ![s] = Cleared],
                   [Mine EXCEPT ![p] = None], [nr EXCEPT ![p] = None], Waiting)
      BY <1>2, <2>1, <2>4, FreeStep
    <3>3. Move(p, "idle", None, None, i[p], None)
      BY <1>1, <2>1, <3>1, Refers DEF Return, Goto, Move, Fits, Places
    <3>4. /\ LocalTypes' /\ Locals'
          /\ Mine' = [Mine EXCEPT ![p] = None] /\ Waiting' = [Waiting EXCEPT ![p] = FALSE]
      BY <1>2, <3>3, Moves
    <3>5. Waiting' = Waiting /\ nr' = [nr EXCEPT ![p] = None]
      BY <1>1, <2>1, <3>1, <3>4, Refers DEF Return
    <3>6. Control'
      BY <3>1, <3>2, <3>4, <3>5 DEF Control
    <3> QED
      BY <1>1, <2>2, <3>1, <3>6 DEF Inv, WorldTypes, BlockType
  <2> QED
    BY <2>3, <2>4
<1>13. ASSUME NEW x \in SlotType, pc[p] = "use",
             x.i_num = inode_table[inode[p]].i_num, x.i_count = inode_table[inode[p]].i_count,
             inode_table' = [inode_table EXCEPT ![inode[p]] = x],
             UNCHANGED <<pc, local>>
      PROVE  Control'
  <2>1. inode[p] # None
    BY <1>1, <1>13, Refers DEF Fits
  <2>2. TableInv([inode_table EXCEPT ![inode[p]] = x], Mine, nr, Waiting)
    BY <1>1, <1>13, <2>1, ChangeStep
  <2>3. Mine' = Mine /\ Waiting' = Waiting
    BY <1>13 DEF Mine, Waiting
  <2>4. LocalTypes' /\ Locals'
    BY <1>2, <1>13 DEF LocalTypes, Locals
  <2> QED
    BY <1>13, <2>2, <2>3, <2>4 DEF Control
<1>14. inode[p] \in Slot => inode_table[inode[p]] \in SlotType
  BY <1>2
<1>15. ASSUME NEW d \in Data, Modify(p, d) PROVE Inv'
  <2> DEFINE x == [inode_table[inode[p]] EXCEPT !.d.data = d, !.i_dirt = TRUE]
  <2>1. pc[p] = "use" /\ inode[p] \in Slot
    BY <1>1, <1>15, Refers DEF Modify, Fits
  <2>2. /\ x \in SlotType /\ x.i_num = inode_table[inode[p]].i_num
        /\ x.i_count = inode_table[inode[p]].i_count
    BY <1>14, <2>1 DEF SlotType
  <2>3. inode_table' = [inode_table EXCEPT ![inode[p]] = x] /\ UNCHANGED <<pc, local>>
    BY <1>2, <1>15, <2>1 DEF Modify
  <2> HIDE DEF x
  <2>4. Control'
    BY <1>13, <2>1, <2>2, <2>3
  <2> QED
    BY <1>1, <1>15, <2>4 DEF Modify, Inv, WorldTypes, BlockType
<1>16. ASSUME Unlink(p) PROVE Inv'
  <2> DEFINE x == [inode_table[inode[p]] EXCEPT !.d.i_nlinks = 0, !.i_dirt = TRUE]
  <2>1. pc[p] = "use" /\ inode[p] \in Slot
    BY <1>1, <1>16, Refers DEF Unlink, Fits
  <2>2. /\ x \in SlotType /\ x.i_num = inode_table[inode[p]].i_num
        /\ x.i_count = inode_table[inode[p]].i_count
    <3>1. \A y \in [i_nlinks : 0 .. 1, data : Data] :
            [y EXCEPT !.i_nlinks = 0] \in [i_nlinks : 0 .. 1, data : Data]
      OBVIOUS
    <3>2. \A z \in SlotType :
            /\ [z EXCEPT !.d.i_nlinks = 0, !.i_dirt = TRUE] \in SlotType
            /\ [z EXCEPT !.d.i_nlinks = 0, !.i_dirt = TRUE].i_num = z.i_num
            /\ [z EXCEPT !.d.i_nlinks = 0, !.i_dirt = TRUE].i_count = z.i_count
      BY <3>1 DEF SlotType
    <3> QED
      BY <1>14, <2>1, <3>2
  <2>3. inode_table' = [inode_table EXCEPT ![inode[p]] = x] /\ UNCHANGED <<pc, local>>
    BY <1>2, <1>16, <2>1 DEF Unlink
  <2> HIDE DEF x
  <2>4. Control'
    BY <1>13, <2>1, <2>2, <2>3
  <2> QED
    BY <1>1, <1>16, <2>4 DEF Unlink, Inv, WorldTypes, BlockType
<1> QED
  BY <1>3, <1>4, <1>5, <1>6, <1>7, <1>8, <1>9, <1>10, <1>11, <1>12, <1>15, <1>16 DEF Step

\* Nor does anything else break it.
LEMMA NextInv == Inv /\ [Next]_vars => Inv'
<1> SUFFICES ASSUME Inv, [Next]_vars PROVE Inv'
  OBVIOUS
<1>1. CASE \E p \in Proc : Step(p)
  BY <1>1, StepInv
<1>2. CASE UNCHANGED vars
  <2>1. Mine' = Mine /\ Waiting' = Waiting
    BY <1>2 DEF vars, local, Mine, Waiting
  <2>2. Control'
    BY <1>2, <2>1 DEF vars, table, local, Inv, Control, LocalTypes, Locals
  <2> QED
    BY <1>2, <2>2 DEF vars, table, maps, local, Inv, WorldTypes, BlockType
<1> QED
  BY <1>1, <1>2 DEF Next, Halted

\* The invariant holds for ever, for every finite set of processes, every size of the
\* table and of the device.
THEOREM InvHolds == Spec => []Inv
<1> QED
  BY InitInv, NextInv, PTL DEF Spec

-----------------------------------------------------------------------------
(* What follows.                                                           *)

\* Every variable keeps its type; in particular the block number of
\* write_inode() is one of the inode area.
THEOREM TypesCorrect == Spec => []TypeOK
<1> QED
  BY InvHolds, InvTypes, PTL

\* No inode is ever in two slots: iget() takes its slot before it looks, and looks
\* again after it has slept.
THEOREM OneSlotCorrect == Spec => []OneSlotPerInode
<1>1. Inv => OneSlotPerInode
  BY DEF Inv, Control, TableInv, OneSlot, OneSlotPerInode
<1> QED
  BY <1>1, InvHolds, PTL

\* A process has the inode it asked for until it has put it back.
THEOREM HolderCorrect == Spec => []HolderHasItsInode
<1>1. Inv => HolderHasItsInode
  <2> SUFFICES ASSUME Inv, NEW p \in Proc, pc[p] \in {"read", "use", "repeat", "write", "truncate"}
               PROVE  inode_table[inode[p]].i_num = nr[p]
    BY DEF HolderHasItsInode
  <2>1. Control /\ TableInv(inode_table, Mine, nr, Waiting)
    BY DEF Inv, Control
  <2>2. Mine[p] = inode[p] /\ ~Waiting[p] /\ inode[p] # None
    BY <2>1, Refers DEF Fits
  <2> QED
    BY <2>1, <2>2 DEF TableInv, Holders
<1> QED
  BY <1>1, InvHolds, PTL

\* The count of a slot is the number of the references to it.
THEOREM CountCorrect == Spec => []CountIsReferences
<1>1. Inv => CountIsReferences
  <2> SUFFICES ASSUME Inv, NEW s \in Slot
               PROVE  inode_table[s].i_count =
                        Cardinality(References(s)) + (IF inode_table[s].i_num = ROOT_INO THEN 4 ELSE 0)
    BY DEF CountIsReferences
  <2>1. Control /\ Counts(inode_table, Mine)
    BY DEF Inv, Control, TableInv
  <2>2. References(s) = UsersOf(Mine, s)
    <3>1. s # None
      BY Sizes
    <3>2. \A q \in Proc : Mine[q] = s <=> (inode[q] = s /\ pc[q] # "iget") \/ empty[q] = s
      BY <2>1, <3>1, Refers
    <3> QED
      BY <3>2 DEF References, UsersOf
  <2> QED
    BY <2>1, <2>2 DEF Counts, Rooted
<1> QED
  BY <1>1, InvHolds, PTL

\* get_empty_inode() throws nothing away: a slot without a user is not dirty and
\* not locked.
THEOREM FreeIsIdleCorrect == Spec => []FreeIsIdle
<1>1. Inv => FreeIsIdle
  BY DEF Inv, Control, TableInv, Idle, FreeIsIdle
<1> QED
  BY <1>1, InvHolds, PTL

-----------------------------------------------------------------------------
(***************************************************************************)
(* The inode table implements Files: opening, changing, unlinking and      *)
(* closing files is what it seems to be, as long as no inode is freed      *)
(* while it is used.                                                       *)
(***************************************************************************)

\* The slots that are being read in: a number, and nothing else yet.
Reading == {s \in Slot : \E q \in Proc : pc[q] = "read" /\ inode[q] = s}

(* What the files are: n is in a slot of the table t, unless the slot is   *)
(* in R and is still being read in; else on the disk D, while its blocks   *)
(* are in Z.                                                               *)
InTable(t, R, n) == \E s \in Slot \ R : t[s].i_num = n

Has(t, R, D, Z, n, x) ==
  \/ n \notin Z /\ x = None
  \/ n \in Z /\ \E s \in Slot \ R : t[s].i_num = n /\ x = t[s].d.data
  \/ n \in Z /\ ~InTable(t, R, n) /\ x = D[n].data

(* A clean slot is as on the disk, a file with a name has a link, and what *)
(* is in the table or has a name has its blocks.                           *)
Complete(t, R, D, Nm, Z) ==
  /\ Nm \subseteq Z
  /\ \A s \in Slot : t[s].i_num # 0 => t[s].i_num \in Z
  /\ \A s \in Slot \ R : t[s].i_num # 0 =>
       /\ ~t[s].i_dirt => t[s].d = D[t[s].i_num]
       /\ t[s].i_num \in Nm => t[s].d.i_nlinks # 0
  /\ \A n \in Nm : ~InTable(t, R, n) => D[n].i_nlinks # 0

\* The slot whose lock a process has taken.
Key == [q \in Proc |-> CASE pc[q] \in {"read", "write"} -> inode[q]
                         [] pc[q] = "sync_write" -> i[q]
                         [] OTHER -> None]

\* What a process may rely on when it goes on after its sleep.
Sound(q) ==
  /\ Key[q] # None => inode_table[Key[q]].i_lock /\ inode_table[Key[q]].i_num # 0
  /\ pc[q] \in {"write", "sync_write"} => block[q] = BlockOf(inode_table[Key[q]].i_num)
  /\ pc[q] = "truncate" => inode_table[inode[q]].d.i_nlinks = 0
  /\ nr[q] # None => nr[q] \in zmap

\* A lock has one owner, and an inode that is being read in has one user.
Apart(q, r) ==
  /\ Key[q] # None => Key[q] # Key[r]
  /\ pc[q] = "read" => Mine[r] # inode[q]

SleepInv ==
  /\ \A q \in Proc : Sound(q)
  /\ \A q, r \in Proc : q # r => Apart(q, r)

Whole == Complete(inode_table, Reading, disk, names, zmap)

\* The inductive invariant, as long as no inode is freed that somebody uses.
FilesInv == intact => SleepInv /\ Whole

\* A table and a device.
DInodeType == [i_nlinks : 0 .. 1, data : Data]
IsTable(t) == t \in [Slot -> SlotType]
IsDisk(D)  == D \in [Inode -> DInodeType]

-----------------------------------------------------------------------------
(* What a change of the table does to the files.                           *)

\* Slots that differ in their locks and counts only are the same to the files.
SameView(t, u) ==
  \A s \in Slot : u[s].i_num = t[s].i_num /\ u[s].d = t[s].d /\ u[s].i_dirt = t[s].i_dirt

\* Every slot but s is as it was.
SameBut(t, u, s) == \A v \in Slot : v # s => u[v] = t[v]

\* Nobody else's file changes.
KeepsFiles(t, R, D, Z, u, R2, D2, Z2, S) ==
  \A n \in S : \A x : Has(t, R, D, Z, n, x) => Has(u, R2, D2, Z2, n, x)

\* A file has one contents, if it is in one slot.
LEMMA OneContents ==
  ASSUME NEW t, NEW R, NEW D, NEW Z, OneSlot(t), NEW n \in Inode,
         NEW x, NEW y, Has(t, R, D, Z, n, x), Has(t, R, D, Z, n, y)
  PROVE  x = y
<1>1. n # 0
  BY Sizes
<1> QED
  BY <1>1 DEF Has, InTable, OneSlot

\* Locks and counts.
LEMMA ViewKept ==
  ASSUME NEW t, NEW R, NEW D, NEW Nm, NEW Z, Complete(t, R, D, Nm, Z),
         NEW u, SameView(t, u)
  PROVE  Complete(u, R, D, Nm, Z) /\ KeepsFiles(t, R, D, Z, u, R, D, Z, Inode)
<1>1. \A n : InTable(u, R, n) <=> InTable(t, R, n)
  BY DEF InTable, SameView
<1> QED
  BY <1>1 DEF Complete, KeepsFiles, Has, SameView

\* A clean slot is taken for another inode: the file is now the one on the disk.
LEMMA SlotTaken ==
  ASSUME NEW t, NEW R, NEW D, NEW Nm, NEW Z, Complete(t, R, D, Nm, Z), OneSlot(t),
         Nm \subseteq Inode,
         NEW e \in Slot \ R, ~t[e].i_dirt,
         NEW u, SameBut(t, u, e), u[e].i_num = 0
  PROVE  Complete(u, R, D, Nm, Z) /\ KeepsFiles(t, R, D, Z, u, R, D, Z, Inode)
<1>1. \A n \in Inode : n # 0
  BY Sizes
<1>2. \A n \in Inode : InTable(u, R, n) => InTable(t, R, n)
  BY <1>1 DEF InTable, SameBut
<1>3. \A n \in Inode : InTable(t, R, n) /\ ~InTable(u, R, n) => t[e].i_num = n
  BY <1>1 DEF InTable, SameBut
<1>4. \A n \in Inode : t[e].i_num = n => ~InTable(u, R, n) /\ t[e].d = D[n]
  BY <1>1 DEF InTable, SameBut, OneSlot, Complete
<1>5. Complete(u, R, D, Nm, Z)
  <2>1. \A s \in Slot : u[s].i_num # 0 => s # e /\ u[s] = t[s]
    BY DEF SameBut
  <2>2. ASSUME NEW n \in Nm, ~InTable(u, R, n) PROVE D[n].i_nlinks # 0
    <3>1. CASE InTable(t, R, n)
      <4>1. t[e].i_num = n /\ t[e].d = D[n] /\ n # 0
        BY <1>1, <1>3, <1>4, <2>2, <3>1
      <4> QED
        BY <4>1 DEF Complete
    <3>2. CASE ~InTable(t, R, n)
      BY <3>2 DEF Complete
    <3> QED
      BY <3>1, <3>2
  <2> QED
    BY <2>1, <2>2 DEF Complete
<1>6. KeepsFiles(t, R, D, Z, u, R, D, Z, Inode)
  <2> SUFFICES ASSUME NEW n \in Inode, NEW x, Has(t, R, D, Z, n, x)
               PROVE  Has(u, R, D, Z, n, x)
    BY DEF KeepsFiles
  <2>1. CASE n \notin Z
    BY <2>1 DEF Has
  <2>2. CASE n \in Z /\ ~InTable(t, R, n)
    BY <2>2, <1>2 DEF Has, InTable
  <2>3. CASE n \in Z /\ InTable(t, R, n)
    <3>1. PICK s \in Slot \ R : t[s].i_num = n /\ x = t[s].d.data
      BY <2>3 DEF Has
    <3>2. CASE s = e
      BY <2>3, <3>1, <3>2, <1>4 DEF Has
    <3>3. CASE s # e
      BY <2>3, <3>1, <3>3 DEF Has, SameBut
    <3> QED
      BY <3>2, <3>3
  <2> QED
    BY <2>1, <2>2, <2>3
<1> QED
  BY <1>5, <1>6

\* An inode that is in no slot gets one, which is to be read in.
LEMMA ReadBegins ==
  ASSUME NEW t, NEW R, NEW D, NEW Nm, NEW Z, Complete(t, R, D, Nm, Z), Nm \subseteq Inode,
         NEW e \in Slot \ R, t[e].i_num = 0, NEW n \in Z,
         NEW u, SameBut(t, u, e), u[e].i_num = n
  PROVE  /\ Complete(u, R \cup {e}, D, Nm, Z)
         /\ KeepsFiles(t, R, D, Z, u, R \cup {e}, D, Z, Inode)
<1>1. \A m \in Inode : m # 0
  BY Sizes
<1>2. \A m \in Inode : InTable(u, R \cup {e}, m) <=> InTable(t, R, m)
  BY <1>1 DEF InTable, SameBut
<1>3. \A s \in Slot : s \notin R \cup {e} <=> s \notin R /\ s # e
  OBVIOUS
<1>4. Complete(u, R \cup {e}, D, Nm, Z)
  BY <1>2, <1>3 DEF Complete, SameBut
<1>5. KeepsFiles(t, R, D, Z, u, R \cup {e}, D, Z, Inode)
  BY <1>1, <1>2, <1>3 DEF KeepsFiles, Has, SameBut
<1> QED
  BY <1>4, <1>5

\* It has been read in.
LEMMA ReadEnds ==
  ASSUME NEW t, NEW R, NEW D, NEW Nm, NEW Z, Complete(t, R, D, Nm, Z), OneSlot(t),
         Nm \subseteq Inode,
         NEW e \in Slot, e \in R, t[e].i_num \in Inode,
         NEW u, SameBut(t, u, e), u[e].i_num = t[e].i_num, u[e].d = D[t[e].i_num]
  PROVE  /\ Complete(u, R \ {e}, D, Nm, Z)
         /\ KeepsFiles(t, R, D, Z, u, R \ {e}, D, Z, Inode)
<1> DEFINE n == t[e].i_num
<1>1. \A m \in Inode : m # 0
  BY Sizes
<1>2. ~InTable(t, R, n)
  BY <1>1 DEF InTable, OneSlot
<1>3. \A m \in Inode : m # n => (InTable(u, R \ {e}, m) <=> InTable(t, R, m))
  BY DEF InTable, SameBut
<1>4. \A s \in Slot : s \notin R \ {e} <=> s \notin R \/ s = e
  OBVIOUS
<1>5. InTable(u, R \ {e}, n)
  BY DEF InTable
<1>6. Complete(u, R \ {e}, D, Nm, Z)
  <2>1. ASSUME NEW s \in Slot \ (R \ {e}), u[s].i_num # 0
        PROVE  /\ ~u[s].i_dirt => u[s].d = D[u[s].i_num]
               /\ u[s].i_num \in Nm => u[s].d.i_nlinks # 0
    <3>1. CASE s = e
      BY <1>2, <3>1 DEF Complete
    <3>2. CASE s # e
      BY <1>4, <2>1, <3>2 DEF Complete, SameBut
    <3> QED
      BY <3>1, <3>2
  <2>2. \A s \in Slot : u[s].i_num # 0 => u[s].i_num \in Z
    BY DEF Complete, SameBut
  <2>3. \A m \in Nm : ~InTable(u, R \ {e}, m) => D[m].i_nlinks # 0
    BY <1>3, <1>5 DEF Complete
  <2> QED
    BY <2>1, <2>2, <2>3 DEF Complete
<1>7. KeepsFiles(t, R, D, Z, u, R \ {e}, D, Z, Inode)
  <2> SUFFICES ASSUME NEW m \in Inode, NEW x, Has(t, R, D, Z, m, x)
               PROVE  Has(u, R \ {e}, D, Z, m, x)
    BY DEF KeepsFiles
  <2>1. CASE m = n
    BY <1>2, <1>4, <2>1 DEF Has, InTable
  <2>2. CASE m # n
    BY <1>3, <1>4, <2>2 DEF Has, SameBut
  <2> QED
    BY <2>1, <2>2
<1> QED
  BY <1>6, <1>7

\* A slot is written back: the disk has it, and another inode is not disturbed.
LEMMA WriteEnds ==
  ASSUME NEW t, NEW R, NEW D, NEW Nm, NEW Z, Complete(t, R, D, Nm, Z), OneSlot(t),
         Nm \subseteq Inode, IsDisk(D), IsTable(t),
         NEW s \in Slot \ R, t[s].i_num # 0,
         NEW E, E = [D EXCEPT ![t[s].i_num] = t[s].d],
         NEW u, SameBut(t, u, s), u[s].i_num = t[s].i_num, u[s].d = t[s].d
  PROVE  Complete(u, R, E, Nm, Z) /\ KeepsFiles(t, R, D, Z, u, R, E, Z, Inode)
<1> DEFINE n == t[s].i_num
<1>1. n \in Inode
  BY DEF IsTable, SlotType
<1>2. E[n] = t[s].d /\ \A m \in Inode : m # n => E[m] = D[m]
  BY <1>1 DEF IsDisk
<1>3. \A m : InTable(u, R, m) <=> InTable(t, R, m)
  BY DEF InTable, SameBut
<1>4. InTable(t, R, n)
  BY DEF InTable
<1>5. \A v \in Slot : v # s /\ t[v].i_num # 0 => t[v].i_num \in Inode /\ t[v].i_num # n
  BY DEF OneSlot, IsTable, SlotType
<1>6. Complete(u, R, E, Nm, Z)
  <2>1. ASSUME NEW v \in Slot \ R, u[v].i_num # 0
        PROVE  /\ ~u[v].i_dirt => u[v].d = E[u[v].i_num]
               /\ u[v].i_num \in Nm => u[v].d.i_nlinks # 0
    <3>1. CASE v = s
      BY <1>2, <3>1 DEF Complete
    <3>2. CASE v # s
      BY <1>2, <1>5, <2>1, <3>2 DEF Complete, SameBut
    <3> QED
      BY <3>1, <3>2
  <2>2. \A v \in Slot : u[v].i_num # 0 => u[v].i_num \in Z
    BY DEF Complete, SameBut
  <2>3. \A m \in Nm : ~InTable(u, R, m) => E[m].i_nlinks # 0
    BY <1>2, <1>3, <1>4 DEF Complete
  <2> QED
    BY <2>1, <2>2, <2>3 DEF Complete
<1>7. KeepsFiles(t, R, D, Z, u, R, E, Z, Inode)
  <2> SUFFICES ASSUME NEW m \in Inode, NEW x, Has(t, R, D, Z, m, x)
               PROVE  Has(u, R, E, Z, m, x)
    BY DEF KeepsFiles
  <2>1. \A v \in Slot : u[v].i_num = t[v].i_num /\ u[v].d = t[v].d
    BY DEF SameBut
  <2>2. ~InTable(t, R, m) => E[m] = D[m]
    BY <1>2, <1>4
  <2> QED
    BY <1>3, <2>1, <2>2 DEF Has
<1> QED
  BY <1>6, <1>7

\* A holder changes its inode, and may take its name away.
LEMMA SlotChanged ==
  ASSUME NEW t, NEW R, NEW D, NEW Nm, NEW Z, Complete(t, R, D, Nm, Z),
         NEW s \in Slot \ R, t[s].i_num # 0,
         NEW u, SameBut(t, u, s), u[s].i_num = t[s].i_num, u[s].i_dirt,
         NEW Nm2, Nm2 \subseteq Nm, t[s].i_num \in Nm2 => u[s].d.i_nlinks = t[s].d.i_nlinks
  PROVE  /\ Complete(u, R, D, Nm2, Z)
         /\ KeepsFiles(t, R, D, Z, u, R, D, Z, Inode \ {t[s].i_num})
         /\ Has(u, R, D, Z, t[s].i_num, u[s].d.data)
<1>1. \A n : InTable(u, R, n) <=> InTable(t, R, n)
  BY DEF InTable, SameBut
<1>2. \A v \in Slot : u[v].i_num = t[v].i_num
  BY DEF SameBut
<1>3. Complete(u, R, D, Nm2, Z)
  BY <1>1, <1>2 DEF Complete, SameBut
<1>4. KeepsFiles(t, R, D, Z, u, R, D, Z, Inode \ {t[s].i_num})
  BY <1>1, <1>2 DEF KeepsFiles, Has, SameBut
<1>5. Has(u, R, D, Z, t[s].i_num, u[s].d.data)
  BY DEF Has, Complete
<1> QED
  BY <1>3, <1>4, <1>5

\* An inode without a name is freed, with its slot.
IsFreed(t, u, R, D, Nm, Z, Z2, n) ==
  /\ n \notin Nm
  /\ Complete(u, R, D, Nm, Z2)
  /\ KeepsFiles(t, R, D, Z, u, R, D, Z2, Inode \ {n})
  /\ Has(u, R, D, Z2, n, None)

LEMMA SlotFreed ==
  ASSUME NEW t, NEW R, NEW D, NEW Nm, NEW Z, Complete(t, R, D, Nm, Z), OneSlot(t),
         Nm \subseteq Inode,
         NEW s \in Slot \ R, t[s].i_num \in Inode, t[s].d.i_nlinks = 0,
         NEW u, SameBut(t, u, s), u[s].i_num = 0,
         NEW Z2, Z2 = Z \ {t[s].i_num}
  PROVE  IsFreed(t, u, R, D, Nm, Z, Z2, t[s].i_num)
<1> DEFINE n == t[s].i_num
<1>1. \A m \in Inode : m # 0
  BY Sizes
<1>2. n \notin Nm
  BY <1>1 DEF Complete
<1>3. \A m \in Inode : m # n => (InTable(u, R, m) <=> InTable(t, R, m))
  BY <1>1 DEF InTable, SameBut
<1>4. \A v \in Slot : u[v].i_num # 0 => v # s /\ u[v] = t[v] /\ t[v].i_num # n
  BY DEF SameBut, OneSlot
<1>5. Complete(u, R, D, Nm, Z2)
  BY <1>2, <1>3, <1>4 DEF Complete
<1>6. KeepsFiles(t, R, D, Z, u, R, D, Z2, Inode \ {n})
  <2> SUFFICES ASSUME NEW m \in Inode \ {n}, NEW x, Has(t, R, D, Z, m, x)
               PROVE  Has(u, R, D, Z2, m, x)
    BY DEF KeepsFiles
  <2>1. m \in Z <=> m \in Z2
    OBVIOUS
  <2> QED
    BY <1>1, <1>3, <2>1 DEF Has, SameBut
<1>7. Has(u, R, D, Z2, n, None)
  BY DEF Has
<1> QED
  BY <1>2, <1>5, <1>6, <1>7 DEF IsFreed

-----------------------------------------------------------------------------
(* What the file system sees.                                              *)

Content == [n \in Inode |-> Current(n)]
Opened  == [p \in Proc |-> IF pc[p] = "use" THEN inode_table[inode[p]].i_num ELSE None]

\* The refinement mapping gives the contents of the files.
ContentIsRight == \A n \in Inode : Has(inode_table, Reading, disk, zmap, n, Current(n))

LEMMA CurrentIs == Control /\ SleepInv => ContentIsRight
<1> SUFFICES ASSUME Control, SleepInv, NEW n \in Inode
             PROVE  Has(inode_table, Reading, disk, zmap, n, Current(n))
  BY DEF ContentIsRight
<1> DEFINE R == Reading
           valid == {s \in Slot : inode_table[s].i_num = n /\ (At(s, {"read"}) = {} \/ At(s, {"use"}) # {})}
<1>1. ASSUME NEW s \in Slot PROVE At(s, {"read"}) = {} <=> s \notin R
  BY DEF At, Reading
<1>2. ASSUME NEW s \in Slot, s \in R PROVE At(s, {"use"}) = {}
  <2>1. PICK q \in Proc : pc[q] = "read" /\ inode[q] = s
    BY <1>2 DEF Reading
  <2>2. ASSUME NEW r \in Proc, inode[r] = s, pc[r] = "use" PROVE FALSE
    <3>1. r # q /\ Mine[r] = s
      BY <2>1, <2>2 DEF Mine
    <3>2. Apart(q, r)
      BY <3>1 DEF SleepInv
    <3> QED
      BY <2>1, <3>1, <3>2 DEF Apart
  <2> QED
    BY <2>2 DEF At
<1>3. valid = {s \in Slot \ R : inode_table[s].i_num = n}
  BY <1>1, <1>2
<1>4. Current(n) = IF n \notin zmap THEN None
                   ELSE IF valid = {} THEN disk[n].data
                   ELSE inode_table[CHOOSE s \in valid : TRUE].d.data
  BY DEF Current
<1> HIDE DEF valid, R
<1>5. CASE n \notin zmap
  BY <1>4, <1>5 DEF Has
<1>6. CASE n \in zmap /\ valid = {}
  <2>1. Current(n) = disk[n].data
    BY <1>4, <1>6
  <2>2. ~InTable(inode_table, R, n)
    BY <1>3, <1>6 DEF InTable
  <2> QED
    BY <1>6, <2>1, <2>2 DEF Has, R
<1>7. CASE n \in zmap /\ valid # {}
  <2> DEFINE s == CHOOSE v \in valid : TRUE
  <2>1. s \in valid
    BY <1>7
  <2>2. Current(n) = inode_table[s].d.data
    BY <1>4, <1>7
  <2> HIDE DEF s
  <2>3. s \in Slot \ R /\ inode_table[s].i_num = n
    BY <1>3, <2>1
  <2> QED
    BY <1>7, <2>2, <2>3 DEF Has, R
<1> QED
  BY <1>5, <1>6, <1>7

\* A file that has blocks has contents.
LEMMA ContentIsSome ==
  ASSUME Inv, SleepInv, NEW n \in Inode, n \in zmap
  PROVE  Current(n) # None
<1>1. Control /\ disk \in [Inode -> DInodeType] /\ inode_table \in [Slot -> SlotType]
  BY DEF Inv, WorldTypes, Control, TableInv, TableTypes, DInodeType
<1>2. Has(inode_table, Reading, disk, zmap, n, Current(n))
  BY <1>1, CurrentIs DEF ContentIsRight
<1>3. Current(n) \in Data
  BY <1>1, <1>2 DEF Has, SlotType, DInodeType
<1> QED
  BY <1>3, DataAssumption DEF None

\* A process has the inode open that it asked for.
OpenedIsRight == Opened = [p \in Proc |-> IF pc[p] = "use" THEN nr[p] ELSE None]

LEMMA OpenedIs == Control => OpenedIsRight
<1> SUFFICES ASSUME Control, NEW p \in Proc, pc[p] = "use"
             PROVE  inode_table[inode[p]].i_num = nr[p]
  BY DEF Opened, OpenedIsRight
<1>1. Mine[p] = inode[p] /\ ~Waiting[p] /\ inode[p] # None
  BY Refers DEF Fits
<1> QED
  BY <1>1 DEF Control, TableInv, Holders

\* A step that keeps every file keeps the contents.
LEMMA SameContent ==
  ASSUME Control, SleepInv, Control', SleepInv', NEW S \in SUBSET Inode,
         KeepsFiles(inode_table, Reading, disk, zmap,
                    inode_table', Reading', disk', zmap', S)
  PROVE  \A n \in S : Current(n)' = Current(n)
<1> SUFFICES ASSUME NEW n \in S PROVE Current(n)' = Current(n)
  OBVIOUS
<1>1. n \in Inode
  OBVIOUS
<1>2. Has(inode_table, Reading, disk, zmap, n, Current(n))
  BY <1>1, CurrentIs DEF ContentIsRight
<1>3. (Control /\ SleepInv => ContentIsRight)'
  BY CurrentIs, PTL
<1>4. Has(inode_table', Reading', disk', zmap', n, Current(n)')
  BY <1>1, <1>3 DEF ContentIsRight
<1>5. Has(inode_table', Reading', disk', zmap', n, Current(n))
  BY <1>2 DEF KeepsFiles
<1>6. OneSlot(inode_table')
  BY DEF Control, TableInv, OneSlot
<1> QED
  BY <1>1, <1>4, <1>5, <1>6, OneContents

-----------------------------------------------------------------------------
(* A step of process p, to the others.                                     *)

Stays(p) ==
  \A q \in Proc \ {p} :
    /\ pc'[q] = pc[q] /\ inode'[q] = inode[q] /\ empty'[q] = empty[q]
    /\ nr'[q] = nr[q] /\ i'[q] = i[q] /\ block'[q] = block[q]

\* What the others rely on in a table t that is to be the next one.
Keeps(p, t) ==
  \A q \in Proc \ {p} :
    /\ Key[q] # None => t[Key[q]].i_lock /\ t[Key[q]].i_num = inode_table[Key[q]].i_num
    /\ pc[q] = "truncate" => t[inode[q]].d.i_nlinks = 0

\* p takes no lock that somebody has, reads in a slot of its own, and turns to
\* no slot that is being read in.
Alone(p) ==
  \A q \in Proc \ {p} :
    /\ Key'[p] # None => Key[q] # Key'[p]
    /\ pc'[p] = "read" => Mine[q] # inode'[p]
    /\ pc[q] = "read" => Mine'[p] # inode[q]

\* Who has taken a lock.
LEMMA KeyIs ==
  ASSUME Control, NEW q \in Proc
  PROVE  /\ pc[q] \in {"read", "write"} => Key[q] = inode[q]
         /\ pc[q] = "sync_write" => Key[q] = i[q]
         /\ Key[q] = None <=> pc[q] \notin {"read", "write", "sync_write"}
         /\ Key[q] \in Slot \cup {None}
         /\ pc[q] = "read" => Mine[q] = inode[q] /\ inode[q] \in Slot
<1>1. /\ Fits(pc[q], inode[q], empty[q], i[q])
      /\ inode[q] \in Slot \cup {None} /\ i[q] \in Slot \cup {None}
  BY Refers
<1> QED
  BY <1>1 DEF Key, Fits, Mine

\* The others are where they were.
LEMMA OthersStay ==
  ASSUME NEW p \in Proc, Stays(p), NEW q \in Proc \ {p}
  PROVE  Key'[q] = Key[q] /\ Mine'[q] = Mine[q]
BY DEF Stays, Key, Mine

\* If p respects what the others rely on, everybody finds what it left.
LEMMA SleepStep ==
  ASSUME Control, SleepInv, NEW p \in Proc, Stays(p), Keeps(p, inode_table'), Alone(p), Sound(p)',
         \A q \in Proc \ {p} : nr[q] # None => nr[q] \in zmap'
  PROVE  SleepInv'
<1>1. ASSUME NEW q \in Proc \ {p} PROVE Sound(q)'
  <2>1. Sound(q)
    BY DEF SleepInv
  <2>2. Key'[q] = Key[q]
    BY OthersStay
  <2>3. /\ Key[q] # None => inode_table'[Key[q]].i_lock
                            /\ inode_table'[Key[q]].i_num = inode_table[Key[q]].i_num
        /\ pc[q] = "truncate" => inode_table'[inode[q]].d.i_nlinks = 0
    BY DEF Keeps
  <2>4. pc'[q] = pc[q] /\ inode'[q] = inode[q] /\ nr'[q] = nr[q] /\ block'[q] = block[q]
    BY DEF Stays
  <2>5. pc[q] \in {"write", "sync_write"} => block[q] = BlockOf(inode_table'[Key[q]].i_num)
    BY <2>1, <2>3, KeyIs DEF Sound
  <2> QED
    BY <2>1, <2>2, <2>3, <2>4, <2>5 DEF Sound
<1>2. ASSUME NEW q \in Proc, NEW r \in Proc, q # r PROVE Apart(q, r)'
  <2>1. Apart(q, r) /\ Apart(r, q)
    BY <1>2 DEF SleepInv
  <2>2. CASE q = p
    BY <1>2, <2>2, OthersStay DEF Alone, Apart
  <2>3. CASE r = p
    <3>1. Key'[q] = Key[q] /\ pc'[q] = pc[q] /\ inode'[q] = inode[q]
      BY <1>2, <2>3, OthersStay DEF Stays
    <3> QED
      BY <1>2, <2>3, <3>1 DEF Alone, Apart
  <2>4. CASE q # p /\ r # p
    <3>1. /\ Key'[q] = Key[q] /\ pc'[q] = pc[q] /\ inode'[q] = inode[q]
          /\ Key'[r] = Key[r] /\ Mine'[r] = Mine[r]
      BY <2>4, OthersStay DEF Stays
    <3> QED
      BY <2>1, <3>1 DEF Apart
  <2> QED
    BY <2>2, <2>3, <2>4
<1> QED
  BY <1>1, <1>2 DEF SleepInv

\* The slots that are being read in, after a step of p.
LEMMA ReadingStep ==
  ASSUME SleepInv, LocalTypes, LocalTypes', NEW p \in Proc, Stays(p)
  PROVE  /\ pc[p] # "read" /\ pc'[p] # "read" => Reading' = Reading
         /\ pc[p] # "read" /\ pc'[p] = "read" /\ inode'[p] \in Slot =>
              Reading' = Reading \cup {inode'[p]}
         /\ pc[p] = "read" /\ pc'[p] # "read" => Reading' = Reading \ {inode[p]}
<1>1. \A q \in Proc \ {p} : pc'[q] = pc[q] /\ inode'[q] = inode[q]
  BY DEF Stays
<1>2. ASSUME pc[p] = "read" PROVE \A q \in Proc \ {p} : pc[q] = "read" => inode[q] # inode[p]
  <2> SUFFICES ASSUME NEW q \in Proc \ {p}, pc[q] = "read" PROVE inode[q] # inode[p]
    OBVIOUS
  <2>1. Apart(p, q)
    BY DEF SleepInv
  <2>2. Mine[q] = inode[q]
    BY DEF Mine
  <2> QED
    BY <1>2, <2>1, <2>2 DEF Apart
<1>3. ASSUME pc[p] # "read", pc'[p] # "read" PROVE Reading' = Reading
  <2>1. \A q \in Proc : pc'[q] = "read" <=> pc[q] = "read"
    BY <1>1, <1>3
  <2>2. \A q \in Proc : pc[q] = "read" => inode'[q] = inode[q]
    BY <1>1, <1>3
  <2> QED
    BY <2>1, <2>2 DEF Reading
<1>4. ASSUME pc[p] # "read", pc'[p] = "read", inode'[p] \in Slot
      PROVE  Reading' = Reading \cup {inode'[p]}
  <2>1. ASSUME NEW s PROVE s \in Reading' <=> s \in Reading \cup {inode'[p]}
    <3>1. s \in Reading' <=> s \in Slot /\ \E q \in Proc : pc'[q] = "read" /\ inode'[q] = s
      BY DEF Reading
    <3>2. s \in Reading <=> s \in Slot /\ \E q \in Proc : pc[q] = "read" /\ inode[q] = s
      BY DEF Reading
    <3> QED
      BY <1>1, <1>4, <3>1, <3>2, Zenon
  <2> QED
    BY <2>1
<1>5. ASSUME pc[p] = "read", pc'[p] # "read" PROVE Reading' = Reading \ {inode[p]}
  <2>1. ASSUME NEW s PROVE s \in Reading' <=> s \in Reading \ {inode[p]}
    <3>1. s \in Reading' <=> s \in Slot /\ \E q \in Proc : pc'[q] = "read" /\ inode'[q] = s
      BY DEF Reading
    <3>2. s \in Reading <=> s \in Slot /\ \E q \in Proc : pc[q] = "read" /\ inode[q] = s
      BY DEF Reading
    <3> QED
      BY <1>1, <1>2, <1>5, <3>1, <3>2, Zenon
  <2> QED
    BY <2>1
<1> QED
  BY <1>3, <1>4, <1>5

\* A lock taken, or counts changed, in a table that the others can live with.
LEMMA LockKeeps ==
  ASSUME NEW p \in Proc, NEW t, IsTable(t), Keeps(p, t), NEW s \in Slot
  PROVE  /\ Keeps(p, [t EXCEPT ![s].i_lock = TRUE])
         /\ SameView(t, [t EXCEPT ![s].i_lock = TRUE])
<1> DEFINE u == [t EXCEPT ![s].i_lock = TRUE]
<1>1. u[s] = [t[s] EXCEPT !.i_lock = TRUE] /\ \A v \in Slot : v # s => u[v] = t[v]
  BY DEF IsTable
<1>2. \A v : v \notin Slot => u[v] = t[v]
  BY DEF IsTable
<1>3. \A v : /\ u[v].i_num = t[v].i_num /\ u[v].d = t[v].d /\ u[v].i_dirt = t[v].i_dirt
             /\ t[v].i_lock => u[v].i_lock
  BY <1>1, <1>2 DEF IsTable, SlotType
<1> HIDE DEF u
<1>4. Keeps(p, u) /\ SameView(t, u)
  BY <1>3 DEF Keeps, SameView
<1> QED
  BY <1>4 DEF u

\* The table as it is.
LEMMA TableKeeps ==
  ASSUME SleepInv, NEW p \in Proc
  PROVE  Keeps(p, inode_table)
BY DEF SleepInv, Sound, Keeps

\* Nobody else has the lock of a slot that is not locked.
LEMMA UnlockedIsFree ==
  ASSUME NEW p \in Proc, NEW t, Keeps(p, t), NEW s \in Slot, ~t[s].i_lock,
         NEW q \in Proc \ {p}
  PROVE  Key[q] # s
BY Sizes DEF Keeps

\* p does not turn to another slot.
LEMMA MineStays ==
  ASSUME Control, SleepInv, NEW p \in Proc, pc[p] # "iget", pc'[p] # "iget", inode'[p] = inode[p],
         NEW q \in Proc \ {p}, pc[q] = "read"
  PROVE  Mine'[p] # inode[q]
<1>1. Mine'[p] = inode[p] /\ Mine[p] = inode[p]
  BY DEF Mine
<1>2. Apart(q, p)
  BY DEF SleepInv
<1> QED
  BY <1>1, <1>2 DEF Apart

\* sync_inodes().
LEMMA SyncSleep ==
  ASSUME Control, SleepInv, NEW p \in Proc, pc[p] \notin {"iget", "read"},
         NEW n \in Nat, NEW t, TableInv(t, Mine, nr, Waiting), Keeps(p, t),
         block \in [Proc -> (0 .. NrBlocks - 1) \cup {None}],
         SyncFrom(p, n, t), UNCHANGED <<inode, empty, nr, zmap>>
  PROVE  SleepInv' /\ SameView(t, inode_table') /\ Stays(p) /\ pc'[p] \notin {"read", "use"}
<1> DEFINE todo == {s \in n .. NR_INODE - 1 : t[s].i_lock \/ t[s].i_dirt}
           next == CHOOSE s \in todo : \A u \in todo : s <= u
<1>1. pc \in [Proc -> Places] /\ i \in [Proc -> Slot \cup {None}] /\ inode_table \in [Slot -> SlotType]
  BY DEF Control, LocalTypes, TableInv, TableTypes
<1>2. IsTable(t) /\ SameView(t, t)
  BY DEF TableInv, TableTypes, IsTable, SameView
<1>3. nr[p] # None => nr[p] \in zmap
  BY DEF SleepInv, Sound
<1>4. ASSUME NEW place \in {"idle", "repeat", "sync"},
             pc' = [pc EXCEPT ![p] = place], NEW k, i' = [i EXCEPT ![p] = k],
             NEW b, block' = [block EXCEPT ![p] = b], inode_table' = t
      PROVE  SleepInv' /\ SameView(t, inode_table') /\ Stays(p) /\ pc'[p] \notin {"read", "use"}
  <2>1. Stays(p) /\ pc'[p] = place
    BY <1>1, <1>4 DEF Stays
  <2>2. Key'[p] = None
    BY <2>1 DEF Key
  <2>3. Alone(p)
    <3>1. \A q \in Proc \ {p} : pc[q] = "read" => Mine'[p] # inode[q]
      BY <2>1, MineStays
    <3> QED
      BY <2>1, <2>2, <3>1 DEF Alone
  <2>4. Sound(p)'
    BY <1>3, <2>1, <2>2 DEF Sound
  <2>5. \A q \in Proc \ {p} : nr[q] # None => nr[q] \in zmap'
    BY DEF SleepInv, Sound
  <2> QED
    BY <1>2, <1>4, <2>1, <2>3, <2>4, <2>5, SleepStep
<1>5. CASE todo = {}
  <2>1. /\ pc' = [pc EXCEPT ![p] = IF inode[p] = None THEN "idle" ELSE "repeat"]
        /\ i' = [i EXCEPT ![p] = None] /\ block' = [block EXCEPT ![p] = None]
        /\ inode_table' = t
    BY <1>5 DEF SyncFrom, Goto
  <2>2. (IF inode[p] = None THEN "idle" ELSE "repeat") \in {"idle", "repeat", "sync"}
    OBVIOUS
  <2> QED
    BY <1>4, <2>1, <2>2
<1>6. CASE todo # {}
  <2>1. next \in todo
    <3>1. todo \in SUBSET Nat
      BY Sizes
    <3>2. PICK s \in todo : \A u \in todo : s <= u
      BY <1>6, <3>1, HasMinimum
    <3> QED
      BY <3>2
  <2>2. /\ i' = [i EXCEPT ![p] = next]
        /\ IF t[next].i_lock
             THEN /\ Goto(p, "sync") /\ inode_table' = t
                    /\ block' = [block EXCEPT ![p] = None]
             ELSE WriteInode(p, next, t, "sync_write")
    BY <1>6 DEF SyncFrom
  <2> HIDE DEF next
  <2>3. next \in Slot /\ next # None /\ (t[next].i_lock \/ t[next].i_dirt)
    BY <2>1, Sizes DEF Slot
  <2>4. CASE t[next].i_lock
    BY <1>4, <2>2, <2>4 DEF Goto
  <2>5. CASE ~t[next].i_lock
    <3> DEFINE u == [t EXCEPT ![next].i_lock = TRUE]
    <3>1. /\ inode_table' = u /\ block' = [block EXCEPT ![p] = BlockOf(t[next].i_num)]
          /\ pc' = [pc EXCEPT ![p] = "sync_write"]
      BY <2>2, <2>5 DEF WriteInode, Goto
    <3>2. Keeps(p, u) /\ SameView(t, u)
      BY <1>2, <2>3, LockKeeps
    <3>3. u[next].i_lock /\ u[next].i_num = t[next].i_num /\ t[next].i_num # 0
      BY <1>2, <2>3, <2>5 DEF IsTable, SlotType, TableInv, DirtyIsSome
    <3> HIDE DEF u
    <3>4. Stays(p) /\ pc'[p] = "sync_write" /\ i'[p] = next /\ block'[p] = BlockOf(t[next].i_num)
      BY <1>1, <2>2, <3>1 DEF Stays
    <3>5. Key'[p] = next
      BY <3>4 DEF Key
    <3>6. Alone(p)
      <4>1. \A q \in Proc \ {p} : pc[q] = "read" => Mine'[p] # inode[q]
        BY <3>4, MineStays
      <4>2. \A q \in Proc \ {p} : Key[q] # next
        BY <2>3, <2>5, UnlockedIsFree
      <4> QED
        BY <3>4, <3>5, <4>1, <4>2 DEF Alone
    <3>7. Sound(p)'
      BY <1>3, <3>1, <3>3, <3>4, <3>5 DEF Sound
    <3>8. \A q \in Proc \ {p} : nr[q] # None => nr[q] \in zmap'
      BY DEF SleepInv, Sound
    <3> QED
      BY <3>1, <3>2, <3>4, <3>6, <3>7, <3>8, SleepStep
  <2> QED
    BY <2>4, <2>5
<1> QED
  BY <1>5, <1>6

\* Counts changed, too.
LEMMA QuietKeeps ==
  ASSUME Control, NEW p \in Proc, NEW t, Keeps(p, t), NEW u,
         \A v \in Slot : /\ u[v].i_num = t[v].i_num /\ u[v].d = t[v].d
                         /\ u[v].i_dirt = t[v].i_dirt /\ u[v].i_lock = t[v].i_lock
  PROVE  Keeps(p, u) /\ SameView(t, u)
<1>1. ASSUME NEW q \in Proc \ {p}
      PROVE  /\ Key[q] # None => u[Key[q]].i_lock /\ u[Key[q]].i_num = inode_table[Key[q]].i_num
             /\ pc[q] = "truncate" => u[inode[q]].d.i_nlinks = 0
  <2>1. /\ Key[q] \in Slot \cup {None}
        /\ pc[q] = "truncate" => inode[q] \in Slot
    BY KeyIs, Refers DEF Fits
  <2> QED
    BY <2>1 DEF Keeps
<1> QED
  BY <1>1 DEF Keeps, SameView

\* iput() from `repeat' on.
LEMMA ReleaseSleep ==
  ASSUME Control, SleepInv, NEW p \in Proc, pc[p] \in {"use", "repeat"},
         block \in [Proc -> (0 .. NrBlocks - 1) \cup {None}],
         ~inode_table[inode[p]].i_lock,
         Release(p), UNCHANGED <<empty, i, zmap>>
  PROVE  /\ SleepInv' /\ SameView(inode_table, inode_table') /\ Stays(p)
         /\ pc'[p] \notin {"read", "use"}
<1> DEFINE s == inode[p]
           slot == inode_table[s]
<1>1. /\ s \in Slot /\ s # None /\ Mine[p] = s /\ ~Waiting[p]
      /\ TableInv(inode_table, Mine, nr, Waiting) /\ inode_table \in [Slot -> SlotType]
      /\ pc \in [Proc -> Places] /\ inode \in [Proc -> Slot \cup {None}]
      /\ nr \in [Proc -> Inode \cup {None}]
  BY Refers DEF Fits, Control, LocalTypes
<1>2. slot.i_count \in Nat \ {0} /\ slot.i_num # 0
  BY <1>1, HeldCounts DEF Live
<1>3. nr[p] # None => nr[p] \in zmap
  BY DEF SleepInv, Sound
<1>4. Keeps(p, inode_table) /\ SameView(inode_table, inode_table)
  BY TableKeeps DEF SameView
<1>5. \A q \in Proc \ {p} : nr[q] # None => nr[q] \in zmap'
  BY DEF SleepInv, Sound
<1>6. CASE slot.i_count > 1 \/ (slot.d.i_nlinks # 0 /\ ~slot.i_dirt)
  <2> DEFINE u == [inode_table EXCEPT ![s].i_count = @ - 1]
  <2>1. inode_table' = u /\ Return(p, None, None) /\ UNCHANGED block
    BY <1>6 DEF Release
  <2>2. \A v \in Slot : /\ u[v].i_num = inode_table[v].i_num /\ u[v].d = inode_table[v].d
                        /\ u[v].i_dirt = inode_table[v].i_dirt /\ u[v].i_lock = inode_table[v].i_lock
    BY <1>1 DEF SlotType
  <2> HIDE DEF u
  <2>3. Keeps(p, u) /\ SameView(inode_table, u)
    BY <1>4, <2>2, QuietKeeps
  <2>4. Stays(p) /\ pc'[p] = "idle" /\ inode'[p] = None /\ nr'[p] = None
    BY <1>1, <2>1 DEF Return, Goto, Stays
  <2>5. Key'[p] = None /\ Mine'[p] = None
    BY <2>4 DEF Key, Mine
  <2>6. Alone(p)
    <3>1. \A q \in Proc \ {p} : pc[q] = "read" => None # inode[q]
      BY Refers DEF Fits
    <3> QED
      BY <2>4, <2>5, <3>1 DEF Alone
  <2>7. Sound(p)'
    BY <2>4, <2>5 DEF Sound
  <2> QED
    BY <1>5, <2>1, <2>3, <2>4, <2>6, <2>7, SleepStep
<1>7. CASE slot.i_count = 1 /\ slot.d.i_nlinks = 0
  <2>1. Goto(p, "truncate") /\ UNCHANGED <<inode_table, inode, nr, block>>
    BY <1>7 DEF Release
  <2>2. Stays(p) /\ pc'[p] = "truncate"
    BY <1>1, <2>1 DEF Goto, Stays
  <2>3. Key'[p] = None
    BY <2>2 DEF Key
  <2>4. Alone(p)
    <3>1. \A q \in Proc \ {p} : pc[q] = "read" => Mine'[p] # inode[q]
      BY <2>1, <2>2, MineStays
    <3> QED
      BY <2>2, <2>3, <3>1 DEF Alone
  <2>5. Sound(p)'
    BY <1>3, <1>7, <2>1, <2>2, <2>3 DEF Sound
  <2> QED
    BY <1>4, <1>5, <2>1, <2>2, <2>4, <2>5, SleepStep
<1>8. CASE /\ ~(slot.i_count > 1 \/ (slot.d.i_nlinks # 0 /\ ~slot.i_dirt))
           /\ ~(slot.i_count = 1 /\ slot.d.i_nlinks = 0)
  <2> DEFINE u == [inode_table EXCEPT ![s].i_lock = TRUE]
  <2>1. WriteInode(p, s, inode_table, "write") /\ UNCHANGED <<inode, nr>>
    BY <1>8 DEF Release
  <2>2. /\ inode_table' = u /\ block' = [block EXCEPT ![p] = BlockOf(slot.i_num)]
        /\ pc' = [pc EXCEPT ![p] = "write"]
    BY <2>1 DEF WriteInode, Goto
  <2>3. Keeps(p, u) /\ SameView(inode_table, u)
    BY <1>1, <1>4, LockKeeps DEF IsTable
  <2>4. u[s].i_lock /\ u[s].i_num = slot.i_num
    BY <1>1 DEF SlotType
  <2> HIDE DEF u
  <2>5. Stays(p) /\ pc'[p] = "write" /\ block'[p] = BlockOf(slot.i_num) /\ inode'[p] = s
    BY <1>1, <2>1, <2>2 DEF Stays
  <2>6. Key'[p] = s
    BY <2>5 DEF Key
  <2>7. Alone(p)
    <3>1. \A q \in Proc \ {p} : pc[q] = "read" => Mine'[p] # inode[q]
      BY <2>5, MineStays
    <3>2. \A q \in Proc \ {p} : Key[q] # s
      BY <1>1, <1>4, UnlockedIsFree
    <3> QED
      BY <2>5, <2>6, <3>1, <3>2 DEF Alone
  <2>8. Sound(p)'
    BY <1>2, <1>3, <2>1, <2>2, <2>4, <2>5, <2>6 DEF Sound
  <2> QED
    BY <1>5, <2>2, <2>3, <2>5, <2>7, <2>8, SleepStep
<1> QED
  BY <1>6, <1>7, <1>8

\* iget() has found its inode, in a slot that is not locked.
LEMMA FoundSleep ==
  ASSUME Control, SleepInv, NEW p \in Proc, NEW n \in zmap, NEW e \in Slot, NEW s \in Slot,
         NEW t, IsTable(t), Keeps(p, t), ~t[s].i_lock,
         Found(p, n, s, e, t), UNCHANGED <<i, block, zmap>>
  PROVE  /\ SleepInv' /\ SameView(t, inode_table') /\ Stays(p)
         /\ pc'[p] = "use" /\ nr'[p] = n
<1> DEFINE u == [t EXCEPT ![s].i_count = @ + 1, ![e].i_count = @ - 1]
<1>1. /\ pc \in [Proc -> Places] /\ inode \in [Proc -> Slot \cup {None}]
      /\ empty \in [Proc -> Slot \cup {None}] /\ nr \in [Proc -> Inode \cup {None}]
      /\ s # None
  BY Sizes DEF Control, LocalTypes
<1>2. /\ inode_table' = u /\ pc' = [pc EXCEPT ![p] = "use"]
      /\ inode' = [inode EXCEPT ![p] = s] /\ nr' = [nr EXCEPT ![p] = n]
      /\ empty' = [empty EXCEPT ![p] = None]
  BY <1>1 DEF Found, Return, Goto
<1>3. \A v \in Slot : /\ u[v].i_num = t[v].i_num /\ u[v].d = t[v].d
                      /\ u[v].i_dirt = t[v].i_dirt /\ u[v].i_lock = t[v].i_lock
  BY DEF IsTable, SlotType
<1> HIDE DEF u
<1>4. Keeps(p, u) /\ SameView(t, u)
  BY <1>3, QuietKeeps
<1>5. Stays(p) /\ pc'[p] = "use" /\ inode'[p] = s /\ nr'[p] = n
  BY <1>1, <1>2 DEF Stays
<1>6. Key'[p] = None /\ Mine'[p] = s
  BY <1>5 DEF Key, Mine
<1>7. Alone(p)
  <2>1. \A q \in Proc \ {p} : pc[q] = "read" => s # inode[q]
    BY KeyIs, UnlockedIsFree
  <2> QED
    BY <1>5, <1>6, <2>1 DEF Alone
<1>8. Sound(p)'
  BY <1>5, <1>6 DEF Sound
<1>9. \A q \in Proc \ {p} : nr[q] # None => nr[q] \in zmap'
  BY DEF SleepInv, Sound
<1> QED
  BY <1>2, <1>4, <1>5, <1>7, <1>8, <1>9, SleepStep

\* iget() has begun to read inode n into slot e.
ReadBegun(p, n, e, t) ==
  /\ pc'[p] = "read" /\ inode'[p] = e /\ t[e].i_num = 0
  /\ SameBut(t, inode_table', e) /\ inode_table'[e].i_num = n

\* The inode is found, or it is locked, or its reading begins: e is nobody else's.
LEMMA LookupSleep ==
  ASSUME Control, SleepInv, NEW p \in Proc, NEW n \in zmap, n \in Inode, NEW e \in Slot, NEW t,
         TableInv(t, [Mine EXCEPT ![p] = e], [nr EXCEPT ![p] = n], [Waiting EXCEPT ![p] = TRUE]),
         Keeps(p, t), Lookup(p, n, e, t), UNCHANGED <<i, block, zmap>>
  PROVE  /\ SleepInv' /\ Stays(p) /\ nr'[p] = n
         /\ \/ pc'[p] \in {"iget", "use"} /\ SameView(t, inode_table')
            \/ ReadBegun(p, n, e, t)
<1> DEFINE M == [Mine EXCEPT ![p] = e]
           N == [nr EXCEPT ![p] = n]
           W == [Waiting EXCEPT ![p] = TRUE]
           same == {s \in Slot : t[s].i_num = n}
           first == CHOOSE s \in same : \A u \in same : s <= u
<1>1. /\ pc \in [Proc -> Places] /\ inode \in [Proc -> Slot \cup {None}]
      /\ empty \in [Proc -> Slot \cup {None}] /\ nr \in [Proc -> Inode \cup {None}]
      /\ e # None /\ IsTable(t) /\ SameView(t, t)
  BY Sizes DEF Control, LocalTypes, TableInv, TableTypes, IsTable, SameView
<1>2. M[p] = e /\ W[p] /\ \A q \in Proc \ {p} : M[q] = Mine[q]
  BY DEF Mine, Waiting
<1>3. TableInv(t, M, N, W)
  OBVIOUS
<1> HIDE DEF M, N, W
<1>4. Fresh(t[e])
  BY <1>1, <1>2, <1>3 DEF TableInv, Holders
<1>5. \A q \in Proc \ {p} : Mine[q] # e
  <2> SUFFICES ASSUME NEW q \in Proc \ {p}, Mine[q] = e PROVE FALSE
    OBVIOUS
  <2>1. t[e].i_count = 1 /\ t[e].i_num # ROOT_INO
    BY <1>4 DEF Fresh, ROOT_INO
  <2>2. M[q] = e
    BY <1>2
  <2>3. p = q
    BY <1>2, <1>3, <2>1, <2>2, FreshIsMine
  <2> QED
    BY <2>3
<1>6. \A q \in Proc \ {p} : Key[q] # e
  BY <1>4, UnlockedIsFree DEF Fresh
<1>7. \A q \in Proc \ {p} : pc[q] = "read" => e # inode[q]
  BY <1>6, KeyIs
<1>8. \A q \in Proc \ {p} : nr[q] # None => nr[q] \in zmap'
  BY DEF SleepInv, Sound
<1>9. CASE same = {}
  <2> DEFINE u == [t EXCEPT ![e].i_num = n, ![e].i_lock = TRUE]
  <2>1. /\ inode_table' = u /\ pc' = [pc EXCEPT ![p] = "read"]
        /\ inode' = [inode EXCEPT ![p] = e]
        /\ empty' = [empty EXCEPT ![p] = None] /\ nr' = [nr EXCEPT ![p] = n]
    BY <1>9 DEF Lookup, ReadInode, Goto
  <2>2. /\ u[e].i_num = n /\ u[e].i_lock /\ n # 0 /\ n # None
        /\ \A v \in Slot : v # e => u[v] = t[v]
    <3>1. n # 0 /\ n # None
      BY Sizes
    <3>2. /\ u[e].i_num = n /\ u[e].i_lock
          /\ \A v \in Slot : v # e => u[v] = t[v]
      BY <1>1 DEF IsTable, SlotType
    <3> QED
      BY <3>1, <3>2
  <2> HIDE DEF u
  <2>3. Keeps(p, u)
    <3> SUFFICES ASSUME NEW q \in Proc \ {p}
                 PROVE  /\ Key[q] # None =>
                             u[Key[q]].i_lock /\ u[Key[q]].i_num = inode_table[Key[q]].i_num
                        /\ pc[q] = "truncate" => u[inode[q]].d.i_nlinks = 0
      BY DEF Keeps
    <3>1. Key[q] # e /\ Key[q] \in Slot \cup {None}
      BY <1>6, KeyIs
    <3>2. pc[q] = "truncate" => inode[q] # e /\ inode[q] \in Slot
      BY <1>5, Refers DEF Mine, Fits
    <3> QED
      BY <2>2, <3>1, <3>2 DEF Keeps
  <2>4. Stays(p) /\ pc'[p] = "read" /\ inode'[p] = e /\ nr'[p] = n
    BY <1>1, <2>1 DEF Stays
  <2>5. Key'[p] = e /\ Mine'[p] = e
    BY <2>4 DEF Key, Mine
  <2>6. Alone(p)
    BY <1>5, <1>6, <1>7, <2>4, <2>5 DEF Alone
  <2>7. Sound(p)'
    BY <2>1, <2>2, <2>4, <2>5 DEF Sound
  <2>8. SleepInv'
    BY <1>8, <2>1, <2>3, <2>4, <2>6, <2>7, SleepStep
  <2>9. ReadBegun(p, n, e, t)
    BY <1>4, <2>1, <2>2, <2>4 DEF ReadBegun, SameBut, Fresh
  <2> QED
    BY <2>4, <2>8, <2>9
<1>10. CASE same # {}
  <2>1. first \in same
    <3>1. same \in SUBSET Nat
      BY Sizes
    <3>2. PICK s \in same : \A v \in same : s <= v
      BY <1>10, <3>1, HasMinimum
    <3> QED
      BY <3>2
  <2>2. IF t[first].i_lock
          THEN /\ inode_table' = t
               /\ Goto(p, "iget") /\ inode' = [inode EXCEPT ![p] = first]
               /\ empty' = [empty EXCEPT ![p] = e] /\ nr' = [nr EXCEPT ![p] = n]
          ELSE Found(p, n, first, e, t)
    BY <1>10 DEF Lookup
  <2> HIDE DEF first
  <2>3. first \in Slot
    BY <2>1
  <2>4. CASE ~t[first].i_lock
    <3>1. /\ SleepInv' /\ SameView(t, inode_table') /\ Stays(p)
          /\ pc'[p] = "use" /\ nr'[p] = n
      BY <1>1, <2>2, <2>3, <2>4, FoundSleep
    <3> QED
      BY <3>1
  <2>5. CASE t[first].i_lock
    <3>1. /\ inode_table' = t
          /\ pc' = [pc EXCEPT ![p] = "iget"] /\ inode' = [inode EXCEPT ![p] = first]
          /\ empty' = [empty EXCEPT ![p] = e] /\ nr' = [nr EXCEPT ![p] = n]
      BY <2>2, <2>5 DEF Goto
    <3>2. Stays(p) /\ pc'[p] = "iget" /\ empty'[p] = e /\ nr'[p] = n
      BY <1>1, <3>1 DEF Stays
    <3>3. Key'[p] = None /\ Mine'[p] = e
      BY <3>2 DEF Key, Mine
    <3>4. Alone(p)
      BY <1>7, <3>2, <3>3 DEF Alone
    <3>5. Sound(p)'
      BY <3>2, <3>3 DEF Sound
    <3>6. SleepInv'
      BY <1>8, <3>1, <3>2, <3>4, <3>5, SleepStep
    <3> QED
      BY <1>1, <3>1, <3>2, <3>6
  <2> QED
    BY <2>4, <2>5
<1> QED
  BY <1>9, <1>10

-----------------------------------------------------------------------------
(* The steps.                                                              *)

\* What a step from a table t on the way keeps.
KeepsSince(t) ==
  KeepsFiles(t, Reading, disk, zmap, inode_table', Reading', disk', zmap', Inode)

\* Two changes after one another.
LEMMA KeepsBoth ==
  ASSUME NEW t, NEW R, NEW D, NEW Z, NEW u, NEW R2, NEW D2, NEW Z2,
         NEW v, NEW RR, NEW DD, NEW ZZ, NEW S,
         KeepsFiles(t, R, D, Z, u, R2, D2, Z2, S), KeepsFiles(u, R2, D2, Z2, v, RR, DD, ZZ, S)
  PROVE  KeepsFiles(t, R, D, Z, v, RR, DD, ZZ, S)
BY DEF KeepsFiles

\* What p has open afterwards; the others have open what they had.
LEMMA OpenedStep ==
  ASSUME Control, Control', NEW p \in Proc, Stays(p)
  PROVE  /\ Opened' = [Opened EXCEPT ![p] = IF pc'[p] = "use" THEN nr'[p] ELSE None]
         /\ Opened[p] = IF pc[p] = "use" THEN nr[p] ELSE None
<1>1. Opened = [q \in Proc |-> IF pc[q] = "use" THEN nr[q] ELSE None]
  BY OpenedIs DEF OpenedIsRight
<1>2. (Control => OpenedIsRight)'
  BY OpenedIs, PTL
<1>3. Opened' = [q \in Proc |-> IF pc'[q] = "use" THEN nr'[q] ELSE None]
  BY <1>2 DEF OpenedIsRight
<1> HIDE DEF Opened
<1>4. \A q \in Proc \ {p} : pc'[q] = pc[q] /\ nr'[q] = nr[q]
  BY DEF Stays
<1> QED
  BY <1>1, <1>3, <1>4

\* No file changes.
LEMMA ContentStep ==
  ASSUME Control, SleepInv, Control', SleepInv', KeepsSince(inode_table)
  PROVE  Content' = Content
<1>1. \A n \in Inode : Current(n)' = Current(n)
  BY SameContent DEF KeepsSince
<1> QED
  BY <1>1 DEF Content

\* Locks, counts and local variables.
LEMMA ViewStep ==
  ASSUME SleepInv, LocalTypes, LocalTypes', NEW p \in Proc, Stays(p),
         pc[p] # "read", pc'[p] # "read",
         NEW t, Complete(t, Reading, disk, names, zmap), SameView(t, inode_table'),
         UNCHANGED <<disk, zmap, names>>
  PROVE  Whole' /\ KeepsSince(t)
<1>1. Reading' = Reading
  BY ReadingStep
<1>2. /\ Complete(inode_table', Reading, disk, names, zmap)
      /\ KeepsFiles(t, Reading, disk, zmap, inode_table', Reading, disk, zmap, Inode)
  BY ViewKept
<1> QED
  BY <1>1, <1>2 DEF Whole, KeepsSince

\* A writer has written.
LEMMA WrittenBack ==
  ASSUME Inv, SleepInv, Whole, NEW p \in Proc, pc[p] \in {"write", "sync_write"},
         NEW s, s = Key[p], Written(p, s)
  PROVE  /\ s \in Slot
         /\ Complete(Clean(s), Reading, disk', names, zmap)
         /\ KeepsFiles(inode_table, Reading, disk, zmap, Clean(s), Reading, disk', zmap, Inode)
         /\ Keeps(p, Clean(s))
<1> DEFINE u == Clean(s)
           n == inode_table[s].i_num
<1>1. /\ Control /\ IsTable(inode_table) /\ OneSlot(inode_table) /\ IsDisk(disk)
      /\ names \subseteq Inode
  BY DEF Inv, WorldTypes, Control, TableInv, TableTypes, IsTable, IsDisk, DInodeType
<1>2. s \in Slot /\ s # None
  BY <1>1, KeyIs
<1>3. n # 0 /\ block[p] = BlockOf(n)
  BY <1>2 DEF SleepInv, Sound
<1>4. n \in Inode
  BY <1>1, <1>2, <1>3 DEF IsTable, SlotType
<1>5. disk' = [disk EXCEPT ![n] = inode_table[s].d]
  BY <1>3, <1>4, PlaceOfInode DEF Written
<1>6. s \notin Reading
  <2> SUFFICES ASSUME NEW q \in Proc, pc[q] = "read", inode[q] = s PROVE FALSE
    BY DEF Reading
  <2>1. q # p /\ Key[q] = s
    BY <1>1, KeyIs
  <2>2. Apart(p, q)
    BY <2>1 DEF SleepInv
  <2> QED
    BY <1>2, <2>1, <2>2 DEF Apart
<1>7. /\ u[s].i_num = n /\ u[s].d = inode_table[s].d
      /\ \A v \in Slot : v # s => u[v] = inode_table[v]
  <2>1. \A x \in SlotType : LET y == [[x EXCEPT !.i_dirt = FALSE] EXCEPT !.i_lock = FALSE]
                            IN  y.i_num = x.i_num /\ y.d = x.d
    BY DEF SlotType
  <2>2. u[s] = [[inode_table[s] EXCEPT !.i_dirt = FALSE] EXCEPT !.i_lock = FALSE]
    BY <1>1, <1>2 DEF Clean, IsTable
  <2>3. \A v \in Slot : v # s => u[v] = inode_table[v]
    BY <1>1 DEF Clean, IsTable
  <2> QED
    BY <1>1, <1>2, <2>1, <2>2, <2>3 DEF IsTable
<1> HIDE DEF u
<1>8. /\ Complete(u, Reading, disk', names, zmap)
      /\ KeepsFiles(inode_table, Reading, disk, zmap, u, Reading, disk', zmap, Inode)
  <2>1. SameBut(inode_table, u, s) /\ Complete(inode_table, Reading, disk, names, zmap)
    BY <1>7 DEF SameBut, Whole
  <2>2. s \in Slot \ Reading
    BY <1>2, <1>6
  <2> QED
    BY <1>1, <1>3, <1>5, <1>7, <2>1, <2>2, WriteEnds
<1>9. Keeps(p, u)
  <2> SUFFICES ASSUME NEW q \in Proc \ {p}
               PROVE  /\ Key[q] # None =>
                           u[Key[q]].i_lock /\ u[Key[q]].i_num = inode_table[Key[q]].i_num
                      /\ pc[q] = "truncate" => u[inode[q]].d.i_nlinks = 0
    BY DEF Keeps
  <2>1. Key[q] # s /\ Key[q] \in Slot \cup {None}
    BY <1>1, <1>2, KeyIs DEF SleepInv, Apart
  <2>2. pc[q] = "truncate" => inode[q] \in Slot
    BY <1>1, Refers DEF Fits
  <2>3. Sound(q)
    BY DEF SleepInv
  <2> QED
    BY <1>7, <2>1, <2>2, <2>3 DEF Sound
<1> QED
  BY <1>2, <1>8, <1>9 DEF u

\* The steps that change no file, of a process that has none open afterwards or
\* had none before.
Harmless(p) ==
  /\ SleepInv' /\ Whole' /\ Stays(p)
  /\ Content' = Content /\ names' = names
  /\ pc[p] = "use" => pc'[p] # "use"

\* What the invariant says at the beginning of each of the proofs below.
LEMMA Given ==
  ASSUME Inv
  PROVE  /\ Control /\ LocalTypes /\ names \subseteq Inode
         /\ block \in [Proc -> (0 .. NrBlocks - 1) \cup {None}]
         /\ TableInv(inode_table, Mine, nr, Waiting)
         /\ OneSlot(inode_table) /\ IsTable(inode_table) /\ IsDisk(disk)
BY DEF Inv, WorldTypes, BlockType, Control, TableInv, TableTypes, IsTable, IsDisk, DInodeType

\* The same, after the step.
LEMMA GivenNext ==
  ASSUME Inv'
  PROVE  Control' /\ LocalTypes'
BY DEF Inv, Control

\* sync_inodes().
LEMMA SyncHarmless ==
  ASSUME Inv, Inv', SleepInv, Whole, NEW p \in Proc,
         SyncInodes(p) \/ SyncWaited(p) \/ SyncWritten(p)
  PROVE  Harmless(p)
<1> USE DEF table, maps, local
<1>1. /\ Control /\ LocalTypes /\ TableInv(inode_table, Mine, nr, Waiting)
      /\ block \in [Proc -> (0 .. NrBlocks - 1) \cup {None}]
      /\ Control' /\ LocalTypes'
  BY Given, GivenNext
<1>2. pc[p] \in {"idle", "sync", "sync_write"} /\ UNCHANGED <<inode, empty, nr, zmap, names>>
  BY DEF SyncInodes, SyncWaited, SyncWritten
<1>3. ASSUME NEW n \in Nat, SyncFrom(p, n, inode_table), disk' = disk
      PROVE  Harmless(p)
  <2>1. Keeps(p, inode_table)
    BY TableKeeps
  <2>2. SleepInv' /\ SameView(inode_table, inode_table') /\ Stays(p) /\ pc'[p] \notin {"read", "use"}
    BY <1>1, <1>2, <1>3, <2>1, SyncSleep
  <2>3. Whole' /\ KeepsSince(inode_table)
    BY <1>1, <1>2, <1>3, <2>2, ViewStep DEF Whole
  <2>4. Content' = Content
    BY <1>1, <2>2, <2>3, ContentStep
  <2> QED
    BY <1>2, <2>2, <2>3, <2>4 DEF Harmless
<1>4. CASE SyncInodes(p)
  BY <1>3, <1>4 DEF SyncInodes
<1>5. CASE SyncWaited(p)
  <2>1. i[p] \in Nat
    BY <1>1, <1>5, Refers, Sizes DEF SyncWaited, Fits
  <2> QED
    BY <1>3, <1>5, <2>1 DEF SyncWaited
<1>6. CASE SyncWritten(p)
  <2> DEFINE s == i[p]
             t == Clean(s)
  <2>1. pc[p] = "sync_write" /\ s = Key[p] /\ s \in Slot /\ s + 1 \in Nat
    BY <1>1, <1>6, KeyIs, Refers, Sizes DEF SyncWritten, Fits
  <2>2. Written(p, s) /\ SyncFrom(p, s + 1, t)
    BY <1>6 DEF SyncWritten
  <2>3. TableInv(t, Mine, nr, Waiting)
    BY <1>1, <2>1, CleanStep
  <2>4. /\ Complete(Clean(s), Reading, disk', names, zmap)
        /\ KeepsFiles(inode_table, Reading, disk, zmap, Clean(s), Reading, disk', zmap, Inode)
        /\ Keeps(p, Clean(s))
    BY <2>1, <2>2, WrittenBack
  <2> HIDE DEF s, t
  <2>5. Keeps(p, t)
    BY <2>4 DEF t
  <2>6. SleepInv' /\ SameView(t, inode_table') /\ Stays(p) /\ pc'[p] \notin {"read", "use"}
    BY <1>1, <1>2, <2>1, <2>2, <2>3, <2>5, SyncSleep
  <2>7. Reading' = Reading
    BY <1>1, <2>1, <2>6, ReadingStep
  <2>8. /\ Complete(inode_table', Reading, disk', names, zmap)
        /\ KeepsFiles(t, Reading, disk', zmap, inode_table', Reading, disk', zmap, Inode)
    BY <2>4, <2>6, ViewKept DEF t
  <2>9. Whole' /\ KeepsSince(inode_table)
    <3>1. KeepsFiles(inode_table, Reading, disk, zmap, t, Reading, disk', zmap, Inode)
      BY <2>4 DEF t
    <3>2. KeepsFiles(inode_table, Reading, disk, zmap, inode_table', Reading, disk', zmap, Inode)
      BY <2>8, <3>1, KeepsBoth
    <3> QED
      BY <1>2, <2>7, <2>8, <3>2 DEF Whole, KeepsSince
  <2>10. Content' = Content
    BY <1>1, <2>6, <2>9, ContentStep
  <2> QED
    BY <1>2, <2>6, <2>9, <2>10 DEF Harmless
<1> QED
  BY <1>4, <1>5, <1>6

\* iput(), but for the end of the inode.
LEMMA PutHarmless ==
  ASSUME Inv, Inv', SleepInv, Whole, NEW p \in Proc, Iput(p) \/ IputRepeat(p)
  PROVE  Harmless(p)
<1> USE DEF table, maps, local
<1>1. /\ Control /\ LocalTypes /\ TableInv(inode_table, Mine, nr, Waiting)
      /\ block \in [Proc -> (0 .. NrBlocks - 1) \cup {None}]
      /\ Control' /\ LocalTypes' /\ Keeps(p, inode_table)
  BY Given, GivenNext, TableKeeps
<1>2. /\ pc[p] \in {"use", "repeat"} /\ ~inode_table[inode[p]].i_lock
      /\ UNCHANGED <<empty, zmap, names, disk>>
  BY DEF Iput, IputRepeat
<1>3. \/ SyncFrom(p, 0, inode_table) /\ UNCHANGED <<inode, nr>>
      \/ Release(p) /\ UNCHANGED i
  BY DEF Iput, IputRepeat
<1>4. /\ SleepInv' /\ SameView(inode_table, inode_table') /\ Stays(p)
      /\ pc'[p] \notin {"read", "use"}
  <2>1. CASE SyncFrom(p, 0, inode_table) /\ UNCHANGED <<inode, nr>>
    BY <1>1, <1>2, <2>1, SyncSleep
  <2>2. CASE Release(p) /\ UNCHANGED i
    BY <1>1, <1>2, <2>2, ReleaseSleep
  <2> QED
    BY <1>3, <2>1, <2>2
<1>5. Whole' /\ KeepsSince(inode_table)
  BY <1>1, <1>2, <1>4, ViewStep DEF Whole
<1>6. Content' = Content
  BY <1>1, <1>4, <1>5, ContentStep
<1> QED
  BY <1>2, <1>4, <1>5, <1>6 DEF Harmless

\* iput() has written the inode.
LEMMA PutWrittenHarmless ==
  ASSUME Inv, Inv', SleepInv, Whole, NEW p \in Proc, IputWritten(p)
  PROVE  Harmless(p)
<1> USE DEF table, maps, local
<1> DEFINE s == inode[p]
<1>1. Control /\ LocalTypes /\ Control' /\ LocalTypes' /\ pc \in [Proc -> Places]
  BY Given, GivenNext DEF LocalTypes
<1>2. /\ pc[p] = "write" /\ s = Key[p] /\ Written(p, s) /\ inode_table' = Clean(s)
      /\ block' = [block EXCEPT ![p] = None] /\ pc' = [pc EXCEPT ![p] = "repeat"]
      /\ UNCHANGED <<inode, empty, nr, i, zmap, names>>
  BY <1>1, KeyIs DEF IputWritten, Goto
<1>3. /\ Complete(Clean(s), Reading, disk', names, zmap)
      /\ KeepsFiles(inode_table, Reading, disk, zmap, Clean(s), Reading, disk', zmap, Inode)
      /\ Keeps(p, Clean(s))
  BY <1>2, WrittenBack
<1>4. Stays(p) /\ pc'[p] = "repeat"
  BY <1>1, <1>2, Given DEF Stays
<1>5. Key'[p] = None
  BY <1>4 DEF Key
<1>6. Alone(p)
  <2>1. \A q \in Proc \ {p} : pc[q] = "read" => Mine'[p] # inode[q]
    BY <1>1, <1>2, <1>4, MineStays
  <2> QED
    BY <1>4, <1>5, <2>1 DEF Alone
<1>7. Sound(p)'
  BY <1>2, <1>4, <1>5 DEF Sound, SleepInv
<1>8. SleepInv'
  <2>1. \A q \in Proc \ {p} : nr[q] # None => nr[q] \in zmap'
    BY <1>2 DEF SleepInv, Sound
  <2> QED
    BY <1>1, <1>2, <1>3, <1>4, <1>6, <1>7, <2>1, SleepStep
<1>9. Reading' = Reading
  BY <1>1, <1>2, <1>4, ReadingStep
<1>10. Whole' /\ KeepsSince(inode_table)
  BY <1>2, <1>3, <1>9 DEF Whole, KeepsSince
<1>11. Content' = Content
  BY <1>1, <1>8, <1>10, ContentStep
<1> QED
  BY <1>2, <1>4, <1>8, <1>10, <1>11 DEF Harmless

\* The scan of iget() in a table t that has all the files.
LEMMA LookupHarmless ==
  ASSUME Inv, Inv', SleepInv, NEW p \in Proc, pc[p] \in {"idle", "iget"},
         NEW n \in zmap, n \in Inode, NEW e \in Slot, NEW t,
         TableInv(t, [Mine EXCEPT ![p] = e], [nr EXCEPT ![p] = n], [Waiting EXCEPT ![p] = TRUE]),
         Keeps(p, t), Lookup(p, n, e, t), UNCHANGED <<i, block, zmap, names, disk>>,
         e \notin Reading, Complete(t, Reading, disk, names, zmap),
         KeepsFiles(inode_table, Reading, disk, zmap, t, Reading, disk, zmap, Inode)
  PROVE  Harmless(p)
<1>1. Control /\ LocalTypes /\ Control' /\ LocalTypes' /\ names \subseteq Inode
  BY Given, GivenNext
<1>2. /\ SleepInv' /\ Stays(p) /\ nr'[p] = n
      /\ \/ pc'[p] \in {"iget", "use"} /\ SameView(t, inode_table')
         \/ ReadBegun(p, n, e, t)
  BY <1>1, LookupSleep
<1>3. Whole' /\ KeepsSince(t)
  <2>1. CASE pc'[p] \in {"iget", "use"} /\ SameView(t, inode_table')
    BY <1>1, <1>2, <2>1, ViewStep
  <2>2. CASE ReadBegun(p, n, e, t)
    <3>1. Reading' = Reading \cup {e}
      BY <1>1, <1>2, <2>2, ReadingStep DEF ReadBegun
    <3>2. /\ Complete(inode_table', Reading \cup {e}, disk, names, zmap)
          /\ KeepsFiles(t, Reading, disk, zmap, inode_table', Reading \cup {e}, disk, zmap, Inode)
      <4>1. e \in Slot \ Reading
        OBVIOUS
      <4> QED
        BY <1>1, <2>2, <4>1, ReadBegins DEF ReadBegun
    <3> QED
      BY <3>1, <3>2 DEF Whole, KeepsSince
  <2> QED
    BY <1>2, <2>1, <2>2
<1>4. KeepsSince(inode_table)
  BY <1>3, KeepsBoth DEF KeepsSince
<1>5. Content' = Content
  BY <1>1, <1>2, <1>4, ContentStep
<1> QED
  BY <1>2, <1>3, <1>5 DEF Harmless

\* get_empty_inode() throws away a slot that nobody uses.
LEMMA TakeFiles ==
  ASSUME Inv, SleepInv, Whole, NEW p \in Proc, NEW e \in Slot, inode_table[e].i_count = 0,
         NEW t, t = [inode_table EXCEPT ![e] = [Cleared EXCEPT !.i_count = 1]]
  PROVE  /\ e \notin Reading /\ Keeps(p, t)
         /\ Complete(t, Reading, disk, names, zmap)
         /\ KeepsFiles(inode_table, Reading, disk, zmap, t, Reading, disk, zmap, Inode)
<1>1. /\ Control /\ TableInv(inode_table, Mine, nr, Waiting) /\ IsTable(inode_table)
      /\ OneSlot(inode_table) /\ names \subseteq Inode
  BY Given
<1>2. ~inode_table[e].i_dirt /\ ~inode_table[e].i_lock
  BY <1>1 DEF TableInv, Idle
<1>3. t[e].i_num = 0 /\ SameBut(inode_table, t, e)
  BY <1>1 DEF IsTable, SameBut, Cleared
<1>4. \A q \in Proc : Mine[q] # e
  <2> SUFFICES ASSUME NEW q \in Proc, Mine[q] = e PROVE FALSE
    OBVIOUS
  <2>1. Mine[q] # None
    BY Sizes
  <2>2. inode_table[Mine[q]].i_count \in Nat \ {0}
    BY <1>1, <2>1, HeldCounts
  <2> QED
    BY <2>2
<1>5. \A q \in Proc : Key[q] # e
  BY <1>2, Sizes DEF SleepInv, Sound
<1>6. e \notin Reading
  <2>1. \A q \in Proc : pc[q] = "read" => inode[q] # e
    BY <1>4 DEF Mine
  <2> QED
    BY <2>1 DEF Reading
<1>7. Keeps(p, t)
  <2> SUFFICES ASSUME NEW q \in Proc \ {p}
               PROVE  /\ Key[q] # None =>
                           t[Key[q]].i_lock /\ t[Key[q]].i_num = inode_table[Key[q]].i_num
                      /\ pc[q] = "truncate" => t[inode[q]].d.i_nlinks = 0
    BY DEF Keeps
  <2>1. Key[q] # e /\ Key[q] \in Slot \cup {None}
    BY <1>1, <1>5, KeyIs
  <2>2. pc[q] = "truncate" => inode[q] # e /\ inode[q] \in Slot
    BY <1>1, <1>4, Refers DEF Mine, Fits
  <2>3. Sound(q)
    BY DEF SleepInv
  <2> QED
    BY <1>3, <2>1, <2>2, <2>3 DEF SameBut, Sound
<1>8. /\ Complete(t, Reading, disk, names, zmap)
      /\ KeepsFiles(inode_table, Reading, disk, zmap, t, Reading, disk, zmap, Inode)
  <2>1. e \in Slot \ Reading /\ Complete(inode_table, Reading, disk, names, zmap)
    BY <1>6 DEF Whole
  <2> QED
    BY <1>1, <1>2, <1>3, <2>1, SlotTaken
<1> QED
  BY <1>6, <1>7, <1>8

\* iget(), unless there is no slot.
LEMMA GetHarmless ==
  ASSUME Inv, Inv', SleepInv, Whole, NEW p \in Proc, NEW n \in names, Iget(p, n), Unused # {}
  PROVE  Harmless(p)
<1> USE DEF table, maps, local
<1> DEFINE e == NextUnused
           t == [inode_table EXCEPT ![e] = [Cleared EXCEPT !.i_count = 1]]
<1>1. /\ pc[p] = "idle" /\ Lookup(p, n, e, t)
      /\ UNCHANGED <<i, block, zmap, names, disk>>
  BY DEF Iget
<1>2. e \in Slot /\ inode_table[e].i_count = 0
  BY NextIsUnused DEF Inv, WorldTypes, Unused
<1>3. Control /\ TableInv(inode_table, Mine, nr, Waiting) /\ n \in Inode /\ n \in zmap
  BY Given DEF Whole, Complete
<1> HIDE DEF e
<1>4. Mine[p] = None
  BY <1>1, <1>3, Refers DEF Fits
<1>5. TableInv(t, [Mine EXCEPT ![p] = e], [nr EXCEPT ![p] = n], [Waiting EXCEPT ![p] = TRUE])
  BY <1>2, <1>3, <1>4, TakeEmpty
<1>6. t = [inode_table EXCEPT ![e] = [Cleared EXCEPT !.i_count = 1]]
  OBVIOUS
<1> HIDE DEF t
<1>7. /\ e \notin Reading /\ Keeps(p, t)
      /\ Complete(t, Reading, disk, names, zmap)
      /\ KeepsFiles(inode_table, Reading, disk, zmap, t, Reading, disk, zmap, Inode)
  BY <1>2, <1>6, TakeFiles
<1> QED
  BY <1>1, <1>2, <1>3, <1>5, <1>7, LookupHarmless

\* iget() has waited for a slot.
LEMMA GetWaitedHarmless ==
  ASSUME Inv, Inv', SleepInv, Whole, NEW p \in Proc, IgetWaited(p)
  PROVE  Harmless(p)
<1> USE DEF table, maps, local
<1> DEFINE e == empty[p]
           s == inode[p]
           n == nr[p]
<1>1. /\ Control /\ LocalTypes /\ TableInv(inode_table, Mine, nr, Waiting) /\ IsTable(inode_table)
      /\ Control' /\ LocalTypes' /\ Keeps(p, inode_table)
  BY Given, GivenNext, TableKeeps
<1>2. /\ pc[p] = "iget" /\ ~inode_table[s].i_lock
      /\ UNCHANGED <<i, block, zmap, names, disk>>
  BY DEF IgetWaited
<1>3. e \in Slot /\ e # None /\ s \in Slot /\ Mine[p] = e
  BY <1>1, <1>2, Refers DEF Fits
<1>4. n \in Inode /\ n \in zmap
  <2>1. n \in Inode
    BY <1>1, <1>3 DEF TableInv, Holders
  <2>2. n # None
    BY <2>1, Sizes
  <2> QED
    BY <2>1, <2>2 DEF SleepInv, Sound
<1>5. /\ [Mine EXCEPT ![p] = e] = Mine /\ [nr EXCEPT ![p] = n] = nr
      /\ [Waiting EXCEPT ![p] = TRUE] = Waiting
  BY <1>1, <1>2, <1>3 DEF Mine, Waiting, LocalTypes
<1>6. e \notin Reading
  <2> SUFFICES ASSUME NEW q \in Proc, pc[q] = "read", inode[q] = e PROVE FALSE
    BY DEF Reading
  <2>1. q # p /\ Mine[p] = inode[q]
    BY <1>2, <1>3
  <2> QED
    BY <2>1 DEF SleepInv, Apart
<1> HIDE DEF e, s, n
<1>7. CASE inode_table[s].i_num = n
  <2>1. Found(p, n, s, e, inode_table)
    BY <1>7 DEF IgetWaited, e, s, n
  <2>2. /\ SleepInv' /\ SameView(inode_table, inode_table') /\ Stays(p)
        /\ pc'[p] = "use"
    BY <1>1, <1>2, <1>3, <1>4, <2>1, FoundSleep
  <2>3. Whole' /\ KeepsSince(inode_table)
    BY <1>1, <1>2, <2>2, ViewStep DEF Whole
  <2>4. Content' = Content
    BY <1>1, <2>2, <2>3, ContentStep
  <2> QED
    BY <1>2, <2>2, <2>3, <2>4 DEF Harmless
<1>8. CASE inode_table[s].i_num # n
  <2>1. Lookup(p, n, e, inode_table)
    BY <1>8 DEF IgetWaited, e, s, n
  <2>2. KeepsFiles(inode_table, Reading, disk, zmap, inode_table, Reading, disk, zmap, Inode)
    BY DEF KeepsFiles
  <2>3. TableInv(inode_table, [Mine EXCEPT ![p] = e], [nr EXCEPT ![p] = n],
                 [Waiting EXCEPT ![p] = TRUE])
    BY <1>1, <1>5
  <2>4. Complete(inode_table, Reading, disk, names, zmap)
    BY DEF Whole
  <2> QED
    BY <1>1, <1>2, <1>3, <1>4, <1>6, <2>1, <2>2, <2>3, <2>4, LookupHarmless
<1> QED
  BY <1>7, <1>8

\* read_inode() is done: the inode on the disk is the one in the slot.
LEMMA ReadHarmless ==
  ASSUME Inv, Inv', SleepInv, Whole, NEW p \in Proc, ReadDone(p)
  PROVE  Harmless(p)
<1> USE DEF table, maps, local
<1> DEFINE s == inode[p]
           n == inode_table[s].i_num
           x == [[inode_table[s] EXCEPT !.i_lock = FALSE] EXCEPT !.d = disk[n]]
<1>1. /\ Control /\ LocalTypes /\ IsTable(inode_table) /\ IsDisk(disk) /\ OneSlot(inode_table)
      /\ names \subseteq Inode /\ Control' /\ LocalTypes'
  BY Given, GivenNext
<1>2. pc[p] = "read" /\ UNCHANGED <<empty, i, block, zmap, names, disk>>
  BY DEF ReadDone
<1>3. s \in Slot /\ s # None /\ Mine[p] = s /\ Key[p] = s
  BY <1>1, <1>2, KeyIs, Sizes
<1>4. n \in Inode
  BY <1>1, <1>3 DEF SleepInv, Sound, IsTable, SlotType
<1>5. /\ inode_table' = [inode_table EXCEPT ![s] = x]
      /\ pc' = [pc EXCEPT ![p] = "use"] /\ inode' = [inode EXCEPT ![p] = s]
      /\ nr' = [nr EXCEPT ![p] = nr[p]]
  BY <1>1, <1>3, <1>4, PlaceOfInode DEF ReadDone, Return, Goto, IsTable
<1>6. x.i_num = n /\ x.d = disk[n]
  <2>1. \A y \in SlotType : LET z == [[y EXCEPT !.i_lock = FALSE] EXCEPT !.d = disk[n]]
                            IN  z.i_num = y.i_num /\ z.d = disk[n]
    BY DEF SlotType
  <2> QED
    BY <1>1, <1>3, <2>1 DEF IsTable
<1> HIDE DEF x
<1>7. /\ SameBut(inode_table, inode_table', s)
      /\ inode_table'[s].i_num = n /\ inode_table'[s].d = disk[n]
  BY <1>1, <1>3, <1>5, <1>6 DEF SameBut, IsTable
<1>8. Stays(p) /\ pc'[p] = "use" /\ inode'[p] = inode[p] /\ nr'[p] = nr[p]
  BY <1>1, <1>2, <1>5 DEF Stays, LocalTypes
<1>9. Key'[p] = None
  BY <1>8 DEF Key
<1>10. \A q \in Proc \ {p} : Key[q] # s /\ Mine[q] # s
  BY <1>2, <1>3 DEF SleepInv, Apart
<1>11. Keeps(p, inode_table')
  <2> SUFFICES ASSUME NEW q \in Proc \ {p}
               PROVE  /\ Key[q] # None => inode_table'[Key[q]].i_lock
                                          /\ inode_table'[Key[q]].i_num = inode_table[Key[q]].i_num
                      /\ pc[q] = "truncate" => inode_table'[inode[q]].d.i_nlinks = 0
    BY DEF Keeps
  <2>1. Key[q] # s /\ Key[q] \in Slot \cup {None}
    BY <1>1, <1>10, KeyIs
  <2>2. pc[q] = "truncate" => inode[q] # s /\ inode[q] \in Slot
    BY <1>1, <1>10, Refers DEF Mine, Fits
  <2>3. Sound(q)
    BY DEF SleepInv
  <2> QED
    BY <1>7, <2>1, <2>2, <2>3 DEF SameBut, Sound
<1>12. SleepInv'
  <2>1. Alone(p)
    <3>1. \A q \in Proc \ {p} : pc[q] = "read" => Mine'[p] # inode[q]
      BY <1>1, <1>2, <1>8, MineStays
    <3> QED
      BY <1>8, <1>9, <3>1 DEF Alone
  <2>2. Sound(p)'
    BY <1>2, <1>8, <1>9 DEF Sound, SleepInv
  <2>3. \A q \in Proc \ {p} : nr[q] # None => nr[q] \in zmap'
    BY <1>2 DEF SleepInv, Sound
  <2> QED
    BY <1>1, <1>8, <1>11, <2>1, <2>2, <2>3, SleepStep
<1>13. Reading' = Reading \ {s}
  BY <1>1, <1>2, <1>8, ReadingStep
<1>14. Whole' /\ KeepsSince(inode_table)
  <2>1. s \in Reading
    BY <1>2, <1>3 DEF Reading
  <2>2. Complete(inode_table, Reading, disk, names, zmap)
    BY DEF Whole
  <2>3. /\ Complete(inode_table', Reading \ {s}, disk, names, zmap)
        /\ KeepsFiles(inode_table, Reading, disk, zmap, inode_table', Reading \ {s}, disk, zmap, Inode)
    BY <1>1, <1>3, <1>4, <1>7, <2>1, <2>2, ReadEnds
  <2> QED
    BY <1>2, <1>13, <2>3 DEF Whole, KeepsSince
<1>15. Content' = Content
  BY <1>1, <1>12, <1>14, ContentStep
<1> QED
  BY <1>2, <1>8, <1>12, <1>14, <1>15 DEF Harmless

\* What a file becomes.
LEMMA NewContent ==
  ASSUME Control', SleepInv', NEW n \in Inode, NEW x,
         Has(inode_table', Reading', disk', zmap', n, x)
  PROVE  Current(n)' = x
<1>1. (Control /\ SleepInv => ContentIsRight)'
  BY CurrentIs, PTL
<1>2. Has(inode_table', Reading', disk', zmap', n, Current(n)')
  BY <1>1 DEF ContentIsRight
<1>3. OneSlot(inode_table')
  BY DEF Control, TableInv, OneSlot
<1> QED
  BY <1>2, <1>3, OneContents

\* One file changes.
LEMMA OneChanges ==
  ASSUME Control, SleepInv, Control', SleepInv', NEW n \in Inode, NEW x,
         KeepsFiles(inode_table, Reading, disk, zmap,
                    inode_table', Reading', disk', zmap', Inode \ {n}),
         Has(inode_table', Reading', disk', zmap', n, x)
  PROVE  Content' = [Content EXCEPT ![n] = x]
<1>1. Current(n)' = x
  BY NewContent
<1>2. \A m \in Inode \ {n} : Current(m)' = Current(m)
  <2>1. Inode \ {n} \in SUBSET Inode
    OBVIOUS
  <2> QED
    BY <2>1, SameContent
<1> QED
  BY <1>1, <1>2 DEF Content

\* A holder changes its inode, and may take its name away.
LEMMA ChangeFiles ==
  ASSUME Inv, Inv', SleepInv, Whole, NEW p \in Proc, pc[p] = "use",
         UNCHANGED <<pc, inode, empty, nr, i, block, disk, zmap>>,
         NEW s, s = inode[p], NEW n, n = inode_table[s].i_num,
         SameBut(inode_table, inode_table', s),
         inode_table'[s].i_num = n, inode_table'[s].i_dirt,
         inode_table'[s].i_lock = inode_table[s].i_lock,
         inode_table'[s].d.i_nlinks \in {inode_table[s].d.i_nlinks, 0},
         names' \subseteq names,
         n \in names' => inode_table'[s].d.i_nlinks = inode_table[s].d.i_nlinks
  PROVE  /\ SleepInv' /\ Whole'
         /\ Content' = [Content EXCEPT ![n] = inode_table'[s].d.data]
         /\ Opened' = Opened /\ Opened[p] = n /\ n \in Inode
<1>1. /\ Control /\ IsTable(inode_table) /\ names \subseteq Inode /\ Control'
      /\ TableInv(inode_table, Mine, nr, Waiting)
  BY Given, GivenNext
<1>2. /\ s \in Slot /\ s # None /\ Mine[p] = s /\ ~Waiting[p]
      /\ Mine' = Mine /\ Key' = Key /\ Reading' = Reading
  BY <1>1, Refers DEF Fits, Mine, Key, Reading
<1>3. n = nr[p] /\ n \in Inode /\ n # 0
  BY <1>1, <1>2, Sizes DEF TableInv, Holders
<1>4. s \notin Reading
  <2> SUFFICES ASSUME NEW q \in Proc, pc[q] = "read", inode[q] = s PROVE FALSE
    BY DEF Reading
  <2>1. q # p
    OBVIOUS
  <2> QED
    BY <1>2, <2>1 DEF SleepInv, Apart
<1>5. SleepInv'
  <2>1. ASSUME NEW q \in Proc PROVE Sound(q)'
    <3>1. Sound(q)
      BY DEF SleepInv
    <3>2. /\ Key[q] \in Slot \cup {None}
          /\ pc[q] = "truncate" => inode[q] \in Slot
          /\ pc[q] \in {"write", "sync_write"} => Key[q] # None
      BY <1>1, KeyIs, Refers DEF Fits
    <3>3. \A v \in Slot : /\ inode_table'[v].i_num = inode_table[v].i_num
                          /\ inode_table'[v].i_lock = inode_table[v].i_lock
                          /\ inode_table[v].d.i_nlinks = 0 => inode_table'[v].d.i_nlinks = 0
      BY DEF SameBut
    <3> QED
      BY <1>2, <3>1, <3>2, <3>3 DEF Sound
  <2>2. ASSUME NEW q \in Proc, NEW r \in Proc, q # r PROVE Apart(q, r)'
    BY <1>2, <2>2 DEF SleepInv, Apart
  <2> QED
    BY <2>1, <2>2 DEF SleepInv
<1>6. /\ Complete(inode_table', Reading, disk, names', zmap)
      /\ KeepsFiles(inode_table, Reading, disk, zmap, inode_table', Reading, disk, zmap, Inode \ {n})
      /\ Has(inode_table', Reading, disk, zmap, n, inode_table'[s].d.data)
  <2>1. s \in Slot \ Reading /\ Complete(inode_table, Reading, disk, names, zmap)
    BY <1>2, <1>4 DEF Whole
  <2>2. /\ inode_table[s].i_num # 0 /\ inode_table'[s].i_num = inode_table[s].i_num
        /\ inode_table[s].i_num \in names' =>
             inode_table'[s].d.i_nlinks = inode_table[s].d.i_nlinks
    BY <1>3
  <2>3. /\ Complete(inode_table', Reading, disk, names', zmap)
        /\ KeepsFiles(inode_table, Reading, disk, zmap, inode_table', Reading, disk, zmap,
                      Inode \ {inode_table[s].i_num})
        /\ Has(inode_table', Reading, disk, zmap, inode_table[s].i_num, inode_table'[s].d.data)
    BY <2>1, <2>2, SlotChanged
  <2> QED
    BY <2>3
<1>7. Whole'
  BY <1>2, <1>6 DEF Whole
<1>8. Content' = [Content EXCEPT ![n] = inode_table'[s].d.data]
  BY <1>1, <1>2, <1>3, <1>5, <1>6, OneChanges
<1>9. Opened' = Opened /\ Opened[p] = n
  <2>1. \A v : inode_table[v].i_num = inode_table'[v].i_num \/ v \notin Slot
    BY DEF SameBut
  <2>2. \A q \in Proc : pc[q] = "use" => inode[q] \in Slot
    BY <1>1, Refers DEF Fits
  <2> QED
    BY <2>1, <2>2 DEF Opened
<1> QED
  BY <1>3, <1>5, <1>7, <1>8, <1>9

\* Modify() of a holder.
LEMMA ModifyFiles ==
  ASSUME Inv, Inv', SleepInv, Whole, NEW p \in Proc, NEW d \in Data, Modify(p, d)
  PROVE  /\ SleepInv' /\ Whole'
         /\ Content' = [Content EXCEPT ![Opened[p]] = d] /\ Opened[p] \in Inode
         /\ Opened' = Opened /\ names' = names
<1> USE DEF table, maps, local
<1> DEFINE s == inode[p]
           n == inode_table[s].i_num
           x == [inode_table[s] EXCEPT !.d.data = d, !.i_dirt = TRUE]
<1>1. Control /\ IsTable(inode_table)
  BY Given
<1>2. /\ pc[p] = "use"
      /\ UNCHANGED <<pc, inode, empty, nr, i, block, disk, zmap, names>>
  BY DEF Modify
<1>3. s \in Slot
  BY <1>1, <1>2, Refers DEF Fits
<1>4. inode_table' = [inode_table EXCEPT ![s] = x]
  BY <1>1, <1>3 DEF Modify, IsTable
<1>5. /\ x.i_num = n /\ x.i_dirt /\ x.i_lock = inode_table[s].i_lock
      /\ x.d.i_nlinks = inode_table[s].d.i_nlinks /\ x.d.data = d
  <2>1. \A y \in SlotType : LET z == [y EXCEPT !.d.data = d, !.i_dirt = TRUE]
                            IN  /\ z.i_num = y.i_num /\ z.i_dirt /\ z.i_lock = y.i_lock
                                /\ z.d.i_nlinks = y.d.i_nlinks /\ z.d.data = d
    BY DEF SlotType
  <2> QED
    BY <1>1, <1>3, <2>1 DEF IsTable
<1> HIDE DEF x
<1>6. SameBut(inode_table, inode_table', s) /\ inode_table'[s] = x
  BY <1>1, <1>3, <1>4 DEF SameBut, IsTable
<1> HIDE DEF s, n
<1>7. s = inode[p] /\ n = inode_table[s].i_num
  BY DEF s, n
<1>8. /\ SleepInv' /\ Whole'
      /\ Content' = [Content EXCEPT ![n] = inode_table'[s].d.data]
      /\ Opened' = Opened /\ Opened[p] = n /\ n \in Inode
  BY <1>2, <1>5, <1>6, <1>7, ChangeFiles
<1> QED
  BY <1>2, <1>5, <1>6, <1>8

\* Unlink() of a holder.
LEMMA UnlinkFiles ==
  ASSUME Inv, Inv', SleepInv, Whole, NEW p \in Proc, Unlink(p)
  PROVE  /\ SleepInv' /\ Whole'
         /\ Content' = Content /\ Opened[p] \in names
         /\ Opened' = Opened /\ names' = names \ {Opened[p]}
<1> USE DEF table, maps, local
<1> DEFINE s == inode[p]
           n == inode_table[s].i_num
           x == [inode_table[s] EXCEPT !.d.i_nlinks = 0, !.i_dirt = TRUE]
<1>1. Control /\ IsTable(inode_table) /\ Control'
  BY Given, GivenNext
<1>2. /\ pc[p] = "use" /\ n \in names /\ names' = names \ {n}
      /\ UNCHANGED <<pc, inode, empty, nr, i, block, disk, zmap>>
  BY DEF Unlink
<1>3. s \in Slot /\ s # None
  BY <1>1, <1>2, Refers DEF Fits
<1>4. inode_table' = [inode_table EXCEPT ![s] = x]
  BY <1>1, <1>3 DEF Unlink, IsTable
<1>5. /\ x.i_num = n /\ x.i_dirt /\ x.i_lock = inode_table[s].i_lock
      /\ x.d.i_nlinks = 0 /\ x.d.data = inode_table[s].d.data
  <2>1. \A y \in SlotType : LET z == [y EXCEPT !.d.i_nlinks = 0, !.i_dirt = TRUE]
                            IN  /\ z.i_num = y.i_num /\ z.i_dirt /\ z.i_lock = y.i_lock
                                /\ z.d.i_nlinks = 0 /\ z.d.data = y.d.data
    BY DEF SlotType
  <2> QED
    BY <1>1, <1>3, <2>1 DEF IsTable
<1> HIDE DEF x
<1>6. SameBut(inode_table, inode_table', s) /\ inode_table'[s] = x
  BY <1>1, <1>3, <1>4 DEF SameBut, IsTable
<1> HIDE DEF s, n
<1>7. s = inode[p] /\ n = inode_table[s].i_num
  BY DEF s, n
<1>8. /\ SleepInv' /\ Whole'
      /\ Content' = [Content EXCEPT ![n] = inode_table'[s].d.data]
      /\ Opened' = Opened /\ Opened[p] = n /\ n \in Inode
  BY <1>2, <1>5, <1>6, <1>7, ChangeFiles
<1>9. Content[n] = inode_table[s].d.data
  <2>1. Has(inode_table, Reading, disk, zmap, n, inode_table[s].d.data)
    <3>1. s \notin Reading
      <4> SUFFICES ASSUME NEW q \in Proc, pc[q] = "read", inode[q] = s PROVE FALSE
        BY DEF Reading
      <4>1. q # p /\ Mine[p] = s
        BY <1>2, <1>7 DEF Mine
      <4> QED
        BY <4>1 DEF SleepInv, Apart
    <3> QED
      BY <1>2, <1>3, <1>7, <3>1 DEF Has, Whole, Complete
  <2>2. Has(inode_table, Reading, disk, zmap, n, Current(n))
    BY <1>1, <1>8, CurrentIs DEF ContentIsRight
  <2>3. OneSlot(inode_table)
    BY Given
  <2>4. Current(n) = inode_table[s].d.data
    BY <1>8, <2>1, <2>2, <2>3, OneContents
  <2> QED
    BY <1>8, <2>4 DEF Content
<1>10. Content' = Content
  <2>1. Content = [m \in Inode |-> Content[m]]
    BY DEF Content
  <2> HIDE DEF Content
  <2> QED
    BY <1>5, <1>6, <1>8, <1>9, <2>1
<1> QED
  BY <1>2, <1>8, <1>10

\* free_inode(), when nobody else uses the inode.
LEMMA FreeFiles ==
  ASSUME Inv, Inv', SleepInv, Whole, NEW p \in Proc, Free(p), intact',
         NEW n, n = inode_table[inode[p]].i_num,
         n \in zmap, ~(inode_table[inode[p]].i_count > 1)
  PROVE  /\ SleepInv' /\ Whole'
         /\ n \in Inode \ names /\ \A q \in Proc : Opened[q] # n
         /\ Content' = [Content EXCEPT ![n] = None]
         /\ Opened' = Opened /\ names' = names
<1> USE DEF table, maps, local
<1> DEFINE s == inode[p]
<1>1. /\ Control /\ LocalTypes /\ IsTable(inode_table) /\ names \subseteq Inode
      /\ TableInv(inode_table, Mine, nr, Waiting) /\ OneSlot(inode_table)
      /\ Control' /\ LocalTypes'
  BY Given, GivenNext
<1>2. /\ pc[p] = "truncate" /\ zmap' = zmap \ {n}
      /\ inode_table' = [inode_table EXCEPT ![s] = Cleared]
      /\ pc' = [pc EXCEPT ![p] = "idle"] /\ inode' = [inode EXCEPT ![p] = None]
      /\ nr' = [nr EXCEPT ![p] = None]
      /\ UNCHANGED <<disk, empty, i, block, names>>
      /\ ~\E q \in Proc \ {p} : Uses(q, s)
  BY DEF Free, Return, Goto
<1>3. s \in Slot /\ s # None /\ Mine[p] = s /\ ~Waiting[p]
  BY <1>1, <1>2, Refers DEF Fits
<1>4. n = nr[p] /\ n \in Inode
  BY <1>1, <1>3 DEF TableInv, Holders
<1>5. \A q \in Proc \ {p} : /\ inode[q] # s /\ nr[q] # n
                            /\ ~(i[q] = s /\ pc[q] = "sync_write")
  BY <1>2 DEF Uses
<1>6. \A q \in Proc \ {p} : Key[q] # s
  BY <1>3, <1>5 DEF Key
<1>7. inode_table'[s].i_num = 0 /\ SameBut(inode_table, inode_table', s)
  BY <1>1, <1>2, <1>3 DEF IsTable, SameBut, Cleared
<1>8. Stays(p) /\ pc'[p] = "idle" /\ inode'[p] = None /\ nr'[p] = None
  BY <1>1, <1>2 DEF Stays, LocalTypes
<1>9. Key'[p] = None /\ Mine'[p] = None
  BY <1>8 DEF Key, Mine
<1>10. SleepInv'
  <2>1. Keeps(p, inode_table')
    <3> SUFFICES ASSUME NEW q \in Proc \ {p}
                 PROVE  /\ Key[q] # None => inode_table'[Key[q]].i_lock
                                            /\ inode_table'[Key[q]].i_num = inode_table[Key[q]].i_num
                        /\ pc[q] = "truncate" => inode_table'[inode[q]].d.i_nlinks = 0
      BY DEF Keeps
    <3>1. Key[q] # s /\ Key[q] \in Slot \cup {None}
      BY <1>1, <1>6, KeyIs
    <3>2. pc[q] = "truncate" => inode[q] # s /\ inode[q] \in Slot
      BY <1>1, <1>5, Refers DEF Fits
    <3>3. Sound(q)
      BY DEF SleepInv
    <3> QED
      BY <1>7, <3>1, <3>2, <3>3 DEF SameBut, Sound
  <2>2. Alone(p)
    <3>1. \A q \in Proc \ {p} : pc[q] = "read" => None # inode[q]
      BY <1>1, Refers DEF Fits
    <3> QED
      BY <1>8, <1>9, <3>1 DEF Alone
  <2>3. Sound(p)'
    BY <1>8, <1>9 DEF Sound
  <2>4. \A q \in Proc \ {p} : nr[q] # None => nr[q] \in zmap'
    BY <1>2, <1>5 DEF SleepInv, Sound
  <2> QED
    BY <1>1, <1>8, <2>1, <2>2, <2>3, <2>4, SleepStep
<1>11. Reading' = Reading
  BY <1>1, <1>2, <1>8, ReadingStep
<1>12. s \notin Reading
  <2>1. \A q \in Proc : pc[q] = "read" => inode[q] # s
    BY <1>2, <1>5
  <2> QED
    BY <2>1 DEF Reading
<1>13. /\ n \notin names
       /\ Complete(inode_table', Reading, disk, names, zmap')
       /\ KeepsFiles(inode_table, Reading, disk, zmap, inode_table', Reading, disk, zmap', Inode \ {n})
       /\ Has(inode_table', Reading, disk, zmap', n, None)
  <2>1. s \in Slot \ Reading /\ Complete(inode_table, Reading, disk, names, zmap)
    BY <1>3, <1>12 DEF Whole
  <2>2. /\ inode_table[s].i_num \in Inode /\ inode_table[s].d.i_nlinks = 0
        /\ zmap' = zmap \ {inode_table[s].i_num}
    BY <1>2, <1>4 DEF SleepInv, Sound
  <2>3. IsFreed(inode_table, inode_table', Reading, disk, names, zmap, zmap', inode_table[s].i_num)
    <3>1. OneSlot(inode_table) /\ names \subseteq Inode
      BY <1>1
    <3>2. SameBut(inode_table, inode_table', s) /\ inode_table'[s].i_num = 0
      BY <1>7
    <3> QED
      BY <2>1, <2>2, <3>1, <3>2, SlotFreed
  <2> QED
    BY <2>3 DEF IsFreed
<1>14. Whole'
  BY <1>2, <1>11, <1>13 DEF Whole
<1>15. Content' = [Content EXCEPT ![n] = None]
  BY <1>1, <1>2, <1>4, <1>10, <1>11, <1>13, OneChanges
<1>16. /\ Opened' = [Opened EXCEPT ![p] = None] /\ Opened[p] = None
  BY <1>1, <1>2, <1>8, OpenedStep
<1>17. Opened' = Opened
  <2>1. Opened = [q \in Proc |-> Opened[q]]
    BY DEF Opened
  <2> HIDE DEF Opened
  <2> QED
    BY <1>16, <2>1
<1>18. \A q \in Proc : Opened[q] # n
  <2>1. Opened = [q \in Proc |-> IF pc[q] = "use" THEN nr[q] ELSE None]
    BY <1>1, OpenedIs DEF OpenedIsRight
  <2>2. n # None
    BY <1>4, Sizes
  <2> QED
    BY <1>2, <1>5, <2>1, <2>2
<1> QED
  BY <1>2, <1>4, <1>10, <1>13, <1>14, <1>15, <1>17, <1>18

-----------------------------------------------------------------------------
(* The refinement.                                                         *)

Shown == <<Content, names, Opened>>

\* Who uses an inode asked for it.
UserHasNumber == \A q \in Proc : pc[q] = "use" => nr[q] \in Inode

LEMMA UsersNumber == Control => UserHasNumber
<1> SUFFICES ASSUME Control, NEW q \in Proc, pc[q] = "use" PROVE nr[q] \in Inode
  BY DEF UserHasNumber
<1>1. Mine[q] = inode[q] /\ inode[q] # None
  BY Refers DEF Fits
<1> QED
  BY <1>1 DEF Control, TableInv, Holders

FilesAreSome == \A n \in Inode : n \in zmap => Current(n) # None

\* ContentIsSome, for every file.
LEMMA AllContents == Inv /\ SleepInv => FilesAreSome
BY ContentIsSome DEF FilesAreSome

\* Nothing that the files depend on changes.
LEMMA SameFiles ==
  ASSUME SleepInv, Whole, UNCHANGED <<inode_table, disk, zmap, names>>,
         UNCHANGED <<pc, inode, empty, nr, i, block>>
  PROVE  SleepInv' /\ Whole' /\ UNCHANGED <<Content, names, Opened>>
<1>1. Key' = Key /\ Mine' = Mine /\ Reading' = Reading
  BY DEF Key, Mine, Reading
<1>2. \A q \in Proc : Sound(q)' <=> Sound(q)
  BY <1>1 DEF Sound
<1>3. \A q, r \in Proc : Apart(q, r)' <=> Apart(q, r)
  BY <1>1 DEF Apart
<1>4. SleepInv'
  BY <1>2, <1>3 DEF SleepInv
<1>5. Whole'
  BY <1>1 DEF Whole
<1>6. Content' = Content
  <2>1. \A s : (At(s, {"read"})' = At(s, {"read"})) /\ (At(s, {"use"})' = At(s, {"use"}))
    BY DEF At
  <2> SUFFICES ASSUME NEW n \in Inode PROVE Current(n)' = Current(n)
    BY DEF Content
  <2> DEFINE valid == {s \in Slot : inode_table[s].i_num = n /\ (At(s, {"read"}) = {} \/ At(s, {"use"}) # {})}
  <2>2. valid' = valid
    BY <2>1
  <2>3. Current(n) = IF n \notin zmap THEN None
                     ELSE IF valid = {} THEN disk[n].data
                     ELSE inode_table[CHOOSE s \in valid : TRUE].d.data
    BY DEF Current
  <2>4. Current(n)' = IF n \notin zmap' THEN None
                      ELSE IF valid' = {} THEN disk'[n].data
                      ELSE inode_table'[CHOOSE s \in valid' : TRUE].d.data
    BY DEF Current
  <2> HIDE DEF valid
  <2> QED
    BY <2>2, <2>3, <2>4
<1>7. Opened' = Opened
  BY DEF Opened
<1> QED
  BY <1>4, <1>5, <1>6, <1>7

\* What a file system sees of a step that changes no file: nothing, or that p opens
\* or closes an inode.
LEMMA HarmlessMaps ==
  ASSUME Inv, Inv', SleepInv, NEW p \in Proc, Harmless(p)
  PROVE  F!Next \/ UNCHANGED Shown
<1>1. Control /\ Control' /\ LocalTypes' /\ Stays(p) /\ Content' = Content /\ names' = names
  BY Given, GivenNext DEF Harmless
<1>2. /\ Opened' = [Opened EXCEPT ![p] = IF pc'[p] = "use" THEN nr'[p] ELSE None]
      /\ Opened[p] = IF pc[p] = "use" THEN nr[p] ELSE None
  BY <1>1, OpenedStep
<1>3. CASE pc[p] # "use" /\ pc'[p] # "use"
  <2>1. Opened = [Opened EXCEPT ![p] = None]
    BY <1>2, <1>3 DEF Opened
  <2> QED
    BY <1>1, <1>2, <1>3, <2>1 DEF Shown
<1>4. CASE pc[p] # "use" /\ pc'[p] = "use"
  <2>1. PICK n \in Inode : n = nr'[p] /\ n # None
    <3>1. (Control => UserHasNumber)'
      BY UsersNumber, PTL
    <3> QED
      BY <1>1, <1>4, <3>1, Sizes DEF UserHasNumber
  <2>2. n \in zmap'
    BY <2>1 DEF Harmless, SleepInv, Sound
  <2>3. Current(n)' # None
    <3>1. (Inv /\ SleepInv => FilesAreSome)'
      BY AllContents, PTL
    <3> QED
      BY <2>1, <2>2, <3>1 DEF FilesAreSome, Harmless
  <2>4. Content[n] # None
    <3>1. Content'[n] = Current(n)'
      BY <2>1 DEF Content
    <3> QED
      BY <1>1, <2>3, <3>1
  <2>5. F!Open(p, n)
    BY <1>1, <1>2, <1>4, <2>1, <2>4 DEF F!Open, Content, Opened
  <2> QED
    BY <2>1, <2>5 DEF F!Next
<1>5. CASE pc[p] = "use" /\ pc'[p] # "use"
  <2>1. nr[p] # None
    BY <1>1, <1>5, UsersNumber, Sizes DEF UserHasNumber
  <2>2. F!Close(p)
    BY <1>1, <1>2, <1>5, <2>1 DEF F!Close, Content, Opened
  <2> QED
    BY <2>2 DEF F!Next
<1> QED
  BY <1>3, <1>4, <1>5 DEF Harmless

\* A step, until an inode is freed that somebody uses.
LEMMA StepFiles ==
  ASSUME Inv, Inv', FilesInv, NEW p \in Proc, Step(p), intact'
  PROVE  SleepInv' /\ Whole' /\ (F!Next \/ UNCHANGED <<Content, names, Opened, intact>>)
<1>1. intact \/ Free(p)
  BY DEF Step, SyncInodes, SyncWaited, SyncWritten, Iget, Panic, IgetWaited, ReadDone,
         Iput, IputWritten, IputRepeat, Modify, Unlink
<1>2. intact
  BY <1>1 DEF Free
<1>3. SleepInv /\ Whole
  BY <1>2 DEF FilesInv
<1>4. ASSUME Harmless(p)
      PROVE  SleepInv' /\ Whole' /\ (F!Next \/ UNCHANGED <<Content, names, Opened, intact>>)
  BY <1>2, <1>3, <1>4, HarmlessMaps DEF Harmless, Shown
<1>5. ASSUME UNCHANGED <<inode_table, disk, zmap, names, pc, inode, empty, nr, i, block>>
      PROVE  SleepInv' /\ Whole' /\ UNCHANGED <<Content, names, Opened, intact>>
  BY <1>2, <1>3, <1>5, SameFiles
<1>6. CASE SyncInodes(p) \/ SyncWaited(p) \/ SyncWritten(p)
  BY <1>3, <1>4, <1>6, SyncHarmless
<1>7. ASSUME NEW n \in names, Iget(p, n)
      PROVE  SleepInv' /\ Whole' /\ (F!Next \/ UNCHANGED <<Content, names, Opened, intact>>)
  <2>1. CASE Unused # {}
    BY <1>3, <1>4, <1>7, <2>1, GetHarmless
  <2>2. CASE Unused = {}
    BY <1>5, <1>7, <2>2 DEF Iget, Panic, table, maps, local
  <2> QED
    BY <2>1, <2>2
<1>8. CASE IgetWaited(p)
  BY <1>3, <1>4, <1>8, GetWaitedHarmless
<1>9. CASE ReadDone(p)
  BY <1>3, <1>4, <1>9, ReadHarmless
<1>10. CASE Iput(p) \/ IputRepeat(p)
  BY <1>3, <1>4, <1>10, PutHarmless
<1>11. CASE IputWritten(p)
  BY <1>3, <1>4, <1>11, PutWrittenHarmless
<1>12. CASE Free(p)
  <2> DEFINE n == inode_table[inode[p]].i_num
  <2>1. CASE n \notin zmap \/ inode_table[inode[p]].i_count > 1
    BY <1>5, <1>12, <2>1 DEF Free, table, maps, local
  <2>2. CASE n \in zmap /\ ~(inode_table[inode[p]].i_count > 1)
    <3>1. /\ SleepInv' /\ Whole'
          /\ n \in Inode \ names /\ \A q \in Proc : Opened[q] # n
          /\ Content' = [Content EXCEPT ![n] = None]
          /\ Opened' = Opened /\ names' = names
      BY <1>3, <1>12, <2>2, FreeFiles
    <3>2. F!Vanish(n)
      BY <3>1 DEF F!Vanish, Content, Opened
    <3> QED
      BY <3>1, <3>2 DEF F!Next
  <2> QED
    BY <2>1, <2>2
<1>13. ASSUME NEW d \in Data, Modify(p, d)
       PROVE  SleepInv' /\ Whole' /\ F!Next
  <2>1. /\ SleepInv' /\ Whole'
        /\ Content' = [Content EXCEPT ![Opened[p]] = d] /\ Opened[p] \in Inode
        /\ Opened' = Opened /\ names' = names
    BY <1>3, <1>13, ModifyFiles
  <2>2. Opened[p] # None
    BY <2>1, Sizes DEF None, Inode
  <2>3. F!Change(p, d)
    BY <2>1, <2>2 DEF F!Change, Content, Opened
  <2> QED
    BY <2>1, <2>3 DEF F!Next
<1>14. CASE Unlink(p)
  <2>1. /\ SleepInv' /\ Whole'
        /\ Content' = Content /\ Opened[p] \in names
        /\ Opened' = Opened /\ names' = names \ {Opened[p]}
    BY <1>3, <1>14, UnlinkFiles
  <2>2. F!Unlink(p)
    BY <2>1 DEF F!Unlink, Content, Opened
  <2> QED
    BY <2>1, <2>2 DEF F!Next
<1> QED
  BY <1>6, <1>7, <1>8, <1>9, <1>10, <1>11, <1>12, <1>13, <1>14 DEF Step

\* Every step keeps the invariant, and is a step of Files or invisible in it.
LEMMA NextFiles ==
  Inv /\ Inv' /\ FilesInv /\ [Next]_vars => FilesInv' /\ [intact' => F!Next]_(F!vars)
<1> SUFFICES ASSUME Inv, Inv', FilesInv, [Next]_vars
             PROVE  /\ FilesInv'
                    /\ (intact' => F!Next) \/ UNCHANGED <<Content, names, Opened, intact>>
  BY DEF F!vars, Content, Opened
<1>1. CASE UNCHANGED vars
  <2>1. /\ UNCHANGED <<inode_table, disk, zmap, names>> /\ intact' = intact
        /\ UNCHANGED <<pc, inode, empty, nr, i, block>>
    BY <1>1 DEF vars, table, maps, local
  <2>2. intact' => SleepInv' /\ Whole' /\ UNCHANGED <<Content, names, Opened, intact>>
    BY <2>1, SameFiles DEF FilesInv
  <2> QED
    BY <2>2 DEF FilesInv
<1>2. ASSUME NEW p \in Proc, Step(p)
      PROVE  /\ FilesInv'
             /\ (intact' => F!Next) \/ UNCHANGED <<Content, names, Opened, intact>>
  <2>1. intact' => SleepInv' /\ Whole' /\ (F!Next \/ UNCHANGED <<Content, names, Opened, intact>>)
    BY <1>2, StepFiles
  <2> QED
    BY <2>1 DEF FilesInv
<1> QED
  BY <1>1, <1>2 DEF Next, Halted

\* At first nobody sleeps, and the only inode in the table is the root.
LEMMA InitFiles == Init => FilesInv /\ F!Init
<1> SUFFICES ASSUME Init PROVE FilesInv /\ F!Init
  OBVIOUS
<1>1. Inv /\ names = Inode /\ zmap = Inode /\ Zero \in Data /\ 1 \in Slot
  BY InitInv, Sizes DEF Init, Slot
<1>2. \A p \in Proc : pc[p] = "idle" /\ nr[p] = None /\ Key[p] = None
  BY DEF Init, Key
<1>3. SleepInv
  BY <1>2 DEF SleepInv, Sound, Apart
<1>4. Whole
  <2>1. Reading = {}
    BY <1>2 DEF Reading
  <2>2. DInode(1, Zero).i_nlinks = 1
    BY DEF DInode
  <2>3. \A n \in Inode : disk[n] = DInode(1, Zero)
    BY DEF Init
  <2>4. \A s \in Slot : inode_table[s].i_num # 0 =>
          inode_table[s].i_num = ROOT_INO /\ inode_table[s].d = DInode(1, Zero)
    <3>1. \A s \in Slot : inode_table[s] = Root \/ inode_table[s] = Cleared
      BY DEF Init
    <3>2. Root.i_num = ROOT_INO /\ Root.d = DInode(1, Zero) /\ Cleared.i_num = 0
      BY DEF Root, Cleared
    <3> QED
      BY <3>1, <3>2
  <2>5. ROOT_INO \in Inode
    BY Sizes
  <2> QED
    BY <1>1, <2>1, <2>2, <2>3, <2>4, <2>5 DEF Whole, Complete, InTable
<1>5. F!Init
  <2>1. Content \in [Inode -> Data]
    <3> SUFFICES ASSUME NEW n \in Inode PROVE Current(n) \in Data
      BY DEF Content
    <3>1. /\ Control /\ disk \in [Inode -> DInodeType]
          /\ inode_table \in [Slot -> SlotType]
      BY <1>1 DEF Inv, WorldTypes, Control, TableInv, TableTypes, DInodeType
    <3>2. Has(inode_table, Reading, disk, zmap, n, Current(n))
      BY <1>3, <3>1, CurrentIs DEF ContentIsRight
    <3> QED
      BY <1>1, <3>1, <3>2 DEF Has, SlotType, DInodeType
  <2>2. Opened = [p \in Proc |-> None]
    BY <1>2 DEF Opened
  <2> QED
    BY <1>1, <2>1, <2>2 DEF F!Init, Content, Opened, Init
<1> QED
  BY <1>3, <1>4, <1>5 DEF FilesInv

\* As long as no inode is freed while it is used: a lock has one owner, who finds
\* its slot as it left it; and every file is in a clean or a dirty slot, or on the
\* disk.
THEOREM FilesHolds == Spec => []FilesInv
<1> QED
  BY InitFiles, NextFiles, InvHolds, PTL DEF Spec

\* As long as no inode is freed while it is used, the inode table implements the
\* files: what iget(), iput(), read_inode() and write_inode() do to the slots, in
\* whatever order the processes sleep and go on, neither loses a change nor brings
\* an old content back, and a file is freed only when it has no name and no user.
THEOREM Refinement == Spec => ImplementsFiles
<1> QED
  BY InitFiles, NextFiles, InvHolds, FilesHolds, PTL DEF Spec, ImplementsFiles, F!Spec
=============================================================================
