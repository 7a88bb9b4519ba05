----------------------------- MODULE BlockStore -----------------------------
(***************************************************************************)
(* What the buffer cache promises to the file system: an array of blocks,  *)
(* of which a process may hold one between bread() and brelse() and change *)
(* it while it holds it.  Caching, eviction, write-back and read-in are    *)
(* invisible.  After an I/O error on a block its contents are undefined.   *)
(***************************************************************************)
CONSTANTS Proc, Block, Data, NoBlock

VARIABLES
  store,    \* the contents of every block
  holding,  \* the block each process holds, or NoBlock
  broken    \* the blocks on which an I/O failed

vars == <<store, holding, broken>>

Init ==
  /\ store \in [Block -> Data]
  /\ holding = [p \in Proc |-> NoBlock]
  /\ broken = {}

\* Only blocks that are broken may change without being written.
Undisturbed == \A k \in Block \ broken' : store'[k] = store[k]

Acquire(p, k) ==
  /\ holding[p] = NoBlock
  /\ holding' = [holding EXCEPT ![p] = k]
  /\ Undisturbed /\ broken' = broken

Release(p) ==
  /\ holding[p] # NoBlock
  /\ holding' = [holding EXCEPT ![p] = NoBlock]
  /\ Undisturbed /\ broken' = broken

Write(p, d) ==
  /\ holding[p] # NoBlock
  /\ store' = [store EXCEPT ![holding[p]] = d]
  /\ UNCHANGED <<holding, broken>>

Break(k) ==
  /\ broken' = broken \cup {k}
  /\ Undisturbed
  /\ UNCHANGED holding

\* The contents of broken blocks are not defined.
Decay ==
  /\ store' \in [Block -> Data]
  /\ Undisturbed
  /\ UNCHANGED <<holding, broken>>

Next ==
  \/ \E p \in Proc, k \in Block : Acquire(p, k)
  \/ \E p \in Proc : Release(p) \/ \E d \in Data : Write(p, d)
  \/ \E k \in Block : Break(k)
  \/ Decay

Spec == Init /\ [][Next]_vars
=============================================================================
