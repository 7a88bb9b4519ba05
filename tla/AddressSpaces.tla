--------------------------- MODULE AddressSpaces ---------------------------
(***************************************************************************)
(* What fork() and the page fault handler promise to user programs: every  *)
(* task has a memory of its own, which begins as a copy of its parent's.   *)
(* That pages are shared until they are written is invisible.  Nothing is  *)
(* promised once the kernel has run out of memory on a page fault.         *)
(***************************************************************************)
EXTENDS Integers

CONSTANTS NR_TASKS, Page, Data, Zero

Task == 0 .. NR_TASKS - 1

VARIABLES
  live,  \* the tasks that exist
  mem,   \* the memory of each task, Zero if it does not exist
  ok     \* there was memory for every page fault so far

vars == <<live, mem, ok>>

NoMemory == [v \in Page |-> Zero]

Init ==
  /\ live = {0}
  /\ mem \in [Task -> [Page -> Data]]
  /\ \A t \in Task \ live : mem[t] = NoMemory
  /\ ok = TRUE

Fork(p, c) ==
  /\ p \in live /\ c \notin live
  /\ live' = live \cup {c}
  /\ mem' = [mem EXCEPT ![c] = mem[p]]

Write(t, v, d) ==
  /\ t \in live
  /\ mem' = [mem EXCEPT ![t][v] = d]
  /\ live' = live

Next ==
  \/ /\ ok /\ ok' = ok
     /\ \/ \E p, c \in Task : Fork(p, c)
        \/ \E t \in Task, v \in Page, d \in Data : Write(t, v, d)
  \/ ok' = FALSE

Spec == Init /\ [][Next]_vars
=============================================================================
