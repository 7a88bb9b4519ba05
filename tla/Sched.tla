------------------------------- MODULE Sched -------------------------------
(***************************************************************************)
(* The scheduler, the sleep / wake-up primitives and the flag locks that   *)
(* the whole kernel builds on: schedule(), sleep_on(), wake_up() and       *)
(* do_timer() of kernel/sched.c, the system call exit of system_call.s,    *)
(* fork()'s task slot, and the lock / wait / unlock triples that           *)
(* buffer.c, inode.c, super.c and ll_rw_blk.c write around a one-bit lock  *)
(* and its wait queue.                                                     *)
(*                                                                         *)
(* There is one processor and the kernel is not preemptive: the only task  *)
(* that takes steps is `current'; interrupt handlers (the timer and the    *)
(* block device) run between its steps while interrupts are enabled.  A    *)
(* cli .. sti section is one atomic step, and so is schedule().            *)
(***************************************************************************)
EXTENDS Integers, FiniteSets

CONSTANTS
  NR_TASKS,   \* size of the task table; task 0 is the idle task
  PRIORITY,   \* every task inherits the priority of INIT_TASK
  Lock,       \* b_lock of buffers, i_lock of inodes, s_lock of superblocks
  MaxOps      \* bound: lock, wait and yield calls in one system call

ASSUME TasksAssumption    == NR_TASKS \in Nat /\ NR_TASKS >= 2
ASSUME PriorityAssumption == PRIORITY \in Nat /\ PRIORITY >= 1
ASSUME LocksAssumption    == Lock # {}
ASSUME OpsAssumption      == MaxOps \in Nat

Task == 0 .. NR_TASKS - 1
Idle == 0
NIL  == -1                      \* the null struct task_struct pointer

VARIABLES
  task,     \* the occupied slots of task[]
  state,    \* task_struct.state
  counter,  \* task_struct.counter, the rest of the time slice in ticks
  current,  \* the task the processor runs
  pc,       \* where each task is (the saved eip of its TSS)
  obj,      \* the lock a sleeping task is queued on
  tmp,      \* the local variable tmp of the task's sleep_on() frame
  wq,       \* head of the wait queue of each lock
  locked,   \* the lock bit itself
  held,     \* the locks the task's system call owns
  dev,      \* the locks owned by the block device until its interrupt
  budget    \* lock, wait and yield calls left in the system call

sched == <<task, state, counter, current>>
queue == <<obj, tmp, wq>>
locks == <<locked, held, dev>>
vars  == <<sched, pc, queue, locks, budget>>

States == {"RUNNING", "INTERRUPTIBLE", "UNINTERRUPTIBLE"}

Init ==
  /\ task    = {Idle}
  /\ state   = [t \in Task |-> "RUNNING"]
  /\ counter = [t \in Task |-> PRIORITY]
  /\ current = Idle
  /\ pc      = [t \in Task |-> "user"]
  /\ obj     = [t \in Task |-> CHOOSE l \in Lock : TRUE]
  /\ tmp     = [t \in Task |-> NIL]
  /\ wq      = [l \in Lock |-> NIL]
  /\ locked  = [l \in Lock |-> FALSE]
  /\ held    = [t \in Task |-> {}]
  /\ dev     = {}
  /\ budget  = [t \in Task |-> 0]

-----------------------------------------------------------------------------
(* schedule(), called with the states s and counters c of its caller.      *)

Runnable(s) == {t \in task \ {Idle} : s[t] = "RUNNING"}

\* The scan keeps a task only if its counter is strictly larger, from the
\* highest slot down: of equal counters the highest slot wins.
Best(s, c, n) ==
  /\ n \in Runnable(s)
  /\ \A t \in Runnable(s) : c[t] < c[n] \/ (c[t] = c[n] /\ t <= n)

\* Mutant: counter = counter + priority.
RechargedInFull(c) ==
  [t \in Task |-> IF t \in task \ {Idle} THEN c[t] + PRIORITY ELSE c[t]]

\* Every task but the idle one is recharged, sleeping tasks too.
Recharged(c) ==
  [t \in Task |-> IF t \in task \ {Idle} THEN (c[t] \div 2) + PRIORITY ELSE c[t]]

SlicesUsedUp(s, c) == Runnable(s) # {} /\ \A t \in Runnable(s) : c[t] = 0

Schedule(s, c) ==
  /\ state' = s
  /\ counter' = IF SlicesUsedUp(s, c) THEN Recharged(c) ELSE c
  /\ \E n \in Task :
       /\ IF Runnable(s) = {} THEN n = Idle ELSE Best(s, counter', n)
       /\ current' = n
  /\ UNCHANGED task

-----------------------------------------------------------------------------
(* Sleeping and waking.                                                    *)

\* t is inside sleep_on(), called by a lock_ or by a wait_on_ operation.
InSleepOn(t) == pc[t] \in {"locking", "waiting"}

\* Mutant: the previous head of the queue is not remembered.
SleepOnForgets(t, l, s) ==
  /\ wq'  = [wq EXCEPT ![l] = t]
  /\ Schedule([s EXCEPT ![t] = "UNINTERRUPTIBLE"], counter)
  /\ UNCHANGED tmp

\* sleep_on(&wq[l]) called by t up to the task switch inside schedule().
\* s holds the states at the call.
SleepOn(t, l, s) ==
  /\ tmp' = [tmp EXCEPT ![t] = wq[l]]
  /\ wq'  = [wq EXCEPT ![l] = t]
  /\ Schedule([s EXCEPT ![t] = "UNINTERRUPTIBLE"], counter)

\* Mutant: the predecessor is not woken.
AfterSleepAlone(t) == state

\* The states after the sleep_on() of t returned: it wakes the task that was
\* at the head of the queue when t joined.
AfterSleep(t) ==
  IF tmp[t] = NIL THEN state ELSE [state EXCEPT ![tmp[t]] = "RUNNING"]

\* Mutant: `*p = NULL' is forgotten.
WakeUpKeepsHead(l) ==
  /\ state' = IF wq[l] = NIL THEN state ELSE [state EXCEPT ![wq[l]] = "RUNNING"]
  /\ UNCHANGED wq

\* wake_up(&wq[l])
WakeUp(l) ==
  /\ state' = IF wq[l] = NIL THEN state ELSE [state EXCEPT ![wq[l]] = "RUNNING"]
  /\ wq' = [wq EXCEPT ![l] = NIL]

-----------------------------------------------------------------------------
(* Steps of the running task.                                              *)

At(t, place) == current = t /\ pc[t] = place

Goto(t, place) == pc' = [pc EXCEPT ![t] = place]

\* int 0x80 with a system call that may lock objects.  The idle task only
\* ever calls fork() and pause().
Syscall(t) ==
  /\ At(t, "user") /\ t # Idle
  /\ Goto(t, "kernel")
  /\ budget' = [budget EXCEPT ![t] = MaxOps]
  /\ UNCHANGED <<sched, queue, locks>>

\* sys_fork: the child takes the first free slot and is made runnable last.
\* It fails for want of a slot or of memory.
Fork(t) ==
  /\ At(t, "user")
  /\ t = Idle => task = {Idle}          \* main() forks once, then only pauses
  /\ Goto(t, "ret")
  /\ \/ UNCHANGED <<task, state, counter>> /\ t # Idle
     \/ \E nr \in Task \ task :
          /\ \A n \in Task \ task : nr <= n
          /\ task'    = task \cup {nr}
          /\ state'   = [state EXCEPT ![nr] = "RUNNING"]
          /\ counter' = [counter EXCEPT ![nr] = PRIORITY]
  /\ UNCHANGED <<current, queue, locks, budget>>

\* sys_pause, up to the switch.  No signal is delivered in this kernel, so
\* only the idle task is ever chosen again.
Pause(t) ==
  /\ At(t, "user")
  /\ t = Idle => task # {Idle}
  /\ Goto(t, "paused")
  /\ Schedule([state EXCEPT ![t] = "INTERRUPTIBLE"], counter)
  /\ UNCHANGED <<queue, locks, budget>>

PauseReturn(t) ==
  /\ At(t, "paused")
  /\ Goto(t, "ret")
  /\ UNCHANGED <<sched, queue, locks, budget>>

CallsLeft(t) == budget[t] > 0 /\ budget' = [budget EXCEPT ![t] = @ - 1]

\* lock_buffer, lock_inode, lock_super when the lock is free.  (The wait_on_
\* calls do nothing then.)
Take(t, l) ==
  /\ At(t, "kernel") /\ CallsLeft(t) /\ ~locked[l]
  /\ locked' = [locked EXCEPT ![l] = TRUE]
  /\ held'   = [held EXCEPT ![t] = @ \cup {l}]
  /\ UNCHANGED <<sched, pc, queue, dev>>

\* lock_ and wait_on_ calls when the lock is taken.  A task that already owns the lock
\* does not ask for it again here.
Block(t, l) ==
  /\ At(t, "kernel") /\ CallsLeft(t) /\ locked[l] /\ l \notin held[t]
  /\ obj' = [obj EXCEPT ![t] = l]
  /\ SleepOn(t, l, state)
  /\ Goto(t, "locking") \/ Goto(t, "waiting")
  /\ UNCHANGED locks

\* Back from the switch inside sleep_on(), interrupts still disabled: wake
\* the predecessor, then test the lock bit again (while, not if).
SleepAgain(t) ==
  /\ current = t /\ InSleepOn(t) /\ locked[obj[t]]
  /\ SleepOn(t, obj[t], AfterSleep(t))
  /\ UNCHANGED <<pc, obj, locks, budget>>

\* Mutant: lock_buffer() says `if' instead of `while'.
ProceedUntested(t) ==
  /\ current = t /\ InSleepOn(t)
  /\ state' = AfterSleep(t)
  /\ tmp'   = [tmp EXCEPT ![t] = NIL]
  /\ IF pc[t] = "locking"
       THEN /\ locked' = [locked EXCEPT ![obj[t]] = TRUE]
            /\ held'   = [held EXCEPT ![t] = @ \cup {obj[t]}]
       ELSE UNCHANGED <<locked, held>>
  /\ Goto(t, "kernel")
  /\ UNCHANGED <<task, counter, current, obj, wq, dev, budget>>

Proceed(t) ==
  /\ current = t /\ InSleepOn(t) /\ ~locked[obj[t]]
  /\ state' = AfterSleep(t)
  /\ tmp'   = [tmp EXCEPT ![t] = NIL]
  /\ IF pc[t] = "locking"
       THEN /\ locked' = [locked EXCEPT ![obj[t]] = TRUE]
            /\ held'   = [held EXCEPT ![t] = @ \cup {obj[t]}]
       ELSE UNCHANGED <<locked, held>>
  /\ Goto(t, "kernel")
  /\ UNCHANGED <<task, counter, current, obj, wq, dev, budget>>

\* Mutant: the wake-up is forgotten.
UnlockSilently(t, l) ==
  /\ At(t, "kernel") /\ l \in held[t]
  /\ locked' = [locked EXCEPT ![l] = FALSE]
  /\ held'   = [held EXCEPT ![t] = @ \ {l}]
  /\ UNCHANGED <<sched, pc, queue, dev, budget>>

\* unlock_buffer, unlock_inode, free_super
Unlock(t, l) ==
  /\ At(t, "kernel") /\ l \in held[t]
  /\ locked' = [locked EXCEPT ![l] = FALSE]
  /\ held'   = [held EXCEPT ![t] = @ \ {l}]
  /\ WakeUp(l)
  /\ UNCHANGED <<task, counter, current, pc, obj, tmp, dev, budget>>

\* make_request queues the locked buffer: it stays locked when the system
\* call goes on, until the device's interrupt releases it.
Submit(t, l) ==
  /\ At(t, "kernel") /\ l \in held[t]
  /\ held' = [held EXCEPT ![t] = @ \ {l}]
  /\ dev'  = dev \cup {l}
  /\ UNCHANGED <<sched, pc, queue, locked, budget>>

\* tty_write gives the processor away between two parts of a long write.
Yield(t) ==
  /\ At(t, "kernel") /\ CallsLeft(t)
  /\ Schedule(state, counter)
  /\ UNCHANGED <<pc, queue, locks>>

Return(t) ==
  /\ At(t, "kernel") /\ held[t] = {}
  /\ Goto(t, "ret")
  /\ budget' = [budget EXCEPT ![t] = 0]
  /\ UNCHANGED <<sched, queue, locks>>

\* The end of system_call: schedule() if the caller no longer may run.
SyscallExit(t) ==
  /\ At(t, "ret")
  /\ Goto(t, "user")
  /\ IF state[t] # "RUNNING" \/ counter[t] = 0
       THEN Schedule(state, counter)
       ELSE UNCHANGED sched
  /\ UNCHANGED <<queue, locks, budget>>

-----------------------------------------------------------------------------
(* Interrupts.  A task that has just come back from the switch inside      *)
(* sleep_on() still runs with interrupts disabled.                         *)

InterruptsEnabled == ~InSleepOn(current)

\* Mutant: the slice runs out and the task in user mode goes on.
TickKeepsRunning ==
  /\ InterruptsEnabled
  /\ counter' = [counter EXCEPT ![current] = IF @ > 1 THEN @ - 1 ELSE 0]
  /\ UNCHANGED <<task, state, current, pc, queue, locks, budget>>

\* timer_interrupt and do_timer: the slice of the interrupted task shrinks;
\* a used-up slice leads to schedule() only if the tick hit user mode.
Tick ==
  /\ InterruptsEnabled
  /\ LET left  == IF counter[current] > 1 THEN counter[current] - 1 ELSE 0
         after == [counter EXCEPT ![current] = left]
     IN  IF left = 0 /\ pc[current] = "user"
           THEN Schedule(state, after)
           ELSE counter' = after /\ UNCHANGED <<task, state, current>>
  /\ UNCHANGED <<pc, queue, locks, budget>>

\* The disk interrupt that ends a request: unlock_buffer of blk.h.
DeviceDone(l) ==
  /\ InterruptsEnabled /\ l \in dev
  /\ dev'    = dev \ {l}
  /\ locked' = [locked EXCEPT ![l] = FALSE]
  /\ WakeUp(l)
  /\ UNCHANGED <<task, counter, current, pc, obj, tmp, held, budget>>

-----------------------------------------------------------------------------
Calls(t) ==
  \/ Syscall(t) \/ Fork(t) \/ Pause(t)

Runs(t) ==
  \/ PauseReturn(t) \/ SleepAgain(t) \/ Proceed(t)
  \/ Yield(t) \/ Return(t) \/ SyscallExit(t)
  \/ \E l \in Lock : Take(t, l) \/ Block(t, l) \/ Unlock(t, l) \/ Submit(t, l)

Next ==
  \/ \E t \in task : Calls(t) \/ Runs(t)
  \/ Tick
  \/ \E l \in Lock : DeviceDone(l)

Spec == Init /\ [][Next]_vars

\* A task inside the kernel keeps executing; a task in user mode may compute
\* for ever, except that the idle task only pauses.  The 8259A latches an
\* interrupt that arrives while interrupts are disabled, so one that is
\* enabled again and again is delivered: strong fairness.
Fairness ==
  /\ \A t \in Task : WF_vars(t \in task /\ Runs(t))
  /\ WF_vars(Fork(Idle) \/ Pause(Idle))
  /\ SF_vars(Tick)
  /\ \A l \in Lock : SF_vars(DeviceDone(l))

FairSpec == Spec /\ Fairness

-----------------------------------------------------------------------------
(* Properties.                                                             *)

\* Every variable has its type; a recharged slice stays below twice the
\* priority, so the recharge of sleeping tasks never accumulates.
TypeOK ==
  /\ task \subseteq Task /\ Idle \in task
  /\ state   \in [Task -> States]
  /\ counter \in [Task -> 0 .. 2 * PRIORITY - 1]
  /\ current \in task
  /\ pc      \in [Task -> {"user", "kernel", "paused", "locking", "waiting", "ret"}]
  /\ obj     \in [Task -> Lock]
  /\ tmp     \in [Task -> Task \cup {NIL}]
  /\ wq      \in [Lock -> Task \cup {NIL}]
  /\ locked  \in [Lock -> BOOLEAN]
  /\ held    \in [Task -> SUBSET Lock]
  /\ dev     \in SUBSET Lock
  /\ budget  \in [Task -> Nat]

\* The lock bit is set exactly while somebody owns the object, and the owner
\* is unique: two system calls, or a system call and the device, never both
\* believe they hold the same buffer, inode or superblock.
MutualExclusion ==
  /\ \A l \in Lock : locked[l] <=> (l \in dev \/ \E t \in Task : l \in held[t])
  /\ \A t \in Task : held[t] \cap dev = {}
  /\ \A t, u \in Task : t # u => held[t] \cap held[u] = {}

Sleeping(t) == InSleepOn(t) /\ state[t] = "UNINTERRUPTIBLE"

\* The pointers of the implicit stack that sleep_on() builds out of local
\* variables are never stale: the head of a queue, and the tmp of a sleep_on()
\* frame, point to a task that still sleeps on the very same lock.  Otherwise
\* `tmp->state = 0' would wake a task out of an unrelated sleep.
NoStaleWaiter ==
  /\ \A l \in Lock : wq[l] # NIL => Sleeping(wq[l]) /\ obj[wq[l]] = l
  /\ \A t \in Task : tmp[t] # NIL =>
       InSleepOn(t) /\ Sleeping(tmp[t]) /\ obj[tmp[t]] = obj[t] /\ tmp[t] # t

\* Nobody sleeps forgotten: each sleeper is the head of the queue of its lock
\* or the tmp of exactly one other frame that is still to run.
EverySleeperHasOneWaker ==
  /\ \A t \in Task : Sleeping(t) =>
       wq[obj[t]] = t \/ \E u \in Task : tmp[u] = t
  /\ \A t, u \in Task : tmp[t] # NIL /\ tmp[t] = tmp[u] => t = u
  /\ \A t \in Task, l \in Lock : tmp[t] # NIL => tmp[t] # wq[l]

\* No lost wake-up: when a lock is free its queue is empty, so whoever still
\* waits for it is reached from a task that has been woken already.
FreeLockHasNoQueue == \A l \in Lock : ~locked[l] => wq[l] = NIL

\* The processor is given only to a task that may run; the idle task's state
\* is never looked at.
CurrentMayRun == current # Idle => state[current] = "RUNNING"

\* A task that may run is given the processor in the end, whatever the others
\* do: slices are recharged only when all runnable tasks used theirs up.
RunnableTaskRuns ==
  \A t \in Task \ {Idle} :
    (t \in task /\ state[t] = "RUNNING") ~> (current = t)

\* A task that sleeps on a lock is woken in the end: the wake-up of the head
\* travels down the chain of tmp pointers even when the lock is taken again
\* and new sleepers pile up meanwhile.
SleeperIsWoken == \A t \in Task : Sleeping(t) ~> ~Sleeping(t)
=============================================================================
