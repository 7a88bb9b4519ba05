---------------------------- MODULE SchedProofs ----------------------------
(***************************************************************************)
(* Proofs of the safety properties of module Sched, for every number of    *)
(* tasks, every priority, every set of locks and every bound MaxOps.       *)
(***************************************************************************)
EXTENDS Sched, TLAPS

\* Only a real task is inside a system call that locks objects.
CallersExist ==
  \A t \in Task : pc[t] \in {"kernel", "locking", "waiting"} => t \in task /\ t # Idle

\* The inductive invariant.
Inv ==
  /\ TypeOK
  /\ CurrentMayRun
  /\ CallersExist
  /\ MutualExclusion
  /\ NoStaleWaiter
  /\ EverySleeperHasOneWaker
  /\ FreeLockHasNoQueue

USE DEF Task, Idle, NIL

-----------------------------------------------------------------------------
(* schedule().                                                             *)

\* Recharging keeps a counter below twice the priority.
LEMMA RechargedType ==
  ASSUME NEW c \in [Task -> 0 .. 2 * PRIORITY - 1]
  PROVE  Recharged(c) \in [Task -> 0 .. 2 * PRIORITY - 1]
  BY PriorityAssumption, SMT DEF Recharged

\* schedule() chooses a task that exists and, unless it is the idle task, may
\* run; it changes no state and no slot of the task table.
LEMMA SchedulePost ==
  ASSUME TypeOK,
         NEW s, s \in [Task -> States],
         NEW c, c \in [Task -> 0 .. 2 * PRIORITY - 1],
         Schedule(s, c)
  PROVE  /\ state' = s
         /\ task' = task
         /\ counter' \in [Task -> 0 .. 2 * PRIORITY - 1]
         /\ current' \in task
         /\ current' # Idle => s[current'] = "RUNNING"
<1>1. counter' \in [Task -> 0 .. 2 * PRIORITY - 1]
  BY RechargedType DEF Schedule
<1>2. current' \in task /\ (current' # Idle => s[current'] = "RUNNING")
  BY DEF Schedule, Best, Runnable, TypeOK
<1>3. QED
  BY <1>1, <1>2 DEF Schedule

-----------------------------------------------------------------------------
(* Types, and the task that has the processor.                             *)

LEMMA InitInv == Init => Inv
  BY TasksAssumption, PriorityAssumption, LocksAssumption
  DEF Init, Inv, TypeOK, CurrentMayRun, CallersExist, MutualExclusion, NoStaleWaiter,
      EverySleeperHasOneWaker, FreeLockHasNoQueue, States, InSleepOn, Sleeping

\* One step per action: the types and the choice of the running task.
LEMMA TypeStep ==
  ASSUME Inv, [Next]_vars
  PROVE  TypeOK' /\ CurrentMayRun'
<1> USE DEF States
<1>0. TypeOK /\ CurrentMayRun /\ CallersExist /\ current \in Task
  BY DEF Inv, TypeOK
<1>1. ASSUME NEW t \in task, Syscall(t) PROVE TypeOK' /\ CurrentMayRun'
  BY <1>0, <1>1, OpsAssumption
  DEF Syscall, At, Goto, TypeOK, CurrentMayRun, sched, queue, locks
<1>2. ASSUME NEW t \in task, Fork(t) PROVE TypeOK' /\ CurrentMayRun'
  <2>1. pc' \in [Task -> {"user", "kernel", "paused", "locking", "waiting", "ret"}]
    BY <1>0, <1>2 DEF Fork, Goto, TypeOK
  <2>2. CASE UNCHANGED <<task, state, counter>>
    BY <1>0, <1>2, <2>1, <2>2 DEF Fork, TypeOK, CurrentMayRun, queue, locks
  <2>3. ASSUME NEW nr \in Task,
               task' = task \cup {nr},
               state' = [state EXCEPT ![nr] = "RUNNING"],
               counter' = [counter EXCEPT ![nr] = PRIORITY]
        PROVE  TypeOK' /\ CurrentMayRun'
    <3>1. counter' \in [Task -> 0 .. 2 * PRIORITY - 1]
      BY <1>0, <2>3, PriorityAssumption DEF TypeOK
    <3>2. state' \in [Task -> States] /\ task' \subseteq Task /\ Idle \in task'
      BY <1>0, <2>3 DEF TypeOK
    <3>3. UNCHANGED <<current, obj, tmp, wq, locked, held, dev, budget>>
      BY <1>2 DEF Fork, queue, locks
    <3>4. TypeOK'
      BY <1>0, <2>1, <2>3, <3>1, <3>2, <3>3 DEF TypeOK
    <3>5. CurrentMayRun'
      BY <1>0, <2>3, <3>3 DEF TypeOK, CurrentMayRun
    <3>6. QED
      BY <3>4, <3>5
  <2>4. QED
    BY <1>2, <2>2, <2>3 DEF Fork
<1>3. ASSUME NEW t \in task, Pause(t) PROVE TypeOK' /\ CurrentMayRun'
  <2>1. Schedule([state EXCEPT ![t] = "INTERRUPTIBLE"], counter)
    BY <1>3 DEF Pause
  <2>2. /\ [state EXCEPT ![t] = "INTERRUPTIBLE"] \in [Task -> States]
        /\ counter \in [Task -> 0 .. 2 * PRIORITY - 1]
    BY <1>0 DEF TypeOK
  <2>3. QED
    BY <1>0, <1>3, <2>1, <2>2, SchedulePost
    DEF Pause, At, Goto, TypeOK, CurrentMayRun, queue, locks
<1>4. ASSUME NEW t \in task, PauseReturn(t) PROVE TypeOK' /\ CurrentMayRun'
  BY <1>0, <1>4 DEF PauseReturn, At, Goto, TypeOK, CurrentMayRun, sched, queue, locks
<1>22. ASSUME NEW t \in task, CallsLeft(t) PROVE budget' \in [Task -> Nat]
  BY <1>0, <1>22 DEF CallsLeft, TypeOK
<1>5. ASSUME NEW t \in task, NEW l \in Lock, Take(t, l) PROVE TypeOK' /\ CurrentMayRun'
  <2>1. budget' \in [Task -> Nat]
    BY <1>22, <1>5 DEF Take
  <2>2. QED
    BY <1>0, <1>5, <2>1 DEF Take, TypeOK, CurrentMayRun, sched, queue
<1>6. ASSUME NEW t \in Task, NEW l \in Lock, NEW s \in [Task -> States], SleepOn(t, l, s)
      PROVE  /\ tmp' \in [Task -> Task \cup {NIL}]
             /\ wq' \in [Lock -> Task \cup {NIL}]
             /\ task' = task /\ current' \in task
             /\ state' \in [Task -> States]
             /\ counter' \in [Task -> 0 .. 2 * PRIORITY - 1]
             /\ current' # Idle => state'[current'] = "RUNNING"
  <2>1. Schedule([s EXCEPT ![t] = "UNINTERRUPTIBLE"], counter)
    BY <1>6 DEF SleepOn
  <2>2. /\ [s EXCEPT ![t] = "UNINTERRUPTIBLE"] \in [Task -> States]
        /\ counter \in [Task -> 0 .. 2 * PRIORITY - 1]
    BY <1>0, <1>6 DEF TypeOK
  <2>3. /\ tmp' \in [Task -> Task \cup {NIL}]
        /\ wq' \in [Lock -> Task \cup {NIL}]
    BY <1>0, <1>6 DEF SleepOn, TypeOK
  <2>4. QED
    BY <1>0, <2>1, <2>2, <2>3, SchedulePost
<1>7. ASSUME NEW t \in task, NEW l \in Lock, Block(t, l) PROVE TypeOK' /\ CurrentMayRun'
  <2>1. t \in Task /\ state \in [Task -> States] /\ SleepOn(t, l, state)
    BY <1>0, <1>7 DEF Block, TypeOK
  <2>2. /\ tmp' \in [Task -> Task \cup {NIL}]
        /\ wq' \in [Lock -> Task \cup {NIL}]
        /\ task' = task /\ current' \in task
        /\ state' \in [Task -> States]
        /\ counter' \in [Task -> 0 .. 2 * PRIORITY - 1]
        /\ current' # Idle => state'[current'] = "RUNNING"
    BY <1>6, <2>1
  <2>3. budget' \in [Task -> Nat]
    BY <1>22, <1>7 DEF Block
  <2>4. pc' \in [Task -> {"user", "kernel", "paused", "locking", "waiting", "ret"}]
    BY <1>0, <1>7 DEF Block, Goto, TypeOK
  <2>5. obj' \in [Task -> Lock] /\ UNCHANGED <<locked, held, dev>>
    BY <1>0, <1>7 DEF Block, TypeOK, locks
  <2>6. TypeOK'
    BY <1>0, <2>2, <2>3, <2>4, <2>5 DEF TypeOK
  <2>7. QED
    BY <2>2, <2>6 DEF CurrentMayRun
<1>8. ASSUME NEW t \in Task PROVE AfterSleep(t) \in [Task -> States]
  BY <1>0 DEF AfterSleep, TypeOK
<1>9. ASSUME NEW t \in task, SleepAgain(t) PROVE TypeOK' /\ CurrentMayRun'
  <2>1. t \in Task /\ obj[t] \in Lock /\ SleepOn(t, obj[t], AfterSleep(t))
    BY <1>0, <1>9 DEF SleepAgain, TypeOK
  <2>2. /\ tmp' \in [Task -> Task \cup {NIL}]
        /\ wq' \in [Lock -> Task \cup {NIL}]
        /\ task' = task /\ current' \in task
        /\ state' \in [Task -> States]
        /\ counter' \in [Task -> 0 .. 2 * PRIORITY - 1]
        /\ current' # Idle => state'[current'] = "RUNNING"
    BY <1>6, <1>8, <2>1
  <2>3. QED
    BY <1>0, <1>9, <2>1, <2>2 DEF SleepAgain, TypeOK, CurrentMayRun, locks
<1>10. ASSUME NEW t \in task, Proceed(t) PROVE TypeOK' /\ CurrentMayRun'
  <2>1. t \in Task /\ state' \in [Task -> States]
    BY <1>0, <1>8, <1>10 DEF Proceed, TypeOK
  <2>2. CurrentMayRun'
    BY <1>0, <1>10 DEF Proceed, AfterSleep, TypeOK, CurrentMayRun
  <2>3. locked' \in [Lock -> BOOLEAN] /\ held' \in [Task -> SUBSET Lock]
    <3>1. obj[t] \in Lock /\ locked \in [Lock -> BOOLEAN] /\ held \in [Task -> SUBSET Lock]
      BY <1>0, <2>1 DEF TypeOK
    <3>2. CASE pc[t] = "locking"
      <4>1. /\ locked' = [locked EXCEPT ![obj[t]] = TRUE]
            /\ held'   = [held EXCEPT ![t] = @ \cup {obj[t]}]
        BY <1>10, <3>2 DEF Proceed
      <4>2. locked' \in [Lock -> BOOLEAN]
        BY <3>1, <4>1, Zenon
      <4>3. QED
        BY <2>1, <3>1, <4>1, <4>2
    <3>3. CASE pc[t] # "locking"
      BY <1>10, <3>1, <3>3 DEF Proceed
    <3>4. QED
      BY <3>2, <3>3
  <2>4. tmp' \in [Task -> Task \cup {NIL}]
    BY <1>0, <1>10, <2>1 DEF Proceed, TypeOK
  <2>5. QED
    BY <1>0, <1>10, <2>1, <2>2, <2>3, <2>4 DEF Proceed, Goto, TypeOK
<1>11. ASSUME NEW l \in Lock, WakeUp(l)
       PROVE  /\ state' \in [Task -> States]
              /\ wq' \in [Lock -> Task \cup {NIL}]
              /\ \A t \in Task : state[t] = "RUNNING" => state'[t] = "RUNNING"
  BY <1>0, <1>11 DEF WakeUp, TypeOK
<1>12. ASSUME NEW t \in task, NEW l \in Lock, Unlock(t, l) PROVE TypeOK' /\ CurrentMayRun'
  <2>1. WakeUp(l) /\ t \in Task
    BY <1>0, <1>12 DEF Unlock, TypeOK
  <2>2. QED
    BY <1>0, <1>11, <1>12, <2>1 DEF Unlock, TypeOK, CurrentMayRun
<1>13. ASSUME NEW t \in task, NEW l \in Lock, Submit(t, l) PROVE TypeOK' /\ CurrentMayRun'
  BY <1>0, <1>13 DEF Submit, TypeOK, CurrentMayRun, sched, queue
<1>14. ASSUME NEW c \in [Task -> 0 .. 2 * PRIORITY - 1], Schedule(state, c)
       PROVE  /\ state' = state /\ task' = task /\ current' \in task
              /\ counter' \in [Task -> 0 .. 2 * PRIORITY - 1]
              /\ current' # Idle => state[current'] = "RUNNING"
  <2>1. state \in [Task -> States]
    BY <1>0 DEF TypeOK
  <2>2. QED
    BY <1>0, <1>14, <2>1, SchedulePost
<1>15. ASSUME NEW t \in task, Yield(t) PROVE TypeOK' /\ CurrentMayRun'
  <2>1. counter \in [Task -> 0 .. 2 * PRIORITY - 1] /\ Schedule(state, counter)
    BY <1>0, <1>15 DEF Yield, TypeOK
  <2>2. budget' \in [Task -> Nat]
    BY <1>22, <1>15 DEF Yield
  <2>3. QED
    BY <1>0, <1>14, <1>15, <2>1, <2>2 DEF Yield, TypeOK, CurrentMayRun, queue, locks
<1>16. ASSUME NEW t \in task, Return(t) PROVE TypeOK' /\ CurrentMayRun'
  BY <1>0, <1>16 DEF Return, Goto, TypeOK, CurrentMayRun, sched, queue, locks
<1>17. ASSUME NEW t \in task, SyscallExit(t) PROVE TypeOK' /\ CurrentMayRun'
  <2>1. counter \in [Task -> 0 .. 2 * PRIORITY - 1]
    BY <1>0 DEF TypeOK
  <2>2. CASE Schedule(state, counter)
    BY <1>0, <1>14, <1>17, <2>1, <2>2
    DEF SyscallExit, Goto, TypeOK, CurrentMayRun, queue, locks
  <2>3. CASE UNCHANGED sched
    BY <1>0, <1>17, <2>3 DEF SyscallExit, Goto, TypeOK, CurrentMayRun, sched, queue, locks
  <2>4. QED
    BY <1>17, <2>2, <2>3 DEF SyscallExit
<1>18. ASSUME Tick PROVE TypeOK' /\ CurrentMayRun'
  <2> DEFINE left  == IF counter[current] > 1 THEN counter[current] - 1 ELSE 0
             after == [counter EXCEPT ![current] = left]
  <2>1. after \in [Task -> 0 .. 2 * PRIORITY - 1]
    BY <1>0, PriorityAssumption DEF TypeOK
  <2>2. CASE Schedule(state, after)
    BY <1>0, <1>14, <1>18, <2>1, <2>2 DEF Tick, TypeOK, CurrentMayRun, queue, locks
  <2>3. CASE counter' = after /\ UNCHANGED <<task, state, current>>
    BY <1>0, <1>18, <2>1, <2>3 DEF Tick, TypeOK, CurrentMayRun, queue, locks
  <2>4. QED
    BY <1>18, <2>2, <2>3 DEF Tick
<1>19. ASSUME NEW l \in Lock, DeviceDone(l) PROVE TypeOK' /\ CurrentMayRun'
  <2>1. WakeUp(l)
    BY <1>19 DEF DeviceDone
  <2>2. QED
    BY <1>0, <1>11, <1>19, <2>1 DEF DeviceDone, TypeOK, CurrentMayRun
<1>20. ASSUME UNCHANGED vars PROVE TypeOK' /\ CurrentMayRun'
  BY <1>0, <1>20 DEF vars, sched, queue, locks, TypeOK, CurrentMayRun
<1>23. QED
  BY <1>1, <1>2, <1>3, <1>4, <1>5, <1>7, <1>9, <1>10, <1>12, <1>13, <1>15, <1>16, <1>17,
     <1>18, <1>19, <1>20
  DEF Next, Calls, Runs

-----------------------------------------------------------------------------
(* Callers and owners.                                                     *)

\* Only Syscall() enters the kernel with the right to lock, and tasks do not
\* disappear.
LEMMA CallersStep ==
  ASSUME Inv, [Next]_vars
  PROVE  CallersExist'
<1>0. TypeOK /\ CallersExist /\ current \in Task
  BY DEF Inv, TypeOK
<1>1. task \subseteq task'
  BY <1>0
  DEF Next, Calls, Runs, Syscall, Fork, Pause, PauseReturn, Take, Block, SleepAgain,
      Proceed, Unlock, Submit, Yield, Return, SyscallExit, Tick, DeviceDone,
      SleepOn, Schedule, vars, sched, TypeOK
<1>2. ASSUME NEW t \in task, Syscall(t) PROVE CallersExist'
  BY <1>0, <1>1, <1>2 DEF Syscall, At, Goto, CallersExist, TypeOK
<1>3. ASSUME NEW t \in task, Fork(t) PROVE CallersExist'
  BY <1>0, <1>1, <1>3 DEF Fork, Goto, CallersExist, TypeOK
<1>4. ASSUME NEW t \in task, Pause(t) PROVE CallersExist'
  BY <1>0, <1>1, <1>4 DEF Pause, Goto, CallersExist, TypeOK
<1>5. ASSUME NEW t \in task, Runs(t) PROVE CallersExist'
  <2>1. CASE PauseReturn(t) \/ Return(t) \/ SyscallExit(t)
    BY <1>0, <1>1, <2>1 DEF PauseReturn, Return, SyscallExit, Goto, CallersExist, TypeOK
  <2>2. CASE SleepAgain(t) \/ Yield(t)
    BY <1>0, <1>1, <2>2 DEF SleepAgain, Yield, CallersExist
  <2>3. CASE Proceed(t)
    BY <1>0, <1>1, <2>3 DEF Proceed, InSleepOn, Goto, CallersExist, TypeOK
  <2>4. ASSUME NEW l \in Lock, Take(t, l) \/ Unlock(t, l) \/ Submit(t, l)
        PROVE  CallersExist'
    BY <1>0, <1>1, <2>4 DEF Take, Unlock, Submit, CallersExist
  <2>5. ASSUME NEW l \in Lock, Block(t, l) PROVE CallersExist'
    BY <1>0, <1>1, <2>5 DEF Block, At, Goto, CallersExist, TypeOK
  <2>6. QED
    BY <1>5, <2>1, <2>2, <2>3, <2>4, <2>5 DEF Runs
<1>6. ASSUME Tick \/ (\E l \in Lock : DeviceDone(l)) \/ UNCHANGED vars PROVE CallersExist'
  BY <1>0, <1>1, <1>6 DEF Tick, DeviceDone, vars, CallersExist
<1>7. QED
  BY <1>2, <1>3, <1>4, <1>5, <1>6 DEF Next, Calls

\* The lock bit and its owner change together.
LEMMA OwnerStep ==
  ASSUME Inv, [Next]_vars
  PROVE  MutualExclusion'
<1>0. TypeOK /\ MutualExclusion
  BY DEF Inv
<1>1. ASSUME UNCHANGED locks PROVE MutualExclusion'
  BY <1>0, <1>1 DEF locks, MutualExclusion
<1>2. ASSUME NEW t \in task, NEW l \in Lock, ~locked[l],
             locked' = [locked EXCEPT ![l] = TRUE],
             held' = [held EXCEPT ![t] = @ \cup {l}],
             UNCHANGED dev
      PROVE  MutualExclusion'
  <2>1. t \in Task /\ l \notin dev /\ \A u \in Task : l \notin held[u]
    BY <1>0, <1>2 DEF MutualExclusion, TypeOK
  <2>2. \A u \in Task : held'[u] = IF u = t THEN held[t] \cup {l} ELSE held[u]
    BY <1>0, <1>2 DEF TypeOK
  <2>3. \A m \in Lock : locked'[m] <=> (m = l \/ locked[m])
    BY <1>0, <1>2, Zenon DEF TypeOK
  <2>4. QED
    BY <1>0, <1>2, <2>1, <2>2, <2>3 DEF MutualExclusion
<1>3. ASSUME NEW t \in task, NEW l \in Lock, Take(t, l) PROVE MutualExclusion'
  BY <1>2, <1>3 DEF Take
<1>4. ASSUME NEW t \in task, Proceed(t) PROVE MutualExclusion'
  <2>1. CASE pc[t] = "locking"
    <3>1. obj[t] \in Lock
      BY <1>0 DEF TypeOK
    <3>2. QED
      BY <1>2, <1>4, <2>1, <3>1 DEF Proceed
  <2>2. CASE pc[t] # "locking"
    BY <1>1, <1>4, <2>2 DEF Proceed, locks
  <2>3. QED
    BY <2>1, <2>2
<1>5. ASSUME NEW t \in task, NEW l \in Lock, Unlock(t, l) PROVE MutualExclusion'
  <2>1. t \in Task /\ l \in held[t] /\ l \notin dev
    BY <1>0, <1>5 DEF Unlock, MutualExclusion, TypeOK
  <2>2. /\ locked' = [locked EXCEPT ![l] = FALSE]
        /\ held' = [held EXCEPT ![t] = @ \ {l}]
        /\ dev' = dev
    BY <1>5 DEF Unlock
  <2>3. \A u \in Task : held'[u] = IF u = t THEN held[t] \ {l} ELSE held[u]
    BY <1>0, <2>2 DEF TypeOK
  <2>4. \A m \in Lock : locked'[m] <=> (m # l /\ locked[m])
    BY <1>0, <2>2, Zenon DEF TypeOK
  <2>5. QED
    BY <1>0, <2>1, <2>2, <2>3, <2>4 DEF MutualExclusion
<1>6. ASSUME NEW t \in task, NEW l \in Lock, Submit(t, l) PROVE MutualExclusion'
  <2>1. t \in Task /\ l \in held[t]
    BY <1>0, <1>6 DEF Submit, TypeOK
  <2>2. /\ dev' = dev \cup {l}
        /\ locked' = locked
        /\ \A u \in Task : held'[u] = IF u = t THEN held[t] \ {l} ELSE held[u]
    BY <1>0, <1>6 DEF Submit, TypeOK
  <2>3. QED
    BY <1>0, <2>1, <2>2 DEF MutualExclusion
<1>7. ASSUME NEW l \in Lock, DeviceDone(l) PROVE MutualExclusion'
  <2>1. l \in dev /\ dev' = dev \ {l} /\ held' = held
    BY <1>7 DEF DeviceDone
  <2>2. locked' = [locked EXCEPT ![l] = FALSE]
    BY <1>7 DEF DeviceDone
  <2>3. \A m \in Lock : locked'[m] <=> (m # l /\ locked[m])
    BY <1>0, <2>2, Zenon DEF TypeOK
  <2>4. QED
    BY <1>0, <2>1, <2>3 DEF MutualExclusion
<1>8. QED
  BY <1>1, <1>3, <1>4, <1>5, <1>6, <1>7
  DEF Next, Calls, Runs, Syscall, Fork, Pause, PauseReturn, Block, SleepAgain, Yield,
      Return, SyscallExit, Tick, vars, locks

-----------------------------------------------------------------------------
(* Wait queues.                                                            *)

QueueInv == NoStaleWaiter /\ EverySleeperHasOneWaker /\ FreeLockHasNoQueue

\* InSleepOn and Sleeping in the next state.
InSleepOnNext(t) == pc'[t] \in {"locking", "waiting"}
SleepingNext(t)  == InSleepOnNext(t) /\ state'[t] = "UNINTERRUPTIBLE"

\* A step that leaves the queues, the sleepers and the lock bits alone, or
\* only sets lock bits, keeps the queue invariant.
LEMMA QueueFrame ==
  ASSUME TypeOK, QueueInv, UNCHANGED <<obj, tmp, wq>>,
         \A t \in Task : InSleepOnNext(t) <=> InSleepOn(t),
         \A t \in Task : SleepingNext(t) <=> Sleeping(t),
         \A l \in Lock : locked[l] => locked'[l]
  PROVE  QueueInv'
<1>1. /\ \A l \in Lock : wq[l] \in Task \cup {NIL}
      /\ \A t \in Task : tmp[t] \in Task \cup {NIL}
  BY DEF TypeOK
<1>2. NoStaleWaiter'
  BY <1>1 DEF QueueInv, NoStaleWaiter, SleepingNext, InSleepOnNext, Sleeping, InSleepOn
<1>3. EverySleeperHasOneWaker'
  BY <1>1 DEF QueueInv, EverySleeperHasOneWaker, SleepingNext, InSleepOnNext, Sleeping, InSleepOn
<1>4. FreeLockHasNoQueue'
  BY DEF QueueInv, FreeLockHasNoQueue
<1>5. QED
  BY <1>2, <1>3, <1>4 DEF QueueInv

\* wake_up() on a lock that is being released.
LEMMA QueueWakeUp ==
  ASSUME TypeOK, QueueInv, UNCHANGED <<obj, tmp, pc>>,
         NEW l \in Lock, WakeUp(l), locked' = [locked EXCEPT ![l] = FALSE]
  PROVE  QueueInv'
<1>1. /\ \A m \in Lock : wq[m] \in Task \cup {NIL}
      /\ \A t \in Task : tmp[t] \in Task \cup {NIL}
      /\ \A m \in Lock : wq'[m] = IF m = l THEN NIL ELSE wq[m]
  BY DEF TypeOK, WakeUp
<1>2. \A t \in Task : InSleepOnNext(t) <=> InSleepOn(t)
  BY DEF InSleepOn, InSleepOnNext
<1>3. \A t \in Task : SleepingNext(t) <=> (Sleeping(t) /\ t # wq[l])
  BY <1>1 DEF SleepingNext, InSleepOnNext, Sleeping, InSleepOn, WakeUp, TypeOK
<1>4. NoStaleWaiter'
  <2>1. ASSUME NEW m \in Lock, wq'[m] # NIL PROVE SleepingNext(wq'[m]) /\ obj'[wq'[m]] = m
    <3>1. m # l /\ wq'[m] = wq[m] /\ wq[m] \in Task
      BY <1>1, <2>1
    <3>2. Sleeping(wq[m]) /\ obj[wq[m]] = m /\ (wq[l] # NIL => obj[wq[l]] = l)
      BY <3>1 DEF QueueInv, NoStaleWaiter
    <3>3. wq[m] # wq[l]
      BY <3>1, <3>2
    <3>4. QED
      BY <1>3, <3>1, <3>2, <3>3
  <2>2. ASSUME NEW t \in Task, tmp'[t] # NIL
        PROVE  InSleepOnNext(t) /\ SleepingNext(tmp'[t]) /\ obj'[tmp'[t]] = obj'[t] /\ tmp'[t] # t
    <3>1. tmp[t] \in Task /\ tmp[t] # wq[l] /\ Sleeping(tmp[t])
      BY <1>1, <2>2 DEF QueueInv, NoStaleWaiter, EverySleeperHasOneWaker
    <3>2. QED
      BY <1>2, <1>3, <2>2, <3>1 DEF QueueInv, NoStaleWaiter
  <2>3. QED
    BY <2>1, <2>2 DEF NoStaleWaiter, SleepingNext, InSleepOnNext, Sleeping, InSleepOn
<1>5. EverySleeperHasOneWaker'
  <2>1. ASSUME NEW t \in Task, SleepingNext(t)
        PROVE  wq'[obj'[t]] = t \/ \E u \in Task : tmp'[u] = t
    <3>1. Sleeping(t) /\ t # wq[l] /\ obj[t] \in Lock
      BY <1>3, <2>1 DEF TypeOK
    <3>2. wq[obj[t]] = t \/ \E u \in Task : tmp[u] = t
      BY <3>1 DEF QueueInv, EverySleeperHasOneWaker
    <3>3. QED
      BY <1>1, <3>1, <3>2
  <2>2. \A t, u \in Task : tmp'[t] # NIL /\ tmp'[t] = tmp'[u] => t = u
    BY DEF QueueInv, EverySleeperHasOneWaker
  <2>3. \A t \in Task, m \in Lock : tmp'[t] # NIL => tmp'[t] # wq'[m]
    BY <1>1 DEF QueueInv, EverySleeperHasOneWaker
  <2>4. QED
    BY <2>1, <2>2, <2>3
    DEF EverySleeperHasOneWaker, SleepingNext, InSleepOnNext, Sleeping, InSleepOn
<1>6. FreeLockHasNoQueue'
  <2>1. ASSUME NEW m \in Lock, m # l PROVE locked'[m] <=> locked[m]
    BY <2>1, Zenon DEF TypeOK
  <2>2. QED
    BY <1>1, <2>1 DEF QueueInv, FreeLockHasNoQueue
<1>7. QED
  BY <1>4, <1>5, <1>6 DEF QueueInv

\* sleep_on() called by t on a taken lock l, from any states s in which t is
\* awake and all other sleepers are as before except that one task u, which no
\* queue points to, may have been woken.
LEMMA QueueSleepOn ==
  ASSUME TypeOK, QueueInv,
         NEW t \in Task, NEW l \in Lock, NEW s \in [Task -> States],
         NEW u \in Task \cup {NIL},
         SleepOn(t, l, s), locked[l], UNCHANGED locked,
         ~Sleeping(t), obj' = [obj EXCEPT ![t] = l],
         InSleepOnNext(t), \A v \in Task \ {t} : pc'[v] = pc[v],
         u = tmp[t],
         \A v \in Task : s[v] = IF v = u THEN "RUNNING" ELSE state[v]
  PROVE  QueueInv'
<1>0. /\ \A m \in Lock : wq[m] \in Task \cup {NIL}
      /\ \A v \in Task : tmp[v] \in Task \cup {NIL}
      /\ \A v \in Task : obj[v] \in Lock
  BY DEF TypeOK
<1>1. /\ \A m \in Lock : wq'[m] = IF m = l THEN t ELSE wq[m]
      /\ \A v \in Task : tmp'[v] = IF v = t THEN wq[l] ELSE tmp[v]
      /\ \A v \in Task : obj'[v] = IF v = t THEN l ELSE obj[v]
      /\ \A v \in Task : state'[v] = IF v = t THEN "UNINTERRUPTIBLE" ELSE s[v]
  BY DEF SleepOn, Schedule, TypeOK
<1>2. SleepingNext(t) /\ \A v \in Task \ {t} : SleepingNext(v) <=> (Sleeping(v) /\ v # u)
  BY <1>1 DEF SleepingNext, InSleepOnNext, Sleeping, InSleepOn, TypeOK
<1>3. \A v \in Task \ {t} : InSleepOnNext(v) <=> InSleepOn(v)
  BY DEF InSleepOn, InSleepOnNext
<1>4. /\ \A m \in Lock : wq[m] # t
      /\ \A v \in Task : tmp[v] # t
  BY <1>0 DEF QueueInv, NoStaleWaiter
<1>5. u # NIL => \A m \in Lock : wq[m] # u
  BY <1>0 DEF QueueInv, EverySleeperHasOneWaker
<1>6. \A v \in Task \ {t} : tmp[v] # NIL => tmp[v] # u
  BY <1>0 DEF QueueInv, EverySleeperHasOneWaker
<1>7. NoStaleWaiter'
  <2>1. ASSUME NEW m \in Lock, wq'[m] # NIL PROVE SleepingNext(wq'[m]) /\ obj'[wq'[m]] = m
    <3>1. CASE m = l
      BY <1>1, <1>2, <3>1
    <3>2. CASE m # l
      BY <1>0, <1>1, <1>2, <1>4, <1>5, <2>1, <3>2 DEF QueueInv, NoStaleWaiter
    <3>3. QED
      BY <3>1, <3>2
  <2>2. ASSUME NEW v \in Task, tmp'[v] # NIL
        PROVE  InSleepOnNext(v) /\ SleepingNext(tmp'[v]) /\ obj'[tmp'[v]] = obj'[v] /\ tmp'[v] # v
    <3>1. CASE v = t
      <4>1. wq[l] \in Task /\ wq[l] # t /\ wq[l] # u /\ Sleeping(wq[l]) /\ obj[wq[l]] = l
        BY <1>0, <1>1, <1>4, <1>5, <2>2, <3>1 DEF QueueInv, NoStaleWaiter
      <4>2. QED
        BY <1>1, <1>2, <3>1, <4>1
    <3>2. CASE v # t
      <4>1. /\ tmp[v] \in Task /\ tmp[v] # t /\ tmp[v] # u /\ tmp[v] # v
            /\ InSleepOn(v) /\ Sleeping(tmp[v]) /\ obj[tmp[v]] = obj[v]
        BY <1>0, <1>1, <1>4, <1>6, <2>2, <3>2 DEF QueueInv, NoStaleWaiter
      <4>2. QED
        BY <1>1, <1>2, <1>3, <3>2, <4>1
    <3>3. QED
      BY <3>1, <3>2
  <2>3. QED
    BY <2>1, <2>2 DEF NoStaleWaiter, SleepingNext, InSleepOnNext, Sleeping, InSleepOn
<1>8. EverySleeperHasOneWaker'
  <2>1. ASSUME NEW v \in Task, SleepingNext(v)
        PROVE  wq'[obj'[v]] = v \/ \E w \in Task : tmp'[w] = v
    <3>1. CASE v = t
      BY <1>1, <3>1
    <3>2. CASE v # t
      <4>1. Sleeping(v) /\ v # u /\ obj'[v] = obj[v] /\ obj[v] \in Lock
        BY <1>0, <1>1, <1>2, <2>1, <3>2
      <4>2. CASE wq[obj[v]] = v
        BY <1>1, <4>1, <4>2
      <4>3. ASSUME NEW w \in Task, tmp[w] = v PROVE tmp'[w] = v
        BY <1>1, <4>1, <4>3
      <4>4. QED
        BY <4>1, <4>2, <4>3 DEF QueueInv, EverySleeperHasOneWaker
    <3>3. QED
      BY <3>1, <3>2
  <2>2. \A v, w \in Task : tmp'[v] # NIL /\ tmp'[v] = tmp'[w] => v = w
    BY <1>0, <1>1 DEF QueueInv, EverySleeperHasOneWaker
  <2>3. ASSUME NEW v \in Task, NEW m \in Lock, tmp'[v] # NIL PROVE tmp'[v] # wq'[m]
    <3>1. CASE v = t
      BY <1>0, <1>1, <1>4, <2>3, <3>1 DEF QueueInv, NoStaleWaiter
    <3>2. CASE v # t
      BY <1>0, <1>1, <1>4, <2>3, <3>2 DEF QueueInv, EverySleeperHasOneWaker
    <3>3. QED
      BY <3>1, <3>2
  <2>4. QED
    BY <2>1, <2>2, <2>3
    DEF EverySleeperHasOneWaker, SleepingNext, InSleepOnNext, Sleeping, InSleepOn
<1>9. FreeLockHasNoQueue'
  BY <1>1 DEF QueueInv, FreeLockHasNoQueue
<1>10. QED
  BY <1>7, <1>8, <1>9 DEF QueueInv

\* The running task is not asleep, and only a task inside sleep_on() has a tmp.
LEMMA CurrentAwake ==
  ASSUME Inv
  PROVE  /\ current \in Task /\ ~Sleeping(current)
         /\ \A t \in Task : ~InSleepOn(t) => tmp[t] = NIL
<1>1. current \in Task /\ (current = Idle => pc[current] \notin {"locking", "waiting"})
  BY DEF Inv, TypeOK, CallersExist
<1>2. QED
  BY <1>1 DEF Inv, CurrentMayRun, Sleeping, InSleepOn, NoStaleWaiter

\* AfterSleep(t) wakes the task that the tmp of t points to.
LEMMA AfterSleepValue ==
  ASSUME TypeOK, NEW t \in Task
  PROVE  /\ AfterSleep(t) \in [Task -> States]
         /\ \A v \in Task : AfterSleep(t)[v] = IF v = tmp[t] THEN "RUNNING" ELSE state[v]
  BY DEF AfterSleep, TypeOK, States

LEMMA QueueProceed ==
  ASSUME Inv, NEW t \in task, Proceed(t)
  PROVE  QueueInv'
<1>0. /\ TypeOK /\ QueueInv /\ t \in Task /\ ~Sleeping(t)
      /\ \A m \in Lock : wq[m] \in Task \cup {NIL}
      /\ \A v \in Task : tmp[v] \in Task \cup {NIL}
  BY CurrentAwake DEF Inv, QueueInv, Proceed, TypeOK
<1>1. /\ \A v \in Task : tmp'[v] = IF v = t THEN NIL ELSE tmp[v]
      /\ \A v \in Task : state'[v] = IF v = tmp[t] THEN "RUNNING" ELSE state[v]
      /\ \A v \in Task : pc'[v] = IF v = t THEN "kernel" ELSE pc[v]
      /\ wq' = wq /\ obj' = obj
  BY <1>0, AfterSleepValue DEF Proceed, Goto, TypeOK
<1>2. \A v \in Task : SleepingNext(v) <=> (Sleeping(v) /\ v # tmp[t])
  BY <1>0, <1>1 DEF SleepingNext, InSleepOnNext, Sleeping, InSleepOn
<1>3. \A v \in Task \ {t} : InSleepOnNext(v) <=> InSleepOn(v)
  BY <1>1 DEF InSleepOn, InSleepOnNext
<1>4. /\ \A m \in Lock : wq[m] # NIL => wq[m] # tmp[t]
      /\ \A v \in Task \ {t} : tmp[v] # NIL => tmp[v] # tmp[t]
  BY <1>0 DEF QueueInv, EverySleeperHasOneWaker
<1>5. NoStaleWaiter'
  <2>1. ASSUME NEW m \in Lock, wq[m] # NIL PROVE SleepingNext(wq[m]) /\ obj[wq[m]] = m
    BY <1>0, <1>2, <1>4, <2>1 DEF QueueInv, NoStaleWaiter
  <2>2. ASSUME NEW v \in Task, tmp'[v] # NIL
        PROVE  /\ InSleepOnNext(v) /\ SleepingNext(tmp'[v])
               /\ obj[tmp'[v]] = obj[v] /\ tmp'[v] # v
    <3>1. v # t /\ tmp'[v] = tmp[v] /\ tmp[v] \in Task /\ tmp[v] # tmp[t]
      BY <1>0, <1>1, <1>4, <2>2
    <3>2. InSleepOn(v) /\ Sleeping(tmp[v]) /\ obj[tmp[v]] = obj[v] /\ tmp[v] # v
      BY <1>0, <2>2, <3>1 DEF QueueInv, NoStaleWaiter
    <3>3. QED
      BY <1>2, <1>3, <3>1, <3>2
  <2>3. QED
    BY <1>1, <2>1, <2>2 DEF NoStaleWaiter, SleepingNext, InSleepOnNext, Sleeping, InSleepOn
<1>6. EverySleeperHasOneWaker'
  <2>1. ASSUME NEW v \in Task, SleepingNext(v)
        PROVE  wq[obj[v]] = v \/ \E w \in Task : tmp'[w] = v
    <3>1. Sleeping(v) /\ v # tmp[t]
      BY <1>2, <2>1
    <3>2. QED
      BY <1>0, <1>1, <3>1 DEF QueueInv, EverySleeperHasOneWaker
  <2>2. \A v, w \in Task : tmp'[v] # NIL /\ tmp'[v] = tmp'[w] => v = w
    BY <1>0, <1>1 DEF QueueInv, EverySleeperHasOneWaker
  <2>3. \A v \in Task, m \in Lock : tmp'[v] # NIL => tmp'[v] # wq[m]
    BY <1>0, <1>1 DEF QueueInv, EverySleeperHasOneWaker
  <2>4. QED
    BY <1>1, <2>1, <2>2, <2>3
    DEF EverySleeperHasOneWaker, SleepingNext, InSleepOnNext, Sleeping, InSleepOn
<1>7. FreeLockHasNoQueue'
  <2>1. \A m \in Lock : locked[m] => locked'[m]
    <3>1. CASE pc[t] = "locking"
      <4>1. locked' = [locked EXCEPT ![obj[t]] = TRUE]
        BY <3>1 DEF Proceed
      <4>2. QED
        BY <1>0, <4>1, Zenon DEF TypeOK
    <3>2. CASE pc[t] # "locking"
      BY <3>2 DEF Proceed
    <3>3. QED
      BY <3>1, <3>2
  <2>2. QED
    BY <1>0, <1>1, <2>1 DEF QueueInv, FreeLockHasNoQueue
<1>8. QED
  BY <1>5, <1>6, <1>7 DEF QueueInv

\* One step per action: the queue invariant.
LEMMA QueueStep ==
  ASSUME Inv, [Next]_vars
  PROVE  QueueInv'
<1>0. /\ TypeOK /\ QueueInv /\ CallersExist
      /\ current \in Task /\ ~Sleeping(current)
      /\ \A t \in Task : ~InSleepOn(t) => tmp[t] = NIL
  BY CurrentAwake DEF Inv, QueueInv
<1> DEFINE Frame == /\ UNCHANGED <<obj, tmp, wq>>
                    /\ \A t \in Task : InSleepOnNext(t) <=> InSleepOn(t)
                    /\ \A t \in Task : SleepingNext(t) <=> Sleeping(t)
                    /\ \A l \in Lock : locked[l] => locked'[l]
<1>1. ASSUME Frame PROVE QueueInv'
  BY <1>0, <1>1, QueueFrame
<1>2. ASSUME NEW t \in task, Syscall(t) PROVE Frame
  BY <1>0, <1>2
  DEF Syscall, At, Goto, sched, queue, locks, SleepingNext, InSleepOnNext, Sleeping,
      InSleepOn, TypeOK
<1>3. ASSUME NEW t \in task, Fork(t) PROVE Frame
  <2>1. \A v \in Task : InSleepOnNext(v) <=> InSleepOn(v)
    BY <1>0, <1>3 DEF Fork, At, Goto, InSleepOnNext, InSleepOn, TypeOK
  <2>2. \A v \in Task : InSleepOn(v) => state'[v] = state[v]
    BY <1>0, <1>3 DEF Fork, InSleepOn, CallersExist, TypeOK
  <2>3. QED
    BY <1>3, <2>1, <2>2 DEF Fork, queue, locks, SleepingNext, Sleeping
<1>4. ASSUME NEW t \in task, Pause(t) PROVE Frame
  BY <1>0, <1>4
  DEF Pause, At, Goto, Schedule, queue, locks, SleepingNext, InSleepOnNext, Sleeping,
      InSleepOn, TypeOK
<1>5. ASSUME NEW t \in task, PauseReturn(t) \/ Return(t) PROVE Frame
  BY <1>0, <1>5
  DEF PauseReturn, Return, At, Goto, sched, queue, locks, SleepingNext, InSleepOnNext,
      Sleeping, InSleepOn, TypeOK
<1>6. ASSUME NEW t \in task, Yield(t) PROVE Frame
  BY <1>0, <1>6
  DEF Yield, Schedule, queue, locks, SleepingNext, InSleepOnNext, Sleeping, InSleepOn
<1>7. ASSUME NEW t \in task, SyscallExit(t) PROVE Frame
  BY <1>0, <1>7
  DEF SyscallExit, At, Goto, Schedule, sched, queue, locks, SleepingNext, InSleepOnNext,
      Sleeping, InSleepOn, TypeOK
<1>8. ASSUME NEW t \in task, NEW l \in Lock, Take(t, l) PROVE Frame
  <2>1. locked' = [locked EXCEPT ![l] = TRUE]
    BY <1>8 DEF Take
  <2>2. \A m \in Lock : locked[m] => locked'[m]
    BY <1>0, <2>1, Zenon DEF TypeOK
  <2>3. QED
    BY <1>0, <1>8, <2>2
    DEF Take, sched, queue, SleepingNext, InSleepOnNext, Sleeping, InSleepOn
<1>9. ASSUME NEW t \in task, NEW l \in Lock, Submit(t, l) PROVE Frame
  BY <1>0, <1>9
  DEF Submit, sched, queue, SleepingNext, InSleepOnNext, Sleeping, InSleepOn
<1>10. ASSUME Tick PROVE Frame
  BY <1>0, <1>10
  DEF Tick, Schedule, queue, locks, SleepingNext, InSleepOnNext, Sleeping, InSleepOn
<1>11. ASSUME UNCHANGED vars PROVE Frame
  BY <1>0, <1>11
  DEF vars, sched, queue, locks, SleepingNext, InSleepOnNext, Sleeping, InSleepOn
<1>12. ASSUME NEW t \in task, NEW l \in Lock, Block(t, l) PROVE QueueInv'
  <2>1. /\ t \in Task /\ ~Sleeping(t) /\ ~InSleepOn(t) /\ tmp[t] = NIL
        /\ SleepOn(t, l, state) /\ locked[l] /\ UNCHANGED locked
        /\ obj' = [obj EXCEPT ![t] = l]
        /\ state \in [Task -> States]
    BY <1>0, <1>12 DEF Block, At, InSleepOn, Sleeping, locks, TypeOK
  <2>2. InSleepOnNext(t) /\ \A v \in Task \ {t} : pc'[v] = pc[v]
    BY <1>0, <1>12, <2>1 DEF Block, Goto, InSleepOnNext, TypeOK
  <2>3. \A v \in Task : state[v] = IF v = tmp[t] THEN "RUNNING" ELSE state[v]
    BY <2>1
  <2>4. QED
    BY <1>0, <2>1, <2>2, <2>3, QueueSleepOn, ZenonT(60)
<1>13. ASSUME NEW t \in task, SleepAgain(t) PROVE QueueInv'
  <2>1. /\ t \in Task /\ ~Sleeping(t) /\ obj[t] \in Lock /\ tmp[t] \in Task \cup {NIL}
        /\ SleepOn(t, obj[t], AfterSleep(t)) /\ locked[obj[t]] /\ UNCHANGED locked
        /\ InSleepOn(t) /\ pc' = pc
    BY <1>0, <1>13 DEF SleepAgain, locks, TypeOK
  <2>2. obj' = [obj EXCEPT ![t] = obj[t]]
    BY <1>0, <1>13 DEF SleepAgain, TypeOK
  <2>3. InSleepOnNext(t) /\ \A v \in Task \ {t} : pc'[v] = pc[v]
    BY <2>1 DEF InSleepOn, InSleepOnNext
  <2>4. /\ AfterSleep(t) \in [Task -> States]
        /\ \A v \in Task : AfterSleep(t)[v] = IF v = tmp[t] THEN "RUNNING" ELSE state[v]
    BY <1>0, <2>1, AfterSleepValue
  <2>5. QED
    BY <1>0, <2>1, <2>2, <2>3, <2>4, QueueSleepOn, ZenonT(60)
<1>14. ASSUME NEW t \in task, Proceed(t) PROVE QueueInv'
  BY <1>14, QueueProceed
<1>15. ASSUME NEW t \in task, NEW l \in Lock, Unlock(t, l) PROVE QueueInv'
  BY <1>0, <1>15, QueueWakeUp DEF Unlock
<1>16. ASSUME NEW l \in Lock, DeviceDone(l) PROVE QueueInv'
  BY <1>0, <1>16, QueueWakeUp DEF DeviceDone
<1>17. QED
  BY <1>1, <1>2, <1>3, <1>4, <1>5, <1>6, <1>7, <1>8, <1>9, <1>10, <1>11, <1>12, <1>13,
     <1>14, <1>15, <1>16
  DEF Next, Calls, Runs

-----------------------------------------------------------------------------
(* The theorems.                                                           *)

\* Inv is an inductive invariant of Sched.
THEOREM InvHolds == Spec => []Inv
<1>1. Inv /\ [Next]_vars => Inv'
  BY TypeStep, CallersStep, OwnerStep, QueueStep DEF Inv, QueueInv
<1>2. QED
  BY <1>1, InitInv, PTL DEF Spec

\* Type correctness; in particular a time slice never reaches twice the
\* priority, however often a sleeping task is recharged by schedule().
THEOREM TypesCorrect == Spec => []TypeOK
  BY InvHolds, PTL DEF Inv

\* The lock bits of buffers, inodes and superblocks exclude each other:
\* lock_buffer(), lock_inode() and lock_super() never give an object away twice.
THEOREM LocksExclude == Spec => []MutualExclusion
  BY InvHolds, PTL DEF Inv

\* sleep_on() and wake_up() never write to the state of a task that is not
\* asleep on that very queue.
THEOREM WaitersAreCurrent == Spec => []NoStaleWaiter
  BY InvHolds, PTL DEF Inv

\* Every sleeper has exactly one pointer to it that will wake it.
THEOREM SleepersAreReachable == Spec => []EverySleeperHasOneWaker
  BY InvHolds, PTL DEF Inv

\* No wake-up is lost: the queue of a free lock is empty.
THEOREM NoLostWakeUp == Spec => []FreeLockHasNoQueue
  BY InvHolds, PTL DEF Inv

\* schedule() gives the processor only to a task that may run.
THEOREM RunnersMayRun == Spec => []CurrentMayRun
  BY InvHolds, PTL DEF Inv
=============================================================================
