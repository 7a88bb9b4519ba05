# research-linux: a TLA+ development

This directory specifies the core of the kernel in this repository (a
re-implementation of Linux 0.11 for one 386 processor), model-checks it with TLC and
proves its locking layer and its memory management with TLAPS. Paths below are relative to `src/`.

## 1. The system

One processor, up to 64 tasks, a non-preemptive kernel. A task inside the kernel
runs until it sleeps or returns; only interrupt handlers (timer, disk, keyboard)
run in between, and only while interrupts are enabled. Nearly every hard behaviour
follows from this: *everything looked up before a sleep may be different after it*,
and *everything an interrupt touches may change between two statements that are not
inside `cli .. sti`*.

| Component | State | Operations | Interacts with | Hard behaviour | What makes it correct |
|---|---|---|---|---|---|
| Scheduler (`kernel/sched.c`, `kernel/system_call.s`) | `task[]`, `state`, `counter`, `current` | `schedule`, `do_timer`, `sys_pause`, system call exit | everything | starvation, recharge of slices, who may run | the processor only goes to a runnable task; every runnable task runs |
| Sleep and wake-up (`kernel/sched.c`) | wait queue heads, `tmp` in each `sleep_on` frame | `sleep_on`, `wake_up`, `interruptible_sleep_on` | scheduler, all locks | a queue kept in local variables of sleeping tasks; wake-ups from interrupts | no stale pointer, no lost wake-up, each sleeper reachable |
| Flag locks (`fs/buffer.c`, `fs/inode.c`, `fs/super.c`, `kernel/blk_drv/ll_rw_blk.c`, `blk.h`) | `b_lock`, `i_lock`, `s_lock` | lock, wait, unlock | sleep / wake-up | the lock is released by an interrupt | one owner, empty queue when free |
| fork (`kernel/fork.c`) | task slots | `find_empty_process`, `copy_process`, `copy_mem` | scheduler, memory | failure half way | child runnable last, nothing leaked |
| Block request layer (`ll_rw_blk.c`, `blk.h`) | 32 request slots, the queue, `wait_for_request` | `ll_rw_block`, `make_request`, `add_request`, `end_request` | cache above, driver below | elevator, slots run out, interrupts everywhere | one request per buffer, one sweep, no second read, every request ends |
| Hard disk driver (`hd.c`) | `do_hd`, `reset`, `recalibrate`, error counters | `do_hd_request`, the interrupt handlers | request layer, controller | retries, reset, late interrupts | a request ends once, with the right result |
| Buffer cache (`fs/buffer.c`) | buffer heads, hash table, free list, `buffer_wait` | `getblk`, `get_hash_table`, `bread`, `brelse`, `sync_dev` | request layer, file system | eviction races with other processes while asleep | one buffer per block, exact counts, behaves like an array of blocks |
| Inodes, bitmaps, superblocks (`fs/inode.c`, `bitmap.c`, `truncate.c`, `super.c`) | inode table, superblock table, bitmaps | `iget`, `iput`, `sync_inodes`, `truncate`, `free_inode` | cache | every wait invalidates a lookup; an inode freed while another process looks at it | one slot per inode, counts, nothing dirty thrown away, files behave like files |
| Memory (`mm/memory.c`) | `mem_map`, page tables | `get_free_page`, `copy_page_tables`, `un_wp_page`, ... | fork, page faults | sharing, copy-on-write, exhaustion | counts equal references, no write through a shared page |
| Kernel malloc (`lib/malloc.c`) | bucket directory, free descriptors | `kmalloc`, `kfree_s` | memory | none today: nothing calls it | each object in one place, pages given back |
| Terminal (`tty_io.c`, `tty.h`, `keyboard.S`) | three ring buffers, `cr_flag` | `tty_write`, `copy_to_cooked`, `put_queue` | keyboard interrupt, scheduler, console | the keyboard handler echoes through the queue a process is writing to | `read_q` and `secondary` never overrun, characters once and in order, the echo is the line, writes return |
| Console (`console.c`) | cursor, window (`origin`, `scr_end`), scroll region, parser state | `con_write` | terminal | four variables that describe one position, moved by hand; wrap-around of the window and of parameters | nothing written outside the video memory, the screen is what a terminal shows |
| printk, traps, boot, libraries | hardly any | | | | straight-line code, not modelled |

`PROJECT.json` lists every component with its status, and under `hazards` each place
where the code can go wrong in a way a test would hardly reach, with the property
that would catch it or the reason why none does.

## 2. Modules

| Module | What it is |
|---|---|
| `Sched` | scheduler, `sleep_on`/`wake_up`, flag locks, fork's task slot, timer and disk interrupt |
| `SchedProofs` | its inductive invariant and the proofs |
| `BlockLayer` | request slots, elevator, `wait_for_request`, the driver as seen from above |
| `BlockProofs` | its inductive invariant and the proofs of its safety properties |
| `HardDisk` | `do_hd_request`, the interrupt handlers, retries, reset and recalibration |
| `HardDiskProofs` | its inductive invariant and the proofs of its safety properties |
| `BlockStore` | abstract: an array of blocks, held between `bread` and `brelse` |
| `BufferCache` | `getblk`/`bread`/`brelse`/`sync_dev`, shown to implement `BlockStore` |
| `BufferProofs` | its inductive invariant, the proofs of its safety properties and of the refinement |
| `AddressSpaces` | abstract: each task has a memory of its own, a copy of its parent's |
| `Memory` | page counts, sharing at fork, copy on write, the TLB; shown to implement `AddressSpaces` |
| `MemoryProofs` | the inductive invariant of `Memory`, its safety, and the refinement |
| `Terminal` | abstract: a screen of lines, a cursor, a scroll region, and what each character does |
| `Console` | `con_write` on the video memory of an adapter, shown to implement `Terminal` |
| `ConsoleProofs` | the proofs of its safety properties and of that |
| `Tty` | `tty_write`, the rings, the keyboard interrupt, `copy_to_cooked`, the loop of `con_write` |
| `TtyProofs` | its inductive invariant and the proofs of its safety properties |
| `Files` | abstract: files that exist as long as they have a name or are open |
| `InodeTable` | `iget`, `iput`, `sync_inodes`, the inode locks, `truncate`, `free_inode`; shown to implement `Files` |
| `InodeProofs` | its inductive invariant, the proofs of its safety properties, and of the refinement |
| `MCSched`, `MCBlockLayer`, `MCHardDisk`, `MCBufferCache`, `MCMemory`, `MCConsole`, `MCTty`, `MCInodeTable` | instances for TLC |

The layers are composed by assumption: each module uses of the one below only what
that module establishes. `BlockLayer` lets a process blocked in `lock_buffer()` go on
once the buffer is free; that it is woken and gets the processor is `Sched`'s
`SleeperIsWoken` and `RunnableTaskRuns`. `BufferCache` transfers queued buffers in any
order and lets a process wait for a request slot; that the queue is served and each
request ends is `BlockLayer`'s `RequestEnds`. That a command the driver has begun ends
with one success or failure, as `BlockLayer` assumes of its `Interrupt`, is
`HardDisk`'s `SuccessIsComplete` and `RequestEnds`. `InodeTable` reads and writes the
inode blocks through a cache that is `BlockStore`. `Tty` lets a process that called
`schedule()` be chosen again, which is `RunnableTaskRuns`; what `Tty` takes from the
write queue is what `Console` puts on the screen, one character at a time.

### Sched

State: `task` is the set of occupied slots of `task[]`; `state`, `counter`, `current`
are the code's; `pc`, `tmp`, `obj` are the saved context of a task (where it is, and
the local `tmp` and argument of its `sleep_on` frame); `wq` the queue heads (`b_wait`,
`i_wait`, `s_wait`); `locked` the lock bits; `held` and `dev` are history: who set the
bit. `schedule()` is one step, as is any `cli .. sti` section: `Block` is lock_x /
wait_on_x finding the bit set, up to the task switch; `SleepAgain` and `Proceed` are
what a task does when the switch returns, with interrupts still disabled; `Submit` is
`make_request` leaving the buffer locked for the disk, `DeviceDone` the interrupt that
unlocks it. `Yield` is the bare `schedule()` in `tty_write`. The idle task forks once
and then only pauses, as `main()` does; it also switches to itself when nothing else
is runnable, whatever its state. All tasks have INIT_TASK's priority: nothing changes
`priority`.

Left out: `interruptible_sleep_on` (`wait_for_keypress`, which only a root file system
on a floppy reaches, and `sleep_if_full`, see `Tty`); the timer list (nothing is ever added); signals (the code is commented
out).

### BlockLayer

`Enter`, `Blocked`, `Lock`, `Check`, `Find`, `NoSlot`, `QueueUp`, `FallAsleep`,
`Awake`, `Add`, `Start` are the steps of `make_request`, cut where the disk interrupt
can make a difference; `running` says which process is between them, since another one
runs only when it sleeps or returns. In particular `sleep_on(&wait_for_request)`,
which runs with interrupts enabled, is two steps. `Modify` is a holder that changes
the buffer without locking it (`write_inode`, `free_block`). A buffer stands for a
block and is identified with its rank by (device, sector), so that `IN_ORDER` is an
order on (command, rank). The driver is `Start`, `Move` (data of a write leave the
buffer), `Interrupt`. Ghost variables: `loaded`, `synced`, `failed`, `moved`.

### HardDisk

`queue` is `CURRENT` and its successors; a request is `struct request` reduced to its
position: `sector`, `nr_sectors`, `half` (the half of the block `buffer` points to) and
`errors`. `do_hd`, `reset`, `recalibrate` are the code's; `do_hd` is emptied by each
interrupt, as `hd_interrupt` does. `ReadIntr`, `WriteIntr`, `RecalIntr` are the
handlers when `win_result()` reports success, `ErrorIntr` all of them when it does not,
`Refused` the write whose DRQ never comes; each runs `do_hd_request` to its end in the
same step, because the handlers run with interrupts disabled and `add_request` calls it
only when no command is outstanding. `bad_rw_intr` reads `CURRENT->errors` after
`end_request`; with no request left that is memory at a null pointer, so `reset` may
take either value. The address arithmetic (partition start, cylinder, head) is left
out, as are `nr_sects` of several partitions and the panics of `hd_out`. The ghosts
are `good` (which halves were moved between their place in memory and their sector)
and `outcome` (the requests that ended in the last step).

The controller is external: it answers each command once per sector, well or with an
error. A command that is sent again after `Refused` is assumed to have forgotten the
first one; an interrupt that comes late would be taken for the answer to the next.

### BufferCache

One action per stretch between two places where the process can sleep; `Sleep` gives
the processor away while the buffer is locked or no slot is free. The hash table is
the function it computes. `b_count`, `b_lock`, `b_dirt`, `b_uptodate`, the free list
order and the choice by `BADNESS` are the code's. `buffer_wait` is woken as a whole
(that `wake_up` and the chain reach everybody is `Sched`'s). `sync_dev` is its two
passes over the buffers of the one device; `sync_inodes` between them is in
`InodeTable`. The machine may have any number of buffers: `buffer_init` lays out as
many as the memory holds, and `Init` chooses.

Refinement mapping to `BlockStore`: the contents of a block are those of its up-to-date
buffer, else those on the disk; a process holds a block from the return of `bread()`
to `brelse()`; blocks on which an I/O failed are undefined.

### Memory

`mem_map` is the code's; `task` and `dir` are the physical pages that hold a task's
`task_struct` and its page table (its one directory entry: `data_limit` is INIT_TASK's
640 KB and nothing changes it); `pte` the table's contents; `content` what each page
holds, reduced to one datum. `Fork` is `sys_fork` with enough memory, `ForkFails` the
one way in which it can fail half way; without a free slot or page at all it changes
nothing. `Unprotect`, `CopyPage`, `OutOfMemory` are the three outcomes of `do_wp_page`.
`Read` and `Write` are user instructions: they use the entry in `tlb` if there is one
and may leave one behind, so a forgotten `invalidate()` shows. `get_free_page` takes
the free page with the highest number; the model takes any. A task switch flushes the
TLB too; the model does not rely on it.

Two facts about task 0 are assumptions: it forks once and then only calls `pause()`,
and it writes no memory of its own after that. Its pages are below 1 MB and stay
writable for it while its child shares them (`copy_page_tables` makes only pages above
`LOW_MEM` read-only for the parent), so the promise of `AddressSpaces` needs them.

Refinement mapping: the memory of a task is what its table's pages contain. Nothing is
promised after a page fault without a free page (`wrecked`), see section 4.

### Console

`scr` is the display: `mem` the video memory in character cells (with a margin on
either side that belongs to others), `origin`, `scr_end`, `top`, `bottom`, `x`, `y`,
`pos` the code's, `shown` and `cursor` the registers of the adapter. Each character is
one step, as `con_write` handles it and then calls `set_cursor`; `state`, `npar`, `par`
are the parser's. Every operation of the code is an operator on `scr`: `Scrup` and its
two branches, `Scrdown`, `Lf`, `Ri`, `InsertChar` and so on; `Csi` is the switch over the
final character of a sequence. Parameters are unsigned and wrap at `ULONG`. The cursor
starts in the corner (the boot loader's position may be anywhere), and the name of the
display that `con_init` prints there is left out, as are attributes.

Refinement mapping to `Terminal`: the screen is what the adapter shows, from `shown` on.
`Terminal` knows no memory and no window; its lines move when the window does.

### Tty

`tty_write` step by step: `PutCr` and `PutNext` store a character, `LoadHead` and
`StoreHead` are the read and the write of `head`; `Write`, `Get`, `LoadTail`, `StoreTail`
the loop of `con_write`; `Written` the return, or the `schedule()` between two chunks.
`KeyboardInterrupt` puts the characters of a key into `read_q` (all or none), and runs
`copy_to_cooked` to its end with every echo through the same write queue and the same
`con_write`. Nothing in `tty_write` disables interrupts, so it may come anywhere, and
the result of its coming between a load and its store is what the code does: the store
overwrites. `shown`, `last` and `row` are ghosts for what has appeared: how much of each
process's string, whether a carriage return came last (or that and an echo), and in the row of
the cursor the column and how many cells to the left of it are echo of the line being typed.
`raced` says that a key has come at a moment when it harms: between reading `head` or `tail` and
writing it back, in the loop of `con_write`, or with room for fewer than two characters. After a
race the rings keep moving but their contents are given up.

A key between two chunks, with the carriage return shown and the line feed still to come, is no
race: nothing is lost. But its echo stands between the two, and as `cr_flag` is still set no other
carriage return follows. `WrittenIsShown` says just that: a line feed comes after a carriage
return with nothing between but what keys echo.

`EchoIsTheLine` has limits, which `row.whole` states. The console's `del()` erases whatever is
left of the cursor, so the echo of a line is rubbed out cell by cell only while it stands in one
piece on one row: once it wraps at the right margin, or a process writes behind it, DEL and ^U erase
what stands there instead, and the ghost gives the line up until the next one begins. The same
happens with the left Alt key: it sets bit 7 (`keyboard.S:523`), a `char` is signed, so
`c < 32` holds, `^` and c + 64 are echoed and two cells are rubbed out later, although
c + 64 is a glyph only for keys from 96 on, the small letters; others `con_write` ignores or obeys. `"M-1"` stands for
one it ignores and `"M-M"` for one it obeys, a carriage return. Alt with `[`, `H` and `I`, whose echo starts an
escape sequence, steps back or goes to a tab stop, is not modelled; nor is writing anything but plain
characters and line feeds.

A process that finds the queue full waits for room that a full queue does not have, on a
wait queue that no `wake_up()` names: `asleep` has no way out. It is reached after a race
only (`WriteReturns`).

### InodeTable

An action is what a process does between two places where it can sleep: `wait_on_inode`
and `bread`. `inode_table`, `last_inode` are the code's, reduced to number, count, lock,
dirt, links and one datum; `disk` is the inode area as the cache has it; `imap` and
`zmap` the bitmaps, the second by inode. `inode`, `empty`, `nr`, `i`, `block` are the local
variables. `Iget` is `get_empty_inode` and the scan up to the first wait, `IgetWaited` what
follows, `ReadDone` the end of `read_inode`; `Iput`, `IputWritten`, `IputRepeat`, `Free` the
parts of `iput`; `SyncInodes` is `sync_dev`'s call from `getblk`. `Modify` and `Unlink` stand for
the system calls on files, which this tree does not have yet: a holder changes the inode
and marks it dirty, or takes the last name away. `Halted` is `panic()`.

`get_empty_inode` waits for and writes a slot that is dirty or locked; by `FreeIsIdle` a slot
with no reference never is, so `NextUnused` is all that is left of the loop. A panic for
want of slots is in `Iget`, but two processes cannot use up four.

Refinement mapping to `Files`: the contents of a file are those of its slot when it has been
read in, else those on the disk, else none once its blocks are free; a process has a
file open from the return of `iget` to the call of `iput`. The promise ends when an
inode is freed while another process uses it (`intact`), see section 4.

## 3. Runs

| Run | Instance | Shows |
|---|---|---|
| `sched` | 3 tasks, 1 lock, priority 3, 2 calls per system call | slice bound, mutual exclusion, sleep queue, lost wake-ups; every runnable task runs; wake-ups reach the end of the chain |
| `block` | 2 processes, 3 buffers, 3 slots, 1 bad block | lock ownership, queue and elevator, dirty bit, reads |
| `block_live` | 1 process, 3 buffers, 3 slots | the elevator starves nobody |
| `lost_requester` | as `block`, no error | **violated**: a process sleeps on `wait_for_request` unreachable |
| `hd` | partition of 5 sectors, 7 errors, 2 requests | driver and controller agree after every retry; success is complete; every request ends |
| `cache` | 2 processes, 3 blocks, 2 buffers, or 1 buffer and 1 bad block | one buffer per block, holders, counts, `buffer_wait`, failed reads, refinement |
| `memory` | 4 tasks, 2 pages each, 6 free pages | counts, TLB, private pages, refinement, fork failing half way |
| `out_of_memory` | 3 tasks, 2 pages each, 4 free pages | **violated**: the page directory becomes writable for a task |
| `console` | 3 lines of 2 columns, memory for 4½ lines, 2 parameters | cursor and window agree, memory of others kept, refinement |
| `tty` | 2 processes, rings of 4, rows of 3, a string longer than the room, six keys | characters once and in order, echo, return of each write |
| `inodes` | 2 processes, 3 inodes, 4 slots | one slot per inode, holders, counts, free slots, refinement |
| `freed_in_use` | 2 processes, 3 inodes, 3 slots | **violated**: an inode is freed while another process uses it |

**Bounds.** `MaxOps` bounds the lock, wait and yield calls of one system call,
`MaxSize` the buffers and bad blocks of the cache together, `MaxFailed` the bad blocks of
the request layer, `MaxMarks` the cells of the screen that are not blank, `MaxBacklog` the
characters that wait in `read_q` when a key is struck, `AfterRace` whether keys are struck after a
race; nothing else is cut off. One lock, its
owner and two sleepers make a chain in which a task is woken, re-queued and has
predecessors; for more locks and tasks the safety properties are proved. Priority 3
lets a sleeping task's slice be recharged twice and approach its bound. Three slots give
writes two and reads one. Three buffers give a queue with
both a descent and an element to insert on either side. In the cache three blocks and
two buffers force eviction while a second process is in the middle of `getblk`; with a
single buffer every process meets `buffer_wait`. `MaxQueue` bounds the requests the
driver has at a time: it looks at the first only, and two show the passage from one to
the next (and what `bad_rw_intr` does to the next). Five sectors are two blocks and an
incomplete third, which is out of range; `MAX_ERRORS` is the code's. Six free pages
are two per fork and two to copy: two forks with both pages copied, a fork between a
copy and the next write, a third fork that takes the last pages or fails for the page
table, and running out. One datum per page with two values tells a copy from a shared
page; the free pages are symmetric. Processes and blocks are symmetric;
tasks are not (the scan order matters).

Three lines are the fewest with a scroll region that has a line outside it; half a line
at the end of the memory shows the exact comparison when the window wraps. No step
depends on what a cell holds, so one mark shows where each goes. `ULONG` is 4, so that
adding and subtracting parameters wraps within two digits. Rings of four hold three
characters: an echo fits behind a character that is queued, and the string x, x, line feed
(four characters with the carriage return) goes out in two chunks, cut between the carriage
return and the line feed; the two processes' chunks interleave. Rows of three make an echo wrap. The
six keys are two characters at once, one with the left Alt key, the end of the line, DEL, ^U, and as
many characters as a function key sends, more than fit. In the run keys come until the first race
(`AfterRace` false: what happens after one is promised nothing but its types) and only when `read_q`
is empty (`MaxBacklog` 0); the proofs need neither. The third inode is a device file's, whose
`iput` syncs everything. Two processes can own two slots each (found and empty): with
four slots there is always one, with three one process may find the slot that the other
has just given back.

**Fairness.** A task in the kernel that is `current` executes its next step (weak
fairness of `Runs`); a task in user mode may compute for ever, but the idle task does
nothing except `pause()`. The timer and the disk interrupt have strong fairness,
because a task just back from `schedule()` has interrupts disabled for a moment, again
and again, and the 8259A latches a request until they are enabled. The disk answers
each command: the driver has no time-out, so a lost interrupt would stop the queue.
In `HardDisk` this is weak fairness of `Answer`, and of the handlers. In `Tty` a process in
the kernel goes on (weak fairness of `Step`), and one that called `schedule()` is chosen
again however often others run in between (strong fairness of `Resume`), which is
`Sched`'s `RunnableTaskRuns`; keys need not be struck.

No liveness is claimed for `getblk()`: a process woken from `buffer_wait` only tries
again and can lose the buffer to others each time, and processes that each hold a
buffer and want another wait for one another. The code gives no guarantee there. The same
holds for `iget` and `iput`, which wait through `bread`.

**Deadlock** is checked everywhere except in `memory` and `out_of_memory` (memory may run out,
and a program need not do anything) and in `tty` (the sleepers of a full write queue).

## 4. Findings

1. `make_request` sleeps on `wait_for_request` with interrupts enabled. An interrupt
   between `*p = current` and `current->state = TASK_UNINTERRUPTIBLE` empties the queue
   and the process then sleeps with nobody left to wake it (`lost_requester`). Every
   sleep on a lock is inside `cli .. sti`, and there `FreeLockHasNoQueue` is proved.
2. `oom()` does not end the process, because `do_exit()` does nothing. `un_wp_page`
   then uses page 0, the page directory, as the new page: the process may write it, and
   the old page is copied over it (`out_of_memory`).
3. `iput()` decides by `i_count` that it is alone and then sleeps in `truncate()`, without
   a lock. `sync_inodes()` may be writing the same inode when `free_inode()` clears the
   slot (the writer then copies a cleared inode over another one's place on the disk and
   unlocks a slot that may be somebody else's), or `iget()` may have found it, and
   `free_inode()` panics (`freed_in_use`).

Observations, found while modelling, that no run states:

- `blk.h:32` says that reads always go before writes; `add_request` guarantees it per
  sweep only: a read that arrives when the sweep has reached the writes waits for them.
- A request whose second sector fails is tried again from `sector + 1`, but
  `do_hd_request` (`hd.c:362`) still asks for two sectors: on the last block of a partition
  the retry is out of range and the request ends after a single try (`hd.c:21` promises
  `MAX_ERRORS`).
- The second identity check in `get_hash_table()` never fails, because the reference is
  taken before the wait (`HolderHasItsBlock`); a failed write discards the data silently.
- `con_write()` reads the queue length once (`console.c:510`); an echo that empties the
  queue meanwhile makes the loop take stale characters and moves `tail` past `head`. The
  echo itself is put into the queue without a look at the room (`tty_io.c:150`).
- A key struck while a writer is between two chunks, cut between CR and LF, is echoed between the
  two, and no second CR follows because `cr_flag` is still set (`tty_io.c:174`, 200): the line
  then begins behind the echo, not on the left (`last = "echoed"` in `Tty`).
- DEL and ^U take two cells for a character of the left Alt key (`tty_io.c:106`, 121), whose echo is
  `^` alone for most that are no small letters, and take whatever stands there when the typed line wraps or
  another process writes behind it: cells before the line, or of somebody else, are erased.
- Nothing wakes the sleepers of `write_q.proc_list`, and `tty->stopped`, which ^S sets, is
  never read.
- `printk()` formats into one static buffer; `tty_write()` may give up the processor in
  the middle of showing it.
- `keyboard.S:109` says that the characters that do not fit are dropped; all the
  characters of the key are.
- `scrdown()` (`console.c:157`) and `get_free_page()` (`memory.c:53`) leave the direction flag set,
  which compiled code relies on being clear.
- `get_empty_inode()`'s waiting and writing never happens (`FreeIsIdle`).

## 5. Proofs

`SchedProofs` proves for every number of tasks, every non-empty set of locks, every
priority and every `MaxOps`: `TypeOK`, `MutualExclusion`, `NoStaleWaiter`,
`EverySleeperHasOneWaker`, `FreeLockHasNoQueue`, `CurrentMayRun`. Assumptions are the
four named ones of `Sched` (TLC evaluates them in each run).

The inductive invariant `Inv` is the conjunction of the six and `CallersExist` (a task
that is in the kernel, holds a lock or is queued occupies its slot). The queue
invariants need each other: that `AfterSleep` wakes a task sleeping on the *same* lock
needs `NoStaleWaiter`; that the waker of every other sleeper is not disturbed needs
`EverySleeperHasOneWaker`; that a task that proceeds leaves no queue behind a free
lock needs `FreeLockHasNoQueue`; and that the task which runs is not itself in a queue
needs `CurrentMayRun`. The argument goes through three lemmas on what a queue operation does
(`QueueWakeUp`, `QueueSleepOn`, `QueueProceed`) and a frame lemma (`QueueFrame`) for
every other step; `SchedulePost` is all that is used of `schedule()`.

`MemoryProofs` proves for every number of tasks and every finite set of pages and page
frames: `TypeOK`, `CountsAreReferences`, `TlbIsCurrent`, `WritableIsPrivate`,
`OnlyWritesChangeMemory` and the refinement of `AddressSpaces`. Assumptions are the
four named ones of `Memory`. The inductive invariant adds to the first four:

- `TaskZeroIsFixed`: task 0 keeps its own pages, writable. So it never faults, and its
  entries are no references to counted pages.
- `EmptySlots`: a free slot refers to nothing. So fork adds references and replaces none.
- `OneUse`: a page is one `task_struct`, one page table, or memory.
- `OnePlace`: tasks that share a page have it at the same place. With `OneUse` this
  bounds each count by `NR_TASKS`, which is why a byte is enough.

The central step is `CopyPage`: that the old page's count can go down needs
`CountsAreReferences` (it is at least 2, as the page is in use and the entry is not the
last), and that the new page is nobody's is its other half, count 0 (`CountZero`). That
a write reaches one task only is `CountOne` with `WritableIsPrivate`, through
`TranslationIsEntry` for the TLB. `ForkContents`, `WriteContents`, `CopyContents`,
`ForkFailsContents` and `UnprotectContents` say what each step does to the memories the
programs see; the action property and the refinement both follow from them.

`InodeProofs` proves for every finite set of processes, every table of more than one slot
and every inode area: `TypeOK`, `OneSlotPerInode`, `HolderHasItsInode`, `CountIsReferences`,
`FreeIsIdle`. Assumptions are `ProcAssumption` and `TableAssumption`. The invariant is about a
table `t` and, for each process, the slot it has a reference to (`Mine`: the empty slot while it
waits in `iget`, its inode otherwise), the inode it wants (`nr`) and whether it still waits. It
adds to the last four:

- `Fresh`: the slot a waiting process took in advance has number 0 and count 1, is clean and
  not locked. So it has one user (`FreshIsMine`), nobody finds it in a scan, and giving it
  back leaves a slot that may be taken again.
- `RootIsThere`: the root is in a slot. With its four users it is never put out, so no slot is
  ever read in as the root and its count is right.
- `DirtyIsSome`: a dirty slot has an inode. So `sync_inodes` never writes a fresh one.
- `Locals`: which local variables are in use where.

Each way to change the table is a lemma (`TakeEmpty`, `FoundStep`, `ReadStep`, `LeaveStep`,
`FreeStep`, `QuietStep`), from which the steps follow with `Moves`, the lemma on the local
variables. `CountMoves` is what a process that turns from one slot to another does to the
counts. That `iput` leaves no dirty slot without a user is `LeaveStep`'s hypothesis, which
`ReleasePost` gets from the three ways `iput` goes on; that `free_inode` clears a slot with a
single user is its own check.

The second part of `InodeProofs` proves that `InodeTable` implements `Files`, for the same instances, with
`DataAssumption` added: the value that stands for no contents is not a contents. `Files` makes its
promise only as long as no inode is freed while somebody uses it (`intact`; that the code can do
so is finding 3 of section 4), and so does the inductive invariant `FilesInv`. It adds to the
invariant of the first part:

- `Sound`: what a process finds when it goes on after a sleep. The slot it locked is still
  locked and has an inode; the block number that `write_inode` computed before `bread` is still
  that of the inode in the slot; the inode that `truncate` empties has no link; the inode it
  asked for has its blocks.
- `Apart`: a lock has one owner, and nobody else turns to a slot that is being read in.
- `Whole`: a clean slot that is not being read in is as on the disk; a file with a name has a
  link, in its slot or on the disk; what is in the table or has a name has its blocks. So taking
  a clean slot for another inode (`SlotTaken`), reading one in (`ReadEnds`) and writing one back
  (`WriteEnds`) change no file, and what `free_inode` clears has no name (`SlotFreed`).

`CurrentIs` turns the `CHOOSE` of the refinement mapping into the relation `Has`, about which the
lemmas on tables are. Every step but three is `Harmless`: the invariant holds afterwards, no file
has changed, and at most this process has opened or closed one (`HarmlessMaps`). The three are
`Modify`, `Unlink` and `Free`; `FreeFiles` shows that while `intact` holds the freed inode has
neither a name nor a user. `StepFiles` puts them together.

`BufferProofs` proves for every finite set of processes, every set of blocks, every non-empty
set of data and every number of buffers: `TypeOK`, `OneBufferPerBlock`, `CountIsUsers`,
`HolderHasItsBlock` and the refinement of `BlockStore`. Assumptions are the three named ones of
`BufferCache`. The invariant adds to the first four:

- `ListIsComplete`: the free list still has every buffer, once `MovedToEnd` has reordered it
  (`MovedList`).
- `LockIsOwned`: a process that has locked a buffer and waits for a request slot is the only
  one, the buffer has no transfer yet, is still dirty (for a write) or not up to date (for a
  read). So nobody else queues it, and `LockStep` and `AddStep` are about one process.
- `TransfersAreLocked`: a buffer in transfer is locked and has a block; one that is being read
  is not up to date. So no reader uses it and no one takes it for another block.
- `UnchangedIsOnDisk`: unless an I/O of the block failed, what is dirty or being written is up
  to date, and an up-to-date buffer that is neither dirty nor still to be copied to the disk
  has the contents of the disk. This is why an eviction loses nothing.
- `Locals`: which local variables are in use where.

`Walk` is a move of one process; `HolderStep`, `OwnerStep` and `CountStep` say once what it leaves
to the others. That `Reuse` may take the buffer is `CountIsUsers` (count 0 means no user,
`UsersFinite`); that it makes no second buffer is the last look into the hash table, which
nothing separates from taking it. For the refinement `ContentsKnown` gives the contents of a
block by its buffer or the disk; `HiddenStutters` covers the steps the file system does not
see, `ReuseRefines`, `MoveRefines` and `EndRefines` the three that could lose data and do not
(`DecayRefines`: they disturb only blocks on which an I/O failed).

`BlockProofs` proves for every set of processes, every number of buffers and of request slots:
`TypeOK`, `LockHasOneOwner`, `QueueIsServed`, `OneSweep`, `CleanIsOnDisk`, `NoSecondRead`.
Assumptions are the three named ones of `BlockLayer`. The invariant adds:

- `OneIsActive`: of the processes between two places where they may lose the processor, only
  one runs. So what `make_request` looked at under `cli` is still so when it goes on.
- `StartHasRequest`, `FilledIsMine`: a process in `add_request` has the slot it filled, and
  the one that found the list empty still sees its request there. With `LockHasOneOwner` no
  other process or request has that buffer.
- `RestIsOnDisk`: a buffer that no request carries is on the disk, dirty or out of date. It is
  `CleanIsOnDisk` for a buffer that is locked but not queued yet.
- `OutdatedIsDirty`: while a write is on its way, what was changed after its data left is dirty
  again; so the end of the write may call the buffer clean.
- `StaleHasFailed`, `ReadIsNeeded`: only an error makes a filled buffer out of date, and a
  process that waits for a slot for a read still needs it. `NoSecondRead` follows.

The central lemma is `SweepIsKept`: `add_request` takes the first place that fits, and a queue
with at most one descent has at most one afterwards. If both neighbours of the new request gave
a descent the place would not have been the first: the smallest position behind the descent that
sorts after the new request, if there is one, is where the scan would have stopped, and if there
is none the request goes to the end. `QueueGrows` does the same for the slots of the queue, and
`EndInv` for `end_request`.

`HardDiskProofs` proves for every size of the partition, every `MAX_ERRORS` and every length of
the queue: `TypeOK`, `CommandIsCurrent`, `SuccessIsComplete`, and `TransferStaysInside`. Assumptions
are the three named ones of `HardDisk`. The invariant says of each queued request that the
sectors it still wants follow those it has done, in the half of the buffer they belong to; of
the controller, that the rest of its command is what `CURRENT` still wants. `DoHdRequestInv` is
`do_hd_request` from any place it is called; `NextSectorInv` the end of one sector;
`BadRwInv` the error path. `TransferStaysInside` holds in spite of the range check being made for
two sectors when only the second is left: the check is too strict (section 4), never too weak.

`ConsoleProofs` proves for every size of the screen (an even number of columns, as scrolling
moves two cells at a time), every video memory that holds it, every number of parameters and
every width of an unsigned long that exceeds the screen: `TypeOK`, `CursorIsInWindow`,
`OthersMemoryKept` and the refinement of `Terminal`. Assumptions are the three named ones of
`Console`. The invariant `Inv` is little more than the two safety properties; what is long is
that each procedure keeps them and does to the text what it should. Addresses are products, so the
proof starts with lemmas on rows (`RowsApart`, `Between`, `InRow`: the cell at
`r * Columns + c` is in row `y` exactly if `r = y`), and every later step is linear.
`Shows(d, s, x, y, t, b)` says that the display `d` is in order and shows the screen `s`; each
procedure has one lemma of this form (`ScrollWindowShows` for both branches of the EGA's window,
`ScrdownShows`, `LfShows`, `TabShows`, `InsertCharShows`, ...). `Follows` relates two displays by the
steps of `Terminal`; `CsiFollows` and `ControlFollows` collect the procedures, `FollowsIsNext`
turns the relation into a step of `Terminal`.

`csi_L`, `csi_M`, `csi_P` and `csi_at` repeat a step; `Terminal` moves by n at once. That this is the
same for every n is an induction over n: `UpTo` takes the smallest number for which it fails (the
library's `WFMin` is about a set, so it needs no operator), `ChainExists` makes the sequence of
displays, and `TimesInsertLine` and its three likes say that `Times` computes its last.

`CurrentMayRun` of `Sched` and `TypeOK` and `OnlyWritesChangeMemory` of `Memory` are proved for every
instance and in no run.

`TtyProofs` proves for every set of processes, every ring of at least two cells, every width of the
screen and all strings and keys of the alphabet: `TypeOK`, `WrittenIsShown`, `EchoIsTheLine`, the last
with the limits `row.whole` states. Assumptions are `SizeAssumption`, `InputAssumption` (at least one
column, and what a string and a key consist of) and `ProcAssumption`, which keeps processes apart
from the marks `"echo"` and `"none"` of the cells. `MaxBacklog` and `AfterRace` are arbitrary. The
invariant `Inv` is:

- `Types`, and `OneRuns`: only the running process is inside the kernel.
- `Registers`, unless `raced`: what the running process has loaded is still what it loaded, the
  number of characters it has left to take is that in the queue, and the queue is empty when
  nobody is at it. A key that comes between such a load and its use is what `raced` is about.
- `Shown`, unless `raced`: there is a `Run`, a sequence of marks that leads from what the screen
  shows of the running process, character by character through the queue, to what it has sent;
  no echo is left in the queue; what the others have sent is shown. A mark says also what has
  appeared last: while `cr_flag` is set the last mark is a carriage return, or that and an echo
  (`Flow`). The queue is taken as it will be once the index is stored (`Queue`), so between a
  character and its `INC(head)` or `INC(tail)` nothing is lost from sight.
- `Fits`: while the line is whole, the echo cells left of the cursor are those of the line in
  `secondary`, and there are no more of them than columns left of the cursor.

Neither property is inductive without the queue: what has been shown says nothing about what is
about to be. `RunTake` and `RunPut` are a character's leaving and coming, over positions that go
round the ring (`Pos`, `Dist`). The interrupt is one step that runs loops: `con_write` empties the
queue, ^U erases a line, `copy_to_cooked` takes character by character. Each is shown to be a `Chain` of
single steps (`ConWriteIs`, `KillLineKeeps`, `CopyToCookedKeeps`), and an induction over its length
(`UpTo`, `ChainKeeps`) carries the invariant through. `EraseCharKeeps` is where the echo of a
DEL must be as wide as the character it erases, and `CellsRestart` where a line begins anew.

`Inv` itself is not evaluated by TLC (`Run` asks for a function on unbounded numbers); run `tty`
checks the three properties that follow from it.

Only model-checked: the liveness properties (liveness is out of the prover's reach):
`RunnableTaskRuns`, `SleeperIsWoken`, `RequestEnds` and `WriteReturns`.

## 6. Not modelled, and the plan

- **Kernel malloc**: nothing calls `kmalloc()` or `kfree_s()`, and each is one `cli .. sti`
  section; without callers there is no interleaving to check.
- **Mount points, pipes, floppies**: `i_mount` and `i_pipe` are never set, and no floppy driver is
  registered, so `invalidate_inodes`, `invalidate_buffers`, `check_disk_change`, `put_super` do
  not happen; `read_super` runs once, before a second process exists.
- **`free_block` with the buffer in use, and the walk over indirect blocks**: no code here
  reads or writes the data of files, so who else would hold such a buffer is not said.
- **The self-wait of `write_inode`** (`bread` -> `getblk` -> `sync_dev` -> `sync_inodes` -> the lock it
  holds): it needs every free buffer dirty; `InodeTable` uses the cache by its promise.
- **Hash chains of the buffer cache**, scan code tables, attributes, the bell, `respond()`:
  sequential data handling.
- **printk, vsprintf, panic, traps, boot, libraries**: straight-line code.

Planned: the driver as an implementation of `BlockLayer`'s `Start`, `Move` and `Interrupt`.

## 7. Reproducing

    tlc -workers 2 -config MCSched.cfg MCSched
    tlapm SchedProofs.tla
    tlapm MemoryProofs.tla
    tlapm InodeProofs.tla
    tlapm TtyProofs.tla
    tlapm BufferProofs.tla
    tlapm BlockProofs.tla
    tlapm HardDiskProofs.tla
    tlapm ConsoleProofs.tla

and likewise for the other configurations.
