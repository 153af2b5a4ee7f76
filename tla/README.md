# LightOS: TLA+ verification project

LightOS is a 32-bit x86 kernel with processes, signals, a block layer with a
buffer cache, a minix file system, pipes and terminals. This directory holds
TLA+ models of its core, the TLC configurations that check them on small
instances, and TLAPS proofs of what is proved for every instance. Paths below
are relative to the repository; `PROJECT.json` maps every definition to the
source lines it models.

1. The system and its components
2. Modules and how they correspond to the code
3. Runs: what is checked, bounds, fairness
4. Proofs
5. Where the code and its documents disagree
6. What is not modelled, and the plan

## 1. The system and its components

One processor. A task enters the kernel through the system call gate, an
interrupt gate, so kernel code runs with IF clear: it is atomic up to the
points where it gives up the processor (`task_block`, `schedule`, and what
calls them: a mutex, a device wait, a sleep). Interrupts arrive while a task
is in user mode, and in the loop of `idle`, which calls `schedule()` with IF
set. All hard behaviour of this kernel
is therefore about **what may happen between going to sleep and waking up**,
about **interrupt handlers that change the state of a task that is not
current**, and about **words that wrap**.

| Component | State | Operations | Interacts with | What makes it correct |
|---|---|---|---|---|
| Scheduler: `kernel/task.c`, `schedule.c` | `task_list`, `task->state`, `current`, `ticks` | `schedule`, `switch_to`, `task_block`, `task_unblock`, `idle` | everything that sleeps | no process but current is RUNNING; every READY task runs |
| Mutex: `lib/mutex.c` | `value`, `waiters` | `mutex_lock`, `mutex_unlock` | arena, cache, IDE, keyboard and serial line | exclusion; the queue is exactly the sleepers; no wakeup lost |
| Processes: `kernel/task.c`, `signal.c` | `ppid`, `sid`, `waitpid`, `signal`, handlers | `fork`, `exit`, `waitpid`, `sleep`, `kill`, `signal`, `setsid`, delivery in `interrupt_exit` | timers, file system (in `exit`), terminals | the tree has no orphans; who has left sys_exit dead stays so until reaped; assertions hold |
| Clock and timers: `kernel/clock.c`, `timer.c` | `jiffies`, `timer_list`, `beeping` | `clock_handler`, `timer_add`, `timer_remove`, `timer_wakeup` | scheduler (slices), sleeps, speaker | timers run at their tick, each once; slices never empty |
| Block devices: `kernel/device.c`, `ide.c` | request lists, direction, controller lock, waiter | `device_request`, `do_request`, PIO, `ide_handler` | mutex, cache | one transfer per controller; one request served per disk; requests move on |
| Buffer cache: `kernel/cache.c` | hash table, free list, wait list, counts, dirty and valid bits | `getblk`, `bread`, `bwrite`, `brelse` | block devices, file system | one buffer per block; counts exact; contents current; changes reach the disk |
| Ring and pipe: `lib/kfifo.c`, `fs/pipe.c` | ring, `rxwaiter`, `txwaiter`, counts | read, write, close | files, fork | a FIFO queue; no lost wakeup; freed with the last end |
| Terminal input: `kernel/keyboard.c`, `serial.c`, `tty.c`, and `buildroot/lsh.c`, which uses it | modifiers and locks, rings, one waiter per device, read locks, foreground group | scan codes, `tty_rx_notify`, `keyboard_read`, `serial_read`, `TIOCSPGRP` | signals, mutex, ring | no wakeup lost, locks outlive nobody; a kept key is read; Ctrl-C reaches the job and only the job |
| Console: `kernel/console.c` | cursor, origin, escape automaton | `console_write`, scrolling | timers (BEL) | the cursor stays on the screen |
| Kernel heap: `lib/arena.c` | arenas, free lists | `kmalloc`, `kfree` | page memory | a block is never given out twice; arenas are returned when empty |
| Page memory: `kernel/memory.c`, `lib/bitmap.c` | `memory_map` counts, page tables, `kernel_map`, `vmap`, `brk` | `get_page`, `put_page`, `copy_pde`, `page_fault`, `brk`, `mmap`, `munmap` | fork, exit, waitpid, execve | counts equal mappings; copy on write separates the processes; kernel pages come back once |
| File system, blocks and inodes: `fs/bmap.c`, `inode.c`, `super.c` | bitmaps, inode table, mounts | `balloc`, `ialloc`, `bmap`, `iget`, `iput`, mount | cache | a block belongs to one file; inode counts exact |
| File system, names and files: `fs/namei.c`, `file.c`, `stat.c`, `dev.c`, `ioctl.c` | directory entries, link counts, `file_table` | open, close, read, write, link, unlink, mkdir, rmdir | inodes, devices, pipes | link counts equal entries; open files keep inodes |
| Program loading: `kernel/execve.c` | the image of a task | `sys_execve` | files, memory | a failed load leaves the task as it was |
| Shell: `buildroot/lsh.c` | the job in the foreground | `readline`, `builtin_exec`, SIGINT handler | terminal, fork, waitpid | Ctrl-C ends the job and not the shell |
| Boot, descriptors, real time clock, ramdisk, C library, other user programs | | | | straight-line set-up and sequential text processing |

Hard behaviours, listed line by line under `hazards` in `PROJECT.json`:
interleavings at every sleep (mutex, cache, device, pipe), stale wakeups (a
timer or an interrupt that wakes a task out of a later wait), the order of
exits, kills and reaping, a dead task that sleeps once more in `sys_exit`, an
interrupt inside the `switch_to` of idle, blocks given out with old contents,
lists and tables at their limits, the arithmetic of `jiffies`, and long
sequences of calls that keep counts by hand: references to pages, inodes, files
and directory entries. The list has the forty that matter most; what else was
met on the way is in sections 5 and 6.

## 2. Modules and how they correspond to the code

```
Sched ── Mutex ── MCMutex
  ├───── Process ── MCProcess
  ├───── Clock ── MCClock
  ├───── Device ── MCDevice
  ├───── Cache ── MCCache
  ├───── Terminal ── MCTerminal
  └───── Pipe ── MCPipe            Fifo            <= refined by Pipe
           └── Kfifo
Memory ── MCMemory                 AddressSpaces   <= refined by Memory
Files ── MCFiles

SchedProofs ── MutexProofs, PipeProofs, TerminalProofs, ProcessProofs,
               CacheProofs, ClockMemoryProofs (Clock and Memory),
               StorageProofs (Device and Files)
```

* **Sched**: `schedule()` and `switch_to()` as operators on the table of task
  states. `Schedule(st, cur)` is the round robin with slot 0 skipped and idle
  as last resort; `SwitchTo` is the state change of `switch_to`, with its
  assertion as `SwitchAllowed`. All other modules reschedule through them, so
  the model contains the kernel's scheduling order and not an arbitrary one.
  The test of `ticks` in `schedule` is left out; module Clock checks that it
  never matters (`SlicesNeverEmpty`). In all modules but Process the
  `schedule()` of idle is one step as well, although an interrupt may come in
  the middle of it: these modules have a processor that idle gives up at once.
* **Mutex**: `mutex_lock`, `mutex_unlock`, `task_block`, `task_unblock`, one
  action per instruction sequence that cannot be interrupted. `Preemptible`
  chooses between the kernel's use (IF clear) and use with interrupts on.
* **Process**: one action per system call and per part of `sys_exit` between
  two sleeps; `Iret` is `task_signal` on the way back to user mode; `ClockTick`
  is the clock interrupt with its expired timers; `DeviceInterrupt` a driver's
  wakeup. `Calls` selects the system calls of an instance, `ExitBlocks` whether
  releasing files in `sys_exit` may find a dirty block to write. A timer is its
  task, its handler and the ticks it has left. Of the 31 signals three are
  kept: the hangup, the child signal, which is ignored by default, and one that
  programs send to each other. An assertion or panic of the code sets `panic`
  and nothing happens after it. A task that sleeps in `sys_exit` is BLOCKED,
  then READY, and comes back; its sys_exit ends with a state other than DEAD,
  returns to a program without a page, and the fault calls sys_exit again
  (`ExitAdopt`). The loop of idle is four steps (`IdlePick`, `IdleDemote`,
  `IdleSwitch`, `IdleLoad`, with `idleAt` and `target`), and interrupts come
  between any two. Between the assignment of `current` and the load of its
  registers an interrupt runs on the stack of idle in the name of another task
  (`InLoading`); where that goes on to switch or to deliver a signal, the model
  stops (`two_stacks`).
* **Clock**: the same interrupt with its arithmetic: `jiffies` and `expires`
  are words of `W` bits, the sort of the timer list compares them as signed
  words, `ticks` are counted and refilled. `now` and `due` are history
  variables, numbers that do not wrap, that say what was asked for.
* **Device**: `device_request` and its elevator above the PIO driver, with the
  controller's mutex (its semantics that of Mutex with interrupts off, in one
  step) and its single waiter. A read and a write have the same control. Raw
  reads of a block device, which do not go through the request list, compete
  for the same controller.
* **Cache**: `getblk`, `bread`, `bwrite`, `brelse` with every sleep. A task has
  one buffer at a time. In the file system an inode in use also keeps the buffer
  of its descriptor (`inode.c:108`), so tasks may hold buffers while they wait
  for one in get_free_cache, and wait for each other; that is not in the model.
  A block's contents are the number of the modification that made them, `latest`
  is a history variable. `room`, chosen at the start, is how many buffers fit in
  the memory of the cache: a behaviour has a buffer for every block, or has to
  recycle. The device is abstracted to a request that ends at some later time; a
  write takes what the buffer held at the start or at the end.
* **Terminal**: the two input drivers with their rings, waiters and read locks,
  the line discipline, and the programs that share them. A task is at a point
  `at` of its program (`Script`, the system calls of `lsh` and of a job it
  starts, in order) and at a point `pc` of the kernel. A key is a make or break
  code: modifiers, the extension code and the two locks decide on its
  character, and under ctrl it goes through `tty_rx_notify`. The ring is the
  sequence of its characters, which is what Pipe shows of it. Process groups,
  the part of signals that Process leaves out, are here, with SIGINT alone.
  A job may fork, its children are jobs like it, and each of them may read
  the keyboard or the serial line. `unreached` is a history variable: who was in
  line for a lock, or at the serial line, when Ctrl-C was pressed.
* **Memory**: physical pages with their counts, one page table entry per page of
  a small image (text, data, heap, stack, mmap area), two page tables, and the
  kernel pages of a process. The helpers of `memory.c` are operators from the
  record `m` to the next one and compose as the calls do. A system call is one
  action; execve is one per read of the file, because it sleeps there. Store and
  fault are separate, as they are on the processor. `m.free` counts the pages
  above `KERNEL_MEM_SIZE` only, while `free_pages` also counts kernel pages:
  nothing reads it but the test in `sys_brk`. An exit leaves a process dead, or
  asleep in iput or sys_close with its pages already given back (`exiting`);
  when that one is switched to, on a page directory that may belong to somebody
  else by now, the model ends (`ExitResumes`). The temporary mappings of `kmap`
  and the TLB are left out. **AddressSpaces** is the abstract specification:
  every process that is alive has a memory of its own, a store of one is seen by
  another only in pages both have mapped MAP_SHARED, fork copies and exit leaves
  nothing (`Isolated`). The promise ends at a panic (`up`).
* **Files**: bitmaps, inodes on disk and in memory, directories with their
  entries, super blocks and mounts, `file_table` and the descriptors, and the
  inodes that a task holds. The helpers (`balloc`, `bmap`, `iget`, `iput`,
  `find_entry`, `add_entry`, `named`, `namei`, `inode_truncate`...) keep their
  names. `fs.stale` is what a block that is not in use would give as its first
  index: nobody clears a block, and `NewIndexes` takes what a new block of
  indexes holds for an index of the file, as bmap does. A system call is one
  action: on the RAM disk no request blocks, and above IDE it is so as long as
  the blocks are cached. Contents of files are left out, offsets and sizes count
  blocks, the standard streams (descriptors 0 to 2, which execve keeps) are left
  out, modes allow everything (what `permission` still refuses is an inode
  without links), and of the devices that `dev_init` creates the node of the
  last one is kept. `Programs` are sets of calls and path names; each behaviour
  is of one of them. A program says which **risks** it takes, five things after
  which the code is known to go wrong (section 5): the passing run takes one of
  them, `open_unlink`. A block of indexes that was used before cannot be avoided
  by a program that writes long files; one that does not take the risk
  `stale_index` ends there.
* **Kfifo** and **Pipe**: the ring with its `size - 1` usable bytes as
  operators that keep the code's names, and the two loops over it, with
  `rxwaiter` and `txwaiter`, and `put_pipe_inode` at the last close. **Fifo**
  is the abstract bounded queue they implement (`IsFifo`).

The `MC*` modules give constants their values; they replace no definition.
Definitions that no `Next` uses and whose names say what is wrong with them
(`BlockNoRetry`, `InsertLast`, `WakeNobody`...) are plausible bugs: put in place
of the definition that follows them, each makes the property it is listed with
in `PROJECT.json` fail.

## 3. Runs

`tlc -config X.cfg M`, with `X` and `M` from the table.

| Run (cfg, module) | Checks | Shows |
|---|---|---|
| mutex (MCMutex, MCMutex) | MutualExclusion, WaitersAreAsleep, NoLostWakeup, WaitersMakeProgress, deadlock | Four tasks on one mutex, interrupts off, with device waits inside the critical section |
| process_tree (MCProcessTree, MCProcess) | OneRunning, FamilyTree, NoExitPanic, WaitedFirstIsReaped, ZombieUntilReaped | fork, exit, waitpid, kill, signal, setsid in any order, slots and pids reused, exits that sleep, interrupts inside idle's switch_to |
| process_sched (MCProcessSched, MCProcess) | DeviceWaitsAreExact, SleepersHaveTimers, SleepEnds, ReadyRuns | fork, sleep, read, yield, beep and exit; round robin is fair |
| clock (MCClock, MCClock) | SlicesNeverEmpty, NoLateTimer, NoEarlyWakeup | sleeps end at their tick, neither early nor late, while jiffies is below the sign bit |
| device (MCDevice, MCDevice) | OneTransfer, OneServed, DisksMakeProgress, deadlock | two disks on one controller, requests and raw reads |
| cache (MCCache, MCCache) | FreeIsUnused, HoldersSeeLatest, NoBufferWasted | three tasks, two blocks, room for one or for two buffers: recycling, waiting, and what readers see |
| pipe (MCPipe, MCPipe) | SleepersAreKnown, IsFifo, CallsReturn | one reader, two writers that inherited the write end |
| terminal (MCTerminal, MCTerminal) | ReadersAreKnown, ReadLocks, KeysAreRead, CtrlCEndsJob, deadlock | the shell, its job and a child of the job at a keyboard and a serial line, keys and Ctrl-C at any moment |
| memory (MCMemory, MCMemory) | MapCounts, WritableIsPrivate, KernelPagesOwned, Isolated | two processes, every sequence of fork, store, fault, exit, waitpid, execve, brk, mmap and munmap |
| files (MCFiles, MCFiles) | ZonesExact, LinksExact, InodesCounted, FilesCounted, AssertionsHold | names, open files, processes and mounts, one program each |
| process_kill_sleeper (MCProcessKillSleeper, MCProcess) | NoExitPanic, violated | section 5 |
| memory_three_sharers (MCMemoryThreeSharers, MCMemory) | CowAssertHolds, violated | section 5 |

The TypeOK of a module says what its variables range over and is what proofs
start from. It holds in every passing run (`INVARIANT TypeOK`) and is left out
of the configurations, where each property is about something the code could
get wrong.

**Bounds.** Slot 0 is idle, so `TASK_NR = 4` gives three tasks: the least number
with a third party that can run between a wakeup and the woken task's next step,
and with which an unfair scheduler can starve somebody. The mutex has four, so
that its queue holds two while a third task holds the lock and a fourth comes
in. `process_tree` reaches grandparent, parent and child, and the reuse of a
pid, and exits that sleep twice. `Shells` is the one task that calls signal,
setsid and beep, so that there are tasks with and without a handler and a
session of its own. `MaxTimers = 2` in `process_sched` gives a list that can be
out of order; process_tree has no timers. `Durations` and `Delays` have two
different values or more, so that the order of insertion and of expiry differ.
In `clock`, `W = 4` and `Uptime = 5` keep every expiry that a later tick looks
at (at most 4 + 3) below the sign bit, 2^3; that the sort goes wrong past it is
in section 5. `Secs = 2` gives a first and a last sector; two indices give the
elevator two directions. `MaxWrites = 1` and versions 0 and 1 tell a stale
buffer from a current one. `BufSize = 3` and calls of up to three bytes make the
ring wrap, fill and empty within one call.

In `terminal` three tasks are the shell, a job and a child that the job forked,
which is what it takes to have two readers in line for either device, a reader
killed by Ctrl-C, and a group with a member that is not the job; the child of a
job that has ended becomes a child of the shell. `Keys` has a letter that is also
the interrupt key, the key that completes a line and the modifier; `Extended` are
the keys that also come with the extension code. `BufSize = 3` gives rings of two
characters, which overflow.

In `memory` two processes are enough for every pair of sharers (three are a run
of their own), `NFrame = 10` is two below what two unrelated images with their
page tables take, so that running out of pages happens and is not all that
happens, and `NKpage = 12` makes room for the argument pages of execve or ends
in the panic. TLC compares states by `Shape` (a VIEW): the number that a
physical page has decides nothing, because every property and every guard looks
at counts, contents and who shares a page, all of which Shape has; and the page
that is allocated next is always one nobody refers to.

In `files` the second device starts without a file system. Directories of two
blocks of three entries make one of them grow past its first block; files of
one direct and one indexed block reach both branches of bmap; `NFile` is smaller
than the descriptors of two tasks. `MaxCount = 4` bounds how often a walk through
something that is no directory may leak an inode (section 5). Each program is
checked for all sequences of its calls, without a bound on their length.

**Deadlock** is checked in `mutex`, `device` and `terminal`. Elsewhere the model
may stop: at a panic or a failed assertion of the kernel, at the bound on time,
or when every pipe end is closed.

**Fairness.** The current task executes its kernel code (weak fairness; in user
mode it need not make system calls). The PIT goes on ticking and a device that
was given a command interrupts; the 8259 latches a request that arrives while
IF is clear and delivers it when interrupts are next on. Interrupts are
enabled only now and then in these models, hence strong fairness for the clock
and the device handlers. In Process, which does not count ticks, the fairness
of `ClockTick(TRUE)` says that slices end: clock_handler charges the current
task at every tick and reschedules at 0, which module Clock does count. In
Terminal nobody has to type and no program has to make its next call; only the
clock (strong fairness: the keyboard must not keep it away for ever, the PIC
gives IRQ 0 the highest priority), the loop of idle and the kernel code of the
current task go on.

Some properties hold only under a condition that the passing runs meet and
section 5 drops. `NoExitPanic` and `DeviceWaitsAreExact` hold as long as nobody
is killed out of a sleep: neither passing run of Process has both kill and
sleep, and with both the stale timer appears (`process_kill_sleeper`).
`HoldersSeeLatest` holds as long as there is a buffer for every block, which it
says itself. `Isolated` is about the stores of programs, and about mmap without
an address. The properties of Files hold for programs that take none of the
risks, and `open_unlink` alone; up to the first block of indexes that was used
before. KernelPagesOwned and the rest of Memory hold until a task that slept in
sys_exit comes back.

## 4. Proofs

`tlapm XProofs.tla` checks the proofs of one of the eight modules. Seven extend
SchedProofs and the module they are named after; ClockMemoryProofs extends Clock
and Memory, StorageProofs extends Device and Files, which is why the definitions
of Clock and Files have names of their own (`ClockSpec`, `FilesSpec`,
`FilesInit`...). A theorem holds for every
number of tasks, blocks, keys... that the ASSUMEs of its module allow; the
hypotheses that some of them have besides are named below. TLC also finds each
inductive invariant true on the instance of the run that checks its property
(`Descent` with ranks up to `TASK_NR`, since TLC cannot enumerate Nat).

| Module | Theorem | States | Inductive invariant |
|---|---|---|---|
| MutexProofs | MutexExcludes, WaitersAreExact, NoWakeupIsLost | MutualExclusion, WaitersAreAsleep, NoLostWakeup | ExclusionInv, QueueInv, WakeupInv |
| ClockMemoryProofs | ClockSlices, ClockNeverEarly, ClockNeverLate | SlicesNeverEmpty, NoEarlyWakeup, NoLateTimer | SliceInv, DueInv, OrderInv |
| ClockMemoryProofs | MemoryMapCounts, MemoryWritableIsPrivate, MemoryKernelPages, MemoryIsolatedButKernel | MapCounts, WritableIsPrivate, KernelPagesOwned, and every step a step of AddressSpaces or a `KernelStore` | MemInv, CowInv, KernelInv |
| PipeProofs | PipeLosesNoWakeup, PipeIsFifo | SleepersAreKnown, IsFifo | PipeInv |
| StorageProofs | DeviceOneTransfer, DeviceOneServed | OneTransfer, OneServed | DeviceInv |
| StorageProofs | FilesFilesCounted, FilesInodesCounted, FilesZonesExact | FilesCounted, InodesCounted, ZonesExact | FilesInv, Enough, ZonesInv |
| TerminalProofs | TerminalLosesNoWakeup, TerminalReadLocks | ReadersAreKnown, ReadLocks | ReadInv |
| ProcessProofs | ProcessOneRunning, ProcessTree, ProcessSleepersHaveTimers, ProcessZombieUntilReaped, ProcessWaitedFirstIsReaped, ProcessDeviceWaits, ProcessNoExitPanic | OneRunning, FamilyTree, SleepersHaveTimers, ZombieUntilReaped, WaitedFirstIsReaped, DeviceWaitsAreExact, NoExitPanic | ProcInv, with TimersNeeded, ForkedIsChild or Undisturbed |
| CacheProofs | CacheFreeIsUnused, CacheNoBufferWasted, CacheHoldersSeeLatest | FreeIsUnused, NoBufferWasted, HoldersSeeLatest | CacheInv, FreshInv |

**SchedProofs** has what all of them need. `schedule()` returns a slot, switches
only to a READY task or to idle, keeps the task states in their type, and
neither blocks nor unblocks anybody. Lists: what Append, Tail, insertion at a
place and removal at a place do to the elements of a list and to its having
none of them twice. `MinExists`, `MaxExists` and `PlaceInduction` are induction
over the places of a list, stated of a set of places and not of a predicate,
so that they can be cited.

**Mutex**, for every number of tasks (from `TASK_NR \in Nat \ {0}` and
`Preemptible \in BOOLEAN`):

* `MutexExcludes`: `Spec => [](TypeOK /\ MutualExclusion)`. The conjunction is
  inductive as it stands (`ExclusionInv`): `value = 1` exactly when some task
  is in the critical section, and only the cmpxchg that saw 0 lets one in.
* `WaitersAreExact`: `Spec => []WaitersAreAsleep`. Needs `CurrentAwake`, the
  running task and idle are never BLOCKED (`QueueInv`): otherwise a task on the
  list could queue itself a second time. Two lemmas say what Append and Tail do
  to a list without duplicates.
* `NoWakeupIsLost`: `~Preemptible => (Spec => []NoLostWakeup)`. Needs
  `BlockersSeeLock`: a task between its failed cmpxchg and task_block is the
  one that runs and the mutex is still taken (`WakeupInv`). This is the only
  theorem that needs interrupts to be off, and with `Preemptible = TRUE` TLC
  finds the lost wakeup (section 5).

**Clock.** `ClockSlices` justifies that Sched and every other module leave the
test of `ticks` out of `schedule()`. `SliceInv`: every task but the current one
has a slice of at least one tick. The other two compare what the code computes
in words with the history variables `now` and `due`, which do not wrap.
`DueInv` says that the words are those times, under `FitsWord`: no expiry of
the instance needs more than a word. `OrderInv` adds that the list is sorted by
the times that were asked for, under `FitsSigned`: no expiry that is still
compared with another reaches the sign bit, 2^31 ticks of uptime in the kernel.
MCClock meets both; without them the properties fail (section 5). The provers
have no rules for `^`, so `WordAssumption` states the three facts about 2^W that
the proofs use; TLC evaluates it.

**Pipe.** `PipeInv` adds to SleepersAreKnown who may be in which call with bytes
left, and that the inode's count is right while ends are open: the last close
frees the ring, and a call on a freed ring would break everything. `PipeIsFifo`
is the refinement, for every size of the ring, wrap-around included: lemmas
say what `kfifo_put` and `kfifo_get` do to the sequence of bytes between tail
and head.

**Device.** `DeviceInv`: the controller is locked exactly while a task moves
sectors (`LockHeld`); the list of its mutex has each sleeper once (`LockQueue`);
who has a request in a list is between the two halves of device_request for
that disk (`RequestsInProgress`); and of the tasks with a request for a disk
exactly one is awake in it (`Served`). OneServed is `Served` with a cardinality
in place of exactly one.

**Terminal.** `ReadInv` says of the two read locks that they are held by exactly
the task inside the read and that whoever queues is asleep, with the fact that
a task killed by Ctrl-C leaves nothing in the kernel (`TasksSane`).

**Process.** `ProcInv` has the type invariant, who runs (`TasksSane`), that init
lives, the family tree, and for every task in `sys_exit` how far it is. Idle is
the exception of TasksSane: an interrupt inside its switch_to may leave it
RUNNING while another task is current. FamilyTree
alone is not inductive: an exit hands its children to its parent, and were a
task its own ancestor it would hand them to itself. `Descent` excludes this: some
rank decreases from child to parent. `TimersKnown`: the list is sorted and has
timers only of tasks that have not yet passed timer_remove.
* ZombieUntilReaped rests on where a DEAD task can be: it has left sys_exit, or it
  is current and in it, and a wakeup only reaches a task that waits for its
  device, sleeps or waits. WaitedFirstIsReaped adds `ForkedIsChild`. Both hold
  with and without exits that sleep.
* DeviceWaitsAreExact and NoExitPanic are proved under `NobodyWokenEarly`: not
  both kill and sleep are among `Calls`. Then every timer of a sleep belongs to
  one sleeping task (`SleepTimersExact`), no tick changes the state of current
  (`CurrentRuns`) and nothing but the device ends a device wait. The two calls
  together are exactly what `process_kill_sleeper` needs for its violation; the
  theorem says that there is no other way to it.
* The others need no hypothesis.

**Cache.** `CacheInv` is about every state before a panic: the count of a buffer
is the number of its holders, the free list has the buffers without holder,
each once, and the lists of waiting tasks have each sleeper once. For
NoBufferWasted it counts: while tasks wait, there are as many tasks on their way
to take a buffer or to wake somebody (`Wakers`) as there are free buffers.
"Some task" in place of the count is not inductive: two buffers may be free and
the one waker takes one of them. `FreshInv` is about behaviours with room for
every block: then a miss always finds room (a pigeonhole argument over the
blocks in the table), so no buffer is taken away; each block has one buffer, it
is read once, under its mutex, before anybody holds it, and the latest contents
are in it or, if it was never read, on the disk.

**Memory.** The helpers of `memory.c` take one memory to the next and compose, so
the invariant is stated of a memory `x` and there is one lemma for each helper:
a new page table, a new page, a page given back, an entry with other rights, and
what loops of them do. `MemInv` is `Base` (the counts are right, a page that is
there has a page table, and page tables are apart from pages) in every state,
and before a panic `Tidy` (an entry without a page has no rights) and `OnlyLive`
(only a process that lives has memory).
* `MemoryMapCounts` needs nothing else.
* `MemoryWritableIsPrivate` adds `CowInv`: who can write a page that is not
  MAP_SHARED has it alone, and two users of a page have it at the same place
  (`Cow`); the pages of the mmap area that are there are marked in `vmap`
  (`MarkedAt`), so that mmap hands out none of them; and execve loads into a page
  of its own (`LoadingAt`). It assumes `FixedMmap = FALSE`: mmap at an address in
  use sets new rights on a page others may share (section 5).
* `MemoryKernelPages` rests on `KernelInv`: which of its three pages a process has
  at which point of its life (one that sleeps in its exit has its PCB only), and
  that no two of them are the same.
* `MemoryIsolatedButKernel` is the refinement of AddressSpaces, each action a step
  of the abstract specification or a stutter, except a `KernelStore`: the kernel
  takes no fault on a read-only page and writes through copy on write (section
  5). Every other store, of a program or of the kernel, writes a page of which
  `CowInv` says who sees it. There is no assumption on `Modes`; without stores of
  the kernel the statement is `Isolated`, which the run checks.

**Files.** `FilesInv` has the shapes of the tables and that every file counts its
descriptors; it is inductive for every program. The second theorem compares two
numbers that change in different helpers: the count of an inode, and the
pointers to it that tasks, files and super blocks have. Every helper gets a
lemma of the same form, `Moves(j, f, g, n)`: it takes the file system f to g,
leaves the super blocks alone and counts inode j at least n times more, or
stops the kernel. `iget` and `named` move what they return by one, `iput` by
minus one, `Down` exchanges one for the other; composed along the control of a
call, error paths and crossings of mount points included, mkdir, rmdir, link,
unlink, mknod and stat move nothing. `Tallies` is the same for mount, umount
and mkfs, which change super blocks; open, close, chdir, fork, exit and execve
move exactly what the tables change. `Enough`, the invariant with the uses as
one sum, then follows step by step. The path walk and the loop of `sys_close`
in exit and execve are recursive functions over the places of a list, for which
`PlaceInduction` is enough.
* `FilesFilesCounted` needs no assumption on the programs.
* `FilesInodesCounted` is for programs without the risk `bad_image`: an execve
  that fails after fork_clean leaves `iexec` at an inode it has given back
  (section 5). The other four risks do not disturb it.

`FilesZonesExact` is about the disk. ZonesExact is not inductive: new_inode does
not clear `zone[]`, so what it takes over counts as the blocks of the new file,
whatever they are. `Sound` adds what makes that harmless:
* `Clean`: an inode of a type other than file, directory or node has no block,
  and a node is marked used and is not inode 1, so that ialloc gives out no inode
  with a device number in it. The inode of a removed file stays of its type
  without blocks, or with those an open descriptor has written since; they are
  still its own and marked, and whoever gets the inode gets them with it.
* `Rooted`: what a mount point leads to is inode 1 of a device with a file system,
  the super block and the mount point know each other, and the mount point is no
  device node. Without it a path could end in an inode that is not there, and
  mkdir would take a block for it.
* `Based`: the root and the working directory of a task are no device nodes.
* `Fresh`, only for programs that call mknod: what is not marked was never used,
  since a node must not be made in an inode that has blocks.

`Steady(m, f, g)`, for a program with the calls m, says of a helper that it
leaves a sound file system sound and every holder of blocks a holder, or stops
the kernel. Most helpers change only counts (`Same`, composed along the path
walk); FillZone, inode_truncate, new_inode, ialloc, the entries and the super
blocks have a lemma each. `ZonesInv` then follows call by call. The theorem is for
programs that take none of the risks `node_unlink`, `reformat` and `stale_index`,
and do not both make device nodes and remove names; all four programs of the run
are of that kind. What it says ends with the first block of indexes that was used
before: there the file names a block that the bitmap says is free. The first two
risks refute ZonesExact (section 5), and so does mknod with
`open_unlink`. For mknod with unlink or rmdir and no risk no theorem is stated.

**Only model-checked:**

* Liveness under fairness: WaitersMakeProgress, ReadyRuns, SleepEnds,
  DisksMakeProgress, CallsReturn, KeysAreRead, CtrlCEndsJob. Out of this
  prover's reach.
* LinksExact and AssertionsHold (Files). Each needs the other: what unlink frees
  is right if the links are, and a bitmap assertion holds if what is freed was in
  use. Their inductive invariant also has to say who names and who still holds an
  inode whose last name is gone, for calls that pass a dozen helpers and have
  half made or half removed a name in between; and LinksExact counts the places
  of a number in the entries of all directories of a device, where a rmdir
  clears an entry, drops a directory and lowers the links of its parent in
  three different helpers.

## 5. Where the code and its documents disagree

Runs that show a violation:

* **A killed sleeper keeps its timer** (`process_kill_sleeper`). `sys_kill`
  makes a SLEEPING task READY without `timer_remove`. When the timer fires the
  task may be running: it becomes READY while it is current, and if it is on
  its way to `sys_exit`, the assertion `state == TASK_RUNNING` (`task.c:405`)
  stops the kernel. With a handler installed the same timer wakes the task out
  of a later device wait, against `device.c:188`.
* **Three users of a page** (`memory_three_sharers`). `page_fault` asserts that a
  page it copies has exactly two users (`memory.c:733`), although the comment
  above it (`:719`) calls the case of more users solved. A process that forks
  twice and then stores, or whose child stores, stops the kernel.

The same models show, with other constants, further disagreements that are
listed here without a run of their own:

* Mutex, `Preemptible = TRUE`, NoLostWakeup: `mutex.c:25` and `:46` say that
  interrupts need not be off; a task preempted between the failed cmpxchg and
  task_block sleeps on a free mutex. No caller in the kernel does this today.
* Process, `WaitedChildIsReaped`: a parent sleeps in waitpid only while the child
  it waits for runs (LightOS_DevRecord.md:1835, `task.c:471`). The loop looks at
  the first child in the table only (`task.c:276`), so the end of another one
  wakes the parent, which goes to sleep again.
* Process, `ExitBlocks = TRUE`: `sys_exit` sets TASK_DEAD and then releases inodes
  and files (`task.c:408`); a dirty block makes it sleep in `task_block`, which
  replaces DEAD by BLOCKED, and the interrupt of the disk makes the dead task
  READY. `ZombieUntilReaped` without its `~Exiting(n)` is refuted in a few steps.
  The task then returns from sys_exit and exits a second time. In Memory it does
  so on a page directory that was freed and may be in use again (`ExitResumes`).
* Process, `SwitchesToReady`: "what can be scheduled is certainly a READY task"
  says the assertion of `schedule.c:62`. idle runs schedule() with interrupts on
  (`task.c:152`). It chooses a task; the clock interrupt comes, switches to that
  task, which goes to sleep; idle goes on where it was and fails the assertion.
  An interrupt two statements later saves the registers of idle in the task that
  idle was about to run (`two_stacks`).
* Terminal, `PromptOwnsTerminal`, with `TASK_NR = 5`, `Keys = {"enter"}` and
  `Sources = {}`: an orphan of an earlier job, itself a child of the shell now,
  sits in front of the new job. waitpid looks at the first child only, reaps the
  orphan, and the shell prompts; then the new job takes the terminal
  (`lsh.c:387`), and what is typed at the prompt is the job's to be interrupted.
* Terminal, `CtrlCEndsJob` without `unreached`: a member of the group that is in
  line for kb_mutex behind another reader, or reads the serial line, has SIGINT
  pending and sleeps on; `sys_kill` wakes nobody who is BLOCKED (`signal.c:84`),
  and the newline that stands for Ctrl-C goes to the one reader.
* Process: `task.c:50` says that `get_free_task` returns -1 for a full table; it
  panics (`ForkTableFull`). The timer that turns the speaker off
  (LightOS_DevRecord.md:3682) belongs to the task that wrote the BEL and goes
  with its exit: `beeping` stays TRUE and every later BEL is ignored. The end
  of a session is to end all its tasks (LightOS_DevRecord.md:3712), but a
  member that waits for a child only gets the bit set and is not woken.
* Clock, with `Uptime` past the sign bit: list_insert_sort compares as int
  (`list.c:104-108`), so a timer that expires after 2^31 ticks is put in front
  of earlier ones and delays them (NoLateTimer). At `jiffies = 0xffffffff`,
  `timer_expires() <= jiffies` is true of the empty list, EOF being the
  greatest word (`timer.c:53-58`, `:84`), and timer_wakeup runs the list tail
  as a timer (`panic` in the model).
* Device: `device.c:200` says FIFO; the elevator goes on serving requests that
  arrive at its place, and one at another place can wait for ever.
* Cache, `ReleasedIsWritten`: "strong consistency", written when released
  (LightOS_DevRecord.md:2177, `cache.c:179`). bwrite clears dirty after the
  device has slept (`cache.c:160`), and a change made meanwhile is marked clean.
* Cache, four tasks and two buffers for three blocks: after the sleep in
  get_free_cache the block is not looked up again, and two tasks that missed the
  same block give it two buffers (OneBufferPerBlock; LightOS_DevRecord.md:2154).
  brelse puts the buffer on the free list before it writes it, so that another
  task can recycle a dirty one, against the assertion of `cache.c:121` (`panic =
  "dirty"`). brelse wakes the task that came last, so the first of two waiters
  can wait for ever (LightOS_DevRecord.md:2165).
* Pipe, two readers: the second one to wait fails the assertion of
  `pipe.c:15`; after a fork both parent and child hold the read end.
* Memory, `Modes = {"user", "kernel"}`, Isolated: `enable_page` sets PG and not WP
  (`memory.c:176`), so a system call that stores into a buffer of the program,
  read or waitpid, writes through copy on write into the page of the other
  process, against LightOS_DevRecord.md:1800.
* Memory, `FixedMmap = TRUE`, Isolated: mmap at an address that is already mapped
  keeps the page and gives it new rights (`memory.c:846`); a page shared by copy
  on write becomes writable.
* Memory: `sys_brk` never links the pages it grants, and a fault outside the
  stack ends the task (MissingFault), so a heap that grew is never usable,
  against LightOS_DevRecord.md:1791.
* Files, `MountedWhileUsed`: umount asks how many inodes of the device are in
  use and always allows one, the root (`super.c:219`). A task that has changed
  its directory to the root of the device does not keep it mounted.
* Files, `reformat`, ZonesExact: mkfs on a device that had a file system keeps
  the `zone[]` of the old root inode while the bitmap says its blocks are free
  (`super.c:344`).
* Files, `stale_index`, AssertionsHold, with open, write, lseek and close on one
  path: balloc does not clear a block, and inode_bfree leaves the indexes in the
  block of indexes it frees (`inode.c:161`). A file that is written past its
  direct blocks, truncated and written again gets the block of indexes with its
  old index, a block that the bitmap says is free; truncated once more it fails
  the assertion of `bmap.c:67`, or, had the block been given to another file
  meanwhile, frees it there.
* Files, `node_unlink` with open, ZonesExact: the inode of a device node keeps
  the device number in `zone[0]` (`inode.c:170`), and the next file made in it
  takes that for a block. `open_unlink` together with mknod: the inode of an open
  file is freed by unlink and made a device node, and a write through the old
  descriptor uses its number as a block.
* Files, `bad_image`, InodesCounted: execve of something that is no ELF image
  gives the old `iexec` back and leaves the task pointing at it
  (`execve.c:281`); exit gives it back a second time.
* Files, without a property: a path through something that is no directory
  leaks its inode (`namei.c:216`; InodesCounted is therefore an inequality);
  is_dir_empty reads block 0 for every block (`namei.c:538`), so a directory
  that grew past one block can never be removed; "/" can be opened for writing
  and the write fails an assertion (`namei.c:386`).

## 6. What is not modelled, and the plan

* Boot code, descriptor tables, the real time clock, the ramdisk's copying,
  probing and partition tables of `ide.c`: registers and straight-line set-up.
* The console: cursor, scrolling and escape sequences change the screen and
  nothing else. Its BEL, which starts a timer, is in Process.
* The kernel heap: pointer arithmetic inside pages whose allocation is in
  Memory, never interrupted.
* The C library, the shell's parsing and builtin commands, and the other user
  programs: sequential text processing outside the kernel.
* The rwlock of `lib/mutex.c`, which only commented-out test tasks use,
  `timer_update` and the default timer handler, which have no callers, signal
  masks, and stack frames of signal handlers.
* Compositions: Cache above Device, and Files above Cache. Cache abstracts the
  device to requests that end at some time, which is what DisksMakeProgress and
  OneServed are about. Files makes a call atomic, so what may happen while one
  sleeps for a block is not in it: `bmap` reading an index out of a buffer it
  has released (`bmap.c:179`), and two tasks that find the same directory entry
  free (`namei.c:306`). Both are listed as hazards without a property.

Met on the way, and not stated as properties because the repository promises
nothing about them or because the model stops there as the kernel does: a signal
that interrupts waitpid is delivered only when a child has died (`task.c:285`); a
reader sleeps on a pipe whose write ends are all closed (`pipe.c:14`);
`mutex->value` is one byte that cmpxchg and dec treat as four (`mutex.c:28`);
page_fault maps two pages with kmap and never unmaps them (`memory.c:737`);
bitmap_scan returns EOF for a full mmap area, a full inode map and a full block
map, and nobody looks at it (`memory.c:832`, `bmap.c:41`; panics of Memory and
Files); a handler of SIGINT is one shot, and a second Ctrl-C before lsh has
registered it again ends the shell (`signal.c:159`; in the terminal run);
read_super keeps the super block of a device that has none (`super.c:79`); a
write after a seek past the end leaves a block whose read fails an assertion
(`namei.c:351`).

Theorems worth proving next: LinksExact, for programs that take no risk. The
blocks are proved, and `Steady` already follows every call; the names of one
inode, as a set of places, would take the place of its blocks, with one lemma
for each of add_entry, the clearing of an entry, and the two ends of a
directory. No module declares a RECURSIVE operator.
