-------------------------------- MODULE Cache --------------------------------
(***************************************************************************)
(* The buffer cache of kernel/cache.c: getblk, bread, bwrite and brelse    *)
(* over a hash table, a free list in order of release and a list of tasks  *)
(* waiting for a buffer.  Every call may give up the processor inside:     *)
(* waiting for a buffer, for the buffer's mutex or for the device.         *)
(*                                                                         *)
(* A task uses one buffer at a time: bread, then any of modify, bwrite and *)
(* other I/O, then brelse.  The file system does so with data and bitmaps, *)
(* but an inode in use keeps the buffer of its descriptor (iget): tasks    *)
(* that hold buffers while they wait for one in get_free_cache are not in  *)
(* this module.  A block's contents are the number of the modification     *)
(* that produced them.  pc[t]:                                             *)
(*   user, hold     outside; with its buffer, in the file system           *)
(*   free           in the loop of get_free_cache                          *)
(*   lock           at mutex_lock(&pcache->lock) in bread                  *)
(*   read           in device_request of bread                             *)
(*   bwrite         in device_request of a bwrite called by the file system*)
(*   release        in device_request of the bwrite in brelse              *)
(*   other          in other I/O, holding its buffer                       *)
(* As in Mutex, kernel code runs with interrupts off.                      *)
(***************************************************************************)
EXTENDS Sched, SequencesExt

CONSTANTS
  Blocks,       \* the blocks of the device
  NBuf,         \* bound on room
  MaxWrites,    \* bound on the number of modifications
  None

ASSUME BlocksAssumption == IsFiniteSet(Blocks)
ASSUME NBufAssumption == NBuf \in Nat \ {0}
ASSUME MaxWritesAssumption == MaxWrites \in Nat
ASSUME NoneAssumption == None \notin Blocks \cup Nat

Tasks == Pid \ {Idle}
Bufs  == 1 .. NBuf
Version == 0 .. MaxWrites

VARIABLES
  room,         \* buffers that fit in the cache's memory
  used,         \* cache_count, the buffers made so far
  block,        \* pcache->block of each buffer, None before its first use
  count, dirty, valid, data,    \* pcache->count, ->dirty, ->valid, ->data
  locked,       \* pcache->lock.value
  lockWaiters,  \* pcache->lock.waiters
  chain,        \* the buffers in the hash table, last inserted first
  freeList,     \* free_list from head to tail
  waitList,     \* wait_list from head to tail
  disk,         \* contents of each block on the device
  latest,       \* the last modification of each block by a task
  want,         \* the block a task called bread for
  buf,          \* pcache, the buffer a task works with
  snap,         \* its contents when the write was handed to the device
  state, current, pc,
  panic         \* the assertion that stopped the kernel, or "none"

buffers == <<used, block, count, dirty, valid, data>>
locks   == <<locked, lockWaiters>>
lists   == <<chain, freeList, waitList>>
world   == <<disk, latest>>
locals  == <<want, buf, snap>>
vars    == <<room, buffers, locks, lists, world, locals, state, current, pc, panic>>

InIO == {"read", "bwrite", "release", "other"}
PC   == {"user", "hold", "free", "lock"} \cup InIO

TypeOK ==
  /\ room \in 1 .. NBuf /\ used \in 0 .. room
  /\ block \in [Bufs -> Blocks \cup {None}]
  /\ count \in [Bufs -> Nat]
  /\ dirty \in [Bufs -> BOOLEAN] /\ valid \in [Bufs -> BOOLEAN]
  /\ data \in [Bufs -> Version]
  /\ locked \in [Bufs -> BOOLEAN]
  /\ lockWaiters \in [Bufs -> Seq(Tasks)]
  /\ chain \in Seq(Bufs) /\ freeList \in Seq(Bufs) /\ waitList \in Seq(Tasks)
  /\ disk \in [Blocks -> Version] /\ latest \in [Blocks -> Version]
  /\ want \in [Pid -> Blocks \cup {None}]
  /\ buf \in [Pid -> Bufs \cup {None}]
  /\ snap \in [Pid -> Version]
  /\ state \in [Pid -> {"RUNNING", "READY", "BLOCKED"}]
  /\ current \in Pid
  /\ pc \in [Pid -> PC]
  /\ panic \in {"none", "dirty", "rnode"}

\* page_cache_init.
Init ==
  /\ room \in 1 .. NBuf
  /\ used = 0
  /\ block = [b \in Bufs |-> None]
  /\ count = [b \in Bufs |-> 0]
  /\ dirty = [b \in Bufs |-> FALSE] /\ valid = [b \in Bufs |-> FALSE]
  /\ data = [b \in Bufs |-> 0]
  /\ locked = [b \in Bufs |-> FALSE]
  /\ lockWaiters = [b \in Bufs |-> << >>]
  /\ chain = << >> /\ freeList = << >> /\ waitList = << >>
  /\ disk = [k \in Blocks |-> 0] /\ latest = [k \in Blocks |-> 0]
  /\ want = [n \in Pid |-> None]
  /\ buf = [n \in Pid |-> None]
  /\ snap = [n \in Pid |-> 0]
  /\ state = [n \in Pid |-> "READY"]
  /\ current = Idle
  /\ pc = [n \in Pid |-> "user"]
  /\ panic = "none"

Goto(t, label) == pc' = [pc EXCEPT ![t] = label]

Reschedule(st) ==
  /\ state' = AfterSchedule(st, current)
  /\ current' = Schedule(st, current)

BlockSelf(t) == Reschedule([state EXCEPT ![t] = "BLOCKED"])

-----------------------------------------------------------------------------
(* getblk and bread. *)

\* The places of block k in the hash table.
Places(k) == {i \in DOMAIN chain : block[chain[i]] = k}

\* Its buffer: the first that the search comes to.
Lookup(k) == chain[Min(Places(k))]

\* list_remove of the node of buffer b.
Without(list, b) ==
  LET At == {i \in DOMAIN list : list[i] = b}
  IN  IF At = {} THEN list ELSE RemoveAt(list, Min(At))

HitStaysFree(list, b) == list

\* free_list after get_from_hash_table has found buffer b.
HitFreeList(list, b) == Without(list, b)

\* pcache->count after a hit.
HitCount(b) == count[b] + 1

\* bread once getblk has returned a buffer that is or is not valid.
Enter(t, isValid) == Goto(t, IF isValid THEN "hold" ELSE "lock")

\* bread of a block that has a buffer.
BreadHit(t, k) ==
  /\ pc[t] = "user"
  /\ Places(k) # {}
  /\ LET b == Lookup(k) IN
       /\ freeList' = HitFreeList(freeList, b)
       /\ count' = [count EXCEPT ![b] = HitCount(b)]
       /\ buf' = [buf EXCEPT ![t] = b]
       /\ Enter(t, valid[b])
  /\ want' = [want EXCEPT ![t] = k]
  /\ UNCHANGED <<used, block, dirty, valid, data, locks, chain, waitList, world,
                 snap, state, current, panic>>

\* bread of a block that has none goes on to get_free_cache.
BreadMiss(t, k) ==
  /\ pc[t] = "user"
  /\ Places(k) = {}
  /\ want' = [want EXCEPT ![t] = k]
  /\ Goto(t, "free")
  /\ UNCHANGED <<buffers, locks, lists, world, buf, snap, state, current, panic>>

\* The rest of getblk with the buffer b that get_free_cache returned, whose
\* place in the table is now c.
Assign(t, b, c) ==
  /\ block' = [block EXCEPT ![b] = want[t]]
  /\ count' = [count EXCEPT ![b] = 1]
  /\ chain' = << b >> \o c
  /\ buf' = [buf EXCEPT ![t] = b]
  /\ Enter(t, FALSE)

\* get_new_cache.
GetNew(t) ==
  /\ pc[t] = "free"
  /\ used < room
  /\ used' = used + 1
  /\ Assign(t, used + 1, chain)
  /\ UNCHANGED <<dirty, valid, data, locks, freeList, waitList, world, want, snap,
                 state, current, panic>>

\* The buffer released longest ago, taken away from its block; getblk asserts
\* that nothing of it is left to be written.
Recycle(t) ==
  /\ pc[t] = "free"
  /\ used = room
  /\ freeList # << >>
  /\ LET b == Last(freeList) IN
       /\ freeList' = Front(freeList)
       /\ valid' = [valid EXCEPT ![b] = FALSE]
       /\ IF dirty[b]
          THEN /\ panic' = "dirty"
               /\ UNCHANGED <<block, count, chain, buf, pc>>
          ELSE Assign(t, b, Without(chain, b)) /\ UNCHANGED panic
  /\ UNCHANGED <<used, dirty, data, locks, waitList, world, want, snap, state,
                 current>>

\* No buffer: task_block(current, &wait_list, TASK_BLOCKED).
AwaitBuffer(t) ==
  /\ pc[t] = "free"
  /\ used = room
  /\ freeList = << >>
  /\ waitList' = Append(waitList, t)
  /\ BlockSelf(t)
  /\ UNCHANGED <<buffers, locks, chain, freeList, world, locals, pc, panic>>

ReadAnyway(b) == TRUE

\* Whether bread, with the buffer locked, still has to read it.
MustRead(b) == ~valid[b]

\* mutex_lock in bread, then device_request unless another task has read it.
\* When there is nothing to read nobody waits: the mutex is free again.
LockAndRead(t) ==
  LET b == buf[t] IN
  /\ pc[t] = "lock"
  /\ IF locked[b]
     THEN /\ lockWaiters' = [lockWaiters EXCEPT ![b] = Append(@, t)]
          /\ BlockSelf(t)
          /\ UNCHANGED <<locked, pc>>
     ELSE IF MustRead(b)
     THEN /\ locked' = [locked EXCEPT ![b] = TRUE]
          /\ BlockSelf(t)
          /\ Goto(t, "read")
          /\ UNCHANGED lockWaiters
     ELSE /\ IF lockWaiters[b] # << >>
             THEN /\ lockWaiters' = [lockWaiters EXCEPT ![b] = Tail(@)]
                  /\ Reschedule([state EXCEPT ![Head(lockWaiters[b])] = "READY"])
             ELSE UNCHANGED <<lockWaiters, state, current>>
          /\ Goto(t, "hold")
          /\ UNCHANGED locked
  /\ UNCHANGED <<buffers, lists, world, locals, panic>>

\* The read is over: valid, and mutex_unlock, which wakes the next task.
ReadEnd(t) ==
  LET b == buf[t] IN
  /\ pc[t] = "read"
  /\ dirty' = [dirty EXCEPT ![b] = FALSE]
  /\ valid' = [valid EXCEPT ![b] = TRUE]
  /\ locked' = [locked EXCEPT ![b] = FALSE]
  /\ IF lockWaiters[b] # << >>
     THEN /\ lockWaiters' = [lockWaiters EXCEPT ![b] = Tail(@)]
          /\ Reschedule([state EXCEPT ![Head(lockWaiters[b])] = "READY"])
     ELSE UNCHANGED <<lockWaiters, state, current>>
  /\ Goto(t, "hold")
  /\ UNCHANGED <<used, block, count, data, lists, world, locals, panic>>

-----------------------------------------------------------------------------
(* What the file system does with its buffer. *)

\* pcache->data is changed and pcache->dirty set.
Modify(t) ==
  LET b == buf[t]
      n == 1 + Max({latest[k] : k \in Blocks})
  IN  /\ pc[t] = "hold"
      /\ n <= MaxWrites
      /\ data' = [data EXCEPT ![b] = n]
      /\ dirty' = [dirty EXCEPT ![b] = TRUE]
      /\ latest' = [latest EXCEPT ![want[t]] = n]
      /\ UNCHANGED <<used, block, count, valid, locks, lists, disk, locals, state,
                     current, pc, panic>>

\* device_request(..., REQUEST_WRITE) by bwrite, which then goes on at label.
StartWrite(t, label) ==
  /\ snap' = [snap EXCEPT ![t] = data[buf[t]]]
  /\ BlockSelf(t)
  /\ Goto(t, label)

\* bwrite; it returns at once when the buffer is clean.
Bwrite(t) ==
  /\ pc[t] = "hold"
  /\ dirty[buf[t]]
  /\ StartWrite(t, "bwrite")
  /\ UNCHANGED <<buffers, locks, lists, world, want, buf, panic>>

BwriteEnd(t) ==
  /\ pc[t] = "bwrite"
  /\ dirty' = [dirty EXCEPT ![buf[t]] = FALSE]
  /\ valid' = [valid EXCEPT ![buf[t]] = TRUE]
  /\ Goto(t, "hold")
  /\ UNCHANGED <<used, block, count, data, locks, lists, world, locals, state,
                 current, panic>>

\* Another block is read or written meanwhile.
OtherIO(t) ==
  /\ pc[t] = "hold"
  /\ BlockSelf(t)
  /\ Goto(t, "other")
  /\ UNCHANGED <<buffers, locks, lists, world, locals, panic>>

OtherEnd(t) ==
  /\ pc[t] = "other"
  /\ Goto(t, "hold")
  /\ UNCHANGED <<buffers, locks, lists, world, locals, state, current, panic>>

-----------------------------------------------------------------------------
(* brelse. *)

\* Other references remain.
BrelseShared(t) ==
  /\ pc[t] = "hold"
  /\ count[buf[t]] > 1
  /\ count' = [count EXCEPT ![buf[t]] = @ - 1]
  /\ buf' = [buf EXCEPT ![t] = None]
  /\ want' = [want EXCEPT ![t] = None]
  /\ Goto(t, "user")
  /\ UNCHANGED <<used, block, dirty, valid, data, locks, lists, world, snap,
                 state, current, panic>>

WakeNobody(t) ==
  /\ UNCHANGED <<waitList, state>>
  /\ buf' = [buf EXCEPT ![t] = None]
  /\ want' = [want EXCEPT ![t] = None]
  /\ Goto(t, "user")

\* The end of brelse: one of the tasks that wait for a buffer is woken.
WakeOne(t) ==
  /\ IF waitList # << >>
     THEN /\ waitList' = Front(waitList)
          /\ state' = [state EXCEPT ![Last(waitList)] = "READY"]
     ELSE UNCHANGED <<waitList, state>>
  /\ buf' = [buf EXCEPT ![t] = None]
  /\ want' = [want EXCEPT ![t] = None]
  /\ Goto(t, "user")

\* list_push on the free list.
Release(b) == << b >> \o freeList

\* Whether brelse has to write the buffer.
MustWrite(b) == dirty[b]

\* The last reference: to the free list, and to the device if it is dirty.
Brelse(t) ==
  LET b == buf[t] IN
  /\ pc[t] = "hold"
  /\ count[b] <= 1
  /\ count' = [count EXCEPT ![b] = @ - 1]
  /\ IF \E i \in DOMAIN freeList : freeList[i] = b
     THEN /\ panic' = "rnode"
          /\ UNCHANGED <<freeList, waitList, locals, state, current, pc>>
     ELSE /\ freeList' = Release(b)
          /\ IF MustWrite(b)
             THEN StartWrite(t, "release") /\ UNCHANGED <<waitList, want, buf>>
             ELSE WakeOne(t) /\ UNCHANGED <<snap, current>>
          /\ UNCHANGED panic
  /\ UNCHANGED <<used, block, dirty, valid, data, locks, chain, world>>

\* The rest of brelse once the block has been written.
BrelseEnd(t) ==
  /\ pc[t] = "release"
  /\ dirty' = [dirty EXCEPT ![buf[t]] = FALSE]
  /\ valid' = [valid EXCEPT ![buf[t]] = TRUE]
  /\ WakeOne(t)
  /\ UNCHANGED <<used, block, count, data, locks, chain, freeList, world, snap,
                 current, panic>>

-----------------------------------------------------------------------------
(* The device, and the clock. *)

InterruptsOn == pc[current] = "user"

(***************************************************************************)
(* The device ends the request of task t.  A write moved its sectors some  *)
(* time between the call and now: what reaches the disk is what the buffer *)
(* held at either end.                                                     *)
(***************************************************************************)
DeviceDone(t) ==
  /\ InterruptsOn
  /\ pc[t] \in InIO /\ state[t] = "BLOCKED"
  /\ state' = [state EXCEPT ![t] = "READY"]
  /\ CASE pc[t] = "read" ->
            /\ data' = [data EXCEPT ![buf[t]] = disk[block[buf[t]]]]
            /\ UNCHANGED disk
       [] pc[t] \in {"bwrite", "release"} ->
            /\ \E v \in {snap[t], data[buf[t]]} :
                 disk' = [disk EXCEPT ![want[t]] = v]
            /\ UNCHANGED data
       [] OTHER -> UNCHANGED <<data, disk>>
  /\ UNCHANGED <<used, block, count, dirty, valid, locks, lists, latest, locals,
                 current, pc, panic>>

Clock ==
  /\ InterruptsOn
  /\ Schedule(state, current) # current
  /\ Reschedule(state)
  /\ UNCHANGED <<buffers, locks, lists, world, locals, pc, panic>>

KernelStep(t) ==
  \/ GetNew(t) \/ Recycle(t) \/ AwaitBuffer(t) \/ LockAndRead(t)
  \/ ReadEnd(t) \/ BwriteEnd(t) \/ OtherEnd(t) \/ BrelseEnd(t)

FileSystem(t) ==
  \/ \E k \in Blocks : BreadHit(t, k) \/ BreadMiss(t, k)
  \/ Modify(t) \/ Bwrite(t) \/ OtherIO(t)

ReleaseStep(t) == BrelseShared(t) \/ Brelse(t)

Next ==
  /\ panic = "none" /\ UNCHANGED room
  /\ \/ \E t \in Tasks : /\ current = t
                         /\ KernelStep(t) \/ FileSystem(t) \/ ReleaseStep(t)
     \/ \E t \in Tasks : DeviceDone(t)
     \/ Clock

Spec == Init /\ [][Next]_vars

-----------------------------------------------------------------------------

\* The tasks that have a reference to buffer b.
Holders(b) == {t \in Tasks : buf[t] = b /\ pc[t] # "release"}

(***************************************************************************)
(* A block has at most one buffer, so that two tasks that work on it see   *)
(* each other's changes: "the hash table locates the cache of a block".    *)
(***************************************************************************)
OneBufferPerBlock ==
  \A i, j \in DOMAIN chain : block[chain[i]] = block[chain[j]] => i = j

(***************************************************************************)
(* count is the number of tasks that use the buffer, and the free list     *)
(* holds exactly the buffers that nobody uses, each once: a buffer in use  *)
(* is never given to another block, and one that is not is never lost.     *)
(***************************************************************************)
FreeIsUnused == panic = "none" =>
  /\ \A b \in 1 .. used : count[b] = Cardinality(Holders(b))
  /\ \A b \in 1 .. used :
       Cardinality({i \in DOMAIN freeList : freeList[i] = b})
         = (IF count[b] = 0 THEN 1 ELSE 0)

(***************************************************************************)
(* A task that bread returned to has the buffer of its block, valid, with  *)
(* the latest contents: no read overwrites a modification, no other task   *)
(* takes the buffer away, and two tasks that miss together read it once.   *)
(* It is so while there is room for every block: the write that            *)
(* ReleasedIsWritten is about may be lost before a buffer is recycled.     *)
(***************************************************************************)
HoldersSeeLatest == room >= Cardinality(Blocks) =>
  \A t \in Tasks : pc[t] \in {"hold", "bwrite", "other"} =>
    LET b == buf[t] IN
      block[b] = want[t] /\ valid[b] /\ data[b] = latest[want[t]]

(***************************************************************************)
(* "Strong consistency: written when released, no delayed write": a block  *)
(* that no task is using is up to date on the disk.                        *)
(***************************************************************************)
ReleasedIsWritten ==
  \A k \in Blocks :
    (\A t \in Tasks : want[t] # k) => disk[k] = latest[k]

(***************************************************************************)
(* No buffer lies unused while tasks wait for one: when the free list and  *)
(* wait_list both have members, a task is on its way to take a buffer or   *)
(* to wake one that will.  The wakeup of brelse comes after a write that   *)
(* sleeps, and hits and recycling change the free list meanwhile.          *)
(***************************************************************************)
NoBufferWasted ==
  panic = "none" /\ waitList # << >> /\ freeList # << >> =>
    \E t \in Tasks :
      pc[t] = "release" \/ (pc[t] = "free" /\ state[t] # "BLOCKED")
=============================================================================
