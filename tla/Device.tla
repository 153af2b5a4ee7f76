-------------------------------- MODULE Device --------------------------------
(***************************************************************************)
(* Block I/O: device_request and the elevator of kernel/device.c, above    *)
(* the PIO driver of kernel/ide.c.  Each disk has a list of requests       *)
(* sorted by index; the task whose request is served runs the driver       *)
(* itself, the others sleep until the one before them is done.  The disks  *)
(* of one controller share ctrl->lock and ctrl->waiter.                    *)
(*                                                                         *)
(* A read and a write have the same control: per sector the task records   *)
(* itself as ctrl->waiter and blocks until the interrupt.  pc[t]:          *)
(*   user      in its program (idle: its loop)                             *)
(*   lock      at mutex_lock(&ctrl->lock) of ide_pio_read/write            *)
(*   sector    blocked, or woken, in the loop over sectors                 *)
(*   complete  back in device_request, after do_request                    *)
(* As in Mutex, kernel code runs with interrupts off.                      *)
(***************************************************************************)
EXTENDS Sched, SequencesExt

CONSTANTS
  Disks,        \* the disks of the controller
  Idx,          \* the indices programs ask for
  Secs,         \* sectors of a request (BLOCK_SECS)
  RawIO,        \* whether programs also read block devices directly
  None

ASSUME IdxAssumption == Idx \subseteq Nat
ASSUME SecsAssumption == Secs \in Nat \ {0}
ASSUME RawIOAssumption == RawIO \in BOOLEAN
ASSUME NoneAssumption == None \notin Disks \cup Nat

Tasks == Pid \ {Idle}

VARIABLES
  queue,        \* device->request_list of each disk
  direct,       \* device->direct of each disk
  locked,       \* ctrl->lock.value
  lockWaiters,  \* ctrl->lock.waiters
  waiter,       \* ctrl->waiter
  drive,        \* the disk that the last command went to
  irq,          \* whether the drive has still to answer
  left,         \* sectors of the command that are still to be moved
  disk,         \* the disk each task's I/O is for
  state, current, pc

ctrl == <<locked, lockWaiters, waiter, drive, irq, left>>
vars == <<queue, direct, ctrl, disk, state, current, pc>>

PC == {"user", "lock", "sector", "complete"}

TypeOK ==
  /\ queue \in [Disks -> Seq([task : Tasks, idx : Idx])]
  /\ direct \in [Disks -> {"UP", "DOWN"}]
  /\ locked \in BOOLEAN
  /\ lockWaiters \in Seq(Tasks)
  /\ waiter \in Tasks \cup {None}
  /\ drive \in Disks \cup {None}
  /\ irq \in BOOLEAN
  /\ left \in 0 .. Secs
  /\ disk \in [Pid -> Disks \cup {None}]
  /\ state \in [Pid -> {"RUNNING", "READY", "BLOCKED"}]
  /\ current \in Pid
  /\ pc \in [Pid -> PC]

\* device_init and ide_init.
Init ==
  /\ queue = [d \in Disks |-> << >>]
  /\ direct = [d \in Disks |-> "UP"]
  /\ locked = FALSE
  /\ lockWaiters = << >>
  /\ waiter = None
  /\ drive = None
  /\ irq = FALSE
  /\ left = 0
  /\ disk = [n \in Pid |-> None]
  /\ state = [n \in Pid |-> "READY"]
  /\ current = Idle
  /\ pc = [n \in Pid |-> "user"]

Goto(t, label) == pc' = [pc EXCEPT ![t] = label]

Reschedule(st) ==
  /\ state' = AfterSchedule(st, current)
  /\ current' = Schedule(st, current)

\* task_block(task, NULL, TASK_BLOCKED) by the current task.
BlockSelf(t) == Reschedule([state EXCEPT ![t] = "BLOCKED"])

-----------------------------------------------------------------------------

\* list_insert_sort: behind the requests whose index is not greater.
InsertRequest(q, req) ==
  LET greater == {i \in DOMAIN q : q[i].idx > req.idx}
      at == IF greater = {} THEN Len(q) + 1 ELSE Min(greater)
  IN  InsertAt(q, at, req)

MustWaitNever(q) == FALSE

\* Whether a new request finds others in the list and has to sleep.
MustWait(q) == q # << >>

\* device_request up to do_request.
Request(t, d, i) ==
  /\ pc[t] = "user"
  /\ queue' = [queue EXCEPT ![d] = InsertRequest(@, [task |-> t, idx |-> i])]
  /\ disk' = [disk EXCEPT ![t] = d]
  /\ IF MustWait(queue[d])
     THEN BlockSelf(t)
     ELSE UNCHANGED <<state, current>>
  /\ Goto(t, "lock")
  /\ UNCHANGED <<direct, ctrl>>

\* sys_read and sys_write of a block device call the driver directly.
Raw(t, d) ==
  /\ RawIO
  /\ pc[t] = "user"
  /\ disk' = [disk EXCEPT ![t] = d]
  /\ Goto(t, "lock")
  /\ UNCHANGED <<queue, direct, ctrl, state, current>>

\* ctrl->waiter = task; task_block(task, NULL, TASK_BLOCKED).
AwaitSector(t, n) ==
  /\ waiter' = t
  /\ irq' = TRUE
  /\ left' = n
  /\ BlockSelf(t)

(***************************************************************************)
(* ide_pio_read and ide_pio_write up to the first wait: lock the           *)
(* controller (module Mutex), select the drive, send the command.          *)
(***************************************************************************)
StartNoLock(t) ==
  /\ pc[t] = "lock"
  /\ locked' = TRUE
  /\ drive' = disk[t]
  /\ AwaitSector(t, Secs)
  /\ Goto(t, "sector")
  /\ UNCHANGED <<queue, direct, lockWaiters, disk>>

Start(t) ==
  /\ pc[t] = "lock"
  /\ IF ~locked
     THEN /\ locked' = TRUE
          /\ drive' = disk[t]
          /\ AwaitSector(t, Secs)
          /\ Goto(t, "sector")
          /\ UNCHANGED lockWaiters
     ELSE /\ lockWaiters' = Append(lockWaiters, t)
          /\ BlockSelf(t)
          /\ UNCHANGED <<locked, drive, waiter, irq, left, pc>>
  /\ UNCHANGED <<queue, direct, disk>>

\* The sector is moved; wait for the next one, or unlock the controller.
Sector(t) ==
  /\ pc[t] = "sector"
  /\ IF left > 1
     THEN /\ AwaitSector(t, left - 1)
          /\ UNCHANGED <<locked, lockWaiters, pc>>
     ELSE /\ left' = 0
          /\ locked' = FALSE
          /\ IF lockWaiters # << >>
             THEN /\ lockWaiters' = Tail(lockWaiters)
                  /\ Reschedule([state EXCEPT ![Head(lockWaiters)] = "READY"])
             ELSE UNCHANGED <<lockWaiters, state, current>>
          /\ Goto(t, "complete")
          /\ UNCHANGED <<waiter, irq>>
  /\ UNCHANGED <<queue, direct, drive, disk>>

\* request_nextreq: the elevator turns round at the ends of the list.
NextDirect(q, at, dir) ==
  IF dir = "UP"
  THEN IF at = Len(q) THEN "DOWN" ELSE "UP"
  ELSE IF at = 1 THEN "UP" ELSE "DOWN"

NextIndexNoTurn(q, at, dir) == IF dir = "UP" THEN at + 1 ELSE at - 1

NextIndex(q, at, dir) ==
  IF NextDirect(q, at, dir) = "UP" THEN at + 1 ELSE at - 1

\* device_request after do_request: choose the next request, remove one's
\* own and wake the next one's task.  A raw read returns to its caller.
Complete(t) ==
  LET d == disk[t]
      mine == {i \in DOMAIN queue[d] : queue[d][i].task = t}
  IN  /\ pc[t] = "complete"
      /\ IF mine = {}
         THEN UNCHANGED <<queue, direct, state>>
         ELSE LET at == Min(mine)
                  next == NextIndex(queue[d], at, direct[d])
              IN  /\ direct' = [direct EXCEPT
                                  ![d] = NextDirect(queue[d], at, @)]
                  /\ queue' = [queue EXCEPT ![d] = RemoveAt(@, at)]
                  /\ state' = IF next \in DOMAIN queue[d]
                              THEN [state EXCEPT
                                      ![queue[d][next].task] = "READY"]
                              ELSE state
      /\ disk' = [disk EXCEPT ![t] = None]
      /\ Goto(t, "user")
      /\ UNCHANGED <<ctrl, current>>

-----------------------------------------------------------------------------

InterruptsOn == pc[current] = "user"

\* ide_handler.
IdeHandler ==
  /\ InterruptsOn
  /\ irq
  /\ irq' = FALSE
  /\ IF waiter # None
     THEN state' = [state EXCEPT ![waiter] = "READY"] /\ waiter' = None
     ELSE UNCHANGED <<state, waiter>>
  /\ UNCHANGED <<queue, direct, locked, lockWaiters, drive, left, disk,
                 current, pc>>

\* clock_handler at the end of a slice, and the loop of idle.
Clock ==
  /\ InterruptsOn
  /\ Schedule(state, current) # current
  /\ Reschedule(state)
  /\ UNCHANGED <<queue, direct, ctrl, disk, pc>>

KernelStep(t) == current = t /\ (Start(t) \/ Sector(t) \/ Complete(t))

Next ==
  \/ \E t \in Tasks : \/ KernelStep(t)
                      \/ /\ current = t
                         /\ \E d \in Disks : \/ \E i \in Idx : Request(t, d, i)
                                             \/ Raw(t, d)
  \/ IdeHandler
  \/ Clock

Spec == Init /\ [][Next]_vars

-----------------------------------------------------------------------------

(***************************************************************************)
(* The controller serves one task at a time: the sectors of two transfers  *)
(* never mix, the drive that was selected is the one the transferring task *)
(* asked for, and the interrupt wakes that task and no other.              *)
(***************************************************************************)
OneTransfer ==
  /\ \A s, t \in Tasks : pc[s] = "sector" /\ pc[t] = "sector" => s = t
  /\ \A t \in Tasks : pc[t] = "sector" => locked /\ drive = disk[t] /\ left > 0
  /\ waiter # None => pc[waiter] = "sector" /\ state[waiter] = "BLOCKED"

\* Whether task t sleeps in device_request until the request before it ends.
Sleeping(t) ==
  /\ pc[t] = "lock" /\ state[t] = "BLOCKED"
  /\ \A i \in DOMAIN lockWaiters : lockWaiters[i] # t

(***************************************************************************)
(* "It has been woken because the previous do_request ended": of the tasks *)
(* with a request for a disk exactly one is being served, and the others   *)
(* sleep; the wakeup of the next one is neither lost nor given twice.      *)
(***************************************************************************)
OneServed ==
  \A d \in Disks : queue[d] # << >> =>
    \E i \in DOMAIN queue[d] :
      /\ ~ Sleeping(queue[d][i].task)
      /\ \A j \in DOMAIN queue[d] \ {i} : Sleeping(queue[d][j].task)

(***************************************************************************)
(* Fairness as in Mutex: the current task executes, the clock ticks, and a *)
(* drive that got a command interrupts.                                    *)
(***************************************************************************)
Fairness ==
  /\ SF_vars(Clock)
  /\ SF_vars(IdeHandler)
  /\ \A t \in Tasks : WF_vars(KernelStep(t))

FairSpec == Spec /\ Fairness

(***************************************************************************)
(* The disk keeps working: while a task waits in the list of a disk, some  *)
(* request of it comes to its end.                                         *)
(***************************************************************************)
DisksMakeProgress ==
  \A d \in Disks :
    queue[d] # << >> ~> \E t \in Tasks : pc[t] = "complete" /\ disk[t] = d
=============================================================================
