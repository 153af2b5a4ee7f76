-------------------------------- MODULE Mutex --------------------------------
(***************************************************************************)
(* The blocking mutex of lib/mutex.c with task_block and task_unblock of   *)
(* kernel/task.c: a task that cannot take the lock queues itself on        *)
(* mutex->waiters and blocks; a release wakes the first waiter, which then *)
(* competes for the lock again.                                            *)
(*                                                                         *)
(* A task's counter pc is where it is in                                   *)
(*   user -> lock: cmpxchg -> [block: task_block -> lock ...] -> cs        *)
(*        -> [io: a device wait inside the critical section] -> unblock    *)
(*        -> user.                                                         *)
(* All callers in the kernel (arena, cache, ide, keyboard, serial) come    *)
(* from system calls and run with IF clear.  Preemptible = TRUE models     *)
(* what the comments of mutex.c allow as well: calling the mutex with      *)
(* interrupts on, where the clock may switch tasks between any two         *)
(* instructions that are not inside task_block or task_unblock.            *)
(***************************************************************************)
EXTENDS Sched, Sequences

CONSTANT Preemptible

ASSUME PreemptibleAssumption == Preemptible \in BOOLEAN

Tasks == Pid \ {Idle}

VARIABLES
  value,      \* mutex->value, 0 or 1
  waiters,    \* mutex->waiters, the pids in list order
  state,      \* task->state
  current,    \* pid of current
  pc          \* where each task is; the idle loop counts as user

vars == <<value, waiters, state, current, pc>>

PC == {"user", "lock", "block", "cs", "io", "unblock"}

TypeOK ==
  /\ value \in {0, 1}
  /\ waiters \in Seq(Tasks)
  /\ state \in [Pid -> {"RUNNING", "READY", "BLOCKED"}]
  /\ current \in Pid
  /\ pc \in [Pid -> PC]

(***************************************************************************)
(* mutex_init, and the task table as task_setup leaves it: every task is   *)
(* READY and idle is current without ever having been switched to.         *)
(***************************************************************************)
Init ==
  /\ value = 0
  /\ waiters = << >>
  /\ state = [n \in Pid |-> "READY"]
  /\ current = Idle
  /\ pc = [n \in Pid |-> "user"]

Goto(t, label) == pc' = [pc EXCEPT ![t] = label]

\* schedule() called by the current task while the task states are st.
Reschedule(st) ==
  /\ state' = AfterSchedule(st, current)
  /\ current' = Schedule(st, current)

\* Whether the processor accepts an interrupt now.  The idle loop runs with
\* interrupts on, like user code.
InterruptsOn == pc[current] = "user" \/ Preemptible

Enter(t) ==
  /\ pc[t] = "user"
  /\ Goto(t, "lock")
  /\ UNCHANGED <<value, waiters, state, current>>

\* lock cmpxchg: take the lock if it is free, else go and block.
CmpXchg(t) ==
  /\ pc[t] = "lock"
  /\ IF value = 0
     THEN value' = 1 /\ Goto(t, "cs")
     ELSE value' = value /\ Goto(t, "block")
  /\ UNCHANGED <<waiters, state, current>>

BlockNoRetry(t) ==
  /\ pc[t] = "block"
  /\ waiters' = Append(waiters, t)
  /\ Reschedule([state EXCEPT ![t] = "BLOCKED"])
  /\ Goto(t, "cs")
  /\ UNCHANGED value

\* task_block(current, &mutex->waiters, TASK_BLOCKED), interrupts disabled.
Block(t) ==
  /\ pc[t] = "block"
  /\ waiters' = Append(waiters, t)
  /\ Reschedule([state EXCEPT ![t] = "BLOCKED"])
  /\ Goto(t, "lock")
  /\ UNCHANGED value

\* task_block(current, NULL, TASK_BLOCKED) by the holder, as ide_pio_read does.
WaitDevice(t) ==
  /\ pc[t] = "cs"
  /\ Reschedule([state EXCEPT ![t] = "BLOCKED"])
  /\ Goto(t, "io")
  /\ UNCHANGED <<value, waiters>>

DecNoUnblock(t) ==
  /\ pc[t] \in {"cs", "io"}
  /\ value' = value - 1
  /\ Goto(t, "user")
  /\ UNCHANGED <<waiters, state, current>>

\* lock dec: the critical section ends here.
Dec(t) ==
  /\ pc[t] \in {"cs", "io"}
  /\ value' = value - 1
  /\ Goto(t, "unblock")
  /\ UNCHANGED <<waiters, state, current>>

UnblockKeepsWaiter(t) ==
  /\ pc[t] = "unblock"
  /\ IF waiters # << >>
     THEN Reschedule([state EXCEPT ![Head(waiters)] = "READY"])
     ELSE UNCHANGED <<state, current>>
  /\ Goto(t, "user")
  /\ UNCHANGED <<value, waiters>>

\* task_unblock(&mutex->waiters): wake the first waiter and yield to it.
Unblock(t) ==
  /\ pc[t] = "unblock"
  /\ IF waiters # << >>
     THEN /\ waiters' = Tail(waiters)
          /\ Reschedule([state EXCEPT ![Head(waiters)] = "READY"])
     ELSE UNCHANGED <<waiters, state, current>>
  /\ Goto(t, "user")
  /\ UNCHANGED value

\* The device interrupt: task_intr_unblock_no_waiting_list(ctrl->waiter).
DeviceInterrupt(t) ==
  /\ InterruptsOn
  /\ pc[t] = "io"
  /\ state[t] = "BLOCKED"
  /\ state' = [state EXCEPT ![t] = "READY"]
  /\ UNCHANGED <<value, waiters, current, pc>>

\* clock_handler at the end of a slice, and schedule() of the idle loop.
Clock ==
  /\ InterruptsOn
  /\ Schedule(state, current) # current
  /\ Reschedule(state)
  /\ UNCHANGED <<value, waiters, pc>>

Step(t) ==
  /\ current = t
  /\ \/ Enter(t)
     \/ CmpXchg(t)
     \/ Block(t)
     \/ WaitDevice(t)
     \/ Dec(t)
     \/ Unblock(t)

Next ==
  \/ \E t \in Tasks : Step(t) \/ DeviceInterrupt(t)
  \/ Clock

Spec == Init /\ [][Next]_vars

-----------------------------------------------------------------------------

Holding(t) == pc[t] \in {"cs", "io"}

\* A task that is about to try the cmpxchg and is not asleep.
Contending(t) == pc[t] = "lock" /\ state[t] # "BLOCKED"

(***************************************************************************)
(* Two tasks are never between mutex_lock and mutex_unlock together, even  *)
(* when the clock preempts them between any two instructions, and the      *)
(* value of the mutex says whether there is one.                           *)
(***************************************************************************)
MutualExclusion ==
  /\ \A s, t \in Tasks : Holding(s) /\ Holding(t) => s = t
  /\ value = 1 <=> \E t \in Tasks : Holding(t)

(***************************************************************************)
(* The waiting list holds exactly the tasks that went to sleep in          *)
(* mutex_lock, each once: list_pushback never meets a node that is already *)
(* linked, and a task that was woken is on no list.                        *)
(***************************************************************************)
WaitersAreAsleep ==
  /\ \A t \in Tasks :
       (\E i \in DOMAIN waiters : waiters[i] = t)
         <=> (pc[t] = "lock" /\ state[t] = "BLOCKED")
  /\ \A i, j \in DOMAIN waiters : waiters[i] = waiters[j] => i = j

(***************************************************************************)
(* A queued task is never forgotten: while the list is not empty some task *)
(* that is not asleep on it holds the mutex, is releasing it, or is about  *)
(* to try it, and will therefore come to task_unblock.                     *)
(***************************************************************************)
NoLostWakeup ==
  waiters # << >> =>
    \E t \in Tasks : Holding(t) \/ pc[t] = "unblock" \/ Contending(t)

-----------------------------------------------------------------------------

(***************************************************************************)
(* Fairness.  The processor executes the current task's code.  The PIT     *)
(* keeps ticking and every started transfer raises its interrupt; the 8259 *)
(* latches a request that arrives while IF is clear and delivers it the    *)
(* next time interrupts are on, hence strong fairness.  A task in user     *)
(* mode need not call the kernel again: Enter is not fair.                 *)
(***************************************************************************)
KernelStep(t) == Step(t) /\ pc[t] # "user"

Fairness ==
  /\ SF_vars(Clock)
  /\ \A t \in Tasks : WF_vars(KernelStep(t)) /\ SF_vars(DeviceInterrupt(t))

FairSpec == Spec /\ Fairness

(***************************************************************************)
(* While tasks wait, the lock keeps changing hands: a queued task implies  *)
(* that later some task gets out of its critical section.                  *)
(***************************************************************************)
WaitersMakeProgress ==
  waiters # << >> ~> \E t \in Tasks : pc[t] = "unblock"
=============================================================================
