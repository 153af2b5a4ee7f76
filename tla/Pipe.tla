-------------------------------- MODULE Pipe ---------------------------------
(***************************************************************************)
(* A pipe of fs/pipe.c between tasks that share its two files after fork:  *)
(* the loops of pipe_read and pipe_write over the ring of the inode, the   *)
(* one reader (rxwaiter) and the one writer (txwaiter) that the inode can  *)
(* remember, and the closing of the ends down to put_pipe_inode.           *)
(*                                                                         *)
(* A task in the kernel runs with IF clear up to task_block, so the clock  *)
(* changes tasks only in user mode.  pc[t] = "read" or "write" is the head *)
(* of the loop over the bytes; a task asleep in task_block resumes there   *)
(* and looks at the ring again.                                            *)
(***************************************************************************)
EXTENDS Sched, Kfifo

CONSTANTS
  Readers, Writers,     \* the tasks that hold the read and the write end
  MaxCount,             \* bound on the count argument of read and write
  None

ASSUME EndsAssumption ==
  /\ Readers \subseteq Pid \ {Idle} /\ Writers \subseteq Pid \ {Idle}
  /\ Readers \cap Writers = {}
ASSUME MaxCountAssumption == MaxCount \in Nat
ASSUME NoneAssumption == None \notin Nat /\ None \notin Data

Users == Readers \cup Writers

VARIABLES
  fifo,       \* *(kfifo_t*)inode->desc
  rxwaiter,   \* inode->rxwaiter
  txwaiter,   \* inode->txwaiter
  count,      \* inode->count
  open,       \* the tasks whose file descriptor of the pipe is open
  left,       \* count - nr of the call in progress
  last,       \* the byte that the last kfifo_get returned
  state, current, pc,
  panic       \* whether an assertion of pipe.c failed

ends == <<count, open>>
cpu  == <<state, current>>
vars == <<fifo, rxwaiter, txwaiter, ends, left, last, cpu, pc, panic>>

TypeOK ==
  /\ fifo \in Ring
  /\ rxwaiter \in Readers \cup {None}
  /\ txwaiter \in Writers \cup {None}
  /\ count \in 0 .. 2
  /\ open \subseteq Users
  /\ left \in [Pid -> 0 .. MaxCount]
  /\ last \in Data \cup {None}
  /\ state \in [Pid -> {"RUNNING", "READY", "BLOCKED"}]
  /\ current \in Pid
  /\ pc \in [Pid -> {"user", "read", "write"}]
  /\ panic \in BOOLEAN

\* sys_pipe (get_pipe_inode, two files on one inode) and the forks that gave
\* every task its end.
Init ==
  /\ \E b \in Data : fifo = kfifo_init(b)
  /\ rxwaiter = None
  /\ txwaiter = None
  /\ count = 2
  /\ open = Users
  /\ left = [n \in Pid |-> 0]
  /\ last = None
  /\ state = [n \in Pid |-> "READY"]
  /\ current = Idle
  /\ pc = [n \in Pid |-> "user"]
  /\ panic = FALSE

Reschedule(st) ==
  /\ state' = AfterSchedule(st, current)
  /\ current' = Schedule(st, current)

\* task_intr_unblock_no_waiting_list(w) when the inode remembers a waiter.
WakeNone(w) == state

Wake(w) == IF w = None THEN state ELSE [state EXCEPT ![w] = "READY"]

-----------------------------------------------------------------------------

\* sys_read and sys_write reach the pipe (inode->pipe).
Call(t, n) ==
  /\ pc[t] = "user" /\ t \in open
  /\ pc' = [pc EXCEPT ![t] = IF t \in Readers THEN "read" ELSE "write"]
  /\ left' = [left EXCEPT ![t] = n]
  /\ UNCHANGED <<fifo, rxwaiter, txwaiter, ends, last, cpu, panic>>

\* The call returns after its last byte.
AfterByte(t) ==
  /\ left' = [left EXCEPT ![t] = @ - 1]
  /\ pc' = [pc EXCEPT ![t] = IF left[t] = 1 THEN "user" ELSE @]

\* pipe_read on an empty ring: the inode must have no other reader to wake.
ReadBlock(t) ==
  /\ pc[t] = "read" /\ kfifo_empty(fifo)
  /\ IF rxwaiter = None
     THEN /\ rxwaiter' = t
          /\ Reschedule([state EXCEPT ![t] = "BLOCKED"])
          /\ UNCHANGED panic
     ELSE panic' = TRUE /\ UNCHANGED <<rxwaiter, cpu>>
  /\ UNCHANGED <<fifo, txwaiter, ends, left, last, pc>>

\* kfifo_get, and the writer that waits for room is woken.
ReadByte(t) ==
  /\ pc[t] = "read" /\ ~kfifo_empty(fifo)
  /\ fifo' = kfifo_get(fifo)
  /\ last' = Front(fifo)
  /\ AfterByte(t)
  /\ state' = Wake(txwaiter)
  /\ txwaiter' = None
  /\ UNCHANGED <<rxwaiter, ends, current, panic>>

WriteBlock(t) ==
  /\ pc[t] = "write" /\ kfifo_full(fifo)
  /\ IF txwaiter = None
     THEN /\ txwaiter' = t
          /\ Reschedule([state EXCEPT ![t] = "BLOCKED"])
          /\ UNCHANGED panic
     ELSE panic' = TRUE /\ UNCHANGED <<txwaiter, cpu>>
  /\ UNCHANGED <<fifo, rxwaiter, ends, left, last, pc>>

WriteByteKeepsWaiter(t, b) ==
  /\ pc[t] = "write" /\ ~kfifo_full(fifo)
  /\ fifo' = kfifo_put(fifo, b)
  /\ AfterByte(t)
  /\ state' = Wake(rxwaiter)
  /\ UNCHANGED <<rxwaiter, txwaiter, ends, last, current, panic>>

\* kfifo_put, and the reader that waits for a byte is woken.
WriteByte(t, b) ==
  /\ pc[t] = "write" /\ ~kfifo_full(fifo)
  /\ fifo' = kfifo_put(fifo, b)
  /\ AfterByte(t)
  /\ state' = Wake(rxwaiter)
  /\ rxwaiter' = None
  /\ UNCHANGED <<txwaiter, ends, last, current, panic>>

\* put_file and put_pipe_inode: the last task to close an end releases it.
Put(others) == IF others = {} THEN count - 1 ELSE count

\* sys_close of the task's end.
Close(t) ==
  /\ pc[t] = "user" /\ t \in open
  /\ open' = open \ {t}
  /\ count' = Put(IF t \in Readers THEN open' \cap Readers
                                   ELSE open' \cap Writers)
  /\ UNCHANGED <<fifo, rxwaiter, txwaiter, left, last, cpu, pc, panic>>

\* The clock interrupt in user mode at the end of a slice, sys_yield, and
\* the idle loop.
Clock ==
  /\ pc[current] = "user"
  /\ Schedule(state, current) # current
  /\ Reschedule(state)
  /\ UNCHANGED <<fifo, rxwaiter, txwaiter, ends, left, last, pc, panic>>

Kernel(t) ==
  \/ ReadBlock(t) \/ ReadByte(t)
  \/ WriteBlock(t) \/ \E b \in Data : WriteByte(t, b)

Step(t) ==
  /\ current = t
  /\ \/ \E n \in 1 .. MaxCount : Call(t, n)
     \/ Kernel(t)
     \/ Close(t)

Next == ~panic /\ (Clock \/ \E t \in Users : Step(t))

Spec == Init /\ [][Next]_vars

-----------------------------------------------------------------------------

(***************************************************************************)
(* The pipe is a bounded queue: whatever the order in which readers and    *)
(* writers block, wake and run, bytes leave in the order in which they     *)
(* came, and the overwriting of kfifo_put never costs a byte.              *)
(***************************************************************************)
Queue == INSTANCE Fifo WITH queue <- Contents(fifo), Capacity <- BufSize - 1

IsFifo == Queue!Spec

Asleep(t, call) == pc[t] = call /\ state[t] = "BLOCKED"

(***************************************************************************)
(* No wakeup is lost: the task asleep in pipe_read is the one the inode    *)
(* remembers and there is nothing for it to read; likewise the task asleep *)
(* in pipe_write, and no room.  So reader and writer never wait for each   *)
(* other.                                                                  *)
(***************************************************************************)
SleepersAreKnown ==
  /\ \A t \in Readers : Asleep(t, "read") <=> rxwaiter = t
  /\ \A t \in Writers : Asleep(t, "write") <=> txwaiter = t
  /\ rxwaiter # None => kfifo_empty(fifo)
  /\ txwaiter # None => kfifo_full(fifo)

-----------------------------------------------------------------------------

(***************************************************************************)
(* Fairness: the processor executes the kernel code of the current task,   *)
(* and the clock keeps interrupting user mode.  A program need not call.   *)
(***************************************************************************)
Fairness ==
  /\ SF_vars(~panic /\ Clock)
  /\ \A t \in Users : WF_vars(~panic /\ current = t /\ Kernel(t))

FairSpec == Spec /\ Fairness

(***************************************************************************)
(* While one task is in pipe_read and another in pipe_write, bytes move:   *)
(* one of the two calls returns, unless an assertion stops the kernel.     *)
(***************************************************************************)
CallsReturn ==
  \A r \in Readers, w \in Writers :
    pc[r] = "read" /\ pc[w] = "write"
      ~> pc[r] = "user" \/ pc[w] = "user" \/ panic
=============================================================================
