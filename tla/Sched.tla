-------------------------------- MODULE Sched --------------------------------
(***************************************************************************)
(* The scheduler of LightOS: schedule() of kernel/task.c and switch_to()   *)
(* of kernel/schedule.c, as operators on the task states, shared by every  *)
(* module whose tasks give up the processor.                               *)
(*                                                                         *)
(* There is one processor.  Interrupt and system-call gates clear IF, so   *)
(* kernel code runs to its next schedule() without interruption.  Idle     *)
(* alone calls schedule() with IF set, and only module Process has the     *)
(* interrupts that may come inside that call; in the others idle's         *)
(* schedule() is one step, as everybody else's is.  The argument `st' maps *)
(* each slot of task_list to the state of its task ("FREE" when the slot   *)
(* holds NULL) and `cur' is the pid of current.  The saved registers, page *)
(* directory and kernel stack of a task are represented by the program     *)
(* counter that each module keeps for it.                                  *)
(***************************************************************************)
EXTENDS Naturals, FiniteSetsExt

CONSTANT TASK_NR        \* slots of task_list; slot 0 is the idle task

ASSUME TaskNrAssumption == TASK_NR \in Nat \ {0}

Pid == 0 .. TASK_NR - 1

Idle == 0

\* A slot without a task is FREE (task_list[n] == NULL).
TaskState ==
  {"FREE", "RUNNING", "READY", "BLOCKED", "SLEEPING", "WAITING", "DEAD"}

(***************************************************************************)
(* The task schedule() switches to: the first READY one among the slots    *)
(* after current in cyclic order, current's own slot last and slot 0 never *)
(* considered; the idle task when there is none.  The test of ticks is     *)
(* left out: clock_handler refills a slice as soon as it is used up, so    *)
(* no task ever waits with none (module Clock checks it).                  *)
(***************************************************************************)
ReadyOffsets(st, cur) ==
  {i \in 1 .. TASK_NR : /\ (cur + i) % TASK_NR # Idle
                        /\ st[(cur + i) % TASK_NR] = "READY"}

ScheduleFromFirst(st, cur) ==
  IF \A n \in Pid \ {Idle} : st[n] # "READY"
  THEN Idle
  ELSE Min({n \in Pid \ {Idle} : st[n] = "READY"})

Schedule(st, cur) ==
  IF ReadyOffsets(st, cur) = {}
  THEN Idle
  ELSE (cur + Min(ReadyOffsets(st, cur))) % TASK_NR

(***************************************************************************)
(* The task states after switch_to(n).  A task that is still RUNNING goes  *)
(* back to READY; one that has just blocked, slept, waited or died keeps   *)
(* that state.  Switching to the task that is current changes nothing.     *)
(***************************************************************************)
SwitchToKeepsRunning(st, cur, n) ==
  IF n = cur THEN st ELSE [st EXCEPT ![n] = "RUNNING"]

SwitchTo(st, cur, n) ==
  IF n = cur
  THEN st
  ELSE [st EXCEPT ![cur] = IF @ = "RUNNING" THEN "READY" ELSE @,
                  ![n]   = "RUNNING"]

\* The assertion in switch_to: only a READY task may be switched to.
SwitchAllowed(st, cur, n) == n = cur \/ st[n] = "READY"

\* schedule() as a whole: the task states it leaves.
AfterSchedule(st, cur) == SwitchTo(st, cur, Schedule(st, cur))
=============================================================================
