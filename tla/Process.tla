------------------------------- MODULE Process -------------------------------
(***************************************************************************)
(* The life of a process in LightOS: fork, exit, waitpid, sleep and kill   *)
(* of kernel/task.c and kernel/signal.c, the sleep timers of               *)
(* kernel/timer.c, the clock interrupt of kernel/clock.c and the signal    *)
(* delivery on the way back to user mode (interrupt_exit, task_signal).    *)
(*                                                                         *)
(* Only the current task acts.  In the kernel it runs with IF clear, so an *)
(* action is everything it does up to the next point where it may give up  *)
(* the processor; interrupts arrive in user mode.  The exception is idle,  *)
(* which calls schedule() with IF set: its switch_to is taken apart below  *)
(* and an interrupt may come between any two of its parts.                 *)
(* pc[t] is where task t is, or will resume:                               *)
(*   user     executing its program (always for idle, see idleAt)          *)
(*   iret     in interrupt_exit, before task_signal                        *)
(*   waitpid  at the head of the loop of sys_waitpid                       *)
(*   io       in a driver, waiting for its device                          *)
(*   exit, iput, notify, close, adopt    the successive parts of sys_exit  *)
(***************************************************************************)
EXTENDS Sched, SequencesExt

CONSTANTS
  Calls,        \* the system calls programs make in this instance
  Shells,       \* the tasks that make the calls in ShellCalls
  Durations,    \* ticks a program may ask sys_sleep for
  BeepLast,     \* BEEP_LAST_MS in ticks
  MaxTimers,    \* bound on the length of timer_list
  ExitBlocks    \* whether releasing files in sys_exit may have to write
                \* a dirty block to disk

ASSUME CallsAssumption ==
  Calls \subseteq {"fork", "exit", "waitpid", "sleep", "kill", "signal",
                   "yield", "read", "beep", "setsid"}
ASSUME ShellsAssumption == Shells \subseteq Pid
ASSUME DurationsAssumption == Durations \subseteq Nat /\ BeepLast \in Nat
ASSUME MaxTimersAssumption == MaxTimers \in Nat
ASSUME ExitBlocksAssumption == ExitBlocks \in BOOLEAN
ASSUME InitSlotAssumption == TASK_NR > 1

InitPid == 1

VARIABLES
  state,      \* task->state, "FREE" when task_list[n] == NULL
  current,    \* pid of current
  pc,         \* where each task is
  ppid,       \* task->ppid
  sid,        \* task->sid, the session
  waitpid,    \* task->waitpid, 0 when unset
  arg,        \* the pid argument of the sys_waitpid call in progress; in
              \* user mode, the child the last fork returned
  signal,     \* task->signal, the pending signals
  caught,     \* whether TERM has a handler (sys_signal, one shot)
  timers,     \* timer_list; left = timer->expires - jiffies
  beeping,    \* whether the speaker is on
  ioDone,     \* whether the device has answered a task that is in io
  idleAt,     \* how far idle is in its schedule()
  target,     \* the task idle is switching to, Idle outside its switch_to
  panic       \* "none", or the assertion or panic() that stopped the kernel

cpu    == <<state, current>>
family == <<ppid, sid, waitpid, arg>>
sigs   == <<signal, caught>>
timing == <<timers, beeping>>
idling == <<idleAt, target>>

vars == <<cpu, pc, family, sigs, timing, ioDone, idling, panic>>

PC == {"user", "iret", "waitpid", "io",
       "exit", "iput", "notify", "close", "adopt"}

\* loop: before or after schedule(); picked: in switch_to(target); demoted:
\* past "if RUNNING then READY"; loading: past "current = task_list[n]" and
\* its state RUNNING, before popf loads the flags of the new task.
IdlePC == {"loop", "picked", "demoted", "loading"}

\* SIGHUP, SIGTERM and SIGCHLD, in the order in which task_signal takes them.
\* TERM stands for the signals that programs send each other.
Signals == {"HUP", "TERM", "CHLD"}

Timer == [task : Pid, left : Nat, handler : {"task_wakeup", "stop_beep"}]

TypeOK ==
  /\ state \in [Pid -> TaskState]
  /\ current \in Pid
  /\ pc \in [Pid -> PC]
  /\ ppid \in [Pid -> Pid]
  /\ sid \in [Pid -> Pid]
  /\ waitpid \in [Pid -> Pid]
  /\ arg \in [Pid -> Pid]
  /\ signal \in [Pid -> SUBSET Signals]
  /\ caught \in [Pid -> BOOLEAN]
  /\ timers \in Seq(Timer)
  /\ beeping \in BOOLEAN
  /\ ioDone \in [Pid -> BOOLEAN]
  /\ idleAt \in IdlePC
  /\ target \in Pid
  /\ panic \in {"none", "task_nr", "exit_state", "no_father", "not_ready",
                "two_stacks"}

(***************************************************************************)
(* After task_setup and move_to_user_mode: idle and init exist, init is    *)
(* its own parent and about to be scheduled for the first time.            *)
(***************************************************************************)
Init ==
  /\ state = [n \in Pid |-> IF n \in {Idle, InitPid} THEN "READY" ELSE "FREE"]
  /\ current = Idle
  /\ pc = [n \in Pid |-> "user"]
  /\ ppid = [n \in Pid |-> IF n = InitPid THEN InitPid ELSE 0]
  /\ sid = [n \in Pid |-> 0]
  /\ waitpid = [n \in Pid |-> 0]
  /\ arg = [n \in Pid |-> 0]
  /\ signal = [n \in Pid |-> {}]
  /\ caught = [n \in Pid |-> FALSE]
  /\ timers = << >>
  /\ beeping = FALSE
  /\ ioDone = [n \in Pid |-> FALSE]
  /\ idleAt = "loop"
  /\ target = Idle
  /\ panic = "none"

Goto(t, label) == pc' = [pc EXCEPT ![t] = label]

\* schedule() called by current while the task states are st.  The assertion
\* in switch_to stops the kernel after current has been set.
Reschedule(st) ==
  /\ state' = AfterSchedule(st, current)
  /\ current' = Schedule(st, current)
  /\ panic' = IF SwitchAllowed(st, current, Schedule(st, current))
              THEN panic ELSE "not_ready"

\* The calls of lsh: no other program of the repository calls signal or
\* setsid, and it is lsh that echoes a BEL that is typed.
ShellCalls == {"signal", "setsid", "beep"}

\* The system call `call' is made by task t, which is running its program.
Calling(t, call) ==
  /\ call \in Calls /\ pc[t] = "user" /\ t # Idle
  /\ call \in ShellCalls => t \in Shells

-----------------------------------------------------------------------------
(* System calls that do not end a task. *)

FreeSlots == {n \in Pid : state[n] = "FREE"}

\* sys_fork: the child is a copy of its parent, pending signals included.
Fork(t) ==
  /\ Calling(t, "fork")
  /\ FreeSlots # {}
  /\ LET child == Min(FreeSlots) IN
       /\ state' = [state EXCEPT ![child] = "READY"]
       /\ pc' = [pc EXCEPT ![t] = "iret", ![child] = "iret"]
       /\ ppid' = [ppid EXCEPT ![child] = t]
       /\ sid' = [sid EXCEPT ![child] = sid[t]]
       /\ waitpid' = [waitpid EXCEPT ![child] = waitpid[t]]
       /\ arg' = [arg EXCEPT ![t] = child, ![child] = 0]
       /\ signal' = [signal EXCEPT ![child] = signal[t]]
       /\ caught' = [caught EXCEPT ![child] = caught[t]]
       /\ ioDone' = [ioDone EXCEPT ![child] = FALSE]
  /\ UNCHANGED <<current, timing, idling, panic>>

\* get_free_task with no free slot.
ForkTableFull(t) ==
  /\ Calling(t, "fork")
  /\ FreeSlots = {}
  /\ panic' = "task_nr"
  /\ UNCHANGED <<cpu, pc, family, sigs, timing, ioDone, idling>>

\* sys_waitpid for the child that fork returned, as init and lsh call it.
Waitpid(t) ==
  /\ Calling(t, "waitpid")
  /\ arg[t] # 0
  /\ Goto(t, "waitpid")
  /\ UNCHANGED <<cpu, family, sigs, timing, ioDone, idling, panic>>

Children(t) == {n \in Pid : n >= 2 /\ state[n] # "FREE" /\ ppid[n] = t}

\* One turn of the loop of sys_waitpid: it looks at the first child only.
WaitLoop(t) ==
  /\ pc[t] = "waitpid"
  /\ IF Children(t) = {}
     THEN /\ Goto(t, "iret")
          /\ arg' = [arg EXCEPT ![t] = 0]
          /\ UNCHANGED <<cpu, waitpid, panic>>
     ELSE LET child == Min(Children(t)) IN
            IF state[child] = "DEAD"
            THEN /\ state' = [state EXCEPT ![child] = "FREE"]
                 /\ Goto(t, "iret")
                 /\ arg' = [arg EXCEPT ![t] = 0]
                 /\ UNCHANGED <<current, waitpid, panic>>
            ELSE /\ waitpid' = [waitpid EXCEPT ![t] = arg[t]]
                 /\ Reschedule([state EXCEPT ![t] = "WAITING"])
                 /\ UNCHANGED <<pc, arg>>
  /\ UNCHANGED <<ppid, sid, sigs, timing, ioDone, idling>>

\* list_insert_sort: in front of the first timer that expires later.
InsertSorted(list, timer) ==
  LET later == {i \in DOMAIN list : list[i].left > timer.left}
      at == IF later = {} THEN Len(list) + 1 ELSE Min(later)
  IN  InsertAt(list, at, timer)

\* sys_sleep: timer_add(ms, task_wakeup), then schedule().
Sleep(t, d) ==
  /\ Calling(t, "sleep")
  /\ Len(timers) < MaxTimers
  /\ timers' = InsertSorted(timers, [task |-> t, left |-> d,
                                      handler |-> "task_wakeup"])
  /\ Reschedule([state EXCEPT ![t] = "SLEEPING"])
  /\ Goto(t, "iret")
  /\ UNCHANGED <<family, sigs, ioDone, idling, beeping>>

\* A BEL written to the console: start_beep, timer_add(BEEP_LAST_MS, stop_beep).
Beep(t) ==
  /\ Calling(t, "beep")
  /\ ~beeping
  /\ Len(timers) < MaxTimers
  /\ beeping' = TRUE
  /\ timers' = InsertSorted(timers, [task |-> t, left |-> BeepLast,
                                      handler |-> "stop_beep"])
  /\ Goto(t, "iret")
  /\ UNCHANGED <<cpu, family, sigs, ioDone, idling, panic>>

\* The states out of which sys_kill wakes its target.
KillWakesAny == TaskState \ {"FREE"}
KillWakes == {"WAITING", "SLEEPING"}

\* sys_kill: init and idle are refused.
Kill(t, p) ==
  /\ Calling(t, "kill")
  /\ p \notin {Idle, InitPid}
  /\ state[p] # "FREE"
  /\ signal' = [signal EXCEPT ![p] = @ \cup {"TERM"}]
  /\ state' = [state EXCEPT ![p] =
                 IF @ \in KillWakes THEN "READY" ELSE @]
  /\ Goto(t, "iret")
  /\ UNCHANGED <<current, family, caught, timing, ioDone, idling, panic>>

\* sys_signal with a handler of the program's own.
CatchSignal(t) ==
  /\ Calling(t, "signal")
  /\ caught' = [caught EXCEPT ![t] = TRUE]
  /\ Goto(t, "iret")
  /\ UNCHANGED <<cpu, family, signal, timing, ioDone, idling, panic>>

\* sys_setsid: a session leader may not start another session.
Setsid(t) ==
  /\ Calling(t, "setsid")
  /\ sid[t] # t
  /\ sid' = [sid EXCEPT ![t] = t]
  /\ Goto(t, "iret")
  /\ UNCHANGED <<cpu, ppid, waitpid, arg, sigs, timing, ioDone, idling, panic>>

\* sys_yield.
Yield(t) ==
  /\ Calling(t, "yield")
  /\ Reschedule(state)
  /\ Goto(t, "iret")
  /\ UNCHANGED <<family, sigs, timing, ioDone, idling>>

\* A read that has to wait for its device: task_block(current, NULL, BLOCKED).
Read(t) ==
  /\ Calling(t, "read")
  /\ Reschedule([state EXCEPT ![t] = "BLOCKED"])
  /\ ioDone' = [ioDone EXCEPT ![t] = FALSE]
  /\ Goto(t, "io")
  /\ UNCHANGED <<family, sigs, timing, idling>>

\* The driver goes on after its wait and the read returns.
ReadEnd(t) ==
  /\ pc[t] = "io"
  /\ Goto(t, "iret")
  /\ ioDone' = [ioDone EXCEPT ![t] = FALSE]
  /\ UNCHANGED <<cpu, family, sigs, timing, idling, panic>>

-----------------------------------------------------------------------------
(* sys_exit. *)

\* The program calls exit.  The program of init never does (init.c).
Exit(t) ==
  /\ Calling(t, "exit")
  /\ t # InitPid
  /\ Goto(t, "exit")
  /\ UNCHANGED <<cpu, family, sigs, timing, ioDone, idling, panic>>

\* The entry of sys_exit: the two assertions, then DEAD.
ExitBegin(t) ==
  /\ pc[t] = "exit"
  /\ IF state[t] = "RUNNING" /\ t \notin {Idle, InitPid}
     THEN /\ state' = [state EXCEPT ![t] = "DEAD"]
          /\ Goto(t, "iput")
          /\ UNCHANGED panic
     ELSE /\ panic' = "exit_state"
          /\ UNCHANGED <<state, pc>>
  /\ UNCHANGED <<current, family, sigs, timing, ioDone, idling>>

\* The parts of sys_exit that release inodes (iput) and open files
\* (sys_close), and the part that follows each.
AfterRelease == [iput |-> "notify", close |-> "adopt"]

\* Nothing to write back.
ExitRelease(t) ==
  /\ pc[t] \in DOMAIN AfterRelease
  /\ Goto(t, AfterRelease[pc[t]])
  /\ UNCHANGED <<cpu, family, sigs, timing, ioDone, idling, panic>>

\* A dirty block: bwrite -> device_request -> ide_pio_write -> task_block.
ExitWriteBack(t) ==
  /\ ExitBlocks
  /\ pc[t] \in DOMAIN AfterRelease
  /\ Reschedule([state EXCEPT ![t] = "BLOCKED"])
  /\ ioDone' = [ioDone EXCEPT ![t] = FALSE]
  /\ Goto(t, AfterRelease[pc[t]])
  /\ UNCHANGED <<family, sigs, timing, idling>>

RemoveAllTimers(t) == << >>
RemoveNoTimers(t) == timers

\* timer_remove: the loop over the list that drops the timers of t.
RemoveTimers(t) ==
  LET Kept[i \in 0 .. Len(timers)] ==
        IF i = 0 THEN << >>
        ELSE IF timers[i].task = t THEN Kept[i - 1]
        ELSE Append(Kept[i - 1], timers[i])
  IN  Kept[Len(timers)]

\* The other tasks of the session that ends with its leader t.
Session(t) == {n \in Pid \ {t} : state[n] # "FREE" /\ sid[n] = sid[t]}

\* timer_remove(task), task_tell_father(task), and the hangup of the session.
ExitNotify(t) ==
  LET Hangup == IF sid[t] = t THEN Session(t) ELSE {}
      Told == IF ppid[t] = 0 THEN {} ELSE {ppid[t]}
  IN  /\ pc[t] = "notify"
      /\ timers' = RemoveTimers(t)
      /\ IF \A n \in Told : state[n] # "FREE"
         THEN /\ signal' = [n \in Pid |->
                              signal[n]
                                \cup (IF n \in Told THEN {"CHLD"} ELSE {})
                                \cup (IF n \in Hangup THEN {"HUP"} ELSE {})]
              /\ Goto(t, "close")
              /\ UNCHANGED panic
         ELSE /\ panic' = "no_father"
              /\ UNCHANGED <<signal, pc>>
      /\ ioDone' = [ioDone EXCEPT ![t] = FALSE]
      /\ UNCHANGED <<cpu, family, caught, beeping, idling>>

AdoptedLive(t) == {n \in Pid : state[n] \notin {"FREE", "DEAD"} /\ ppid[n] = t}
NoneAdopted(t) == {n \in Pid : state[n] = "FREE" /\ ppid[n] = t}

\* The children an exiting task hands over to its own parent.
Adopted(t) == {n \in Pid : state[n] # "FREE" /\ ppid[n] = t}

NoneWaiting(t) == {}

\* The tasks it wakes from sys_waitpid.
Waiting(t) == {n \in Pid \ Adopted(t) : state[n] # "FREE" /\ waitpid[n] = t}

\* The last loop of sys_exit, then schedule().  A task that has slept on the
\* way is not DEAD any more: it will be run again and sys_exit returns, to
\* user mode without a single page, where the first instruction faults and
\* page_fault calls sys_exit once more.
ExitAdopt(t) ==
  /\ pc[t] = "adopt"
  /\ ppid' = [n \in Pid |-> IF n \in Adopted(t) THEN ppid[t] ELSE ppid[n]]
  /\ waitpid' = [n \in Pid |-> IF n \in Waiting(t) THEN 0 ELSE waitpid[n]]
  /\ Reschedule([n \in Pid |-> IF n \in Waiting(t) /\ state[n] = "WAITING"
                               THEN "READY" ELSE state[n]])
  /\ Goto(t, IF state[t] = "DEAD" THEN "iret" ELSE "exit")
  /\ ioDone' = [ioDone EXCEPT ![t] = FALSE]
  /\ UNCHANGED <<sid, arg, sigs, timing, idling>>

-----------------------------------------------------------------------------
(* The way back to user mode, and interrupts. *)

\* task_signal: one pending signal is taken, the lowest first.  SIGCHLD is
\* ignored by default; SIGTERM runs its handler once; else the task exits.
Iret(t) ==
  /\ pc[t] = "iret"
  /\ \/ /\ "HUP" \in signal[t]
        /\ signal' = [signal EXCEPT ![t] = @ \ {"HUP"}]
        /\ Goto(t, "exit")
        /\ UNCHANGED caught
     \/ /\ signal[t] \cap {"HUP", "TERM"} = {"TERM"}
        /\ signal' = [signal EXCEPT ![t] = @ \ {"TERM"}]
        /\ Goto(t, IF caught[t] THEN "user" ELSE "exit")
        /\ caught' = [caught EXCEPT ![t] = FALSE]
     \/ /\ signal[t] \subseteq {"CHLD"}
        /\ signal' = [signal EXCEPT ![t] = {}]
        /\ Goto(t, "user")
        /\ UNCHANGED caught
  /\ UNCHANGED <<cpu, family, timing, ioDone, idling, panic>>

\* The current task leaves the interrupt handler through interrupt_exit.
InterruptExit ==
  pc' = [pc EXCEPT ![current] = IF current = Idle THEN "user" ELSE "iret"]

\* How many timers timer_wakeup takes off the head of the list at the next
\* tick: it stops at the first that has not expired.
Expired == Max({n \in 0 .. Len(timers) : \A i \in 1 .. n : timers[i].left <= 1})

UnexpiredAndDue == timers

\* The timers that it leaves on the list.
Unexpired == SubSeq(timers, Expired + 1, Len(timers))

\* The tasks whose timers with handler h expire, and the states task_wakeup
\* leaves.
Due(h) == {timers[i].task : i \in {j \in 1 .. Expired : timers[j].handler = h}}
Woken == [n \in Pid |-> IF n \in Due("task_wakeup") THEN "READY" ELSE state[n]]

\* timer_wakeup: the expired timers run their handlers, the others come
\* nearer.
TimerWakeup ==
  /\ beeping' = (beeping /\ Due("stop_beep") = {})
  /\ timers' = [i \in DOMAIN Unexpired |-> [Unexpired[i] EXCEPT !.left = @ - 1]]

\* Idle has made another task current and has not yet loaded its registers.
Loading == idleAt = "loading"

\* clock_handler: the timers, then at the end of its slice (sliceEnds; every
\* tick for idle, whose priority is 1) the current task is rescheduled; idle
\* goes on later where it was in its own switch_to.
ClockTick(sliceEnds) ==
  /\ pc[current] = "user" /\ ~Loading
  /\ current = Idle => sliceEnds
  /\ TimerWakeup
  /\ IF sliceEnds
     THEN Reschedule(Woken)
     ELSE state' = Woken /\ UNCHANGED <<current, panic>>
  /\ InterruptExit
  /\ UNCHANGED <<family, sigs, ioDone, idling>>

\* t waits for its device, which has not answered yet.
Awaited(t) == pc[t] \in {"io", "notify", "adopt"} /\ ~ioDone[t]

\* A device interrupt wakes the task its driver recorded as waiter.
DeviceInterrupt(t) ==
  /\ pc[current] = "user" /\ ~Loading
  /\ Awaited(t)
  /\ state' = [state EXCEPT ![t] = "READY"]
  /\ ioDone' = [ioDone EXCEPT ![t] = TRUE]
  /\ InterruptExit
  /\ UNCHANGED <<current, family, sigs, timing, idling, panic>>

\* An interrupt that leaves the states st comes while idle is loading the
\* registers of current.  interrupt_exit looks at the signals of current,
\* whose code is not the one that was interrupted: a SIGCHLD is dropped.  For
\* any other signal, and for a schedule() that finds another task, the stack
\* and the registers of idle are taken for those of current; what happens
\* then is not modelled.
InLoading(st, reschedule) ==
  /\ Loading
  /\ state' = st
  /\ signal' = [signal EXCEPT ![current] = @ \ {"CHLD"}]
  /\ panic' = IF \/ signal[current] \cap {"HUP", "TERM"} # {}
                 \/ reschedule /\ Schedule(st, current) # current
              THEN "two_stacks" ELSE panic
  /\ UNCHANGED <<current, pc, family, caught, idling>>

ClockTickLoading(sliceEnds) ==
  /\ InLoading(Woken, sliceEnds)
  /\ TimerWakeup
  /\ UNCHANGED ioDone

DeviceInterruptLoading(t) ==
  /\ Awaited(t)
  /\ InLoading([state EXCEPT ![t] = "READY"], FALSE)
  /\ ioDone' = [ioDone EXCEPT ![t] = TRUE]
  /\ UNCHANGED timing

-----------------------------------------------------------------------------
(* The loop of idle(): schedule() and switch_to() with IF set. *)

\* The scan of task_list.  A slot that it has passed may become READY before
\* it ends, so the task it finds is any READY one.
IdlePick(n) ==
  /\ current = Idle /\ idleAt = "loop"
  /\ n # Idle /\ state[n] = "READY"
  /\ idleAt' = "picked"
  /\ target' = n
  /\ UNCHANGED <<cpu, pc, family, sigs, timing, ioDone, panic>>

IdleDemote ==
  /\ current = Idle /\ idleAt = "picked"
  /\ state' = [state EXCEPT ![Idle] = IF @ = "RUNNING" THEN "READY" ELSE @]
  /\ idleAt' = "demoted"
  /\ UNCHANGED <<current, pc, family, sigs, timing, ioDone, target, panic>>

\* current = task_list[n], and the assertion that it is READY.
IdleSwitch ==
  /\ current = Idle /\ idleAt = "demoted"
  /\ IF state[target] = "READY"
     THEN /\ current' = target
          /\ state' = [state EXCEPT ![target] = "RUNNING"]
          /\ idleAt' = "loading"
          /\ UNCHANGED panic
     ELSE /\ panic' = "not_ready"
          /\ UNCHANGED <<cpu, idleAt>>
  /\ UNCHANGED <<pc, family, sigs, timing, ioDone, target>>

\* popf, the stack and the jump: from here the task of current runs.
IdleLoad ==
  /\ Loading
  /\ idleAt' = "loop"
  /\ target' = Idle
  /\ UNCHANGED <<cpu, pc, family, sigs, timing, ioDone, panic>>

IdleLoop == IdleDemote \/ IdleSwitch \/ IdleLoad \/ \E n \in Pid : IdlePick(n)

-----------------------------------------------------------------------------

Syscall(t) ==
  \/ Fork(t) \/ ForkTableFull(t)
  \/ Waitpid(t) \/ Yield(t) \/ Read(t) \/ CatchSignal(t) \/ Setsid(t)
  \/ Exit(t)
  \/ Beep(t)
  \/ \E d \in Durations : Sleep(t, d)
  \/ \E p \in Pid : Kill(t, p)

KernelStep(t) ==
  \/ WaitLoop(t) \/ ReadEnd(t) \/ Iret(t)
  \/ ExitBegin(t) \/ ExitRelease(t) \/ ExitWriteBack(t) \/ ExitNotify(t)
  \/ ExitAdopt(t)

Next ==
  /\ panic = "none"
  /\ \/ \E t \in Pid : current = t /\ ~Loading /\ (Syscall(t) \/ KernelStep(t))
     \/ \E sliceEnds \in BOOLEAN : ClockTick(sliceEnds) \/ ClockTickLoading(sliceEnds)
     \/ \E t \in Pid : DeviceInterrupt(t) \/ DeviceInterruptLoading(t)
     \/ IdleLoop

Spec == Init /\ [][Next]_vars

-----------------------------------------------------------------------------

Exiting(t) == pc[t] \in {"exit", "iput", "notify", "close", "adopt"}

Exists(n) == state[n] # "FREE"

(***************************************************************************)
(* The processor runs one process: none other than current is RUNNING,     *)
(* every wakeup, preemption and exit included, and those that interrupt    *)
(* idle between two parts of its own switch_to.  Idle itself may be left   *)
(* RUNNING by such an interrupt, see SwitchesToReady.                      *)
(***************************************************************************)
OneRunning == \A n \in Pid \ {Idle} : state[n] = "RUNNING" => n = current

(***************************************************************************)
(* "What can be scheduled is certainly a READY task" says switch_to of its *)
(* assertion.  Not so for idle, which may be interrupted between the       *)
(* choice and the switch: the task it chose has run and gone to sleep, or  *)
(* idle comes back RUNNING past its demotion and stays so.                 *)
(***************************************************************************)
SwitchesToReady == panic # "not_ready"

(***************************************************************************)
(* The process tree: the parent of every process is a task that still      *)
(* exists, and one that is dead has not yet handed its children over.      *)
(* task_tell_father and sys_waitpid rely on it after any order of forks,   *)
(* exits, reaping and reuse of slots.                                      *)
(***************************************************************************)
FamilyTree ==
  \A n \in Pid \ {Idle} : Exists(n) =>
    /\ Exists(ppid[n])
    /\ state[ppid[n]] = "DEAD" => Exiting(ppid[n])

(***************************************************************************)
(* A task that executes sys_exit or task_tell_father hits none of their    *)
(* assertions and panics.                                                  *)
(***************************************************************************)
NoExitPanic == panic \notin {"exit_state", "no_father"}

(***************************************************************************)
(* A process that has left sys_exit dead stays dead until its parent reaps *)
(* it: sys_exit keeps the PCB "so that the parent can waitpid", and no     *)
(* signal, timer or late answer of a device runs it again.  While it still *)
(* is in sys_exit the state DEAD may be overwritten by a sleep in iput or  *)
(* sys_close; it then comes to sys_exit again.                             *)
(***************************************************************************)
ZombieUntilReaped ==
  [][\A n \in Pid : state[n] = "DEAD" /\ ~Exiting(n)
                     => state'[n] \in {"DEAD", "FREE"}]_vars

(***************************************************************************)
(* No parent sleeps through the death of the child it waits for: once the  *)
(* child's exit is complete its parent has been woken and has not gone     *)
(* back to sleep.                                                          *)
(***************************************************************************)
WaitedChildIsReaped ==
  \A t, c \in Pid :
    ~ /\ state[t] = "WAITING" /\ arg[t] = c
      /\ state[c] = "DEAD" /\ ~Exiting(c) /\ ppid[c] = t

(***************************************************************************)
(* A parent that waits for its first child does not sleep on when that     *)
(* child has ended: the test of the child's state in sys_waitpid and the   *)
(* wakeup at the end of sys_exit miss each other in no order.              *)
(***************************************************************************)
WaitedFirstIsReaped ==
  \A t, c \in Pid :
    ~ /\ state[t] = "WAITING" /\ arg[t] = c /\ c = Min(Children(t))
      /\ state[c] = "DEAD" /\ ~Exiting(c)

(***************************************************************************)
(* A sleeping task has its timer: it cannot have been taken off            *)
(* timer_list by another task's exit or lost in the insertion.  The list   *)
(* is sorted, so looking at its head finds every expired timer, and no     *)
(* timer outlives its task, whose PCB task_wakeup would write to.  The     *)
(* timer that stops the speaker is there only while it sounds, once.       *)
(***************************************************************************)
SleepersHaveTimers ==
  /\ \A n \in Pid : state[n] = "SLEEPING" =>
       \E i \in DOMAIN timers :
         timers[i].task = n /\ timers[i].handler = "task_wakeup"
  /\ \A i, j \in DOMAIN timers : i < j => timers[i].left <= timers[j].left
  /\ \A i \in DOMAIN timers :
       state[timers[i].task] # "FREE"
         /\ (state[timers[i].task] = "DEAD" => Exiting(timers[i].task))
  /\ LET Stops == {i \in DOMAIN timers : timers[i].handler = "stop_beep"}
     IN  Cardinality(Stops) <= (IF beeping THEN 1 ELSE 0)

(***************************************************************************)
(* A task that waits for a device goes on only when the device has         *)
(* answered: "woken up only because the previous do_request ended" says    *)
(* device_request, and the drivers read their buffers on that ground.      *)
(***************************************************************************)
DeviceWaitsAreExact ==
  \A t \in Pid : pc[t] = "io" /\ state[t] # "BLOCKED" => ioDone[t]

(***************************************************************************)
(* Fairness: the current task executes; the clock ticks and ends slices,   *)
(* and a device that was asked answers.  Both are latched by the 8259      *)
(* while IF is clear.  Programs need not make system calls.                *)
(***************************************************************************)
Fairness ==
  /\ WF_vars(panic = "none" /\ ~Loading /\ KernelStep(current))
  /\ WF_vars(panic = "none" /\ IdleLoop)
  /\ SF_vars(panic = "none" /\ ClockTick(TRUE))
  /\ \A t \in Pid \ {Idle} : SF_vars(panic = "none" /\ DeviceInterrupt(t))

FairSpec == Spec /\ Fairness

(***************************************************************************)
(* schedule() is fair: a READY task other than idle gets the processor,    *)
(* whatever the others do, unless the kernel stops.                        *)
(***************************************************************************)
ReadyRuns ==
  \A t \in Pid \ {Idle} :
    state[t] = "READY" ~> (current = t \/ panic # "none")

(***************************************************************************)
(* Sleep ends: a sleeping task runs again unless the kernel stops.         *)
(***************************************************************************)
SleepEnds ==
  \A t \in Pid \ {Idle} :
    state[t] = "SLEEPING" ~> (current = t \/ panic # "none")
=============================================================================
