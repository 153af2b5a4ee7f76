------------------------------ MODULE Terminal -------------------------------
(***************************************************************************)
(* Terminal input: the keyboard interrupt and keyboard_read of             *)
(* kernel/keyboard.c, the line discipline and the foreground group of      *)
(* kernel/tty.c, the receiving half of kernel/serial.c, and the programs   *)
(* that share them, init and the shell of buildroot/ with its jobs.        *)
(*                                                                         *)
(* A task in the kernel runs with IF clear up to task_block, so interrupts *)
(* arrive in user mode and in the idle loop.  pc[t] is where task t is in  *)
(* the kernel:                                                             *)
(*   user      in its program, at the point at[t] of it                    *)
(*   iret      in interrupt_exit, before task_signal                       *)
(*   waitpid   at the head of the loop of sys_waitpid                      *)
(*   lock      in mutex_lock of the device it reads, from[t]               *)
(*   read      in the loop of keyboard_read or serial_read                 *)
(* at[t] is the next system call of its program: see Script.               *)
(*                                                                         *)
(* A ring is the sequence of its characters, which is what module Pipe     *)
(* shows of lib/kfifo.c.  init sleeps in waitpid for the shell and is left *)
(* out, and so is its slot of task_list.                                   *)
(***************************************************************************)
EXTENDS Sched, Sequences, FiniteSets

CONSTANTS
  BufSize,      \* of the rings, which hold one character less
  Line,         \* the characters that come in on the serial line
  Keys,         \* the keys of this keyboard: make codes
  Extended,     \* the ones that also come with 0xe0 in front of their code
  Counts,       \* the counts a job passes to read; the shell reads 1
  Sources,      \* the devices that jobs read
  None

ASSUME BufSizeAssumption == BufSize \in Nat \ {0, 1}
ASSUME CountsAssumption == Counts \subseteq Nat \ {0}
ASSUME SourcesAssumption == Sources \subseteq {"kbd", "com"}
ASSUME NoneAssumption == None \notin Nat

Shell == 1
Chars == {"c", "C", "l", "L", "/", "?", "1", "\n", "\r"}
Devices == {"kbd", "com"}

VARIABLES
  ring,       \* kb_fifo and serial->rx_fifo
  waiter,     \* fg_task and serial->rx_waiter
  holder,     \* the task that holds kb_mutex, serial->rlock
  queue,      \* the waiters of these mutexes
  down,       \* the modifiers that are down: keymap[..][2] and [3]
  extcode,    \* extcode_state
  capslock, numlock,
  foreground, \* typewriter.pgid
  state, current, pc,
  at,         \* the point of its program that each task has reached
  from, left, \* the device and the bytes missing of the read in progress
  ppid, pgid, waitpid,
  interrupted,\* the tasks with SIGINT pending
  caught,     \* the tasks with a handler for SIGINT
  handling,   \* the tasks in that handler, before it registers itself again
  unreached   \* a history variable: the tasks in `interrupted' for which the
              \* key that sent SIGINT was no key to read

keyboard == <<down, extcode, capslock, numlock>>
drivers  == <<ring, waiter, holder, queue>>
cpu      == <<state, current>>
reading  == <<from, left>>
family   == <<ppid, pgid, waitpid>>
sigs     == <<interrupted, caught, handling, unreached>>
vars == <<keyboard, drivers, foreground, cpu, pc, at, reading, family, sigs>>

\* The modifiers a scan code can put down: the second component is the index
\* in keymap, 3 after an extension code.
Modifiers == {<<"ctrl", 2>>, <<"ctrl", 3>>, <<"shift", 2>>}

(***************************************************************************)
(* The programs, as the system calls they make in order.  lsh: signal,     *)
(* setsid, ioctl(TIOCSPGRP), then reads until a line is complete; to run a *)
(* command it forks, waits and takes the terminal back.  Its child first   *)
(* restores the default action, takes the terminal, then makes its group.  *)
(***************************************************************************)
Script == [signal |-> "setsid", setsid |-> "settty", settty |-> "prompt",
           run |-> "wait", wait |-> "backtty", backtty |-> "prompt",
           default |-> "taketty", taketty |-> "setpgid", setpgid |-> "job"]

Points == DOMAIN Script \cup {"prompt", "job"}

TypeOK ==
  /\ ring \in [Devices -> Seq(Chars \cup Line)]
  /\ waiter \in [Devices -> Pid \cup {None}]
  /\ holder \in [Devices -> Pid \cup {None}]
  /\ queue \in [Devices -> Seq(Pid)]
  /\ down \subseteq Modifiers
  /\ {extcode, capslock, numlock} \subseteq BOOLEAN
  /\ foreground \in Pid
  /\ state \in [Pid -> TaskState]
  /\ current \in Pid
  /\ pc \in [Pid -> {"user", "iret", "waitpid", "lock", "read"}]
  /\ at \in [Pid -> Points]
  /\ from \in [Pid -> Devices]
  /\ left \in [Pid -> Nat]
  /\ {ppid, pgid, waitpid} \subseteq [Pid -> Pid]
  /\ {interrupted, caught, handling, unreached} \subseteq SUBSET Pid

\* After keyboard_init, serial_init, tty_init; init has started the shell.
Init ==
  /\ ring = [d \in Devices |-> << >>]
  /\ waiter = [d \in Devices |-> None]
  /\ holder = [d \in Devices |-> None]
  /\ queue = [d \in Devices |-> << >>]
  /\ down = {} /\ extcode = FALSE /\ capslock = FALSE /\ numlock = TRUE
  /\ foreground = 0
  /\ state = [n \in Pid |-> IF n \in {Idle, Shell} THEN "READY" ELSE "FREE"]
  /\ current = Idle
  /\ pc = [n \in Pid |-> "user"]
  /\ at = [n \in Pid |-> "signal"]
  /\ from = [n \in Pid |-> "kbd"]
  /\ left = [n \in Pid |-> 0]
  /\ ppid = [n \in Pid |-> 0]
  /\ pgid = [n \in Pid |-> 0]
  /\ waitpid = [n \in Pid |-> 0]
  /\ interrupted = {} /\ caught = {} /\ handling = {} /\ unreached = {}

Reschedule(st) ==
  /\ state' = AfterSchedule(st, current)
  /\ current' = Schedule(st, current)

Goto(t, label) == pc' = [pc EXCEPT ![t] = label]

\* t's program makes its next system call, unless it is in its handler.
Calling(t, point) ==
  /\ pc[t] = "user" /\ at[t] = point /\ t \notin handling

\* The call returns and the program goes on.
Return(t) ==
  /\ Goto(t, "iret")
  /\ at' = [at EXCEPT ![t] = Script[@]]

-----------------------------------------------------------------------------
(* The programs. *)

\* sys_signal(SIGINT, handler), one shot; in a handler, its first call.
Signal(t) ==
  /\ \/ Calling(t, "signal") /\ Return(t) /\ UNCHANGED handling
     \/ /\ pc[t] = "user" /\ t \in handling
        /\ handling' = handling \ {t}
        /\ Goto(t, "iret") /\ UNCHANGED at
  /\ caught' = caught \cup {t}
  /\ UNCHANGED <<keyboard, drivers, foreground, cpu, reading, family,
                 interrupted, unreached>>

\* sys_signal(SIGINT, SIG_DFL) in the child of the shell.
DefaultSignal(t) ==
  /\ Calling(t, "default") /\ Return(t)
  /\ caught' = caught \ {t}
  /\ UNCHANGED <<keyboard, drivers, foreground, cpu, reading, family,
                 interrupted, handling, unreached>>

\* sys_setsid of the shell and sys_setpgid(getpid(), getpid()) of its child.
OwnGroup(t) ==
  /\ Calling(t, "setsid") \/ Calling(t, "setpgid")
  /\ Return(t)
  /\ pgid' = [pgid EXCEPT ![t] = t]
  /\ UNCHANGED <<keyboard, drivers, foreground, cpu, reading, ppid, waitpid,
                 sigs>>

\* sys_ioctl(TIOCSPGRP, getpid()) -> tty_ioctl.
TakeTerminal(t) ==
  /\ \E point \in {"settty", "taketty", "backtty"} : Calling(t, point)
  /\ Return(t)
  /\ foreground' = t
  /\ UNCHANGED <<keyboard, drivers, cpu, reading, family, sigs>>

FreeSlots == {n \in Pid : state[n] = "FREE"}

\* What the child of a task at this point of its program runs.
ChildOf == [run |-> "default", job |-> "job"]

\* sys_fork by the shell, or by a job, whose child is of the same kind.  With
\* no free slot get_free_task panics (module Process).
Fork(t) ==
  /\ \E point \in DOMAIN ChildOf : Calling(t, point)
  /\ FreeSlots # {}
  /\ LET child == Min(FreeSlots)
         Inherit(f) == [f EXCEPT ![child] = f[t]]
         Copy(S) == IF t \in S THEN S \cup {child} ELSE S \ {child}
     IN  /\ state' = [state EXCEPT ![child] = "READY"]
         /\ pc' = [pc EXCEPT ![t] = "iret", ![child] = "iret"]
         /\ at' = [at EXCEPT ![t] = IF @ = "job" THEN @ ELSE Script[@],
                             ![child] = ChildOf[at[t]]]
         /\ ppid' = [ppid EXCEPT ![child] = t]
         /\ pgid' = Inherit(pgid)
         /\ waitpid' = [waitpid EXCEPT
                          ![t] = IF at[t] = "job" THEN 0 ELSE child,
                          ![child] = 0]
         /\ interrupted' = Copy(interrupted)
         /\ caught' = Copy(caught)
         /\ left' = [left EXCEPT ![child] = 0]
         /\ from' = [from EXCEPT ![child] = "kbd"]
  /\ UNCHANGED <<keyboard, drivers, foreground, current, handling, unreached>>

\* sys_waitpid is entered.
Wait(t) ==
  /\ Calling(t, "wait")
  /\ Goto(t, "waitpid")
  /\ UNCHANGED <<keyboard, drivers, foreground, cpu, at, reading, family, sigs>>

Children(t) == {n \in Pid \ {Idle} : state[n] # "FREE" /\ ppid[n] = t}

\* One turn of its loop, which looks at the first child only; the page of a
\* dead one is freed, so nothing of it is kept.
WaitLoop(t) ==
  /\ pc[t] = "waitpid"
  /\ LET first == Min(Children(t)) IN
     \/ /\ Children(t) # {} /\ state[first] # "DEAD"
        /\ Reschedule([state EXCEPT ![t] = "WAITING"])
        /\ UNCHANGED <<pc, at, reading, ppid, pgid, interrupted, caught,
                       unreached>>
     \/ /\ Children(t) # {} /\ state[first] = "DEAD"
        /\ state' = [state EXCEPT ![first] = "FREE"]
        /\ Goto(t, "iret")
        /\ at' = [at EXCEPT ![t] = Script[@], ![first] = "signal"]
        /\ from' = [from EXCEPT ![first] = "kbd"]
        /\ left' = [left EXCEPT ![first] = 0]
        /\ ppid' = [ppid EXCEPT ![first] = 0]
        /\ pgid' = [pgid EXCEPT ![first] = 0]
        /\ interrupted' = interrupted \ {first}
        /\ caught' = caught \ {first}
        /\ unreached' = unreached \ {first}
        /\ UNCHANGED current
  /\ UNCHANGED <<keyboard, drivers, foreground, waitpid, handling>>

\* sys_exit up to its last schedule(): the children go to the parent, the
\* parent that waits for t is woken.  tty->pgid keeps its value: task->tty,
\* the condition for clearing it, is never set.
Exit(t) ==
  /\ ppid' = [n \in Pid |-> IF state[n] # "FREE" /\ ppid[n] = t
                            THEN ppid[t] ELSE ppid[n]]
  /\ Reschedule([n \in Pid |->
       CASE n = t -> "DEAD"
         [] state[n] = "WAITING" /\ waitpid[n] = t -> "READY"
         [] OTHER -> state[n]])
  /\ handling' = handling \ {t}
  /\ UNCHANGED <<keyboard, drivers, foreground, at, reading, pgid, waitpid>>

\* A job ends.
JobExit(t) ==
  /\ Calling(t, "job")
  /\ Exit(t)
  /\ UNCHANGED <<pc, interrupted, caught, unreached>>

-----------------------------------------------------------------------------
(* keyboard_read and serial_read. *)

\* The shell reads one byte of the keyboard, a job what its program asks for.
Read(t, d, n) ==
  /\ \/ Calling(t, "prompt") /\ d = "kbd" /\ n = 1
     \/ Calling(t, "job") /\ d \in Sources /\ n \in Counts
  /\ from' = [from EXCEPT ![t] = d]
  /\ left' = [left EXCEPT ![t] = n]
  /\ Goto(t, "lock")
  /\ UNCHANGED <<keyboard, drivers, foreground, cpu, at, family, sigs>>

\* mutex_lock: a task that finds the lock taken joins its waiters.
Lock(t) ==
  LET d == from[t] IN
  /\ pc[t] = "lock"
  /\ IF holder[d] = None
     THEN /\ holder' = [holder EXCEPT ![d] = t]
          /\ Goto(t, "read")
          /\ UNCHANGED <<queue, cpu>>
     ELSE /\ queue' = [queue EXCEPT ![d] = Append(@, t)]
          /\ Reschedule([state EXCEPT ![t] = "BLOCKED"])
          /\ UNCHANGED <<holder, pc>>
  /\ UNCHANGED <<keyboard, ring, waiter, foreground, at, reading, family, sigs>>

kfifo_empty(r) == r = << >>

\* kfifo_put: a full ring loses its oldest character.
kfifo_put(r, ch) == Append(IF Len(r) = BufSize - 1 THEN Tail(r) ELSE r, ch)

\* The ring is empty: the driver remembers the task and blocks it.
ReadBlock(t) ==
  LET d == from[t] IN
  /\ pc[t] = "read" /\ kfifo_empty(ring[d])
  /\ waiter' = [waiter EXCEPT ![d] = t]
  /\ Reschedule([state EXCEPT ![t] = "BLOCKED"])
  /\ UNCHANGED <<keyboard, ring, holder, queue, foreground, pc, at, reading,
                 family, sigs>>

\* A byte of several.
ReadByte(t) ==
  LET d == from[t] IN
  /\ pc[t] = "read" /\ ~kfifo_empty(ring[d]) /\ left[t] > 1
  /\ ring' = [ring EXCEPT ![d] = Tail(@)]
  /\ left' = [left EXCEPT ![t] = @ - 1]
  /\ UNCHANGED <<keyboard, waiter, holder, queue, foreground, cpu, pc, at, from,
                 family, sigs>>

\* task_unblock(&mutex->waiters): the first waiter is READY, and schedule().
UnlockForgets(d) ==
  /\ holder' = [holder EXCEPT ![d] = None]
  /\ UNCHANGED <<queue, cpu>>

Unlock(d) ==
  /\ holder' = [holder EXCEPT ![d] = None]
  /\ IF queue[d] = << >>
     THEN UNCHANGED <<queue, cpu>>
     ELSE /\ queue' = [queue EXCEPT ![d] = Tail(@)]
          /\ Reschedule([state EXCEPT ![Head(queue[d])] = "READY"])

\* The last byte, mutex_unlock and return.  The line of a shell is complete
\* at a '\n' or '\r'; it then runs a command, or prompts again (an empty or
\* interrupted line).
ReadLast(t) ==
  LET d == from[t]
      complete == Head(ring[d]) \in {"\n", "\r"}
  IN
  /\ pc[t] = "read" /\ ~kfifo_empty(ring[d]) /\ left[t] = 1
  /\ ring' = [ring EXCEPT ![d] = Tail(@)]
  /\ left' = [left EXCEPT ![t] = 0]
  /\ Unlock(d)
  /\ Goto(t, "iret")
  /\ at' = at \/ /\ at[t] = "prompt" /\ complete
                 /\ at' = [at EXCEPT ![t] = "run"]
  /\ UNCHANGED <<keyboard, waiter, foreground, from, family, sigs>>

-----------------------------------------------------------------------------
(* Interrupts and the way back to user mode. *)

InterruptExit ==
  pc' = [pc EXCEPT ![current] = IF current = Idle THEN "user" ELSE "iret"]

WakeupNobody(st, d) == st

\* task_intr_unblock_no_waiting_list(waiter) of device d.
Wakeup(st, d) == IF waiter[d] = None THEN st ELSE [st EXCEPT ![waiter[d]] = "READY"]

\* The keyboard keeps a character only for a task that waits for it.
Keeps(d) == d = "com" \/ waiter[d] # None

DeliverAgain(d, ch, st) ==
  /\ IF Keeps(d)
     THEN ring' = [ring EXCEPT ![d] = kfifo_put(@, ch)]
     ELSE UNCHANGED ring
  /\ state' = Wakeup(st, d)
  /\ UNCHANGED <<waiter, holder, queue, current>>

\* The end of keyboard_handler, and recv_data, once st are the task states.
Deliver(d, ch, st) ==
  /\ IF Keeps(d)
     THEN ring' = [ring EXCEPT ![d] = kfifo_put(@, ch)]
     ELSE UNCHANGED ring
  /\ state' = Wakeup(st, d)
  /\ waiter' = [waiter EXCEPT ![d] = None]
  /\ UNCHANGED <<holder, queue, current>>

INV == "INV"

\* keymap: the character of a key, without and with shift.
keymap == [c |-> <<"c", "C">>, l |-> <<"l", "L">>, enter |-> <<"\n", "\n">>,
           slash |-> <<"/", "?">>, pad1 |-> <<"1", INV>>,
           ctrl |-> <<INV, INV>>, shift |-> <<INV, INV>>]

Letters == {"c", "l"}
Pad == {"pad1"}

\* The character that a make code stands for.
Ascii(key) ==
  LET shift == <<"shift", 2>> \in down
      second == CASE extcode /\ key # "slash" -> TRUE
                  [] key \in Pad -> ~numlock
                  [] key \in Letters -> capslock # shift
                  [] OTHER -> shift
  IN  keymap[key][IF second THEN 2 ELSE 1]

Ctrl(mods) == mods \cap {<<"ctrl", 2>>, <<"ctrl", 3>>} # {}

\* sys_kill(SIGINT) for each task of the foreground group: init and kernel
\* tasks are refused, and only a waiting or sleeping task is woken.
Group == {n \in Pid \ {Idle} :
            foreground # 0 /\ state[n] # "FREE" /\ pgid[n] = foreground}

Interrupt(st) ==
  [n \in Pid |-> IF n \in Group /\ st[n] \in {"WAITING", "SLEEPING"}
                 THEN "READY" ELSE st[n]]

\* tty_rx_notify under ctrl: c interrupts the group and reads as '\n', l
\* clears the screen and reads as '\r', any other key is swallowed.
Control == [c |-> "\n", C |-> "\n", l |-> "\r", L |-> "\r"]

\* A task that is in line for a lock, or reads the serial line.
OutOfReach(t) == pc[t] = "lock" \/ (pc[t] = "read" /\ from[t] = "com")

Signalled(ch) == IF ch \in {"c", "C"} THEN Group ELSE {}

ControlKeySwallowed(ch) ==
  /\ interrupted' = interrupted \cup Signalled(ch)
  /\ unreached' = unreached \cup {n \in Signalled(ch) : OutOfReach(n)}
  /\ state' = IF ch \in {"c", "C"} THEN Interrupt(state) ELSE state
  /\ UNCHANGED <<drivers, current>>

ControlKey(ch) ==
  /\ interrupted' = interrupted \cup Signalled(ch)
  /\ unreached' = unreached \cup {n \in Signalled(ch) : OutOfReach(n)}
  /\ IF ch \in DOMAIN Control
     THEN Deliver("kbd", Control[ch],
                  IF ch \in {"c", "C"} THEN Interrupt(state) ELSE state)
     ELSE UNCHANGED <<drivers, cpu>>

Interruptible == pc[current] = "user"

\* A lock key, or one without a character.
Unheard(key) == key \in {"capslock", "numlock"} \/ Ascii(key) = INV

\* keyboard_handler for a make code: the key is down, a lock changes, or its
\* character goes through tty_rx_notify to the reader.
KeyPress(key) ==
  /\ Interruptible /\ (extcode => key \in Extended)
  /\ extcode' = FALSE
  /\ LET mod == <<key, IF extcode THEN 3 ELSE 2>>
     IN  down' = IF mod \in Modifiers THEN down \cup {mod} ELSE down
  /\ capslock' = (capslock # (key = "capslock"))
  /\ numlock' = (numlock # (key = "numlock"))
  /\ IF Unheard(key)
     THEN UNCHANGED <<interrupted, unreached, drivers, cpu>>
     ELSE IF Ctrl(down)
          THEN ControlKey(Ascii(key))
          ELSE /\ Deliver("kbd", Ascii(key), state)
               /\ UNCHANGED <<interrupted, unreached>>
  /\ InterruptExit
  /\ UNCHANGED <<foreground, at, reading, family, caught, handling>>

\* keyboard_handler for a break code.
KeyRelease(key) ==
  /\ Interruptible /\ (extcode => key \in Extended)
  /\ extcode' = FALSE
  /\ down' = down \ {<<key, IF extcode THEN 3 ELSE 2>>}
  /\ InterruptExit
  /\ UNCHANGED <<capslock, numlock, drivers, foreground, cpu, at, reading,
                 family, sigs>>

\* keyboard_handler for 0xe0.
KeyExtend ==
  /\ Interruptible /\ ~extcode /\ Extended # {}
  /\ extcode' = TRUE
  /\ InterruptExit
  /\ UNCHANGED <<down, capslock, numlock, drivers, foreground, cpu, at, reading,
                 family, sigs>>

\* serial_handler -> recv_data; a '\r' is received as '\n'.
SerialReceive(ch) ==
  /\ Interruptible
  /\ Deliver("com", IF ch = "\r" THEN "\n" ELSE ch, state)
  /\ InterruptExit
  /\ UNCHANGED <<keyboard, foreground, at, reading, family, sigs>>

\* clock_handler at the end of a slice.
ClockTick ==
  /\ Interruptible
  /\ Reschedule(state)
  /\ InterruptExit
  /\ UNCHANGED <<keyboard, drivers, foreground, at, reading, family, sigs>>

\* The loop of idle().
IdleLoop ==
  /\ current = Idle /\ Schedule(state, current) # Idle
  /\ Reschedule(state)
  /\ UNCHANGED <<keyboard, drivers, foreground, pc, at, reading, family, sigs>>

\* interrupt_exit -> task_signal.
Iret(t) ==
  /\ pc[t] = "iret"
  /\ Goto(t, "user")
  /\ interrupted' = interrupted \ {t}
  /\ unreached' = unreached \ {t}
  /\ \/ /\ t \notin interrupted
        /\ UNCHANGED <<keyboard, drivers, foreground, cpu, at, reading, family,
                       caught, handling>>
     \/ /\ t \in interrupted /\ t \in caught
        /\ caught' = caught \ {t}
        /\ handling' = handling \cup {t}
        /\ UNCHANGED <<keyboard, drivers, foreground, cpu, at, reading, family>>
     \/ /\ t \in interrupted /\ t \notin caught
        /\ Exit(t)
        /\ UNCHANGED caught

-----------------------------------------------------------------------------

ProgramStep(t) ==
  \/ Signal(t) \/ DefaultSignal(t) \/ OwnGroup(t) \/ TakeTerminal(t)
  \/ Fork(t) \/ Wait(t) \/ JobExit(t)
  \/ \E d \in Devices, n \in Counts \cup {1} : Read(t, d, n)

KernelStep(t) ==
  \/ WaitLoop(t) \/ Lock(t) \/ ReadBlock(t) \/ ReadByte(t) \/ ReadLast(t)
  \/ Iret(t)

Typing ==
  \/ \E key \in Keys : KeyPress(key) \/ KeyRelease(key)
  \/ KeyExtend
  \/ \E ch \in Line : SerialReceive(ch)

Next ==
  \/ \E t \in Pid \ {Idle} : current = t /\ (ProgramStep(t) \/ KernelStep(t))
  \/ Typing
  \/ ClockTick
  \/ IdleLoop

(***************************************************************************)
(* The clock interrupt has the highest priority and stays pending while IF *)
(* is clear, so it is taken again and again however much is typed.  The    *)
(* kernel runs on; programs and typists need not.                          *)
(***************************************************************************)
Fairness ==
  /\ SF_vars(ClockTick) /\ WF_vars(IdleLoop)
  /\ \A t \in Pid \ {Idle} : WF_vars(current = t /\ KernelStep(t))

Spec == Init /\ [][Next]_vars /\ Fairness

-----------------------------------------------------------------------------
(* Properties. *)

(***************************************************************************)
(* No lost wakeup: a task sleeps in keyboard_read or serial_read exactly   *)
(* when the driver remembers it, and then its ring is empty; the assertion *)
(* of serial_read, that nobody else is remembered, therefore holds.        *)
(***************************************************************************)
ReadersAreKnown ==
  \A d \in Devices, t \in Pid :
    /\ (waiter[d] = t) <=> (pc[t] = "read" /\ from[t] = d
                              /\ state[t] = "BLOCKED")
    /\ waiter[d] = t => kfifo_empty(ring[d])

(***************************************************************************)
(* A read lock never outlives the call that took it, although Ctrl-C kills *)
(* readers: the holder is the task inside the read, and whoever sleeps on  *)
(* the lock is queued once and sleeps for a holder that will wake it or    *)
(* for a waiter that already has been woken.                               *)
(***************************************************************************)
ReadLocks ==
  \A d \in Devices :
    /\ \A t \in Pid : (holder[d] = t) <=> (pc[t] = "read" /\ from[t] = d)
    /\ \A t \in Pid :
         Cardinality({i \in DOMAIN queue[d] : queue[d][i] = t}) =
           IF pc[t] = "lock" /\ from[t] = d /\ state[t] = "BLOCKED" THEN 1 ELSE 0
    /\ queue[d] # << >> =>
         \/ holder[d] # None
         \/ \E t \in Pid : /\ pc[t] = "lock" /\ from[t] = d
                            /\ state[t] \in {"READY", "RUNNING"}

(***************************************************************************)
(* Job control of the shell: while it prompts, the terminal is its own.    *)
(* With four slots besides idle TLC refutes it: waitpid returns for an     *)
(* orphan in front of the new job, and the job takes the terminal later.   *)
(***************************************************************************)
PromptOwnsTerminal ==
  \A t \in Pid : state[t] # "FREE" /\ at[t] \in {"prompt", "run"}
                   => foreground = t /\ pgid[t] = t

\* A character kept by the keyboard driver is read: the woken reader gets the
\* processor and the ring does not hold its character for ever.
KeysAreRead == ~kfifo_empty(ring["kbd"]) ~> kfifo_empty(ring["kbd"])

(***************************************************************************)
(* Ctrl-C ends every task of the foreground group that computes or reads   *)
(* single characters of the keyboard: SIGINT is not left pending.  The one *)
(* that sleeps for a key is BLOCKED and sys_kill wakes nobody who is       *)
(* BLOCKED; that Ctrl-C also reads as '\n' is what gets it out of the      *)
(* kernel.  A task that was waiting for the serial line, or for the lock   *)
(* of the keyboard behind that reader, is not reached.                     *)
(***************************************************************************)
CtrlCEndsJob ==
  \A t \in Pid \ {Idle, Shell} :
    (at[t] = "job" /\ state[t] # "DEAD" /\ t \in interrupted \ unreached)
      ~> state[t] \in {"DEAD", "FREE"}
=============================================================================
