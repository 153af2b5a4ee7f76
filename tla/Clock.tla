-------------------------------- MODULE Clock --------------------------------
(***************************************************************************)
(* The clock interrupt of kernel/clock.c and the timer list of             *)
(* kernel/timer.c with the arithmetic they use: jiffies and                *)
(* timer->expires are unsigned words of W bits that wrap around (W = 32 in *)
(* the code), list_insert_sort of lib/list.c compares its keys as signed   *)
(* words, and task->ticks is the rest of a task's slice.                   *)
(*                                                                         *)
(* Programs do nothing here but run, yield and sleep.  `due' remembers, as *)
(* a number that does not wrap, the tick at which a timer was asked to     *)
(* expire, and `now' is the number of ticks since boot: the properties     *)
(* compare what the words say with what was asked.                         *)
(***************************************************************************)
EXTENDS Sched, SequencesExt

CONSTANTS
  W,            \* bits of a word
  Priority,     \* task->priority of every task
  Delays,       \* ticks that programs sleep
  Boot,         \* a value of jiffies after which the instance looks at
  Uptime        \* the tick at which it stops looking

ASSUME WAssumption == W \in Nat \ {0}
\* Arithmetic of words, as the proofs use it.
ASSUME WordAssumption ==
  /\ 2^W \in Nat /\ 2^(W-1) \in Nat \ {0}
  /\ 2^W = 2 * 2^(W-1)
ASSUME PriorityAssumption == Priority \in [Pid -> Nat \ {0}]
ASSUME DelaysAssumption == Delays \subseteq Nat
ASSUME TimeAssumption == Boot \in Nat /\ Uptime \in Nat /\ Boot <= Uptime

VARIABLES
  jiffies,      \* u32 volatile jiffies
  now,          \* ticks since boot
  timers,       \* timer_list
  state,        \* task->state
  current,      \* pid of current
  ticks,        \* task->ticks
  panic         \* whether timer_wakeup ran off the end of an empty list

clockVars == <<jiffies, now, timers, state, current, ticks, panic>>

Word == 0 .. 2^W - 1
EOF  == 2^W - 1

Timer == [task : Pid, expires : Word, due : Nat]

ClockTypeOK ==
  /\ jiffies \in Word
  /\ now \in Boot .. Uptime
  /\ timers \in Seq(Timer)
  /\ state \in [Pid -> {"RUNNING", "READY", "SLEEPING"}]
  /\ current \in Pid
  /\ ticks \in [Pid -> Nat]
  /\ panic \in BOOLEAN

\* The machine has been up for Boot ticks and nobody sleeps.
ClockInit ==
  /\ jiffies = Boot % 2^W
  /\ now = Boot
  /\ timers = << >>
  /\ state = [n \in Pid |-> "READY"]
  /\ current = Idle
  /\ ticks = Priority
  /\ panic = FALSE

Reschedule(st) ==
  /\ state' = AfterSchedule(st, current)
  /\ current' = Schedule(st, current)

-----------------------------------------------------------------------------

\* element_node_key reads the key as an int.
Signed(w) == IF w >= 2^(W-1) THEN w - 2^W ELSE w

InsertFirst(list, timer) == << timer >> \o list

\* list_insert_sort: in front of the first timer whose key is greater.
InsertSorted(list, timer) ==
  LET greater == {i \in DOMAIN list :
                    Signed(list[i].expires) > Signed(timer.expires)}
      at == IF greater = {} THEN Len(list) + 1 ELSE Min(greater)
  IN  InsertAt(list, at, timer)

\* sys_sleep: timer_add(ms, task_wakeup) and schedule().
Sleep(t, d) ==
  /\ current = t /\ t # Idle
  /\ timers' = InsertSorted(timers, [task    |-> t,
                                     expires |-> (jiffies + d) % 2^W,
                                     due     |-> now + d])
  /\ Reschedule([state EXCEPT ![t] = "SLEEPING"])
  /\ UNCHANGED <<jiffies, now, ticks, panic>>

\* sys_yield, and the loop of idle.
Yield(t) ==
  /\ current = t
  /\ Schedule(state, current) # current
  /\ Reschedule(state)
  /\ UNCHANGED <<jiffies, now, timers, ticks, panic>>

ExpiredEarly(j) ==
  Max({k \in 0 .. Len(timers) : \A i \in 1 .. k : timers[i].expires <= j + 1})

\* How many timers the loop of timer_wakeup takes off the head of the list
\* when jiffies is j.
Expired(j) ==
  Max({k \in 0 .. Len(timers) : \A i \in 1 .. k : timers[i].expires <= j})

\* timer_wakeup unlinks the n timers that it has run.
Remaining(n) == SubSeq(timers, n + 1, Len(timers))

NoRefill(t, left) == left

\* The slice of the current task after the tick that leaves it `left' ticks.
Refill(t, left) == IF left <= 0 THEN Priority[t] ELSE left

(***************************************************************************)
(* clock_handler: count the tick, run the expired timers (task_wakeup      *)
(* makes the task READY with a new slice), charge the current task, and    *)
(* reschedule when its slice is used up.  On an empty list timer_expires   *)
(* returns EOF, the greatest word: at that value of jiffies the loop takes *)
(* the tail of the list for a timer.                                       *)
(***************************************************************************)
ClockHandler ==
  LET j == (jiffies + 1) % 2^W
      n == Expired(j)
      woken == {timers[i].task : i \in 1 .. n}
      st == [t \in Pid |-> IF t \in woken THEN "READY" ELSE state[t]]
      charged == [t \in Pid |-> IF t \in woken THEN Priority[t] ELSE ticks[t]]
      left == charged[current] - 1
  IN  /\ now < Uptime
      /\ jiffies' = j
      /\ now' = now + 1
      /\ timers' = Remaining(n)
      /\ panic' = (n = Len(timers) /\ EOF <= j)
      /\ ticks' = [charged EXCEPT ![current] = Refill(current, left)]
      /\ IF left <= 0
         THEN Reschedule(st)
         ELSE state' = st /\ UNCHANGED current

ClockNext ==
  /\ ~panic
  /\ \/ ClockHandler
     \/ \E t \in Pid : Yield(t) \/ \E d \in Delays : Sleep(t, d)

ClockSpec == ClockInit /\ [][ClockNext]_clockVars

-----------------------------------------------------------------------------

(***************************************************************************)
(* No timer is late: after every clock interrupt the list holds only       *)
(* timers whose time is still to come ("wake the timers in the list that   *)
(* have expired", clock_handler), whatever the order in which sleeps were  *)
(* added.  It needs the list to be in order of expiry, which it is up to   *)
(* the sign bit: with Uptime past 2^(W-1) TLC refutes the property.        *)
(***************************************************************************)
NoLateTimer ==
  [][now' > now => \A i \in DOMAIN timers' : timers'[i].due > now']_clockVars

(***************************************************************************)
(* No task wakes up early: a task leaves its sleep only at a tick that is  *)
(* not before the one it asked for.                                        *)
(***************************************************************************)
NoEarlyWakeup ==
  [][\A i \in DOMAIN timers :
       (\A k \in DOMAIN timers' : timers'[k] # timers[i])
         => now' >= timers[i].due]_clockVars

(***************************************************************************)
(* schedule() skips tasks without ticks.  No task ever waits without any,  *)
(* so that test hides no READY task and module Sched may leave it out.     *)
(***************************************************************************)
SlicesNeverEmpty == \A t \in Pid : ticks[t] > 0 /\ ticks[t] <= Priority[t]
=============================================================================
