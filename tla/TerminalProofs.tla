---------------------------- MODULE TerminalProofs ----------------------------
(***************************************************************************)
(* Proofs about terminal input for every number of tasks, every keyboard   *)
(* and every count that programs read: the wakeups and the locks of        *)
(* keyboard_read and serial_read.                                          *)
(***************************************************************************)
EXTENDS Terminal, SchedProofs, FiniteSetTheorems

\* The states of a task that is not asleep, dead or absent.
Awake == {"READY", "RUNNING"}

Label == {"user", "iret", "waitpid", "lock", "read"}

\* Inside keyboard_read or serial_read.
Driver == {"lock", "read"}

-----------------------------------------------------------------------------
(* The inductive invariant. *)

(***************************************************************************)
(* The types that the argument needs.                                      *)
(***************************************************************************)
DriverTypes ==
  /\ DOMAIN ring = Devices
  /\ waiter \in [Devices -> Pid \cup {None}]
  /\ holder \in [Devices -> Pid \cup {None}]
  /\ queue \in [Devices -> Seq(Pid)]
  /\ state \in [Pid -> TaskState]
  /\ current \in Pid
  /\ pc \in [Pid -> Label]
  /\ from \in [Pid -> Devices]

(***************************************************************************)
(* The task that runs and the idle task are awake, the idle task is in its *)
(* loop, and a dead or absent task left nothing in the kernel.             *)
(***************************************************************************)
TasksSane ==
  /\ state[current] \in Awake
  /\ state[Idle] \in Awake /\ pc[Idle] = "user"
  /\ \A t \in Pid : state[t] \in {"FREE", "DEAD"} => pc[t] = "user"

(***************************************************************************)
(* ReadLocks with membership and no repetition for the cardinality.        *)
(***************************************************************************)
LocksKnown ==
  \A d \in Devices :
    /\ \A t \in Pid : (holder[d] = t) <=> (pc[t] = "read" /\ from[t] = d)
    /\ \A t \in Pid : Queued(queue[d], t)
         <=> (pc[t] = "lock" /\ from[t] = d /\ state[t] = "BLOCKED")
    /\ \A i, j \in DOMAIN queue[d] : queue[d][i] = queue[d][j] => i = j
    /\ queue[d] # << >> =>
         \/ holder[d] # None
         \/ \E t \in Pid : pc[t] = "lock" /\ from[t] = d /\ state[t] \in Awake

ReadInv == DriverTypes /\ TasksSane /\ ReadersAreKnown /\ LocksKnown

-----------------------------------------------------------------------------
(* Lemmas. *)

(***************************************************************************)
(* A pid is a number, so None, which stands for NULL, is none of them.     *)
(***************************************************************************)
LEMMA PidFacts == Pid \subseteq Nat /\ Idle \in Pid /\ None \notin Pid
  BY TaskNrAssumption, NoneAssumption DEF Pid, Idle

(***************************************************************************)
(* schedule() from the states st: the task it leaves on the processor and  *)
(* the idle task are awake, and nobody falls asleep, wakes, dies or comes  *)
(* to life by it.                                                          *)
(***************************************************************************)
LEMMA RescheduleKeeps ==
  ASSUME NEW st \in [Pid -> TaskState], st[Idle] \in Awake, current \in Pid,
         Reschedule(st)
  PROVE  /\ state' \in [Pid -> TaskState] /\ current' \in Pid
         /\ state'[current'] \in Awake /\ state'[Idle] \in Awake
         /\ \A n \in Pid : \A s \in TaskState \ Awake : state'[n] = s <=> st[n] = s
         /\ \A n \in Pid : state'[n] \in Awake <=> st[n] \in Awake
<1> DEFINE n == Schedule(st, current)
<1>1. /\ n \in Pid
      /\ n = Idle \/ st[n] = "READY"
  BY ScheduleReady
<1> HIDE DEF n
<1>2. state' = SwitchTo(st, current, n) /\ current' = n
  BY DEF Reschedule, AfterSchedule, n
<1>3. Idle \in Pid
  BY PidFacts
<1>4. CASE n = current
  BY <1>1, <1>2, <1>3, <1>4 DEF SwitchTo, Awake, TaskState
<1>5. CASE n # current
  <2>1. state' = [st EXCEPT ![current] = IF @ = "RUNNING" THEN "READY" ELSE @,
                            ![n] = "RUNNING"]
    BY <1>2, <1>5 DEF SwitchTo
  <2>2. state' \in [Pid -> TaskState]
    BY <1>1, <2>1 DEF TaskState
  <2>3. st[n] \in Awake
    BY <1>1 DEF Awake
  <2>4. ASSUME NEW m \in Pid
        PROVE  /\ \A s \in TaskState \ Awake : state'[m] = s <=> st[m] = s
               /\ state'[m] \in Awake <=> st[m] \in Awake
    BY <1>1, <2>1, <2>3 DEF Awake, TaskState
  <2> QED BY <1>1, <1>2, <1>3, <2>2, <2>3, <2>4
<1> QED BY <1>4, <1>5

(***************************************************************************)
(* A step that touches neither the drivers nor a task inside them cannot   *)
(* lose a wakeup or a lock.                                                *)
(***************************************************************************)
LEMMA Undisturbed ==
  ASSUME ReadersAreKnown, LocksKnown, UNCHANGED drivers,
         \A t \in Pid : \A l \in Driver : pc'[t] = l <=> pc[t] = l,
         \A t \in Pid : pc[t] \in Driver =>
           /\ from'[t] = from[t]
           /\ state'[t] = "BLOCKED" <=> state[t] = "BLOCKED"
           /\ state[t] \in Awake => state'[t] \in Awake
  PROVE  ReadersAreKnown' /\ LocksKnown'
<1>1. \A t \in Pid : /\ pc'[t] = "read" <=> pc[t] = "read"
                     /\ pc'[t] = "lock" <=> pc[t] = "lock"
                     /\ pc[t] \in {"lock", "read"} =>
                          /\ from'[t] = from[t]
                          /\ state'[t] = "BLOCKED" <=> state[t] = "BLOCKED"
                          /\ state[t] \in Awake => state'[t] \in Awake
  BY DEF Driver
<1>2. ring' = ring /\ waiter' = waiter /\ holder' = holder /\ queue' = queue
  BY DEF drivers
<1>3. ReadersAreKnown'
  BY <1>1, <1>2 DEF ReadersAreKnown
<1>4. ASSUME NEW d \in Devices, NEW t \in Pid
      PROVE  /\ (holder'[d] = t) <=> (pc'[t] = "read" /\ from'[t] = d)
             /\ Queued(queue'[d], t) <=> (pc'[t] = "lock" /\ from'[t] = d
                                             /\ state'[t] = "BLOCKED")
  BY <1>1, <1>2 DEF LocksKnown
<1>5. ASSUME NEW d \in Devices
      PROVE  /\ \A i, j \in DOMAIN queue'[d] : queue'[d][i] = queue'[d][j] => i = j
             /\ queue'[d] # << >> =>
                  \/ holder'[d] # None
                  \/ \E t \in Pid : /\ pc'[t] = "lock" /\ from'[t] = d
                                     /\ state'[t] \in Awake
  BY <1>1, <1>2 DEF LocksKnown
<1>6. LocksKnown'
  BY <1>4, <1>5 DEF LocksKnown
<1> QED BY <1>3, <1>6

(***************************************************************************)
(* The invariant holds when the shell starts.                              *)
(***************************************************************************)
LEMMA ReadInit == Init => ReadInv
<1> SUFFICES ASSUME Init PROVE ReadInv
  OBVIOUS
<1> USE DEF Init
<1>1. DriverTypes
  <2>1. Idle \in Pid /\ << >> \in Seq(Pid)
    BY PidFacts
  <2> QED BY <2>1 DEF DriverTypes, Devices, Label, TaskState
<1>2. TasksSane
  BY PidFacts DEF TasksSane, Awake
<1>3. ReadersAreKnown
  BY PidFacts DEF ReadersAreKnown
<1>4. LocksKnown
  BY PidFacts DEF LocksKnown, Queued
<1> QED BY <1>1, <1>2, <1>3, <1>4 DEF ReadInv

(***************************************************************************)
(* A step of a program that stays out of the drivers and keeps the         *)
(* processor.                                                              *)
(***************************************************************************)
LEMMA QuietCall ==
  ASSUME ReadInv, NEW t \in Pid \ {Idle}, current = t, pc[t] \notin Driver,
         NEW l \in Label \ Driver, pc' = [pc EXCEPT ![t] = l],
         UNCHANGED <<drivers, cpu, from>>
  PROVE  ReadInv'
<1>1. DriverTypes /\ TasksSane /\ ReadersAreKnown /\ LocksKnown
  BY DEF ReadInv
<1>2. /\ UNCHANGED drivers /\ state' = state /\ current' = current
      /\ from' = from
  BY DEF cpu
<1>3. DriverTypes'
  BY <1>1, <1>2 DEF DriverTypes, drivers
<1>4. state[t] \in Awake /\ pc \in [Pid -> Label]
  BY <1>1 DEF TasksSane, DriverTypes
<1>5. TasksSane'
  BY <1>1, <1>2, <1>4 DEF TasksSane, Awake
<1>6. \A n \in Pid : \A k \in Driver : pc'[n] = k <=> pc[n] = k
  BY <1>4
<1>7. ReadersAreKnown' /\ LocksKnown'
  BY <1>1, <1>2, <1>6, Undisturbed
<1> QED BY <1>3, <1>5, <1>7 DEF ReadInv

(***************************************************************************)
(* A step that leaves the drivers alone and ends in schedule() from the    *)
(* states st, in which the same tasks sleep in a driver.                   *)
(***************************************************************************)
LEMMA QuietSchedule ==
  ASSUME ReadInv, UNCHANGED <<drivers, from>>,
         pc' \in [Pid -> Label], pc'[Idle] = "user",
         \A n \in Pid : \A k \in Driver : pc'[n] = k <=> pc[n] = k,
         NEW st \in [Pid -> TaskState], st[Idle] \in Awake,
         \A n \in Pid : st[n] \in {"FREE", "DEAD"} => pc'[n] = "user",
         \A n \in Pid : pc[n] \in Driver =>
           /\ st[n] = "BLOCKED" <=> state[n] = "BLOCKED"
           /\ state[n] \in Awake => st[n] \in Awake,
         Reschedule(st)
  PROVE  ReadInv'
<1>1. DriverTypes /\ TasksSane /\ ReadersAreKnown /\ LocksKnown /\ current \in Pid
  BY DEF ReadInv, DriverTypes
<1>2. UNCHANGED drivers /\ from' = from
  OBVIOUS
<1>3. /\ state' \in [Pid -> TaskState] /\ current' \in Pid
      /\ state'[current'] \in Awake /\ state'[Idle] \in Awake
      /\ \A n \in Pid : \A s \in TaskState \ Awake : state'[n] = s <=> st[n] = s
      /\ \A n \in Pid : state'[n] \in Awake <=> st[n] \in Awake
  BY <1>1, RescheduleKeeps
<1>4. \A n \in Pid : /\ state'[n] = "BLOCKED" <=> st[n] = "BLOCKED"
                     /\ state'[n] = "FREE" <=> st[n] = "FREE"
                     /\ state'[n] = "DEAD" <=> st[n] = "DEAD"
  BY <1>3 DEF TaskState, Awake
<1>5. DriverTypes'
  BY <1>1, <1>2, <1>3 DEF DriverTypes, drivers
<1>6. TasksSane'
  BY <1>3, <1>4 DEF TasksSane
<1>7. ReadersAreKnown' /\ LocksKnown'
  BY <1>1, <1>2, <1>3, <1>4, Undisturbed
<1> QED BY <1>5, <1>6, <1>7 DEF ReadInv

(***************************************************************************)
(* fork puts a task into a free slot, which has nothing in the kernel.     *)
(***************************************************************************)
LEMMA ForkRead ==
  ASSUME ReadInv, NEW t \in Pid \ {Idle}, current = t, Fork(t)
  PROVE  ReadInv'
<1> DEFINE child == Min(FreeSlots)
<1>1. DriverTypes /\ TasksSane /\ ReadersAreKnown /\ LocksKnown
  BY DEF ReadInv
<1>2. child \in Pid /\ state[child] = "FREE"
  <2>1. FreeSlots \in SUBSET Nat /\ FreeSlots # {}
    BY PidFacts DEF FreeSlots, Fork
  <2>2. child \in FreeSlots
    BY <2>1, MinExists
  <2> QED BY <2>2 DEF FreeSlots
<1>3. /\ state' = [state EXCEPT ![child] = "READY"]
      /\ pc' = [pc EXCEPT ![t] = "iret", ![child] = "iret"]
      /\ from' = [from EXCEPT ![child] = "kbd"]
      /\ UNCHANGED drivers /\ current' = current
      /\ pc[t] = "user"
  BY DEF Fork, Calling
<1> HIDE DEF child
<1>4. /\ state \in [Pid -> TaskState] /\ pc \in [Pid -> Label]
      /\ from \in [Pid -> Devices]
      /\ state[t] \in Awake /\ state[Idle] \in Awake /\ pc[child] = "user"
      /\ child # t /\ child # Idle
  BY <1>1, <1>2 DEF DriverTypes, TasksSane, Awake
<1>5. DriverTypes'
  BY <1>1, <1>2, <1>3, <1>4 DEF DriverTypes, drivers, TaskState, Label, Devices
<1>6. TasksSane'
  BY <1>1, <1>2, <1>3, <1>4, PidFacts DEF TasksSane, Awake
<1>7. \A n \in Pid : \A k \in Driver : pc'[n] = k <=> pc[n] = k
  BY <1>2, <1>3, <1>4 DEF Driver
<1>8. \A n \in Pid : pc[n] \in Driver => n # child
  BY <1>4 DEF Driver
<1>9. \A n \in Pid : n # child => from'[n] = from[n] /\ state'[n] = state[n]
  BY <1>3, <1>4
<1>10. ReadersAreKnown' /\ LocksKnown'
  BY <1>1, <1>3, <1>7, <1>8, <1>9, Undisturbed
<1> QED BY <1>5, <1>6, <1>10 DEF ReadInv

(***************************************************************************)
(* waitpid puts its caller to sleep, or frees a dead child, which has      *)
(* nothing in the kernel.                                                  *)
(***************************************************************************)
LEMMA WaitRead ==
  ASSUME ReadInv, NEW t \in Pid \ {Idle}, current = t, WaitLoop(t)
  PROVE  ReadInv'
<1> DEFINE first == Min(Children(t))
<1>1. DriverTypes /\ TasksSane /\ ReadersAreKnown /\ LocksKnown
  BY DEF ReadInv
<1>2. /\ pc[t] = "waitpid" /\ UNCHANGED drivers /\ Children(t) # {}
      /\ state \in [Pid -> TaskState] /\ pc \in [Pid -> Label]
      /\ from \in [Pid -> Devices]
      /\ state[t] \in Awake /\ state[Idle] \in Awake
  BY <1>1 DEF WaitLoop, DriverTypes, TasksSane
<1>3. CASE /\ Reschedule([state EXCEPT ![t] = "WAITING"])
           /\ UNCHANGED <<pc, reading>>
  <2> DEFINE st == [state EXCEPT ![t] = "WAITING"]
  <2>1. st \in [Pid -> TaskState]
    BY <1>2 DEF TaskState
  <2>2. \A n \in Pid : n # t => st[n] = state[n]
    BY <1>2
  <2>3. st[t] = "WAITING"
    BY <1>2
  <2>4. Reschedule(st)
    BY <1>3
  <2> HIDE DEF st
  <2>5. pc' = pc /\ from' = from
    BY <1>3 DEF reading
  <2>6. st[Idle] \in Awake /\ pc[Idle] = "user"
    BY <1>1, <1>2, <2>2, PidFacts DEF TasksSane
  <2>7. \A n \in Pid : st[n] \in {"FREE", "DEAD"} => pc'[n] = "user"
    BY <1>1, <2>2, <2>3, <2>5 DEF TasksSane
  <2>8. \A n \in Pid : pc[n] \in Driver => st[n] = state[n]
    BY <1>2, <2>2 DEF Driver
  <2> QED BY <1>2, <2>1, <2>4, <2>5, <2>6, <2>7, <2>8, QuietSchedule
<1>4. CASE /\ state[first] = "DEAD"
           /\ state' = [state EXCEPT ![first] = "FREE"]
           /\ Goto(t, "iret")
           /\ from' = [from EXCEPT ![first] = "kbd"]
           /\ UNCHANGED current
  <2>1. first \in Pid \ {Idle}
    <3>1. Children(t) \in SUBSET Nat
      BY PidFacts DEF Children
    <3>2. first \in Children(t)
      BY <1>2, <3>1, MinExists
    <3> QED BY <3>2 DEF Children
  <2> HIDE DEF first
  <2>2. first # t /\ pc[first] = "user"
    BY <1>1, <1>2, <1>4, <2>1 DEF TasksSane, Awake
  <2>3. pc' = [pc EXCEPT ![t] = "iret"]
    BY <1>4 DEF Goto
  <2>4. DriverTypes'
    BY <1>1, <1>2, <1>4, <2>1, <2>3
    DEF DriverTypes, drivers, TaskState, Label, Devices
  <2>5. TasksSane'
    BY <1>1, <1>2, <1>4, <2>1, <2>2, <2>3 DEF TasksSane, Awake
  <2>6. \A n \in Pid : \A k \in Driver : pc'[n] = k <=> pc[n] = k
    BY <1>2, <2>3 DEF Driver
  <2>7. \A n \in Pid : pc[n] \in Driver => n # first
    BY <2>2 DEF Driver
  <2>8. \A n \in Pid : n # first => from'[n] = from[n] /\ state'[n] = state[n]
    BY <1>2, <1>4
  <2>9. ReadersAreKnown' /\ LocksKnown'
    BY <1>1, <1>2, <2>6, <2>7, <2>8, Undisturbed
  <2> QED BY <2>4, <2>5, <2>9 DEF ReadInv
<1> QED BY <1>3, <1>4 DEF WaitLoop

(***************************************************************************)
(* A task exits in user mode or on its way back to it, so it holds no read *)
(* lock; the parent that it wakes sleeps in waitpid and in no driver.      *)
(***************************************************************************)
LEMMA ExitRead ==
  ASSUME ReadInv, NEW t \in Pid \ {Idle}, current = t, pc[t] \in {"user", "iret"},
         Exit(t), pc' = [pc EXCEPT ![t] = "user"]
  PROVE  ReadInv'
<1> DEFINE st == [n \in Pid |->
                    CASE n = t -> "DEAD"
                      [] state[n] = "WAITING" /\ waitpid[n] = t -> "READY"
                      [] OTHER -> state[n]]
<1>1. DriverTypes /\ TasksSane
  BY DEF ReadInv
<1>2. UNCHANGED drivers /\ from' = from /\ Reschedule(st)
  BY DEF Exit, reading
<1>3. /\ state \in [Pid -> TaskState] /\ pc \in [Pid -> Label]
      /\ state[Idle] \in Awake /\ pc[Idle] = "user" /\ Idle \in Pid
      /\ state[t] \in Awake
  BY <1>1, PidFacts DEF DriverTypes, TasksSane
<1>4. ASSUME NEW n \in Pid
      PROVE  /\ n = t => st[n] = "DEAD"
             /\ n # t => st[n] = state[n]
                           \/ (state[n] = "WAITING" /\ st[n] = "READY")
  BY <1>3 DEF Awake
<1>5. st \in [Pid -> TaskState]
  BY <1>3 DEF TaskState
<1> HIDE DEF st
<1>6. st[Idle] \in Awake
  BY <1>3, <1>4 DEF Awake
<1>7. \A n \in Pid : st[n] \in {"FREE", "DEAD"} => pc'[n] = "user"
  BY <1>1, <1>3, <1>4 DEF TasksSane
<1>8. ASSUME NEW n \in Pid, pc[n] \in Driver
      PROVE  /\ st[n] = "BLOCKED" <=> state[n] = "BLOCKED"
             /\ state[n] \in Awake => st[n] \in Awake
  <2>1. n # t
    BY <1>8 DEF Driver
  <2> QED BY <1>4, <2>1 DEF Awake
<1>9. \A n \in Pid : \A k \in Driver : pc'[n] = k <=> pc[n] = k
  BY <1>3 DEF Driver
<1>10. pc' \in [Pid -> Label] /\ pc'[Idle] = "user"
  BY <1>3 DEF Label
<1> QED BY <1>2, <1>5, <1>6, <1>7, <1>8, <1>9, <1>10, QuietSchedule

(***************************************************************************)
(* A program enters read: it stands before the lock, awake.                *)
(***************************************************************************)
LEMMA ReadRead ==
  ASSUME ReadInv, NEW t \in Pid \ {Idle}, current = t,
         NEW d \in Devices, NEW n, Read(t, d, n)
  PROVE  ReadInv'
<1>1. DriverTypes /\ TasksSane /\ ReadersAreKnown /\ LocksKnown
  BY DEF ReadInv
<1>2. /\ pc[t] = "user" /\ pc' = [pc EXCEPT ![t] = "lock"]
      /\ from' = [from EXCEPT ![t] = d]
      /\ UNCHANGED drivers /\ state' = state /\ current' = current
  BY DEF Read, Calling, Goto, cpu
<1>3. /\ state \in [Pid -> TaskState] /\ pc \in [Pid -> Label]
      /\ from \in [Pid -> Devices]
      /\ state[t] \in Awake
  BY <1>1 DEF DriverTypes, TasksSane
<1>4. ring' = ring /\ waiter' = waiter /\ holder' = holder /\ queue' = queue
  BY <1>2 DEF drivers
<1>5. DriverTypes'
  BY <1>1, <1>2, <1>3, <1>4 DEF DriverTypes, Label
<1>6. TasksSane'
  BY <1>1, <1>2, <1>3, PidFacts DEF TasksSane, Awake
<1>7. ReadersAreKnown'
  BY <1>1, <1>2, <1>3, <1>4 DEF ReadersAreKnown
<1>8. state[t] # "BLOCKED"
  BY <1>3 DEF Awake
<1>9. ASSUME NEW e \in Devices, NEW m \in Pid
      PROVE  /\ (holder'[e] = m) <=> (pc'[m] = "read" /\ from'[m] = e)
             /\ Queued(queue'[e], m) <=> (pc'[m] = "lock" /\ from'[m] = e
                                             /\ state'[m] = "BLOCKED")
  BY <1>1, <1>2, <1>3, <1>4, <1>8 DEF LocksKnown
<1>10. ASSUME NEW e \in Devices
       PROVE  /\ \A i, j \in DOMAIN queue'[e] : queue'[e][i] = queue'[e][j] => i = j
              /\ queue'[e] # << >> =>
                   \/ holder'[e] # None
                   \/ \E m \in Pid : /\ pc'[m] = "lock" /\ from'[m] = e
                                      /\ state'[m] \in Awake
  BY <1>1, <1>2, <1>3, <1>4 DEF LocksKnown
<1>11. LocksKnown'
  BY <1>9, <1>10 DEF LocksKnown
<1> QED BY <1>5, <1>6, <1>7, <1>11 DEF ReadInv

(***************************************************************************)
(* mutex_lock: the caller holds the lock, or is queued once and asleep.    *)
(***************************************************************************)
LEMMA LockRead ==
  ASSUME ReadInv, NEW t \in Pid \ {Idle}, current = t, Lock(t)
  PROVE  ReadInv'
<1> DEFINE d == from[t]
<1>1. DriverTypes /\ TasksSane /\ ReadersAreKnown /\ LocksKnown
  BY DEF ReadInv
<1>2. /\ pc[t] = "lock" /\ ring' = ring /\ waiter' = waiter /\ from' = from
  BY DEF Lock, reading
<1>3. /\ state \in [Pid -> TaskState] /\ pc \in [Pid -> Label]
      /\ holder \in [Devices -> Pid \cup {None}]
      /\ queue \in [Devices -> Seq(Pid)]
      /\ from \in [Pid -> Devices] /\ d \in Devices
      /\ state[t] \in Awake /\ state[t] # "BLOCKED" /\ state[Idle] \in Awake
      /\ current \in Pid /\ Idle \in Pid
  BY <1>1, PidFacts DEF DriverTypes, TasksSane, Awake
<1>4. CASE holder[d] = None
  <2>1. /\ holder' = [holder EXCEPT ![d] = t] /\ pc' = [pc EXCEPT ![t] = "read"]
        /\ queue' = queue /\ state' = state /\ current' = current
    BY <1>4 DEF Lock, Goto, cpu
  <2> HIDE DEF d
  <2>2. DriverTypes'
    BY <1>1, <1>2, <1>3, <2>1 DEF DriverTypes, Label
  <2>3. TasksSane'
    BY <1>1, <1>2, <1>3, <2>1 DEF TasksSane, Awake
  <2>4. ReadersAreKnown'
    BY <1>1, <1>2, <1>3, <2>1 DEF ReadersAreKnown
  <2>5. \A m \in Pid : ~ (pc[m] = "read" /\ from[m] = d)
    BY <1>1, <1>3, <1>4, PidFacts DEF LocksKnown
  <2>6. ASSUME NEW e \in Devices, NEW m \in Pid
        PROVE  /\ (holder'[e] = m) <=> (pc'[m] = "read" /\ from'[m] = e)
               /\ Queued(queue'[e], m) <=> (pc'[m] = "lock" /\ from'[m] = e
                                               /\ state'[m] = "BLOCKED")
    <3>1. CASE e = d
      BY <1>1, <1>2, <1>3, <2>1, <2>5, <3>1 DEF LocksKnown, d
    <3>2. CASE e # d
      BY <1>1, <1>2, <1>3, <2>1, <3>2 DEF LocksKnown, d
    <3> QED BY <3>1, <3>2
  <2>7. ASSUME NEW e \in Devices
        PROVE  /\ \A i, j \in DOMAIN queue'[e] : queue'[e][i] = queue'[e][j] => i = j
               /\ queue'[e] # << >> =>
                    \/ holder'[e] # None
                    \/ \E m \in Pid : /\ pc'[m] = "lock" /\ from'[m] = e
                                       /\ state'[m] \in Awake
    <3>1. \A i, j \in DOMAIN queue'[e] : queue'[e][i] = queue'[e][j] => i = j
      BY <1>1, <2>1 DEF LocksKnown
    <3>2. CASE e = d
      BY <1>3, <2>1, <3>1, <3>2, PidFacts
    <3>3. CASE e # d
      BY <1>1, <1>2, <1>3, <2>1, <3>1, <3>3 DEF LocksKnown, d
    <3> QED BY <3>2, <3>3
  <2>8. LocksKnown'
    BY <2>6, <2>7 DEF LocksKnown
  <2> QED BY <2>2, <2>3, <2>4, <2>8 DEF ReadInv
<1>5. CASE holder[d] # None
  <2> DEFINE st == [state EXCEPT ![t] = "BLOCKED"]
  <2>1. /\ queue' = [queue EXCEPT ![d] = Append(queue[d], t)] /\ Reschedule(st)
        /\ holder' = holder /\ pc' = pc
    BY <1>5 DEF Lock
  <2>2. /\ st \in [Pid -> TaskState] /\ st[t] = "BLOCKED"
        /\ \A n \in Pid : n # t => st[n] = state[n]
    BY <1>3 DEF TaskState
  <2> HIDE DEF st, d
  <2>3. st[Idle] \in Awake
    BY <1>3, <2>2
  <2>4. /\ state' \in [Pid -> TaskState] /\ current' \in Pid
        /\ state'[current'] \in Awake /\ state'[Idle] \in Awake
        /\ \A n \in Pid : \A s \in TaskState \ Awake : state'[n] = s <=> st[n] = s
        /\ \A n \in Pid : state'[n] \in Awake <=> st[n] \in Awake
    BY <1>3, <2>1, <2>2, <2>3, RescheduleKeeps
  <2>5. /\ state'[t] = "BLOCKED"
        /\ \A n \in Pid : n # t =>
             /\ state'[n] = "BLOCKED" <=> state[n] = "BLOCKED"
             /\ state'[n] \in Awake <=> state[n] \in Awake
             /\ state'[n] = "FREE" <=> state[n] = "FREE"
             /\ state'[n] = "DEAD" <=> state[n] = "DEAD"
    BY <2>2, <2>4 DEF TaskState, Awake
  <2>6. /\ queue[d] \in Seq(Pid) /\ ~ Queued(queue[d], t)
        /\ \A i, j \in DOMAIN queue[d] : queue[d][i] = queue[d][j] => i = j
    BY <1>1, <1>3 DEF LocksKnown
  <2>7. /\ Append(queue[d], t) \in Seq(Pid)
        /\ \A s : Queued(Append(queue[d], t), s) <=> Queued(queue[d], s) \/ s = t
        /\ \A i, j \in DOMAIN Append(queue[d], t) :
             Append(queue[d], t)[i] = Append(queue[d], t)[j] => i = j
    BY <2>6, AppendQueued
  <2>8. DriverTypes'
    BY <1>1, <1>2, <1>3, <2>1, <2>4, <2>7 DEF DriverTypes
  <2>9. TasksSane'
    BY <1>1, <2>1, <2>4, <2>5 DEF TasksSane
  <2>10. ReadersAreKnown'
    BY <1>1, <1>2, <2>1, <2>5 DEF ReadersAreKnown
  <2>11. \A e \in Devices : queue'[e] = IF e = d THEN Append(queue[d], t) ELSE queue[e]
    BY <1>3, <2>1
  <2>12. ASSUME NEW e \in Devices, NEW m \in Pid
         PROVE  /\ (holder'[e] = m) <=> (pc'[m] = "read" /\ from'[m] = e)
                /\ Queued(queue'[e], m) <=> (pc'[m] = "lock" /\ from'[m] = e
                                                /\ state'[m] = "BLOCKED")
    <3>1. (holder'[e] = m) <=> (pc'[m] = "read" /\ from'[m] = e)
      BY <1>1, <1>2, <2>1 DEF LocksKnown
    <3>2. Queued(queue[e], m) <=> (pc[m] = "lock" /\ from[m] = e
                                      /\ state[m] = "BLOCKED")
      BY <1>1 DEF LocksKnown
    <3>3. CASE e = d
      BY <1>2, <2>1, <2>5, <2>7, <2>11, <3>1, <3>2, <3>3 DEF d
    <3>4. CASE e # d
      BY <1>2, <2>1, <2>5, <2>11, <3>1, <3>2, <3>4 DEF d
    <3> QED BY <3>3, <3>4
  <2>13. ASSUME NEW e \in Devices
         PROVE  /\ \A i, j \in DOMAIN queue'[e] : queue'[e][i] = queue'[e][j] => i = j
                /\ queue'[e] # << >> =>
                     \/ holder'[e] # None
                     \/ \E m \in Pid : /\ pc'[m] = "lock" /\ from'[m] = e
                                        /\ state'[m] \in Awake
    <3>1. CASE e = d
      BY <1>5, <2>1, <2>7, <2>11, <3>1 DEF d
    <3>2. CASE e # d
      BY <1>1, <1>2, <2>1, <2>5, <2>11, <3>2 DEF LocksKnown, d
    <3> QED BY <3>1, <3>2
  <2>14. LocksKnown'
    BY <2>12, <2>13 DEF LocksKnown
  <2> QED BY <2>8, <2>9, <2>10, <2>14 DEF ReadInv
<1> QED BY <1>4, <1>5

(***************************************************************************)
(* The ring is empty: nobody was remembered, since only the holder of the  *)
(* lock can be, so the driver forgets nobody when it remembers the caller. *)
(***************************************************************************)
LEMMA BlockRead ==
  ASSUME ReadInv, NEW t \in Pid \ {Idle}, current = t, ReadBlock(t)
  PROVE  ReadInv'
<1> DEFINE d == from[t]
           st == [state EXCEPT ![t] = "BLOCKED"]
<1>1. DriverTypes /\ TasksSane /\ ReadersAreKnown /\ LocksKnown
  BY DEF ReadInv
<1>2. /\ pc[t] = "read" /\ kfifo_empty(ring[d])
      /\ waiter' = [waiter EXCEPT ![d] = t] /\ Reschedule(st)
      /\ ring' = ring /\ holder' = holder /\ queue' = queue /\ pc' = pc
      /\ from' = from
  BY DEF ReadBlock, reading
<1>3. /\ state \in [Pid -> TaskState]
      /\ waiter \in [Devices -> Pid \cup {None}]
      /\ from \in [Pid -> Devices] /\ d \in Devices
      /\ state[t] \in Awake /\ state[t] # "BLOCKED" /\ state[Idle] \in Awake
      /\ current \in Pid /\ Idle \in Pid
  BY <1>1, PidFacts DEF DriverTypes, TasksSane, Awake
<1>4. /\ st \in [Pid -> TaskState] /\ st[t] = "BLOCKED"
      /\ \A n \in Pid : n # t => st[n] = state[n]
  BY <1>3 DEF TaskState
<1> HIDE DEF st, d
<1>5. st[Idle] \in Awake
  BY <1>3, <1>4
<1>6. /\ state' \in [Pid -> TaskState] /\ current' \in Pid
      /\ state'[current'] \in Awake /\ state'[Idle] \in Awake
      /\ \A n \in Pid : \A s \in TaskState \ Awake : state'[n] = s <=> st[n] = s
      /\ \A n \in Pid : state'[n] \in Awake <=> st[n] \in Awake
  BY <1>2, <1>3, <1>4, <1>5, RescheduleKeeps
<1>7. /\ state'[t] = "BLOCKED"
      /\ \A n \in Pid : n # t =>
           /\ state'[n] = "BLOCKED" <=> state[n] = "BLOCKED"
           /\ state'[n] \in Awake <=> state[n] \in Awake
           /\ state'[n] = "FREE" <=> state[n] = "FREE"
           /\ state'[n] = "DEAD" <=> state[n] = "DEAD"
  BY <1>4, <1>6 DEF TaskState, Awake
<1>8. DriverTypes'
  BY <1>1, <1>2, <1>3, <1>6 DEF DriverTypes
<1>9. TasksSane'
  BY <1>1, <1>2, <1>6, <1>7 DEF TasksSane
<1>10. \A m \in Pid : (pc[m] = "read" /\ from[m] = d) => m = t
  BY <1>1, <1>2, <1>3 DEF LocksKnown, d
<1>11. ASSUME NEW e \in Devices, NEW m \in Pid
       PROVE  /\ (waiter'[e] = m) <=> (pc'[m] = "read" /\ from'[m] = e
                                         /\ state'[m] = "BLOCKED")
              /\ waiter'[e] = m => kfifo_empty(ring'[e])
  <2>1. CASE e = d
    BY <1>2, <1>3, <1>7, <1>10, <2>1 DEF d
  <2>2. CASE e # d
    BY <1>1, <1>2, <1>3, <1>7, <2>2 DEF ReadersAreKnown, d
  <2> QED BY <2>1, <2>2
<1>12. ReadersAreKnown'
  BY <1>11 DEF ReadersAreKnown
<1>13. ASSUME NEW e \in Devices, NEW m \in Pid
       PROVE  /\ (holder'[e] = m) <=> (pc'[m] = "read" /\ from'[m] = e)
              /\ Queued(queue'[e], m) <=> (pc'[m] = "lock" /\ from'[m] = e
                                              /\ state'[m] = "BLOCKED")
  BY <1>1, <1>2, <1>7 DEF LocksKnown
<1>14. ASSUME NEW e \in Devices
       PROVE  /\ \A i, j \in DOMAIN queue'[e] : queue'[e][i] = queue'[e][j] => i = j
              /\ queue'[e] # << >> =>
                   \/ holder'[e] # None
                   \/ \E m \in Pid : /\ pc'[m] = "lock" /\ from'[m] = e
                                      /\ state'[m] \in Awake
  BY <1>1, <1>2, <1>7 DEF LocksKnown
<1>15. LocksKnown'
  BY <1>13, <1>14 DEF LocksKnown
<1> QED BY <1>8, <1>9, <1>12, <1>15 DEF ReadInv

(***************************************************************************)
(* A byte is taken from a ring that is not empty, so nobody waits for it.  *)
(***************************************************************************)
LEMMA ByteRead ==
  ASSUME ReadInv, NEW t \in Pid \ {Idle}, current = t, ReadByte(t)
  PROVE  ReadInv'
<1> DEFINE d == from[t]
<1>1. DriverTypes /\ TasksSane /\ ReadersAreKnown /\ LocksKnown
  BY DEF ReadInv
<1>2. /\ ~ kfifo_empty(ring[d]) /\ ring' = [ring EXCEPT ![d] = Tail(@)]
      /\ waiter' = waiter /\ holder' = holder /\ queue' = queue /\ pc' = pc
      /\ state' = state /\ current' = current /\ from' = from
  BY DEF ReadByte, cpu
<1> HIDE DEF d
<1>3. \A e \in Devices : e # d => ring'[e] = ring[e]
  BY <1>1, <1>2 DEF DriverTypes
<1>4. DriverTypes'
  BY <1>1, <1>2 DEF DriverTypes
<1>5. TasksSane'
  BY <1>1, <1>2 DEF TasksSane
<1>6. ReadersAreKnown'
  BY <1>1, <1>2, <1>3 DEF ReadersAreKnown
<1>7. LocksKnown'
  BY <1>1, <1>2 DEF LocksKnown
<1> QED BY <1>4, <1>5, <1>6, <1>7 DEF ReadInv

(***************************************************************************)
(* The last byte and mutex_unlock: the first waiter of the lock is off the *)
(* queue and awake, so whoever is still queued sleeps for it.              *)
(***************************************************************************)
LEMMA LastRead ==
  ASSUME ReadInv, NEW t \in Pid \ {Idle}, current = t, ReadLast(t)
  PROVE  ReadInv'
<1> DEFINE d == from[t]
<1>1. DriverTypes /\ TasksSane /\ ReadersAreKnown /\ LocksKnown
  BY DEF ReadInv
<1>2. /\ pc[t] = "read" /\ ~ kfifo_empty(ring[d])
      /\ ring' = [ring EXCEPT ![d] = Tail(@)]
      /\ waiter' = waiter /\ from' = from
      /\ pc' = [pc EXCEPT ![t] = "iret"]
      /\ holder' = [holder EXCEPT ![d] = None]
  BY DEF ReadLast, Goto, Unlock
<1>3. /\ state \in [Pid -> TaskState] /\ pc \in [Pid -> Label]
      /\ holder \in [Devices -> Pid \cup {None}]
      /\ queue \in [Devices -> Seq(Pid)]
      /\ from \in [Pid -> Devices] /\ d \in Devices
      /\ state[t] \in Awake /\ state[t] # "BLOCKED" /\ state[Idle] \in Awake
      /\ current \in Pid /\ Idle \in Pid
  BY <1>1, PidFacts DEF DriverTypes, TasksSane, Awake
<1>4. \A m \in Pid : (pc[m] = "read" /\ from[m] = d) => m = t
  BY <1>1, <1>2, <1>3 DEF LocksKnown, d
<1>5. Unlock(d)
  BY DEF ReadLast
<1> HIDE DEF d
<1>6. \A e \in Devices : e # d => ring'[e] = ring[e]
  BY <1>1, <1>2 DEF DriverTypes
<1>7. DOMAIN ring' = Devices
  BY <1>1, <1>2 DEF DriverTypes
<1>8. \A e \in Devices, m \in Pid :
        (holder'[e] = m) <=> (pc'[m] = "read" /\ from'[m] = e)
  <2> SUFFICES ASSUME NEW e \in Devices, NEW m \in Pid
               PROVE  (holder'[e] = m) <=> (pc'[m] = "read" /\ from'[m] = e)
    OBVIOUS
  <2>1. CASE e = d
    BY <1>2, <1>3, <1>4, <2>1, PidFacts
  <2>2. CASE e # d
    BY <1>1, <1>2, <1>3, <2>2 DEF LocksKnown, d
  <2> QED BY <2>1, <2>2
<1>9. CASE queue[d] = << >>
  <2>1. queue' = queue /\ state' = state /\ current' = current
    BY <1>5, <1>9 DEF Unlock, cpu
  <2>2. DriverTypes'
    BY <1>1, <1>2, <1>3, <1>7, <2>1 DEF DriverTypes, Label
  <2>3. TasksSane'
    BY <1>1, <1>2, <1>3, <2>1 DEF TasksSane, Awake
  <2>4. ReadersAreKnown'
    BY <1>1, <1>2, <1>3, <1>6, <2>1 DEF ReadersAreKnown
  <2>5. ASSUME NEW e \in Devices, NEW m \in Pid
        PROVE  Queued(queue'[e], m) <=> (pc'[m] = "lock" /\ from'[m] = e
                                            /\ state'[m] = "BLOCKED")
    BY <1>1, <1>2, <1>3, <2>1 DEF LocksKnown
  <2>6. ASSUME NEW e \in Devices
        PROVE  /\ \A i, j \in DOMAIN queue'[e] : queue'[e][i] = queue'[e][j] => i = j
               /\ queue'[e] # << >> =>
                    \/ holder'[e] # None
                    \/ \E m \in Pid : /\ pc'[m] = "lock" /\ from'[m] = e
                                       /\ state'[m] \in Awake
    <3>1. CASE e = d
      BY <1>1, <1>9, <2>1, <3>1 DEF LocksKnown
    <3>2. CASE e # d
      BY <1>1, <1>2, <1>3, <2>1, <3>2 DEF LocksKnown
    <3> QED BY <3>1, <3>2
  <2>7. LocksKnown'
    BY <1>8, <2>5, <2>6 DEF LocksKnown
  <2> QED BY <2>2, <2>3, <2>4, <2>7 DEF ReadInv
<1>10. CASE queue[d] # << >>
  <2> DEFINE h == Head(queue[d])
             st == [state EXCEPT ![h] = "READY"]
  <2>1. queue' = [queue EXCEPT ![d] = Tail(queue[d])] /\ Reschedule(st)
    BY <1>5, <1>10 DEF Unlock
  <2>2. /\ queue[d] \in Seq(Pid)
        /\ \A i, j \in DOMAIN queue[d] : queue[d][i] = queue[d][j] => i = j
    BY <1>1, <1>3 DEF LocksKnown
  <2>3. /\ h \in Pid /\ Tail(queue[d]) \in Seq(Pid)
        /\ \A s : Queued(Tail(queue[d]), s) <=> Queued(queue[d], s) /\ s # h
        /\ \A i, j \in DOMAIN Tail(queue[d]) :
             Tail(queue[d])[i] = Tail(queue[d])[j] => i = j
        /\ Queued(queue[d], h)
    BY <1>10, <2>2, TailQueued
  <2> HIDE DEF h
  <2>4. pc[h] = "lock" /\ from[h] = d /\ state[h] = "BLOCKED" /\ h # t
    BY <1>1, <1>3, <2>3 DEF LocksKnown
  <2>5. /\ st \in [Pid -> TaskState] /\ st[h] = "READY"
        /\ \A n \in Pid : n # h => st[n] = state[n]
    BY <1>3, <2>3 DEF TaskState
  <2> HIDE DEF st
  <2>6. st[Idle] \in Awake
    BY <1>3, <2>5 DEF Awake
  <2>7. /\ state' \in [Pid -> TaskState] /\ current' \in Pid
        /\ state'[current'] \in Awake /\ state'[Idle] \in Awake
        /\ \A n \in Pid : \A s \in TaskState \ Awake : state'[n] = s <=> st[n] = s
        /\ \A n \in Pid : state'[n] \in Awake <=> st[n] \in Awake
    BY <1>3, <2>1, <2>5, <2>6, RescheduleKeeps
  <2>8. /\ state'[h] \in Awake
        /\ \A n \in Pid : n # h =>
             /\ state'[n] = "BLOCKED" <=> state[n] = "BLOCKED"
             /\ state'[n] \in Awake <=> state[n] \in Awake
             /\ state'[n] = "FREE" <=> state[n] = "FREE"
             /\ state'[n] = "DEAD" <=> state[n] = "DEAD"
    BY <2>3, <2>5, <2>7 DEF TaskState, Awake
  <2>9. state'[h] # "BLOCKED" /\ state'[h] # "FREE" /\ state'[h] # "DEAD"
    BY <2>8 DEF Awake
  <2>10. DriverTypes'
    BY <1>1, <1>2, <1>3, <1>7, <2>1, <2>3, <2>7 DEF DriverTypes, Label
  <2>11. TasksSane'
    <3>1. pc'[Idle] = "user"
      BY <1>1, <1>2, <1>3 DEF TasksSane
    <3>2. ~ (state'[t] \in {"FREE", "DEAD"})
      BY <1>3, <2>4, <2>8 DEF Awake
    <3>3. \A n \in Pid : state'[n] \in {"FREE", "DEAD"} => pc'[n] = "user"
      BY <1>1, <1>2, <1>3, <2>8, <2>9, <3>2 DEF TasksSane
    <3> QED BY <2>7, <3>1, <3>3 DEF TasksSane
  <2>12. ASSUME NEW e \in Devices, NEW m \in Pid
         PROVE  /\ (waiter'[e] = m) <=> (pc'[m] = "read" /\ from'[m] = e
                                           /\ state'[m] = "BLOCKED")
                /\ waiter'[e] = m => kfifo_empty(ring'[e])
    <3>1. /\ (waiter[e] = m) <=> (pc[m] = "read" /\ from[m] = e
                                    /\ state[m] = "BLOCKED")
          /\ waiter[e] = m => kfifo_empty(ring[e])
      BY <1>1 DEF ReadersAreKnown
    <3>2. CASE m = h
      BY <1>2, <1>3, <2>4, <2>9, <3>1, <3>2
    <3>3. CASE m = t
      BY <1>2, <1>3, <2>4, <2>8, <3>1, <3>3
    <3>4. CASE m # h /\ m # t
      BY <1>2, <1>3, <1>6, <2>8, <3>1, <3>4
    <3> QED BY <3>2, <3>3, <3>4
  <2>13. ReadersAreKnown'
    BY <2>12 DEF ReadersAreKnown
  <2>14. \A e \in Devices : queue'[e] = IF e = d THEN Tail(queue[d]) ELSE queue[e]
    BY <1>3, <2>1
  <2>15. ASSUME NEW e \in Devices, NEW m \in Pid
         PROVE  Queued(queue'[e], m) <=> (pc'[m] = "lock" /\ from'[m] = e
                                             /\ state'[m] = "BLOCKED")
    <3>1. Queued(queue[e], m) <=> (pc[m] = "lock" /\ from[m] = e
                                      /\ state[m] = "BLOCKED")
      BY <1>1 DEF LocksKnown
    <3>2. (pc'[m] = "lock") <=> (pc[m] = "lock")
      BY <1>2, <1>3
    <3>3. CASE e = d
      BY <1>2, <2>3, <2>8, <2>9, <2>14, <3>1, <3>2, <3>3
    <3>4. CASE e # d
      BY <1>2, <2>4, <2>8, <2>9, <2>14, <3>1, <3>2, <3>4
    <3> QED BY <3>3, <3>4
  <2>16. ASSUME NEW e \in Devices
         PROVE  /\ \A i, j \in DOMAIN queue'[e] : queue'[e][i] = queue'[e][j] => i = j
                /\ queue'[e] # << >> =>
                     \/ holder'[e] # None
                     \/ \E m \in Pid : /\ pc'[m] = "lock" /\ from'[m] = e
                                        /\ state'[m] \in Awake
    <3>1. pc'[h] = "lock" /\ from'[h] = d
      BY <1>2, <1>3, <2>3, <2>4
    <3>2. CASE e = d
      <4>1. queue'[e] = Tail(queue[d])
        BY <2>14, <3>2
      <4>2. \A i, j \in DOMAIN queue'[e] : queue'[e][i] = queue'[e][j] => i = j
        BY <2>3, <4>1
      <4> QED BY <2>3, <2>8, <3>1, <3>2, <4>2
    <3>3. CASE e # d
      <4>1. /\ queue'[e] = queue[e] /\ holder'[e] = holder[e]
        BY <1>2, <1>3, <2>14, <3>3
      <4>2. \A m \in Pid : pc[m] = "lock" /\ from[m] = e /\ state[m] \in Awake
              => pc'[m] = "lock" /\ from'[m] = e /\ state'[m] \in Awake
        BY <1>2, <1>3, <2>8
      <4> QED BY <1>1, <4>1, <4>2 DEF LocksKnown
    <3> QED BY <3>2, <3>3
  <2>17. LocksKnown'
    BY <1>8, <2>15, <2>16 DEF LocksKnown
  <2> QED BY <2>10, <2>11, <2>13, <2>17 DEF ReadInv
<1> QED BY <1>9, <1>10

(***************************************************************************)
(* An interrupt is taken in user mode or in the idle loop, so interrupt_   *)
(* exit is not on the way out of a driver.                                 *)
(***************************************************************************)
LEMMA InterruptExitQuiet ==
  ASSUME DriverTypes, TasksSane, Interruptible, InterruptExit
  PROVE  /\ pc' \in [Pid -> Label] /\ pc'[Idle] = "user"
         /\ \A n \in Pid : n # current => pc'[n] = pc[n]
         /\ state[current] \in Awake
         /\ \A n \in Pid : \A k \in Driver : pc'[n] = k <=> pc[n] = k
<1>1. /\ pc \in [Pid -> Label] /\ current \in Pid /\ pc[current] = "user"
      /\ pc' = [pc EXCEPT ![current] = IF current = Idle THEN "user" ELSE "iret"]
  BY DEF DriverTypes, Interruptible, InterruptExit
<1>2. pc' \in [Pid -> Label]
  BY <1>1 DEF Label
<1>3. pc'[Idle] = "user"
  BY <1>1, PidFacts DEF TasksSane
<1>4. state[current] \in Awake
  BY DEF TasksSane
<1>5. \A n \in Pid : n # current => pc'[n] = pc[n]
  BY <1>1
<1>6. pc'[current] \notin Driver /\ pc[current] \notin Driver
  BY <1>1 DEF Driver
<1>7. \A n \in Pid : \A k \in Driver : pc'[n] = k <=> pc[n] = k
  BY <1>5, <1>6
<1> QED BY <1>2, <1>3, <1>4, <1>5, <1>7

(***************************************************************************)
(* An interrupt without a character for a reader.                          *)
(***************************************************************************)
LEMMA QuietInterrupt ==
  ASSUME ReadInv, Interruptible, InterruptExit, UNCHANGED <<drivers, cpu, from>>
  PROVE  ReadInv'
<1>1. DriverTypes /\ TasksSane /\ ReadersAreKnown /\ LocksKnown
  BY DEF ReadInv
<1>2. /\ UNCHANGED drivers /\ state' = state /\ current' = current
      /\ from' = from
  BY DEF cpu
<1>3. /\ pc' \in [Pid -> Label] /\ pc'[Idle] = "user"
      /\ \A n \in Pid : n # current => pc'[n] = pc[n]
      /\ state[current] \in Awake
      /\ \A n \in Pid : \A k \in Driver : pc'[n] = k <=> pc[n] = k
  BY <1>1, InterruptExitQuiet
<1>4. DriverTypes'
  BY <1>1, <1>2, <1>3 DEF DriverTypes, drivers
<1>5. TasksSane'
  BY <1>1, <1>2, <1>3 DEF TasksSane, Awake
<1>6. ReadersAreKnown' /\ LocksKnown'
  BY <1>1, <1>2, <1>3, Undisturbed
<1> QED BY <1>4, <1>5, <1>6 DEF ReadInv

(***************************************************************************)
(* A character for device d wakes the task that the driver remembers, and  *)
(* the driver forgets it in the same step; Ctrl-C may have made sleepers   *)
(* of other kinds READY before, the states st.                             *)
(***************************************************************************)
LEMMA DeliverRead ==
  ASSUME ReadInv, Interruptible, InterruptExit, from' = from,
         NEW d \in Devices, NEW ch, NEW st \in [Pid -> TaskState],
         \A n \in Pid : st[n] = state[n]
                          \/ (state[n] \in {"WAITING", "SLEEPING"} /\ st[n] = "READY"),
         Deliver(d, ch, st)
  PROVE  ReadInv'
<1>1. DriverTypes /\ TasksSane /\ ReadersAreKnown /\ LocksKnown
  BY DEF ReadInv
<1>2. /\ pc' \in [Pid -> Label] /\ pc'[Idle] = "user"
      /\ \A n \in Pid : n # current => pc'[n] = pc[n]
      /\ state[current] \in Awake
      /\ \A n \in Pid : \A k \in Driver : pc'[n] = k <=> pc[n] = k
  BY <1>1, InterruptExitQuiet
<1>3. /\ holder' = holder /\ queue' = queue /\ current' = current
      /\ waiter' = [waiter EXCEPT ![d] = None]
      /\ state' = Wakeup(st, d)
  BY DEF Deliver
<1>4. DOMAIN ring' = Devices /\ \A e \in Devices : e # d => ring'[e] = ring[e]
  BY <1>1 DEF Deliver, DriverTypes
<1>5. /\ waiter \in [Devices -> Pid \cup {None}] /\ current \in Pid
      /\ state \in [Pid -> TaskState] /\ Idle \in Pid /\ None \notin Pid
  BY <1>1, PidFacts DEF DriverTypes
<1>6. /\ state' \in [Pid -> TaskState]
      /\ \A n \in Pid : state'[n] = IF n = waiter[d] THEN "READY" ELSE st[n]
  BY <1>3, <1>5 DEF Wakeup, TaskState
<1>7. \A n \in Pid : n # waiter[d] =>
        /\ state'[n] = "BLOCKED" <=> state[n] = "BLOCKED"
        /\ state[n] \in Awake => state'[n] \in Awake
        /\ state'[n] = "FREE" <=> state[n] = "FREE"
        /\ state'[n] = "DEAD" <=> state[n] = "DEAD"
  BY <1>6 DEF Awake
<1>8. \A n \in Pid : n = waiter[d] => /\ state'[n] = "READY" /\ state[n] = "BLOCKED"
                                      /\ pc[n] = "read" /\ from[n] = d
  BY <1>1, <1>6 DEF ReadersAreKnown
<1>9. DriverTypes'
  BY <1>1, <1>2, <1>3, <1>4, <1>5, <1>6 DEF DriverTypes
<1>10. TasksSane'
  <2>1. waiter[d] # Idle /\ waiter[d] # current
    BY <1>1, <1>2, <1>5, <1>8 DEF TasksSane, Awake
  <2>2. state'[current'] \in Awake /\ state'[Idle] \in Awake
    BY <1>1, <1>2, <1>3, <1>5, <1>7, <2>1 DEF TasksSane
  <2>3. ASSUME NEW n \in Pid, state'[n] \in {"FREE", "DEAD"}
        PROVE  pc'[n] = "user"
    <3>1. n # waiter[d]
      BY <1>8, <2>3
    <3>2. n # current
      BY <1>3, <2>2, <2>3 DEF Awake
    <3> QED BY <1>1, <1>2, <1>7, <2>3, <3>1, <3>2 DEF TasksSane
  <2> QED BY <1>2, <2>2, <2>3 DEF TasksSane
<1>11. \A n \in Pid : /\ pc'[n] = "read" <=> pc[n] = "read"
                      /\ pc'[n] = "lock" <=> pc[n] = "lock"
  BY <1>2 DEF Driver
<1>12. ASSUME NEW e \in Devices, NEW m \in Pid
       PROVE  /\ (waiter'[e] = m) <=> (pc'[m] = "read" /\ from'[m] = e
                                         /\ state'[m] = "BLOCKED")
              /\ waiter'[e] = m => kfifo_empty(ring'[e])
  <2>1. /\ (waiter[e] = m) <=> (pc[m] = "read" /\ from[m] = e
                                  /\ state[m] = "BLOCKED")
        /\ waiter[e] = m => kfifo_empty(ring[e])
    BY <1>1 DEF ReadersAreKnown
  <2>2. CASE e = d
    BY <1>3, <1>5, <1>7, <1>8, <1>11, <2>1, <2>2
  <2>3. CASE e # d
    BY <1>3, <1>4, <1>5, <1>7, <1>8, <1>11, <2>1, <2>3
  <2> QED BY <2>2, <2>3
<1>13. ReadersAreKnown'
  BY <1>12 DEF ReadersAreKnown
<1>14. \A n \in Pid : pc[n] = "lock" => n # waiter[d]
  BY <1>8
<1>15. ASSUME NEW e \in Devices, NEW m \in Pid
       PROVE  /\ (holder'[e] = m) <=> (pc'[m] = "read" /\ from'[m] = e)
              /\ Queued(queue'[e], m) <=> (pc'[m] = "lock" /\ from'[m] = e
                                              /\ state'[m] = "BLOCKED")
  BY <1>1, <1>3, <1>7, <1>11, <1>14 DEF LocksKnown
<1>16. ASSUME NEW e \in Devices
       PROVE  /\ \A i, j \in DOMAIN queue'[e] : queue'[e][i] = queue'[e][j] => i = j
              /\ queue'[e] # << >> =>
                   \/ holder'[e] # None
                   \/ \E m \in Pid : /\ pc'[m] = "lock" /\ from'[m] = e
                                      /\ state'[m] \in Awake
  BY <1>1, <1>3, <1>7, <1>11, <1>14 DEF LocksKnown
<1>17. LocksKnown'
  BY <1>15, <1>16 DEF LocksKnown
<1> QED BY <1>9, <1>10, <1>13, <1>17 DEF ReadInv

(***************************************************************************)
(* Ctrl-C wakes the sleepers of the foreground group that wait or sleep,   *)
(* and nobody who is BLOCKED.                                              *)
(***************************************************************************)
LEMMA InterruptWakes ==
  ASSUME state \in [Pid -> TaskState]
  PROVE  /\ Interrupt(state) \in [Pid -> TaskState]
         /\ \A n \in Pid : Interrupt(state)[n] = state[n]
              \/ (state[n] \in {"WAITING", "SLEEPING"} /\ Interrupt(state)[n] = "READY")
  BY DEF Interrupt, TaskState

(***************************************************************************)
(* keyboard_handler for a make code.                                       *)
(***************************************************************************)
LEMMA KeyPressRead ==
  ASSUME ReadInv, NEW key, KeyPress(key)
  PROVE  ReadInv'
<1>1. /\ Interruptible /\ InterruptExit /\ from' = from
      /\ state \in [Pid -> TaskState] /\ "kbd" \in Devices
  BY DEF KeyPress, reading, ReadInv, DriverTypes, Devices
<1>2. CASE UNCHANGED <<drivers, cpu>>
  BY <1>1, <1>2, QuietInterrupt
<1>3. CASE Deliver("kbd", Ascii(key), state)
  <2> DEFINE ch == Ascii(key)
  <2>1. Deliver("kbd", ch, state)
    BY <1>3
  <2> HIDE DEF ch
  <2> QED BY <1>1, <2>1, DeliverRead
<1>4. CASE ControlKey(Ascii(key)) /\ ~ UNCHANGED <<drivers, cpu>>
  <2> DEFINE ch == Control[Ascii(key)]
             st == IF Ascii(key) \in {"c", "C"} THEN Interrupt(state) ELSE state
  <2>1. Deliver("kbd", ch, st)
    BY <1>4 DEF ControlKey
  <2>2. /\ st \in [Pid -> TaskState]
        /\ \A n \in Pid : st[n] = state[n]
             \/ (state[n] \in {"WAITING", "SLEEPING"} /\ st[n] = "READY")
    <3>1. CASE st = state
      BY <1>1, <3>1
    <3>2. CASE st = Interrupt(state)
      BY <1>1, <3>2, InterruptWakes
    <3> QED BY <3>1, <3>2
  <2> HIDE DEF ch, st
  <2> QED BY <1>1, <2>1, <2>2, DeliverRead
<1>5. \/ UNCHANGED <<drivers, cpu>>
      \/ ControlKey(Ascii(key))
      \/ Deliver("kbd", Ascii(key), state)
  BY DEF KeyPress
<1> QED BY <1>2, <1>3, <1>4, <1>5

(***************************************************************************)
(* Every step keeps the invariant of the read paths.                       *)
(***************************************************************************)
LEMMA ReadStep == ReadInv /\ [Next]_vars => ReadInv'
<1> SUFFICES ASSUME ReadInv, [Next]_vars PROVE ReadInv'
  OBVIOUS
<1>1. ASSUME NEW t \in Pid \ {Idle}, current = t, ProgramStep(t)
      PROVE  ReadInv'
  <2> DEFINE Quiet(l) == /\ pc[t] \notin Driver /\ l \in Label \ Driver
                         /\ pc' = [pc EXCEPT ![t] = l]
                         /\ UNCHANGED <<drivers, cpu, from>>
  <2>1. ASSUME NEW l, Quiet(l) PROVE ReadInv'
    BY <1>1, <2>1, QuietCall
  <2>2. CASE Signal(t)
    <3>1. Quiet("iret")
      BY <2>2 DEF Signal, Calling, Return, Goto, Driver, Label, reading
    <3> QED BY <2>1, <3>1
  <2>3. CASE DefaultSignal(t)
    <3>1. Quiet("iret")
      BY <2>3 DEF DefaultSignal, Calling, Return, Goto, Driver, Label, reading
    <3> QED BY <2>1, <3>1
  <2>4. CASE OwnGroup(t)
    <3>1. Quiet("iret")
      BY <2>4 DEF OwnGroup, Calling, Return, Goto, Driver, Label, reading
    <3> QED BY <2>1, <3>1
  <2>5. CASE TakeTerminal(t)
    <3>1. Quiet("iret")
      BY <2>5 DEF TakeTerminal, Calling, Return, Goto, Driver, Label, reading
    <3> QED BY <2>1, <3>1
  <2>6. CASE Wait(t)
    <3>1. Quiet("waitpid")
      BY <2>6 DEF Wait, Calling, Goto, Driver, Label, reading
    <3> QED BY <2>1, <3>1
  <2>7. CASE Fork(t)
    BY <1>1, <2>7, ForkRead
  <2>8. CASE JobExit(t)
    <3>1. pc[t] = "user" /\ pc' = pc /\ Exit(t)
      BY <2>8 DEF JobExit, Calling
    <3>2. pc' = [pc EXCEPT ![t] = "user"]
      BY <3>1 DEF ReadInv, DriverTypes
    <3> QED BY <1>1, <3>1, <3>2, ExitRead
  <2>9. ASSUME NEW d \in Devices, NEW n \in Counts \cup {1}, Read(t, d, n)
        PROVE  ReadInv'
    BY <1>1, <2>9, ReadRead
  <2> HIDE DEF Quiet
  <2> QED BY <1>1, <2>2, <2>3, <2>4, <2>5, <2>6, <2>7, <2>8, <2>9 DEF ProgramStep
<1>2. ASSUME NEW t \in Pid \ {Idle}, current = t, KernelStep(t)
      PROVE  ReadInv'
  <2>1. CASE WaitLoop(t)
    BY <1>2, <2>1, WaitRead
  <2>2. CASE Lock(t)
    BY <1>2, <2>2, LockRead
  <2>3. CASE ReadBlock(t)
    BY <1>2, <2>3, BlockRead
  <2>4. CASE ReadByte(t)
    BY <1>2, <2>4, ByteRead
  <2>5. CASE ReadLast(t)
    BY <1>2, <2>5, LastRead
  <2>6. CASE Iret(t)
    <3>1. pc[t] = "iret" /\ pc' = [pc EXCEPT ![t] = "user"]
      BY <2>6 DEF Iret, Goto
    <3>2. CASE Exit(t)
      BY <1>2, <3>1, <3>2, ExitRead
    <3>3. CASE ~ Exit(t)
      <4>1. UNCHANGED <<drivers, cpu, from>>
        BY <2>6, <3>3 DEF Iret, reading
      <4>2. pc[t] \notin Driver /\ "user" \in Label \ Driver
        BY <3>1 DEF Driver, Label
      <4> QED BY <1>2, <3>1, <4>1, <4>2, QuietCall
    <3> QED BY <3>2, <3>3
  <2> QED BY <1>2, <2>1, <2>2, <2>3, <2>4, <2>5, <2>6 DEF KernelStep
<1>3. ASSUME Typing PROVE ReadInv'
  <2>1. ASSUME NEW key \in Keys, KeyPress(key) PROVE ReadInv'
    BY <2>1, KeyPressRead
  <2>2. ASSUME NEW key \in Keys, KeyRelease(key) PROVE ReadInv'
    BY <2>2, QuietInterrupt DEF KeyRelease, reading
  <2>3. CASE KeyExtend
    BY <2>3, QuietInterrupt DEF KeyExtend, reading
  <2>4. ASSUME NEW ch \in Line, SerialReceive(ch) PROVE ReadInv'
    <3> DEFINE c == IF ch = "\r" THEN "\n" ELSE ch
    <3>1. /\ Interruptible /\ InterruptExit /\ from' = from
          /\ state \in [Pid -> TaskState] /\ "com" \in Devices
          /\ Deliver("com", c, state)
      BY <2>4 DEF SerialReceive, reading, ReadInv, DriverTypes, Devices
    <3> HIDE DEF c
    <3> QED BY <3>1, DeliverRead
  <2> QED BY <1>3, <2>1, <2>2, <2>3, <2>4 DEF Typing
<1>4. DriverTypes /\ TasksSane
  BY DEF ReadInv
<1>5. /\ state \in [Pid -> TaskState] /\ state[Idle] \in Awake
      /\ pc \in [Pid -> Label] /\ pc[Idle] = "user"
  BY <1>4 DEF DriverTypes, TasksSane
<1>6. CASE ClockTick
  <2>1. /\ Interruptible /\ InterruptExit /\ Reschedule(state)
        /\ UNCHANGED <<drivers, from>>
    BY <1>6 DEF ClockTick, reading
  <2>2. /\ pc' \in [Pid -> Label] /\ pc'[Idle] = "user"
        /\ \A n \in Pid : n # current => pc'[n] = pc[n]
        /\ state[current] \in Awake
        /\ \A n \in Pid : \A k \in Driver : pc'[n] = k <=> pc[n] = k
    BY <1>4, <2>1, InterruptExitQuiet
  <2>3. \A n \in Pid : state[n] \in {"FREE", "DEAD"} => pc'[n] = "user"
    BY <1>4, <2>2 DEF TasksSane, Awake
  <2> QED BY <1>5, <2>1, <2>2, <2>3, QuietSchedule
<1>7. CASE IdleLoop
  <2>1. Reschedule(state) /\ UNCHANGED <<drivers, from>> /\ pc' = pc
    BY <1>7 DEF IdleLoop, reading
  <2>2. \A n \in Pid : state[n] \in {"FREE", "DEAD"} => pc'[n] = "user"
    BY <1>4, <2>1 DEF TasksSane
  <2> QED BY <1>5, <2>1, <2>2, QuietSchedule
<1>8. CASE UNCHANGED vars
  <2>1. UNCHANGED <<ring, waiter, holder, queue, state, current, pc, from>>
    BY <1>8 DEF vars, drivers, cpu, reading
  <2>2. DriverTypes' /\ TasksSane'
    BY <1>4, <2>1 DEF DriverTypes, TasksSane
  <2>3. ReadersAreKnown'
    BY <2>1 DEF ReadInv, ReadersAreKnown
  <2>4. LocksKnown'
    BY <2>1 DEF ReadInv, LocksKnown
  <2> QED BY <2>2, <2>3, <2>4 DEF ReadInv
<1> QED BY <1>1, <1>2, <1>3, <1>6, <1>7, <1>8 DEF Next

(***************************************************************************)
(* Membership without repetition is what the cardinalities of ReadLocks    *)
(* say of a queue.                                                         *)
(***************************************************************************)
LEMMA QueueCount ==
  ASSUME NEW w, \A i, j \in DOMAIN w : w[i] = w[j] => i = j, NEW t
  PROVE  Cardinality({i \in DOMAIN w : w[i] = t}) = IF Queued(w, t) THEN 1 ELSE 0
<1> DEFINE S == {i \in DOMAIN w : w[i] = t}
<1>1. CASE Queued(w, t)
  <2>1. PICK i \in DOMAIN w : w[i] = t
    BY <1>1 DEF Queued
  <2>2. S = {i}
    BY <2>1
  <2>3. Cardinality({i}) = 1
    BY FS_Singleton
  <2> QED BY <1>1, <2>2, <2>3
<1>2. CASE ~ Queued(w, t)
  <2>1. S = {}
    BY <1>2 DEF Queued
  <2> QED BY <1>2, <2>1, FS_EmptySet
<1> QED BY <1>1, <1>2

-----------------------------------------------------------------------------

(***************************************************************************)
(* No lost wakeup: whatever is typed, killed and scheduled, a task sleeps  *)
(* in keyboard_read or serial_read exactly when the driver remembers it,   *)
(* and then there is nothing to read.                                      *)
(***************************************************************************)
THEOREM TerminalLosesNoWakeup == Spec => []ReadersAreKnown
<1>1. ReadInv => ReadersAreKnown
  BY DEF ReadInv
<1> QED BY <1>1, ReadInit, ReadStep, PTL DEF Spec

(***************************************************************************)
(* The read locks are held exactly by the tasks inside a read, and whoever *)
(* sleeps on one is queued once and will be woken.                         *)
(***************************************************************************)
THEOREM TerminalReadLocks == Spec => []ReadLocks
<1>1. ReadInv => ReadLocks
  <2> SUFFICES ASSUME ReadInv, NEW d \in Devices
               PROVE  /\ \A t \in Pid : (holder[d] = t)
                                          <=> (pc[t] = "read" /\ from[t] = d)
                      /\ \A t \in Pid :
                           Cardinality({i \in DOMAIN queue[d] : queue[d][i] = t}) =
                             IF pc[t] = "lock" /\ from[t] = d /\ state[t] = "BLOCKED"
                             THEN 1 ELSE 0
                      /\ queue[d] # << >> =>
                           \/ holder[d] # None
                           \/ \E t \in Pid : /\ pc[t] = "lock" /\ from[t] = d
                                              /\ state[t] \in {"READY", "RUNNING"}
    BY DEF ReadLocks
  <2>1. /\ \A t \in Pid : (holder[d] = t) <=> (pc[t] = "read" /\ from[t] = d)
        /\ \A i, j \in DOMAIN queue[d] : queue[d][i] = queue[d][j] => i = j
        /\ queue[d] # << >> =>
             \/ holder[d] # None
             \/ \E t \in Pid : pc[t] = "lock" /\ from[t] = d /\ state[t] \in Awake
    BY DEF ReadInv, LocksKnown
  <2>2. ASSUME NEW t \in Pid
        PROVE  Cardinality({i \in DOMAIN queue[d] : queue[d][i] = t}) =
                 IF pc[t] = "lock" /\ from[t] = d /\ state[t] = "BLOCKED"
                 THEN 1 ELSE 0
    <3>1. Queued(queue[d], t) <=> (pc[t] = "lock" /\ from[t] = d
                                      /\ state[t] = "BLOCKED")
      BY DEF ReadInv, LocksKnown
    <3>2. Cardinality({i \in DOMAIN queue[d] : queue[d][i] = t})
            = IF Queued(queue[d], t) THEN 1 ELSE 0
      BY <2>1, QueueCount
    <3> QED BY <3>1, <3>2
  <2> QED BY <2>1, <2>2 DEF Awake
<1> QED BY <1>1, ReadInit, ReadStep, PTL DEF Spec
=============================================================================
