---------------------------- MODULE ProcessProofs ----------------------------
(***************************************************************************)
(* Proofs about the life of a process, for every size of the task table    *)
(* and every set of system calls: who runs, who is whose parent, what is   *)
(* on the timer list, and who is woken.                                    *)
(***************************************************************************)
EXTENDS Process, SchedProofs, FiniteSetTheorems

\* The states of a task that is not asleep, dead or absent.
Awake == {"READY", "RUNNING"}

\* The parts of sys_exit after the task has been marked DEAD.
Dying == {"iput", "notify", "close", "adopt"}

-----------------------------------------------------------------------------
(* The inductive invariant. *)

(***************************************************************************)
(* Who runs: no task but current is RUNNING, idle apart, idle never        *)
(* sleeps, current is awake or on its way through sys_exit, and awake when *)
(* idle is just loading it, and a dead task that is not current has left   *)
(* sys_exit.  A task sleeps in waitpid for the child it asked for.         *)
(***************************************************************************)
TasksSane ==
  /\ \A n \in Pid \ {Idle} : state[n] = "RUNNING" => n = current
  /\ state[Idle] \in Awake /\ pc[Idle] = "user"
  /\ \/ state[current] \in Awake
     \/ state[current] = "DEAD" /\ pc[current] \in Dying /\ ~ Loading
  /\ \A n \in Pid :
       /\ state[n] = "DEAD" => pc[n] = "iret" \/ (n = current /\ pc[n] \in Dying)
       /\ state[n] = "FREE" => pc[n] \in {"user", "iret"}
       /\ state[n] = "WAITING" => pc[n] = "waitpid" /\ waitpid[n] = arg[n]
       /\ state[n] = "SLEEPING" => pc[n] = "iret"

(***************************************************************************)
(* init lives: nobody can send it a signal that kills it.                  *)
(***************************************************************************)
InitLives ==
  /\ state[InitPid] \notin {"FREE", "DEAD"} /\ ~ Exiting(InitPid)
  /\ signal[InitPid] \subseteq {"CHLD"}
  /\ sid[InitPid] \in {0, InitPid} /\ ppid[InitPid] = InitPid

(***************************************************************************)
(* The parents form a tree: along the parents some rank decreases, so that *)
(* handing children over to one's parent never makes a task its own.       *)
(***************************************************************************)
Ranked(rank) ==
  \A n \in Pid \ {Idle, InitPid} : Exists(n) => rank[ppid[n]] < rank[n]

Descent == \E rank \in [Pid -> Nat] : Ranked(rank)

(***************************************************************************)
(* The timer list is sorted, and every timer belongs to a task that exists *)
(* and has not yet come past timer_remove in sys_exit.                     *)
(***************************************************************************)
Sorted(list) == \A i, j \in DOMAIN list : i < j => list[i].left <= list[j].left

MayOwnTimer(n) ==
  /\ n # Idle /\ state[n] # "FREE" /\ pc[n] \notin {"close", "adopt"}
  /\ state[n] = "DEAD" => Exiting(n)

TimersKnown ==
  /\ Sorted(timers)
  /\ \A i \in DOMAIN timers : MayOwnTimer(timers[i].task)

ProcInv == TypeOK /\ TasksSane /\ InitLives /\ FamilyTree /\ Descent /\ TimersKnown

(***************************************************************************)
(* A sleeper has its timer, and only a speaker that sounds has one, once.  *)
(***************************************************************************)
TimersNeeded ==
  /\ \A n \in Pid : state[n] = "SLEEPING" =>
       \E i \in DOMAIN timers :
         timers[i].task = n /\ timers[i].handler = "task_wakeup"
  /\ \A i, j \in DOMAIN timers :
       timers[i].handler = "stop_beep" /\ timers[j].handler = "stop_beep" => i = j
  /\ \A i \in DOMAIN timers : timers[i].handler = "stop_beep" => beeping

(***************************************************************************)
(* When nobody is woken early from a sleep: the timer of a sleep is that   *)
(* of a task that sleeps, one each, so that no tick touches the state of   *)
(* current, and nobody but the device ends a wait for it, so that no       *)
(* device touches the state of a task that idle has just made current.     *)
(***************************************************************************)
SleepTimersExact ==
  /\ \A i \in DOMAIN timers :
       timers[i].handler = "task_wakeup" =>
         "sleep" \in Calls /\ state[timers[i].task] = "SLEEPING"
  /\ \A i, j \in DOMAIN timers :
       /\ timers[i].handler = "task_wakeup" /\ timers[j].handler = "task_wakeup"
       /\ timers[i].task = timers[j].task
       => i = j

CurrentRuns == current # Idle => state[current] # "READY"

WaitsAnswered ==
  \A n \in Pid : pc[n] \in {"io", "notify", "adopt"} /\ state[n] # "BLOCKED" =>
    ioDone[n] \/ (n = current /\ ~ Loading)

Undisturbed == SleepTimersExact /\ CurrentRuns /\ DeviceWaitsAreExact /\ WaitsAnswered

(***************************************************************************)
(* The child that a task remembers from fork is its own, until it enters   *)
(* sys_exit.                                                               *)
(***************************************************************************)
ForkedIsChild ==
  \A n \in Pid : state[n] \notin {"FREE", "DEAD"} /\ ~ Exiting(n) /\ arg[n] # 0 =>
    arg[n] >= 2 /\ Exists(arg[n]) /\ ppid[arg[n]] = n

-----------------------------------------------------------------------------
(* The operations on the timer list. *)

(***************************************************************************)
(* A pid is a number.                                                      *)
(***************************************************************************)
LEMMA PidFacts == Pid \subseteq Nat /\ Idle \in Pid /\ InitPid \in Pid /\ Idle # InitPid
  BY TaskNrAssumption, InitSlotAssumption DEF Pid, Idle, InitPid

(***************************************************************************)
(* list_insert_sort puts the timer at a place of the list: every timer     *)
(* before it is not later, and the one it is put in front of is.           *)
(***************************************************************************)
LEMMA InsertSortedPlace ==
  ASSUME NEW list \in Seq(Timer), NEW timer \in Timer
  PROVE  \E at \in 1 .. Len(list) + 1 :
           /\ InsertSorted(list, timer) = ListInsert(list, at, timer)
           /\ \A i \in 1 .. at - 1 : ~ (list[i].left > timer.left)
           /\ at <= Len(list) => list[at].left > timer.left
<1> DEFINE later == {i \in DOMAIN list : list[i].left > timer.left}
           at == IF later = {} THEN Len(list) + 1 ELSE Min(later)
<1>1. InsertSorted(list, timer) = ListInsert(list, at, timer)
  BY DEF InsertSorted, InsertAt, ListInsert
<1>2. CASE later = {}
  <2>1. at = Len(list) + 1
    BY <1>2
  <2>2. \A i \in 1 .. Len(list) : ~ (list[i].left > timer.left)
    BY <1>2
  <2> HIDE DEF at, later
  <2> QED BY <1>1, <2>1, <2>2
<1>3. CASE later # {}
  <2>1. later \in SUBSET Nat
    OBVIOUS
  <2>2. at \in later /\ \A y \in later : at <= y
    <3>1. at = Min(later)
      BY <1>3
    <3> HIDE DEF at, later
    <3> QED BY <1>3, <2>1, <3>1, MinExists
  <2>3. at \in 1 .. Len(list)
    BY <2>2
  <2>4. \A i \in 1 .. at - 1 : i \notin later
    <3> HIDE DEF at, later
    <3> QED BY <2>2, <2>3
  <2>5. \A i \in 1 .. at - 1 : ~ (list[i].left > timer.left)
    BY <2>3, <2>4
  <2>6. list[at].left > timer.left
    BY <2>2
  <2> HIDE DEF at, later
  <2> QED BY <1>1, <2>3, <2>5, <2>6
<1> QED BY <1>2, <1>3

(***************************************************************************)
(* The list after an insertion: a sorted list stays sorted, every timer    *)
(* but the new one is an old one, and each old one is still there; places  *)
(* of different timers are different.                                      *)
(***************************************************************************)
LEMMA InsertSortedKeeps ==
  ASSUME NEW list \in Seq(Timer), NEW timer \in Timer,
         Sorted(list)
  PROVE  LET new == InsertSorted(list, timer) IN
         /\ new \in Seq(Timer) /\ Sorted(new)
         /\ \E at \in DOMAIN new :
              /\ new[at] = timer
              /\ \A k \in DOMAIN new \ {at} :
                   \E i \in DOMAIN list : new[k] = list[i]
              /\ \A i \in DOMAIN list : \E k \in DOMAIN new : new[k] = list[i]
              /\ \A k, l \in DOMAIN new \ {at} : k # l =>
                   \E i, j \in DOMAIN list :
                     i # j /\ new[k] = list[i] /\ new[l] = list[j]
<1> DEFINE new == InsertSorted(list, timer)
<1>1. PICK at \in 1 .. Len(list) + 1 :
           /\ new = ListInsert(list, at, timer)
           /\ \A i \in 1 .. at - 1 : ~ (list[i].left > timer.left)
           /\ at <= Len(list) => list[at].left > timer.left
  BY InsertSortedPlace
<1> HIDE DEF new
<1>2. /\ new \in Seq(Timer) /\ Len(new) = Len(list) + 1
      /\ \A i \in 1 .. Len(list) + 1 :
           new[i] = IF i < at THEN list[i] ELSE IF i = at THEN timer ELSE list[i - 1]
  <2>1. /\ ListInsert(list, at, timer) \in Seq(Timer)
        /\ Len(ListInsert(list, at, timer)) = Len(list) + 1
        /\ \A i \in 1 .. Len(list) + 1 :
             ListInsert(list, at, timer)[i] = IF i < at THEN list[i]
                                          ELSE IF i = at THEN timer ELSE list[i - 1]
    BY InsertElements
  <2>2. new = ListInsert(list, at, timer)
    BY <1>1
  <2> QED BY <2>1, <2>2
<1>3. /\ DOMAIN new = 1 .. Len(list) + 1 /\ DOMAIN list = 1 .. Len(list)
      /\ Len(list) \in Nat /\ at \in Nat
  BY <1>2
<1>4. /\ timer.left \in Nat /\ \A i \in DOMAIN list : list[i].left \in Nat
  <2>1. \A i \in DOMAIN list : list[i] \in Timer
    BY <1>3
  <2> QED BY <2>1 DEF Timer
<1> DEFINE old(k) == IF k < at THEN k ELSE k - 1
<1>5. ASSUME NEW k \in DOMAIN new, k # at
      PROVE  old(k) \in DOMAIN list /\ new[k] = list[old(k)]
  <2>1. CASE k < at
    BY <1>2, <1>3, <2>1
  <2>2. CASE k > at
    BY <1>2, <1>3, <2>2
  <2> QED BY <1>3, <1>5, <2>1, <2>2
<1>6. \A i \in 1 .. at - 1 : i \in DOMAIN list => list[i].left <= timer.left
  BY <1>1, <1>4
<1>7. \A i \in at .. Len(list) : i \in DOMAIN list => timer.left <= list[i].left
  <2> SUFFICES ASSUME NEW i \in at .. Len(list), i \in DOMAIN list
               PROVE  timer.left <= list[i].left
    OBVIOUS
  <2>1. at \in DOMAIN list /\ timer.left < list[at].left
    BY <1>1, <1>3, <1>4
  <2>2. list[at].left <= list[i].left
    <3>1. CASE i = at
      BY <1>4, <2>1, <3>1
    <3>2. CASE i > at
      BY <1>3, <2>1, <3>2 DEF Sorted
    <3> QED BY <1>3, <3>1, <3>2
  <2> QED BY <1>4, <2>1, <2>2
<1>8. ASSUME NEW k \in DOMAIN new, NEW l \in DOMAIN new, k < l
      PROVE  new[k].left <= new[l].left
  <2>1. CASE k # at /\ l # at
    <3>1. old(k) \in DOMAIN list /\ old(l) \in DOMAIN list /\ old(k) < old(l)
      BY <1>3, <1>5, <1>8, <2>1
    <3> HIDE DEF old
    <3> QED BY <1>5, <2>1, <3>1 DEF Sorted
  <2>2. CASE k = at
    <3>1. l # at /\ old(l) \in at .. Len(list) /\ old(l) \in DOMAIN list
      BY <1>3, <1>8, <2>2
    <3>2. new[k] = timer /\ new[l] = list[old(l)]
      BY <1>2, <1>3, <1>5, <2>2, <3>1
    <3> HIDE DEF old
    <3> QED BY <1>7, <3>1, <3>2
  <2>3. CASE l = at
    <3>1. k # at /\ old(k) \in 1 .. at - 1 /\ old(k) \in DOMAIN list
      BY <1>3, <1>8, <2>3
    <3>2. new[l] = timer /\ new[k] = list[old(k)]
      BY <1>2, <1>3, <1>5, <2>3, <3>1
    <3> HIDE DEF old
    <3> QED BY <1>6, <3>1, <3>2
  <2> QED BY <2>1, <2>2, <2>3
<1>9. at \in DOMAIN new /\ new[at] = timer
  BY <1>2, <1>3
<1>10. ASSUME NEW i \in DOMAIN list PROVE \E k \in DOMAIN new : new[k] = list[i]
  <2>1. CASE i < at
    BY <1>2, <1>3, <2>1
  <2>2. CASE i >= at
    <3>1. i + 1 \in DOMAIN new /\ ~ (i + 1 < at) /\ i + 1 # at /\ (i + 1) - 1 = i
      BY <1>3, <2>2
    <3>2. new[i + 1] = list[i]
      BY <1>2, <1>3, <3>1
    <3> QED BY <3>1, <3>2
  <2> QED BY <1>3, <2>1, <2>2
<1>11. ASSUME NEW k \in DOMAIN new \ {at}, NEW l \in DOMAIN new \ {at}, k # l
       PROVE  \E i, j \in DOMAIN list :
                i # j /\ new[k] = list[i] /\ new[l] = list[j]
  <2>1. old(k) # old(l)
    BY <1>3, <1>11
  <2> HIDE DEF old
  <2> QED BY <1>5, <2>1
<1>12. \A k \in DOMAIN new \ {at} : \E i \in DOMAIN list : new[k] = list[i]
  <2> HIDE DEF old
  <2> QED BY <1>5
<1> HIDE DEF old
<1>13. Sorted(new)
  BY <1>8 DEF Sorted
<1> QED BY <1>2, <1>9, <1>10, <1>11, <1>12, <1>13 DEF new

(***************************************************************************)
(* What the loop of timer_remove has kept of the first n timers, list: the *)
(* timers at the places that `place' gives, in their order, and all but    *)
(* those of t.                                                             *)
(***************************************************************************)
KeptBy(list, n, t, place) ==
  /\ place \in [1 .. Len(list) -> 1 .. n]
  /\ \A k \in 1 .. Len(list) : list[k] = timers[place[k]]
                                 /\ timers[place[k]].task # t
  /\ \A k, l \in 1 .. Len(list) : k < l => place[k] < place[l]
  /\ \A i \in 1 .. n : timers[i].task # t => \E k \in 1 .. Len(list) : place[k] = i

(***************************************************************************)
(* One turn of that loop.                                                  *)
(***************************************************************************)
LEMMA RemoveTurn ==
  ASSUME timers \in Seq(Timer), NEW t, NEW n \in 1 .. Len(timers),
         NEW list \in Seq(Timer), NEW place, KeptBy(list, n - 1, t, place),
         NEW new, new = IF timers[n].task = t THEN list ELSE Append(list, timers[n])
  PROVE  new \in Seq(Timer) /\ \E q : KeptBy(new, n, t, q)
<1>1. /\ Len(timers) \in Nat /\ Len(list) \in Nat /\ timers[n] \in Timer
      /\ n \in Nat \ {0} /\ n - 1 \in Nat
  OBVIOUS
<1>2. /\ place \in [1 .. Len(list) -> 1 .. n - 1]
      /\ \A k \in 1 .. Len(list) : list[k] = timers[place[k]]
                                     /\ timers[place[k]].task # t
      /\ \A k, l \in 1 .. Len(list) : k < l => place[k] < place[l]
      /\ \A i \in 1 .. n - 1 : timers[i].task # t =>
           \E k \in 1 .. Len(list) : place[k] = i
  BY DEF KeptBy
<1>3. CASE timers[n].task = t
  <2>1. new = list
    BY <1>3
  <2>2. place \in [1 .. Len(list) -> 1 .. n]
    BY <1>1, <1>2
  <2>3. ASSUME NEW i \in 1 .. n, timers[i].task # t
        PROVE  \E k \in 1 .. Len(list) : place[k] = i
    <3>1. i \in 1 .. n - 1
      BY <1>1, <1>3, <2>3
    <3> QED BY <1>2, <2>3, <3>1
  <2>4. KeptBy(list, n, t, place)
    BY <1>2, <2>2, <2>3 DEF KeptBy
  <2> QED BY <2>1, <2>4
<1>4. CASE timers[n].task # t
  <2> DEFINE L == Len(list)
             q == [k \in 1 .. L + 1 |-> IF k = L + 1 THEN n ELSE place[k]]
  <2>1. new = Append(list, timers[n])
    BY <1>4
  <2>2. /\ new \in Seq(Timer) /\ Len(new) = L + 1 /\ new[L + 1] = timers[n]
        /\ \A k \in 1 .. L : new[k] = list[k]
    BY <1>1, <2>1
  <2>3. L \in Nat
    BY <1>1
  <2> HIDE DEF L
  <2>4. \A k \in 1 .. L : place[k] \in 1 .. n - 1
    BY <1>2 DEF L
  <2>5. q \in [1 .. L + 1 -> 1 .. n]
    BY <1>1, <2>3, <2>4
  <2>6. q[L + 1] = n /\ \A k \in 1 .. L : q[k] = place[k]
    BY <2>3
  <2> HIDE DEF q
  <2>7. \A k \in 1 .. L + 1 : k = L + 1 \/ k \in 1 .. L
    BY <2>3
  <2>8. \A k \in 1 .. L + 1 : new[k] = timers[q[k]] /\ timers[q[k]].task # t
    BY <1>2, <1>4, <2>2, <2>6, <2>7 DEF L
  <2>9. ASSUME NEW k \in 1 .. L + 1, NEW l \in 1 .. L + 1, k < l
        PROVE  q[k] < q[l]
    <3>1. k \in 1 .. L
      BY <2>3, <2>9
    <3>2. CASE l = L + 1
      BY <1>1, <2>4, <2>6, <3>1, <3>2
    <3>3. CASE l \in 1 .. L
      BY <1>2, <2>6, <2>9, <3>1, <3>3 DEF L
    <3> QED BY <2>7, <3>2, <3>3
  <2>10. ASSUME NEW i \in 1 .. n, timers[i].task # t
         PROVE  \E k \in 1 .. L + 1 : q[k] = i
    <3>1. CASE i = n
      BY <2>3, <2>6, <3>1
    <3>2. CASE i # n
      <4>1. i \in 1 .. n - 1
        BY <1>1, <3>2
      <4>2. PICK k \in 1 .. L : place[k] = i
        BY <1>2, <2>10, <4>1 DEF L
      <4> QED BY <2>3, <2>6, <4>2
    <3> QED BY <3>1, <3>2
  <2>11. KeptBy(new, n, t, q)
    BY <2>2, <2>5, <2>8, <2>9, <2>10 DEF KeptBy
  <2> QED BY <2>2, <2>11
<1> QED BY <1>3, <1>4

(***************************************************************************)
(* The loop as a whole.                                                    *)
(***************************************************************************)
LEMMA RemoveLoop ==
  ASSUME timers \in Seq(Timer), NEW t
  PROVE  /\ RemoveTimers(t) \in Seq(Timer)
         /\ \E place : KeptBy(RemoveTimers(t), Len(timers), t, place)
<1> DEFINE L == Len(timers)
           Turn(list, i) == IF timers[i].task = t THEN list
                            ELSE Append(list, timers[i])
           Loop(f, n) == f[0] = << >> /\ \A i \in 1 .. n : f[i] = Turn(f[i - 1], i)
           Def(f) == f = [i \in 0 .. L |->
                            IF i = 0 THEN << >>
                            ELSE IF timers[i].task = t THEN f[i - 1]
                            ELSE Append(f[i - 1], timers[i])]
           Kept == CHOOSE f : Def(f)
<1>1. L \in Nat
  OBVIOUS
<1>2. RemoveTimers(t) = Kept[L]
  BY DEF RemoveTimers
<1> HIDE DEF L, Turn, Kept
<1>3. \E f : Loop(f, L)
  <2> DEFINE S == {n \in 0 .. L : \E f : Loop(f, n)}
  <2>1. 0 \in S
    <3>1. Loop([i \in {0} |-> << >>], 0)
      OBVIOUS
    <3> HIDE DEF Loop
    <3> QED BY <1>1, <3>1
  <2>2. ASSUME NEW n \in 0 .. L - 1, n \in S
        PROVE  n + 1 \in S
    <3>1. PICK f : Loop(f, n)
      BY <2>2
    <3> DEFINE g == [i \in 0 .. n + 1 |-> IF i = n + 1 THEN Turn(f[n], n + 1) ELSE f[i]]
    <3>2. n \in Nat /\ 0 # n + 1
      BY <1>1
    <3>3. g[0] = << >>
      BY <3>1, <3>2
    <3>4. ASSUME NEW i \in 1 .. n + 1 PROVE g[i] = Turn(g[i - 1], i)
      <4>1. i - 1 \in 0 .. n + 1 /\ i - 1 # n + 1 /\ i \in 0 .. n + 1
        BY <3>2
      <4>2. g[i - 1] = f[i - 1]
        BY <4>1
      <4>3. CASE i = n + 1
        <5>1. g[i] = Turn(f[n], n + 1) /\ i - 1 = n
          BY <3>2, <4>1, <4>3
        <5> HIDE DEF g
        <5> QED BY <4>2, <4>3, <5>1
      <4>4. CASE i # n + 1
        <5>1. g[i] = f[i] /\ i \in 1 .. n
          BY <3>2, <4>1, <4>4
        <5> HIDE DEF g
        <5> QED BY <3>1, <4>2, <5>1
      <4> QED BY <4>3, <4>4
    <3>5. Loop(g, n + 1)
      <4> HIDE DEF g
      <4> QED BY <3>3, <3>4
    <3> HIDE DEF Loop, g
    <3> QED BY <1>1, <3>2, <3>5
  <2> HIDE DEF S
  <2>3. \A n \in 0 .. L : n \in S
    BY <1>1, <2>1, <2>2, PlaceInduction
  <2>4. L \in S
    BY <1>1, <2>3
  <2> QED BY <2>4 DEF S
<1>4. \E f : Def(f)
  <2>1. PICK f : Loop(f, L)
    BY <1>3
  <2> DEFINE g == [i \in 0 .. L |-> f[i]]
  <2>2. ASSUME NEW i \in 0 .. L
        PROVE  g[i] = IF i = 0 THEN << >>
                      ELSE IF timers[i].task = t THEN g[i - 1]
                      ELSE Append(g[i - 1], timers[i])
    <3>1. CASE i = 0
      BY <2>1, <3>1
    <3>2. CASE i # 0
      <4>1. i \in 1 .. L /\ i - 1 \in 0 .. L
        BY <1>1, <3>2
      <4>2. g[i] = f[i] /\ g[i - 1] = f[i - 1]
        BY <4>1
      <4>3. f[i] = Turn(f[i - 1], i)
        BY <2>1, <4>1
      <4> HIDE DEF g
      <4> QED BY <3>2, <4>2, <4>3 DEF Turn
    <3> QED BY <3>1, <3>2
  <2>3. g = [i \in 0 .. L |-> g[i]]
    OBVIOUS
  <2> HIDE DEF g
  <2>4. Def(g)
    BY <2>2, <2>3
  <2> HIDE DEF Def
  <2> QED BY <2>4
<1>5. Def(Kept)
  <2> HIDE DEF Def
  <2> QED BY <1>4 DEF Kept
<1>6. Loop(Kept, L)
  <2>1. Kept[0] = << >>
    BY <1>1, <1>5
  <2>2. ASSUME NEW i \in 1 .. L PROVE Kept[i] = Turn(Kept[i - 1], i)
    <3>1. i \in 0 .. L /\ i # 0
      BY <1>1
    <3> QED BY <1>5, <3>1 DEF Turn
  <2> QED BY <2>1, <2>2
<1> HIDE DEF Def
<1> DEFINE T == {n \in 0 .. L : /\ Kept[n] \in Seq(Timer)
                                /\ \E place : KeptBy(Kept[n], n, t, place)}
<1>7. 0 \in T
  <2>1. Kept[0] = << >> /\ Kept[0] \in Seq(Timer) /\ Len(Kept[0]) = 0
    BY <1>6
  <2>2. KeptBy(Kept[0], 0, t, [k \in 1 .. 0 |-> 0])
    BY <2>1 DEF KeptBy
  <2>3. \E place : KeptBy(Kept[0], 0, t, place)
    BY <2>2, Zenon
  <2>4. 0 \in 0 .. L
    BY <1>1
  <2> QED BY <2>1, <2>3, <2>4, Zenon
<1>8. ASSUME NEW n \in 0 .. L - 1, n \in T
      PROVE  n + 1 \in T
  <2>1. PICK place : KeptBy(Kept[n], n, t, place)
    BY <1>8
  <2>2. /\ n + 1 \in 1 .. L /\ (n + 1) - 1 = n /\ Kept[n] \in Seq(Timer)
        /\ n + 1 \in 0 .. L
    BY <1>1, <1>8
  <2>3. Kept[n + 1] = IF timers[n + 1].task = t THEN Kept[n]
                      ELSE Append(Kept[n], timers[n + 1])
    BY <1>6, <2>2 DEF Turn
  <2>4. KeptBy(Kept[n], (n + 1) - 1, t, place)
    BY <2>1, <2>2
  <2>5. /\ Kept[n + 1] \in Seq(Timer)
        /\ \E q : KeptBy(Kept[n + 1], n + 1, t, q)
    BY <2>2, <2>3, <2>4, RemoveTurn DEF L
  <2> QED BY <2>2, <2>5
<1> HIDE DEF T, Loop
<1>9. \A n \in 0 .. L : n \in T
  BY <1>1, <1>7, <1>8, PlaceInduction
<1>10. L \in T
  BY <1>1, <1>9
<1>11. Kept[L] \in Seq(Timer) /\ \E place : KeptBy(Kept[L], L, t, place)
  BY <1>10, Zenon DEF T
<1> QED BY <1>2, <1>11, Zenon DEF L

(***************************************************************************)
(* A list made of different timers of timer_list, with their tasks and     *)
(* handlers; how long they have left may have changed.                     *)
(***************************************************************************)
Derived(new, place) ==
  /\ place \in [DOMAIN new -> DOMAIN timers]
  /\ \A k, l \in DOMAIN new : place[k] = place[l] => k = l
  /\ \A k \in DOMAIN new : /\ new[k].task = timers[place[k]].task
                           /\ new[k].handler = timers[place[k]].handler

(***************************************************************************)
(* timer_remove keeps the timers of the other tasks, all of them and in    *)
(* their order.                                                            *)
(***************************************************************************)
LEMMA RemoveKeeps ==
  ASSUME timers \in Seq(Timer), Sorted(timers), NEW t
  PROVE  /\ RemoveTimers(t) \in Seq(Timer) /\ Sorted(RemoveTimers(t))
         /\ \E place :
              /\ Derived(RemoveTimers(t), place)
              /\ \A k \in DOMAIN RemoveTimers(t) : timers[place[k]].task # t
              /\ \A i \in DOMAIN timers : timers[i].task # t =>
                   \E k \in DOMAIN RemoveTimers(t) : place[k] = i
<1> DEFINE new == RemoveTimers(t)
<1>1. new \in Seq(Timer) /\ \E place : KeptBy(new, Len(timers), t, place)
  BY RemoveLoop
<1> HIDE DEF new
<1>2. PICK place : KeptBy(new, Len(timers), t, place)
  BY <1>1
<1>3. /\ DOMAIN new = 1 .. Len(new) /\ DOMAIN timers = 1 .. Len(timers)
      /\ Len(new) \in Nat /\ Len(timers) \in Nat
  BY <1>1
<1>4. /\ place \in [DOMAIN new -> DOMAIN timers]
      /\ \A k \in DOMAIN new : new[k] = timers[place[k]] /\ timers[place[k]].task # t
      /\ \A k, l \in DOMAIN new : k < l => place[k] < place[l]
      /\ \A i \in DOMAIN timers : timers[i].task # t =>
           \E k \in DOMAIN new : place[k] = i
  BY <1>2, <1>3 DEF KeptBy
<1>5. ASSUME NEW k \in DOMAIN new, NEW l \in DOMAIN new, place[k] = place[l]
      PROVE  k = l
  <2>1. place[k] \in Nat /\ place[l] \in Nat
    BY <1>3, <1>4
  <2>2. ~ (k < l) /\ ~ (l < k)
    BY <1>4, <1>5, <2>1
  <2> QED BY <1>3, <2>2
<1>6. Derived(new, place)
  BY <1>4, <1>5 DEF Derived
<1>7. Sorted(new)
  BY <1>4 DEF Sorted
<1> QED BY <1>1, <1>4, <1>6, <1>7 DEF new

(***************************************************************************)
(* timer_wakeup takes the timers that have expired off a sorted list: a    *)
(* prefix, and nothing behind it is due.                                   *)
(***************************************************************************)
LEMMA ExpiredPrefix ==
  ASSUME timers \in Seq(Timer), Sorted(timers)
  PROVE  /\ Expired \in 0 .. Len(timers)
         /\ \A i \in Expired + 1 .. Len(timers) : timers[i].left > 1
<1> DEFINE K == {k \in 0 .. Len(timers) : \A i \in 1 .. k : timers[i].left <= 1}
           n == Expired
<1>1. Len(timers) \in Nat /\ K \in SUBSET (0 .. Len(timers))
  OBVIOUS
<1>2. 0 \in K
  BY <1>1
<1>3. n \in K /\ \A y \in K : y <= n
  BY <1>1, <1>2, MaxExists DEF Expired
<1>4. n \in 0 .. Len(timers) /\ \A i \in 1 .. n : timers[i].left <= 1
  BY <1>3
<1> HIDE DEF n
<1>5. \A i \in 1 .. Len(timers) : timers[i].left \in Nat
  <2>1. \A i \in 1 .. Len(timers) : timers[i] \in Timer
    OBVIOUS
  <2> QED BY <2>1 DEF Timer
<1>6. ASSUME n < Len(timers) PROVE timers[n + 1].left > 1
  <2>1. n + 1 \notin K /\ n + 1 \in 0 .. Len(timers)
    BY <1>3, <1>4, <1>6
  <2>2. PICK i \in 1 .. n + 1 : ~ (timers[i].left <= 1)
    BY <2>1
  <2>3. i = n + 1
    BY <1>4, <2>2
  <2> QED BY <1>4, <1>5, <1>6, <2>2, <2>3
<1>7. ASSUME NEW i \in n + 1 .. Len(timers) PROVE timers[i].left > 1
  <2>1. n + 1 \in 1 .. Len(timers) /\ i \in 1 .. Len(timers) /\ n < Len(timers)
    BY <1>4, <1>7
  <2>2. timers[n + 1].left <= timers[i].left
    <3>1. CASE i = n + 1
      BY <1>5, <2>1, <3>1
    <3>2. CASE i # n + 1
      <4>1. n + 1 < i
        BY <1>4, <3>2
      <4> QED BY <2>1, <4>1 DEF Sorted
    <3> QED BY <3>1, <3>2
  <2> QED BY <1>5, <1>6, <2>1, <2>2
<1> QED BY <1>4, <1>7 DEF n

\* The list that a tick leaves.
Ticked == [i \in DOMAIN Unexpired |-> [Unexpired[i] EXCEPT !.left = @ - 1]]

(***************************************************************************)
(* The timers that have not expired stay on the list, each with a tick     *)
(* less to go.                                                             *)
(***************************************************************************)
LEMMA TickKeeps ==
  ASSUME timers \in Seq(Timer), Sorted(timers)
  PROVE  /\ Ticked \in Seq(Timer) /\ Sorted(Ticked)
         /\ \E place :
              /\ Derived(Ticked, place)
              /\ \A k \in DOMAIN Ticked : place[k] > Expired
              /\ \A i \in DOMAIN timers : i > Expired =>
                   \E k \in DOMAIN Ticked : place[k] = i
<1> DEFINE n == Expired
           L == Len(timers)
           u == Unexpired
           new == Ticked
           place == [k \in 1 .. L - n |-> k + n]
<1>1. n \in 0 .. L /\ \A i \in n + 1 .. L : timers[i].left > 1
  BY ExpiredPrefix
<1>2. u = SubSeq(timers, n + 1, L)
  BY DEF Unexpired
<1>3. L \in Nat /\ DOMAIN timers = 1 .. L
  OBVIOUS
<1>4. new = [i \in DOMAIN u |-> [u[i] EXCEPT !.left = @ - 1]]
  BY DEF Ticked
<1> HIDE DEF n, u, new
<1>5. /\ u \in Seq(Timer) /\ DOMAIN u = 1 .. L - n
      /\ \A i \in 1 .. L - n : u[i] = timers[n + i]
  <2> DEFINE at == n + 1
  <2>1. at \in 1 .. Len(timers) + 1 /\ u = SubSeq(timers, at, Len(timers))
    BY <1>1, <1>2, <1>3
  <2> HIDE DEF at
  <2>2. /\ u \in Seq(Timer) /\ Len(u) = Len(timers) + 1 - at
        /\ \A i \in 1 .. Len(u) : u[i] = timers[at + i - 1]
    BY <2>1
  <2>3. L \in Nat /\ n \in 0 .. L /\ at = n + 1 /\ L = Len(timers)
    BY <1>1, <1>3 DEF at
  <2> HIDE DEF L
  <2>4. L + 1 - at = L - n /\ \A i \in 1 .. L - n : at + i - 1 = n + i
    BY ONLY <2>3, SMT
  <2> QED BY <2>2, <2>3, <2>4
<1>6. L - n \in Nat
  BY <1>1, <1>3
<1> HIDE DEF L
<1>7. ASSUME NEW i \in 1 .. L - n
      PROVE  /\ new[i] \in Timer /\ new[i].left = timers[n + i].left - 1
             /\ new[i].task = timers[n + i].task
             /\ new[i].handler = timers[n + i].handler
             /\ n + i \in 1 .. L
  <2>1. new[i] = [u[i] EXCEPT !.left = @ - 1] /\ u[i] = timers[n + i]
    BY <1>4, <1>5
  <2>2. n + i \in n + 1 .. L /\ n + i \in 1 .. L
    BY <1>1, <1>3, <1>6
  <2>3. u[i] \in Timer /\ u[i].left > 1
    BY <1>1, <1>3, <2>1, <2>2 DEF L
  <2>4. new[i] = [u[i] EXCEPT !.left = u[i].left - 1]
    BY <2>1
  <2>5. u[i].left \in Nat /\ u[i].left - 1 \in Nat
    BY <2>3 DEF Timer
  <2> QED BY <2>1, <2>2, <2>3, <2>4, <2>5 DEF Timer
<1>8. DOMAIN new = 1 .. L - n
  BY <1>4, <1>5
<1>9. new \in Seq(Timer)
  <2>1. new \in [1 .. L - n -> Timer]
    BY <1>4, <1>5, <1>7
  <2> QED BY <1>6, <2>1, SeqDef
<1>10. Sorted(new)
  <2> SUFFICES ASSUME NEW i \in DOMAIN new, NEW j \in DOMAIN new, i < j
               PROVE  new[i].left <= new[j].left
    BY DEF Sorted
  <2>1. i \in 1 .. L - n /\ j \in 1 .. L - n
    BY <1>8
  <2>2. n + i \in DOMAIN timers /\ n + j \in DOMAIN timers /\ n + i < n + j
    BY <1>1, <1>3, <1>6, <1>7, <2>1
  <2>3. timers[n + i].left <= timers[n + j].left
    BY <2>2 DEF Sorted
  <2>4. timers[n + i] \in Timer /\ timers[n + j] \in Timer
    BY <2>2
  <2>5. timers[n + i].left \in Nat /\ timers[n + j].left \in Nat
    BY <2>4 DEF Timer
  <2>6. /\ new[i].left = timers[n + i].left - 1
        /\ new[j].left = timers[n + j].left - 1
    BY <1>7, <2>1
  <2> QED BY <2>3, <2>5, <2>6
<1>11. Derived(new, place)
  <2>1. place \in [DOMAIN new -> DOMAIN timers]
    <3>1. \A k \in 1 .. L - n : k + n \in 1 .. L
      BY <1>1, <1>3, <1>6
    <3> QED BY <1>3, <1>8, <3>1
  <2>2. ASSUME NEW k \in DOMAIN new PROVE place[k] = n + k
    BY <1>1, <1>6, <1>8
  <2>3. ASSUME NEW k \in DOMAIN new, NEW l \in DOMAIN new, place[k] = place[l]
        PROVE  k = l
    BY <1>1, <1>6, <1>8, <2>3
  <2> HIDE DEF place
  <2> QED BY <1>7, <1>8, <2>1, <2>2, <2>3 DEF Derived
<1>12. \A k \in DOMAIN new : place[k] > n
  BY <1>1, <1>6, <1>8
<1>13. ASSUME NEW i \in DOMAIN timers, i > n
       PROVE  \E k \in DOMAIN new : place[k] = i
  <2>1. i - n \in 1 .. L - n /\ (i - n) + n = i
    BY <1>1, <1>3, <1>13
  <2> QED BY <1>8, <2>1
<1> HIDE DEF place
<1>14. \E q : /\ Derived(new, q)
              /\ \A k \in DOMAIN new : q[k] > n
              /\ \A i \in DOMAIN timers : i > n => \E k \in DOMAIN new : q[k] = i
  BY <1>11, <1>12, <1>13, Zenon
<1> QED BY <1>9, <1>10, <1>14, Zenon DEF new, n

-----------------------------------------------------------------------------
(* The scheduler. *)

(***************************************************************************)
(* schedule() leaves every sleeping, dead and absent task as it was and    *)
(* every awake one awake, and the task it switches to is the only one that *)
(* runs.                                                                   *)
(***************************************************************************)
LEMMA RescheduleEffect ==
  ASSUME NEW st \in [Pid -> TaskState], st[Idle] \in Awake, current \in Pid,
         \A n \in Pid \ {Idle} : st[n] = "RUNNING" => n = current,
         Reschedule(st)
  PROVE  /\ state' \in [Pid -> TaskState] /\ current' \in Pid
         /\ state'[Idle] \in Awake /\ state'[current'] \in Awake
         /\ \A n \in Pid \ {Idle} : state'[n] = "RUNNING" => n = current'
         /\ \A n \in Pid : st[n] \notin Awake => state'[n] = st[n]
         /\ \A n \in Pid : st[n] \in Awake => state'[n] \in Awake
         /\ current' # Idle /\ (current = Idle \/ st[current] # "READY") =>
              state'[current'] = "RUNNING"
<1> DEFINE n == Schedule(st, current)
<1>1. n \in Pid /\ (n = Idle \/ st[n] = "READY")
  BY ScheduleReady
<1>2. state' = SwitchTo(st, current, n) /\ current' = n
  BY DEF Reschedule, AfterSchedule
<1> HIDE DEF n
<1>3. CASE n = current
  BY <1>1, <1>2, <1>3, PidFacts DEF SwitchTo, Awake
<1>4. CASE n # current
  <2> DEFINE mid == [st EXCEPT ![current] =
                       IF st[current] = "RUNNING" THEN "READY" ELSE st[current]]
  <2>1. mid \in [Pid -> TaskState] /\ state' = [mid EXCEPT ![n] = "RUNNING"]
    BY <1>2, <1>4 DEF SwitchTo, TaskState
  <2>2. \A m \in Pid : /\ m # current => mid[m] = st[m]
                       /\ m # Idle => mid[m] # "RUNNING"
    OBVIOUS
  <2>3. mid[current] = IF st[current] = "RUNNING" THEN "READY" ELSE st[current]
    OBVIOUS
  <2> HIDE DEF mid
  <2>4. /\ state' \in [Pid -> TaskState] /\ state'[n] = "RUNNING"
        /\ \A m \in Pid : m # n => state'[m] = mid[m]
    BY <1>1, <2>1 DEF TaskState
  <2>5. ASSUME NEW m \in Pid
        PROVE  /\ st[m] \notin Awake => state'[m] = st[m]
               /\ st[m] \in Awake => state'[m] \in Awake
    <3>1. CASE m = n
      BY <1>1, <2>4, <3>1 DEF Awake
    <3>2. CASE m # n
      BY <2>2, <2>3, <2>4, <3>2 DEF Awake
    <3> QED BY <3>1, <3>2
  <2>6. /\ state'[Idle] \in Awake /\ state'[current'] \in Awake
        /\ \A m \in Pid \ {Idle} : state'[m] = "RUNNING" => m = current'
    BY <1>2, <2>2, <2>4, <2>5, PidFacts DEF Awake
  <2> QED BY <1>1, <1>2, <2>4, <2>5, <2>6
<1> QED BY <1>3, <1>4

(***************************************************************************)
(* The assertion in switch_to is all that can fail in schedule().          *)
(***************************************************************************)
LEMMA ReschedulePanic ==
  ASSUME NEW st, Reschedule(st)
  PROVE  panic' \in {panic, "not_ready"}
  BY DEF Reschedule

\* The parts of the type invariant that a step of the code at t touches.
CpuTypes == state \in [Pid -> TaskState] /\ current \in Pid /\ pc \in [Pid -> PC]

FamilyTypes ==
  /\ ppid \in [Pid -> Pid] /\ sid \in [Pid -> Pid]
  /\ waitpid \in [Pid -> Pid] /\ arg \in [Pid -> Pid]

OtherTypes ==
  /\ signal \in [Pid -> SUBSET Signals] /\ caught \in [Pid -> BOOLEAN]
  /\ beeping \in BOOLEAN /\ ioDone \in [Pid -> BOOLEAN]
  /\ idleAt \in IdlePC /\ target \in Pid
  /\ panic \in {"none", "task_nr", "exit_state", "no_father", "not_ready", "two_stacks"}

(***************************************************************************)
(* The type invariant in these parts.                                      *)
(***************************************************************************)
LEMMA TypeParts ==
  /\ TypeOK <=> CpuTypes /\ FamilyTypes /\ OtherTypes /\ timers \in Seq(Timer)
  /\ TypeOK' <=> CpuTypes' /\ FamilyTypes' /\ OtherTypes' /\ timers' \in Seq(Timer)
  BY DEF TypeOK, CpuTypes, FamilyTypes, OtherTypes

(***************************************************************************)
(* Who may be at which place: current is awake unless it is in sys_exit,   *)
(* and idle is always in its loop.                                         *)
(***************************************************************************)
LEMMA CurrentFacts ==
  ASSUME ProcInv
  PROVE  /\ current \in Pid /\ state[current] # "FREE"
         /\ pc[current] # "user" => current # Idle
         /\ pc[current] \notin Dying => state[current] \in Awake
         /\ pc[current] \in Dying \cup {"exit"} => current \notin {Idle, InitPid}
  BY PidFacts DEF ProcInv, TypeOK, TasksSane, InitLives, Awake, Dying, Exiting

-----------------------------------------------------------------------------
(* What most steps leave alone. *)

(***************************************************************************)
(* Nobody gets another parent, appears, disappears or ends: a task ends    *)
(* when it is dead and has left sys_exit.                                  *)
(***************************************************************************)
FamilyKept ==
  /\ ppid' = ppid
  /\ \A n \in Pid : Exists(n)' <=> Exists(n)
  /\ \A n \in Pid : state'[n] = "DEAD" /\ ~ Exiting(n)' =>
                      state[n] = "DEAD" /\ ~ Exiting(n)

(***************************************************************************)
(* Then the process tree stays one.                                        *)
(***************************************************************************)
LEMMA FamilyFrame ==
  ASSUME TypeOK, FamilyTree, Descent, FamilyKept
  PROVE  FamilyTree' /\ Descent'
<1>1. FamilyTree'
  <2> SUFFICES ASSUME NEW n \in Pid \ {Idle}, Exists(n)'
               PROVE  /\ Exists(ppid[n])'
                      /\ state'[ppid'[n]] = "DEAD" => Exiting(ppid[n])'
    BY DEF FamilyTree
  <2>1. ppid[n] \in Pid /\ ppid' = ppid
    BY DEF TypeOK, FamilyKept
  <2>2. Exists(ppid[n]) /\ (state[ppid[n]] = "DEAD" => Exiting(ppid[n]))
    BY DEF FamilyTree, FamilyKept
  <2> QED BY <2>1, <2>2 DEF FamilyKept, Exists, Exiting
<1>2. Descent'
  <2>1. PICK rank \in [Pid -> Nat] : Ranked(rank)
    BY DEF Descent
  <2>2. Ranked(rank)'
    BY <2>1 DEF Ranked, FamilyKept
  <2> QED BY <2>2 DEF Descent
<1> QED BY <1>1, <1>2

(***************************************************************************)
(* The task of a timer is one, and may own it.                             *)
(***************************************************************************)
LEMMA TimerOwners ==
  ASSUME TypeOK, TimersKnown, NEW i \in DOMAIN timers
  PROVE  timers[i].task \in Pid /\ MayOwnTimer(timers[i].task)
<1>1. timers[i] \in Timer
  BY DEF TypeOK
<1> QED BY <1>1 DEF Timer, TimersKnown

\* Everybody who may own a timer before the step may after it.
OwnersKept == \A n \in Pid : MayOwnTimer(n) => MayOwnTimer(n)'

(***************************************************************************)
(* A list of which every timer is an old one or one that its task may own. *)
(***************************************************************************)
LEMMA TimersFrame ==
  ASSUME TypeOK, TimersKnown, Sorted(timers'), OwnersKept,
         \A k \in DOMAIN timers' :
           \/ \E i \in DOMAIN timers : timers'[k].task = timers[i].task
           \/ MayOwnTimer(timers[k].task)'
  PROVE  TimersKnown'
<1>1. ASSUME NEW k \in DOMAIN timers', NEW i \in DOMAIN timers,
             timers'[k].task = timers[i].task
      PROVE  MayOwnTimer(timers[k].task)'
  <2>1. timers[i].task \in Pid /\ MayOwnTimer(timers[i].task)
    BY TimerOwners
  <2>2. PICK n \in Pid : n = timers[i].task
    BY <2>1
  <2>3. MayOwnTimer(n) /\ n = timers'[k].task
    BY <1>1, <2>1, <2>2
  <2>4. MayOwnTimer(n)'
    BY <2>3 DEF OwnersKept
  <2> QED BY <2>3, <2>4 DEF MayOwnTimer, Exiting
<1>2. \A k \in DOMAIN timers' : MayOwnTimer(timers[k].task)'
  BY <1>1
<1> QED BY <1>2 DEF TimersKnown

(***************************************************************************)
(* The list after timer_add.                                               *)
(***************************************************************************)
LEMMA TimerAdd ==
  ASSUME TypeOK, TimersKnown, OwnersKept,
         NEW timer \in Timer, timers' = InsertSorted(timers, timer),
         MayOwnTimer(timer.task)'
  PROVE  timers' \in Seq(Timer) /\ TimersKnown'
<1>1. /\ timers' \in Seq(Timer) /\ Sorted(timers')
      /\ \E at \in DOMAIN timers' :
           /\ timers'[at] = timer
           /\ \A k \in DOMAIN timers' \ {at} :
                \E i \in DOMAIN timers : timers'[k] = timers[i]
  BY InsertSortedKeeps DEF TypeOK, TimersKnown
<1>2. ASSUME NEW k \in DOMAIN timers'
      PROVE  \/ \E i \in DOMAIN timers : timers'[k].task = timers[i].task
             \/ MayOwnTimer(timers[k].task)'
  <2>1. CASE timers'[k] = timer
    BY <2>1 DEF MayOwnTimer, Exiting
  <2>2. CASE \E i \in DOMAIN timers : timers'[k] = timers[i]
    BY <2>2
  <2> QED BY <1>1, <2>1, <2>2
<1> QED BY <1>1, <1>2, TimersFrame

(***************************************************************************)
(* The list that is left alone.                                            *)
(***************************************************************************)
LEMMA TimersLeft ==
  ASSUME TypeOK, TimersKnown, OwnersKept, UNCHANGED timers
  PROVE  timers' \in Seq(Timer) /\ TimersKnown'
  BY TimersFrame DEF TypeOK, TimersKnown

(***************************************************************************)
(* A step of current within the kernel or its program that changes no task *)
(* state: only its place in the code moves.                                *)
(***************************************************************************)
Moves(label) == UNCHANGED <<state, current, ppid, idling>> /\ Goto(current, label)

(***************************************************************************)
(* Such a step keeps who runs and the process tree when it does not leave  *)
(* sys_exit, and the timer list unless it comes past timer_remove.         *)
(***************************************************************************)
LEMMA MoveKeeps ==
  ASSUME ProcInv, NEW label \in PC, Moves(label), current # Idle,
         UNCHANGED <<arg, waitpid>>,
         state[current] = "DEAD" => label \in Dying
  PROVE  /\ CpuTypes' /\ TasksSane' /\ FamilyTree' /\ Descent'
         /\ (label \in {"close", "adopt"} => pc[current] = "close") => OwnersKept
<1>1. /\ state' = state /\ current' = current /\ pc' = [pc EXCEPT ![current] = label]
      /\ ppid' = ppid /\ idleAt' = idleAt
  BY DEF Moves, Goto, idling
<1>2. current \in Pid /\ pc \in [Pid -> PC] /\ state \in [Pid -> TaskState]
  BY DEF ProcInv, TypeOK
<1>3. pc'[current] = label /\ \A n \in Pid : n # current => pc'[n] = pc[n]
  BY <1>1, <1>2
<1>4. CpuTypes' /\ TasksSane'
  BY <1>1, <1>2, <1>3, PidFacts DEF ProcInv, CpuTypes, TasksSane, Awake, Dying, Loading
<1>5. FamilyKept
  BY <1>1, <1>2, <1>3 DEF FamilyKept, Exists, Exiting, Dying
<1>6. ASSUME label \in {"close", "adopt"} => pc[current] = "close"
      PROVE  OwnersKept
  BY <1>1, <1>2, <1>3, <1>6 DEF OwnersKept, MayOwnTimer, Exiting, Dying
<1> QED BY <1>4, <1>5, <1>6, FamilyFrame DEF ProcInv

-----------------------------------------------------------------------------
(* The inductive invariant, action by action. *)

(***************************************************************************)
(* The system calls and parts of the kernel that change no task state and  *)
(* no timer: waitpid up to its loop, signal, setsid, the end of a read,    *)
(* exit, releasing files and the way back to user mode.                    *)
(***************************************************************************)
LEMMA MovingActions ==
  ASSUME ProcInv, NEW t \in Pid, current = t,
         \/ Waitpid(t) \/ CatchSignal(t) \/ Setsid(t) \/ ReadEnd(t)
         \/ Exit(t) \/ ExitRelease(t) \/ Iret(t)
  PROVE  ProcInv'
<1> USE PidFacts
<1>0. /\ TypeOK /\ CpuTypes /\ FamilyTypes /\ OtherTypes /\ timers \in Seq(Timer)
      /\ t = current /\ t \in Pid
  BY TypeParts DEF ProcInv
<1>1. /\ pc[t] # "user" => t # Idle
      /\ pc[t] \notin Dying => state[t] \in Awake
      /\ pc[t] \in Dying \cup {"exit"} => t \notin {Idle, InitPid}
  BY CurrentFacts
<1> DEFINE Case(label) ==
             /\ label \in PC /\ Moves(label) /\ t # Idle
             /\ UNCHANGED <<arg, waitpid, timers>>
             /\ state[t] = "DEAD" => label \in Dying
             /\ label \in {"close", "adopt"} => pc[t] = "close"
             /\ OtherTypes' /\ FamilyTypes'
             /\ InitLives'
<1>2. ASSUME NEW label, Case(label) PROVE ProcInv'
  <2>1. CpuTypes' /\ TasksSane' /\ FamilyTree' /\ Descent' /\ OwnersKept
    BY <1>0, <1>2, MoveKeeps
  <2>2. timers' \in Seq(Timer) /\ TimersKnown'
    BY <1>2, <2>1, TimersLeft DEF ProcInv
  <2>3. TypeOK'
    BY <1>2, <2>1, <2>2, TypeParts
  <2> QED BY <1>2, <2>1, <2>2, <2>3 DEF ProcInv
<1>3. InitLives
  BY DEF ProcInv
<1>4. CASE Waitpid(t)
  <2>1. Case("waitpid")
    BY <1>0, <1>1, <1>3, <1>4 DEF Waitpid, Calling, Moves, Goto, PC, Dying, Awake,
       CpuTypes, FamilyTypes, OtherTypes, idling, InitLives, Exiting, cpu, family, sigs, timing
  <2> QED BY <1>2, <2>1
<1>5. CASE CatchSignal(t)
  <2>1. Case("iret")
    BY <1>0, <1>1, <1>3, <1>5 DEF CatchSignal, Calling, Moves, Goto, PC, Dying, Awake,
       CpuTypes, FamilyTypes, OtherTypes, idling, InitLives, Exiting, cpu, family, sigs, timing
  <2> QED BY <1>2, <2>1
<1>6. CASE Setsid(t)
  <2>1. Case("iret")
    BY <1>0, <1>1, <1>3, <1>6 DEF Setsid, Calling, Moves, Goto, PC, Dying, Awake,
       CpuTypes, FamilyTypes, OtherTypes, idling, InitLives, Exiting, cpu, family, sigs, timing
  <2> QED BY <1>2, <2>1
<1>7. CASE ReadEnd(t)
  <2>1. Case("iret")
    <3>1. ioDone' \in [Pid -> BOOLEAN]
      BY <1>0, <1>7 DEF ReadEnd, OtherTypes
    <3> QED
    BY <1>0, <1>1, <1>3, <1>7, <3>1 DEF ReadEnd, Moves, Goto, PC, Dying, Awake,
       CpuTypes, FamilyTypes, OtherTypes, idling, InitLives, Exiting, cpu, family, sigs, timing
  <2> QED BY <1>2, <2>1
<1>8. CASE Exit(t)
  <2>1. Case("exit")
    BY <1>0, <1>1, <1>3, <1>8 DEF Exit, Calling, Moves, Goto, PC, Dying, Awake,
       CpuTypes, FamilyTypes, OtherTypes, idling, InitLives, Exiting, cpu, family, sigs, timing
  <2> QED BY <1>2, <2>1
<1>9. CASE ExitRelease(t)
  <2>1. \/ pc[t] = "iput" /\ AfterRelease[pc[t]] = "notify"
        \/ pc[t] = "close" /\ AfterRelease[pc[t]] = "adopt"
    BY <1>9 DEF ExitRelease, AfterRelease
  <2> DEFINE label == AfterRelease[pc[t]]
  <2>2. Moves(label) /\ UNCHANGED <<family, sigs, timing, ioDone, idling, panic>>
    BY <1>0, <1>9 DEF ExitRelease, Moves, Goto, cpu, family, idling
  <2> HIDE DEF label
  <2>3. label \in {"notify", "adopt"} /\ (label = "adopt" => pc[t] = "close")
          /\ pc[t] \in Dying
    BY <2>1 DEF label, Dying
  <2>4. Case(label)
    BY <1>0, <1>1, <1>3, <2>2, <2>3 DEF Moves, Goto, PC, Dying, Awake,
       CpuTypes, FamilyTypes, OtherTypes, idling, InitLives, Exiting, family, sigs, timing
  <2> QED BY <1>2, <2>4
<1>10. CASE Iret(t)
  <2>0. PICK label \in {"user", "exit"} : Goto(t, label) /\ (t = InitPid => label = "user")
    BY <1>3, <1>10 DEF Iret, InitLives
  <2>1. Moves(label)
    BY <1>0, <1>10, <2>0 DEF Iret, Moves, cpu, family, idling
  <2>2. pc[t] = "iret" /\ UNCHANGED <<family, timing, ioDone, idling, panic>>
    BY <1>10 DEF Iret
  <2>3. signal' \in [Pid -> SUBSET Signals] /\ caught' \in [Pid -> BOOLEAN]
    BY <1>0, <1>10, ZenonT(60) DEF Iret, OtherTypes, idling, Signals
  <2>4. signal'[InitPid] \subseteq {"CHLD"}
    BY <1>0, <1>3, <1>10 DEF Iret, OtherTypes, idling, InitLives
  <2>5. OtherTypes'
    BY <1>0, <2>2, <2>3 DEF OtherTypes, idling, timing
  <2>6. InitLives'
    BY <1>0, <1>3, <2>0, <2>1, <2>2, <2>4 DEF InitLives, Moves, Goto, CpuTypes, Exiting, family
  <2>7. Case(label)
    BY <1>0, <1>1, <2>0, <2>1, <2>2, <2>5, <2>6 DEF PC, Dying, Awake, FamilyTypes, family, timing
  <2> QED BY <1>2, <2>7
<1> QED BY <1>4, <1>5, <1>6, <1>7, <1>8, <1>9, <1>10

(***************************************************************************)
(* A BEL on the console: the speaker's timer is added.                     *)
(***************************************************************************)
LEMMA BeepKeeps ==
  ASSUME ProcInv, NEW t \in Pid, current = t, Beep(t)
  PROVE  ProcInv'
<1> DEFINE timer == [task |-> t, left |-> BeepLast, handler |-> "stop_beep"]
<1>1. /\ TypeOK /\ CpuTypes /\ FamilyTypes /\ OtherTypes /\ TimersKnown /\ InitLives
  BY TypeParts DEF ProcInv
<1>2. /\ pc[t] = "user" /\ t # Idle /\ state[t] \in Awake
      /\ timers' = InsertSorted(timers, timer) /\ beeping' = TRUE /\ Goto(t, "iret")
      /\ UNCHANGED <<cpu, family, sigs, ioDone, idling, panic>>
  BY CurrentFacts DEF Beep, Calling, Dying
<1>3. timer \in Timer
  BY DurationsAssumption DEF Timer
<1>4. Moves("iret") /\ UNCHANGED <<arg, waitpid>> /\ "iret" \in PC /\ current # Idle
      /\ state[t] # "DEAD"
  BY <1>2 DEF Moves, cpu, family, PC, Awake, idling
<1>5. CpuTypes' /\ TasksSane' /\ FamilyTree' /\ Descent' /\ OwnersKept
  BY <1>4, MoveKeeps
<1>6. MayOwnTimer(timer.task)'
  BY <1>1, <1>2, <1>4 DEF MayOwnTimer, Moves, Goto, CpuTypes, Awake
<1> HIDE DEF timer
<1>7. timers' \in Seq(Timer) /\ TimersKnown'
  BY <1>1, <1>2, <1>3, <1>5, <1>6, TimerAdd
<1>8. InitLives'
  BY <1>1, <1>2, PidFacts DEF InitLives, Goto, CpuTypes, Exiting, cpu, family, sigs
<1>9. FamilyTypes' /\ OtherTypes'
  BY <1>1, <1>2 DEF FamilyTypes, OtherTypes, idling, family, sigs
<1> QED BY <1>5, <1>7, <1>8, <1>9, TypeParts DEF ProcInv

(***************************************************************************)
(* timer_remove, the signal to the parent and the hangup of the session:   *)
(* init is in no session that ends, and the father exists.                 *)
(***************************************************************************)
LEMMA ExitNotifyKeeps ==
  ASSUME ProcInv, NEW t \in Pid, current = t, ExitNotify(t)
  PROVE  ProcInv' /\ panic' = panic
<1>1. /\ TypeOK /\ CpuTypes /\ FamilyTypes /\ OtherTypes /\ TimersKnown /\ InitLives
      /\ Sorted(timers) /\ timers \in Seq(Timer)
  BY TypeParts DEF ProcInv, TimersKnown
<1>2. /\ pc[t] = "notify" /\ t \notin {Idle, InitPid} /\ state[t] # "FREE"
  BY CurrentFacts DEF ExitNotify, Dying
<1>3. Exists(ppid[t]) /\ ppid[t] \in Pid
  BY <1>1, <1>2 DEF ProcInv, FamilyTree, Exists, FamilyTypes
<1>4. /\ Goto(t, "close") /\ panic' = panic /\ timers' = RemoveTimers(t)
      /\ signal' = [n \in Pid |-> signal[n]
              \cup (IF n \in (IF ppid[t] = 0 THEN {} ELSE {ppid[t]}) THEN {"CHLD"} ELSE {})
              \cup (IF n \in (IF sid[t] = t THEN Session(t) ELSE {}) THEN {"HUP"} ELSE {})]
      /\ ioDone' = [ioDone EXCEPT ![t] = FALSE]
      /\ UNCHANGED <<cpu, family, caught, beeping, idling>>
  BY <1>3 DEF ExitNotify, Exists
<1>5. Moves("close") /\ UNCHANGED <<arg, waitpid>> /\ "close" \in PC /\ current # Idle
      /\ "close" \in Dying
  BY <1>2, <1>4 DEF Moves, cpu, family, PC, Dying, idling
<1>6. CpuTypes' /\ TasksSane' /\ FamilyTree' /\ Descent'
  BY <1>5, MoveKeeps
<1>7. signal' \in [Pid -> SUBSET Signals] /\ signal'[InitPid] \subseteq {"CHLD"}
  <2>1. \A n \in Pid : signal[n] \in SUBSET Signals
    BY <1>1 DEF OtherTypes, idling
  <2>2. \A n \in Pid : signal'[n] \in SUBSET Signals
    BY <1>4, <2>1 DEF Signals
  <2>3. sid[t] = t => InitPid \notin Session(t)
    BY <1>1, <1>2, PidFacts DEF Session, InitLives, Idle
  <2>4. signal'[InitPid] \subseteq {"CHLD"}
    BY <1>1, <1>4, <2>3, PidFacts DEF InitLives
  <2> QED BY <1>4, <2>2, <2>4
<1>8. InitLives'
  BY <1>1, <1>2, <1>4, <1>7, PidFacts DEF InitLives, Goto, CpuTypes, Exiting, cpu, family
<1>9. FamilyTypes' /\ OtherTypes'
  <2>1. ioDone' \in [Pid -> BOOLEAN]
    BY <1>1, <1>4 DEF OtherTypes
  <2> QED BY <1>1, <1>4, <1>7, <2>1 DEF FamilyTypes, OtherTypes, idling, family
<1>10. timers' \in Seq(Timer) /\ TimersKnown'
  <2>1. PICK place :
             /\ Derived(RemoveTimers(t), place)
             /\ \A k \in DOMAIN RemoveTimers(t) : timers[place[k]].task # t
    BY <1>1, RemoveKeeps, Zenon
  <2>2. timers' \in Seq(Timer) /\ Sorted(timers')
    BY <1>1, <1>4, RemoveKeeps
  <2>3. ASSUME NEW k \in DOMAIN timers' PROVE MayOwnTimer(timers[k].task)'
    <3>1. place[k] \in DOMAIN timers /\ timers'[k].task = timers[place[k]].task
          /\ timers[place[k]].task # t
      BY <1>4, <2>1 DEF Derived
    <3>2. timers[place[k]].task \in Pid /\ MayOwnTimer(timers[place[k]].task)
      BY <1>1, <3>1, TimerOwners
    <3> QED BY <1>1, <1>4, <3>1, <3>2 DEF MayOwnTimer, Exiting, Goto, CpuTypes, cpu
  <2> QED BY <2>2, <2>3 DEF TimersKnown
<1> QED BY <1>4, <1>6, <1>8, <1>9, <1>10, TypeParts DEF ProcInv

(***************************************************************************)
(* sys_kill wakes a task that waits or sleeps, never init.                 *)
(***************************************************************************)
LEMMA KillKeeps ==
  ASSUME ProcInv, NEW t \in Pid, current = t, NEW p \in Pid, Kill(t, p)
  PROVE  ProcInv'
<1> DEFINE woken == IF state[p] \in KillWakes THEN "READY" ELSE state[p]
<1>1. /\ TypeOK /\ CpuTypes /\ FamilyTypes /\ OtherTypes /\ TimersKnown /\ InitLives
      /\ TasksSane
  BY TypeParts DEF ProcInv
<1>2. /\ pc[t] = "user" /\ t # Idle /\ state[t] \in Awake
      /\ p \notin {Idle, InitPid} /\ state[p] # "FREE"
      /\ state' = [state EXCEPT ![p] = woken] /\ Goto(t, "iret")
      /\ signal' = [signal EXCEPT ![p] = @ \cup {"TERM"}]
      /\ UNCHANGED <<current, family, caught, timing, ioDone, idling, panic>>
  BY CurrentFacts DEF Kill, Calling, Dying
<1>3. /\ woken \in TaskState
      /\ woken = state[p] \/ (woken = "READY" /\ state[p] \in {"WAITING", "SLEEPING"})
  BY <1>1 DEF KillWakes, CpuTypes, TaskState
<1> HIDE DEF woken
<1>4. /\ CpuTypes' /\ state'[p] = woken
      /\ \A n \in Pid : n # p => state'[n] = state[n]
      /\ pc'[t] = "iret" /\ \A n \in Pid : n # t => pc'[n] = pc[n]
  BY <1>1, <1>2, <1>3 DEF CpuTypes, Goto, PC
<1>5. TasksSane'
  BY <1>1, <1>2, <1>3, <1>4, PidFacts DEF TasksSane, Awake, Dying, family
<1>6. FamilyKept
  BY <1>1, <1>2, <1>3, <1>4 DEF FamilyKept, Exists, Exiting, family, Awake
<1>7. OwnersKept
  BY <1>1, <1>2, <1>3, <1>4 DEF OwnersKept, MayOwnTimer, Exiting, Awake
<1>8. InitLives'
  BY <1>1, <1>2, <1>4, PidFacts DEF InitLives, Exiting, family, OtherTypes, idling
<1>9. FamilyTypes' /\ OtherTypes'
  BY <1>1, <1>2 DEF FamilyTypes, OtherTypes, idling, family, timing, Signals
<1>10. timers' \in Seq(Timer) /\ TimersKnown'
  BY <1>1, <1>2, <1>7, TimersLeft DEF timing
<1> QED BY <1>1, <1>4, <1>5, <1>6, <1>8, <1>9, <1>10, FamilyFrame, TypeParts DEF ProcInv

(***************************************************************************)
(* An assertion that fails changes nothing but that the kernel stops, and  *)
(* idle that picks a task or has loaded one changes nothing but where it   *)
(* is.                                                                     *)
(***************************************************************************)
LEMMA PanicKeeps ==
  ASSUME ProcInv, UNCHANGED <<cpu, pc, family, sigs, timing, ioDone>>,
         idleAt' \in IdlePC, target' \in Pid, idleAt' = idleAt \/ ~ Loading',
         panic' \in {"none", "task_nr", "exit_state", "no_father", "not_ready",
                     "two_stacks"}
  PROVE  ProcInv'
<1>1. TypeOK /\ TasksSane /\ InitLives /\ FamilyTree /\ Descent /\ TimersKnown
  BY DEF ProcInv
<1>2. /\ state' = state /\ current' = current /\ pc' = pc /\ ppid' = ppid
      /\ sid' = sid /\ waitpid' = waitpid /\ arg' = arg /\ signal' = signal
      /\ caught' = caught /\ timers' = timers /\ beeping' = beeping /\ ioDone' = ioDone
  BY DEF cpu, family, sigs, timing
<1>3. TypeOK'
  BY <1>1, <1>2 DEF TypeOK
<1>4. TasksSane' /\ InitLives'
  BY <1>1, <1>2 DEF TasksSane, InitLives, Exiting, Loading
<1>5. FamilyKept /\ OwnersKept
  BY <1>2 DEF FamilyKept, OwnersKept, MayOwnTimer, Exists, Exiting
<1> QED BY <1>1, <1>2, <1>3, <1>4, <1>5, FamilyFrame, TimersLeft DEF ProcInv

(***************************************************************************)
(* The entry of sys_exit marks the running task DEAD.                      *)
(***************************************************************************)
LEMMA ExitBeginKeeps ==
  ASSUME ProcInv, NEW t \in Pid, current = t, ~ Loading, ExitBegin(t)
  PROVE  ProcInv'
<1>1. /\ TypeOK /\ CpuTypes /\ FamilyTypes /\ OtherTypes /\ TimersKnown /\ InitLives
      /\ TasksSane
  BY TypeParts DEF ProcInv
<1>2. CASE state[t] # "RUNNING"
  BY <1>1, <1>2, PanicKeeps DEF ExitBegin, OtherTypes, idling, cpu, Loading
<1>3. CASE state[t] = "RUNNING"
  <2>1. /\ pc[t] = "exit" /\ t \notin {Idle, InitPid}
        /\ state' = [state EXCEPT ![t] = "DEAD"] /\ Goto(t, "iput")
        /\ UNCHANGED <<current, family, sigs, timing, ioDone, idling, panic>>
    BY <1>3, CurrentFacts DEF ExitBegin
  <2>2. /\ CpuTypes' /\ state'[t] = "DEAD" /\ pc'[t] = "iput"
        /\ \A n \in Pid : n # t => state'[n] = state[n] /\ pc'[n] = pc[n]
    BY <1>1, <2>1 DEF CpuTypes, Goto, PC, TaskState
  <2>3. TasksSane'
    BY <1>1, <2>1, <2>2, PidFacts DEF TasksSane, Awake, Dying, family, idling, Loading
  <2>4. FamilyKept /\ OwnersKept
    BY <1>1, <1>3, <2>1, <2>2
       DEF FamilyKept, OwnersKept, MayOwnTimer, Exists, Exiting, family
  <2>5. InitLives'
    BY <1>1, <2>1, <2>2, PidFacts DEF InitLives, Exiting, family, sigs
  <2>6. FamilyTypes' /\ OtherTypes'
    BY <1>1, <2>1 DEF FamilyTypes, OtherTypes, idling, family, sigs, timing
  <2>7. timers' \in Seq(Timer) /\ TimersKnown'
    BY <1>1, <2>1, <2>4, TimersLeft DEF timing
  <2> QED BY <2>2, <2>3, <2>4, <2>5, <2>6, <2>7, FamilyFrame, TypeParts DEF ProcInv
<1> QED BY <1>2, <1>3

(***************************************************************************)
(* sys_fork takes a free slot: its new task is a child of the caller, and  *)
(* nobody's parent.                                                        *)
(***************************************************************************)
LEMMA ForkKeeps ==
  ASSUME ProcInv, NEW t \in Pid, current = t, Fork(t)
  PROVE  ProcInv'
<1>1. /\ TypeOK /\ CpuTypes /\ FamilyTypes /\ OtherTypes /\ TimersKnown /\ InitLives
      /\ TasksSane /\ FamilyTree /\ Descent
  BY TypeParts DEF ProcInv
<1>2. PICK child \in Pid : child = Min(FreeSlots) /\ state[child] = "FREE"
  <2>1. FreeSlots \in SUBSET Nat /\ FreeSlots # {}
    BY PidFacts DEF FreeSlots, Fork
  <2>2. Min(FreeSlots) \in FreeSlots
    BY <2>1, MinExists
  <2> QED BY <2>2 DEF FreeSlots
<1>3. /\ pc[t] = "user" /\ t # Idle /\ state[t] \in Awake
  BY CurrentFacts DEF Fork, Calling, Dying
<1>4. /\ state' = [state EXCEPT ![child] = "READY"]
      /\ pc' = [pc EXCEPT ![t] = "iret", ![child] = "iret"]
      /\ ppid' = [ppid EXCEPT ![child] = t]
      /\ sid' = [sid EXCEPT ![child] = sid[t]]
      /\ waitpid' = [waitpid EXCEPT ![child] = waitpid[t]]
      /\ arg' = [arg EXCEPT ![t] = child, ![child] = 0]
      /\ signal' = [signal EXCEPT ![child] = signal[t]]
      /\ caught' = [caught EXCEPT ![child] = caught[t]]
      /\ ioDone' = [ioDone EXCEPT ![child] = FALSE]
      /\ UNCHANGED <<current, timing, idling, panic>>
  BY <1>2 DEF Fork
<1>5. child # t /\ child \notin {Idle, InitPid}
  BY <1>1, <1>2, <1>3, PidFacts DEF TasksSane, InitLives, Awake
<1>6. /\ CpuTypes' /\ state'[child] = "READY" /\ pc'[child] = "iret" /\ pc'[t] = "iret"
      /\ \A n \in Pid : n # child => state'[n] = state[n]
      /\ \A n \in Pid : n \notin {t, child} => pc'[n] = pc[n]
  BY <1>1, <1>2, <1>4, <1>5 DEF CpuTypes, PC, TaskState
<1>7. FamilyTypes'
  BY <1>1, <1>2, <1>4, PidFacts DEF FamilyTypes, Idle
<1>8. OtherTypes'
  <2>1. signal' \in [Pid -> SUBSET Signals]
    BY <1>1, <1>4 DEF OtherTypes, idling
  <2>2. caught' \in [Pid -> BOOLEAN] /\ ioDone' \in [Pid -> BOOLEAN]
    BY <1>1, <1>4 DEF OtherTypes, idling
  <2> QED BY <1>1, <1>4, <2>1, <2>2 DEF OtherTypes, idling, timing
<1>9. TasksSane'
  <2>1. \A n \in Pid : n # child /\ n # t => waitpid'[n] = waitpid[n] /\ arg'[n] = arg[n]
    BY <1>1, <1>4 DEF FamilyTypes
  <2>2. /\ current' = current /\ state'[current'] \in Awake
        /\ state'[Idle] \in Awake /\ pc'[Idle] = "user"
    BY <1>1, <1>3, <1>4, <1>5, <1>6, PidFacts DEF TasksSane
  <2>3. ASSUME NEW n \in Pid
        PROVE  /\ n # Idle /\ state'[n] = "RUNNING" => n = current'
               /\ state'[n] = "DEAD" => pc'[n] = "iret" \/ (n = current' /\ pc'[n] \in Dying)
               /\ state'[n] = "FREE" => pc'[n] \in {"user", "iret"}
               /\ state'[n] = "WAITING" => pc'[n] = "waitpid" /\ waitpid'[n] = arg'[n]
               /\ state'[n] = "SLEEPING" => pc'[n] = "iret"
    <3>1. CASE n = child
      BY <1>6, <3>1
    <3>2. CASE n = t
      BY <1>3, <1>5, <1>6, <2>2, <3>2 DEF Awake
    <3>3. CASE n \notin {t, child}
      BY <1>1, <1>6, <2>1, <2>2, <3>3 DEF TasksSane
    <3> QED BY <3>1, <3>2, <3>3
  <2> QED BY <2>2, <2>3 DEF TasksSane
<1>10. InitLives'
  BY <1>1, <1>2, <1>4, <1>5, <1>6, PidFacts
     DEF InitLives, Exiting, FamilyTypes, OtherTypes, idling
<1>11. /\ ppid'[child] = t
       /\ \A n \in Pid : n # child => ppid'[n] = ppid[n]
       /\ \A n \in Pid \ {Idle} : Exists(n) => ppid[n] \in Pid \ {child}
  BY <1>1, <1>2, <1>4 DEF FamilyTypes, FamilyTree, Exists
<1>12. FamilyTree'
  <2> SUFFICES ASSUME NEW n \in Pid \ {Idle}, Exists(n)'
               PROVE  /\ Exists(ppid[n])'
                      /\ state'[ppid'[n]] = "DEAD" => Exiting(ppid[n])'
    BY DEF FamilyTree
  <2>1. CASE n = child
    BY <1>3, <1>5, <1>6, <1>11, <2>1 DEF Exists, Awake
  <2>2. CASE n # child
    <3>1. Exists(n) /\ ppid'[n] = ppid[n] /\ ppid[n] \in Pid /\ ppid[n] # child
      BY <1>6, <1>11, <2>2 DEF Exists
    <3>2. Exists(ppid[n]) /\ (state[ppid[n]] = "DEAD" => Exiting(ppid[n]))
      BY <1>1, <3>1 DEF FamilyTree
    <3> QED BY <1>3, <1>6, <3>1, <3>2 DEF Exists, Exiting, Awake
  <2> QED BY <2>1, <2>2
<1>13. Descent'
  <2>1. PICK rank \in [Pid -> Nat] : Ranked(rank)
    BY <1>1 DEF Descent
  <2>2. PICK new \in [Pid -> Nat] :
          /\ new[child] = rank[t] + 1
          /\ \A n \in Pid : n # child => new[n] = rank[n]
    <3> DEFINE new == [rank EXCEPT ![child] = rank[t] + 1]
    <3>1. /\ new \in [Pid -> Nat] /\ new[child] = rank[t] + 1
          /\ \A n \in Pid : n # child => new[n] = rank[n]
      BY <1>2
    <3> HIDE DEF new
    <3> QED BY <3>1
  <2>3. ASSUME NEW n \in Pid \ {Idle, InitPid}, Exists(n)'
        PROVE  new[ppid'[n]] < new[n]
    <3>1. CASE n = child
      <4>1. rank[t] \in Nat /\ new[t] = rank[t]
        BY <1>5, <2>2
      <4> QED BY <1>11, <2>2, <3>1, <4>1
    <3>2. CASE n # child
      <4>0. Exists(n)
        BY <1>6, <2>3, <3>2 DEF Exists
      <4>1. ppid'[n] = ppid[n] /\ ppid[n] \in Pid \ {child}
        BY <1>11, <3>2, <4>0
      <4>2. new[ppid'[n]] = rank[ppid[n]] /\ new[n] = rank[n]
        BY <2>2, <3>2, <4>1
      <4> QED BY <2>1, <4>0, <4>2 DEF Ranked
    <3> QED BY <3>1, <3>2
  <2>4. Ranked(new)'
    BY <2>3 DEF Ranked
  <2> QED BY <2>2, <2>4 DEF Descent
<1>14. OwnersKept
  BY <1>1, <1>2, <1>3, <1>6 DEF OwnersKept, MayOwnTimer, Exiting, Awake
<1>15. timers' \in Seq(Timer) /\ TimersKnown'
  BY <1>1, <1>4, <1>14, TimersLeft DEF timing
<1> QED BY <1>6, <1>7, <1>8, <1>9, <1>10, <1>12, <1>13, <1>15, TypeParts DEF ProcInv

(***************************************************************************)
(* The child that sys_waitpid looks at, when there is one.                 *)
(***************************************************************************)
LEMMA FirstChild ==
  ASSUME NEW t \in Pid, Children(t) # {}
  PROVE  LET child == Min(Children(t)) IN
         /\ child \in Pid /\ child >= 2 /\ state[child] # "FREE" /\ ppid[child] = t
         /\ \A n \in Children(t) : child <= n
<1>1. Children(t) \in SUBSET Nat
  BY PidFacts DEF Children
<1>2. Min(Children(t)) \in Children(t) /\ \A n \in Children(t) : Min(Children(t)) <= n
  BY <1>1, MinExists
<1> QED BY <1>2 DEF Children

(***************************************************************************)
(* sys_waitpid returns without a child, or with one that it has reaped:    *)
(* the slot of a dead child is freed, and by then the child has handed its *)
(* own children over and lost its timers.                                  *)
(***************************************************************************)
LEMMA WaitReturns ==
  ASSUME ProcInv, NEW t \in Pid, current = t, WaitLoop(t),
         Children(t) # {} => state[Min(Children(t))] = "DEAD"
  PROVE  ProcInv'
<1> DEFINE child == Min(Children(t))
           Gone == IF Children(t) = {} THEN {} ELSE {child}
<1>1. /\ TypeOK /\ CpuTypes /\ FamilyTypes /\ OtherTypes /\ TimersKnown /\ InitLives
      /\ TasksSane /\ FamilyTree /\ Descent
  BY TypeParts DEF ProcInv
<1>2. pc[t] = "waitpid" /\ t # Idle /\ state[t] \in Awake
  BY CurrentFacts DEF WaitLoop, Dying
<1>3. \A n \in Gone : /\ n \in Pid /\ state[n] = "DEAD" /\ n # t /\ n # Idle
                      /\ pc[n] = "iret" /\ n # InitPid
  <2>1. ASSUME Children(t) # {}
        PROVE  child \in Pid /\ state[child] = "DEAD"
    BY <2>1, FirstChild
  <2> QED BY <1>1, <1>2, <2>1 DEF TasksSane, Awake, InitLives
<1>4. /\ state' = [n \in Pid |-> IF n \in Gone THEN "FREE" ELSE state[n]]
      /\ Goto(t, "iret") /\ arg' = [arg EXCEPT ![t] = 0]
      /\ UNCHANGED <<current, waitpid, ppid, sid, sigs, timing, ioDone, idling, panic>>
  <2>1. CASE Children(t) = {}
    BY <1>1, <2>1 DEF WaitLoop, cpu, CpuTypes
  <2>2. CASE Children(t) # {}
    <3>1. state' = [state EXCEPT ![child] = "FREE"]
      BY <2>2 DEF WaitLoop
    <3> HIDE DEF child
    <3>2. state' = [n \in Pid |-> IF n \in {child} THEN "FREE" ELSE state[n]]
      BY <1>1, <3>1 DEF CpuTypes
    <3> QED BY <2>2, <3>2 DEF WaitLoop, child
  <2> QED BY <2>1, <2>2
<1> HIDE DEF Gone
<1>5. /\ CpuTypes' /\ pc'[t] = "iret" /\ \A n \in Pid : n # t => pc'[n] = pc[n]
      /\ \A n \in Pid : n \in Gone => state'[n] = "FREE"
      /\ \A n \in Pid : n \notin Gone => state'[n] = state[n]
  BY <1>1, <1>4 DEF CpuTypes, Goto, PC, TaskState
<1>6. FamilyTypes' /\ OtherTypes'
  BY <1>1, <1>4, PidFacts DEF FamilyTypes, OtherTypes, idling, Idle, sigs, timing
<1>7. TasksSane'
  <2>1. \A n \in Pid : n # t => arg'[n] = arg[n]
    BY <1>1, <1>4 DEF FamilyTypes
  <2> QED BY <1>1, <1>2, <1>3, <1>4, <1>5, <2>1, PidFacts DEF TasksSane, Awake, Dying
<1>8. InitLives'
  BY <1>1, <1>3, <1>4, <1>5, PidFacts DEF InitLives, Exiting, sigs
<1>9. \A n \in Pid \ {Idle} : Exists(n)' => Exists(n) /\ ppid[n] \in Pid \ Gone
  BY <1>1, <1>3, <1>5 DEF FamilyTree, FamilyTypes, Exists, Exiting
<1>10. FamilyTree'
  <2> SUFFICES ASSUME NEW n \in Pid \ {Idle}, Exists(n)'
               PROVE  /\ Exists(ppid[n])'
                      /\ state'[ppid'[n]] = "DEAD" => Exiting(ppid[n])'
    BY DEF FamilyTree
  <2>1. Exists(n) /\ ppid[n] \in Pid /\ ppid[n] \notin Gone /\ ppid'[n] = ppid[n]
    BY <1>4, <1>9
  <2>2. Exists(ppid[n]) /\ (state[ppid[n]] = "DEAD" => Exiting(ppid[n]))
    BY <1>1, <2>1 DEF FamilyTree
  <2> QED BY <1>2, <1>5, <2>1, <2>2 DEF Exists, Exiting, Awake
<1>11. Descent'
  <2>1. PICK rank \in [Pid -> Nat] : Ranked(rank)
    BY <1>1 DEF Descent
  <2>2. Ranked(rank)'
    BY <1>4, <1>9, <2>1 DEF Ranked
  <2> QED BY <2>2 DEF Descent
<1>12. OwnersKept
  BY <1>1, <1>2, <1>3, <1>5 DEF OwnersKept, MayOwnTimer, Exiting, Awake
<1>13. timers' \in Seq(Timer) /\ TimersKnown'
  BY <1>1, <1>4, <1>12, TimersLeft DEF timing
<1> QED BY <1>5, <1>6, <1>7, <1>8, <1>10, <1>11, <1>13, TypeParts DEF ProcInv

(***************************************************************************)
(* A step that may switch: some tasks other than current are made READY,   *)
(* st, and current calls schedule(), goes on, or is idle and makes the     *)
(* switch that it has prepared.  Current is where a task in its state may  *)
(* be.                                                                     *)
(***************************************************************************)
Wakes(st) ==
  \A n \in Pid \ {current} :
    /\ pc'[n] = pc[n]
    /\ st[n] = state[n] \/ (state[n] \notin {"FREE", "DEAD"} /\ st[n] = "READY")

Switches(st) ==
  /\ st \in [Pid -> TaskState] /\ pc' \in [Pid -> PC]
  /\ st[Idle] \in Awake /\ pc'[Idle] = "user"
  /\ Wakes(st)
  /\ st[current] # "FREE"
  /\ st[current] = "DEAD" => pc[current] = "adopt" /\ pc'[current] = "iret"
  /\ st[current] = "SLEEPING" => pc'[current] = "iret"
  /\ st[current] = "WAITING" => pc'[current] = "waitpid"
  /\ \A n \in Pid : st[n] = "WAITING" => waitpid'[n] = arg'[n]
  /\ pc'[current] \in {"close", "adopt"} => pc[current] \in {"close", "adopt"}
  /\ \/ Reschedule(st)
     \/ state' = st /\ current' = current /\ st[current] \in Awake
     \/ /\ current = Idle /\ current' \in Pid /\ st[current'] = "READY"
        /\ state' = [st EXCEPT ![current'] = "RUNNING"]

(***************************************************************************)
(* Such a step keeps who runs, who exists and who may own a timer; the     *)
(* process tree too when it leaves the parents alone and current does not  *)
(* end.                                                                    *)
(***************************************************************************)
LEMMA SwitchKeeps ==
  ASSUME ProcInv, NEW st, Switches(st)
  PROVE  /\ CpuTypes' /\ TasksSane' /\ OwnersKept
         /\ \A n \in Pid : Exists(n)' <=> Exists(n)
         /\ \A n \in Pid : st[n] \notin Awake => state'[n] = st[n]
         /\ \A n \in Pid : st[n] \in Awake => state'[n] \in Awake
         /\ st[current] # "DEAD" /\ UNCHANGED ppid => FamilyTree' /\ Descent'
<1>1. TypeOK /\ CpuTypes /\ TasksSane /\ FamilyTree /\ Descent
  BY TypeParts DEF ProcInv
<1>2. /\ st \in [Pid -> TaskState] /\ pc' \in [Pid -> PC] /\ current \in Pid
      /\ st[Idle] \in Awake
  BY <1>1 DEF Switches, CpuTypes
<1>3. \A n \in Pid \ {Idle} : st[n] = "RUNNING" => n = current
  BY <1>1 DEF Switches, Wakes, TasksSane
<1>4. /\ state' \in [Pid -> TaskState] /\ current' \in Pid
      /\ state'[Idle] \in Awake /\ state'[current'] \in Awake
      /\ \A n \in Pid \ {Idle} : state'[n] = "RUNNING" => n = current'
      /\ \A n \in Pid : st[n] \notin Awake => state'[n] = st[n]
      /\ \A n \in Pid : st[n] \in Awake => state'[n] \in Awake
  <2>1. CASE Reschedule(st)
    BY <1>2, <1>3, <2>1, RescheduleEffect
  <2>2. CASE state' = st /\ current' = current /\ st[current] \in Awake
    BY <1>2, <1>3, <2>2
  <2>3. CASE /\ current = Idle /\ current' \in Pid /\ st[current'] = "READY"
             /\ state' = [st EXCEPT ![current'] = "RUNNING"]
    <3>1. PICK m \in Pid : m = current'
      BY <2>3
    <3>2. /\ state' \in [Pid -> TaskState] /\ state'[m] = "RUNNING"
          /\ \A n \in Pid : n # m => state'[n] = st[n]
      BY <1>2, <2>3, <3>1 DEF TaskState
    <3> QED BY <1>2, <1>3, <2>3, <3>1, <3>2, PidFacts DEF Awake
  <2> QED BY <2>1, <2>2, <2>3 DEF Switches
<1>5. CpuTypes'
  BY <1>2, <1>4 DEF CpuTypes
<1>6. ASSUME NEW n \in Pid
      PROVE  /\ state'[n] = "DEAD" => pc'[n] = "iret"
             /\ state'[n] = "FREE" => pc'[n] \in {"user", "iret"}
             /\ state'[n] = "WAITING" => pc'[n] = "waitpid" /\ waitpid'[n] = arg'[n]
             /\ state'[n] = "SLEEPING" => pc'[n] = "iret"
  <2>1. state'[n] = st[n] \/ state'[n] \in Awake
    BY <1>4
  <2>2. CASE n = current
    BY <2>1, <2>2 DEF Switches, Awake
  <2>3. CASE n # current
    BY <1>1, <2>1, <2>3 DEF Switches, Wakes, TasksSane, Awake
  <2> QED BY <2>2, <2>3
<1>7. TasksSane'
  <2>1. pc'[Idle] = "user"
    BY DEF Switches
  <2> QED BY <1>4, <1>6, <2>1 DEF TasksSane
<1>8. /\ \A n \in Pid : st[n] = "FREE" <=> state[n] = "FREE"
      /\ \A n \in Pid : state'[n] = "FREE" <=> st[n] = "FREE"
      /\ \A n \in Pid : state'[n] = "DEAD" <=> st[n] = "DEAD"
      /\ \A n \in Pid : st[n] = "DEAD" /\ n # current => state[n] = "DEAD"
      /\ \A n \in Pid : n # current => pc'[n] = pc[n]
  <2>1. state[current] # "FREE" /\ st[current] # "FREE"
    BY CurrentFacts DEF Switches
  <2>2. \A n \in Pid : st[n] = "FREE" <=> state[n] = "FREE"
    BY <2>1 DEF Switches, Wakes
  <2>3. /\ \A n \in Pid : st[n] = "DEAD" /\ n # current => state[n] = "DEAD"
        /\ \A n \in Pid : n # current => pc'[n] = pc[n]
    BY DEF Switches, Wakes
  <2>4. /\ \A n \in Pid : state'[n] = "FREE" <=> st[n] = "FREE"
        /\ \A n \in Pid : state'[n] = "DEAD" <=> st[n] = "DEAD"
    BY <1>4 DEF Awake
  <2> QED BY <2>2, <2>3, <2>4
<1>9. OwnersKept
  <2> SUFFICES ASSUME NEW n \in Pid, MayOwnTimer(n)
               PROVE  MayOwnTimer(n)'
    BY DEF OwnersKept
  <2>1. CASE n = current
    <3>1. pc[n] \notin {"close", "adopt"} /\ n # Idle
      BY DEF MayOwnTimer
    <3>2. pc'[n] \notin {"close", "adopt"} /\ st[n] \notin {"FREE", "DEAD"}
      BY <2>1, <3>1 DEF Switches
    <3> QED BY <1>8, <3>1, <3>2 DEF MayOwnTimer
  <2>2. CASE n # current
    BY <1>8, <2>2 DEF MayOwnTimer, Exiting
  <2> QED BY <2>1, <2>2
<1>10. \A n \in Pid : Exists(n)' <=> Exists(n)
  BY <1>8 DEF Exists
<1>11. ASSUME st[current] # "DEAD", UNCHANGED ppid
       PROVE  FamilyTree' /\ Descent'
  <2>1. FamilyKept
    BY <1>8, <1>10, <1>11 DEF FamilyKept, Exiting
  <2> QED BY <1>1, <2>1, FamilyFrame
<1> QED BY <1>4, <1>5, <1>7, <1>9, <1>10, <1>11

(***************************************************************************)
(* init goes on living through such a step.                                *)
(***************************************************************************)
LEMMA SwitchInit ==
  ASSUME ProcInv, NEW st, Switches(st), UNCHANGED sid,
         signal'[InitPid] \subseteq signal[InitPid],
         st[InitPid] # "DEAD", ppid'[InitPid] = InitPid,
         current = InitPid => pc'[InitPid] \in {"user", "iret", "waitpid", "io"}
  PROVE  InitLives'
<1>1. InitLives /\ InitPid \in Pid
  BY PidFacts DEF ProcInv
<1>2. state'[InitPid] \notin {"FREE", "DEAD"}
  BY <1>1, SwitchKeeps DEF InitLives, Exists, Awake
<1>3. ~ Exiting(InitPid)'
  BY <1>1 DEF InitLives, Exiting, Switches, Wakes
<1> QED BY <1>1, <1>2, <1>3 DEF InitLives

(***************************************************************************)
(* A step that switches and leaves parents and timers alone.               *)
(***************************************************************************)
LEMMA SwitchOnly ==
  ASSUME ProcInv, NEW st, Switches(st), st[current] # "DEAD",
         UNCHANGED <<ppid, sid, sigs, timers>>, FamilyTypes', OtherTypes',
         current = InitPid => pc'[InitPid] \in {"user", "iret", "waitpid", "io"}
  PROVE  ProcInv'
<1>1. TypeOK /\ TimersKnown /\ InitLives /\ InitPid \in Pid
  BY PidFacts DEF ProcInv
<1>2. st[InitPid] # "DEAD"
  BY <1>1 DEF InitLives, Switches, Wakes
<1>3. InitLives'
  BY <1>1, <1>2, SwitchInit DEF InitLives, sigs
<1>4. /\ CpuTypes' /\ TasksSane' /\ OwnersKept /\ FamilyTree' /\ Descent'
  BY SwitchKeeps
<1>5. timers' \in Seq(Timer) /\ TimersKnown'
  BY <1>1, <1>4, TimersLeft
<1> QED BY <1>3, <1>4, <1>5, TypeParts DEF ProcInv

(***************************************************************************)
(* Current blocks, waits or yields: it changes its own state to s and      *)
(* calls schedule(), and will go on at label.                              *)
(***************************************************************************)
LEMMA BlockKeeps ==
  ASSUME ProcInv, NEW s \in TaskState, NEW label \in PC,
         current # Idle,
         Reschedule([state EXCEPT ![current] = s]), Goto(current, label),
         s \in {"READY", "RUNNING", "BLOCKED", "SLEEPING", "WAITING"},
         s = "SLEEPING" => label = "iret", s = "WAITING" => label = "waitpid",
         \A n \in Pid : n # current => waitpid'[n] = waitpid[n] /\ arg'[n] = arg[n],
         s = "WAITING" => waitpid'[current] = arg'[current],
         label \in {"close", "adopt"} => pc[current] = "close"
  PROVE  Switches([state EXCEPT ![current] = s])
<1> DEFINE st == [state EXCEPT ![current] = s]
<1>1. CpuTypes /\ FamilyTypes /\ TasksSane
  BY TypeParts DEF ProcInv
<1>2. /\ st \in [Pid -> TaskState] /\ st[current] = s
      /\ \A n \in Pid : n # current => st[n] = state[n]
  BY <1>1 DEF CpuTypes
<1>3. /\ pc' \in [Pid -> PC] /\ pc'[current] = label
      /\ \A n \in Pid : n # current => pc'[n] = pc[n]
  BY <1>1 DEF CpuTypes, Goto
<1> HIDE DEF st
<1>4. Wakes(st)
  BY <1>2, <1>3 DEF Wakes
<1>5. st[Idle] \in Awake /\ pc'[Idle] = "user"
  BY <1>1, <1>2, <1>3, PidFacts DEF TasksSane
<1>6. \A n \in Pid : st[n] = "WAITING" => waitpid'[n] = arg'[n]
  BY <1>1, <1>2 DEF TasksSane
<1>7. Reschedule(st)
  BY DEF st
<1>8. Switches(st)
  BY <1>2, <1>3, <1>4, <1>5, <1>6, <1>7 DEF Switches
<1> QED BY <1>8 DEF st

(***************************************************************************)
(* The blocking calls that add no timer: yield, a read and a write-back in *)
(* sys_exit that wait for the device, and a parent that waits.             *)
(***************************************************************************)
LEMMA BlockingActions ==
  ASSUME ProcInv, NEW t \in Pid, current = t,
         \/ Yield(t) \/ Read(t) \/ ExitWriteBack(t)
         \/ WaitLoop(t) /\ Children(t) # {} /\ state[Min(Children(t))] # "DEAD"
  PROVE  ProcInv'
<1>1. CpuTypes /\ FamilyTypes /\ OtherTypes /\ t \in Pid
  BY TypeParts DEF ProcInv
<1>2. /\ pc[t] # "user" => t # Idle
      /\ pc[t] \notin Dying => state[t] \in Awake
      /\ pc[t] \in Dying \cup {"exit"} => t \notin {Idle, InitPid}
  BY CurrentFacts
<1>3. CASE Yield(t)
  <2>1. /\ t # Idle /\ state[t] \in Awake /\ Goto(t, "iret")
        /\ Reschedule(state) /\ UNCHANGED <<family, sigs, timing, ioDone, idling>>
    BY <1>2, <1>3 DEF Yield, Calling, Dying
  <2>2. state = [state EXCEPT ![t] = state[t]]
    BY <1>1 DEF CpuTypes
  <2> DEFINE s == state[t]
             st == [state EXCEPT ![t] = s]
  <2>3. /\ s \in Awake /\ s \in TaskState /\ Reschedule(st)
        /\ st[t] = s
    BY <1>1, <2>1, <2>2 DEF CpuTypes
  <2> HIDE DEF s
  <2>4. Switches(st)
    BY <2>1, <2>3, BlockKeeps DEF Awake, PC, family
  <2>5. FamilyTypes' /\ OtherTypes' /\ UNCHANGED <<ppid, sid, sigs, timers>>
    BY <1>1, <2>1, <2>3, ReschedulePanic
       DEF FamilyTypes, OtherTypes, idling, family, sigs, timing
  <2>6. st[current] # "DEAD" /\ pc'[t] = "iret"
    BY <1>1, <2>1, <2>3 DEF Awake, CpuTypes, Goto
  <2> HIDE DEF st
  <2> QED BY <2>4, <2>5, <2>6, SwitchOnly
<1>4. CASE Read(t)
  <2> DEFINE st == [state EXCEPT ![t] = "BLOCKED"]
  <2>1. /\ t # Idle /\ Goto(t, "io") /\ Reschedule(st)
        /\ ioDone' = [ioDone EXCEPT ![t] = FALSE]
        /\ UNCHANGED <<family, sigs, timing, idling>>
    BY <1>4 DEF Read, Calling
  <2>2. Switches(st)
    BY <2>1, BlockKeeps DEF PC, TaskState, family
  <2>3. ioDone' \in [Pid -> BOOLEAN]
    BY <1>1, <2>1 DEF OtherTypes, idling
  <2>4. FamilyTypes' /\ OtherTypes' /\ UNCHANGED <<ppid, sid, sigs, timers>>
    BY <1>1, <2>1, <2>3, ReschedulePanic
       DEF FamilyTypes, OtherTypes, idling, family, sigs, timing
  <2>5. st[current] # "DEAD" /\ pc'[t] = "io"
    BY <1>1, <2>1 DEF CpuTypes, Goto
  <2> HIDE DEF st
  <2> QED BY <2>2, <2>4, <2>5, SwitchOnly
<1>5. CASE ExitWriteBack(t)
  <2> DEFINE st == [state EXCEPT ![t] = "BLOCKED"]
             label == AfterRelease[pc[t]]
  <2>1. \/ pc[t] = "iput" /\ label = "notify"
        \/ pc[t] = "close" /\ label = "adopt"
    BY <1>5 DEF ExitWriteBack, AfterRelease
  <2>2. /\ Goto(t, label) /\ Reschedule(st)
        /\ ioDone' = [ioDone EXCEPT ![t] = FALSE]
        /\ UNCHANGED <<family, sigs, timing, idling>>
    BY <1>5 DEF ExitWriteBack
  <2> HIDE DEF label
  <2>3. t \notin {Idle, InitPid} /\ label \in PC
    BY <1>2, <2>1 DEF Dying, PC
  <2>4. Switches(st)
    BY <2>1, <2>2, <2>3, BlockKeeps DEF TaskState, family
  <2>5. ioDone' \in [Pid -> BOOLEAN]
    BY <1>1, <2>2 DEF OtherTypes, idling
  <2>6. FamilyTypes' /\ OtherTypes' /\ UNCHANGED <<ppid, sid, sigs, timers>>
    BY <1>1, <2>2, <2>5, ReschedulePanic
       DEF FamilyTypes, OtherTypes, idling, family, sigs, timing
  <2>7. st[current] # "DEAD"
    BY <1>1 DEF CpuTypes
  <2> HIDE DEF st
  <2> QED BY <2>3, <2>4, <2>6, <2>7, SwitchOnly
<1>6. CASE WaitLoop(t) /\ Children(t) # {} /\ state[Min(Children(t))] # "DEAD"
  <2> DEFINE st == [state EXCEPT ![t] = "WAITING"]
  <2>1. /\ pc[t] = "waitpid" /\ Reschedule(st)
        /\ waitpid' = [waitpid EXCEPT ![t] = arg[t]]
        /\ UNCHANGED <<pc, arg, ppid, sid, sigs, timing, ioDone, idling>>
    BY <1>6 DEF WaitLoop
  <2>2. /\ Goto(t, "waitpid") /\ t # Idle
        /\ \A n \in Pid : n # t => waitpid'[n] = waitpid[n] /\ arg'[n] = arg[n]
        /\ waitpid'[t] = arg'[t]
    BY <1>1, <1>2, <2>1 DEF Goto, CpuTypes, FamilyTypes
  <2>3. Switches(st)
    BY <2>1, <2>2, BlockKeeps DEF PC, TaskState
  <2>4. FamilyTypes' /\ OtherTypes' /\ UNCHANGED <<ppid, sid, sigs, timers>>
    BY <1>1, <2>1, ReschedulePanic DEF FamilyTypes, OtherTypes, idling, sigs, timing
  <2>5. st[current] # "DEAD" /\ pc'[t] = "waitpid"
    BY <1>1, <2>1 DEF CpuTypes
  <2> HIDE DEF st
  <2> QED BY <2>3, <2>4, <2>5, SwitchOnly
<1> QED BY <1>3, <1>4, <1>5, <1>6

(***************************************************************************)
(* sys_sleep: the timer is added and current sleeps.                       *)
(***************************************************************************)
LEMMA SleepKeeps ==
  ASSUME ProcInv, NEW t \in Pid, current = t, NEW d \in Durations, Sleep(t, d)
  PROVE  ProcInv'
<1> DEFINE timer == [task |-> t, left |-> d, handler |-> "task_wakeup"]
           st == [state EXCEPT ![t] = "SLEEPING"]
<1>1. TypeOK /\ CpuTypes /\ FamilyTypes /\ OtherTypes /\ TimersKnown /\ InitLives
  BY TypeParts DEF ProcInv
<1>2. /\ t # Idle /\ Goto(t, "iret") /\ Reschedule(st)
      /\ timers' = InsertSorted(timers, timer)
      /\ UNCHANGED <<family, sigs, ioDone, idling, beeping>>
  BY DEF Sleep, Calling
<1>3. timer \in Timer
  BY DurationsAssumption DEF Timer
<1>4. Switches(st)
  BY <1>2, BlockKeeps DEF PC, TaskState, family
<1>5. st[t] = "SLEEPING" /\ pc'[t] = "iret" /\ \A n \in Pid : n # t => st[n] = state[n]
  BY <1>1, <1>2 DEF CpuTypes, Goto
<1> HIDE DEF st
<1>6. /\ CpuTypes' /\ TasksSane' /\ OwnersKept /\ FamilyTree' /\ Descent'
      /\ state'[t] = "SLEEPING"
  BY <1>2, <1>4, <1>5, SwitchKeeps DEF Awake, family
<1>7. MayOwnTimer(timer.task)'
  BY <1>2, <1>5, <1>6 DEF MayOwnTimer
<1> HIDE DEF timer
<1>8. timers' \in Seq(Timer) /\ TimersKnown'
  BY <1>1, <1>2, <1>3, <1>6, <1>7, TimerAdd
<1>9. InitLives'
  BY <1>1, <1>2, <1>4, <1>5, PidFacts, SwitchInit DEF InitLives, family, sigs
<1>10. FamilyTypes' /\ OtherTypes'
  BY <1>1, <1>2, ReschedulePanic DEF FamilyTypes, OtherTypes, idling, family, sigs
<1> QED BY <1>6, <1>8, <1>9, <1>10, TypeParts DEF ProcInv

(***************************************************************************)
(* The parts of idle's switch_to change only the state of idle and of the  *)
(* READY task that idle makes current.                                     *)
(***************************************************************************)
LEMMA IdleLoopKeeps ==
  ASSUME ProcInv, IdleLoop
  PROVE  /\ ProcInv' /\ pc' = pc
         /\ Switches(state) \/ Switches([state EXCEPT ![Idle] = "READY"])
              \/ UNCHANGED cpu
<1>1. CpuTypes /\ FamilyTypes /\ OtherTypes /\ TasksSane
  BY TypeParts DEF ProcInv
<1>2. UNCHANGED <<pc, family, sigs, timing, ioDone>>
  BY DEF IdleLoop, IdlePick, IdleDemote, IdleSwitch, IdleLoad
<1>3. idleAt' \in IdlePC /\ target' \in Pid
  BY <1>1, PidFacts DEF IdleLoop, IdlePick, IdleDemote, IdleSwitch, IdleLoad, IdlePC,
     OtherTypes
<1>4. panic' \in {panic, "not_ready"}
  BY DEF IdleLoop, IdlePick, IdleDemote, IdleSwitch, IdleLoad
<1>5. FamilyTypes' /\ OtherTypes'
  BY <1>1, <1>2, <1>3, <1>4 DEF FamilyTypes, OtherTypes, family, sigs, timing
<1>6. CASE UNCHANGED cpu /\ (idleAt' = idleAt \/ ~ Loading')
  BY <1>1, <1>2, <1>3, <1>4, <1>6, PanicKeeps DEF OtherTypes
<1>7. ASSUME NEW st, Switches(st), st[current] # "DEAD", current = Idle
      PROVE  ProcInv'
  BY <1>2, <1>5, <1>7, SwitchOnly, PidFacts DEF family, timing
<1>8. CASE IdleDemote
  <2>1. /\ current = Idle /\ current' = current
        /\ state' = [state EXCEPT ![Idle] = IF state[Idle] = "RUNNING"
                                             THEN "READY" ELSE state[Idle]]
    BY <1>8 DEF IdleDemote
  <2>2. state[Idle] \in Awake /\ pc[Idle] = "user"
    BY <1>1 DEF TasksSane
  <2> DEFINE st == [state EXCEPT ![Idle] = "READY"]
  <2>3. state' = st
    BY <2>1, <2>2 DEF Awake
  <2>4. /\ st \in [Pid -> TaskState] /\ st[Idle] = "READY"
        /\ \A n \in Pid : n # Idle => st[n] = state[n]
    BY <1>1, PidFacts DEF CpuTypes, TaskState
  <2> HIDE DEF st
  <2>5. Switches(st) /\ st[current] # "DEAD"
    BY <1>1, <1>2, <2>1, <2>2, <2>3, <2>4, PidFacts
       DEF Switches, Wakes, TasksSane, CpuTypes, Awake, family
  <2> QED BY <1>2, <1>7, <2>1, <2>5 DEF st
<1>9. CASE IdleSwitch /\ state[target] = "READY"
  <2>1. /\ current = Idle /\ current' = target
        /\ state' = [state EXCEPT ![target] = "RUNNING"]
    BY <1>9 DEF IdleSwitch
  <2>2. Switches(state) /\ state[current] # "DEAD"
    BY <1>1, <1>2, <1>9, <2>1, PidFacts
       DEF Switches, Wakes, TasksSane, CpuTypes, OtherTypes, Awake, family
  <2> QED BY <1>2, <1>7, <2>1, <2>2
<1>10. CASE IdleLoop /\ ~ IdleDemote /\ ~ (IdleSwitch /\ state[target] = "READY")
  <2>1. UNCHANGED cpu /\ (idleAt' = idleAt \/ ~ Loading')
    BY <1>10 DEF IdleLoop, IdlePick, IdleSwitch, IdleLoad, cpu, Loading
  <2> QED BY <1>2, <1>6, <2>1
<1> QED BY <1>8, <1>9, <1>10

(***************************************************************************)
(* The task that a device interrupt wakes waits for that device and is not *)
(* dead.                                                                   *)
(***************************************************************************)
LEMMA AwaitedFacts ==
  ASSUME ProcInv, NEW t \in Pid, Awaited(t), pc[current] = "user" \/ Loading
  PROVE  /\ t # Idle /\ state[t] \notin {"FREE", "DEAD"} /\ pc[t] # "user"
         /\ state[current] \in Awake
  BY CurrentFacts DEF ProcInv, TasksSane, Awaited, Dying, Awake

(***************************************************************************)
(* A device interrupt in user mode.                                        *)
(***************************************************************************)
LEMMA DeviceInterruptKeeps ==
  ASSUME ProcInv, NEW t \in Pid, DeviceInterrupt(t)
  PROVE  ProcInv'
<1> DEFINE st == [state EXCEPT ![t] = "READY"]
<1>1. CpuTypes /\ FamilyTypes /\ OtherTypes /\ TasksSane /\ InitLives
  BY TypeParts DEF ProcInv
<1>2. /\ pc[current] = "user" /\ Awaited(t)
      /\ state' = st /\ ioDone' = [ioDone EXCEPT ![t] = TRUE]
      /\ pc' = [pc EXCEPT ![current] = IF current = Idle THEN "user" ELSE "iret"]
      /\ UNCHANGED <<current, family, sigs, timing, idling, panic>>
  BY DEF DeviceInterrupt, InterruptExit
<1>3. /\ t # current /\ t # Idle /\ state[t] \notin {"FREE", "DEAD"}
      /\ state[current] \in Awake
  BY <1>2, AwaitedFacts
<1>4. /\ st \in [Pid -> TaskState] /\ st[t] = "READY"
      /\ \A n \in Pid : n # t => st[n] = state[n]
  BY <1>1 DEF CpuTypes, TaskState
<1>5. /\ pc' \in [Pid -> PC]
      /\ pc'[current] = IF current = Idle THEN "user" ELSE "iret"
      /\ \A n \in Pid : n # current => pc'[n] = pc[n]
  BY <1>1, <1>2 DEF CpuTypes, PC
<1> HIDE DEF st
<1>6. Wakes(st)
  BY <1>3, <1>4, <1>5 DEF Wakes
<1>7. Switches(st) /\ st[current] # "DEAD"
  BY <1>1, <1>2, <1>3, <1>4, <1>5, <1>6, PidFacts
     DEF Switches, TasksSane, CpuTypes, Awake, family
<1>8. ioDone' \in [Pid -> BOOLEAN]
  BY <1>1, <1>2 DEF OtherTypes
<1>9. FamilyTypes' /\ OtherTypes'
  BY <1>1, <1>2, <1>8 DEF FamilyTypes, OtherTypes, idling, family, sigs, timing
<1> QED BY <1>2, <1>5, <1>7, <1>9, SwitchOnly, PidFacts DEF family, timing

(***************************************************************************)
(* An interrupt that comes while idle loads current: tasks that are alive  *)
(* become READY, and a SIGCHLD of current is dropped.                      *)
(***************************************************************************)
LEMMA InLoadingKeeps ==
  ASSUME ProcInv, NEW st \in [Pid -> TaskState], NEW reschedule,
         InLoading(st, reschedule),
         \A n \in Pid : \/ st[n] = state[n]
                        \/ st[n] = "READY" /\ state[n] \notin {"FREE", "DEAD"}
  PROVE  /\ Switches(st) /\ st[current] # "DEAD" /\ CpuTypes' /\ TasksSane' /\ OwnersKept
         /\ FamilyTree' /\ Descent' /\ InitLives' /\ FamilyTypes'
         /\ ioDone' \in [Pid -> BOOLEAN] /\ beeping' \in BOOLEAN => OtherTypes'
         /\ pc' = pc /\ current' = current /\ state' = st
<1>1. CpuTypes /\ FamilyTypes /\ OtherTypes /\ TasksSane /\ InitLives /\ current \in Pid
  BY TypeParts DEF ProcInv, CpuTypes
<1>2. /\ Loading /\ state' = st
      /\ signal' = [signal EXCEPT ![current] = @ \ {"CHLD"}]
      /\ panic' \in {panic, "two_stacks"}
      /\ UNCHANGED <<current, pc, family, caught, idling>>
  BY DEF InLoading
<1>3. state[current] \in Awake /\ st[current] \in Awake /\ st[Idle] \in Awake
  BY <1>1, <1>2, PidFacts DEF TasksSane, Awake
<1>4. Switches(st)
  BY <1>1, <1>2, <1>3 DEF Switches, Wakes, TasksSane, CpuTypes, Awake, family
<1>5. /\ CpuTypes' /\ TasksSane' /\ OwnersKept /\ FamilyTree' /\ Descent'
  BY <1>2, <1>3, <1>4, SwitchKeeps DEF Awake, family
<1>6. /\ signal' \in [Pid -> SUBSET Signals]
      /\ signal'[InitPid] \subseteq signal[InitPid]
  BY <1>1, <1>2, PidFacts DEF OtherTypes
<1>7. InitLives'
  <2>1. pc'[InitPid] \in {"user", "iret", "waitpid", "io"}
    BY <1>1, <1>2, PidFacts DEF CpuTypes, PC, InitLives, Exiting
  <2>2. st[InitPid] # "DEAD"
    BY <1>1, PidFacts DEF InitLives
  <2> QED BY <1>1, <1>2, <1>4, <1>6, <2>1, <2>2, SwitchInit DEF InitLives, family
<1>8. FamilyTypes'
  BY <1>1, <1>2 DEF FamilyTypes, family
<1>9. ASSUME ioDone' \in [Pid -> BOOLEAN], beeping' \in BOOLEAN PROVE OtherTypes'
  BY <1>1, <1>2, <1>6, <1>9 DEF OtherTypes, idling
<1> QED BY <1>2, <1>3, <1>4, <1>5, <1>7, <1>8, <1>9 DEF Awake

(***************************************************************************)
(* A device interrupt while idle loads current.                            *)
(***************************************************************************)
LEMMA DeviceLoadingKeeps ==
  ASSUME ProcInv, NEW t \in Pid, DeviceInterruptLoading(t)
  PROVE  ProcInv'
<1> DEFINE st == [state EXCEPT ![t] = "READY"]
<1>1. TypeOK /\ TimersKnown /\ CpuTypes /\ OtherTypes
  BY TypeParts DEF ProcInv
<1>2. /\ Awaited(t) /\ Loading /\ InLoading(st, FALSE)
      /\ ioDone' = [ioDone EXCEPT ![t] = TRUE] /\ UNCHANGED timing
  BY DEF DeviceInterruptLoading, InLoading
<1>3. state[t] \notin {"FREE", "DEAD"}
  BY <1>2, AwaitedFacts
<1>4. /\ st \in [Pid -> TaskState]
      /\ \A n \in Pid : \/ st[n] = state[n]
                        \/ st[n] = "READY" /\ state[n] \notin {"FREE", "DEAD"}
  BY <1>1, <1>3 DEF CpuTypes, TaskState
<1> HIDE DEF st
<1>5. ioDone' \in [Pid -> BOOLEAN] /\ beeping' \in BOOLEAN
  BY <1>1, <1>2 DEF OtherTypes, timing
<1>6. /\ CpuTypes' /\ TasksSane' /\ OwnersKept /\ FamilyTree' /\ Descent' /\ InitLives'
      /\ FamilyTypes' /\ OtherTypes'
  BY <1>2, <1>4, <1>5, InLoadingKeeps
<1>7. timers' \in Seq(Timer) /\ TimersKnown'
  BY <1>1, <1>2, <1>6, TimersLeft DEF timing
<1> QED BY <1>6, <1>7, TypeParts DEF ProcInv

(***************************************************************************)
(* A timer that expires is that of a task which exists and is not dead,    *)
(* unless it is current: but then it is in sys_exit, idle is not just      *)
(* loading it, and no tick comes.                                          *)
(***************************************************************************)
LEMMA DueFacts ==
  ASSUME ProcInv, NEW h, NEW n \in Due(h)
  PROVE  /\ n \in Pid \ {Idle} /\ state[n] # "FREE"
         /\ pc[current] = "user" \/ Loading => state[n] # "DEAD"
         /\ \E i \in 1 .. Expired :
              i \in DOMAIN timers /\ timers[i].task = n /\ timers[i].handler = h
<1>1. TypeOK /\ TimersKnown /\ TasksSane /\ timers \in Seq(Timer) /\ Sorted(timers)
  BY DEF ProcInv, TypeOK, TimersKnown
<1>2. Expired \in 0 .. Len(timers)
  BY <1>1, ExpiredPrefix
<1>3. PICK i \in 1 .. Expired : timers[i].handler = h /\ timers[i].task = n
  BY DEF Due
<1>4. i \in DOMAIN timers
  BY <1>1, <1>2
<1>5. n \in Pid /\ MayOwnTimer(n)
  BY <1>1, <1>3, <1>4, TimerOwners
<1>6. ASSUME state[n] = "DEAD"
      PROVE  pc[current] # "user" /\ ~ Loading
  <2>1. n = current /\ pc[n] \in Dying
    BY <1>1, <1>5, <1>6 DEF MayOwnTimer, TasksSane, Exiting
  <2> QED BY <1>1, <1>6, <2>1 DEF TasksSane, Dying, Awake
<1> QED BY <1>3, <1>4, <1>5, <1>6 DEF MayOwnTimer

(***************************************************************************)
(* The tasks woken at a tick are alive, and the others stay as they are.   *)
(***************************************************************************)
LEMMA WokenStates ==
  ASSUME ProcInv, pc[current] = "user" \/ Loading
  PROVE  /\ Woken \in [Pid -> TaskState] /\ Woken[Idle] = state[Idle]
         /\ \A n \in Pid : \/ Woken[n] = state[n]
                           \/ Woken[n] = "READY" /\ state[n] \notin {"FREE", "DEAD"}
<1>1. CpuTypes
  BY TypeParts DEF ProcInv
<1>2. \A n \in Due("task_wakeup") : n \in Pid \ {Idle} /\ state[n] \notin {"FREE", "DEAD"}
  BY DueFacts
<1> QED BY <1>1, <1>2, PidFacts DEF Woken, CpuTypes, TaskState

(***************************************************************************)
(* timer_wakeup leaves a sorted list of timers that their tasks may own.   *)
(***************************************************************************)
LEMMA TimerWakeupKeeps ==
  ASSUME TypeOK, TimersKnown, OwnersKept, TimerWakeup
  PROVE  timers' \in Seq(Timer) /\ TimersKnown' /\ timers' = Ticked
<1>1. timers' = Ticked
  BY DEF TimerWakeup, Ticked
<1>2. timers \in Seq(Timer) /\ Sorted(timers)
  BY DEF TypeOK, TimersKnown
<1>3. PICK place : Derived(Ticked, place)
  BY <1>2, TickKeeps, Zenon
<1>4. timers' \in Seq(Timer) /\ Sorted(timers')
  BY <1>1, <1>2, TickKeeps
<1>5. \A k \in DOMAIN timers' :
        \E i \in DOMAIN timers : timers'[k].task = timers[i].task
  BY <1>1, <1>3 DEF Derived
<1> QED BY <1>1, <1>4, <1>5, TimersFrame

(***************************************************************************)
(* The clock interrupt: expired timers leave the list and wake tasks that  *)
(* are alive, and the current task may be preempted.                       *)
(***************************************************************************)
LEMMA ClockTickKeeps ==
  ASSUME ProcInv, NEW sliceEnds \in BOOLEAN, ClockTick(sliceEnds)
  PROVE  ProcInv' /\ Switches(Woken)
<1>1. /\ TypeOK /\ CpuTypes /\ FamilyTypes /\ OtherTypes /\ TasksSane /\ InitLives
      /\ TimersKnown
  BY TypeParts DEF ProcInv
<1>2. /\ pc[current] = "user" /\ TimerWakeup
      /\ pc' = [pc EXCEPT ![current] = IF current = Idle THEN "user" ELSE "iret"]
      /\ Reschedule(Woken) \/ (state' = Woken /\ current' = current /\ panic' = panic)
      /\ UNCHANGED <<family, sigs, ioDone, idling>>
  BY DEF ClockTick, InterruptExit
<1>3. /\ Woken \in [Pid -> TaskState] /\ Woken[Idle] = state[Idle]
      /\ \A n \in Pid : \/ Woken[n] = state[n]
                        \/ Woken[n] = "READY" /\ state[n] \notin {"FREE", "DEAD"}
  BY <1>2, WokenStates
<1>4. panic' \in {panic, "not_ready"}
  BY <1>2, ReschedulePanic
<1>5. /\ pc' \in [Pid -> PC]
      /\ pc'[current] = IF current = Idle THEN "user" ELSE "iret"
      /\ \A n \in Pid : n # current => pc'[n] = pc[n]
  BY <1>1, <1>2 DEF CpuTypes, PC
<1>6. Woken[current] \in Awake /\ Woken[Idle] \in Awake /\ pc'[Idle] = "user"
  BY <1>1, <1>2, <1>3, <1>5, CurrentFacts, PidFacts DEF TasksSane, Awake, Dying
<1>7. Wakes(Woken)
  BY <1>3, <1>5 DEF Wakes
<1>8. Switches(Woken)
  BY <1>1, <1>2, <1>3, <1>5, <1>6, <1>7 DEF Switches, TasksSane, Awake, family
<1>9. /\ CpuTypes' /\ TasksSane' /\ OwnersKept /\ FamilyTree' /\ Descent'
  BY <1>2, <1>6, <1>8, SwitchKeeps DEF Awake, family
<1>10. InitLives'
  BY <1>1, <1>2, <1>3, <1>5, <1>8, PidFacts, SwitchInit DEF InitLives, family, sigs
<1>11. FamilyTypes' /\ OtherTypes'
  <2>1. beeping' \in BOOLEAN
    BY <1>2, Zenon DEF TimerWakeup
  <2> QED BY <1>1, <1>2, <1>4, <2>1 DEF FamilyTypes, OtherTypes, family, sigs, idling
<1>12. timers' \in Seq(Timer) /\ TimersKnown'
  BY <1>1, <1>2, <1>9, TimerWakeupKeeps
<1> QED BY <1>8, <1>9, <1>10, <1>11, <1>12, TypeParts DEF ProcInv

(***************************************************************************)
(* A tick while idle loads current.                                        *)
(***************************************************************************)
LEMMA ClockLoadingKeeps ==
  ASSUME ProcInv, NEW sliceEnds \in BOOLEAN, ClockTickLoading(sliceEnds)
  PROVE  ProcInv' /\ Switches(Woken)
<1>1. TypeOK /\ TimersKnown /\ OtherTypes
  BY TypeParts DEF ProcInv
<1>2. Loading /\ InLoading(Woken, sliceEnds) /\ TimerWakeup /\ UNCHANGED ioDone
  BY DEF ClockTickLoading, InLoading
<1>3. ioDone' \in [Pid -> BOOLEAN] /\ beeping' \in BOOLEAN
  <2>1. beeping' \in BOOLEAN
    BY <1>2, Zenon DEF TimerWakeup
  <2> QED BY <1>1, <1>2, <2>1 DEF OtherTypes
<1>4. /\ Woken \in [Pid -> TaskState]
      /\ \A n \in Pid : \/ Woken[n] = state[n]
                        \/ Woken[n] = "READY" /\ state[n] \notin {"FREE", "DEAD"}
  BY <1>2, WokenStates
<1>5. /\ CpuTypes' /\ TasksSane' /\ OwnersKept /\ FamilyTree' /\ Descent' /\ InitLives'
      /\ FamilyTypes' /\ OtherTypes' /\ Switches(Woken)
  BY <1>2, <1>3, <1>4, InLoadingKeeps
<1>6. timers' \in Seq(Timer) /\ TimersKnown'
  BY <1>1, <1>2, <1>5, TimerWakeupKeeps
<1> QED BY <1>5, <1>6, TypeParts DEF ProcInv

(***************************************************************************)
(* The end of sys_exit: the children go to the parent of the task, which   *)
(* is none of them and not the task itself, and nobody's parent is dead    *)
(* and gone.                                                               *)
(***************************************************************************)
LEMMA ExitAdoptKeeps ==
  ASSUME ProcInv, NEW t \in Pid, current = t, ExitAdopt(t)
  PROVE  ProcInv'
<1> DEFINE st == [n \in Pid |-> IF n \in Waiting(t) /\ state[n] = "WAITING"
                                THEN "READY" ELSE state[n]]
<1>1. /\ TypeOK /\ CpuTypes /\ FamilyTypes /\ OtherTypes /\ TasksSane /\ InitLives
      /\ TimersKnown /\ FamilyTree /\ Descent
  BY TypeParts DEF ProcInv
<1>2. /\ pc[t] = "adopt" /\ t \notin {Idle, InitPid} /\ state[t] # "FREE"
      /\ state[t] \in Awake \cup {"DEAD"}
  BY <1>1, CurrentFacts DEF ExitAdopt, Dying, TasksSane
<1>3. /\ ppid' = [n \in Pid |-> IF n \in Adopted(t) THEN ppid[t] ELSE ppid[n]]
      /\ waitpid' = [n \in Pid |-> IF n \in Waiting(t) THEN 0 ELSE waitpid[n]]
      /\ Reschedule(st) /\ Goto(t, IF state[t] = "DEAD" THEN "iret" ELSE "exit")
      /\ ioDone' = [ioDone EXCEPT ![t] = FALSE]
      /\ UNCHANGED <<sid, arg, sigs, timing, idling>>
  BY DEF ExitAdopt
<1>4. /\ st \in [Pid -> TaskState]
      /\ \A n \in Pid : st[n] = IF n \in Waiting(t) /\ state[n] = "WAITING"
                                THEN "READY" ELSE state[n]
  BY <1>1 DEF CpuTypes, TaskState
<1>5. /\ pc' \in [Pid -> PC] /\ pc'[t] = (IF state[t] = "DEAD" THEN "iret" ELSE "exit")
      /\ \A n \in Pid : n # t => pc'[n] = pc[n]
  BY <1>1, <1>3 DEF CpuTypes, PC, Goto
<1> HIDE DEF st
<1>6. \A n \in Pid : \/ st[n] = state[n]
                     \/ state[n] = "WAITING" /\ st[n] = "READY"
  BY <1>4
<1>7. \A n \in Pid : st[n] = "WAITING" => waitpid'[n] = arg'[n]
  BY <1>1, <1>3, <1>4 DEF TasksSane
<1>8. Wakes(st)
  BY <1>5, <1>6 DEF Wakes
<1>9. Switches(st)
  BY <1>1, <1>2, <1>3, <1>4, <1>5, <1>6, <1>7, <1>8, PidFacts
     DEF Switches, TasksSane, Awake
<1>10. /\ CpuTypes' /\ TasksSane' /\ OwnersKept
       /\ \A n \in Pid : Exists(n)' <=> Exists(n)
       /\ \A n \in Pid : st[n] \in Awake => state'[n] \in Awake
       /\ \A n \in Pid : st[n] \notin Awake => state'[n] = st[n]
  BY <1>9, SwitchKeeps
<1>11. FamilyTypes' /\ OtherTypes'
  <2>1. ioDone' \in [Pid -> BOOLEAN] /\ panic' \in {panic, "not_ready"}
    BY <1>1, <1>3, ReschedulePanic DEF OtherTypes
  <2> QED BY <1>1, <1>3, <2>1, PidFacts
          DEF FamilyTypes, OtherTypes, idling, sigs, timing, Idle
<1>12. InitPid \notin Adopted(t) /\ ppid'[InitPid] = InitPid
  BY <1>1, <1>2, <1>3, PidFacts DEF Adopted, InitLives
<1>13. InitLives'
  BY <1>1, <1>2, <1>3, <1>6, <1>9, <1>12, PidFacts, SwitchInit DEF InitLives, sigs
<1>14. timers' \in Seq(Timer) /\ TimersKnown'
  BY <1>1, <1>3, <1>10, TimersLeft DEF timing
<1>15. PICK rank \in [Pid -> Nat] : Ranked(rank)
  BY <1>1 DEF Descent
<1>16. ppid[t] \in Pid /\ ppid[t] # t /\ rank[ppid[t]] < rank[t] /\ rank[t] \in Nat
       /\ rank[ppid[t]] \in Nat
  <2>1. ppid[t] \in Pid /\ rank[ppid[t]] < rank[t]
    BY <1>1, <1>2, <1>15 DEF Ranked, FamilyTypes, Exists
  <2>2. rank[t] \in Nat /\ rank[ppid[t]] \in Nat
    BY <2>1
  <2> QED BY <2>1, <2>2
<1>17. ASSUME NEW n \in Pid, Exists(n)'
       PROVE  /\ Exists(n)
              /\ \/ ppid[n] = t /\ ppid'[n] = ppid[t]
                 \/ ppid[n] # t /\ ppid'[n] = ppid[n]
  BY <1>3, <1>10, <1>17 DEF Adopted, Exists
<1>18. FamilyTree'
  <2> SUFFICES ASSUME NEW n \in Pid \ {Idle}, Exists(n)'
               PROVE  /\ Exists(ppid[n])'
                      /\ state'[ppid'[n]] = "DEAD" => Exiting(ppid[n])'
    BY DEF FamilyTree
  <2>1. PICK m \in Pid : m = ppid'[n]
    BY <1>11 DEF FamilyTypes
  <2>2. m # t /\ Exists(m) /\ (state[m] = "DEAD" => Exiting(m))
    <3>1. Exists(t) /\ t \in Pid \ {Idle}
      BY <1>2 DEF Exists
    <3>2. CASE ppid[n] = t
      BY <1>1, <1>16, <1>17, <2>1, <3>1, <3>2 DEF FamilyTree
    <3>3. CASE ppid[n] # t
      BY <1>1, <1>17, <2>1, <3>3 DEF FamilyTree
    <3> QED BY <3>2, <3>3
  <2>3. state'[m] = "DEAD" => state[m] = "DEAD"
    BY <1>6, <1>10 DEF Awake
  <2>4. Exists(m)' /\ (state'[m] = "DEAD" => Exiting(m)')
    BY <1>5, <1>10, <2>2, <2>3 DEF Exiting
  <2> QED BY <2>1, <2>4 DEF Exists, Exiting
<1>19. Descent'
  <2>1. ASSUME NEW n \in Pid \ {Idle, InitPid}, Exists(n)'
        PROVE  rank[ppid'[n]] < rank[n]
    <3>1. Exists(n) /\ rank[ppid[n]] < rank[n] /\ rank[n] \in Nat
      BY <1>15, <1>17, <2>1 DEF Ranked
    <3>2. CASE ppid[n] = t
      <4>1. ppid'[n] = ppid[t]
        BY <1>17, <2>1, <3>2
      <4> QED BY <1>16, <3>1, <3>2, <4>1
    <3>3. CASE ppid[n] # t
      BY <1>17, <2>1, <3>1, <3>3
    <3> QED BY <3>2, <3>3
  <2>2. Ranked(rank)'
    BY <2>1 DEF Ranked
  <2> QED BY <2>2 DEF Descent
<1> QED BY <1>10, <1>11, <1>13, <1>14, <1>18, <1>19, TypeParts DEF ProcInv

-----------------------------------------------------------------------------
(* What always holds. *)

(***************************************************************************)
(* After task_setup only idle and init exist, and no timer.                *)
(***************************************************************************)
LEMMA ProcInit == Init => ProcInv
<1> SUFFICES ASSUME Init PROVE ProcInv
  OBVIOUS
<1>1. Idle \in Pid /\ InitPid \in Pid /\ Idle # InitPid /\ 0 \in Pid
  BY PidFacts DEF Idle
<1>2. CpuTypes
  BY <1>1 DEF Init, CpuTypes, TaskState, PC
<1>3. FamilyTypes
  BY <1>1 DEF Init, FamilyTypes
<1>4. OtherTypes
  BY <1>1 DEF Init, OtherTypes, IdlePC
<1>5. timers \in Seq(Timer) /\ timers = << >>
  BY DEF Init
<1>6. /\ \A n \in Pid : state[n] = IF n \in {Idle, InitPid} THEN "READY" ELSE "FREE"
      /\ \A n \in Pid : pc[n] = "user"
      /\ current = Idle
  BY DEF Init
<1>7. TasksSane
  BY <1>1, <1>6 DEF TasksSane, Awake
<1>8. InitLives
  BY <1>1, <1>6 DEF Init, InitLives, Exiting
<1>9. FamilyTree
  BY <1>1, <1>6, <1>8 DEF FamilyTree, InitLives, Exists
<1>10. Descent
  <2>1. Ranked([n \in Pid |-> 0])
    BY <1>6 DEF Ranked, Exists
  <2>2. [n \in Pid |-> 0] \in [Pid -> Nat]
    OBVIOUS
  <2> QED BY <2>1, <2>2, Zenon DEF Descent
<1>11. TimersKnown
  BY <1>5 DEF TimersKnown, Sorted
<1> QED BY <1>2, <1>3, <1>4, <1>5, <1>7, <1>8, <1>9, <1>10, <1>11, TypeParts DEF ProcInv

(***************************************************************************)
(* Every step keeps the invariant.                                         *)
(***************************************************************************)
LEMMA ProcStep == ProcInv /\ [Next]_vars => ProcInv'
<1> SUFFICES ASSUME ProcInv, [Next]_vars PROVE ProcInv'
  OBVIOUS
<1>1. CASE UNCHANGED vars
  BY <1>1, PanicKeeps DEF vars, ProcInv, TypeOK, idling
<1>2. CASE \E t \in Pid : current = t /\ ~ Loading /\ (Syscall(t) \/ KernelStep(t))
  <2>1. PICK t \in Pid : current = t /\ ~ Loading /\ (Syscall(t) \/ KernelStep(t))
    BY <1>2
  <2>2. CASE Fork(t)
    BY <2>1, <2>2, ForkKeeps
  <2>3. CASE ForkTableFull(t)
    BY <2>3, PanicKeeps DEF ForkTableFull, idling, ProcInv, TypeOK
  <2>4. CASE \/ Waitpid(t) \/ CatchSignal(t) \/ Setsid(t) \/ ReadEnd(t)
             \/ Exit(t) \/ ExitRelease(t) \/ Iret(t)
    BY <2>1, <2>4, MovingActions
  <2>5. CASE Yield(t) \/ Read(t) \/ ExitWriteBack(t)
    BY <2>1, <2>5, BlockingActions
  <2>6. CASE \E d \in Durations : Sleep(t, d)
    BY <2>1, <2>6, SleepKeeps
  <2>7. CASE Beep(t)
    BY <2>1, <2>7, BeepKeeps
  <2>8. CASE \E p \in Pid : Kill(t, p)
    BY <2>1, <2>8, KillKeeps
  <2>9. CASE WaitLoop(t)
    BY <2>1, <2>9, WaitReturns, BlockingActions
  <2>10. CASE ExitBegin(t)
    BY <2>1, <2>10, ExitBeginKeeps
  <2>11. CASE ExitNotify(t)
    BY <2>1, <2>11, ExitNotifyKeeps
  <2>12. CASE ExitAdopt(t)
    BY <2>1, <2>12, ExitAdoptKeeps
  <2> QED BY <2>1, <2>2, <2>3, <2>4, <2>5, <2>6, <2>7, <2>8, <2>9, <2>10, <2>11,
             <2>12 DEF Syscall, KernelStep
<1>3. CASE \E sliceEnds \in BOOLEAN : ClockTick(sliceEnds) \/ ClockTickLoading(sliceEnds)
  BY <1>3, ClockTickKeeps, ClockLoadingKeeps
<1>4. CASE \E t \in Pid : DeviceInterrupt(t) \/ DeviceInterruptLoading(t)
  BY <1>4, DeviceInterruptKeeps, DeviceLoadingKeeps
<1>5. CASE IdleLoop
  BY <1>5, IdleLoopKeeps
<1> QED BY <1>1, <1>2, <1>3, <1>4, <1>5 DEF Next

(***************************************************************************)
(* The invariant is one.                                                   *)
(***************************************************************************)
LEMMA ProcInvariant == Spec => []ProcInv
  BY ProcInit, ProcStep, PTL DEF Spec

(***************************************************************************)
(* One processor: whatever system calls, wakeups, interrupts and exits     *)
(* follow each other, and wherever they interrupt idle in its switch_to,   *)
(* no process but current is RUNNING.                                      *)
(***************************************************************************)
THEOREM ProcessOneRunning == Spec => []OneRunning
<1>1. ProcInv => OneRunning
  BY DEF ProcInv, TasksSane, OneRunning
<1> QED BY <1>1, ProcInvariant, PTL

(***************************************************************************)
(* The process tree: the parent of every process exists, and a dead one    *)
(* has not handed its children over yet.  task_tell_father and sys_waitpid *)
(* dereference the parent's and the child's slot on that ground.           *)
(***************************************************************************)
THEOREM ProcessTree == Spec => []FamilyTree
<1>1. ProcInv => FamilyTree
  BY DEF ProcInv
<1> QED BY <1>1, ProcInvariant, PTL

-----------------------------------------------------------------------------
(* How a task changes its state. *)

\* The steps that are not those of a program or of its system calls: the
\* interrupts, in user mode or while idle loads current, and idle.
TickStep ==
  \E sliceEnds \in BOOLEAN : ClockTick(sliceEnds) \/ ClockTickLoading(sliceEnds)

DeviceStep(t) == DeviceInterrupt(t) \/ DeviceInterruptLoading(t)

Outside == TickStep \/ (\E t \in Pid : DeviceStep(t)) \/ IdleLoop

Inside(t) == current = t /\ ~ Loading /\ (Syscall(t) \/ KernelStep(t))

(***************************************************************************)
(* Every step is one or the other.                                         *)
(***************************************************************************)
LEMMA NextParts == Next => (\E t \in Pid : Inside(t)) \/ Outside
  BY DEF Next, Inside, Outside, TickStep, DeviceStep

(***************************************************************************)
(* The former leave parents and children alone, and at most take current   *)
(* out of its program.                                                     *)
(***************************************************************************)
LEMMA OutsideFrame ==
  ASSUME ProcInv, Outside
  PROVE  /\ UNCHANGED family
         /\ \/ pc' = pc /\ (Loading \/ pc[current] = "user")
            \/ /\ pc[current] = "user" /\ ~ Loading
               /\ pc' = [pc EXCEPT ![current] = IF current = Idle THEN "user" ELSE "iret"]
<1>1. pc[Idle] = "user"
  BY DEF ProcInv, TasksSane
<1>2. CASE TickStep
  BY <1>2 DEF TickStep, ClockTick, InterruptExit, ClockTickLoading, InLoading
<1>3. CASE \E t \in Pid : DeviceStep(t)
  BY <1>3 DEF DeviceStep, DeviceInterrupt, InterruptExit, DeviceInterruptLoading,
     InLoading
<1>4. CASE IdleLoop
  BY <1>1, <1>4 DEF IdleLoop, IdlePick, IdleDemote, IdleSwitch, IdleLoad
<1> QED BY <1>2, <1>3, <1>4 DEF Outside

(***************************************************************************)
(* A tick, wherever it comes.                                              *)
(***************************************************************************)
LEMMA TickFacts ==
  ASSUME ProcInv, TickStep
  PROVE  /\ Switches(Woken) /\ TimerWakeup /\ timers' = Ticked /\ ioDone' = ioDone
         /\ pc[current] = "user" \/ Loading
         /\ Reschedule(Woken) \/ (state' = Woken /\ current' = current)
<1>1. Switches(Woken)
  BY ClockTickKeeps, ClockLoadingKeeps DEF TickStep
<1> QED BY <1>1 DEF TickStep, ClockTick, ClockTickLoading, InLoading, TimerWakeup, Ticked

(***************************************************************************)
(* An interrupt of a device, wherever it comes.                            *)
(***************************************************************************)
LEMMA DeviceFacts ==
  ASSUME ProcInv, NEW t \in Pid, DeviceStep(t)
  PROVE  /\ Awaited(t) /\ state[t] \notin {"FREE", "DEAD"} /\ t # Idle
         /\ state' = [state EXCEPT ![t] = "READY"] /\ current' = current
         /\ ioDone' = [ioDone EXCEPT ![t] = TRUE] /\ UNCHANGED timing
         /\ t = current => Loading
<1>1. /\ Awaited(t) /\ (pc[current] = "user" \/ Loading)
      /\ state' = [state EXCEPT ![t] = "READY"] /\ current' = current
      /\ ioDone' = [ioDone EXCEPT ![t] = TRUE] /\ UNCHANGED timing
  BY DEF DeviceStep, DeviceInterrupt, DeviceInterruptLoading, InLoading
<1> QED BY <1>1, AwaitedFacts

(***************************************************************************)
(* The steps of idle change no state but between READY and RUNNING.        *)
(***************************************************************************)
LEMMA IdleFacts ==
  ASSUME ProcInv, IdleLoop, NEW n \in Pid
  PROVE  /\ state'[n] = state[n] \/ (state[n] \in Awake /\ state'[n] \in Awake)
         /\ UNCHANGED <<timing, ioDone>>
<1>1. CpuTypes /\ TasksSane
  BY TypeParts DEF ProcInv
<1>2. UNCHANGED <<timing, ioDone>>
  BY DEF IdleLoop, IdlePick, IdleDemote, IdleSwitch, IdleLoad
<1>3. CASE UNCHANGED cpu
  BY <1>2, <1>3 DEF cpu
<1>4. CASE Switches(state)
  BY <1>2, <1>4, SwitchKeeps
<1>5. CASE Switches([state EXCEPT ![Idle] = "READY"])
  <2> DEFINE st == [state EXCEPT ![Idle] = "READY"]
  <2>1. /\ st[Idle] = "READY" /\ state[Idle] \in Awake
        /\ n # Idle => st[n] = state[n]
    BY <1>1, PidFacts DEF CpuTypes, TasksSane
  <2>2. Switches(st)
    BY <1>5
  <2> HIDE DEF st
  <2> QED BY <1>2, <2>1, <2>2, SwitchKeeps DEF Awake
<1> QED BY <1>3, <1>4, <1>5, IdleLoopKeeps

(***************************************************************************)
(* The steps that change the state of task n, other than between READY and *)
(* RUNNING, and what they change it to.                                    *)
(***************************************************************************)
Awakened(n) ==
  \/ state[n] = "FREE" /\ Fork(current)
  \/ state[n] \in {"WAITING", "SLEEPING"} /\ Kill(current, n)
  \/ state[n] = "WAITING" /\ waitpid[n] = current /\ ExitAdopt(current)
  \/ n \in Due("task_wakeup") /\ TickStep
  \/ DeviceStep(n)

Suspends(n) ==
  \/ state'[n] = "SLEEPING" /\ \E d \in Durations : Sleep(n, d)
  \/ state'[n] = "WAITING" /\ WaitLoop(n)
  \/ state'[n] = "BLOCKED" /\ (Read(n) \/ ExitWriteBack(n))
  \/ state'[n] = "DEAD" /\ state[n] = "RUNNING" /\ ExitBegin(n)

Reaps(n) ==
  state'[n] = "FREE" /\ state[n] = "DEAD" /\ ppid[n] = current /\ WaitLoop(current)

StateKept(n) == state'[n] = state[n] \/ (state[n] \in Awake /\ state'[n] \in Awake)

(***************************************************************************)
(* A task changes its state in no other way.                               *)
(***************************************************************************)
LEMMA StateChanges ==
  ASSUME ProcInv, Next, NEW n \in Pid
  PROVE  \/ StateKept(n)
         \/ n = current /\ Suspends(n)
         \/ n # current /\ Reaps(n)
         \/ state'[n] \in Awake /\ Awakened(n)
<1>1. CpuTypes /\ TasksSane
  BY TypeParts DEF ProcInv
<1>2. ASSUME NEW st \in [Pid -> TaskState], Reschedule(st),
             st[Idle] \in Awake, \A m \in Pid \ {Idle} : st[m] = "RUNNING" => m = current
      PROVE  /\ st[n] \notin Awake => state'[n] = st[n]
             /\ st[n] \in Awake => state'[n] \in Awake
  BY <1>1, <1>2, RescheduleEffect DEF CpuTypes
<1>3. ASSUME NEW s \in {"BLOCKED", "SLEEPING", "WAITING"}, current # Idle,
             Reschedule([state EXCEPT ![current] = s])
      PROVE  StateKept(n) \/ (n = current /\ state'[n] = s)
  <2> DEFINE st == [state EXCEPT ![current] = s]
  <2>1. /\ st \in [Pid -> TaskState] /\ st[Idle] \in Awake /\ st[current] = s
        /\ \A m \in Pid : m # current => st[m] = state[m]
    BY <1>1, <1>3, PidFacts DEF CpuTypes, TaskState, TasksSane
  <2>2. \A m \in Pid \ {Idle} : st[m] = "RUNNING" => m = current
    BY <1>1, <2>1 DEF TasksSane
  <2>3. Reschedule(st)
    BY <1>3
  <2> HIDE DEF st
  <2>4. /\ st[n] \notin Awake => state'[n] = st[n]
        /\ st[n] \in Awake => state'[n] \in Awake
    BY <1>2, <2>1, <2>2, <2>3
  <2> QED BY <2>1, <2>4 DEF StateKept, Awake
<1>4. ASSUME NEW t \in Pid, current = t, Syscall(t) \/ KernelStep(t)
      PROVE  \/ StateKept(n)
             \/ n = t /\ Suspends(n)
             \/ n # t /\ Reaps(n)
             \/ state'[n] \in Awake /\ Awakened(n)
  <2>1. CASE \/ Waitpid(t) \/ CatchSignal(t) \/ Setsid(t) \/ ReadEnd(t) \/ Exit(t)
             \/ ExitRelease(t) \/ Iret(t) \/ ForkTableFull(t) \/ ExitNotify(t)
             \/ Beep(t)
    <3>1. state' = state
      BY <2>1 DEF Waitpid, CatchSignal, Setsid, ReadEnd, Exit, ExitRelease, Iret,
         ForkTableFull, ExitNotify, Beep, cpu
    <3> QED BY <3>1 DEF StateKept
  <2>2. CASE Fork(t)
    <3>1. Min(FreeSlots) \in FreeSlots
      BY <2>2, PidFacts, MinExists DEF Fork, FreeSlots
    <3>2. state' = [state EXCEPT ![Min(FreeSlots)] = "READY"]
      BY <2>2 DEF Fork
    <3>3. CASE n = Min(FreeSlots)
      BY <1>1, <1>4, <2>2, <3>1, <3>2, <3>3
         DEF FreeSlots, Awakened, Awake, CpuTypes
    <3>4. CASE n # Min(FreeSlots)
      BY <1>1, <3>2, <3>4 DEF StateKept, CpuTypes
    <3> QED BY <3>3, <3>4
  <2>3. CASE ExitBegin(t)
    BY <1>1, <1>4, <2>3 DEF ExitBegin, Suspends, StateKept, CpuTypes
  <2>4. CASE \E p \in Pid : Kill(t, p)
    <3>1. PICK p \in Pid : Kill(t, p)
      BY <2>4
    <3>2. state' = [state EXCEPT ![p] = IF state[p] \in {"WAITING", "SLEEPING"}
                                        THEN "READY" ELSE state[p]]
      BY <3>1 DEF Kill, KillWakes
    <3> QED BY <1>1, <1>4, <3>1, <3>2 DEF Awakened, StateKept, Awake, CpuTypes
  <2>5. CASE Yield(t)
    <3>1. Reschedule(state)
      BY <2>5 DEF Yield
    <3>2. /\ state[n] \notin Awake => state'[n] = state[n]
          /\ state[n] \in Awake => state'[n] \in Awake
      BY <1>1, <1>2, <3>1 DEF CpuTypes, TasksSane
    <3> QED BY <3>2 DEF StateKept
  <2>6. CASE Read(t) \/ ExitWriteBack(t)
    <3>1. Reschedule([state EXCEPT ![t] = "BLOCKED"])
      BY <2>6 DEF Read, ExitWriteBack
    <3>2. t # Idle
      BY <1>1, <2>6 DEF Read, Calling, ExitWriteBack, AfterRelease, TasksSane
    <3> QED BY <1>3, <1>4, <2>6, <3>1, <3>2 DEF Suspends
  <2>7. CASE \E d \in Durations : Sleep(t, d)
    <3>1. Reschedule([state EXCEPT ![t] = "SLEEPING"]) /\ t # Idle
      BY <2>7 DEF Sleep, Calling
    <3> QED BY <1>3, <1>4, <2>7, <3>1 DEF Suspends
  <2>8. CASE WaitLoop(t)
    <3>0. t # Idle /\ state[t] \in Awake
      BY <1>4, <2>8, CurrentFacts DEF WaitLoop, Dying
    <3>1. CASE Children(t) = {}
      BY <2>8, <3>1 DEF StateKept, WaitLoop, cpu
    <3>2. CASE Children(t) # {} /\ state[Min(Children(t))] = "DEAD"
      <4>1. /\ state' = [state EXCEPT ![Min(Children(t))] = "FREE"]
            /\ Min(Children(t)) \in Pid /\ ppid[Min(Children(t))] = t
        BY <2>8, <3>2, FirstChild DEF WaitLoop
      <4>2. CASE n = Min(Children(t))
        BY <1>1, <1>4, <2>8, <3>0, <3>2, <4>1, <4>2 DEF Reaps, CpuTypes, Awake
      <4>3. CASE n # Min(Children(t))
        BY <1>1, <4>1, <4>3 DEF StateKept, CpuTypes
      <4> QED BY <4>2, <4>3
    <3>3. CASE Children(t) # {} /\ state[Min(Children(t))] # "DEAD"
      <4>1. Reschedule([state EXCEPT ![t] = "WAITING"])
        BY <2>8, <3>3 DEF WaitLoop
      <4> QED BY <1>3, <1>4, <2>8, <3>0, <4>1 DEF Suspends
    <3> QED BY <3>1, <3>2, <3>3
  <2>9. CASE ExitAdopt(t)
    <3> DEFINE st == [m \in Pid |-> IF m \in Waiting(t) /\ state[m] = "WAITING"
                                    THEN "READY" ELSE state[m]]
    <3>1. /\ Reschedule(st) /\ st \in [Pid -> TaskState]
          /\ \A m \in Pid : st[m] = IF m \in Waiting(t) /\ state[m] = "WAITING"
                                     THEN "READY" ELSE state[m]
      BY <1>1, <2>9 DEF ExitAdopt, CpuTypes, TaskState
    <3> HIDE DEF st
    <3>2. st[Idle] \in Awake /\ \A m \in Pid \ {Idle} : st[m] = "RUNNING" => m = current
      BY <1>1, <3>1, PidFacts DEF TasksSane, Awake
    <3>3. /\ st[n] \notin Awake => state'[n] = st[n]
          /\ st[n] \in Awake => state'[n] \in Awake
      BY <1>2, <3>1, <3>2
    <3>4. CASE n \in Waiting(t) /\ state[n] = "WAITING"
      BY <1>4, <2>9, <3>1, <3>3, <3>4 DEF Awakened, Waiting, Awake
    <3>5. CASE ~ (n \in Waiting(t) /\ state[n] = "WAITING")
      BY <3>1, <3>3, <3>5 DEF StateKept
    <3> QED BY <3>4, <3>5
  <2> QED BY <1>4, <2>1, <2>2, <2>3, <2>4, <2>5, <2>6, <2>7, <2>8, <2>9
          DEF Syscall, KernelStep
<1>5. ASSUME TickStep
      PROVE  StateKept(n) \/ (state'[n] \in Awake /\ Awakened(n))
  <2>1. Switches(Woken)
    BY <1>5, TickFacts
  <2>2. /\ Woken[n] \notin Awake => state'[n] = Woken[n]
        /\ Woken[n] \in Awake => state'[n] \in Awake
    BY <2>1, SwitchKeeps
  <2> QED BY <1>5, <2>2 DEF StateKept, Awakened, Woken, Awake
<1>6. ASSUME NEW t \in Pid, DeviceStep(t)
      PROVE  StateKept(n) \/ (state'[n] \in Awake /\ Awakened(n))
  <2>1. state' = [state EXCEPT ![t] = "READY"]
    BY <1>6, DeviceFacts
  <2> QED BY <1>1, <1>6, <2>1 DEF StateKept, Awakened, Awake, CpuTypes
<1>7. ASSUME IdleLoop PROVE StateKept(n)
  BY <1>7, IdleFacts DEF StateKept
<1> QED BY <1>4, <1>5, <1>6, <1>7, NextParts DEF Inside, Outside

(***************************************************************************)
(* What a step leaves of a task other than current: its place in the code, *)
(* its parent unless that is exiting, the child it asked for, and whether  *)
(* its device has answered unless that is what happens.  A free slot may   *)
(* be taken by fork.                                                       *)
(***************************************************************************)
LEMMA OthersKept ==
  ASSUME ProcInv, Next, NEW n \in Pid, n # current
  PROVE  \/ /\ pc'[n] = pc[n] /\ arg'[n] = arg[n]
            /\ ppid'[n] = ppid[n] \/ (ExitAdopt(current) /\ ppid[n] = current)
            /\ ioDone'[n] = ioDone[n] \/ (DeviceStep(n) /\ ioDone'[n] = TRUE)
         \/ /\ Fork(current) /\ state[n] = "FREE" /\ n = Min(FreeSlots)
            /\ pc'[n] = "iret" /\ arg'[n] = 0 /\ ppid'[n] = current
<1>1. CpuTypes /\ FamilyTypes /\ OtherTypes /\ current \in Pid
  BY TypeParts DEF ProcInv, CpuTypes
<1> DEFINE Same == /\ pc'[n] = pc[n] /\ arg'[n] = arg[n]
                   /\ ppid'[n] = ppid[n] \/ (ExitAdopt(current) /\ ppid[n] = current)
                   /\ ioDone'[n] = ioDone[n] \/ (DeviceStep(n) /\ ioDone'[n] = TRUE)
<1>2. ASSUME NEW t \in Pid, current = t, Syscall(t) \/ KernelStep(t), ~ Fork(t)
      PROVE  Same
  <2>1. pc'[n] = pc[n]
    BY <1>1, <1>2 DEF Syscall, KernelStep, ForkTableFull, Waitpid, Yield, Read,
       CatchSignal, Setsid, Exit, Sleep, Beep, Kill, WaitLoop, ReadEnd, Iret, ExitBegin,
       ExitRelease, ExitWriteBack, ExitNotify, ExitAdopt, Goto, CpuTypes
  <2>2. arg'[n] = arg[n]
    BY <1>1, <1>2 DEF Syscall, KernelStep, ForkTableFull, Waitpid, Yield, Read,
       CatchSignal, Setsid, Exit, Sleep, Beep, Kill, WaitLoop, ReadEnd, Iret, ExitBegin,
       ExitRelease, ExitWriteBack, ExitNotify, ExitAdopt, family, FamilyTypes
  <2>3. ppid'[n] = ppid[n] \/ (ExitAdopt(t) /\ ppid[n] = t)
    <3>1. CASE ExitAdopt(t)
      BY <3>1 DEF ExitAdopt, Adopted
    <3>2. CASE ~ ExitAdopt(t)
      BY <1>2, <3>2 DEF Syscall, KernelStep, ForkTableFull, Waitpid, Yield, Read,
         CatchSignal, Setsid, Exit, Sleep, Beep, Kill, WaitLoop, ReadEnd, Iret, ExitBegin,
         ExitRelease, ExitWriteBack, ExitNotify, family
    <3> QED BY <3>1, <3>2
  <2>4. ioDone'[n] = ioDone[n]
    BY <1>1, <1>2 DEF Syscall, KernelStep, ForkTableFull, Waitpid, Yield, Read,
       CatchSignal, Setsid, Exit, Sleep, Beep, Kill, WaitLoop, ReadEnd, Iret, ExitBegin,
       ExitRelease, ExitWriteBack, ExitNotify, ExitAdopt, OtherTypes
  <2> QED BY <1>2, <2>1, <2>2, <2>3, <2>4
<1>3. CASE Fork(current)
  <2>1. PICK child \in Pid : child = Min(FreeSlots) /\ state[child] = "FREE"
    <3>1. FreeSlots \in SUBSET Nat /\ FreeSlots # {}
      BY <1>3, PidFacts DEF FreeSlots, Fork
    <3>2. Min(FreeSlots) \in FreeSlots
      BY <3>1, MinExists
    <3> QED BY <3>2 DEF FreeSlots
  <2>2. /\ pc' = [pc EXCEPT ![current] = "iret", ![child] = "iret"]
        /\ ppid' = [ppid EXCEPT ![child] = current]
        /\ arg' = [arg EXCEPT ![current] = child, ![child] = 0]
        /\ ioDone' = [ioDone EXCEPT ![child] = FALSE]
    BY <1>3, <2>1 DEF Fork
  <2>3. CASE n = child
    BY <1>1, <1>3, <2>1, <2>2, <2>3 DEF CpuTypes, FamilyTypes
  <2>4. CASE n # child
    BY <1>1, <2>2, <2>4 DEF CpuTypes, FamilyTypes, OtherTypes, idling
  <2> QED BY <2>3, <2>4
<1>4. ASSUME Outside
      PROVE  pc'[n] = pc[n] /\ arg'[n] = arg[n] /\ ppid'[n] = ppid[n]
  BY <1>1, <1>4, OutsideFrame DEF CpuTypes, family
<1>5. ASSUME Outside
      PROVE  ioDone'[n] = ioDone[n] \/ (DeviceStep(n) /\ ioDone'[n] = TRUE)
  <2>1. CASE TickStep
    BY <2>1, TickFacts
  <2>2. CASE \E t \in Pid : DeviceStep(t)
    <3>1. PICK t \in Pid : DeviceStep(t)
      BY <2>2
    <3>2. ioDone' = [ioDone EXCEPT ![t] = TRUE]
      BY <3>1, DeviceFacts
    <3>3. ioDone'[n] = ioDone[n] \/ (n = t /\ ioDone'[n] = TRUE)
      BY <1>1, <3>2 DEF OtherTypes
    <3> QED BY <3>1, <3>3
  <2>3. CASE IdleLoop
    BY <2>3, IdleFacts
  <2> QED BY <1>5, <2>1, <2>2, <2>3 DEF Outside
<1>6. CASE Outside
  BY <1>4, <1>5, <1>6
<1>7. CASE \E t \in Pid : Inside(t)
  BY <1>2, <1>3, <1>7 DEF Inside
<1> QED BY <1>6, <1>7, NextParts

-----------------------------------------------------------------------------
(* Sleepers and their timers. *)

NoNewSleeper == \A n \in Pid : state'[n] = "SLEEPING" => state[n] = "SLEEPING"

(***************************************************************************)
(* Only sys_sleep puts a task to sleep.                                    *)
(***************************************************************************)
LEMMA OnlySleepSleeps ==
  ASSUME ProcInv, Next
  PROVE  \A n \in Pid : state'[n] = "SLEEPING" =>
           \/ state[n] = "SLEEPING"
           \/ n = current /\ \E d \in Durations : Sleep(n, d)
  BY StateChanges DEF StateKept, Suspends, Reaps, Awake

(***************************************************************************)
(* The parts of TimersNeeded: each sleeper's timer, and the speaker's.     *)
(***************************************************************************)
SleepTimers ==
  \A n \in Pid : state[n] = "SLEEPING" =>
    \E i \in DOMAIN timers : timers[i].task = n /\ timers[i].handler = "task_wakeup"

OneStop ==
  \A i, j \in DOMAIN timers :
    timers[i].handler = "stop_beep" /\ timers[j].handler = "stop_beep" => i = j

StopWhileBeeping ==
  \A i \in DOMAIN timers : timers[i].handler = "stop_beep" => beeping

(***************************************************************************)
(* Every step leaves a sleeper its timer and the speaker one at most.      *)
(***************************************************************************)
LEMMA NeededStep == ProcInv /\ TimersNeeded /\ [Next]_vars => TimersNeeded'
<1> SUFFICES ASSUME ProcInv, TimersNeeded, [Next]_vars PROVE TimersNeeded'
  OBVIOUS
<1>1. /\ CpuTypes /\ OtherTypes /\ TypeOK /\ TimersKnown /\ timers \in Seq(Timer)
      /\ Sorted(timers) /\ SleepTimers /\ OneStop /\ StopWhileBeeping
  BY TypeParts DEF ProcInv, TimersKnown, TimersNeeded, SleepTimers, OneStop,
     StopWhileBeeping
<1>2. SUFFICES SleepTimers' /\ OneStop' /\ StopWhileBeeping'
  BY DEF TimersNeeded, SleepTimers, OneStop, StopWhileBeeping
<1>3. ASSUME UNCHANGED <<timers, beeping>>, NoNewSleeper
      PROVE  SleepTimers' /\ OneStop' /\ StopWhileBeeping'
  BY <1>1, <1>3 DEF SleepTimers, OneStop, StopWhileBeeping, NoNewSleeper
<1>4. ASSUME NEW timer \in Timer, timers' = InsertSorted(timers, timer),
             \/ timer.handler = "task_wakeup" /\ UNCHANGED beeping
             \/ ~ beeping /\ beeping' = TRUE
      PROVE  /\ OneStop' /\ StopWhileBeeping'
             /\ \A n \in Pid : state[n] = "SLEEPING" =>
                  \E k \in DOMAIN timers' :
                    timers'[k].task = n /\ timers'[k].handler = "task_wakeup"
             /\ \E at \in DOMAIN timers' : timers'[at] = timer
  <2>1. PICK at \in DOMAIN timers' :
          /\ timers'[at] = timer
          /\ \A k \in DOMAIN timers' \ {at} :
               \E i \in DOMAIN timers : timers'[k] = timers[i]
          /\ \A i \in DOMAIN timers : \E k \in DOMAIN timers' : timers'[k] = timers[i]
          /\ \A k, l \in DOMAIN timers' \ {at} : k # l =>
               \E i, j \in DOMAIN timers :
                 i # j /\ timers'[k] = timers[i] /\ timers'[l] = timers[j]
    <3> DEFINE new == InsertSorted(timers, timer)
    <3>1. \E at \in DOMAIN new :
            /\ new[at] = timer
            /\ \A k \in DOMAIN new \ {at} : \E i \in DOMAIN timers : new[k] = timers[i]
            /\ \A i \in DOMAIN timers : \E k \in DOMAIN new : new[k] = timers[i]
            /\ \A k, l \in DOMAIN new \ {at} : k # l =>
                 \E i, j \in DOMAIN timers :
                   i # j /\ new[k] = timers[i] /\ new[l] = timers[j]
      BY <1>1, <1>4, InsertSortedKeeps, ZenonT(60)
    <3>2. timers' = new
      BY <1>4
    <3> HIDE DEF new
    <3> QED BY <3>1, <3>2
  <2>2. /\ \A k \in DOMAIN timers' \ {at} :
             timers'[k].handler = "stop_beep" => beeping
        /\ \A k, l \in DOMAIN timers' \ {at} :
             timers'[k].handler = "stop_beep" /\ timers'[l].handler = "stop_beep" => k = l
    BY <1>1, <2>1 DEF OneStop, StopWhileBeeping
  <2>3. CASE timer.handler = "task_wakeup" /\ UNCHANGED beeping
    <3>1. timers'[at].handler # "stop_beep"
      BY <2>1, <2>3
    <3>2. OneStop'
      BY <2>2, <3>1 DEF OneStop
    <3>3. StopWhileBeeping'
      BY <2>2, <2>3, <3>1 DEF StopWhileBeeping
    <3> QED BY <1>1, <2>1, <3>2, <3>3 DEF SleepTimers
  <2>4. CASE ~ beeping /\ beeping' = TRUE
    <3>1. \A k \in DOMAIN timers' \ {at} : timers'[k].handler # "stop_beep"
      BY <2>2, <2>4
    <3>2. OneStop' /\ StopWhileBeeping'
      BY <2>4, <3>1 DEF OneStop, StopWhileBeeping
    <3> QED BY <1>1, <2>1, <3>2 DEF SleepTimers
  <2> QED BY <1>4, <2>3, <2>4
<1>5. CASE Next /\ \E t \in Pid, d \in Durations : current = t /\ Sleep(t, d)
  <2>1. PICK t \in Pid, d \in Durations : current = t /\ Sleep(t, d)
    BY <1>5
  <2> DEFINE timer == [task |-> t, left |-> d, handler |-> "task_wakeup"]
  <2>2. /\ timer \in Timer /\ timers' = InsertSorted(timers, timer)
        /\ UNCHANGED beeping /\ timer.handler = "task_wakeup" /\ timer.task = t
    BY <2>1, DurationsAssumption DEF Sleep, Timer
  <2> HIDE DEF timer
  <2>5. \A n \in Pid : state'[n] = "SLEEPING" => n = t \/ state[n] = "SLEEPING"
    BY <1>5, <2>1, OnlySleepSleeps
  <2>6. /\ OneStop' /\ StopWhileBeeping'
        /\ \A n \in Pid : state[n] = "SLEEPING" =>
             \E k \in DOMAIN timers' :
               timers'[k].task = n /\ timers'[k].handler = "task_wakeup"
        /\ \E at \in DOMAIN timers' : timers'[at] = timer
    BY <1>4, <2>2
  <2>7. SleepTimers'
    BY <2>2, <2>5, <2>6 DEF SleepTimers
  <2> QED BY <2>6, <2>7
<1>6. CASE \E t \in Pid : current = t /\ Beep(t)
  <2>1. PICK t \in Pid : current = t /\ Beep(t)
    BY <1>6
  <2> DEFINE timer == [task |-> t, left |-> BeepLast, handler |-> "stop_beep"]
  <2>2. /\ timer \in Timer /\ timers' = InsertSorted(timers, timer)
        /\ ~ beeping /\ beeping' = TRUE /\ state' = state
    BY <2>1, DurationsAssumption DEF Beep, Timer, cpu
  <2> HIDE DEF timer
  <2> QED BY <1>4, <2>2 DEF SleepTimers
<1>7. CASE \E t \in Pid : current = t /\ ExitNotify(t)
  <2>1. PICK t \in Pid : current = t /\ ExitNotify(t)
    BY <1>7
  <2>2. timers' = RemoveTimers(t) /\ state' = state /\ beeping' = beeping
    BY <2>1 DEF ExitNotify, cpu
  <2>3. state[t] # "SLEEPING"
    BY <2>1 DEF ProcInv, TasksSane, Awake
  <2>4. PICK place :
             /\ Derived(timers', place)
             /\ \A i \in DOMAIN timers : timers[i].task # t =>
                  \E k \in DOMAIN timers' : place[k] = i
    <3>1. \E place :
             /\ Derived(RemoveTimers(t), place)
             /\ \A i \in DOMAIN timers : timers[i].task # t =>
                  \E k \in DOMAIN RemoveTimers(t) : place[k] = i
      BY <1>1, RemoveKeeps, Zenon
    <3> QED BY <2>2, <3>1
  <2>5. OneStop' /\ StopWhileBeeping'
    BY <1>1, <2>2, <2>4 DEF OneStop, StopWhileBeeping, Derived
  <2>6. SleepTimers'
    <3> SUFFICES ASSUME NEW n \in Pid, state[n] = "SLEEPING"
                 PROVE  \E k \in DOMAIN timers' :
                          timers'[k].task = n /\ timers'[k].handler = "task_wakeup"
      BY <2>2 DEF SleepTimers
    <3>1. PICK i \in DOMAIN timers : timers[i].task = n /\ timers[i].handler = "task_wakeup"
      BY <1>1 DEF SleepTimers
    <3>2. PICK k \in DOMAIN timers' : place[k] = i
      BY <2>3, <2>4, <3>1
    <3> QED BY <2>4, <3>1, <3>2 DEF Derived
  <2> QED BY <2>5, <2>6
<1>8. CASE TickStep
  <2>2. timers' = Ticked /\ beeping' = (beeping /\ Due("stop_beep") = {})
    BY <1>8, TickFacts DEF TimerWakeup
  <2>3. PICK place :
             /\ Derived(timers', place)
             /\ \A k \in DOMAIN timers' : place[k] > Expired
             /\ \A i \in DOMAIN timers : i > Expired =>
                  \E k \in DOMAIN timers' : place[k] = i
    <3>1. \E place :
             /\ Derived(Ticked, place)
             /\ \A k \in DOMAIN Ticked : place[k] > Expired
             /\ \A i \in DOMAIN timers : i > Expired =>
                  \E k \in DOMAIN Ticked : place[k] = i
      BY <1>1, TickKeeps, Zenon
    <3> QED BY <2>2, <3>1
  <2>4. OneStop'
    BY <1>1, <2>3 DEF OneStop, Derived
  <2>5. Expired \in 0 .. Len(timers) /\ DOMAIN timers = 1 .. Len(timers) /\ Len(timers) \in Nat
    BY <1>1, ExpiredPrefix
  <2>6. StopWhileBeeping'
    <3> SUFFICES ASSUME NEW k \in DOMAIN timers', timers'[k].handler = "stop_beep"
                 PROVE  beeping'
      BY DEF StopWhileBeeping
    <3>1. place[k] \in DOMAIN timers /\ timers[place[k]].handler = "stop_beep"
          /\ place[k] > Expired
      BY <2>3 DEF Derived
    <3>2. beeping
      BY <1>1, <3>1 DEF StopWhileBeeping
    <3>3. ASSUME NEW i \in 1 .. Expired, timers[i].handler = "stop_beep" PROVE FALSE
      <4>1. i \in DOMAIN timers /\ i # place[k]
        BY <2>5, <3>1
      <4> QED BY <1>1, <3>1, <3>3, <4>1 DEF OneStop
    <3>4. Due("stop_beep") = {}
      BY <3>3 DEF Due
    <3> QED BY <2>2, <3>2, <3>4
  <2>7. SleepTimers'
    <3> SUFFICES ASSUME NEW n \in Pid, state'[n] = "SLEEPING"
                 PROVE  \E k \in DOMAIN timers' :
                          timers'[k].task = n /\ timers'[k].handler = "task_wakeup"
      BY DEF SleepTimers
    <3>1. Woken[n] = "SLEEPING"
      BY <1>8, TickFacts, SwitchKeeps DEF Awake
    <3>2. n \notin Due("task_wakeup") /\ state[n] = "SLEEPING"
      BY <3>1 DEF Woken
    <3>3. PICK i \in DOMAIN timers : timers[i].task = n /\ timers[i].handler = "task_wakeup"
      BY <1>1, <3>2 DEF SleepTimers
    <3>4. i \notin 1 .. Expired
      BY <3>2, <3>3 DEF Due
    <3>5. i > Expired
      BY <2>5, <3>4
    <3>6. PICK k \in DOMAIN timers' : place[k] = i
      BY <2>3, <3>5
    <3> QED BY <2>3, <3>3, <3>6 DEF Derived
  <2> QED BY <2>4, <2>6, <2>7
<1>9. CASE UNCHANGED vars
  BY <1>3, <1>9 DEF vars, timing, cpu, NoNewSleeper
<1>10. CASE NoNewSleeper /\ UNCHANGED <<timers, beeping>>
  BY <1>3, <1>10
<1>11. ASSUME Next
       PROVE  \/ UNCHANGED <<timers, beeping>>
              \/ \E t \in Pid, d \in Durations : current = t /\ Sleep(t, d)
              \/ \E t \in Pid : current = t /\ Beep(t)
              \/ \E t \in Pid : current = t /\ ExitNotify(t)
              \/ TickStep
  <2>1. CASE \E t \in Pid : Inside(t)
    BY <2>1, ZenonT(60) DEF Inside, Syscall, KernelStep, Fork, ForkTableFull, Waitpid,
       Yield, Read, CatchSignal, Setsid, Exit, Kill, WaitLoop, ReadEnd, Iret, ExitBegin,
       ExitRelease, ExitWriteBack, ExitAdopt, timing
  <2>2. CASE Outside
    BY <2>2, DeviceFacts, IdleFacts, PidFacts DEF Outside, timing
  <2> QED BY <1>11, <2>1, <2>2, NextParts
<1>12. ASSUME Next
       PROVE  NoNewSleeper \/ \E t \in Pid, d \in Durations : current = t /\ Sleep(t, d)
  BY <1>12, OnlySleepSleeps DEF NoNewSleeper
<1> QED BY <1>5, <1>6, <1>7, <1>8, <1>9, <1>10, <1>11, <1>12

(***************************************************************************)
(* A sleeping task has its timer, on a sorted list whose timers all belong *)
(* to tasks that have not ended: no exit, no insertion and no expiry takes *)
(* away a timer that is still needed.  The speaker has one at most.        *)
(***************************************************************************)
THEOREM ProcessSleepersHaveTimers == Spec => []SleepersHaveTimers
<1>1. Init => TimersNeeded
  BY DEF Init, TimersNeeded
<1>2. ProcInv /\ TimersNeeded => SleepersHaveTimers
  <2> SUFFICES ASSUME ProcInv, TimersNeeded PROVE SleepersHaveTimers
    OBVIOUS
  <2> DEFINE Stops == {i \in DOMAIN timers : timers[i].handler = "stop_beep"}
  <2>1. /\ \A n \in Pid : state[n] = "SLEEPING" =>
             \E i \in DOMAIN timers :
               timers[i].task = n /\ timers[i].handler = "task_wakeup"
        /\ \A i, j \in DOMAIN timers : i < j => timers[i].left <= timers[j].left
        /\ \A i \in DOMAIN timers :
             state[timers[i].task] # "FREE"
               /\ (state[timers[i].task] = "DEAD" => Exiting(timers[i].task))
    BY DEF TimersNeeded, ProcInv, TimersKnown, Sorted, MayOwnTimer
  <2>2. \A i, j \in Stops : i = j
    BY DEF TimersNeeded
  <2>3. Stops # {} => beeping
    BY DEF TimersNeeded
  <2> HIDE DEF Stops
  <2>4. Cardinality(Stops) <= (IF beeping THEN 1 ELSE 0)
    <3>1. CASE Stops = {}
      <4>1. Cardinality(Stops) = 0
        BY <3>1, FS_EmptySet
      <4> QED BY <4>1
    <3>2. CASE Stops # {}
      <4>1. PICK i : Stops = {i}
        BY <2>2, <3>2
      <4>2. Cardinality(Stops) = 1
        BY <4>1, FS_Singleton
      <4> QED BY <2>3, <3>2, <4>2
    <3> QED BY <3>1, <3>2
  <2> QED BY <2>1, <2>4 DEF SleepersHaveTimers, Stops
<1>3. ProcInv /\ TimersNeeded /\ [Next]_vars => TimersNeeded'
  BY NeededStep
<1> QED BY <1>1, <1>2, <1>3, ProcInvariant, PTL DEF Spec

-----------------------------------------------------------------------------
(* Death. *)

(***************************************************************************)
(* A task that has left sys_exit dead stays so until it is reaped.         *)
(***************************************************************************)
LEMMA DeadStay ==
  ASSUME ProcInv, Next, NEW n \in Pid, state[n] = "DEAD", ~ Exiting(n)
  PROVE  n # current /\ (state'[n] = "DEAD" \/ Reaps(n))
<1>1. TasksSane
  BY DEF ProcInv
<1>2. n # current /\ pc[n] = "iret"
  BY <1>1 DEF TasksSane, Awake, Exiting, Dying
<1>3. CASE StateKept(n)
  BY <1>2, <1>3 DEF StateKept, Awake
<1>4. ASSUME Awakened(n) PROVE FALSE
  <2>1. CASE n \in Due("task_wakeup") /\ TickStep
    BY <2>1, TickFacts, DueFacts
  <2>2. CASE DeviceStep(n)
    BY <2>2, DeviceFacts
  <2> QED BY <1>4, <2>1, <2>2 DEF Awakened
<1> QED BY <1>2, <1>3, <1>4, StateChanges

(***************************************************************************)
(* A process that has left sys_exit dead stays dead until its parent reaps *)
(* it: the PCB that sys_exit keeps for the parent is run by no wakeup,     *)
(* signal, timer or device, although one that slept in sys_exit came back. *)
(***************************************************************************)
THEOREM ProcessZombieUntilReaped == Spec => ZombieUntilReaped
<1>1. ProcInv /\ [Next]_vars =>
        [\A n \in Pid : state[n] = "DEAD" /\ ~ Exiting(n)
                         => state'[n] \in {"DEAD", "FREE"}]_vars
  BY DeadStay DEF Reaps
<1> QED BY <1>1, ProcInvariant, PTL DEF Spec, ZombieUntilReaped

(***************************************************************************)
(* Only a task that is dead leaves sys_exit, at its end.                   *)
(***************************************************************************)
LEMMA ExitLeft ==
  ASSUME ProcInv, Next, Exiting(current),
         pc'[current] \notin {"exit", "iput", "notify", "close", "adopt"}
  PROVE  ExitAdopt(current) /\ state[current] = "DEAD"
<1>1. CpuTypes /\ current \in Pid
  BY TypeParts DEF ProcInv, CpuTypes
<1>2. CASE Outside
  BY <1>1, <1>2, OutsideFrame DEF Exiting, CpuTypes
<1>3. ASSUME NEW t \in Pid, Inside(t) PROVE ExitAdopt(t) /\ state[t] = "DEAD"
  <2>1. current = t /\ pc[t] \in {"exit", "iput", "notify", "close", "adopt"}
    BY <1>3 DEF Inside, Exiting
  <2>2. ~ Syscall(t)
    BY <2>1 DEF Syscall, Fork, ForkTableFull, Waitpid, Yield, Read, CatchSignal, Setsid,
       Exit, Sleep, Beep, Kill, Calling
  <2>3. ~ (WaitLoop(t) \/ ReadEnd(t) \/ Iret(t))
    BY <2>1 DEF WaitLoop, ReadEnd, Iret
  <2>4. ~ ExitBegin(t)
    BY <1>1, <2>1 DEF ExitBegin, Goto, CpuTypes
  <2>5. ~ (ExitRelease(t) \/ ExitWriteBack(t))
    BY <1>1, <2>1 DEF ExitRelease, ExitWriteBack, AfterRelease, Goto, CpuTypes
  <2>6. ~ ExitNotify(t)
    BY <1>1, <2>1 DEF ExitNotify, Goto, CpuTypes
  <2>7. ExitAdopt(t)
    BY <1>3, <2>2, <2>3, <2>4, <2>5, <2>6 DEF Inside, KernelStep
  <2> QED BY <1>1, <2>1, <2>7 DEF ExitAdopt, Goto, CpuTypes
<1> QED BY <1>2, <1>3, NextParts DEF Inside

(***************************************************************************)
(* Parents change at the end of sys_exit and in sys_fork only.             *)
(***************************************************************************)
LEMMA ParentsKept ==
  ASSUME ProcInv, Next, ~ ExitAdopt(current), ~ Fork(current)
  PROVE  ppid' = ppid
<1>1. CASE Outside
  BY <1>1, OutsideFrame DEF family
<1>2. CASE \E t \in Pid : Inside(t)
  BY <1>2, ZenonT(60) DEF Inside, Syscall, KernelStep, ForkTableFull, Waitpid, Yield,
     Read, CatchSignal, Setsid, Exit, Sleep, Beep, Kill, WaitLoop, ReadEnd, Iret,
     ExitBegin, ExitRelease, ExitWriteBack, ExitNotify, family
<1> QED BY <1>1, <1>2, NextParts

(***************************************************************************)
(* schedule() does not end a wait.                                         *)
(***************************************************************************)
LEMMA SwitchedStates ==
  ASSUME CpuTypes, NEW st \in [Pid -> TaskState], Reschedule(st),
         NEW n \in Pid \ {Idle}, NEW s \in TaskState \ Awake
  PROVE  state'[n] = s <=> st[n] = s
<1>1. {"READY", "RUNNING"} \subseteq TaskState /\ Awake = {"READY", "RUNNING"}
  BY DEF TaskState, Awake
<1>2. current \in Pid /\ state' = AfterSchedule(st, current)
  BY DEF CpuTypes, Reschedule
<1> QED BY <1>1, <1>2, ScheduleKeeps

(***************************************************************************)
(* Who is dead at the end of sys_exit is dead after it.                    *)
(***************************************************************************)
LEMMA AdoptStaysDead ==
  ASSUME ProcInv, ExitAdopt(current), state[current] = "DEAD"
  PROVE  state'[current] = "DEAD"
<1>1. CpuTypes /\ current \in Pid /\ current # Idle
  BY TypeParts DEF ProcInv, CpuTypes, TasksSane, Awake
<1> DEFINE st == [n \in Pid |-> IF n \in Waiting(current) /\ state[n] = "WAITING"
                                THEN "READY" ELSE state[n]]
<1>2. Reschedule(st) /\ st \in [Pid -> TaskState] /\ st[current] = "DEAD"
  BY <1>1 DEF ExitAdopt, CpuTypes, TaskState
<1>3. "DEAD" \in TaskState \ Awake
  BY DEF TaskState, Awake
<1> HIDE DEF st
<1> QED BY <1>1, <1>2, <1>3, SwitchedStates

(***************************************************************************)
(* The child that a living task remembers from fork is its own: reaping    *)
(* forgets it and an exit hands over only the children of a dead task.     *)
(***************************************************************************)
LEMMA ForkedStep ==
  ASSUME ProcInv, ForkedIsChild, Next
  PROVE  ForkedIsChild'
<1>1. /\ CpuTypes /\ FamilyTypes /\ TasksSane /\ FamilyTree /\ current \in Pid
      /\ CpuTypes' /\ TasksSane' /\ InitLives /\ state[current] # "FREE"
  BY ProcStep, TypeParts, CurrentFacts DEF ProcInv
<1>4. ASSUME NEW n \in Pid, state'[n] \notin {"FREE", "DEAD"}, ~ Exiting(n)', arg'[n] # 0
      PROVE  arg'[n] >= 2 /\ state'[arg'[n]] # "FREE" /\ ppid'[arg'[n]] = n
  <2>0. state[n] # "DEAD" /\ ~ Exiting(n)
    <3>1. ASSUME Exiting(n), n = current PROVE FALSE
      BY <1>4, <3>1, ExitLeft, AdoptStaysDead DEF Exiting
    <3>2. ASSUME Exiting(n), n # current PROVE FALSE
      BY <1>1, <1>4, <3>2, OthersKept DEF Exiting, TasksSane
    <3>3. ~ Exiting(n)
      BY <3>1, <3>2
    <3> QED BY <1>4, <3>3, DeadStay DEF Reaps
  <2>1. CASE Fork(current) /\ arg[n] # arg'[n]
    <3>1. PICK child \in Pid : child = Min(FreeSlots) /\ state[child] = "FREE"
      <4>1. FreeSlots \in SUBSET Nat /\ FreeSlots # {}
        BY <2>1, PidFacts DEF FreeSlots, Fork
      <4>2. Min(FreeSlots) \in FreeSlots
        BY <4>1, MinExists
      <4> QED BY <4>2 DEF FreeSlots
    <3>2. /\ arg' = [arg EXCEPT ![current] = child, ![child] = 0]
          /\ ppid' = [ppid EXCEPT ![child] = current]
          /\ state' = [state EXCEPT ![child] = "READY"]
      BY <2>1, <3>1 DEF Fork
    <3>3. n = current /\ arg'[n] = child
      BY <1>1, <1>4, <2>1, <3>1, <3>2 DEF FamilyTypes
    <3>4. child # Idle /\ child # InitPid /\ child \in Nat
      BY <1>1, <3>1, PidFacts DEF TasksSane, InitLives, Awake
    <3> QED BY <1>1, <3>1, <3>2, <3>3, <3>4 DEF CpuTypes, FamilyTypes, Idle, InitPid
  <2>2. ASSUME arg'[n] = arg[n], state[n] # "FREE",
               WaitLoop(current) => n # current
        PROVE  arg'[n] >= 2 /\ state'[arg'[n]] # "FREE" /\ ppid'[arg'[n]] = n
    <3>1. PICK c \in Pid : c = arg[n]
      BY <1>1 DEF FamilyTypes
    <3>2. c >= 2 /\ Exists(c) /\ ppid[c] = n
      BY <1>4, <2>0, <2>2, <3>1 DEF ForkedIsChild
    <3>3. state'[c] # "FREE"
      <4>1. ~ Reaps(c)
        BY <2>2, <3>2 DEF Reaps
      <4> QED BY <3>2, <4>1, StateChanges DEF StateKept, Suspends, Awake, Exists
    <3>4. ppid'[c] = n
      <4>1. CASE c = current
        <5>1. \/ ppid'[c] = ppid[c]
              \/ ExitAdopt(c) /\ ppid[c] = c
              \/ Fork(c) /\ ppid' = [ppid EXCEPT ![Min(FreeSlots)] = c]
          <6>1. CASE ExitAdopt(c)
            BY <6>1 DEF ExitAdopt, Adopted
          <6>2. CASE Fork(c)
            BY <6>2 DEF Fork
          <6>3. CASE ~ ExitAdopt(c) /\ ~ Fork(c)
            <7>1. ppid' = ppid
              BY <4>1, <6>3, ParentsKept
            <7> QED BY <7>1
          <6> QED BY <6>1, <6>2, <6>3
        <5>2. ~ (ExitAdopt(c) /\ ppid[c] = c)
          <6>1. ExitAdopt(c) => Exiting(c)
            BY DEF ExitAdopt, Exiting
          <6> QED BY <2>0, <3>2, <6>1
        <5>3. ASSUME Fork(c), ppid' = [ppid EXCEPT ![Min(FreeSlots)] = c]
              PROVE  ppid'[c] = ppid[c]
          <6>1. Min(FreeSlots) \in FreeSlots
            BY <5>3, PidFacts, MinExists DEF FreeSlots, Fork
          <6> QED BY <1>1, <3>2, <5>3, <6>1 DEF FreeSlots, FamilyTypes, Exists
        <5> QED BY <3>2, <5>1, <5>2, <5>3
      <4>2. CASE c # current
        <5>1. ~ (ExitAdopt(current) /\ ppid[c] = current)
          <6>1. ExitAdopt(current) => Exiting(current)
            BY DEF ExitAdopt, Exiting
          <6> QED BY <2>0, <3>2, <6>1
        <5> QED BY <3>2, <4>2, <5>1, OthersKept DEF Exists
      <4> QED BY <4>1, <4>2
    <3> QED BY <2>2, <3>1, <3>2, <3>3, <3>4
  <2>4. CASE state[n] = "FREE"
    <3>1. n # current
      BY <1>1, <2>4
    <3>2. Fork(current)
      BY <1>4, <2>4, <3>1, StateChanges, DueFacts, DeviceFacts
         DEF StateKept, Suspends, Reaps, Awakened, Awake
    <3>3. arg'[n] = 0
      <4>1. state' = [state EXCEPT ![Min(FreeSlots)] = "READY"]
        BY <3>2 DEF Fork
      <4>2. n = Min(FreeSlots)
        BY <1>1, <1>4, <2>4, <4>1 DEF CpuTypes
      <4>3. arg' = [arg EXCEPT ![current] = n, ![n] = 0]
        BY <3>2, <4>2 DEF Fork
      <4> QED BY <1>1, <4>3 DEF FamilyTypes
    <3> QED BY <1>4, <3>3
  <2>5. CASE state[n] # "FREE" /\ n # current
    BY <2>2, <2>5, OthersKept
  <2>6. CASE n = current /\ ~ Fork(current)
    <3>1. arg'[n] = arg[n] \/ arg'[n] = 0
      <4>1. CASE Outside
        BY <4>1, OutsideFrame DEF family
      <4>2. CASE \E t \in Pid : Inside(t)
        BY <1>1, <2>6, <4>2, ZenonT(60) DEF Inside, Syscall, KernelStep, ForkTableFull,
           Waitpid, Yield, Read, CatchSignal, Setsid, Exit, Sleep, Beep, Kill, WaitLoop,
           ReadEnd, Iret, ExitBegin, ExitRelease, ExitWriteBack, ExitNotify, ExitAdopt,
           family, FamilyTypes
      <4> QED BY <4>1, <4>2, NextParts
    <3>2. CASE WaitLoop(n)
      <4>1. CASE arg' = [arg EXCEPT ![n] = 0]
        BY <1>1, <1>4, <4>1 DEF FamilyTypes
      <4>2. CASE Children(n) # {} /\ state[Min(Children(n))] # "DEAD"
        <5>1. arg' = arg /\ ppid' = ppid /\ Reschedule([state EXCEPT ![n] = "WAITING"])
          BY <3>2, <4>2 DEF WaitLoop
        <5>2. PICK c \in Pid : c = arg[n]
          BY <1>1 DEF FamilyTypes
        <5>3. c >= 2 /\ Exists(c) /\ ppid[c] = n
          BY <1>1, <1>4, <2>0, <2>6, <5>1, <5>2 DEF ForkedIsChild
        <5>4. n # Idle /\ state[n] \in Awake
          BY <2>6, <3>2, CurrentFacts DEF WaitLoop, Dying
        <5>5. state'[c] # "FREE"
          <6> DEFINE st == [state EXCEPT ![n] = "WAITING"]
          <6>1. /\ st \in [Pid -> TaskState] /\ st[Idle] \in Awake /\ st[c] # "FREE"
                /\ \A m \in Pid \ {Idle} : st[m] = "RUNNING" => m = current
            BY <1>1, <5>3, <5>4, PidFacts DEF CpuTypes, TaskState, TasksSane, Exists
          <6>2. Reschedule(st)
            BY <5>1
          <6> HIDE DEF st
          <6> QED BY <1>1, <6>1, <6>2, RescheduleEffect DEF Awake
        <5> QED BY <5>1, <5>2, <5>3, <5>5
      <4> QED BY <3>2, <4>1, <4>2 DEF WaitLoop
    <3>3. CASE ~ WaitLoop(n)
      BY <1>1, <1>4, <2>2, <2>6, <3>1, <3>3
    <3> QED BY <3>2, <3>3
  <2>7. CASE n = current /\ Fork(current) /\ arg[n] = arg'[n]
    <3>1. ~ WaitLoop(current)
      BY <2>7 DEF Fork, Calling, WaitLoop
    <3> QED BY <1>1, <2>2, <2>7, <3>1
  <2> QED BY <2>1, <2>4, <2>5, <2>6, <2>7
<1> QED BY <1>4 DEF ForkedIsChild, Exists, Exiting

(***************************************************************************)
(* The test of the child's state in sys_waitpid and the wakeup at the end  *)
(* of sys_exit do not miss each other.                                     *)
(***************************************************************************)
LEMMA WaitedStep ==
  ASSUME ProcInv, ForkedIsChild, WaitedFirstIsReaped, Next
  PROVE  WaitedFirstIsReaped'
<1>1. /\ CpuTypes /\ FamilyTypes /\ TasksSane /\ current \in Pid /\ InitLives
      /\ TasksSane' /\ ForkedIsChild' /\ Descent /\ FamilyTypes'
      /\ state[current] \notin {"FREE", "WAITING"}
  BY ProcStep, ForkedStep, TypeParts, CurrentFacts
     DEF ProcInv, TasksSane, Awake
<1> SUFFICES ASSUME NEW t \in Pid, NEW c \in Pid, state'[t] = "WAITING", arg'[t] = c,
                    c = Min(Children(t))', state'[c] = "DEAD", ~ Exiting(c)'
             PROVE  FALSE
  BY DEF WaitedFirstIsReaped
<1>2. t # Idle /\ c # Idle /\ c # t /\ ~ Exiting(t)'
  BY <1>1 DEF TasksSane, Awake, Exiting
<1>3. c >= 2 /\ ppid'[c] = t
  BY <1>1, <1>2 DEF ForkedIsChild, Idle
<1>4. \A m \in Pid : m >= 2 /\ state'[m] # "FREE" /\ ppid'[m] = t => c <= m
  <2> DEFINE S == {m \in Pid : m >= 2 /\ state'[m] # "FREE" /\ ppid'[m] = t}
  <2>1. c = Min(S)
    BY DEF Children
  <2>2. S \in SUBSET Nat /\ c \in S
    BY <1>3, PidFacts
  <2> HIDE DEF S
  <2>3. \A m \in S : c <= m
    BY <2>1, <2>2, MinExists
  <2> QED BY <2>3 DEF S
<1>5. CASE state[t] = "WAITING"
  <2>1. t # current
    BY <1>1, <1>5
  <2>2. arg[t] = c
    BY <1>5, <2>1, OthersKept
  <2>3. ppid[c] = t /\ Exists(c)
    BY <1>1, <1>2, <1>5, <2>2 DEF ForkedIsChild, Idle, TasksSane, Exiting
  <2>4. c = Min(Children(t))
    <3>1. ASSUME NEW m \in Children(t) PROVE c <= m
      <4>1. m \in Pid /\ m >= 2 /\ state[m] # "FREE" /\ ppid[m] = t
        BY DEF Children
      <4>2. state'[m] # "FREE"
        BY <2>1, <4>1, StateChanges DEF StateKept, Suspends, Reaps, Awake
      <4>3. ppid'[m] = t
        <5>1. CASE m # current
          BY <2>1, <4>1, <5>1, OthersKept
        <5>2. CASE m = current
          <6>1. CASE ExitAdopt(m)
            <7>1. ppid' = [n \in Pid |-> IF n \in Adopted(m) THEN ppid[m] ELSE ppid[n]]
              BY <6>1 DEF ExitAdopt
            <7> QED BY <4>1, <7>1 DEF Adopted
          <6>2. CASE Fork(m)
            <7>1. Min(FreeSlots) \in FreeSlots
              BY <6>2, PidFacts, MinExists DEF FreeSlots, Fork
            <7>2. ppid' = [ppid EXCEPT ![Min(FreeSlots)] = m]
              BY <6>2 DEF Fork
            <7> QED BY <1>1, <4>1, <7>1, <7>2 DEF FreeSlots, FamilyTypes
          <6>3. CASE ~ ExitAdopt(m) /\ ~ Fork(m)
            <7>1. ppid' = ppid
              BY <5>2, <6>3, ParentsKept
            <7> QED BY <4>1, <7>1
          <6> QED BY <6>1, <6>2, <6>3
        <5> QED BY <5>1, <5>2
      <4> QED BY <1>4, <4>1, <4>2, <4>3
    <3>2. c \in Children(t) /\ Children(t) \in SUBSET Nat
      BY <1>3, <2>3, PidFacts DEF Children, Exists
    <3>3. Min(Children(t)) \in Children(t) /\ Min(Children(t)) <= c
      BY <3>2, MinExists
    <3>4. c <= Min(Children(t)) /\ c \in Nat /\ Min(Children(t)) \in Nat
      BY <3>1, <3>2, <3>3
    <3> QED BY <3>3, <3>4
  <2>5. ~ (state[c] = "DEAD" /\ ~ Exiting(c))
    BY <1>5, <2>2, <2>4 DEF WaitedFirstIsReaped
  <2>6. state[c] = "DEAD"
    <3>1. ASSUME ExitBegin(c), c = current, state[c] = "RUNNING" PROVE FALSE
      <4>1. pc'[c] = "iput"
        BY <1>1, <3>1 DEF ExitBegin, Goto, CpuTypes
      <4> QED BY <4>1 DEF Exiting
    <3> QED BY <3>1, StateChanges DEF StateKept, Suspends, Reaps, Awake
  <2>7. c = current /\ Exiting(c)
    BY <2>3, <2>5, <2>6, OthersKept DEF Exiting, Exists
  <2>8. ExitAdopt(c)
    BY <2>7, ExitLeft DEF Exiting
  <2>9. t \in Waiting(c)
    <3>1. ppid[t] # c
      <4>1. CASE t = InitPid
        BY <1>1, <1>2, <4>1 DEF InitLives
      <4>2. CASE t # InitPid
        <5>1. PICK rank \in [Pid -> Nat] : Ranked(rank)
          BY <1>1 DEF Descent
        <5>2. c \in Pid \ {Idle, InitPid} /\ t \in Pid \ {Idle, InitPid}
          BY <1>2, <1>3, <4>2 DEF InitPid
        <5>3. rank[t] < rank[c] /\ rank[ppid[t]] < rank[t]
          BY <1>5, <2>3, <5>1, <5>2 DEF Ranked, Exists
        <5>4. rank[t] \in Nat /\ rank[c] \in Nat
          OBVIOUS
        <5> QED BY <5>3, <5>4
      <4> QED BY <4>1, <4>2
    <3>2. waitpid[t] = c
      BY <1>1, <1>5, <2>2 DEF TasksSane
    <3> QED BY <1>5, <3>1, <3>2 DEF Waiting, Adopted
  <2>10. state'[t] # "WAITING"
    <3> DEFINE st == [n \in Pid |-> IF n \in Waiting(c) /\ state[n] = "WAITING"
                                    THEN "READY" ELSE state[n]]
    <3>1. Reschedule(st) /\ st \in [Pid -> TaskState] /\ st[t] = "READY"
      BY <1>1, <1>5, <2>8, <2>9 DEF ExitAdopt, CpuTypes, TaskState
    <3>2. "WAITING" \in TaskState \ Awake
      BY DEF TaskState, Awake
    <3> HIDE DEF st
    <3> QED BY <1>1, <1>2, <3>1, <3>2, SwitchedStates
  <2> QED BY <2>10
<1>6. CASE state[t] # "WAITING"
  <2>1. t = current /\ WaitLoop(t)
    BY <1>6, StateChanges DEF StateKept, Suspends, Reaps, Awake
  <2>2. state[t] \in Awake
    BY <2>1, CurrentFacts DEF WaitLoop, Dying
  <2>3. Children(t) # {} /\ state[Min(Children(t))] # "DEAD"
    BY <1>1, <2>1, <2>2 DEF WaitLoop, cpu, CpuTypes, Awake
  <2>4. ppid' = ppid /\ Reschedule([state EXCEPT ![t] = "WAITING"])
    BY <2>1, <2>3 DEF WaitLoop
  <2>5. ASSUME NEW m \in Pid PROVE state'[m] # "FREE" <=> state[m] # "FREE"
    <3> DEFINE st == [state EXCEPT ![t] = "WAITING"]
    <3>1. st \in [Pid -> TaskState] /\ (st[m] # "FREE" <=> state[m] # "FREE")
          /\ Reschedule(st)
      BY <1>1, <2>2, <2>4 DEF CpuTypes, TaskState, Awake
    <3>2. "FREE" \in TaskState \ Awake
      BY DEF TaskState, Awake
    <3> HIDE DEF st
    <3>3. CASE m = Idle
      BY <1>1, <3>3 DEF TasksSane, Awake
    <3>4. CASE m # Idle
      BY <1>1, <3>1, <3>2, <3>4, SwitchedStates
    <3> QED BY <3>3, <3>4
  <2>6. Children(t)' = Children(t)
    BY <2>4, <2>5 DEF Children
  <2>7. state[c] # "DEAD"
    BY <2>3, <2>6
  <2> QED BY <1>2, <2>1, <2>7, StateChanges DEF StateKept, Reaps, Awake
<1> QED BY <1>5, <1>6

(***************************************************************************)
(* A parent that waits for its first child does not sleep on when that     *)
(* child has ended: in no order do the test in sys_waitpid and the wakeup  *)
(* of sys_exit miss each other, however the other tasks fork, exit, kill   *)
(* and reap, and also when the child slept in sys_exit.                    *)
(***************************************************************************)
THEOREM ProcessWaitedFirstIsReaped == Spec => []WaitedFirstIsReaped
<1>1. Init => ForkedIsChild /\ WaitedFirstIsReaped
  BY DEF Init, ForkedIsChild, WaitedFirstIsReaped
<1>2. ProcInv /\ ForkedIsChild /\ WaitedFirstIsReaped /\ [Next]_vars =>
        ForkedIsChild' /\ WaitedFirstIsReaped'
  <2> SUFFICES ASSUME ProcInv, ForkedIsChild, WaitedFirstIsReaped, [Next]_vars
               PROVE  ForkedIsChild' /\ WaitedFirstIsReaped'
    OBVIOUS
  <2>1. CASE Next
    BY <2>1, ForkedStep, WaitedStep
  <2>2. CASE UNCHANGED vars
    <3>1. state' = state /\ arg' = arg /\ ppid' = ppid /\ pc' = pc
      BY <2>2 DEF vars, cpu, family
    <3>2. ForkedIsChild'
      BY <3>1 DEF ForkedIsChild, Exists, Exiting
    <3>3. \A t \in Pid : Children(t)' = Children(t)
      BY <3>1 DEF Children
    <3> QED BY <3>1, <3>2, <3>3 DEF WaitedFirstIsReaped, Exiting
  <2> QED BY <2>1, <2>2
<1> QED BY <1>1, <1>2, ProcInvariant, PTL DEF Spec

-----------------------------------------------------------------------------
(* When nobody is woken early from a sleep: programs do not both sleep and *)
(* kill.                                                                   *)

NobodyWokenEarly == ~ ({"kill", "sleep"} \subseteq Calls)

(***************************************************************************)
(* A sleep ends with its timer: the tasks with a sleep timer sleep on, and *)
(* have no second one.                                                     *)
(***************************************************************************)
LEMMA SleepersStep ==
  ASSUME ProcInv, SleepTimersExact, NobodyWokenEarly, Next
  PROVE  SleepTimersExact'
<1> DEFINE W(list, i) == list[i].handler = "task_wakeup"
<1>1. /\ TypeOK /\ CpuTypes /\ TasksSane /\ TimersKnown /\ timers \in Seq(Timer)
      /\ Sorted(timers)
  BY TypeParts DEF ProcInv, TimersKnown
<1>2. /\ \A i \in DOMAIN timers : W(timers, i) =>
           /\ "sleep" \in Calls /\ state[timers[i].task] = "SLEEPING"
           /\ timers[i].task \in Pid
      /\ \A i, j \in DOMAIN timers :
           W(timers, i) /\ W(timers, j) /\ timers[i].task = timers[j].task => i = j
  BY <1>1, TimerOwners DEF SleepTimersExact
<1>3. ASSUME NEW i \in DOMAIN timers, W(timers, i),
             timers[i].task \notin Due("task_wakeup")
               \/ ~ TickStep
      PROVE  state'[timers[i].task] = "SLEEPING"
  <2>1. PICK n \in Pid : n = timers[i].task
    BY <1>2, <1>3
  <2>2. state[n] = "SLEEPING" /\ "sleep" \in Calls
    BY <1>2, <1>3, <2>1
  <2>3. n # current
    BY <1>1, <2>2 DEF TasksSane, Awake
  <2>4. ~ Kill(current, n)
    BY <2>2 DEF Kill, Calling, NobodyWokenEarly
  <2>5. ~ DeviceStep(n)
    BY <1>1, <2>2, DeviceFacts DEF TasksSane, Awaited
  <2>6. ~ Awakened(n)
    BY <1>3, <2>1, <2>2, <2>4, <2>5 DEF Awakened
  <2>7. state'[n] = "SLEEPING"
    BY <2>2, <2>3, <2>6, StateChanges DEF StateKept, Reaps, Awake
  <2> QED BY <2>1, <2>7
<1>4. ASSUME NEW place, Derived(timers', place),
             \A k \in DOMAIN timers' : W(timers, place[k]) =>
               state'[timers[place[k]].task] = "SLEEPING"
      PROVE  SleepTimersExact'
  <2>1. ASSUME NEW k \in DOMAIN timers', W(timers', k)
        PROVE  "sleep" \in Calls /\ state'[timers'[k].task] = "SLEEPING"
    <3>1. place[k] \in DOMAIN timers /\ W(timers, place[k])
          /\ timers'[k].task = timers[place[k]].task
      BY <1>4, <2>1 DEF Derived
    <3> QED BY <1>2, <1>4, <3>1
  <2>2. ASSUME NEW k \in DOMAIN timers', NEW l \in DOMAIN timers',
               W(timers', k), W(timers', l), timers'[k].task = timers'[l].task
        PROVE  k = l
    <3>1. /\ place[k] \in DOMAIN timers /\ W(timers, place[k])
          /\ place[l] \in DOMAIN timers /\ W(timers, place[l])
          /\ timers[place[k]].task = timers[place[l]].task
      BY <1>4, <2>2 DEF Derived
    <3>2. place[k] = place[l]
      BY <1>2, <3>1
    <3> QED BY <1>4, <3>2 DEF Derived
  <2> QED BY <2>1, <2>2 DEF SleepTimersExact
<1>5. CASE timers' = timers /\ ~ TickStep
  BY <1>2, <1>3, <1>5 DEF SleepTimersExact
<1>6. CASE \E t \in Pid : current = t /\ ExitNotify(t)
  <2>1. PICK t \in Pid : current = t /\ ExitNotify(t)
    BY <1>6
  <2>2. timers' = RemoveTimers(t) /\ state' = state
    BY <2>1 DEF ExitNotify, cpu
  <2>3. PICK place : Derived(timers', place)
    <3>1. \E place : Derived(RemoveTimers(t), place)
      BY <1>1, RemoveKeeps, Zenon
    <3> QED BY <2>2, <3>1
  <2>4. \A k \in DOMAIN timers' : W(timers, place[k]) =>
          state'[timers[place[k]].task] = "SLEEPING"
    BY <1>2, <2>2, <2>3 DEF Derived
  <2> QED BY <1>4, <2>3, <2>4
<1>7. CASE TickStep
  <2>1. timers' = Ticked
    BY <1>7, TickFacts
  <2>2. PICK place : Derived(timers', place) /\ \A k \in DOMAIN timers' : place[k] > Expired
    <3>1. \E place : /\ Derived(Ticked, place)
                     /\ \A k \in DOMAIN Ticked : place[k] > Expired
      BY <1>1, TickKeeps, Zenon
    <3> QED BY <2>1, <3>1
  <2>3. Expired \in Nat
    BY <1>1, ExpiredPrefix
  <2>4. ASSUME NEW k \in DOMAIN timers', W(timers, place[k])
        PROVE  state'[timers[place[k]].task] = "SLEEPING"
    <3>1. place[k] \in DOMAIN timers /\ place[k] > Expired /\ place[k] \in Nat
      BY <1>1, <2>2 DEF Derived
    <3>2. ASSUME timers[place[k]].task \in Due("task_wakeup") PROVE FALSE
      <4>1. PICK i \in 1 .. Expired : /\ i \in DOMAIN timers
                                      /\ timers[i].task = timers[place[k]].task
                                      /\ W(timers, i)
        BY <3>2, DueFacts
      <4>2. i = place[k]
        BY <1>2, <2>4, <3>1, <4>1
      <4> QED BY <2>3, <3>1, <4>2
    <3> QED BY <1>3, <2>4, <3>1, <3>2
  <2> QED BY <1>4, <2>2, <2>4
<1>8. CASE \E t \in Pid : current = t /\ ((\E d \in Durations : Sleep(t, d)) \/ Beep(t))
  <2>1. PICK t \in Pid : current = t /\ ((\E d \in Durations : Sleep(t, d)) \/ Beep(t))
    BY <1>8
  <2>2. state[t] \in Awake /\ t # Idle
    BY <2>1, CurrentFacts DEF Sleep, Beep, Calling, Dying
  <2>3. PICK timer \in Timer :
          /\ timers' = InsertSorted(timers, timer)
          /\ timer.handler = "task_wakeup" =>
               timer.task = t /\ state'[t] = "SLEEPING" /\ "sleep" \in Calls
    <3>1. CASE \E d \in Durations : Sleep(t, d)
      <4>0. PICK d \in Durations : Sleep(t, d)
        BY <3>1
      <4> DEFINE timer == [task |-> t, left |-> d, handler |-> "task_wakeup"]
                 st == [state EXCEPT ![t] = "SLEEPING"]
      <4>1. /\ timer \in Timer /\ timers' = InsertSorted(timers, timer)
            /\ timer.task = t /\ "sleep" \in Calls /\ Reschedule(st)
        BY <4>0, DurationsAssumption DEF Sleep, Calling, Timer
      <4>2. st \in [Pid -> TaskState] /\ st[t] = "SLEEPING"
            /\ "SLEEPING" \in TaskState \ Awake
        BY <1>1 DEF CpuTypes, TaskState, Awake
      <4> HIDE DEF st, timer
      <4>3. state'[t] = "SLEEPING"
        BY <1>1, <2>2, <4>1, <4>2, SwitchedStates
      <4> QED BY <4>1, <4>3
    <3>2. CASE Beep(t)
      <4> DEFINE timer == [task |-> t, left |-> BeepLast, handler |-> "stop_beep"]
      <4>1. /\ timer \in Timer /\ timers' = InsertSorted(timers, timer)
            /\ timer.handler # "task_wakeup"
        BY <3>2, DurationsAssumption DEF Beep, Timer
      <4> HIDE DEF timer
      <4> QED BY <4>1
    <3> QED BY <2>1, <3>1, <3>2
  <2>4. ~ TickStep
    <3>1. timers' # Ticked
      <4>1. Len(timers') = Len(timers) + 1 /\ Len(timers) \in Nat
        <5>1. PICK at \in 1 .. Len(timers) + 1 : timers' = ListInsert(timers, at, timer)
          BY <1>1, <2>3, InsertSortedPlace
        <5> QED BY <1>1, <5>1, InsertElements
      <4>2. Len(Ticked) <= Len(timers)
        <5> DEFINE at == Expired + 1
        <5>1. at \in 1 .. Len(timers) + 1 /\ Unexpired = SubSeq(timers, at, Len(timers))
          BY <1>1, ExpiredPrefix DEF Unexpired
        <5> HIDE DEF at
        <5>2. Len(Unexpired) = Len(timers) + 1 - at /\ Unexpired \in Seq(Timer)
          BY <1>1, <5>1
        <5>3. DOMAIN Ticked = DOMAIN Unexpired /\ Ticked \in Seq(Timer)
          BY <1>1, TickKeeps DEF Ticked
        <5>4. Len(Ticked) = Len(Unexpired)
          BY <5>2, <5>3
        <5> QED BY <4>1, <5>1, <5>2, <5>4
      <4> QED BY <4>1, <4>2
    <3> QED BY <3>1, TickFacts
  <2>5. PICK at \in DOMAIN timers' :
          /\ timers'[at] = timer
          /\ \A k \in DOMAIN timers' \ {at} :
               \E i \in DOMAIN timers : timers'[k] = timers[i]
          /\ \A k, l \in DOMAIN timers' \ {at} : k # l =>
               \E i, j \in DOMAIN timers :
                 i # j /\ timers'[k] = timers[i] /\ timers'[l] = timers[j]
    <3> DEFINE new == InsertSorted(timers, timer)
    <3>1. \E at \in DOMAIN new :
            /\ new[at] = timer
            /\ \A k \in DOMAIN new \ {at} : \E i \in DOMAIN timers : new[k] = timers[i]
            /\ \A i \in DOMAIN timers : \E k \in DOMAIN new : new[k] = timers[i]
            /\ \A k, l \in DOMAIN new \ {at} : k # l =>
                 \E i, j \in DOMAIN timers :
                   i # j /\ new[k] = timers[i] /\ new[l] = timers[j]
      BY <1>1, InsertSortedKeeps, ZenonT(60)
    <3>2. timers' = new
      BY <2>3
    <3> HIDE DEF new
    <3> QED BY <3>1, <3>2
  <2>6. ASSUME NEW k \in DOMAIN timers' \ {at}, W(timers', k)
        PROVE  "sleep" \in Calls /\ state'[timers'[k].task] = "SLEEPING"
                 /\ state[timers'[k].task] = "SLEEPING"
    <3>1. PICK i \in DOMAIN timers : timers'[k] = timers[i]
      BY <2>5
    <3> QED BY <1>2, <1>3, <2>4, <2>6, <3>1
  <2>7. ASSUME NEW k \in DOMAIN timers', W(timers', k)
        PROVE  "sleep" \in Calls /\ state'[timers'[k].task] = "SLEEPING"
    <3>1. CASE k = at
      BY <2>3, <2>5, <2>7, <3>1
    <3>2. CASE k # at
      BY <2>6, <2>7, <3>2
    <3> QED BY <3>1, <3>2
  <2>8. ASSUME NEW k \in DOMAIN timers', NEW l \in DOMAIN timers',
               W(timers', k), W(timers', l), timers'[k].task = timers'[l].task
        PROVE  k = l
    <3>1. CASE k # at /\ l # at
      <4> SUFFICES ASSUME k # l PROVE FALSE
        OBVIOUS
      <4>1. PICK i \in DOMAIN timers, j \in DOMAIN timers :
              i # j /\ timers'[k] = timers[i] /\ timers'[l] = timers[j]
        BY <2>5, <3>1
      <4>2. W(timers, i) /\ W(timers, j) /\ timers[i].task = timers[j].task
        BY <2>8, <4>1
      <4> QED BY <1>2, <4>1, <4>2
    <3>2. CASE k = at /\ l # at
      <4>1. state[t] = "SLEEPING"
        BY <2>3, <2>5, <2>6, <2>8, <3>2
      <4> QED BY <2>2, <4>1 DEF Awake
    <3>3. CASE k # at /\ l = at
      <4>1. state[t] = "SLEEPING"
        BY <2>3, <2>5, <2>6, <2>8, <3>3
      <4> QED BY <2>2, <4>1 DEF Awake
    <3> QED BY <3>1, <3>2, <3>3
  <2> QED BY <2>7, <2>8 DEF SleepTimersExact
<1>9. \/ timers' = timers
      \/ \E t \in Pid : current = t /\ ((\E d \in Durations : Sleep(t, d)) \/ Beep(t))
      \/ \E t \in Pid : current = t /\ ExitNotify(t)
      \/ TickStep
  <2>1. CASE \E t \in Pid : Inside(t)
    BY <2>1, ZenonT(60) DEF Inside, Syscall, KernelStep, Fork, ForkTableFull, Waitpid,
       Yield, Read, CatchSignal, Setsid, Exit, Kill, WaitLoop, ReadEnd, Iret, ExitBegin,
       ExitRelease, ExitWriteBack, ExitAdopt, timing
  <2>2. CASE Outside
    BY <2>2, DeviceFacts, IdleFacts, PidFacts DEF Outside, timing
  <2> QED BY <2>1, <2>2, NextParts
<1> QED BY <1>5, <1>6, <1>7, <1>8, <1>9

(***************************************************************************)
(* The task that has the processor is marked RUNNING, not READY: a tick    *)
(* wakes only tasks that sleep, and current does not.                      *)
(***************************************************************************)
LEMMA CurrentRunsStep ==
  ASSUME ProcInv, SleepTimersExact, CurrentRuns, WaitsAnswered, Next
  PROVE  CurrentRuns'
<1>1. CpuTypes /\ TasksSane /\ current \in Pid
  BY TypeParts DEF ProcInv, CpuTypes
<1>2. ASSUME NEW st \in [Pid -> TaskState], Reschedule(st), st[Idle] \in Awake,
             \A m \in Pid \ {Idle} : st[m] = "RUNNING" => m = current,
             current # Idle => st[current] # "READY"
      PROVE  CurrentRuns'
  <2>1. current' # Idle => state'[current'] = "RUNNING"
    BY <1>1, <1>2, RescheduleEffect
  <2> QED BY <2>1 DEF CurrentRuns
<1>3. ASSUME NEW s \in {"BLOCKED", "SLEEPING", "WAITING"}, current # Idle,
             Reschedule([state EXCEPT ![current] = s])
      PROVE  CurrentRuns'
  <2> DEFINE st == [state EXCEPT ![current] = s]
  <2>1. /\ st \in [Pid -> TaskState] /\ st[Idle] \in Awake /\ st[current] = s
        /\ \A m \in Pid : m # current => st[m] = state[m]
    BY <1>1, <1>3, PidFacts DEF CpuTypes, TaskState, TasksSane
  <2>2. \A m \in Pid \ {Idle} : st[m] = "RUNNING" => m = current
    BY <1>1, <2>1 DEF TasksSane
  <2>3. Reschedule(st)
    BY <1>3
  <2> HIDE DEF st
  <2> QED BY <1>2, <2>1, <2>2, <2>3
<1>4. ASSUME current' = current, state'[current] = state[current] \/ state'[current] = "DEAD"
      PROVE  CurrentRuns'
  BY <1>4 DEF CurrentRuns
<1>5. ASSUME NEW t \in Pid, current = t, Syscall(t) \/ KernelStep(t)
      PROVE  CurrentRuns'
  <2>1. CASE \/ Waitpid(t) \/ CatchSignal(t) \/ Setsid(t) \/ ReadEnd(t) \/ Exit(t)
             \/ ExitRelease(t) \/ Iret(t) \/ ForkTableFull(t) \/ ExitNotify(t)
             \/ Beep(t)
    <3>1. state' = state /\ current' = current
      BY <2>1 DEF Waitpid, CatchSignal, Setsid, ReadEnd, Exit, ExitRelease, Iret,
         ForkTableFull, ExitNotify, Beep, cpu
    <3> QED BY <1>4, <3>1
  <2>2. CASE Fork(t)
    <3>1. Min(FreeSlots) \in FreeSlots
      BY <2>2, PidFacts, MinExists DEF Fork, FreeSlots
    <3>2. state' = [state EXCEPT ![Min(FreeSlots)] = "READY"] /\ current' = current
      BY <2>2 DEF Fork
    <3>3. state[t] # "FREE"
      BY <1>5, CurrentFacts
    <3> QED BY <1>1, <1>4, <1>5, <3>1, <3>2, <3>3 DEF FreeSlots, CpuTypes
  <2>3. CASE ExitBegin(t)
    <3>1. current' = current /\ (state' = state \/ state' = [state EXCEPT ![t] = "DEAD"])
      BY <2>3 DEF ExitBegin
    <3> QED BY <1>1, <1>4, <1>5, <3>1 DEF CpuTypes
  <2>4. CASE \E p \in Pid : Kill(t, p)
    <3>1. PICK p \in Pid : Kill(t, p)
      BY <2>4
    <3>2. /\ state' = [state EXCEPT ![p] = IF state[p] \in {"WAITING", "SLEEPING"}
                                           THEN "READY" ELSE state[p]]
          /\ current' = current
      BY <3>1 DEF Kill, KillWakes
    <3>3. state[t] \in Awake
      BY <1>5, <3>1, CurrentFacts DEF Kill, Calling, Dying
    <3> QED BY <1>1, <1>4, <1>5, <3>2, <3>3 DEF CpuTypes, Awake
  <2>5. CASE Yield(t)
    BY <1>1, <1>2, <2>5 DEF Yield, CpuTypes, TasksSane, CurrentRuns
  <2>6. CASE Read(t) \/ ExitWriteBack(t)
    <3>1. Reschedule([state EXCEPT ![t] = "BLOCKED"])
      BY <2>6 DEF Read, ExitWriteBack
    <3>2. t # Idle
      BY <1>1, <2>6 DEF Read, Calling, ExitWriteBack, AfterRelease, TasksSane
    <3> QED BY <1>3, <1>5, <3>1, <3>2
  <2>7. CASE \E d \in Durations : Sleep(t, d)
    <3>1. Reschedule([state EXCEPT ![t] = "SLEEPING"]) /\ t # Idle
      BY <2>7 DEF Sleep, Calling
    <3> QED BY <1>3, <1>5, <3>1
  <2>8. CASE WaitLoop(t)
    <3>0. t # Idle /\ state[t] \in Awake
      BY <1>5, <2>8, CurrentFacts DEF WaitLoop, Dying
    <3>1. CASE Children(t) = {}
      <4>1. state' = state /\ current' = current
        BY <2>8, <3>1 DEF WaitLoop, cpu
      <4> QED BY <1>4, <4>1
    <3>2. CASE Children(t) # {} /\ state[Min(Children(t))] = "DEAD"
      <4>1. state' = [state EXCEPT ![Min(Children(t))] = "FREE"] /\ current' = current
        BY <2>8, <3>2 DEF WaitLoop
      <4>2. Min(Children(t)) # t
        BY <3>0, <3>2 DEF Awake
      <4> QED BY <1>1, <1>4, <1>5, <4>1, <4>2 DEF CpuTypes
    <3>3. CASE Children(t) # {} /\ state[Min(Children(t))] # "DEAD"
      <4>1. Reschedule([state EXCEPT ![t] = "WAITING"])
        BY <2>8, <3>3 DEF WaitLoop
      <4> QED BY <1>3, <1>5, <3>0, <4>1
    <3> QED BY <3>1, <3>2, <3>3
  <2>9. CASE ExitAdopt(t)
    <3> DEFINE st == [m \in Pid |-> IF m \in Waiting(t) /\ state[m] = "WAITING"
                                    THEN "READY" ELSE state[m]]
    <3>1. /\ Reschedule(st) /\ st \in [Pid -> TaskState]
          /\ \A m \in Pid : st[m] = IF m \in Waiting(t) /\ state[m] = "WAITING"
                                    THEN "READY" ELSE state[m]
      BY <1>1, <2>9 DEF ExitAdopt, CpuTypes, TaskState
    <3> HIDE DEF st
    <3>2. /\ st[Idle] \in Awake /\ \A m \in Pid \ {Idle} : st[m] = "RUNNING" => m = current
          /\ st[t] = state[t]
      BY <1>1, <1>5, <3>1, PidFacts DEF TasksSane, Awake
    <3> QED BY <1>2, <1>5, <3>1, <3>2 DEF CurrentRuns
  <2> QED BY <1>5, <2>1, <2>2, <2>3, <2>4, <2>5, <2>6, <2>7, <2>8, <2>9
          DEF Syscall, KernelStep
<1>6. ASSUME TickStep PROVE CurrentRuns'
  <2>1. current \notin Due("task_wakeup")
    <3> SUFFICES ASSUME current \in Due("task_wakeup") PROVE FALSE
      OBVIOUS
    <3>1. PICK i \in DOMAIN timers :
            timers[i].task = current /\ timers[i].handler = "task_wakeup"
      BY DueFacts
    <3>2. state[current] = "SLEEPING"
      BY <3>1 DEF SleepTimersExact
    <3> QED BY <1>1, <3>2 DEF TasksSane, Awake
  <2>2. Woken[current] = state[current]
    BY <1>1, <2>1 DEF Woken
  <2>3. Reschedule(Woken) \/ (state' = Woken /\ current' = current)
    BY <1>6, TickFacts
  <2>4. Woken \in [Pid -> TaskState] /\ Woken[Idle] \in Awake
    BY <1>6, TickFacts DEF Switches
  <2>5. \A m \in Pid \ {Idle} : Woken[m] = "RUNNING" => m = current
    BY <1>1 DEF Woken, TasksSane
  <2>6. CASE Reschedule(Woken)
    BY <1>2, <2>2, <2>4, <2>5, <2>6 DEF CurrentRuns
  <2>7. CASE state' = Woken /\ current' = current
    BY <1>4, <2>2, <2>7
  <2> QED BY <2>3, <2>6, <2>7
<1>7. ASSUME NEW t \in Pid, DeviceStep(t) PROVE CurrentRuns'
  <2>1. /\ state' = [state EXCEPT ![t] = "READY"] /\ current' = current
        /\ Awaited(t) /\ (t = current => Loading)
    BY <1>7, DeviceFacts
  <2>2. t # current
    BY <1>1, <2>1 DEF WaitsAnswered, Awaited, TasksSane, Awake
  <2> QED BY <1>1, <1>4, <2>1, <2>2 DEF CpuTypes
<1>8. ASSUME IdleLoop PROVE CurrentRuns'
  <2>1. CASE IdleSwitch /\ state[target] = "READY"
    <3>1. current' = target /\ state' = [state EXCEPT ![target] = "RUNNING"]
      BY <2>1 DEF IdleSwitch
    <3>2. target \in Pid
      BY DEF ProcInv, TypeOK
    <3> QED BY <1>1, <3>1, <3>2 DEF CurrentRuns, CpuTypes
  <2>2. CASE IdleDemote
    <3>1. current = Idle /\ current' = current
      BY <2>2 DEF IdleDemote
    <3> QED BY <3>1 DEF CurrentRuns
  <2>3. CASE ~ IdleDemote /\ ~ (IdleSwitch /\ state[target] = "READY")
    <3>1. state' = state /\ current' = current
      BY <1>8, <2>3 DEF IdleLoop, IdlePick, IdleSwitch, IdleLoad, cpu
    <3> QED BY <3>1 DEF CurrentRuns
  <2> QED BY <2>1, <2>2, <2>3
<1> QED BY <1>5, <1>6, <1>7, <1>8, NextParts DEF Inside, Outside

(***************************************************************************)
(* Only the device ends a wait for it: sys_kill does not wake a blocked    *)
(* task, and a tick wakes only those that sleep.                           *)
(***************************************************************************)
LEMMA WaitEnds ==
  ASSUME ProcInv, SleepTimersExact, Next, NEW n \in Pid, n # current,
         pc'[n] \in {"io", "notify", "adopt"}, state'[n] # "BLOCKED",
         pc[n] = pc'[n] /\ state[n] # "BLOCKED" => ioDone[n]
  PROVE  ioDone'[n] = TRUE
<1>1. CpuTypes /\ OtherTypes
  BY TypeParts DEF ProcInv
<1>2. /\ pc[n] = pc'[n]
      /\ ioDone'[n] = ioDone[n] \/ (DeviceStep(n) /\ ioDone'[n] = TRUE)
  BY OthersKept
<1>3. CASE DeviceStep(n)
  <2>1. ioDone' = [ioDone EXCEPT ![n] = TRUE]
    BY <1>3, DeviceFacts
  <2> QED BY <1>1, <2>1 DEF OtherTypes
<1>4. CASE ~ DeviceStep(n)
  <2>1. ASSUME state[n] = "BLOCKED" PROVE FALSE
    <3>1. n \notin Due("task_wakeup")
      <4> SUFFICES ASSUME n \in Due("task_wakeup") PROVE FALSE
        OBVIOUS
      <4>1. PICK i \in DOMAIN timers :
              timers[i].task = n /\ timers[i].handler = "task_wakeup"
        BY DueFacts
      <4> QED BY <2>1, <4>1 DEF SleepTimersExact
    <3>2. ~ Awakened(n)
      BY <1>4, <2>1, <3>1 DEF Awakened
    <3> QED BY <2>1, <3>2, StateChanges DEF StateKept, Reaps, Awake
  <2> QED BY <1>1, <1>2, <1>4, <2>1 DEF OtherTypes
<1> QED BY <1>3, <1>4

(***************************************************************************)
(* Where current is after its step when it is in a wait.                   *)
(***************************************************************************)
LEMMA WaitBegins ==
  ASSUME ProcInv, Next, ~ Loading, pc'[current] \in {"io", "notify", "adopt"}
  PROVE  \/ (Read(current) \/ ExitWriteBack(current)) /\ state'[current] = "BLOCKED"
         \/ /\ pc'[current] # "io" /\ current' = current /\ ~ Loading'
<1>1. CpuTypes /\ TasksSane /\ current \in Pid
  BY TypeParts DEF ProcInv, CpuTypes
<1>2. CASE Outside
  BY <1>1, <1>2, OutsideFrame DEF CpuTypes
<1>3. ASSUME NEW t \in Pid, Inside(t)
      PROVE  \/ (Read(t) \/ ExitWriteBack(t)) /\ state'[t] = "BLOCKED"
             \/ /\ pc'[t] # "io" /\ current' = t /\ ~ Loading'
  <2>1. current = t /\ pc'[t] \in {"io", "notify", "adopt"} /\ ~ Loading
    BY <1>3 DEF Inside
  <2>2. CASE Read(t) \/ ExitWriteBack(t)
    <3> DEFINE st == [state EXCEPT ![t] = "BLOCKED"]
    <3>1. Reschedule(st)
      BY <2>2 DEF Read, ExitWriteBack
    <3>2. t # Idle
      BY <1>1, <2>2 DEF Read, Calling, ExitWriteBack, AfterRelease, TasksSane
    <3>3. /\ st \in [Pid -> TaskState] /\ st[t] = "BLOCKED"
          /\ "BLOCKED" \in TaskState \ Awake
      BY <1>1 DEF CpuTypes, TaskState, Awake
    <3> HIDE DEF st
    <3>4. state'[t] = "BLOCKED"
      BY <1>1, <3>1, <3>2, <3>3, SwitchedStates
    <3> QED BY <2>2, <3>4
  <2>3. CASE ExitRelease(t)
    <3>1. pc'[t] # "io"
      BY <1>1, <2>3 DEF ExitRelease, AfterRelease, Goto, CpuTypes
    <3> QED BY <2>1, <2>3, <3>1 DEF ExitRelease, cpu, idling, Loading
  <2>4. CASE ExitNotify(t)
    <3>1. pc'[t] # "io"
      BY <1>1, <2>4 DEF ExitNotify, Goto, CpuTypes
    <3> QED BY <2>1, <2>4, <3>1 DEF ExitNotify, cpu, idling, Loading
  <2>5. ~ Fork(t)
    <3> SUFFICES ASSUME Fork(t) PROVE FALSE
      OBVIOUS
    <3>1. pc' = [pc EXCEPT ![t] = "iret", ![Min(FreeSlots)] = "iret"]
      BY DEF Fork
    <3> QED BY <1>1, <2>1, <3>1 DEF CpuTypes
  <2>6. ~ ExitAdopt(t)
    BY <1>1, <2>1 DEF ExitAdopt, Goto, CpuTypes
  <2>7. CASE Syscall(t) /\ ~ Read(t)
    BY <1>1, <2>1, <2>5, <2>7 DEF Syscall, ForkTableFull, Waitpid, Yield,
       CatchSignal, Setsid, Exit, Sleep, Beep, Kill, Goto, Calling, CpuTypes
  <2>8. CASE WaitLoop(t) \/ ReadEnd(t) \/ Iret(t) \/ ExitBegin(t)
    BY <1>1, <2>1, <2>8 DEF WaitLoop, ReadEnd, Iret, ExitBegin, Goto, CpuTypes
  <2> QED BY <1>3, <2>2, <2>3, <2>4, <2>6, <2>7, <2>8 DEF Inside, KernelStep
<1> QED BY <1>2, <1>3, NextParts DEF Inside

(***************************************************************************)
(* Where current is after an interrupt while idle loads it, or when idle   *)
(* has loaded it.                                                          *)
(***************************************************************************)
LEMMA WaitLoads ==
  ASSUME ProcInv, Next, Loading
  PROVE  /\ pc' = pc /\ state[current] \in Awake
         /\ ioDone'[current] = ioDone[current] \/ ioDone'[current] = TRUE
<1>1. OtherTypes /\ TasksSane /\ current \in Pid /\ pc[Idle] = "user"
  BY TypeParts DEF ProcInv, TypeOK, TasksSane
<1>2. state[current] \in Awake
  BY <1>1 DEF TasksSane
<1>3. Outside
  BY NextParts DEF Inside
<1>4. pc' = pc
  BY <1>3, OutsideFrame
<1>5. ioDone'[current] = ioDone[current] \/ ioDone'[current] = TRUE
  <2>1. CASE TickStep
    BY <2>1, TickFacts
  <2>2. CASE \E t \in Pid : DeviceStep(t)
    <3>1. PICK t \in Pid : DeviceStep(t)
      BY <2>2
    <3>2. ioDone' = [ioDone EXCEPT ![t] = TRUE]
      BY <3>1, DeviceFacts
    <3> QED BY <1>1, <3>2 DEF OtherTypes
  <2>3. CASE IdleLoop
    BY <2>3, IdleFacts, PidFacts
  <2> QED BY <1>3, <2>1, <2>2, <2>3 DEF Outside
<1> QED BY <1>2, <1>4, <1>5

(***************************************************************************)
(* So a wait that is over has been answered, and current apart so has one  *)
(* in sys_exit.                                                            *)
(***************************************************************************)
LEMMA DeviceWaitsStep ==
  ASSUME ProcInv, SleepTimersExact, DeviceWaitsAreExact, WaitsAnswered, Next
  PROVE  DeviceWaitsAreExact' /\ WaitsAnswered'
<1>1. OtherTypes /\ current \in Pid
  BY TypeParts DEF ProcInv, TypeOK
<1>2. ASSUME NEW n \in Pid, pc'[n] \in {"io", "notify", "adopt"}, state'[n] # "BLOCKED"
      PROVE  ioDone'[n] \/ (n = current' /\ ~ Loading' /\ pc'[n] # "io")
  <2>1. CASE n # current
    <3>1. pc[n] = pc'[n] /\ state[n] # "BLOCKED" => ioDone[n]
      BY <1>2, <2>1 DEF WaitsAnswered
    <3> QED BY <1>2, <2>1, <3>1, WaitEnds
  <2>2. CASE n = current /\ ~ Loading
    BY <1>2, <2>2, WaitBegins
  <2>3. CASE n = current /\ Loading
    <3>1. ioDone[n]
      BY <1>2, <2>3, WaitLoads DEF WaitsAnswered, Awake
    <3> QED BY <2>3, <3>1, WaitLoads
  <2> QED BY <2>1, <2>2, <2>3
<1>3. DeviceWaitsAreExact'
  BY <1>2 DEF DeviceWaitsAreExact
<1>4. WaitsAnswered'
  BY <1>2 DEF WaitsAnswered
<1> QED BY <1>3, <1>4

(***************************************************************************)
(* The invariant behind the next two theorems.                             *)
(***************************************************************************)
LEMMA UndisturbedInvariant ==
  ASSUME NobodyWokenEarly
  PROVE  Spec => []Undisturbed
<1>1. Init => Undisturbed
  <2> SUFFICES ASSUME Init PROVE Undisturbed
    OBVIOUS
  <2>1. SleepTimersExact /\ CurrentRuns
    BY DEF Init, SleepTimersExact, CurrentRuns
  <2>2. DeviceWaitsAreExact /\ WaitsAnswered
    BY DEF Init, DeviceWaitsAreExact, WaitsAnswered
  <2> QED BY <2>1, <2>2 DEF Undisturbed
<1>2. ProcInv /\ Undisturbed /\ [Next]_vars => Undisturbed'
  <2> SUFFICES ASSUME ProcInv, Undisturbed, [Next]_vars PROVE Undisturbed'
    OBVIOUS
  <2>1. CASE Next
    BY <2>1, SleepersStep, CurrentRunsStep, DeviceWaitsStep DEF Undisturbed
  <2>2. CASE UNCHANGED vars
    <3>1. /\ state' = state /\ current' = current /\ pc' = pc /\ timers' = timers
          /\ ioDone' = ioDone /\ idleAt' = idleAt
      BY <2>2 DEF vars, cpu, timing, idling
    <3> QED BY <3>1 DEF Undisturbed, SleepTimersExact, CurrentRuns, DeviceWaitsAreExact,
               WaitsAnswered, Loading
  <2> QED BY <2>1, <2>2
<1> QED BY <1>1, <1>2, ProcInvariant, PTL DEF Spec

(***************************************************************************)
(* A task that waits for its device goes on only when the device has       *)
(* answered, provided that no sleep is cut short by a signal, which leaves *)
(* a timer behind that ends a later wait.                                  *)
(***************************************************************************)
THEOREM ProcessDeviceWaits ==
  ASSUME NobodyWokenEarly
  PROVE  Spec => []DeviceWaitsAreExact
<1>1. Undisturbed => DeviceWaitsAreExact
  BY DEF Undisturbed
<1> QED BY <1>1, UndisturbedInvariant, PTL

(***************************************************************************)
(* No step lets sys_exit or task_tell_father fail: the exiting task is the *)
(* running one, and its father exists.                                     *)
(***************************************************************************)
LEMMA NoPanicStep ==
  ASSUME ProcInv, CurrentRuns, NoExitPanic, [Next]_vars
  PROVE  NoExitPanic'
<1>1. TasksSane /\ CpuTypes /\ current \in Pid
  BY TypeParts DEF ProcInv, CpuTypes
<1>2. ASSUME ExitBegin(current) PROVE panic' = panic
  <2>1. state[current] \in Awake /\ current \notin {Idle, InitPid}
    BY <1>2, CurrentFacts DEF ExitBegin, Dying
  <2>2. state[current] = "RUNNING"
    BY <2>1 DEF CurrentRuns, Awake
  <2> QED BY <1>2, <2>1, <2>2 DEF ExitBegin
<1>3. ASSUME ExitNotify(current) PROVE panic' = panic
  BY <1>1, <1>3, ExitNotifyKeeps
<1>4. CASE UNCHANGED vars
  BY <1>4 DEF vars, NoExitPanic
<1>5. CASE Next
  <2> DEFINE Kinds == {panic, "task_nr", "not_ready", "two_stacks"}
  <2>1. panic' \in Kinds
    <3>1. CASE Outside
      <4>1. \A sliceEnds \in BOOLEAN : ClockTick(sliceEnds) => panic' \in Kinds
        BY ReschedulePanic DEF ClockTick
      <4> QED BY <3>1, <4>1 DEF Outside, TickStep, DeviceStep, DeviceInterrupt,
             ClockTickLoading, DeviceInterruptLoading, InLoading,
             IdleLoop, IdlePick, IdleDemote, IdleSwitch, IdleLoad
    <3>2. ASSUME NEW t \in Pid, Inside(t) PROVE panic' \in Kinds
      <4>1. current = t
        BY <3>2 DEF Inside
      <4>2. CASE \/ Yield(t) \/ Read(t) \/ ExitWriteBack(t) \/ ExitAdopt(t) \/ WaitLoop(t)
                 \/ \E d \in Durations : Sleep(t, d)
        BY <4>2, ReschedulePanic
           DEF Yield, Read, ExitWriteBack, ExitAdopt, WaitLoop, Sleep
      <4>3. CASE Syscall(t) /\ ~ Yield(t) /\ ~ Read(t) /\ ~ \E d \in Durations : Sleep(t, d)
        BY <4>3 DEF Syscall, Fork, ForkTableFull, Waitpid, CatchSignal, Setsid, Exit, Beep,
           Kill
      <4>4. CASE ReadEnd(t) \/ Iret(t) \/ ExitRelease(t) \/ ExitBegin(t) \/ ExitNotify(t)
        BY <1>2, <1>3, <4>1, <4>4 DEF ReadEnd, Iret, ExitRelease
      <4> QED BY <3>2, <4>2, <4>3, <4>4 DEF Inside, KernelStep
    <3> QED BY <1>5, <3>1, <3>2, NextParts
  <2> QED BY <2>1 DEF NoExitPanic
<1> QED BY <1>4, <1>5

(***************************************************************************)
(* The assertion of sys_exit that the task is RUNNING and the one of       *)
(* task_tell_father that the father exists never fail, provided that no    *)
(* sleep is cut short by a signal: with sys_kill of a sleeper the first    *)
(* one does, as the run of the stale timer shows.                          *)
(***************************************************************************)
THEOREM ProcessNoExitPanic ==
  ASSUME NobodyWokenEarly
  PROVE  Spec => []NoExitPanic
<1>1. Init => NoExitPanic
  BY DEF Init, NoExitPanic
<1>2. ProcInv /\ Undisturbed /\ NoExitPanic /\ [Next]_vars => NoExitPanic'
  BY NoPanicStep DEF Undisturbed
<1> QED BY <1>1, <1>2, ProcInvariant, UndisturbedInvariant, PTL DEF Spec
=============================================================================
