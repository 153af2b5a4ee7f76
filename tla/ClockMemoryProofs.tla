-------------------------- MODULE ClockMemoryProofs --------------------------
(***************************************************************************)
(* Proofs about the clock and about the page memory, the two components    *)
(* that run below the processes and share nothing but the task table.      *)
(***************************************************************************)
EXTENDS Clock, Memory, SchedProofs, FiniteSetTheorems

-----------------------------------------------------------------------------
(***************************************************************************)
(* The clock interrupt and the timer list, for every number of tasks,      *)
(* every width of a word and every set of delays.  Types and slices are    *)
(* right for ever, through any number of wraparounds of jiffies.  Timers   *)
(* are neither early nor late as long as what they are set to fits the     *)
(* word: the bounds are hypotheses of those theorems.                      *)
(***************************************************************************)

States == {"RUNNING", "READY", "SLEEPING"}

(***************************************************************************)
(* list_insert_sort puts the timer at a place of the list: every timer     *)
(* before it has no greater key, and the one it is put in front of has.    *)
(***************************************************************************)
LEMMA InsertSortedPlace ==
  ASSUME NEW list \in Seq(Timer), NEW timer \in Timer
  PROVE  \E at \in 1 .. Len(list) + 1 :
           /\ InsertSorted(list, timer) = ListInsert(list, at, timer)
           /\ \A i \in 1 .. at - 1 :
                ~ (Signed(list[i].expires) > Signed(timer.expires))
           /\ at <= Len(list) =>
                Signed(list[at].expires) > Signed(timer.expires)
<1> DEFINE greater == {i \in DOMAIN list :
                         Signed(list[i].expires) > Signed(timer.expires)}
           at == IF greater = {} THEN Len(list) + 1 ELSE Min(greater)
<1>1. InsertSorted(list, timer) = ListInsert(list, at, timer)
  BY DEF InsertSorted, InsertAt, ListInsert
<1>2. CASE greater = {}
  <2>1. at = Len(list) + 1
    BY <1>2
  <2>2. \A i \in 1 .. Len(list) :
          ~ (Signed(list[i].expires) > Signed(timer.expires))
    BY <1>2
  <2> HIDE DEF at, greater
  <2> QED BY <1>1, <2>1, <2>2
<1>3. CASE greater # {}
  <2>1. greater \in SUBSET Nat
    OBVIOUS
  <2>2. at \in greater /\ \A y \in greater : at <= y
    <3>1. at = Min(greater)
      BY <1>3
    <3> HIDE DEF at, greater
    <3> QED BY <1>3, <2>1, <3>1, MinExists
  <2>3. at \in 1 .. Len(list)
    BY <2>2
  <2>4. \A i \in 1 .. at - 1 : i \notin greater
    <3> HIDE DEF at, greater
    <3> QED BY <2>2, <2>3
  <2>5. \A i \in 1 .. at - 1 :
          ~ (Signed(list[i].expires) > Signed(timer.expires))
    BY <2>3, <2>4
  <2>6. Signed(list[at].expires) > Signed(timer.expires)
    BY <2>2
  <2> HIDE DEF at, greater
  <2> QED BY <1>1, <2>3, <2>5, <2>6
<1> QED BY <1>2, <1>3

(***************************************************************************)
(* timer_wakeup takes the expired timers off the head of the list up to    *)
(* the first that has not expired.                                         *)
(***************************************************************************)
LEMMA ExpiredPrefix ==
  ASSUME timers \in Seq(Timer), NEW j \in Word
  PROVE  /\ Expired(j) \in 0 .. Len(timers)
         /\ \A i \in 1 .. Expired(j) : timers[i].expires <= j
         /\ Expired(j) < Len(timers) => timers[Expired(j) + 1].expires > j
<1> DEFINE K == {k \in 0 .. Len(timers) :
                   \A i \in 1 .. k : timers[i].expires <= j}
           n == Expired(j)
<1>1. Len(timers) \in Nat /\ K \in SUBSET (0 .. Len(timers))
  OBVIOUS
<1>2. 0 \in K
  BY <1>1
<1>3. n \in K /\ \A y \in K : y <= n
  BY <1>1, <1>2, MaxExists DEF Expired
<1>4. n \in 0 .. Len(timers) /\ \A i \in 1 .. n : timers[i].expires <= j
  BY <1>3
<1>5. ASSUME n < Len(timers) PROVE timers[n + 1].expires > j
  <2>1. n + 1 \notin K /\ n + 1 \in 0 .. Len(timers)
    BY <1>3, <1>4, <1>5
  <2>2. PICK i \in 1 .. n + 1 : ~ (timers[i].expires <= j)
    BY <2>1
  <2>3. i = n + 1
    BY <1>4, <2>2
  <2>4. timers[n + 1] \in Timer
    BY <1>4, <1>5
  <2>5. timers[n + 1].expires \in Nat /\ j \in Nat
    BY <2>4, WordAssumption DEF Timer, Word
  <2> QED BY <2>2, <2>3, <2>5
<1> QED BY <1>4, <1>5

(***************************************************************************)
(* What rescheduling preserves: types, and who is asleep.                  *)
(***************************************************************************)
LEMMA RescheduleTyped ==
  ASSUME NEW st \in [Pid -> States], current \in Pid, Reschedule(st)
  PROVE  state' \in [Pid -> States] /\ current' \in Pid
  BY ScheduleKeeps, ScheduleReady DEF Reschedule, States

-----------------------------------------------------------------------------

SliceInv == ClockTypeOK /\ SlicesNeverEmpty

(***************************************************************************)
(* task_setup and task_create give every task a full slice.                *)
(***************************************************************************)
LEMMA SliceInit == ClockInit => SliceInv
<1> SUFFICES ASSUME ClockInit PROVE SliceInv
  OBVIOUS
<1>1. Idle \in Pid
  BY TaskNrAssumption DEF Idle, Pid
<1>2. jiffies \in Word
  BY WordAssumption, TimeAssumption DEF ClockInit, Word
<1>3. now \in Boot .. Uptime
  BY TimeAssumption DEF ClockInit
<1>4. ClockTypeOK
  <2>1. ticks \in [Pid -> Nat]
    BY PriorityAssumption DEF ClockInit
  <2>2. timers \in Seq(Timer)
    BY DEF ClockInit
  <2> QED BY <1>1, <1>2, <1>3, <2>1, <2>2 DEF ClockInit, ClockTypeOK
<1>5. SlicesNeverEmpty
  BY PriorityAssumption DEF ClockInit, SlicesNeverEmpty
<1> QED BY <1>4, <1>5 DEF SliceInv

(***************************************************************************)
(* A clock interrupt, a sleep and a yield keep the types, and no step      *)
(* leaves a task without ticks: clock_handler refills the slice that it    *)
(* uses up, and task_wakeup gives a new one.                               *)
(***************************************************************************)
LEMMA SliceStep == SliceInv /\ [ClockNext]_clockVars => SliceInv'
<1> SUFFICES ASSUME SliceInv, [ClockNext]_clockVars
             PROVE  SliceInv'
  OBVIOUS
<1> USE DEF SliceInv
<1>1. ASSUME ClockHandler
      PROVE  SliceInv'
  <2> DEFINE j == (jiffies + 1) % 2^W
             n == Expired(j)
             woken == {timers[i].task : i \in 1 .. n}
             st == [t \in Pid |-> IF t \in woken THEN "READY" ELSE state[t]]
             charged == [t \in Pid |-> IF t \in woken THEN Priority[t]
                                                      ELSE ticks[t]]
             left == charged[current] - 1
  <2>1. /\ now < Uptime
        /\ jiffies' = j
        /\ now' = now + 1
        /\ timers' = Remaining(n)
        /\ panic' = (n = Len(timers) /\ EOF <= j)
        /\ ticks' = [charged EXCEPT ![current] = Refill(current, left)]
        /\ IF left <= 0 THEN Reschedule(st)
                        ELSE state' = st /\ UNCHANGED current
    BY <1>1 DEF ClockHandler
  <2>2. j \in Word
    BY WordAssumption, SMTT(30) DEF ClockTypeOK, Word
  <2>3. n \in 0 .. Len(timers)
    BY <2>2, ExpiredPrefix DEF ClockTypeOK
  <2>4. st \in [Pid -> States]
    BY DEF ClockTypeOK, States
  <2>5. /\ charged \in [Pid -> Nat]
        /\ \A t \in Pid : charged[t] > 0 /\ charged[t] <= Priority[t]
    BY PriorityAssumption DEF ClockTypeOK, SlicesNeverEmpty
  <2> HIDE DEF j, n, woken, st, charged
  <2>6. current \in Pid /\ Priority[current] \in Nat \ {0}
    BY PriorityAssumption DEF ClockTypeOK
  <2>7. /\ Refill(current, left) \in Nat
        /\ Refill(current, left) > 0
        /\ Refill(current, left) <= Priority[current]
    BY <2>5, <2>6 DEF Refill
  <2>8. ticks' \in [Pid -> Nat] /\ SlicesNeverEmpty'
    BY <2>1, <2>5, <2>7 DEF SlicesNeverEmpty
  <2>9. timers' \in Seq(Timer)
    BY <2>1, <2>3 DEF Remaining, ClockTypeOK
  <2>10. state' \in [Pid -> States] /\ current' \in Pid
    <3>1. CASE left <= 0
      BY <2>1, <2>4, <2>6, <3>1, RescheduleTyped
    <3>2. CASE ~ (left <= 0)
      BY <2>1, <2>4, <2>6, <3>2
    <3> QED BY <3>1, <3>2
  <2>11. now' \in Boot .. Uptime /\ panic' \in BOOLEAN
    BY <2>1, TimeAssumption DEF ClockTypeOK
  <2> QED
    BY <2>1, <2>2, <2>8, <2>9, <2>10, <2>11 DEF ClockTypeOK, States
<1>2. ASSUME NEW t \in Pid, Yield(t)
      PROVE  SliceInv'
  <2>1. state' \in [Pid -> States] /\ current' \in Pid
    BY <1>2, RescheduleTyped DEF Yield, ClockTypeOK, States
  <2> QED BY <1>2, <2>1 DEF Yield, ClockTypeOK, States, SlicesNeverEmpty
<1>3. ASSUME NEW t \in Pid, NEW d \in Delays, Sleep(t, d)
      PROVE  SliceInv'
  <2> DEFINE timer == [task    |-> t,
                       expires |-> (jiffies + d) % 2^W,
                       due     |-> now + d]
  <2>1. state' \in [Pid -> States] /\ current' \in Pid
    <3>1. [state EXCEPT ![t] = "SLEEPING"] \in [Pid -> States]
      BY DEF ClockTypeOK, States
    <3> QED BY <1>3, <3>1, RescheduleTyped DEF Sleep, ClockTypeOK
  <2>2. timer \in Timer
    <3>1. (jiffies + d) % 2^W \in Word
      BY DelaysAssumption, WordAssumption, SMTT(30) DEF ClockTypeOK, Word
    <3>2. now + d \in Nat
      BY DelaysAssumption, TimeAssumption DEF ClockTypeOK
    <3> QED BY <3>1, <3>2 DEF Timer
  <2>3. timers' = InsertSorted(timers, timer)
    BY <1>3 DEF Sleep
  <2> HIDE DEF timer
  <2>4. timers' \in Seq(Timer)
    BY <2>2, <2>3, InsertSortedPlace, InsertElements DEF ClockTypeOK
  <2> QED BY <1>3, <2>1, <2>4 DEF Sleep, ClockTypeOK, States, SlicesNeverEmpty
<1>4. CASE UNCHANGED clockVars
  BY <1>4 DEF clockVars, ClockTypeOK, SlicesNeverEmpty
<1> QED BY <1>1, <1>2, <1>3, <1>4 DEF ClockNext

(***************************************************************************)
(* No task ever waits for the processor without ticks, however long the    *)
(* machine is up and whatever tasks sleep: the test of ticks in schedule() *)
(* hides no READY task.                                                    *)
(***************************************************************************)
THEOREM ClockSlices == ClockSpec => [](ClockTypeOK /\ SlicesNeverEmpty)
<1>1. ClockInit => SliceInv
  BY SliceInit
<1>2. SliceInv /\ [ClockNext]_clockVars => SliceInv'
  BY SliceStep
<1> QED BY <1>1, <1>2, PTL DEF ClockSpec, SliceInv

-----------------------------------------------------------------------------

(***************************************************************************)
(* No time that the instance sees needs more than a word.                  *)
(***************************************************************************)
FitsWord == \A d \in Delays \cup {0} : Uptime + d < 2^W

(***************************************************************************)
(* Then jiffies does not wrap around.                                      *)
(***************************************************************************)
LEMMA UptimeFits == ASSUME FitsWord PROVE Uptime < 2^W
<1>1. 0 \in Delays \cup {0}
  OBVIOUS
<1>2. Uptime + 0 < 2^W
  BY <1>1 DEF FitsWord
<1> QED BY <1>2, TimeAssumption

(***************************************************************************)
(* While nothing wraps around, jiffies is the number of ticks since boot   *)
(* and a timer's word is the tick that was asked for.                      *)
(***************************************************************************)
WordsAreTimes ==
  /\ jiffies = now
  /\ \A i \in DOMAIN timers : timers[i].expires = timers[i].due

DueInv == SliceInv /\ WordsAreTimes

(***************************************************************************)
(* What a clock interrupt does to time and to the list: the expired timers *)
(* go, up to the first that is not, and the others move up.                *)
(***************************************************************************)
LEMMA TickEffect ==
  ASSUME FitsWord, DueInv, ClockHandler
  PROVE  \E n \in 0 .. Len(timers) :
           /\ now < Uptime /\ now' = now + 1 /\ jiffies' = now'
           /\ \A i \in 1 .. n : timers[i].due <= now'
           /\ n < Len(timers) => timers[n + 1].due > now'
           /\ Len(timers') = Len(timers) - n
           /\ \A k \in 1 .. Len(timers) - n : timers'[k] = timers[n + k]
<1> DEFINE j == (jiffies + 1) % 2^W
           n == Expired(j)
<1>1. now < Uptime /\ jiffies' = j /\ now' = now + 1 /\ timers' = Remaining(n)
  BY DEF ClockHandler
<1>2. j = now + 1 /\ j \in Word
  <2>1. now \in Nat /\ now + 1 < 2^W
    BY <1>1, UptimeFits, TimeAssumption, WordAssumption
       DEF DueInv, SliceInv, ClockTypeOK
  <2> QED BY <2>1, WordAssumption DEF DueInv, WordsAreTimes, Word
<1>3. timers \in Seq(Timer)
  BY DEF DueInv, SliceInv, ClockTypeOK
<1>4. /\ n \in 0 .. Len(timers)
      /\ \A i \in 1 .. n : timers[i].expires <= j
      /\ n < Len(timers) => timers[n + 1].expires > j
  BY <1>2, <1>3, ExpiredPrefix
<1> HIDE DEF j, n
<1>5. \A i \in 1 .. Len(timers) : timers[i].expires = timers[i].due
  BY <1>3 DEF DueInv, WordsAreTimes
<1>6. /\ Len(timers') = Len(timers) - n
      /\ \A k \in 1 .. Len(timers) - n : timers'[k] = timers[n + k]
  BY <1>1, <1>3, <1>4 DEF Remaining
<1>7. \A i \in 1 .. n : timers[i].due <= now'
  BY <1>1, <1>2, <1>3, <1>4, <1>5
<1>8. n < Len(timers) => timers[n + 1].due > now'
  BY <1>1, <1>2, <1>3, <1>4, <1>5
<1> QED BY <1>1, <1>2, <1>4, <1>6, <1>7, <1>8

(***************************************************************************)
(* What sys_sleep does to the list: a timer with the right word comes in   *)
(* somewhere, the others keep their order, and time stands still.          *)
(***************************************************************************)
LEMMA SleepEffect ==
  ASSUME FitsWord, DueInv, NEW t \in Pid, NEW d \in Delays, Sleep(t, d)
  PROVE  \E at \in 1 .. Len(timers) + 1, timer \in Timer :
           /\ now' = now /\ jiffies' = jiffies
           /\ timer.due = now + d /\ timer.expires = now + d
           /\ Len(timers') = Len(timers) + 1
           /\ \A i \in 1 .. Len(timers) + 1 :
                timers'[i] = IF i < at THEN timers[i]
                             ELSE IF i = at THEN timer ELSE timers[i - 1]
           /\ \A i \in 1 .. at - 1 :
                ~ (Signed(timers[i].expires) > Signed(timer.expires))
           /\ at <= Len(timers) =>
                Signed(timers[at].expires) > Signed(timer.expires)
<1> DEFINE timer == [task    |-> t,
                     expires |-> (jiffies + d) % 2^W,
                     due     |-> now + d]
<1>1. /\ timers' = InsertSorted(timers, timer)
      /\ now' = now /\ jiffies' = jiffies
  BY DEF Sleep
<1>2. timers \in Seq(Timer)
  BY DEF DueInv, SliceInv, ClockTypeOK
<1>3. timer \in Timer /\ timer.due = now + d /\ timer.expires = now + d
  <2>1. now \in Nat /\ d \in Nat /\ now <= Uptime
    BY TimeAssumption, DelaysAssumption DEF DueInv, SliceInv, ClockTypeOK
  <2>2. Uptime + d < 2^W
    BY DEF FitsWord
  <2>3. now + d \in Word
    BY <2>1, <2>2, TimeAssumption, WordAssumption DEF Word
  <2>4. (jiffies + d) % 2^W = now + d
    BY <2>1, <2>3, WordAssumption DEF DueInv, WordsAreTimes, Word
  <2> QED BY <2>1, <2>3, <2>4 DEF Timer
<1> HIDE DEF timer
<1>4. PICK at \in 1 .. Len(timers) + 1 :
        /\ InsertSorted(timers, timer) = ListInsert(timers, at, timer)
        /\ \A i \in 1 .. at - 1 :
             ~ (Signed(timers[i].expires) > Signed(timer.expires))
        /\ at <= Len(timers) =>
             Signed(timers[at].expires) > Signed(timer.expires)
  BY <1>2, <1>3, InsertSortedPlace
<1>5. /\ Len(timers') = Len(timers) + 1
      /\ \A i \in 1 .. Len(timers) + 1 :
           timers'[i] = IF i < at THEN timers[i]
                        ELSE IF i = at THEN timer ELSE timers[i - 1]
  BY <1>1, <1>2, <1>3, <1>4, InsertElements
<1> QED BY <1>1, <1>3, <1>4, <1>5

(***************************************************************************)
(* Every step keeps words and times equal while times fit the word.        *)
(***************************************************************************)
LEMMA DueStep ==
  ASSUME FitsWord PROVE DueInv /\ [ClockNext]_clockVars => DueInv'
<1> SUFFICES ASSUME DueInv, [ClockNext]_clockVars PROVE WordsAreTimes'
  BY SliceStep DEF DueInv
<1>0. timers \in Seq(Timer) /\ timers' \in Seq(Timer)
  BY SliceStep DEF DueInv, SliceInv, ClockTypeOK
<1>1. ASSUME ClockHandler PROVE WordsAreTimes'
  <2>1. PICK n \in 0 .. Len(timers) :
          /\ jiffies' = now'
          /\ Len(timers') = Len(timers) - n
          /\ \A k \in 1 .. Len(timers) - n : timers'[k] = timers[n + k]
    BY <1>1, TickEffect
  <2>2. \A i \in 1 .. Len(timers) : timers[i].expires = timers[i].due
    BY <1>0 DEF DueInv, WordsAreTimes
  <2>3. \A k \in 1 .. Len(timers') : timers'[k].expires = timers'[k].due
    BY <1>0, <2>1, <2>2, SMTT(30)
  <2> QED BY <1>0, <2>1, <2>3 DEF WordsAreTimes
<1>2. ASSUME NEW t \in Pid, Yield(t) PROVE WordsAreTimes'
  BY <1>2 DEF Yield, DueInv, WordsAreTimes
<1>3. ASSUME NEW t \in Pid, NEW d \in Delays, Sleep(t, d) PROVE WordsAreTimes'
  <2>1. PICK at \in 1 .. Len(timers) + 1, timer \in Timer :
          /\ now' = now /\ jiffies' = jiffies
          /\ timer.due = now + d /\ timer.expires = now + d
          /\ Len(timers') = Len(timers) + 1
          /\ \A i \in 1 .. Len(timers) + 1 :
               timers'[i] = IF i < at THEN timers[i]
                            ELSE IF i = at THEN timer ELSE timers[i - 1]
    BY <1>3, SleepEffect
  <2>2. \A i \in 1 .. Len(timers) : timers[i].expires = timers[i].due
    BY <1>0 DEF DueInv, WordsAreTimes
  <2>3. ASSUME NEW k \in 1 .. Len(timers')
        PROVE  timers'[k].expires = timers'[k].due
    <3>1. k \in 1 .. Len(timers) + 1
      BY <2>1
    <3>2. CASE k < at
      BY <1>0, <2>1, <2>2, <3>1, <3>2
    <3>3. CASE k = at
      BY <1>0, <2>1, <3>1, <3>3
    <3>4. CASE k > at
      <4>1. timers'[k] = timers[k - 1] /\ k - 1 \in 1 .. Len(timers)
        BY <1>0, <2>1, <3>1, <3>4
      <4> QED BY <2>2, <4>1
    <3> QED BY <3>1, <3>2, <3>3, <3>4
  <2> QED BY <1>0, <2>1, <2>3 DEF DueInv, WordsAreTimes
<1>4. CASE UNCHANGED clockVars
  BY <1>4 DEF clockVars, DueInv, WordsAreTimes
<1> QED BY <1>1, <1>2, <1>3, <1>4 DEF ClockNext

(***************************************************************************)
(* At boot there are no timers, and jiffies is the time.                   *)
(***************************************************************************)
LEMMA DueInit == ASSUME FitsWord, ClockInit PROVE DueInv
<1>1. Boot < 2^W
  BY UptimeFits, TimeAssumption, WordAssumption
<1>2. WordsAreTimes
  BY <1>1, TimeAssumption, WordAssumption DEF ClockInit, WordsAreTimes
<1> QED BY <1>2, SliceInit DEF DueInv

(***************************************************************************)
(* No task wakes up before the tick it asked for, as long as times fit the *)
(* word: timer_wakeup unlinks a timer only once its time has come, and     *)
(* nothing else unlinks one.  The signs that list_insert_sort reads into   *)
(* the words do no harm here.                                              *)
(***************************************************************************)
THEOREM ClockNeverEarly == ASSUME FitsWord PROVE ClockSpec => NoEarlyWakeup
<1> DEFINE Early == \A i \in DOMAIN timers :
                      (\A k \in DOMAIN timers' : timers'[k] # timers[i])
                        => now' >= timers[i].due
<1>1. ClockInit => DueInv
  BY DueInit
<1>2. DueInv /\ [ClockNext]_clockVars => DueInv'
  BY DueStep
<1>3. DueInv /\ [ClockNext]_clockVars => [Early]_clockVars
  <2> SUFFICES ASSUME DueInv, ClockNext, NEW i \in DOMAIN timers,
                      \A k \in DOMAIN timers' : timers'[k] # timers[i]
               PROVE  now' >= timers[i].due
    OBVIOUS
  <2>0. /\ timers \in Seq(Timer) /\ timers' \in Seq(Timer)
        /\ now \in Nat /\ i \in 1 .. Len(timers)
        /\ timers[i].due \in Nat
    <3>1. timers \in Seq(Timer) /\ timers' \in Seq(Timer) /\ now \in Nat
      BY SliceStep, TimeAssumption DEF DueInv, SliceInv, ClockTypeOK
    <3>2. timers[i] \in Timer
      BY <3>1
    <3> QED BY <3>1, <3>2 DEF Timer
  <2>1. CASE ClockHandler
    <3>1. PICK n \in 0 .. Len(timers) :
            /\ \A k \in 1 .. n : timers[k].due <= now'
            /\ now' = now + 1
            /\ Len(timers') = Len(timers) - n
            /\ \A k \in 1 .. Len(timers) - n : timers'[k] = timers[n + k]
      BY <2>1, TickEffect
    <3>2. ~ (i > n)
      <4> SUFFICES ASSUME i > n PROVE FALSE
        OBVIOUS
      <4>1. i - n \in 1 .. Len(timers) - n
        BY <2>0
      <4>2. timers'[i - n] = timers[n + (i - n)] /\ n + (i - n) = i
        BY <2>0, <3>1, <4>1
      <4>3. i - n \in DOMAIN timers'
        BY <2>0, <3>1, <4>1
      <4> QED BY <4>2, <4>3
    <3>3. i \in 1 .. n
      BY <2>0, <3>2
    <3> QED BY <2>0, <3>1, <3>3
  <2>2. ASSUME NEW t \in Pid, Yield(t) PROVE now' >= timers[i].due
    BY <2>2 DEF Yield
  <2>3. ASSUME NEW t \in Pid, NEW d \in Delays, Sleep(t, d)
        PROVE  now' >= timers[i].due
    <3>1. PICK at \in 1 .. Len(timers) + 1, timer \in Timer :
            /\ Len(timers') = Len(timers) + 1
            /\ \A k \in 1 .. Len(timers) + 1 :
                 timers'[k] = IF k < at THEN timers[k]
                              ELSE IF k = at THEN timer ELSE timers[k - 1]
      BY <2>3, SleepEffect
    <3>2. CASE i < at
      BY <2>0, <3>1, <3>2
    <3>3. CASE ~ (i < at)
      <4>1. i + 1 \in DOMAIN timers' /\ timers'[i + 1] = timers[i]
        BY <2>0, <3>1, <3>3
      <4> QED BY <4>1
    <3> QED BY <3>2, <3>3
  <2> QED BY <2>1, <2>2, <2>3 DEF ClockNext
<1> QED BY <1>1, <1>2, <1>3, PTL DEF ClockSpec, NoEarlyWakeup

-----------------------------------------------------------------------------

(***************************************************************************)
(* The times that timers are compared with are no negative words.  A sleep *)
(* at the last tick is compared with nothing any more, hence <=.           *)
(***************************************************************************)
FitsSigned == \A d \in Delays \cup {0} : Uptime + d <= 2^(W-1)

(***************************************************************************)
(* Times that fit the signed word fit the word.                            *)
(***************************************************************************)
LEMMA SignedFitsWord == ASSUME FitsSigned PROVE FitsWord
<1> SUFFICES ASSUME NEW d \in Delays \cup {0} PROVE Uptime + d < 2^W
  BY DEF FitsWord
<1>1. d \in Nat /\ Uptime + d <= 2^(W-1)
  BY DelaysAssumption DEF FitsSigned
<1>2. 2^(W-1) < 2^W
  BY WordAssumption
<1> QED BY <1>1, <1>2, TimeAssumption, WordAssumption

(***************************************************************************)
(* The list is in the order of the times asked for.                        *)
(***************************************************************************)
InOrder ==
  now < Uptime =>
    /\ \A i \in 1 .. Len(timers) : timers[i].due < 2^(W-1)
    /\ \A i, k \in 1 .. Len(timers) : i <= k => timers[i].due <= timers[k].due

OrderInv == DueInv /\ InOrder

(***************************************************************************)
(* Every step keeps the timers in order: list_insert_sort puts a timer     *)
(* behind those that are not later, and timer_wakeup takes a prefix.       *)
(***************************************************************************)
LEMMA OrderStep ==
  ASSUME FitsSigned PROVE OrderInv /\ [ClockNext]_clockVars => OrderInv'
<1> USE SignedFitsWord
<1> SUFFICES ASSUME OrderInv, [ClockNext]_clockVars, now' < Uptime
             PROVE  /\ \A i \in 1 .. Len(timers') : timers'[i].due < 2^(W-1)
                    /\ \A i, k \in 1 .. Len(timers') :
                         i <= k => timers'[i].due <= timers'[k].due
  BY DueStep DEF OrderInv, InOrder
<1>0. /\ timers \in Seq(Timer) /\ timers' \in Seq(Timer) /\ now \in Nat
      /\ \A i \in 1 .. Len(timers) :
           timers[i].due \in Nat /\ timers[i].expires = timers[i].due
  <2>1. timers \in Seq(Timer) /\ timers' \in Seq(Timer) /\ now \in Nat
    BY SliceStep, TimeAssumption DEF OrderInv, DueInv, SliceInv, ClockTypeOK
  <2>2. \A i \in 1 .. Len(timers) : timers[i] \in Timer
    BY <2>1
  <2> QED BY <2>1, <2>2 DEF OrderInv, DueInv, WordsAreTimes, Timer
<1>1. ASSUME ClockHandler
      PROVE  /\ \A i \in 1 .. Len(timers') : timers'[i].due < 2^(W-1)
             /\ \A i, k \in 1 .. Len(timers') :
                  i <= k => timers'[i].due <= timers'[k].due
  <2>1. PICK n \in 0 .. Len(timers) :
          /\ now < Uptime
          /\ Len(timers') = Len(timers) - n
          /\ \A k \in 1 .. Len(timers) - n : timers'[k] = timers[n + k]
    BY <1>1, TickEffect DEF OrderInv
  <2>2. \A k \in 1 .. Len(timers') :
          n + k \in 1 .. Len(timers) /\ timers'[k] = timers[n + k]
    BY <1>0, <2>1
  <2>3. /\ \A i \in 1 .. Len(timers) : timers[i].due < 2^(W-1)
        /\ \A i, k \in 1 .. Len(timers) :
             i <= k => timers[i].due <= timers[k].due
    BY <2>1 DEF OrderInv, InOrder
  <2>4. \A i \in 1 .. Len(timers') : timers'[i].due < 2^(W-1)
    BY <2>2, <2>3
  <2>5. \A i, k \in 1 .. Len(timers') : i <= k => n + i <= n + k
    OBVIOUS
  <2>6. \A i, k \in 1 .. Len(timers') :
          i <= k => timers'[i].due <= timers'[k].due
    BY <2>2, <2>3, <2>5
  <2> QED BY <2>4, <2>6
<1>2. ASSUME now' = now, timers' = timers
      PROVE  /\ \A i \in 1 .. Len(timers') : timers'[i].due < 2^(W-1)
             /\ \A i, k \in 1 .. Len(timers') :
                  i <= k => timers'[i].due <= timers'[k].due
  BY <1>2 DEF OrderInv, InOrder
<1>3. ASSUME NEW t \in Pid, NEW d \in Delays, Sleep(t, d)
      PROVE  /\ \A i \in 1 .. Len(timers') : timers'[i].due < 2^(W-1)
             /\ \A i, k \in 1 .. Len(timers') :
                  i <= k => timers'[i].due <= timers'[k].due
  <2>1. PICK at \in 1 .. Len(timers) + 1, timer \in Timer :
          /\ now' = now
          /\ timer.due = now + d /\ timer.expires = now + d
          /\ Len(timers') = Len(timers) + 1
          /\ \A i \in 1 .. Len(timers) + 1 :
               timers'[i] = IF i < at THEN timers[i]
                            ELSE IF i = at THEN timer ELSE timers[i - 1]
          /\ \A i \in 1 .. at - 1 :
               ~ (Signed(timers[i].expires) > Signed(timer.expires))
          /\ at <= Len(timers) =>
               Signed(timers[at].expires) > Signed(timer.expires)
    BY <1>3, SleepEffect DEF OrderInv
  <2>2. timer.due \in Nat /\ timer.due < 2^(W-1)
    <3>1. d \in Nat /\ Uptime + d <= 2^(W-1)
      BY DelaysAssumption DEF FitsSigned
    <3> QED BY <1>0, <2>1, <3>1, TimeAssumption, WordAssumption
  <2>3. /\ \A i \in 1 .. Len(timers) : timers[i].due < 2^(W-1)
        /\ \A i, k \in 1 .. Len(timers) :
             i <= k => timers[i].due <= timers[k].due
    BY <2>1 DEF OrderInv, InOrder
  <2>4. ASSUME NEW w \in Nat, w < 2^(W-1) PROVE Signed(w) = w
    BY <2>4, WordAssumption DEF Signed
  <2>5. \A i \in 1 .. at - 1 : timers[i].due <= timer.due
    BY <1>0, <2>1, <2>2, <2>3, <2>4
  <2>6. \A i \in at .. Len(timers) : timer.due <= timers[i].due
    <3> SUFFICES ASSUME NEW i \in at .. Len(timers)
                 PROVE  timer.due <= timers[i].due
      OBVIOUS
    <3>1. at \in 1 .. Len(timers) /\ i \in 1 .. Len(timers) /\ at <= i
      BY <1>0
    <3>2. Signed(timers[at].expires) > Signed(timer.expires)
      BY <2>1, <3>1
    <3>3. timers[at].due > timer.due
      BY <1>0, <2>1, <2>2, <2>3, <2>4, <3>1, <3>2
    <3> QED BY <1>0, <2>2, <2>3, <3>1, <3>3
  <2> DEFINE old(i) == IF i < at THEN i ELSE i - 1
  <2>7. ASSUME NEW i \in 1 .. Len(timers')
        PROVE  \/ i = at /\ timers'[i] = timer
               \/ /\ i # at /\ old(i) \in 1 .. Len(timers)
                  /\ timers'[i] = timers[old(i)]
                  /\ i < at => old(i) \in 1 .. at - 1
                  /\ i > at => old(i) \in at .. Len(timers)
    BY <1>0, <2>1
  <2>8. \A i \in 1 .. Len(timers') : timers'[i].due < 2^(W-1)
    BY <2>2, <2>3, <2>7
  <2>9. ASSUME NEW i \in 1 .. Len(timers'), NEW k \in 1 .. Len(timers'), i <= k
        PROVE  timers'[i].due <= timers'[k].due
    <3>0. i \in Nat /\ k \in Nat /\ at \in Nat
      BY <1>0, <2>1
    <3>1. CASE i = at /\ k = at
      BY <2>2, <3>1, <2>7
    <3>2. CASE i = at /\ k # at
      <4>1. k > at
        BY <3>0, <3>2, <2>9
      <4> QED BY <2>6, <2>7, <3>2, <4>1
    <3>3. CASE i # at /\ k = at
      <4>1. i < at
        BY <3>0, <3>3, <2>9
      <4> QED BY <2>5, <2>7, <3>3, <4>1
    <3>4. CASE i # at /\ k # at
      <4>1. old(i) <= old(k)
        BY <3>0, <3>4, <2>9
      <4> HIDE DEF old
      <4> QED BY <2>3, <2>7, <3>4, <4>1
    <3> QED BY <3>1, <3>2, <3>3, <3>4
  <2> QED BY <2>8, <2>9
<1> QED BY <1>1, <1>2, <1>3 DEF ClockNext, clockVars, Yield

(***************************************************************************)
(* No timer is late, as long as times fit the signed word: after every     *)
(* clock interrupt the list holds only timers whose time is still to come. *)
(***************************************************************************)
THEOREM ClockNeverLate == ASSUME FitsSigned PROVE ClockSpec => NoLateTimer
<1> USE SignedFitsWord
<1> DEFINE Late == now' > now =>
                     \A i \in DOMAIN timers' : timers'[i].due > now'
<1>1. ClockInit => OrderInv
  <2> SUFFICES ASSUME ClockInit PROVE OrderInv
    OBVIOUS
  <2>1. Len(timers) = 0
    BY DEF ClockInit
  <2>2. InOrder
    BY <2>1 DEF InOrder
  <2> QED BY <2>2, DueInit DEF OrderInv
<1>2. OrderInv /\ [ClockNext]_clockVars => OrderInv'
  BY OrderStep
<1>3. OrderInv /\ [ClockNext]_clockVars => [Late]_clockVars
  <2> SUFFICES ASSUME OrderInv, ClockNext, now' > now, NEW i \in DOMAIN timers'
               PROVE  timers'[i].due > now'
    OBVIOUS
  <2>0. /\ timers \in Seq(Timer) /\ timers' \in Seq(Timer) /\ now \in Nat
        /\ \A k \in 1 .. Len(timers) : timers[k].due \in Nat
    <3>1. timers \in Seq(Timer) /\ timers' \in Seq(Timer) /\ now \in Nat
      BY SliceStep, TimeAssumption DEF OrderInv, DueInv, SliceInv, ClockTypeOK
    <3>2. \A k \in 1 .. Len(timers) : timers[k] \in Timer
      BY <3>1
    <3> QED BY <3>1, <3>2 DEF Timer
  <2>1. ClockHandler
    <3>1. now' # now
      BY <2>0
    <3> QED BY <3>1 DEF ClockNext, Yield, Sleep
  <2>2. PICK n \in 0 .. Len(timers) :
          /\ now < Uptime /\ now' = now + 1
          /\ n < Len(timers) => timers[n + 1].due > now'
          /\ Len(timers') = Len(timers) - n
          /\ \A k \in 1 .. Len(timers) - n : timers'[k] = timers[n + k]
    BY <2>1, TickEffect DEF OrderInv
  <2>3. \A k, l \in 1 .. Len(timers) :
          k <= l => timers[k].due <= timers[l].due
    BY <2>2 DEF OrderInv, InOrder
  <2>4. /\ n + i \in 1 .. Len(timers) /\ timers'[i] = timers[n + i]
        /\ n + 1 \in 1 .. Len(timers) /\ n + 1 <= n + i
        /\ n < Len(timers)
    BY <2>0, <2>2
  <2> QED BY <2>0, <2>2, <2>3, <2>4
<1> QED BY <1>1, <1>2, <1>3, PTL DEF ClockSpec, NoLateTimer

-----------------------------------------------------------------------------
(***************************************************************************)
(* The page memory.  The helpers of memory.c take the memory m to the      *)
(* next one and compose, so what they preserve is stated of any memory x:  *)
(* its counts are right, its page tables are apart from its pages, and a   *)
(* page with two users is at the same place in both.                       *)
(***************************************************************************)

Regions == 1 .. 2

Users(x, f) == {s \in Tasks \X Pages : x.pte[s[1]][s[2]].frame = f}
Tables(x, f) == {s \in Tasks \X Regions : x.pde[s[1]][s[2]] = f}

(***************************************************************************)
(* mem_map and free_pages are right.                                       *)
(***************************************************************************)
Counted(x) ==
  /\ \A f \in Frames : x.map[f] = Cardinality(Users(x, f)) + Cardinality(Tables(x, f))
  /\ x.free = Cardinality({f \in Frames : x.map[f] = 0})

(***************************************************************************)
(* A page that is there has a page table, and is none itself.              *)
(***************************************************************************)
Rooted(x) == \A t \in Tasks, v \in Pages :
  Present(x, t, v) => x.pde[t][Region(v)] # None

Apart(x) == \A t, u \in Tasks, v \in Pages, r \in Regions :
  Present(x, t, v) => x.pde[u][r] # x.pte[t][v].frame

Base(x) == x \in Mem /\ Counted(x) /\ Rooted(x) /\ Apart(x)

(***************************************************************************)
(* An entry that is not present has no rights.                             *)
(***************************************************************************)
Tidy(x) == \A t \in Tasks, v \in Pages : ~ Present(x, t, v) => x.pte[t][v] = NoPte

(***************************************************************************)
(* Copy on write: who can write a page that is not shared has it alone;    *)
(* two users of a page have it at the same place, shared or not.           *)
(***************************************************************************)
Private(x) == \A t \in Tasks, v \in Pages :
  Present(x, t, v) /\ x.pte[t][v].write /\ ~ x.pte[t][v].shared
    => x.map[x.pte[t][v].frame] = 1

SamePlace(x) == \A t, u \in Tasks, v, w \in Pages :
  Present(x, t, v) /\ x.pte[u][w].frame = x.pte[t][v].frame
    => v = w /\ x.pte[u][w].shared = x.pte[t][v].shared

Cow(x) == Private(x) /\ SamePlace(x)

\* t has no memory.
Bare(x, t) == /\ \A v \in Pages : x.pte[t][v] = NoPte
              /\ \A r \in Regions : x.pde[t][r] = None

(***************************************************************************)
(* Only a process that lives has memory.                                   *)
(***************************************************************************)
OnlyLive == \A t \in Tasks : live[t] # "live" => Bare(m, t)

(***************************************************************************)
(* What MapCounts follows from.                                            *)
(***************************************************************************)
MemInv == TypeOK /\ Base(m) /\ (m.panic = "none" => Tidy(m) /\ OnlyLive)

(***************************************************************************)
(* The pages of the mmap area that are there are marked in vmap, and       *)
(* execve loads into a page of its own.                                    *)
(***************************************************************************)
MarkedAt(t) == \A v \in MmapPages : Present(m, t, v) => v \in vmap[t]

LoadingAt(t) ==
  /\ pc[t] = "args" => Bare(m, t)
  /\ pc[t] = "header" => ~ Present(m, t, Text)
  /\ pc[t] = "text" => /\ Present(m, t, Text) /\ m.pte[t][Text].write
                       /\ ~ m.pte[t][Text].shared

CowInv == m.panic = "none" => Cow(m) /\ \A t \in Tasks : MarkedAt(t) /\ LoadingAt(t)

(***************************************************************************)
(* A living process has three kernel pages, a dead one its PCB, and no two *)
(* have one in common.                                                     *)
(***************************************************************************)
Parts == {"pcb", "pde", "bits"}
Slot(s) == own[s[1]][s[2]]
Slots == {s \in Tasks \X Parts : Slot(s) # None}

KernelInv == m.panic = "none" =>
  /\ \A t \in Tasks :
       /\ live[t] = "live" => \A k \in Parts : own[t][k] # None
       /\ live[t] \in {"dead", "exiting"} =>
            /\ own[t].pcb # None /\ own[t].pde = None /\ own[t].bits = None
       /\ live[t] = "free" => own[t] = NoPages
  /\ m.kernel_map = {Slot(s) : s \in Slots}
  /\ \A s, q \in Slots : Slot(s) = Slot(q) => s = q

-----------------------------------------------------------------------------
(* Counts. *)

(***************************************************************************)
(* The sets that references are counted over are finite.                   *)
(***************************************************************************)
LEMMA Finite ==
  /\ IsFiniteSet(Tasks) /\ IsFiniteSet(Frames) /\ IsFiniteSet(Pages)
  /\ IsFiniteSet(Regions)
  /\ IsFiniteSet(Tasks \X Pages) /\ IsFiniteSet(Tasks \X Regions)
<1>1. {0, 1, 2, NTask, NFrame, 3 + NMmap} \subseteq Int
  BY MemoryAssumption
<1>2. IsFiniteSet(Tasks) /\ IsFiniteSet(Frames)
  <2>1. IsFiniteSet(1 .. NTask) /\ IsFiniteSet(1 .. NFrame)
    BY <1>1, FS_Interval
  <2> QED BY <2>1 DEF Tasks, Frames
<1>3. IsFiniteSet(Pages) /\ IsFiniteSet(Regions)
  <2>1. IsFiniteSet(0 .. 3 + NMmap) /\ IsFiniteSet(1 .. 2)
    BY <1>1, FS_Interval
  <2> QED BY <2>1 DEF Pages, Regions
<1> QED BY <1>2, <1>3, FS_Product

(***************************************************************************)
(* None is no page.                                                        *)
(***************************************************************************)
LEMMA Layout ==
  /\ None \notin Frames /\ Frames \subseteq 0 .. NFrame
  /\ \A f \in 0 .. NFrame : f # None => f \in Frames
  /\ Frames \subseteq Nat /\ None \in 0 .. NFrame
  /\ Text \in Pages /\ Data \in Pages /\ Heap \in Pages /\ Stack \in Pages
  /\ MmapPages \subseteq Pages /\ Text \notin MmapPages
  /\ \A v \in Pages : Region(v) \in Regions
  /\ \A v \in MmapPages : Region(v) = 2
<1>1. NFrame \in Nat /\ NMmap \in Nat
  BY MemoryAssumption
<1> QED BY <1>1 DEF None, Frames, Text, Data, Heap, Stack, Pages, MmapPages, Region,
              Regions

(***************************************************************************)
(* The references to a page are finitely many.                             *)
(***************************************************************************)
LEMMA RefsFinite ==
  ASSUME NEW x, NEW f
  PROVE  /\ IsFiniteSet(Users(x, f)) /\ Cardinality(Users(x, f)) \in Nat
         /\ IsFiniteSet(Tables(x, f)) /\ Cardinality(Tables(x, f)) \in Nat
<1>1. /\ Users(x, f) \in SUBSET (Tasks \X Pages)
      /\ Tables(x, f) \in SUBSET (Tasks \X Regions)
  BY DEF Users, Tables
<1>2. IsFiniteSet(Users(x, f)) /\ IsFiniteSet(Tables(x, f))
  BY <1>1, Finite, FS_Subset
<1> QED BY <1>2, FS_CardinalityType

(***************************************************************************)
(* A page with count 0 has no references, one with count 1 has one.        *)
(***************************************************************************)
LEMMA Unreferenced ==
  ASSUME NEW x, Counted(x), NEW f \in Frames, x.map[f] = 0
  PROVE  /\ Users(x, f) = {} /\ Tables(x, f) = {}
         /\ \A t \in Tasks, v \in Pages : x.pte[t][v].frame # f
         /\ \A t \in Tasks, r \in Regions : x.pde[t][r] # f
<1>1. Cardinality(Users(x, f)) = 0 /\ Cardinality(Tables(x, f)) = 0
  BY RefsFinite DEF Counted
<1>2. Users(x, f) = {} /\ Tables(x, f) = {}
  BY <1>1, RefsFinite, FS_EmptySet
<1>3. ASSUME NEW t \in Tasks, NEW v \in Pages PROVE x.pte[t][v].frame # f
  <2>1. <<t, v>> \in Tasks \X Pages /\ <<t, v>> \notin Users(x, f)
    BY <1>2
  <2> QED BY <2>1 DEF Users
<1>4. ASSUME NEW t \in Tasks, NEW r \in Regions PROVE x.pde[t][r] # f
  <2>1. <<t, r>> \in Tasks \X Regions /\ <<t, r>> \notin Tables(x, f)
    BY <1>2
  <2> QED BY <2>1 DEF Tables
<1> QED BY <1>2, <1>3, <1>4

(***************************************************************************)
(* A reference counts.                                                     *)
(***************************************************************************)
LEMMA ReferenceCounts ==
  ASSUME NEW x, Counted(x), NEW f \in Frames, NEW t \in Tasks
  PROVE  /\ \A v \in Pages : x.pte[t][v].frame = f =>
              <<t, v>> \in Users(x, f) /\ Cardinality(Users(x, f)) >= 1 /\ x.map[f] >= 1
         /\ \A r \in Regions : x.pde[t][r] = f =>
              <<t, r>> \in Tables(x, f) /\ Cardinality(Tables(x, f)) >= 1 /\ x.map[f] >= 1
<1>1. \A v \in Pages : x.pte[t][v].frame = f => <<t, v>> \in Users(x, f)
  BY DEF Users
<1>2. \A r \in Regions : x.pde[t][r] = f => <<t, r>> \in Tables(x, f)
  BY DEF Tables
<1>3. /\ Users(x, f) # {} => Cardinality(Users(x, f)) # 0
      /\ Tables(x, f) # {} => Cardinality(Tables(x, f)) # 0
  BY RefsFinite, FS_EmptySet
<1>4. x.map[f] = Cardinality(Users(x, f)) + Cardinality(Tables(x, f))
  BY DEF Counted
<1> HIDE DEF Counted
<1> QED BY <1>1, <1>2, <1>3, <1>4, RefsFinite

(***************************************************************************)
(* Two users of a page with count 1 are the same.                          *)
(***************************************************************************)
LEMMA OneUser ==
  ASSUME NEW x, Counted(x), NEW f \in Frames, x.map[f] = 1,
         NEW t \in Tasks, NEW v \in Pages, x.pte[t][v].frame = f,
         NEW u \in Tasks, NEW w \in Pages, x.pte[u][w].frame = f
  PROVE  t = u /\ v = w
<1>1. <<t, v>> \in Users(x, f) /\ <<u, w>> \in Users(x, f)
  BY DEF Users
<1>2. Cardinality(Users(x, f)) = 1
  <2>1. Cardinality(Users(x, f)) >= 1
    BY ReferenceCounts
  <2>2. x.map[f] = Cardinality(Users(x, f)) + Cardinality(Tables(x, f))
    BY DEF Counted
  <2> HIDE DEF Counted
  <2> QED BY <2>1, <2>2, RefsFinite
<1>3. PICK s : Users(x, f) = {s}
  BY <1>2, RefsFinite, FS_Singleton
<1> QED BY <1>1, <1>3

-----------------------------------------------------------------------------
(* The elementary changes of a memory, and what they preserve. *)

\* The free pages, those that free_pages counts.
Zero(x) == {f \in Frames : x.map[f] = 0}

\* What t reads at page v, and that u sees and shares in y what it did in x.
Seen(x, t, v) == IF Present(x, t, v) THEN x.data[x.pte[t][v].frame] ELSE Unmapped

SameView(x, y, u) == \A v \in Pages : /\ Seen(y, u, v) = Seen(x, u, v)
                                      /\ y.pte[u][v].shared = x.pte[u][v].shared

\* Only the memory of t is different: it has lost, or it has gained pages.
Elsewhere(x, y, t) == \A u \in Tasks \ {t} :
  SameView(x, y, u) /\ y.pte[u] = x.pte[u] /\ y.pde[u] = x.pde[u]

Grows(x, y, t) == /\ Elsewhere(x, y, t)
                  /\ \A v \in Pages : Seen(x, t, v) \in {Unmapped, Seen(y, t, v)}

Shrinks(x, y, t) == /\ Elsewhere(x, y, t)
                    /\ \A v \in Pages : Seen(y, t, v) \in {Unmapped, Seen(x, t, v)}

\* The page tables and counts of y are those of x.
SameTables(x, y) ==
  y \in Mem /\ y.map = x.map /\ y.free = x.free /\ y.pde = x.pde /\ y.pte = x.pte

\* No kernel page was taken or returned, and no panic forgotten.
Upward(x, y) == y.kernel_map = x.kernel_map /\ (y.panic = "none" => x.panic = "none")

(***************************************************************************)
(* The fields of a memory have their types.                                *)
(***************************************************************************)
LEMMA MemType ==
  ASSUME NEW x \in Mem
  PROVE  /\ x.map \in [Frames -> Nat] /\ x.free \in Int /\ x.data \in [Frames -> Values]
         /\ x.pde \in [Tasks -> [Regions -> 0 .. NFrame]]
         /\ x.pte \in [Tasks -> [Pages -> Pte]]
         /\ x.kernel_map \in SUBSET (1 .. NKpage) /\ x.panic \in Reasons
         /\ \A t \in Tasks, v \in Pages :
              /\ x.pte[t][v] \in Pte /\ x.pte[t][v].frame \in 0 .. NFrame
              /\ x.pte[t][v].write \in BOOLEAN /\ x.pte[t][v].shared \in BOOLEAN
              /\ Present(x, t, v) => x.pte[t][v].frame \in Frames
              /\ Seen(x, t, v) \in Values \cup {Unmapped}
              /\ Present(x, t, v) <=> Seen(x, t, v) # Unmapped
         /\ \A t \in Tasks, r \in Regions : x.pde[t][r] \in 0 .. NFrame
<1>1. /\ x.map \in [Frames -> Nat] /\ x.free \in Int /\ x.data \in [Frames -> Values]
      /\ x.pde \in [Tasks -> [Regions -> 0 .. NFrame]]
      /\ x.pte \in [Tasks -> [Pages -> Pte]]
      /\ x.kernel_map \in SUBSET (1 .. NKpage) /\ x.panic \in Reasons
  BY DEF Mem, Regions
<1>2. ASSUME NEW t \in Tasks, NEW v \in Pages
      PROVE  /\ x.pte[t][v] \in Pte /\ x.pte[t][v].frame \in 0 .. NFrame
             /\ x.pte[t][v].write \in BOOLEAN /\ x.pte[t][v].shared \in BOOLEAN
             /\ Present(x, t, v) => x.pte[t][v].frame \in Frames
             /\ Seen(x, t, v) \in Values \cup {Unmapped}
             /\ Present(x, t, v) <=> Seen(x, t, v) # Unmapped
  <2>1. x.pte[t][v] \in Pte
    BY <1>1
  <2>2. /\ x.pte[t][v].frame \in 0 .. NFrame /\ x.pte[t][v].write \in BOOLEAN
        /\ x.pte[t][v].shared \in BOOLEAN
    BY <2>1 DEF Pte
  <2>3. Present(x, t, v) => x.pte[t][v].frame \in Frames
    BY <2>2, Layout DEF Present
  <2>4. Present(x, t, v) => x.data[x.pte[t][v].frame] \in Values
    BY <1>1, <2>3
  <2> QED BY <2>1, <2>2, <2>3, <2>4, MemoryAssumption DEF Seen
<1>3. \A t \in Tasks, r \in Regions : x.pde[t][r] \in 0 .. NFrame
  BY <1>1
<1> QED BY <1>1, <1>2, <1>3

(***************************************************************************)
(* Memories with the same tables are as good as each other.                *)
(***************************************************************************)
LEMMA SameKeeps ==
  ASSUME NEW x, NEW y, SameTables(x, y)
  PROVE  /\ Base(x) => Base(y)
         /\ Cow(x) => Cow(y)
         /\ Tidy(x) => Tidy(y)
         /\ \A t \in Tasks : Bare(x, t) <=> Bare(y, t)
         /\ \A t \in Tasks, v \in Pages : Present(y, t, v) <=> Present(x, t, v)
         /\ y.data = x.data => \A t \in Tasks : SameView(x, y, t)
<1>1. y \in Mem /\ y.map = x.map /\ y.free = x.free /\ y.pde = x.pde /\ y.pte = x.pte
  BY DEF SameTables
<1>2. \A t \in Tasks, v \in Pages : Present(y, t, v) <=> Present(x, t, v)
  BY <1>1 DEF Present
<1>3. \A f : Users(y, f) = Users(x, f) /\ Tables(y, f) = Tables(x, f)
  BY <1>1 DEF Users, Tables
<1>4. Base(x) => Base(y)
  <2>1. Counted(x) => Counted(y)
    BY <1>1, <1>3 DEF Counted
  <2>2. Rooted(x) => Rooted(y)
    BY <1>1, <1>2 DEF Rooted
  <2>3. Apart(x) => Apart(y)
    BY <1>1, <1>2 DEF Apart
  <2> QED BY <1>1, <2>1, <2>2, <2>3 DEF Base
<1>5. Cow(x) => Cow(y)
  BY <1>1, <1>2 DEF Cow, Private, SamePlace
<1>6. Tidy(x) => Tidy(y)
  BY <1>1, <1>2 DEF Tidy
<1>7. \A t \in Tasks : Bare(x, t) <=> Bare(y, t)
  BY <1>1 DEF Bare
<1>8. y.data = x.data => \A t \in Tasks : SameView(x, y, t)
  BY <1>1, <1>2 DEF SameView, Seen
<1> QED BY <1>2, <1>4, <1>5, <1>6, <1>7, <1>8

(***************************************************************************)
(* The lowest free page is free.                                           *)
(***************************************************************************)
LEMMA FreeFrameFree ==
  ASSUME NEW x
  PROVE  /\ FreeFrame(x) = None => Zero(x) = {}
         /\ FreeFrame(x) # None =>
              FreeFrame(x) \in Frames /\ x.map[FreeFrame(x)] = 0
<1>1. FreeFrame(x) = IF Zero(x) = {} THEN None ELSE Min(Zero(x))
  BY DEF FreeFrame, Zero
<1>2. Zero(x) # {} => Min(Zero(x)) \in Zero(x)
  <2>1. Zero(x) \in SUBSET Nat
    BY Layout DEF Zero
  <2> QED BY <2>1, MinExists
<1>3. Zero(x) # {} => FreeFrame(x) # None
  BY <1>1, <1>2, Layout DEF Zero
<1> QED BY <1>1, <1>2, <1>3 DEF Zero

(***************************************************************************)
(* get_user_page takes a page, or panics.                                  *)
(***************************************************************************)
LEMMA GetPage ==
  ASSUME NEW x \in Mem
  PROVE  /\ FreeFrame(x) # None =>
              get_user_page(x) = [x EXCEPT !.map[FreeFrame(x)] = 1, !.free = x.free - 1]
         /\ FreeFrame(x) = None => get_user_page(x) = Panic(x, "oom")
BY DEF get_user_page

(***************************************************************************)
(* One free page less, or some more.                                       *)
(***************************************************************************)
LEMMA FreeCount ==
  ASSUME NEW x, NEW y, x.free = Cardinality(Zero(x))
  PROVE  /\ \A f \in Zero(x) : Zero(y) = Zero(x) \ {f} /\ y.free = x.free - 1
              => y.free = Cardinality(Zero(y))
         /\ \A U \in SUBSET Frames :
              Zero(y) = Zero(x) \cup U /\ U \cap Zero(x) = {}
                /\ y.free = x.free + Cardinality(U) => y.free = Cardinality(Zero(y))
<1>1. Zero(x) \in SUBSET Frames
  BY DEF Zero
<1>2. IsFiniteSet(Zero(x)) /\ Cardinality(Zero(x)) \in Nat
  BY <1>1, Finite, FS_Subset, FS_CardinalityType
<1>3. ASSUME NEW f \in Zero(x), Zero(y) = Zero(x) \ {f}, y.free = x.free - 1
      PROVE  y.free = Cardinality(Zero(y))
  BY <1>2, <1>3, FS_RemoveElement
<1>4. ASSUME NEW U \in SUBSET Frames, Zero(y) = Zero(x) \cup U, U \cap Zero(x) = {},
             y.free = x.free + Cardinality(U)
      PROVE  y.free = Cardinality(Zero(y))
  <2>1. IsFiniteSet(U) /\ Cardinality(U) \in Nat
    BY Finite, FS_Subset, FS_CardinalityType
  <2>2. Cardinality(Zero(x) \cup U)
          = Cardinality(Zero(x)) + Cardinality(U) - Cardinality(Zero(x) \cap U)
    BY <1>2, <2>1, FS_Union
  <2>3. Zero(x) \cap U = {} /\ Cardinality(Zero(x) \cap U) = 0
    BY <1>4, FS_EmptySet
  <2> QED BY <1>2, <1>4, <2>1, <2>2, <2>3
<1> QED BY <1>3, <1>4

(***************************************************************************)
(* get_pte: a free page becomes a page table.                              *)
(***************************************************************************)
NewTable(x, y, t, r, f) ==
  /\ y \in Mem /\ f \in Frames /\ x.map[f] = 0 /\ x.pde[t][r] = None
  /\ y.map = [x.map EXCEPT ![f] = 1] /\ y.free = x.free - 1
  /\ y.pde = [x.pde EXCEPT ![t][r] = f] /\ y.pte = x.pte /\ y.data = x.data

\* A new page table keeps the counts, the sharing and the free pages in order.
LEMMA NewTableKeeps ==
  ASSUME NEW x, Base(x), NEW y, NEW t \in Tasks, NEW r \in Regions, NEW f,
         NewTable(x, y, t, r, f)
  PROVE  /\ Base(y)
         /\ Cow(x) => Cow(y)
         /\ Tidy(x) => Tidy(y)
         /\ Grows(x, y, t) /\ SameView(x, y, t)
<1>1. /\ y \in Mem /\ f \in Frames /\ x.map[f] = 0 /\ x.pde[t][r] = None
      /\ y.map = [x.map EXCEPT ![f] = 1] /\ y.free = x.free - 1
      /\ y.pde = [x.pde EXCEPT ![t][r] = f] /\ y.pte = x.pte /\ y.data = x.data
  BY DEF NewTable
<1>2. x \in Mem /\ Counted(x) /\ Rooted(x) /\ Apart(x)
  BY DEF Base
<1>3. /\ Users(x, f) = {} /\ Tables(x, f) = {}
      /\ \A u \in Tasks, v \in Pages : x.pte[u][v].frame # f
  BY <1>1, <1>2, Unreferenced
<1>4. /\ x.map \in [Frames -> Nat] /\ x.pde \in [Tasks -> [Regions -> 0 .. NFrame]]
      /\ \A g \in Frames : y.map[g] = IF g = f THEN 1 ELSE x.map[g]
      /\ \A u \in Tasks, s \in Regions :
           y.pde[u][s] = IF u = t /\ s = r THEN f ELSE x.pde[u][s]
      /\ \A u \in Tasks \ {t} : y.pde[u] = x.pde[u]
  BY <1>1, <1>2, MemType
<1>5. \A u \in Tasks, v \in Pages : Present(y, u, v) <=> Present(x, u, v)
  BY <1>1 DEF Present
<1>6. Counted(y)
  <2>1. ASSUME NEW g \in Frames
        PROVE  y.map[g] = Cardinality(Users(y, g)) + Cardinality(Tables(y, g))
    <3>1. Users(y, g) = Users(x, g)
      BY <1>1 DEF Users
    <3>2. CASE g = f
      <4>1. Tables(y, f) = {<<t, r>>}
        BY <1>3, <1>4 DEF Tables
      <4>2. Cardinality({<<t, r>>}) = 1 /\ Cardinality({}) = 0
        BY FS_Singleton, FS_EmptySet
      <4>3. Cardinality(Users(y, g)) = 0 /\ Cardinality(Tables(y, g)) = 1
        BY <1>3, <3>1, <3>2, <4>1, <4>2
      <4>4. y.map[g] = 1
        BY <1>4, <3>2
      <4> QED BY <4>3, <4>4
    <3>3. CASE g # f
      <4>1. Tables(y, g) = Tables(x, g)
        BY <1>1, <1>4, <3>3, Layout DEF Tables
      <4>2. x.map[g] = Cardinality(Users(x, g)) + Cardinality(Tables(x, g))
        BY <1>2 DEF Counted
      <4> QED BY <1>4, <3>1, <3>3, <4>1, <4>2
    <3> QED BY <3>2, <3>3
  <2>2. f \in Zero(x) /\ Zero(y) = Zero(x) \ {f}
    BY <1>1, <1>4 DEF Zero
  <2>3. x.free = Cardinality(Zero(x))
    BY <1>2 DEF Counted, Zero
  <2>4. y.free = Cardinality(Zero(y))
    BY <1>1, <2>2, <2>3, FreeCount
  <2> QED BY <2>1, <2>4 DEF Counted, Zero
<1>7. Rooted(y)
  BY <1>1, <1>2, <1>4, <1>5, Layout DEF Rooted
<1>8. Apart(y)
  BY <1>1, <1>2, <1>3, <1>4, <1>5 DEF Apart
<1>9. Cow(x) => Cow(y)
  <2>1. ASSUME Private(x) PROVE Private(y)
    <3> SUFFICES ASSUME NEW u \in Tasks, NEW v \in Pages, Present(y, u, v),
                        y.pte[u][v].write, ~ y.pte[u][v].shared
                 PROVE  y.map[y.pte[u][v].frame] = 1
      BY DEF Private
    <3>1. x.map[x.pte[u][v].frame] = 1 /\ x.pte[u][v].frame \in Frames
      BY <1>1, <1>2, <1>5, <2>1, MemType DEF Private
    <3> QED BY <1>1, <1>4, <3>1
  <2>2. SamePlace(x) => SamePlace(y)
    BY <1>1, <1>5 DEF SamePlace
  <2> QED BY <2>1, <2>2 DEF Cow
<1>10. Tidy(x) => Tidy(y)
  BY <1>1, <1>5 DEF Tidy
<1>11. \A u \in Tasks : SameView(x, y, u)
  BY <1>1, <1>5 DEF SameView, Seen
<1>12. Grows(x, y, t)
  BY <1>1, <1>4, <1>11 DEF Grows, Elsewhere, SameView
<1> QED BY <1>1, <1>6, <1>7, <1>8, <1>9, <1>10, <1>11, <1>12 DEF Base

(***************************************************************************)
(* link_user_page: a free page is mapped.                                  *)
(***************************************************************************)
NewPage(x, y, t, v, f, new) ==
  /\ y \in Mem /\ f \in Frames /\ x.map[f] = 0 /\ ~ Present(x, t, v)
  /\ x.pde[t][Region(v)] # None
  /\ y.map = [x.map EXCEPT ![f] = 1] /\ y.free = x.free - 1
  /\ y.pde = x.pde /\ y.data = [x.data EXCEPT ![f] = new]
  /\ y.pte = [x.pte EXCEPT ![t][v] = [NoPte EXCEPT !.frame = f, !.write = TRUE]]

\* A new page keeps them as well.
LEMMA NewPageKeeps ==
  ASSUME NEW x, Base(x), NEW y, NEW t \in Tasks, NEW v \in Pages, NEW f, NEW new,
         NewPage(x, y, t, v, f, new)
  PROVE  /\ Base(y)
         /\ Cow(x) => Cow(y)
         /\ Tidy(x) => Tidy(y)
         /\ Grows(x, y, t)
         /\ \A w \in Pages \ {v} : y.pte[t][w] = x.pte[t][w]
         /\ Present(y, t, v) /\ y.pte[t][v].write /\ ~ y.pte[t][v].shared
         /\ y.map[y.pte[t][v].frame] = 1
<1>1. /\ y \in Mem /\ f \in Frames /\ x.map[f] = 0 /\ ~ Present(x, t, v)
      /\ x.pde[t][Region(v)] # None
      /\ y.map = [x.map EXCEPT ![f] = 1] /\ y.free = x.free - 1
      /\ y.pde = x.pde /\ y.data = [x.data EXCEPT ![f] = new]
      /\ y.pte = [x.pte EXCEPT ![t][v] = [NoPte EXCEPT !.frame = f, !.write = TRUE]]
  BY DEF NewPage
<1>2. x \in Mem /\ Counted(x) /\ Rooted(x) /\ Apart(x)
  BY DEF Base
<1>3. /\ Users(x, f) = {} /\ Tables(x, f) = {}
      /\ \A u \in Tasks, w \in Pages : x.pte[u][w].frame # f
      /\ \A u \in Tasks, r \in Regions : x.pde[u][r] # f
  BY <1>1, <1>2, Unreferenced
<1> DEFINE e == [NoPte EXCEPT !.frame = f, !.write = TRUE]
<1>4. e.frame = f /\ e.write = TRUE /\ e.shared = FALSE
  BY DEF NoPte
<1> HIDE DEF e
<1>5. /\ x.map \in [Frames -> Nat] /\ x.pte \in [Tasks -> [Pages -> Pte]]
      /\ \A g \in Frames : y.map[g] = IF g = f THEN 1 ELSE x.map[g]
      /\ \A g \in Frames : g # f => y.data[g] = x.data[g]
      /\ \A u \in Tasks, w \in Pages :
           y.pte[u][w] = IF u = t /\ w = v THEN e ELSE x.pte[u][w]
      /\ \A u \in Tasks \ {t} : y.pte[u] = x.pte[u]
  <2>1. /\ x.map \in [Frames -> Nat] /\ x.pte \in [Tasks -> [Pages -> Pte]]
        /\ x.data \in [Frames -> Values]
    BY <1>2, MemType
  <2>2. y.pte = [x.pte EXCEPT ![t][v] = e]
    BY <1>1 DEF e
  <2>3. /\ \A u \in Tasks, w \in Pages :
             y.pte[u][w] = IF u = t /\ w = v THEN e ELSE x.pte[u][w]
        /\ \A u \in Tasks \ {t} : y.pte[u] = x.pte[u]
    BY <2>1, <2>2
  <2> QED BY <1>1, <2>1, <2>3
<1>6. \A u \in Tasks, w \in Pages :
        Present(y, u, w) <=> Present(x, u, w) \/ (u = t /\ w = v)
  BY <1>1, <1>4, <1>5, Layout DEF Present
<1>7. Counted(y)
  <2>1. ASSUME NEW g \in Frames
        PROVE  y.map[g] = Cardinality(Users(y, g)) + Cardinality(Tables(y, g))
    <3>1. Tables(y, g) = Tables(x, g)
      BY <1>1 DEF Tables
    <3>2. CASE g = f
      <4>1. Users(y, f) = {<<t, v>>}
        BY <1>3, <1>4, <1>5 DEF Users
      <4>2. Cardinality({<<t, v>>}) = 1 /\ Cardinality({}) = 0
        BY FS_Singleton, FS_EmptySet
      <4>3. Cardinality(Users(y, g)) = 1 /\ Cardinality(Tables(y, g)) = 0
        BY <1>3, <3>1, <3>2, <4>1, <4>2
      <4>4. y.map[g] = 1
        BY <1>5, <3>2
      <4> QED BY <4>3, <4>4
    <3>3. CASE g # f
      <4>1. x.pte[t][v].frame # g
        BY <1>1, Layout DEF Present
      <4>2. Users(y, g) = Users(x, g)
        BY <1>4, <1>5, <3>3, <4>1 DEF Users
      <4>3. x.map[g] = Cardinality(Users(x, g)) + Cardinality(Tables(x, g))
        BY <1>2 DEF Counted
      <4> QED BY <1>5, <3>1, <3>3, <4>2, <4>3
    <3> QED BY <3>2, <3>3
  <2>2. f \in Zero(x) /\ Zero(y) = Zero(x) \ {f}
    BY <1>1, <1>5 DEF Zero
  <2>3. x.free = Cardinality(Zero(x))
    BY <1>2 DEF Counted, Zero
  <2>4. y.free = Cardinality(Zero(y))
    BY <1>1, <2>2, <2>3, FreeCount
  <2> QED BY <2>1, <2>4 DEF Counted, Zero
<1>8. Rooted(y)
  BY <1>1, <1>2, <1>6 DEF Rooted
<1>9. Apart(y)
  BY <1>1, <1>2, <1>3, <1>4, <1>5, <1>6 DEF Apart
<1>10. Cow(x) => Cow(y)
  <2>1. ASSUME Private(x) PROVE Private(y)
    <3> SUFFICES ASSUME NEW u \in Tasks, NEW w \in Pages, Present(y, u, w),
                        y.pte[u][w].write, ~ y.pte[u][w].shared
                 PROVE  y.map[y.pte[u][w].frame] = 1
      BY DEF Private
    <3>1. CASE u = t /\ w = v
      BY <1>1, <1>4, <1>5, <3>1
    <3>2. CASE ~ (u = t /\ w = v)
      <4>1. y.pte[u][w] = x.pte[u][w] /\ Present(x, u, w)
        BY <1>5, <1>6, <3>2
      <4>2. x.map[x.pte[u][w].frame] = 1 /\ x.pte[u][w].frame \in Frames
        BY <1>2, <4>1, <2>1, MemType DEF Private
      <4> QED BY <1>3, <1>5, <4>1, <4>2
    <3> QED BY <3>1, <3>2
  <2>2. SamePlace(x) => SamePlace(y)
    BY <1>1, <1>3, <1>4, <1>5, <1>6 DEF SamePlace
  <2> QED BY <2>1, <2>2 DEF Cow
<1>11. Tidy(x) => Tidy(y)
  BY <1>5, <1>6 DEF Tidy
<1>12. \A u \in Tasks, w \in Pages : ~ (u = t /\ w = v) =>
          Seen(y, u, w) = Seen(x, u, w) /\ y.pte[u][w].shared = x.pte[u][w].shared
  <2> SUFFICES ASSUME NEW u \in Tasks, NEW w \in Pages, ~ (u = t /\ w = v)
               PROVE  Seen(y, u, w) = Seen(x, u, w) /\ y.pte[u][w].shared = x.pte[u][w].shared
    OBVIOUS
  <2>1. y.pte[u][w] = x.pte[u][w] /\ (Present(y, u, w) <=> Present(x, u, w))
    BY <1>5, <1>6
  <2>2. Present(x, u, w) => x.pte[u][w].frame \in Frames /\ x.pte[u][w].frame # f
    BY <1>2, <1>3, MemType
  <2> QED BY <1>5, <2>1, <2>2 DEF Seen
<1>13. Seen(x, t, v) = Unmapped
  BY <1>1 DEF Seen
<1>14. Grows(x, y, t)
  BY <1>1, <1>5, <1>12, <1>13 DEF Grows, Elsewhere, SameView
<1>15. /\ Present(y, t, v) /\ y.pte[t][v].write /\ ~ y.pte[t][v].shared
       /\ y.map[y.pte[t][v].frame] = 1
       /\ \A w \in Pages \ {v} : y.pte[t][w] = x.pte[t][w]
  <2>1. y.pte[t][v] = e /\ y.map[f] = 1 /\ Present(y, t, v)
    BY <1>1, <1>5, <1>6
  <2>2. y.pte[t][v].write /\ ~ y.pte[t][v].shared /\ y.pte[t][v].frame = f
    BY <1>4, <2>1
  <2>3. \A w \in Pages \ {v} : y.pte[t][w] = x.pte[t][w]
    BY <1>5
  <2> QED BY <2>1, <2>2, <2>3
<1>16. Base(y)
  BY <1>1, <1>7, <1>8, <1>9 DEF Base
<1> QED BY <1>10, <1>11, <1>14, <1>15, <1>16

\* The pages of V where t has page f.
Held(x, t, V, f) == {v \in V : x.pte[t][v].frame = f}

\* The same pages of u.
HeldBy(u, x, t, V, f) == {u} \X Held(x, t, V, f)

(***************************************************************************)
(* The pages where a process has page f are finitely many.                 *)
(***************************************************************************)
LEMMA HeldCount ==
  ASSUME NEW x, NEW t, NEW V \in SUBSET Pages, NEW f
  PROVE  /\ IsFiniteSet(Held(x, t, V, f)) /\ Cardinality(Held(x, t, V, f)) \in Nat
         /\ Held(x, t, V, f) = {} => Cardinality(Held(x, t, V, f)) = 0
<1>1. Held(x, t, V, f) \in SUBSET Pages
  BY DEF Held
<1>2. IsFiniteSet(Held(x, t, V, f)) /\ Cardinality(Held(x, t, V, f)) \in Nat
  BY <1>1, Finite, FS_Subset, FS_CardinalityType
<1> QED BY <1>2, FS_EmptySet

(***************************************************************************)
(* They are users of f, and as many where another process has them.        *)
(***************************************************************************)
LEMMA HeldUsers ==
  ASSUME NEW x, NEW t \in Tasks, NEW V \in SUBSET Pages, NEW f, NEW u
  PROVE  /\ HeldBy(t, x, t, V, f) \in SUBSET Users(x, f)
         /\ IsFiniteSet(HeldBy(u, x, t, V, f))
         /\ Cardinality(HeldBy(u, x, t, V, f)) = Cardinality(Held(x, t, V, f))
<1>1. HeldBy(t, x, t, V, f) \in SUBSET Users(x, f)
  BY DEF HeldBy, Held, Users
<1>2. IsFiniteSet({u}) /\ Cardinality({u}) = 1
  BY FS_Singleton
<1>3. IsFiniteSet(Held(x, t, V, f)) /\ Cardinality(Held(x, t, V, f)) \in Nat
  BY HeldCount
<1>4. /\ IsFiniteSet({u} \X Held(x, t, V, f))
      /\ Cardinality({u} \X Held(x, t, V, f)) = 1 * Cardinality(Held(x, t, V, f))
  BY <1>2, <1>3, FS_Product
<1> QED BY <1>1, <1>3, <1>4 DEF HeldBy

(***************************************************************************)
(* unlink_user_page and free_pte: the entries of V go.                     *)
(***************************************************************************)
LEMMA DropKeeps ==
  ASSUME NEW x, Base(x), NEW t \in Tasks, NEW V \in SUBSET Pages
  PROVE  LET y == DropPages(x, t, V) IN
         /\ Base(y)
         /\ Cow(x) => Cow(y)
         /\ Tidy(x) => Tidy(y)
         /\ Shrinks(x, y, t) /\ Upward(x, y) /\ y.panic = x.panic /\ y.pde = x.pde
         /\ \A v \in Pages : y.pte[t][v] = IF v \in V THEN NoPte ELSE x.pte[t][v]
<1> DEFINE Gone == [f \in Frames |-> Cardinality({v \in V : x.pte[t][v].frame = f})]
           Unused == {f \in Frames : Gone[f] > 0 /\ x.map[f] = Gone[f]}
           y == DropPages(x, t, V)
<1>1. x \in Mem /\ Counted(x) /\ Rooted(x) /\ Apart(x)
  BY DEF Base
<1>2. y = [x EXCEPT !.map = [f \in Frames |-> x.map[f] - Gone[f]],
                    !.free = x.free + Cardinality(Unused),
                    !.data = [f \in Frames |-> IF f \in Unused THEN 0 ELSE x.data[f]],
                    !.pte[t] = [v \in Pages |-> IF v \in V THEN NoPte ELSE x.pte[t][v]]]
  BY DEF DropPages
<1>3. \A f \in Frames : Gone[f] = Cardinality(Held(x, t, V, f))
  BY DEF Held
<1>4. Unused \in SUBSET Frames
  OBVIOUS
<1>5. Unused = {f \in Frames : Gone[f] > 0 /\ x.map[f] = Gone[f]}
  OBVIOUS
<1> HIDE DEF Gone, Unused, y
<1>6. /\ x.map \in [Frames -> Nat] /\ x.data \in [Frames -> Values]
      /\ x.pte \in [Tasks -> [Pages -> Pte]] /\ x.free \in Int
  BY <1>1, MemType
<1>7. /\ y.map = [f \in Frames |-> x.map[f] - Gone[f]]
      /\ y.free = x.free + Cardinality(Unused)
      /\ y.data = [f \in Frames |-> IF f \in Unused THEN 0 ELSE x.data[f]]
      /\ y.pte = [x.pte EXCEPT ![t] = [v \in Pages |->
                                         IF v \in V THEN NoPte ELSE x.pte[t][v]]]
      /\ y.pde = x.pde /\ y.panic = x.panic /\ y.kernel_map = x.kernel_map
  BY <1>1, <1>2 DEF Mem
<1>8. /\ \A v \in Pages : y.pte[t][v] = IF v \in V THEN NoPte ELSE x.pte[t][v]
      /\ \A u \in Tasks \ {t} : y.pte[u] = x.pte[u]
  BY <1>6, <1>7
<1>9. \A u \in Tasks, v \in Pages :
        y.pte[u][v] = IF u = t /\ v \in V THEN NoPte ELSE x.pte[u][v]
  BY <1>8
<1>10. /\ NoPte.frame = None /\ None \notin Frames /\ ~ NoPte.write /\ NoPte.shared = FALSE
       /\ NoPte \in Pte
  BY Layout DEF NoPte, Pte
<1>11. ASSUME NEW f \in Frames
       PROVE  /\ Cardinality(Users(y, f)) = Cardinality(Users(x, f)) - Gone[f]
              /\ Gone[f] \in Nat /\ Gone[f] <= Cardinality(Users(x, f))
  <2> DEFINE H == HeldBy(t, x, t, V, f)
  <2>1. H \in SUBSET Users(x, f) /\ IsFiniteSet(H) /\ Cardinality(H) = Gone[f]
    BY <1>3, HeldUsers, ZenonT(60)
  <2>2. Users(y, f) = Users(x, f) \ H
    BY <1>9, <1>10 DEF Users, Held, HeldBy
  <2> HIDE DEF H
  <2>3. IsFiniteSet(Users(x, f)) /\ Cardinality(Users(x, f)) \in Nat
    BY RefsFinite
  <2>4. Users(x, f) \cap H = H
    BY <2>1
  <2>5. Cardinality(Users(x, f) \ H) = Cardinality(Users(x, f)) - Cardinality(H)
    BY <2>3, <2>4, FS_Difference
  <2>6. Cardinality(H) <= Cardinality(Users(x, f)) /\ Cardinality(H) \in Nat
    BY <2>1, <2>3, FS_Subset, FS_CardinalityType
  <2> QED BY <2>1, <2>2, <2>5, <2>6
<1>12. ASSUME NEW f \in Frames
       PROVE  /\ y.map[f] = Cardinality(Users(y, f)) + Cardinality(Tables(y, f))
              /\ y.map[f] = x.map[f] - Gone[f] /\ y.map[f] \in Nat /\ Gone[f] \in Nat
  <2>1. x.map[f] = Cardinality(Users(x, f)) + Cardinality(Tables(x, f))
    BY <1>1 DEF Counted
  <2>2. Tables(y, f) = Tables(x, f)
    BY <1>7 DEF Tables
  <2>3. y.map[f] = x.map[f] - Gone[f]
    BY <1>7
  <2> QED BY <1>11, <2>1, <2>2, <2>3, RefsFinite
<1>13. y.free = Cardinality(Zero(y))
  <2>1. x.free = Cardinality(Zero(x))
    BY <1>1 DEF Counted, Zero
  <2>2. Zero(y) = Zero(x) \cup Unused /\ Unused \cap Zero(x) = {}
    <3>1. ASSUME NEW f \in Frames
          PROVE  /\ f \in Zero(y) <=> f \in Zero(x) \/ f \in Unused
                 /\ ~ (f \in Unused /\ f \in Zero(x))
      <4>1. y.map[f] = x.map[f] - Gone[f] /\ y.map[f] \in Nat /\ Gone[f] \in Nat
        BY <1>12
      <4>2. x.map[f] \in Nat
        BY <1>6
      <4>3. f \in Unused <=> Gone[f] > 0 /\ x.map[f] = Gone[f]
        BY <1>5
      <4> QED BY <4>1, <4>2, <4>3 DEF Zero
    <3> QED BY <1>4, <3>1 DEF Zero
  <2> QED BY <1>4, <1>7, <2>1, <2>2, FreeCount
<1>14. Counted(y)
  BY <1>12, <1>13 DEF Counted, Zero
<1>15. y \in Mem
  <2>1. y.map \in [Frames -> Nat]
    BY <1>7, <1>12
  <2>2. y.free \in Int
    <3>1. Cardinality(Unused) \in Nat
      BY <1>4, Finite, FS_Subset, FS_CardinalityType
    <3> QED BY <1>6, <1>7, <3>1
  <2>3. y.data \in [Frames -> Values]
    BY <1>6, <1>7, MemoryAssumption
  <2>4. y.pte \in [Tasks -> [Pages -> Pte]]
    BY <1>6, <1>7, <1>10
  <2> QED BY <1>1, <1>2, <2>1, <2>2, <2>3, <2>4, <1>7 DEF Mem
<1>16. \A u \in Tasks, v \in Pages :
         Present(y, u, v) => /\ Present(x, u, v) /\ y.pte[u][v] = x.pte[u][v]
                             /\ ~ (u = t /\ v \in V)
  BY <1>9, <1>10 DEF Present
<1>17. Rooted(y) /\ Apart(y)
  BY <1>1, <1>7, <1>16 DEF Rooted, Apart
<1>18. Cow(x) => Cow(y)
  <2>1. ASSUME Private(x) PROVE Private(y)
    <3> SUFFICES ASSUME NEW u \in Tasks, NEW v \in Pages, Present(y, u, v),
                        y.pte[u][v].write, ~ y.pte[u][v].shared
                 PROVE  y.map[y.pte[u][v].frame] = 1
      BY DEF Private
    <3> DEFINE f == y.pte[u][v].frame
    <3>1. x.map[f] = 1 /\ f \in Frames
      BY <1>1, <1>16, <2>1, MemType DEF Private
    <3>2. y.map[f] >= 1
      BY <1>14, <3>1, ReferenceCounts
    <3>3. y.map[f] <= x.map[f] /\ y.map[f] \in Nat
      BY <1>6, <1>12, <3>1
    <3> QED BY <3>1, <3>2, <3>3
  <2>2. ASSUME SamePlace(x) PROVE SamePlace(y)
    <3> SUFFICES ASSUME NEW s \in Tasks, NEW u \in Tasks, NEW v \in Pages, NEW w \in Pages,
                        Present(y, s, v), y.pte[u][w].frame = y.pte[s][v].frame
                 PROVE  v = w /\ y.pte[u][w].shared = y.pte[s][v].shared
      BY DEF SamePlace
    <3>1. Present(y, u, w)
      BY DEF Present
    <3> QED BY <1>16, <2>2, <3>1, SMTT(30) DEF SamePlace
  <2> QED BY <2>1, <2>2 DEF Cow
<1>19. Tidy(x) => Tidy(y)
  BY <1>9, <1>16 DEF Tidy, Present
<1>20. ASSUME NEW u \in Tasks, NEW v \in Pages, Present(y, u, v)
       PROVE  Seen(y, u, v) = Seen(x, u, v)
  <2>1. y.pte[u][v].frame \in Frames /\ Present(x, u, v) /\ y.pte[u][v] = x.pte[u][v]
    BY <1>15, <1>16, <1>20, MemType
  <2>2. y.map[y.pte[u][v].frame] >= 1
    BY <1>14, <2>1, ReferenceCounts
  <2>3. y.pte[u][v].frame \notin Unused
    <3> DEFINE f == y.pte[u][v].frame
    <3>1. f \in Frames /\ y.map[f] >= 1 /\ y.map[f] = x.map[f] - Gone[f] /\ x.map[f] \in Nat
          /\ Gone[f] \in Nat
      BY <1>6, <1>12, <2>1, <2>2
    <3> HIDE DEF f
    <3>2. x.map[f] # Gone[f]
      BY <3>1
    <3> QED BY <1>5, <3>1, <3>2 DEF f
  <2> QED BY <1>7, <1>20, <2>1, <2>3 DEF Seen
<1>21. Shrinks(x, y, t)
  <2>1. ASSUME NEW u \in Tasks \ {t} PROVE SameView(x, y, u)
    <3>1. \A v \in Pages : y.pte[u][v] = x.pte[u][v] /\ (Present(y, u, v) <=> Present(x, u, v))
      BY <1>8 DEF Present
    <3> QED BY <1>20, <3>1 DEF SameView, Seen
  <2>2. \A v \in Pages : Seen(y, t, v) \in {Unmapped, Seen(x, t, v)}
    <3> SUFFICES ASSUME NEW v \in Pages PROVE Seen(y, t, v) \in {Unmapped, Seen(x, t, v)}
      OBVIOUS
    <3>1. CASE Present(y, t, v)
      BY <1>20, <3>1
    <3>2. CASE ~ Present(y, t, v)
      BY <3>2 DEF Seen
    <3> QED BY <3>1, <3>2
  <2> QED BY <1>7, <1>8, <2>1, <2>2 DEF Shrinks, Elsewhere
<1>22. Base(y)
  BY <1>14, <1>15, <1>17 DEF Base
<1> QED BY <1>7, <1>8, <1>18, <1>19, <1>21, <1>22 DEF Upward, y

(***************************************************************************)
(* free_pte: a page table goes that maps nothing any more.                 *)
(***************************************************************************)
LEMMA PutTableKeeps ==
  ASSUME NEW x, Base(x), NEW t \in Tasks, NEW r \in Regions, x.pde[t][r] # None,
         \A v \in Pages : Region(v) = r => ~ Present(x, t, v)
  PROVE  LET f == x.pde[t][r]
             y == [put_user_page(x, f) EXCEPT !.pde[t][r] = None] IN
         /\ Base(y)
         /\ Cow(x) => Cow(y)
         /\ Tidy(x) => Tidy(y)
         /\ Shrinks(x, y, t) /\ SameView(x, y, t) /\ Upward(x, y) /\ y.panic = x.panic
         /\ y.pte = x.pte /\ y.pde = [x.pde EXCEPT ![t][r] = None]
<1> DEFINE f == x.pde[t][r]
           y == [put_user_page(x, f) EXCEPT !.pde[t][r] = None]
<1>1. x \in Mem /\ Counted(x) /\ Rooted(x) /\ Apart(x)
  BY DEF Base
<1>2. /\ x.map \in [Frames -> Nat] /\ x.data \in [Frames -> Values] /\ x.free \in Int
      /\ x.pde \in [Tasks -> [Regions -> 0 .. NFrame]]
  BY <1>1, MemType
<1>3. f \in Frames
  BY <1>2, Layout
<1>4. <<t, r>> \in Tables(x, f) /\ x.map[f] >= 1 /\ x.map[f] \in Nat
  BY <1>1, <1>2, <1>3, ReferenceCounts
<1>5. /\ y.map = [x.map EXCEPT ![f] = x.map[f] - 1]
      /\ y.free = IF x.map[f] = 1 THEN x.free + 1 ELSE x.free
      /\ y.data = IF x.map[f] = 1 THEN [x.data EXCEPT ![f] = 0] ELSE x.data
      /\ y.pde = [x.pde EXCEPT ![t][r] = None] /\ y.pte = x.pte
      /\ y.panic = x.panic /\ y.kernel_map = x.kernel_map
  <2> HIDE DEF f
  <2>1. CASE x.map[f] = 1
    <3>1. /\ y = [x EXCEPT !.map[f] = 0, !.free = x.free + 1, !.data[f] = 0,
                          !.pde[t][r] = None]
          /\ x.map[f] - 1 = 0
      BY <2>1 DEF put_user_page
    <3> HIDE DEF y
    <3> QED BY <1>1, <2>1, <3>1 DEF Mem
  <2>2. CASE x.map[f] # 1
    <3>1. y = [x EXCEPT !.map[f] = x.map[f] - 1, !.pde[t][r] = None]
      BY <2>2 DEF put_user_page
    <3> HIDE DEF y
    <3> QED BY <1>1, <2>2, <3>1 DEF Mem
  <2> QED BY <2>1, <2>2
<1>6. y \in Mem
  <2>1. y = [x EXCEPT !.map = y.map, !.free = y.free, !.data = y.data, !.pde = y.pde]
    <3> HIDE DEF f
    <3>1. CASE x.map[f] = 1
      <4>1. y = [x EXCEPT !.map[f] = 0, !.free = x.free + 1, !.data[f] = 0,
                          !.pde[t][r] = None]
        BY <3>1 DEF put_user_page
      <4> HIDE DEF y
      <4> QED BY <1>1, <4>1 DEF Mem
    <3>2. CASE x.map[f] # 1
      <4>1. y = [x EXCEPT !.map[f] = x.map[f] - 1, !.pde[t][r] = None]
        BY <3>2 DEF put_user_page
      <4> HIDE DEF y
      <4> QED BY <1>1, <4>1 DEF Mem
    <3> QED BY <3>1, <3>2
  <2> HIDE DEF y, f
  <2>2. y.map \in [Frames -> Nat] /\ y.data \in [Frames -> Values] /\ y.free \in Int
    BY <1>2, <1>3, <1>4, <1>5, MemoryAssumption
  <2>3. y.pde \in [Tasks -> [1 .. 2 -> 0 .. NFrame]]
    BY <1>2, <1>5, Layout DEF Regions
  <2> QED BY <1>1, <2>1, <2>2, <2>3 DEF Mem
<1> HIDE DEF y, f
<1>7. /\ \A u \in Tasks, s \in Regions :
           y.pde[u][s] = IF u = t /\ s = r THEN None ELSE x.pde[u][s]
      /\ \A g \in Frames : y.map[g] = IF g = f THEN x.map[f] - 1 ELSE x.map[g]
      /\ \A g \in Frames : y.data[g] = IF g = f /\ x.map[f] = 1 THEN 0 ELSE x.data[g]
  BY <1>2, <1>3, <1>5
<1>8. \A u \in Tasks, v \in Pages : Present(y, u, v) <=> Present(x, u, v)
  BY <1>5 DEF Present
<1>9. \A u \in Tasks, v \in Pages : Present(x, u, v) => x.pte[u][v].frame # f
  BY <1>1 DEF Apart, f
<1>10. ASSUME NEW g \in Frames
       PROVE  y.map[g] = Cardinality(Users(y, g)) + Cardinality(Tables(y, g))
  <2>1. x.map[g] = Cardinality(Users(x, g)) + Cardinality(Tables(x, g))
    BY <1>1 DEF Counted
  <2>2. Users(y, g) = Users(x, g)
    BY <1>5 DEF Users
  <2>3. CASE g = f
    <3>1. Tables(y, f) = Tables(x, f) \ {<<t, r>>}
      BY <1>3, <1>7, Layout DEF Tables
    <3>2. Cardinality(Tables(y, f)) = Cardinality(Tables(x, f)) - 1
      BY <1>4, <3>1, RefsFinite, FS_RemoveElement
    <3>3. Cardinality(Users(x, f)) \in Nat /\ Cardinality(Tables(x, f)) \in Nat
      BY RefsFinite
    <3> QED BY <1>3, <1>7, <2>1, <2>2, <2>3, <3>2, <3>3
  <2>4. CASE g # f
    <3>1. Tables(y, g) = Tables(x, g)
      BY <1>7, <2>4, Layout DEF Tables, f
    <3> QED BY <1>7, <2>1, <2>2, <2>4, <3>1
  <2> QED BY <2>3, <2>4
<1>11. y.free = Cardinality(Zero(y))
  <2>1. x.free = Cardinality(Zero(x))
    BY <1>1 DEF Counted, Zero
  <2>2. CASE x.map[f] = 1
    <3>1. Zero(y) = Zero(x) \cup {f} /\ {f} \cap Zero(x) = {} /\ {f} \in SUBSET Frames
      BY <1>3, <1>7, <2>2 DEF Zero
    <3>2. Cardinality({f}) = 1
      BY FS_Singleton
    <3>3. y.free = x.free + Cardinality({f})
      BY <1>5, <2>2, <3>2
    <3> QED BY <2>1, <3>1, <3>3, FreeCount
  <2>3. CASE x.map[f] # 1
    <3>1. Zero(y) = Zero(x)
      BY <1>3, <1>4, <1>7, <2>3 DEF Zero
    <3> QED BY <1>5, <2>1, <2>3, <3>1
  <2> QED BY <2>2, <2>3
<1>12. Counted(y)
  BY <1>10, <1>11 DEF Counted, Zero
<1>13. Rooted(y)
  BY <1>1, <1>5, <1>7, <1>8, Layout DEF Rooted
<1>14. Apart(y)
  <2> SUFFICES ASSUME NEW s \in Tasks, NEW u \in Tasks, NEW v \in Pages, NEW q \in Regions,
                      Present(y, s, v)
               PROVE  y.pde[u][q] # y.pte[s][v].frame
    BY DEF Apart
  <2> QED BY <1>1, <1>5, <1>7, <1>8 DEF Apart, Present
<1>15. Cow(x) => Cow(y)
  <2>1. ASSUME Private(x) PROVE Private(y)
    <3> SUFFICES ASSUME NEW u \in Tasks, NEW v \in Pages, Present(y, u, v),
                        y.pte[u][v].write, ~ y.pte[u][v].shared
                 PROVE  y.map[y.pte[u][v].frame] = 1
      BY DEF Private
    <3>1. x.map[x.pte[u][v].frame] = 1 /\ x.pte[u][v].frame \in Frames
      BY <1>1, <1>5, <1>8, <2>1, MemType DEF Private
    <3> QED BY <1>5, <1>7, <1>8, <1>9, <3>1
  <2>2. SamePlace(x) => SamePlace(y)
    BY <1>5, <1>8 DEF SamePlace
  <2> QED BY <2>1, <2>2 DEF Cow
<1>16. Tidy(x) => Tidy(y)
  BY <1>5, <1>8 DEF Tidy
<1>17. \A u \in Tasks : SameView(x, y, u)
  <2> SUFFICES ASSUME NEW u \in Tasks, NEW v \in Pages
               PROVE  Seen(y, u, v) = Seen(x, u, v) /\ y.pte[u][v].shared = x.pte[u][v].shared
    BY DEF SameView
  <2>1. Present(x, u, v) => x.pte[u][v].frame \in Frames /\ x.pte[u][v].frame # f
    BY <1>1, <1>9, MemType
  <2> QED BY <1>5, <1>7, <1>8, <2>1 DEF Seen
<1>18. \A u \in Tasks \ {t} : y.pde[u] = x.pde[u]
  BY <1>2, <1>5
<1>19. Shrinks(x, y, t)
  BY <1>5, <1>17, <1>18 DEF Shrinks, Elsewhere, SameView
<1>20. Base(y)
  BY <1>6, <1>12, <1>13, <1>14 DEF Base
<1> QED BY <1>5, <1>15, <1>16, <1>17, <1>19, <1>20 DEF Upward, y, f

(***************************************************************************)
(* Leaving pages to t after others left: the two kinds of change add up.   *)
(***************************************************************************)
LEMMA ViewsAddUp ==
  ASSUME NEW x, NEW y, NEW z, NEW t \in Tasks
  PROVE  /\ Grows(x, y, t) /\ Grows(y, z, t) => Grows(x, z, t)
         /\ Shrinks(x, y, t) /\ Shrinks(y, z, t) => Shrinks(x, z, t)
         /\ Grows(x, y, t) /\ SameView(x, y, t) /\ Shrinks(y, z, t) => Shrinks(x, z, t)
         /\ Upward(x, y) /\ Upward(y, z) => Upward(x, z)
BY DEF Grows, Shrinks, Elsewhere, SameView, Upward

(***************************************************************************)
(* free_pte leaves t without memory.                                       *)
(***************************************************************************)
LEMMA FreeRegionKeeps ==
  ASSUME NEW x, Base(x), NEW t \in Tasks, NEW r \in Regions
  PROVE  LET y == FreeRegion(x, t, r) IN
         /\ Base(y)
         /\ Cow(x) => Cow(y)
         /\ Tidy(x) => Tidy(y)
         /\ Shrinks(x, y, t) /\ Upward(x, y) /\ y.panic = x.panic
         /\ y.pde[t][r] = None
         /\ \A q \in Regions : x.pde[t][q] = None => y.pde[t][q] = None
<1> DEFINE f == x.pde[t][r]
           V == {v \in Pages : Region(v) = r}
           d == DropPages(x, t, V)
           y == FreeRegion(x, t, r)
<1>1. CASE x.pde[t][r] = None
  <2>1. y = x
    BY <1>1 DEF FreeRegion
  <2>2. Shrinks(x, x, t) /\ Upward(x, x)
    BY DEF Shrinks, Elsewhere, SameView, Upward
  <2> HIDE DEF y
  <2> QED BY <1>1, <2>1, <2>2 DEF y
<1>2. CASE x.pde[t][r] # None
  <2>1. y = [put_user_page(d, f) EXCEPT !.pde[t][r] = None]
    BY <1>2 DEF FreeRegion
  <2>2. V \in SUBSET Pages
    OBVIOUS
  <2>3. /\ Base(d) /\ (Cow(x) => Cow(d)) /\ (Tidy(x) => Tidy(d))
        /\ Shrinks(x, d, t) /\ Upward(x, d) /\ d.panic = x.panic /\ d.pde = x.pde
        /\ \A v \in Pages : d.pte[t][v] = IF v \in V THEN NoPte ELSE x.pte[t][v]
    <3> HIDE DEF V
    <3> QED BY <2>2, DropKeeps
  <2>4. \A v \in Pages : Region(v) = r => ~ Present(d, t, v)
    BY <2>3 DEF Present, NoPte
  <2>5. d.pde[t][r] = f /\ f # None
    BY <1>2, <2>3
  <2> HIDE DEF d, V, y
  <2>6. /\ Base(y) /\ (Cow(d) => Cow(y)) /\ (Tidy(d) => Tidy(y))
        /\ Shrinks(d, y, t) /\ Upward(d, y) /\ y.panic = d.panic
        /\ y.pde = [d.pde EXCEPT ![t][r] = None]
    <3> HIDE DEF f
    <3>1. y = [put_user_page(d, d.pde[t][r]) EXCEPT !.pde[t][r] = None]
      BY <2>1, <2>5
    <3> DEFINE z == [put_user_page(d, d.pde[t][r]) EXCEPT !.pde[t][r] = None]
    <3>2. d.pde[t][r] # None /\ Base(d)
      BY <2>3, <2>5
    <3>3. /\ Base(z) /\ (Cow(d) => Cow(z)) /\ (Tidy(d) => Tidy(z))
          /\ Shrinks(d, z, t) /\ Upward(d, z) /\ z.panic = d.panic
          /\ z.pde = [d.pde EXCEPT ![t][r] = None]
      BY <2>4, <3>2, PutTableKeeps, SMTT(90)
    <3> HIDE DEF z
    <3>4. y = z
      BY <3>1 DEF z
    <3> QED BY <3>3, <3>4
  <2>7. d.pde \in [Tasks -> [Regions -> 0 .. NFrame]]
    BY <2>3, MemType DEF Base
  <2>8. y.pde[t][r] = None /\ \A q \in Regions : x.pde[t][q] = None => y.pde[t][q] = None
    BY <2>3, <2>6, <2>7
  <2>9. Shrinks(x, y, t) /\ Upward(x, y)
    BY <2>3, <2>6, ViewsAddUp
  <2> QED BY <2>3, <2>6, <2>8, <2>9 DEF y
<1> QED BY <1>1, <1>2

(***************************************************************************)
(* So does the loop over both page tables.                                 *)
(***************************************************************************)
LEMMA FreeKeeps ==
  ASSUME NEW x, Base(x), NEW t \in Tasks
  PROVE  LET y == free_pte(x, t) IN
         /\ Base(y)
         /\ Cow(x) => Cow(y)
         /\ Tidy(x) => Tidy(y) /\ Bare(y, t)
         /\ Shrinks(x, y, t) /\ Upward(x, y) /\ y.panic = x.panic
         /\ \A v \in Pages : ~ Present(y, t, v)
<1> DEFINE d == FreeRegion(x, t, 1)
           y == FreeRegion(d, t, 2)
<1>1. y = free_pte(x, t) /\ 1 \in Regions /\ 2 \in Regions
  BY DEF free_pte, Regions
<1>2. /\ Base(d) /\ (Cow(x) => Cow(d)) /\ (Tidy(x) => Tidy(d))
      /\ Shrinks(x, d, t) /\ Upward(x, d) /\ d.panic = x.panic /\ d.pde[t][1] = None
  BY <1>1, FreeRegionKeeps
<1> HIDE DEF d
<1>3. /\ Base(y) /\ (Cow(d) => Cow(y)) /\ (Tidy(d) => Tidy(y))
      /\ Shrinks(d, y, t) /\ Upward(d, y) /\ y.panic = d.panic /\ y.pde[t][2] = None
      /\ (d.pde[t][1] = None => y.pde[t][1] = None)
  BY <1>1, <1>2, FreeRegionKeeps
<1> HIDE DEF y
<1>4. \A r \in Regions : y.pde[t][r] = None
  BY <1>2, <1>3 DEF Regions
<1>5. \A v \in Pages : ~ Present(y, t, v)
  BY <1>3, <1>4, Layout DEF Base, Rooted
<1>6. Shrinks(x, y, t) /\ Upward(x, y)
  BY <1>2, <1>3, ViewsAddUp
<1>7. Tidy(x) => Bare(y, t)
  BY <1>2, <1>3, <1>4, <1>5 DEF Bare, Tidy
<1> QED BY <1>1, <1>2, <1>3, <1>5, <1>6, <1>7

(***************************************************************************)
(* copy_pte maps the pages of a region of t for u as well, at the same     *)
(* places, and takes the right to write from both.                         *)
(***************************************************************************)
LEMMA CopyKeeps ==
  ASSUME NEW x, Base(x), NEW t \in Tasks, NEW u \in Tasks, NEW r \in Regions,
         x.pde[u][r] = None, x.pde[t][r] # None, FreeFrame(x) # None
  PROVE  LET y == CopyRegion(x, t, u, r) IN
         /\ Base(y)
         /\ Cow(x) => Cow(y)
         /\ Tidy(x) => Tidy(y)
         /\ Upward(x, y) /\ y.panic = x.panic /\ y.data = x.data /\ t # u
         /\ \A s \in Tasks \ {u} : SameView(x, y, s) /\ y.pde[s] = x.pde[s]
         /\ \A s \in Tasks \ {t, u} : y.pte[s] = x.pte[s]
         /\ \A q \in Regions \ {r} : y.pde[u][q] = x.pde[u][q]
         /\ \A v \in Pages : Region(v) # r => y.pte[u][v] = x.pte[u][v]
         /\ \A v \in Pages : y.pte[t][v].frame = x.pte[t][v].frame
         /\ \A v \in Pages : Region(v) = r /\ Present(x, t, v) =>
              y.pte[u][v].frame = x.pte[t][v].frame /\ y.pte[u][v].shared = x.pte[t][v].shared
         /\ \A v \in Pages : ~ Present(x, t, v) => y.pte[u][v] = x.pte[u][v]
<1> DEFINE f == FreeFrame(x)
           V == {v \in Pages : Region(v) = r /\ Present(x, t, v)}
           C == [v \in Pages |-> CowEntry(x.pte[t][v])]
           Put(s) == [v \in Pages |-> IF v \in V THEN C[v] ELSE x.pte[s][v]]
           Old == [g \in Frames |-> IF g = f THEN 1 ELSE x.map[g]]
           Map == [g \in Frames |-> Old[g] + Cardinality({v \in V : x.pte[t][v].frame = g})]
           y == CopyRegion(x, t, u, r)
<1>1. x \in Mem /\ Counted(x) /\ Rooted(x) /\ Apart(x)
  BY DEF Base
<1>2. /\ x.map \in [Frames -> Nat] /\ x.data \in [Frames -> Values] /\ x.free \in Int
      /\ x.pde \in [Tasks -> [Regions -> 0 .. NFrame]]
      /\ x.pte \in [Tasks -> [Pages -> Pte]]
  BY <1>1, MemType
<1>3. f \in Frames /\ x.map[f] = 0 /\ t # u
  BY FreeFrameFree
<1>4. /\ \A s \in Tasks, v \in Pages : x.pte[s][v].frame # f
      /\ \A s \in Tasks, q \in Regions : x.pde[s][q] # f
      /\ Users(x, f) = {} /\ Tables(x, f) = {}
  BY <1>1, <1>3, Unreferenced
<1>5. V \in SUBSET Pages /\ \A v \in V : Region(v) = r /\ Present(x, t, v)
  OBVIOUS
<1>6. \A v \in Pages : /\ C[v] \in Pte /\ C[v].frame = x.pte[t][v].frame
                       /\ C[v].shared = x.pte[t][v].shared
                       /\ ~ (C[v].write /\ ~ C[v].shared)
  <2> SUFFICES ASSUME NEW v \in Pages
               PROVE  /\ C[v] \in Pte /\ C[v].frame = x.pte[t][v].frame
                      /\ C[v].shared = x.pte[t][v].shared
                      /\ ~ (C[v].write /\ ~ C[v].shared)
    OBVIOUS
  <2>1. x.pte[t][v] \in Pte
    BY <1>2
  <2>2. C[v] = [x.pte[t][v] EXCEPT !.write = x.pte[t][v].write /\ x.pte[t][v].shared]
    BY DEF CowEntry
  <2> HIDE DEF C
  <2> QED BY <2>1, <2>2 DEF Pte
<1>7. /\ y.map = Map /\ y.free = x.free - 1 /\ y.data = x.data
      /\ y.pde = [x.pde EXCEPT ![u][r] = f]
      /\ y.pte = [x.pte EXCEPT ![t] = Put(t), ![u] = Put(u)]
      /\ y.panic = x.panic /\ y.kernel_map = x.kernel_map
      /\ y = [x EXCEPT !.map = Map, !.free = x.free - 1, !.pde = y.pde, !.pte = y.pte]
  <2> DEFINE g == get_user_page(x)
  <2>1. g = [x EXCEPT !.map[f] = 1, !.free = x.free - 1]
    BY <1>1, GetPage
  <2>2. y = [g EXCEPT
            !.pde[u][r] = f,
            !.map = [h \in Frames |-> g.map[h] + Cardinality({v \in V : x.pte[t][v].frame = h})],
            !.pte[t] = [v \in Pages |-> IF v \in V THEN C[v] ELSE g.pte[t][v]],
            !.pte[u] = [v \in Pages |-> IF v \in V THEN C[v] ELSE g.pte[u][v]]]
    <3> HIDE DEF g
    <3> QED BY <1>3, <1>2 DEF CopyRegion, g
  <2> HIDE DEF g, f, V, C, y
  <2>3. g.map = Old /\ g.free = x.free - 1 /\ g.data = x.data /\ g.pde = x.pde /\ g.pte = x.pte
        /\ g.panic = x.panic /\ g.kernel_map = x.kernel_map
    BY <1>1, <1>2, <1>3, <2>1 DEF Mem
  <2> HIDE DEF Old
  <2>4. y = [g EXCEPT !.pde[u][r] = f, !.map = Map, !.pte[t] = Put(t), !.pte[u] = Put(u)]
    <3>1. Map = [h \in Frames |-> g.map[h] + Cardinality({v \in V : x.pte[t][v].frame = h})]
      BY <2>3
    <3>2. /\ Put(t) = [v \in Pages |-> IF v \in V THEN C[v] ELSE g.pte[t][v]]
          /\ Put(u) = [v \in Pages |-> IF v \in V THEN C[v] ELSE g.pte[u][v]]
      BY <2>3
    <3> HIDE DEF Map, Put
    <3> QED BY <2>2, <3>1, <3>2
  <2> HIDE DEF Map, Put
  <2>5. y = [x EXCEPT !.map = Map, !.free = x.free - 1, !.pde[u][r] = f,
                      !.pte[t] = Put(t), !.pte[u] = Put(u)]
    BY <1>1, <2>1, <2>4 DEF Mem
  <2> QED BY <1>1, <2>5 DEF Mem
<1>8. \A g \in Frames : y.map[g] = (IF g = f THEN 1 ELSE x.map[g])
                                     + Cardinality(Held(x, t, V, g))
  BY <1>7 DEF Held
<1> HIDE DEF f, V, C, y, Map
<1>9. /\ \A v \in Pages : y.pte[t][v] = IF v \in V THEN C[v] ELSE x.pte[t][v]
      /\ \A v \in Pages : y.pte[u][v] = IF v \in V THEN C[v] ELSE x.pte[u][v]
      /\ \A s \in Tasks \ {t, u} : y.pte[s] = x.pte[s]
      /\ \A s \in Tasks \ {u} : y.pde[s] = x.pde[s]
      /\ \A q \in Regions : y.pde[u][q] = IF q = r THEN f ELSE x.pde[u][q]
  BY <1>2, <1>3, <1>7, SMTT(90)
<1>10. \A v \in V : x.pte[u][v].frame = None /\ x.pte[t][v].frame \in Frames
  <2>1. \A v \in V : ~ Present(x, u, v)
    BY <1>1, <1>5 DEF Rooted
  <2>2. \A v \in V : x.pte[t][v].frame \in Frames
    BY <1>1, <1>5, MemType
  <2> QED BY <2>1, <2>2 DEF Present
<1>11. ASSUME NEW g \in Frames
       PROVE  /\ y.map[g] = Cardinality(Users(y, g)) + Cardinality(Tables(y, g))
              /\ y.map[g] \in Nat /\ (y.map[g] = 0 <=> x.map[g] = 0 /\ g # f)
  <2> DEFINE H == HeldBy(u, x, t, V, g)
  <2>1. /\ IsFiniteSet(H) /\ Cardinality(H) = Cardinality(Held(x, t, V, g))
        /\ Cardinality(H) \in Nat /\ (Held(x, t, V, g) = {} => Cardinality(H) = 0)
    <3>1. V \in SUBSET Pages
      BY <1>5
    <3>2. /\ Cardinality(Held(x, t, V, g)) \in Nat
          /\ Held(x, t, V, g) = {} => Cardinality(Held(x, t, V, g)) = 0
      BY <3>1, HeldCount
    <3>3. IsFiniteSet(H) /\ Cardinality(H) = Cardinality(Held(x, t, V, g))
      BY <3>1, HeldUsers
    <3> HIDE DEF H
    <3> QED BY <3>2, <3>3
  <2>2. Users(y, g) = Users(x, g) \cup H
    <3>1. ASSUME NEW s \in Tasks, NEW v \in Pages
          PROVE  y.pte[s][v].frame = g <=>
                   x.pte[s][v].frame = g \/ (s = u /\ v \in V /\ x.pte[t][v].frame = g)
      <4>1. CASE s = u
        BY <1>5, <1>6, <1>9, <1>10, <4>1, Layout
      <4>2. CASE s = t
        BY <1>3, <1>6, <1>9, <4>2
      <4>3. CASE s \notin {t, u}
        BY <1>9, <4>3
      <4> QED BY <4>1, <4>2, <4>3
    <3> QED BY <1>5, <3>1 DEF Users, Held, HeldBy
  <2>3. Users(x, g) \cap H = {}
    BY <1>10, Layout DEF Users, Held, HeldBy
  <2> HIDE DEF H
  <2>4. Cardinality(Users(y, g)) = Cardinality(Users(x, g)) + Cardinality(H)
    <3>1. Cardinality(Users(x, g) \cap H) = 0
      BY <2>3, FS_EmptySet
    <3>2. IsFiniteSet(Users(x, g)) /\ Cardinality(Users(x, g)) \in Nat
      BY RefsFinite
    <3>3. Cardinality(Users(x, g) \cup H) = Cardinality(Users(x, g)) + Cardinality(H)
                                              - Cardinality(Users(x, g) \cap H)
      BY <2>1, <3>2, FS_Union
    <3> QED BY <2>1, <2>2, <3>1, <3>2, <3>3
  <2>5. Cardinality(Tables(y, g)) = IF g = f THEN 1 ELSE Cardinality(Tables(x, g))
    <3>1. \A s \in Tasks, q \in Regions :
            y.pde[s][q] = IF s = u /\ q = r THEN f ELSE x.pde[s][q]
      BY <1>9
    <3>2. CASE g = f
      <4>1. Tables(y, g) = {<<u, r>>}
        BY <1>4, <3>1, <3>2 DEF Tables
      <4> QED BY <3>2, <4>1, FS_Singleton
    <3>3. CASE g # f
      <4>1. Tables(y, g) = Tables(x, g)
        BY <3>1, <3>3, Layout DEF Tables
      <4> QED BY <3>3, <4>1
    <3> QED BY <3>2, <3>3
  <2>6. x.map[g] = Cardinality(Users(x, g)) + Cardinality(Tables(x, g)) /\ x.map[g] \in Nat
    BY <1>1, <1>2 DEF Counted
  <2>7. g = f => Cardinality(Users(x, g)) = 0
    BY <1>4, FS_EmptySet
  <2>8. y.map[g] = (IF g = f THEN 1 ELSE x.map[g]) + Cardinality(H)
    BY <1>8, <2>1
  <2>9. x.map[g] = 0 => Cardinality(H) = 0
    <3>1. x.map[g] = 0 => Held(x, t, V, g) = {}
      BY <1>1, <1>5, Unreferenced DEF Held
    <3> QED BY <2>1, <3>1
  <2>10. Cardinality(Users(x, g)) \in Nat /\ Cardinality(Tables(x, g)) \in Nat
    BY RefsFinite
  <2> QED BY <2>1, <2>4, <2>5, <2>6, <2>7, <2>8, <2>9, <2>10
<1>12. Counted(y)
  <2>1. x.free = Cardinality(Zero(x))
    BY <1>1 DEF Counted, Zero
  <2>2. f \in Zero(x) /\ Zero(y) = Zero(x) \ {f}
    BY <1>3, <1>11 DEF Zero
  <2>3. y.free = Cardinality(Zero(y))
    BY <1>7, <2>1, <2>2, FreeCount
  <2> QED BY <1>11, <2>3 DEF Counted, Zero
<1>13. y \in Mem
  <2>1. y.map \in [Frames -> Nat]
    BY <1>7, <1>11 DEF Map
  <2>2. y.pde \in [Tasks -> [1 .. 2 -> 0 .. NFrame]]
    BY <1>2, <1>3, <1>7, Layout DEF Regions
  <2>3. y.pte \in [Tasks -> [Pages -> Pte]]
    <3>1. Put(t) \in [Pages -> Pte] /\ Put(u) \in [Pages -> Pte]
      BY <1>2, <1>6
    <3> HIDE DEF Put
    <3> QED BY <1>2, <1>7, <3>1, SMTT(90)
  <2>4. y.free \in Int
    BY <1>2, <1>7
  <2> QED BY <1>1, <1>7, <2>1, <2>2, <2>3, <2>4 DEF Mem
<1>14. ASSUME NEW s \in Tasks, NEW v \in Pages
       PROVE  LET o == IF s = u /\ v \in V THEN t ELSE s IN
              /\ o \in Tasks /\ y.pte[s][v].frame = x.pte[o][v].frame
              /\ y.pte[s][v].shared = x.pte[o][v].shared
              /\ Present(y, s, v) <=> Present(x, o, v)
  <2> DEFINE o == IF s = u /\ v \in V THEN t ELSE s
  <2>1. o \in Tasks /\ y.pte[s][v].frame = x.pte[o][v].frame
        /\ y.pte[s][v].shared = x.pte[o][v].shared
    <3>1. CASE s = u
      BY <1>6, <1>9, <3>1
    <3>2. CASE s = t /\ t # u
      BY <1>6, <1>9, <3>2
    <3>3. CASE s \notin {t, u}
      BY <1>9, <3>3
    <3> QED BY <1>3, <3>1, <3>2, <3>3
  <2> QED BY <2>1 DEF Present
<1>15. Rooted(y)
  <2> SUFFICES ASSUME NEW s \in Tasks, NEW v \in Pages, Present(y, s, v)
               PROVE  y.pde[s][Region(v)] # None
    BY DEF Rooted
  <2>1. Region(v) \in Regions /\ f # None
    BY <1>3, Layout
  <2>2. CASE s = u /\ Region(v) = r
    BY <1>9, <2>1, <2>2
  <2>3. CASE ~ (s = u /\ Region(v) = r)
    <3>1. Present(x, s, v)
      BY <1>5, <1>14, <2>3
    <3>2. x.pde[s][Region(v)] # None
      BY <1>1, <3>1 DEF Rooted
    <3> QED BY <1>9, <2>1, <2>3, <3>2
  <2> QED BY <2>2, <2>3
<1>16. Apart(y)
  <2> SUFFICES ASSUME NEW s \in Tasks, NEW w \in Tasks, NEW v \in Pages, NEW q \in Regions,
                      Present(y, s, v)
               PROVE  y.pde[w][q] # y.pte[s][v].frame
    BY DEF Apart
  <2>1. PICK o \in Tasks : Present(x, o, v) /\ y.pte[s][v].frame = x.pte[o][v].frame
    BY <1>14
  <2>2. x.pte[o][v].frame # f /\ x.pde[w][q] # x.pte[o][v].frame
    BY <1>1, <1>4, <2>1 DEF Apart
  <2> QED BY <1>9, <2>1, <2>2
<1>17. Cow(x) => Cow(y)
  <2>1. ASSUME Private(x) PROVE Private(y)
    <3> SUFFICES ASSUME NEW s \in Tasks, NEW v \in Pages, Present(y, s, v),
                        y.pte[s][v].write, ~ y.pte[s][v].shared
                 PROVE  y.map[y.pte[s][v].frame] = 1
      BY DEF Private
    <3>1. ~ (s \in {t, u} /\ v \in V)
      BY <1>6, <1>9
    <3>2. y.pte[s][v] = x.pte[s][v]
      BY <1>9, <3>1
    <3> DEFINE g == x.pte[s][v].frame
    <3>3. Present(x, s, v) /\ x.map[g] = 1 /\ g \in Frames /\ g # f
      BY <1>1, <1>4, <2>1, <3>2, MemType DEF Private, Present
    <3>4. Held(x, t, V, g) = {}
      <4> SUFFICES ASSUME NEW w \in V, x.pte[t][w].frame = g PROVE FALSE
        BY DEF Held
      <4>1. t = s /\ w = v
        BY <1>1, <1>5, <3>3, OneUser
      <4> QED BY <3>1, <4>1
    <3>5. Cardinality(Held(x, t, V, g)) = 0
      BY <3>4, FS_EmptySet
    <3> HIDE DEF g
    <3>6. y.map[g] = 1
      BY <1>8, <3>3, <3>5
    <3> QED BY <3>2, <3>6 DEF g
  <2>2. ASSUME SamePlace(x) PROVE SamePlace(y)
    <3> SUFFICES ASSUME NEW s \in Tasks, NEW w \in Tasks, NEW a \in Pages, NEW b \in Pages,
                        Present(y, s, a), y.pte[w][b].frame = y.pte[s][a].frame
                 PROVE  a = b /\ y.pte[w][b].shared = y.pte[s][a].shared
      BY DEF SamePlace
    <3>1. PICK o \in Tasks : /\ Present(x, o, a) /\ y.pte[s][a].frame = x.pte[o][a].frame
                             /\ y.pte[s][a].shared = x.pte[o][a].shared
      BY <1>14
    <3>2. PICK p \in Tasks : /\ y.pte[w][b].frame = x.pte[p][b].frame
                             /\ y.pte[w][b].shared = x.pte[p][b].shared
      BY <1>14
    <3> QED BY <2>2, <3>1, <3>2 DEF SamePlace
  <2> QED BY <2>1, <2>2 DEF Cow
<1>18. Tidy(x) => Tidy(y)
  <2> SUFFICES ASSUME Tidy(x), NEW s \in Tasks, NEW v \in Pages, ~ Present(y, s, v)
               PROVE  y.pte[s][v] = NoPte
    BY DEF Tidy
  <2>1. ~ (s \in {t, u} /\ v \in V)
    BY <1>5, <1>14
  <2>2. y.pte[s][v] = x.pte[s][v]
    BY <1>9, <2>1
  <2> QED BY <2>2 DEF Tidy, Present
<1>19. \A s \in Tasks \ {u} : SameView(x, y, s)
  <2> SUFFICES ASSUME NEW s \in Tasks \ {u}, NEW v \in Pages
               PROVE  Seen(y, s, v) = Seen(x, s, v) /\ y.pte[s][v].shared = x.pte[s][v].shared
    BY DEF SameView
  <2> QED BY <1>7, <1>14, ZenonT(60) DEF Seen
<1>20. /\ \A v \in Pages : Region(v) # r => y.pte[u][v] = x.pte[u][v]
       /\ \A v \in Pages : y.pte[t][v].frame = x.pte[t][v].frame
       /\ \A v \in Pages : Region(v) = r /\ Present(x, t, v) =>
            y.pte[u][v].frame = x.pte[t][v].frame /\ y.pte[u][v].shared = x.pte[t][v].shared
       /\ \A v \in Pages : ~ Present(x, t, v) => y.pte[u][v] = x.pte[u][v]
  <2>1. \A v \in Pages : v \in V <=> Region(v) = r /\ Present(x, t, v)
    BY DEF V
  <2> QED BY <1>3, <1>6, <1>9, <2>1
<1>21. Base(y)
  BY <1>12, <1>13, <1>15, <1>16 DEF Base
<1>22. \A q \in Regions \ {r} : y.pde[u][q] = x.pde[u][q]
  BY <1>9
<1> QED BY <1>3, <1>7, <1>9, <1>17, <1>18, <1>19, <1>20, <1>21, <1>22 DEF Upward, y

(***************************************************************************)
(* The rights of an entry are set, and it keeps its page.                  *)
(***************************************************************************)
Rights(x, y, t, v, e) ==
  /\ y \in Mem /\ y.map = x.map /\ y.free = x.free /\ y.pde = x.pde
  /\ y.pte = [x.pte EXCEPT ![t][v] = e] /\ e.frame = x.pte[t][v].frame

\* Other rights keep them, where a page that becomes writable has no sharer.
LEMMA RightsKeep ==
  ASSUME NEW x, Base(x), NEW y, NEW t \in Tasks, NEW v \in Pages, NEW e,
         Rights(x, y, t, v, e)
  PROVE  /\ Base(y)
         /\ Cow(x) /\ (Present(x, t, v) => x.map[x.pte[t][v].frame] = 1) => Cow(y)
         /\ Tidy(x) /\ Present(x, t, v) => Tidy(y)
         /\ y.data = x.data => /\ \A u \in Tasks, w \in Pages : Seen(y, u, w) = Seen(x, u, w)
                               /\ Elsewhere(x, y, t) /\ Grows(x, y, t)
         /\ \A w \in Pages : y.pte[t][w] = IF w = v THEN e ELSE x.pte[t][w]
         /\ \A u \in Tasks \ {t} : y.pte[u] = x.pte[u]
<1>1. /\ y \in Mem /\ y.map = x.map /\ y.free = x.free /\ y.pde = x.pde
      /\ y.pte = [x.pte EXCEPT ![t][v] = e] /\ e.frame = x.pte[t][v].frame
  BY DEF Rights
<1>2. x \in Mem /\ Counted(x) /\ Rooted(x) /\ Apart(x)
  BY DEF Base
<1>3. x.pte \in [Tasks -> [Pages -> Pte]]
  BY <1>2, MemType
<1>4. /\ \A u \in Tasks, w \in Pages :
           y.pte[u][w] = IF u = t /\ w = v THEN e ELSE x.pte[u][w]
      /\ \A u \in Tasks \ {t} : y.pte[u] = x.pte[u]
  BY <1>1, <1>3
<1>5. \A u \in Tasks, w \in Pages : /\ y.pte[u][w].frame = x.pte[u][w].frame
                                    /\ Present(y, u, w) <=> Present(x, u, w)
  BY <1>1, <1>4 DEF Present
<1>6. Base(y)
  <2>1. \A f : Users(y, f) = Users(x, f) /\ Tables(y, f) = Tables(x, f)
    BY <1>1, <1>5 DEF Users, Tables
  <2>2. Counted(y)
    BY <1>1, <1>2, <2>1 DEF Counted
  <2>3. Rooted(y) /\ Apart(y)
    BY <1>1, <1>2, <1>5 DEF Rooted, Apart
  <2> QED BY <1>1, <2>2, <2>3 DEF Base
<1>7. ASSUME Cow(x), Present(x, t, v) => x.map[x.pte[t][v].frame] = 1
      PROVE  Cow(y)
  <2>1. Private(y)
    <3> SUFFICES ASSUME NEW u \in Tasks, NEW w \in Pages, Present(y, u, w),
                        y.pte[u][w].write, ~ y.pte[u][w].shared
                 PROVE  y.map[y.pte[u][w].frame] = 1
      BY DEF Private
    <3>1. CASE u = t /\ w = v
      BY <1>1, <1>5, <1>7, <3>1
    <3>2. CASE ~ (u = t /\ w = v)
      BY <1>1, <1>4, <1>5, <1>7, <3>2 DEF Cow, Private
    <3> QED BY <3>1, <3>2
  <2>2. SamePlace(y)
    <3> SUFFICES ASSUME NEW s \in Tasks, NEW u \in Tasks, NEW a \in Pages, NEW b \in Pages,
                        Present(y, s, a), y.pte[u][b].frame = y.pte[s][a].frame
                 PROVE  a = b /\ y.pte[u][b].shared = y.pte[s][a].shared
      BY DEF SamePlace
    <3>1. Present(x, s, a) /\ x.pte[u][b].frame = x.pte[s][a].frame
          /\ x.pte[s][a].frame \in Frames
      BY <1>2, <1>5, MemType
    <3>2. a = b /\ x.pte[u][b].shared = x.pte[s][a].shared
      BY <1>7, <3>1 DEF Cow, SamePlace
    <3>3. CASE (s = t /\ a = v) \/ (u = t /\ b = v)
      <4>1. x.pte[t][v].frame = x.pte[s][a].frame /\ Present(x, t, v)
        BY <3>1, <3>3 DEF Present
      <4>2. s = u /\ a = b
        BY <1>2, <1>7, <3>1, <4>1, OneUser
      <4> QED BY <4>2
    <3>4. CASE ~ (s = t /\ a = v) /\ ~ (u = t /\ b = v)
      BY <1>4, <3>2, <3>4
    <3> QED BY <3>3, <3>4
  <2> QED BY <2>1, <2>2 DEF Cow
<1>8. Tidy(x) /\ Present(x, t, v) => Tidy(y)
  BY <1>4, <1>5 DEF Tidy
<1>9. ASSUME y.data = x.data
      PROVE  /\ \A u \in Tasks, w \in Pages : Seen(y, u, w) = Seen(x, u, w)
             /\ Elsewhere(x, y, t) /\ Grows(x, y, t)
  <2>1. \A u \in Tasks, w \in Pages : Seen(y, u, w) = Seen(x, u, w)
    BY <1>5, <1>9 DEF Seen
  <2>2. Elsewhere(x, y, t)
    BY <1>1, <1>4, <2>1 DEF Elsewhere, SameView
  <2> QED BY <2>1, <2>2 DEF Grows
<1> QED BY <1>4, <1>6, <1>7, <1>8, <1>9

(***************************************************************************)
(* page_fault copies a page with two users for one of them, which sees no  *)
(* difference.                                                             *)
(***************************************************************************)
LEMMA CowCopyKeeps ==
  ASSUME NEW x, Base(x), NEW t \in Tasks, NEW v \in Pages, Present(x, t, v),
         x.map[x.pte[t][v].frame] = 2, ~ x.pte[t][v].shared, FreeFrame(x) # None
  PROVE  LET y == CowCopy(x, t, v) IN
         /\ Base(y)
         /\ Cow(x) => Cow(y)
         /\ Tidy(x) => Tidy(y)
         /\ Upward(x, y) /\ y.panic = x.panic /\ Elsewhere(x, y, t) /\ SameView(x, y, t)
         /\ \A w \in Pages : Present(y, t, w) <=> Present(x, t, w)
         /\ y.pde = x.pde
<1> DEFINE old == x.pte[t][v].frame
           new == FreeFrame(x)
           e == [NoPte EXCEPT !.frame = new, !.write = TRUE]
           y == CowCopy(x, t, v)
<1>1. x \in Mem /\ Counted(x) /\ Rooted(x) /\ Apart(x)
  BY DEF Base
<1>2. /\ x.map \in [Frames -> Nat] /\ x.data \in [Frames -> Values] /\ x.free \in Int
      /\ x.pte \in [Tasks -> [Pages -> Pte]] /\ old \in Frames
      /\ x.pte[t][v].shared = FALSE
  <2>1. x.pte[t][v].shared \in BOOLEAN
    BY <1>1, MemType
  <2> QED BY <1>1, <2>1, MemType
<1>3. new \in Frames /\ x.map[new] = 0 /\ old # new
  BY <1>2, FreeFrameFree
<1>4. /\ \A s \in Tasks, w \in Pages : x.pte[s][w].frame # new
      /\ \A s \in Tasks, q \in Regions : x.pde[s][q] # new
      /\ Users(x, new) = {} /\ Tables(x, new) = {}
  BY <1>1, <1>3, Unreferenced
<1>5. e.frame = new /\ e.write = TRUE /\ e.shared = FALSE /\ e \in Pte
  BY <1>3, Layout DEF NoPte, Pte
<1>6. y = [x EXCEPT !.map = [x.map EXCEPT ![old] = 1, ![new] = 1], !.free = x.free - 1,
                    !.pte[t][v] = e, !.data[new] = x.data[old]]
  <2> DEFINE z == [x EXCEPT !.map[old] = x.map[old] - 1]
  <2>1. z \in Mem /\ z.map = [x.map EXCEPT ![old] = 1]
    <3>1. x.map[old] - 1 = 1
      OBVIOUS
    <3> HIDE DEF old
    <3>2. z = [x EXCEPT !.map[old] = 1]
      BY <3>1
    <3> HIDE DEF z
    <3> QED BY <1>1, <1>2, <3>2 DEF Mem
  <2>2. FreeFrame(z) = new
    <3>1. {f \in Frames : z.map[f] = 0} = {f \in Frames : x.map[f] = 0}
      BY <1>2, <2>1
    <3> QED BY <3>1, Zenon DEF FreeFrame
  <2>3. y = [get_user_page(z) EXCEPT !.pte[t][v] = e, !.data[new] = x.data[old]]
    BY Zenon DEF CowCopy
  <2> HIDE DEF e, old, new
  <2>4. z.free = x.free
    BY <1>1 DEF Mem
  <2> HIDE DEF y
  <2>5. get_user_page(z) = [z EXCEPT !.map[new] = 1, !.free = x.free - 1]
    <3> HIDE DEF z
    <3> QED BY <2>1, <2>2, <2>4, GetPage DEF new
  <2>6. get_user_page(z) = [x EXCEPT !.map = [x.map EXCEPT ![old] = 1, ![new] = 1],
                                     !.free = x.free - 1]
    <3>1. [z.map EXCEPT ![new] = 1] = [x.map EXCEPT ![old] = 1, ![new] = 1]
      BY <2>1
    <3> QED BY <1>1, <1>2, <1>3, <2>1, <2>5, <3>1, ZenonT(60) DEF Mem
  <2> HIDE DEF z
  <2> QED BY <1>1, <2>3, <2>6 DEF Mem
<1> HIDE DEF e, y, new
<1>7. /\ y.map = [x.map EXCEPT ![old] = 1, ![new] = 1] /\ y.free = x.free - 1
      /\ y.data = [x.data EXCEPT ![new] = x.data[old]] /\ y.pde = x.pde
      /\ y.pte = [x.pte EXCEPT ![t][v] = e]
      /\ y.panic = x.panic /\ y.kernel_map = x.kernel_map
  <2> HIDE DEF old
  <2> QED BY <1>1, <1>6 DEF Mem
<1>8. y \in Mem
  <2> HIDE DEF old
  <2>1. /\ y.map \in [Frames -> Nat] /\ y.free \in Int /\ y.data \in [Frames -> Values]
        /\ y.pte \in [Tasks -> [Pages -> Pte]]
    BY <1>2, <1>3, <1>5, <1>7
  <2>2. y = [x EXCEPT !.map = y.map, !.free = y.free, !.pte = y.pte, !.data = y.data]
    BY <1>1, <1>6, <1>7 DEF Mem
  <2> QED BY <1>1, <2>1, <2>2 DEF Mem
<1>9. /\ \A g \in Frames : y.map[g] = IF g \in {old, new} THEN 1 ELSE x.map[g]
      /\ \A g \in Frames : y.data[g] = IF g = new THEN x.data[old] ELSE x.data[g]
      /\ \A u \in Tasks, w \in Pages :
           y.pte[u][w] = IF u = t /\ w = v THEN e ELSE x.pte[u][w]
      /\ \A u \in Tasks \ {t} : y.pte[u] = x.pte[u]
  <2> HIDE DEF old
  <2> QED BY <1>2, <1>3, <1>7
<1>10. \A u \in Tasks, w \in Pages : Present(y, u, w) <=> Present(x, u, w)
  BY <1>3, <1>5, <1>9, Layout DEF Present
<1>11. Counted(y)
  <2>1. ASSUME NEW g \in Frames
        PROVE  y.map[g] = Cardinality(Users(y, g)) + Cardinality(Tables(y, g))
    <3>1. Tables(y, g) = Tables(x, g)
      BY <1>7 DEF Tables
    <3>2. x.map[g] = Cardinality(Users(x, g)) + Cardinality(Tables(x, g))
      BY <1>1 DEF Counted
    <3>3. CASE g = new
      <4>1. Users(y, new) = {<<t, v>>}
        BY <1>4, <1>5, <1>9 DEF Users
      <4>2. Cardinality({<<t, v>>}) = 1 /\ Cardinality({}) = 0
        BY FS_Singleton, FS_EmptySet
      <4>3. Cardinality(Users(y, g)) = 1 /\ Cardinality(Tables(y, g)) = 0
        BY <1>4, <3>1, <3>3, <4>1, <4>2
      <4>4. y.map[g] = 1
        BY <1>9, <3>3
      <4> QED BY <4>3, <4>4
    <3>4. CASE g = old
      <4>1. Users(y, g) = Users(x, g) \ {<<t, v>>}
        BY <1>3, <1>5, <1>9, <3>4 DEF Users
      <4>2. <<t, v>> \in Users(x, g)
        BY <3>4 DEF Users
      <4>3. Cardinality(Users(y, g)) = Cardinality(Users(x, g)) - 1
        BY <4>1, <4>2, RefsFinite, FS_RemoveElement
      <4>4. y.map[g] = 1 /\ x.map[g] = 2
        BY <1>9, <3>4
      <4>5. Cardinality(Users(x, g)) \in Nat /\ Cardinality(Tables(x, g)) \in Nat
        BY RefsFinite
      <4> HIDE DEF old
      <4> QED BY <3>1, <3>2, <4>3, <4>4, <4>5
    <3>5. CASE g # old /\ g # new
      <4>1. Users(y, g) = Users(x, g)
        BY <1>5, <1>9, <3>5 DEF Users
      <4> HIDE DEF old
      <4> QED BY <1>9, <3>1, <3>2, <3>5, <4>1
    <3> QED BY <3>3, <3>4, <3>5
  <2>2. new \in Zero(x) /\ Zero(y) = Zero(x) \ {new}
    BY <1>3, <1>9 DEF Zero
  <2>3. x.free = Cardinality(Zero(x))
    BY <1>1 DEF Counted, Zero
  <2>4. y.free = Cardinality(Zero(y))
    BY <1>7, <2>2, <2>3, FreeCount
  <2> QED BY <2>1, <2>4 DEF Counted, Zero
<1>12. Rooted(y)
  BY <1>1, <1>7, <1>10 DEF Rooted
<1>13. Apart(y)
  BY <1>1, <1>4, <1>5, <1>7, <1>9, <1>10, SMTT(30) DEF Apart
<1>14. ASSUME Cow(x) PROVE Cow(y)
  <2>1. Private(y)
    <3> SUFFICES ASSUME NEW u \in Tasks, NEW w \in Pages, Present(y, u, w),
                        y.pte[u][w].write, ~ y.pte[u][w].shared
                 PROVE  y.map[y.pte[u][w].frame] = 1
      BY DEF Private
    <3>1. CASE u = t /\ w = v
      BY <1>3, <1>5, <1>9, <3>1
    <3>2. CASE ~ (u = t /\ w = v)
      <4>1. y.pte[u][w] = x.pte[u][w] /\ Present(x, u, w)
        BY <1>9, <1>10, <3>2
      <4>2. x.map[x.pte[u][w].frame] = 1 /\ x.pte[u][w].frame \in Frames
        BY <1>1, <1>14, <4>1, MemType DEF Cow, Private
      <4> QED BY <1>9, <4>1, <4>2
    <3> QED BY <3>1, <3>2
  <2>2. SamePlace(y)
    <3> SUFFICES ASSUME NEW s \in Tasks, NEW u \in Tasks, NEW a \in Pages, NEW b \in Pages,
                        Present(y, s, a), y.pte[u][b].frame = y.pte[s][a].frame
                 PROVE  a = b /\ y.pte[u][b].shared = y.pte[s][a].shared
      BY DEF SamePlace
    <3>1. CASE s = t /\ a = v
      <4>1. u = t /\ b = v
        BY <1>4, <1>5, <1>9, <3>1
      <4> QED BY <3>1, <4>1
    <3>2. CASE u = t /\ b = v
      <4>1. s = t /\ a = v
        BY <1>4, <1>5, <1>9, <3>2
      <4> QED BY <3>2, <4>1
    <3>3. CASE ~ (s = t /\ a = v) /\ ~ (u = t /\ b = v)
      <4>1. Present(x, s, a) /\ y.pte[s][a] = x.pte[s][a] /\ y.pte[u][b] = x.pte[u][b]
        BY <1>9, <1>10, <3>3
      <4> QED BY <1>14, <4>1 DEF Cow, SamePlace
    <3> QED BY <3>1, <3>2, <3>3
  <2> QED BY <2>1, <2>2 DEF Cow
<1>15. Tidy(x) => Tidy(y)
  BY <1>9, <1>10 DEF Tidy
<1>16. \A u \in Tasks : SameView(x, y, u)
  <2> SUFFICES ASSUME NEW u \in Tasks, NEW w \in Pages
               PROVE  Seen(y, u, w) = Seen(x, u, w) /\ y.pte[u][w].shared = x.pte[u][w].shared
    BY DEF SameView
  <2>1. CASE u = t /\ w = v
    BY <1>2, <1>3, <1>5, <1>9, <1>10, <2>1, ZenonT(60) DEF Seen
  <2>2. CASE ~ (u = t /\ w = v)
    <3>1. y.pte[u][w] = x.pte[u][w]
      BY <1>9, <2>2
    <3>2. Present(x, u, w) => x.pte[u][w].frame \in Frames /\ x.pte[u][w].frame # new
      BY <1>1, <1>4, MemType
    <3> QED BY <1>9, <1>10, <3>1, <3>2 DEF Seen
  <2> QED BY <2>1, <2>2
<1>17. Elsewhere(x, y, t)
  BY <1>7, <1>9, <1>16 DEF Elsewhere
<1>18. Base(y)
  BY <1>8, <1>11, <1>12, <1>13 DEF Base
<1> QED BY <1>7, <1>10, <1>14, <1>15, <1>16, <1>17, <1>18 DEF Upward, y

-----------------------------------------------------------------------------
(* The functions of memory.c. *)

(***************************************************************************)
(* panic() leaves the memory as it is.                                     *)
(***************************************************************************)
LEMMA PanicKeeps ==
  ASSUME NEW x \in Mem, NEW why \in Reasons
  PROVE  LET y == Panic(x, why) IN
         /\ SameTables(x, y) /\ y.data = x.data
         /\ why # "none" => Upward(x, y) /\ y.panic # "none"
BY DEF Panic, Mem, SameTables, Upward, Reasons

(***************************************************************************)
(* Which page is taken depends on mem_map alone.                           *)
(***************************************************************************)
LEMMA SameFreeFrame ==
  ASSUME NEW x, NEW y, y.map = x.map
  PROVE  FreeFrame(y) = FreeFrame(x)
BY Zenon DEF FreeFrame

(***************************************************************************)
(* get_pte finds a page table or makes one.                                *)
(***************************************************************************)
LEMMA GetPteKeeps ==
  ASSUME NEW x, Base(x), NEW t \in Tasks, NEW v \in Pages
  PROVE  LET y == get_pte(x, t, v) IN
         /\ Base(y)
         /\ Cow(x) => Cow(y)
         /\ Tidy(x) => Tidy(y)
         /\ Grows(x, y, t) /\ SameView(x, y, t) /\ Upward(x, y)
         /\ y.pte = x.pte /\ y.data = x.data
         /\ x.pde[t][Region(v)] # None => y = x
         /\ y.pde[t][Region(v)] = None => FreeFrame(y) = None /\ y.panic # "none"
<1> DEFINE r == Region(v)
           f == FreeFrame(x)
           y == get_pte(x, t, v)
<1>1. r \in Regions /\ x \in Mem
  BY Layout DEF Base
<1>2. CASE x.pde[t][r] # None
  <2>1. y = x
    BY <1>2 DEF get_pte
  <2>2. Grows(x, x, t) /\ SameView(x, x, t) /\ Upward(x, x)
    BY DEF Grows, Elsewhere, SameView, Upward
  <2> HIDE DEF y, r
  <2> QED BY <1>2, <2>1, <2>2 DEF y, r
<1>3. CASE x.pde[t][r] = None /\ f = None
  <2> DEFINE z == Panic(x, "oom")
  <2>0. "oom" \in Reasons /\ "oom" # "none"
    BY DEF Reasons
  <2>1. /\ SameTables(x, z) /\ z.data = x.data /\ Upward(x, z) /\ z.panic # "none"
    BY <1>1, <2>0, PanicKeeps, Zenon
  <2>2. y = [z EXCEPT !.pde[t][r] = None]
    BY <1>1, <1>3, GetPage DEF get_pte
  <2>3. z \in Mem /\ z.pde = x.pde
    BY <2>1 DEF SameTables
  <2> HIDE DEF z, y, r, f
  <2>4. x.pde \in [Tasks -> [Regions -> 0 .. NFrame]]
    BY <1>1, MemType
  <2>5. [x.pde EXCEPT ![t][r] = None] = x.pde
    BY <1>1, <1>3, <2>4
  <2>6. y = z
    <3>1. [z EXCEPT !.pde[t][r] = None] = [z EXCEPT !.pde = [z.pde EXCEPT ![t][r] = None]]
      OBVIOUS
    <3>2. [z EXCEPT !.pde = z.pde] = z
      BY <2>3 DEF Mem
    <3> QED BY <2>2, <2>3, <2>5, <3>1, <3>2
  <2>7. /\ Base(z) /\ (Cow(x) => Cow(z)) /\ (Tidy(x) => Tidy(z))
        /\ \A u \in Tasks : SameView(x, z, u)
    BY <2>1, SameKeeps
  <2>8. z.pte = x.pte /\ z.map = x.map
    BY <2>1 DEF SameTables
  <2>9. FreeFrame(z) = None
    BY <1>3, <2>8, SameFreeFrame DEF f
  <2>10. Grows(x, z, t)
    BY <2>3, <2>7, <2>8 DEF Grows, Elsewhere, SameView
  <2> QED BY <1>3, <2>1, <2>3, <2>6, <2>7, <2>8, <2>9, <2>10 DEF y, r
<1>4. CASE x.pde[t][r] = None /\ f # None
  <2>1. f \in Frames /\ x.map[f] = 0
    BY <1>4, FreeFrameFree
  <2>2. y = [get_user_page(x) EXCEPT !.pde[t][r] = f]
    BY <1>4 DEF get_pte
  <2>3. get_user_page(x) = [x EXCEPT !.map[f] = 1, !.free = x.free - 1]
    BY <1>1, <1>4, GetPage
  <2>4. /\ x.map \in [Frames -> Nat] /\ x.free \in Int
        /\ x.pde \in [Tasks -> [Regions -> 0 .. NFrame]]
    BY <1>1, MemType
  <2> HIDE DEF y, r, f
  <2>5. y = [x EXCEPT !.map[f] = 1, !.free = x.free - 1, !.pde[t][r] = f]
    BY <2>2, <2>3
  <2>6. /\ y.map = [x.map EXCEPT ![f] = 1] /\ y.free = x.free - 1
        /\ y.pde = [x.pde EXCEPT ![t][r] = f] /\ y.pte = x.pte /\ y.data = x.data
        /\ y.panic = x.panic /\ y.kernel_map = x.kernel_map
        /\ y = [x EXCEPT !.map = y.map, !.free = y.free, !.pde = y.pde]
    BY <1>1, <2>5 DEF Mem
  <2>7. y \in Mem
    <3>1. /\ y.map \in [Frames -> Nat] /\ y.free \in Int
          /\ y.pde \in [Tasks -> [1 .. 2 -> 0 .. NFrame]]
      BY <1>1, <2>1, <2>4, <2>6, Layout DEF Regions
    <3> QED BY <1>1, <2>6, <3>1 DEF Mem
  <2>8. NewTable(x, y, t, r, f)
    BY <1>4, <2>1, <2>6, <2>7 DEF NewTable
  <2>9. /\ Base(y) /\ (Cow(x) => Cow(y)) /\ (Tidy(x) => Tidy(y))
        /\ Grows(x, y, t) /\ SameView(x, y, t)
    BY <1>1, <2>8, NewTableKeeps
  <2>10. y.pde[t][r] # None
    BY <1>1, <2>1, <2>4, <2>6, Layout
  <2> QED BY <1>4, <2>6, <2>9, <2>10 DEF Upward, y, r
<1> QED BY <1>2, <1>3, <1>4

(***************************************************************************)
(* link_user_page finds a page at v or maps a new one, and fails only with *)
(* a panic.                                                                *)
(***************************************************************************)
LEMMA LinkKeeps ==
  ASSUME NEW x, Base(x), NEW t \in Tasks, NEW v \in Pages, NEW new \in Values
  PROVE  LET y == link_user_page(x, t, v, new) IN
         /\ Base(y)
         /\ Cow(x) => Cow(y)
         /\ Tidy(x) => Tidy(y)
         /\ Grows(x, y, t) /\ Upward(x, y)
         /\ \A w \in Pages \ {v} : y.pte[t][w] = x.pte[t][w]
         /\ Present(x, t, v) => y = x
         /\ ~ Present(y, t, v) => y.panic # "none" /\ y.pte[t][v] = x.pte[t][v]
         /\ ~ Present(x, t, v) /\ Present(y, t, v) =>
              /\ y.pte[t][v].write /\ ~ y.pte[t][v].shared
              /\ y.map[y.pte[t][v].frame] = 1
<1> DEFINE z == get_pte(x, t, v)
           f == FreeFrame(z)
           y == link_user_page(x, t, v, new)
<1>1. /\ Base(z) /\ (Cow(x) => Cow(z)) /\ (Tidy(x) => Tidy(z))
      /\ Grows(x, z, t) /\ SameView(x, z, t) /\ Upward(x, z)
      /\ z.pte = x.pte /\ z.data = x.data
      /\ (x.pde[t][Region(v)] # None => z = x)
      /\ (z.pde[t][Region(v)] = None => FreeFrame(z) = None /\ z.panic # "none")
  BY GetPteKeeps
<1>2. y = IF Present(z, t, v) THEN z
          ELSE IF f = None THEN Panic(z, "oom")
          ELSE [get_user_page(z) EXCEPT
                 !.pte[t][v] = [NoPte EXCEPT !.frame = f, !.write = TRUE],
                 !.data[f] = new]
  BY DEF link_user_page
<1> HIDE DEF z, y
<1>3. Present(z, t, v) <=> Present(x, t, v)
  BY <1>1 DEF Present
<1>4. Present(x, t, v) => z = x
  BY <1>1 DEF Base, Rooted
<1>5. z \in Mem
  BY <1>1 DEF Base
<1>6. CASE Present(z, t, v)
  <2>1. y = z /\ y = x
    BY <1>2, <1>3, <1>4, <1>6
  <2> QED BY <1>1, <1>3, <1>6, <2>1 DEF y
<1>7. CASE ~ Present(z, t, v) /\ f = None
  <2>1. y = Panic(z, "oom")
    BY <1>2, <1>7
  <2>0. "oom" \in Reasons /\ "oom" # "none"
    BY DEF Reasons
  <2>2. SameTables(z, y) /\ y.data = z.data /\ Upward(z, y) /\ y.panic # "none"
    BY <1>5, <2>0, <2>1, PanicKeeps, Zenon
  <2>3. /\ Base(y) /\ (Cow(z) => Cow(y)) /\ (Tidy(z) => Tidy(y))
        /\ \A u \in Tasks : SameView(z, y, u)
        /\ (Present(y, t, v) <=> Present(z, t, v))
    BY <1>1, <2>2, SameKeeps
  <2>4. Grows(z, y, t)
    BY <2>2, <2>3 DEF Grows, Elsewhere, SameView, SameTables
  <2>5. Grows(x, y, t) /\ Upward(x, y)
    BY <1>1, <2>2, <2>4, ViewsAddUp
  <2>6. y.pte = x.pte
    BY <1>1, <2>2 DEF SameTables
  <2> QED BY <1>1, <1>3, <1>7, <2>2, <2>3, <2>5, <2>6 DEF y
<1>8. CASE ~ Present(z, t, v) /\ f # None
  <2> DEFINE e == [NoPte EXCEPT !.frame = f, !.write = TRUE]
  <2>1. f \in Frames /\ z.map[f] = 0 /\ z.pde[t][Region(v)] # None
    BY <1>1, <1>8, FreeFrameFree
  <2>2. get_user_page(z) = [z EXCEPT !.map[f] = 1, !.free = z.free - 1]
    BY <1>5, <1>8, GetPage
  <2>3. y = [get_user_page(z) EXCEPT !.pte[t][v] = e, !.data[f] = new]
    BY <1>2, <1>8
  <2>4. e \in Pte
    BY <2>1, Layout DEF NoPte, Pte
  <2>5. /\ z.map \in [Frames -> Nat] /\ z.free \in Int /\ z.data \in [Frames -> Values]
        /\ z.pte \in [Tasks -> [Pages -> Pte]]
    BY <1>5, MemType
  <2> HIDE DEF e, f
  <2>6. y = [z EXCEPT !.map[f] = 1, !.free = z.free - 1, !.pte[t][v] = e, !.data[f] = new]
    BY <2>2, <2>3
  <2>7. /\ y.map = [z.map EXCEPT ![f] = 1] /\ y.free = z.free - 1
        /\ y.pde = z.pde /\ y.pte = [z.pte EXCEPT ![t][v] = e]
        /\ y.data = [z.data EXCEPT ![f] = new]
        /\ y.panic = z.panic /\ y.kernel_map = z.kernel_map
        /\ y = [z EXCEPT !.map = y.map, !.free = y.free, !.pte = y.pte, !.data = y.data]
    BY <1>5, <2>6 DEF Mem
  <2>8. y \in Mem
    <3>1. /\ y.map \in [Frames -> Nat] /\ y.free \in Int /\ y.data \in [Frames -> Values]
          /\ y.pte \in [Tasks -> [Pages -> Pte]]
      BY <2>1, <2>4, <2>5, <2>7
    <3> QED BY <1>5, <2>7, <3>1 DEF Mem
  <2>9. NewPage(z, y, t, v, f, new)
    BY <1>8, <2>1, <2>7, <2>8 DEF NewPage, e
  <2>10. /\ Base(y) /\ (Cow(z) => Cow(y)) /\ (Tidy(z) => Tidy(y)) /\ Grows(z, y, t)
         /\ \A w \in Pages \ {v} : y.pte[t][w] = z.pte[t][w]
         /\ Present(y, t, v) /\ y.pte[t][v].write /\ ~ y.pte[t][v].shared
         /\ y.map[y.pte[t][v].frame] = 1
    BY <1>1, <2>9, NewPageKeeps
  <2>11. Upward(z, y)
    BY <2>7 DEF Upward
  <2>12. Grows(x, y, t) /\ Upward(x, y)
    BY <1>1, <2>10, <2>11, ViewsAddUp
  <2> QED BY <1>1, <1>3, <1>8, <2>10, <2>12 DEF y
<1> QED BY <1>6, <1>7, <1>8

(***************************************************************************)
(* Dropping pages where a page table may first have to be made, as         *)
(* unlink_user_page and sys_munmap do.                                     *)
(***************************************************************************)
LEMMA UnlinkKeeps ==
  ASSUME NEW x, Base(x), NEW t \in Tasks, NEW v \in Pages, NEW V \in SUBSET Pages
  PROVE  LET y == DropPages(get_pte(x, t, v), t, V) IN
         /\ Base(y)
         /\ Cow(x) => Cow(y)
         /\ Tidy(x) => Tidy(y)
         /\ Shrinks(x, y, t) /\ Upward(x, y)
         /\ \A w \in Pages : y.pte[t][w] = IF w \in V THEN NoPte ELSE x.pte[t][w]
<1> DEFINE z == get_pte(x, t, v)
           y == DropPages(z, t, V)
<1>1. /\ Base(z) /\ (Cow(x) => Cow(z)) /\ (Tidy(x) => Tidy(z))
      /\ Grows(x, z, t) /\ SameView(x, z, t) /\ Upward(x, z) /\ z.pte = x.pte
  BY GetPteKeeps
<1> HIDE DEF z
<1>2. /\ Base(y) /\ (Cow(z) => Cow(y)) /\ (Tidy(z) => Tidy(y))
      /\ Shrinks(z, y, t) /\ Upward(z, y)
      /\ \A w \in Pages : y.pte[t][w] = IF w \in V THEN NoPte ELSE z.pte[t][w]
  BY <1>1, DropKeeps
<1> HIDE DEF y
<1>3. Shrinks(x, y, t) /\ Upward(x, y)
  BY <1>1, <1>2, ViewsAddUp
<1> QED BY <1>1, <1>2, <1>3 DEF y, z

(***************************************************************************)
(* A page of an mmap: linked, and its rights set.  A page that was not     *)
(* there before is nobody else's.                                          *)
(***************************************************************************)
LEMMA MmapPageKeeps ==
  ASSUME NEW x, Base(x), NEW t \in Tasks, NEW v \in Pages, NEW kind \in MmapKinds,
         NEW new \in Values
  PROVE  LET y == MmapPage(x, t, v, kind, new) IN
         /\ Base(y)
         /\ Cow(x) /\ ~ Present(x, t, v) => Cow(y)
         /\ Tidy(x) /\ y.panic = "none" => Tidy(y)
         /\ Grows(x, y, t) /\ Upward(x, y)
         /\ \A w \in Pages \ {v} : y.pte[t][w] = x.pte[t][w]
<1> DEFINE l == link_user_page(x, t, v, new)
           y == MmapPage(x, t, v, kind, new)
           a == kind \in Writable
           b == kind \notin Writable
           c == l.pte[t][v].shared \/ kind \in {"ro-shared", "rw-shared"}
           e == [l.pte[t][v] EXCEPT !.write = a, !.readonly = b, !.shared = c]
<1>1. /\ Base(l) /\ (Cow(x) => Cow(l)) /\ (Tidy(x) => Tidy(l))
      /\ Grows(x, l, t) /\ Upward(x, l)
      /\ \A w \in Pages \ {v} : l.pte[t][w] = x.pte[t][w]
      /\ (~ Present(l, t, v) => l.panic # "none")
      /\ (~ Present(x, t, v) /\ Present(l, t, v) => l.map[l.pte[t][v].frame] = 1)
  BY LinkKeeps
<1>2. y = [l EXCEPT !.pte[t][v].write = a, !.pte[t][v].readonly = b, !.pte[t][v].shared = c]
  BY DEF MmapPage
<1>3. a \in BOOLEAN /\ b \in BOOLEAN /\ c \in BOOLEAN
  OBVIOUS
<1>4. l \in Mem
  BY <1>1 DEF Base
<1> HIDE DEF l, y, a, b, c
<1>5. l.pte \in [Tasks -> [Pages -> Pte]] /\ l.pte[t][v] \in Pte
  BY <1>4, MemType
<1>6. e \in Pte /\ e.frame = l.pte[t][v].frame
  BY <1>3, <1>5 DEF Pte
<1>7. y = [l EXCEPT !.pte = [l.pte EXCEPT ![t][v] = e]]
  <2> DEFINE P1 == [l.pte EXCEPT ![t][v].write = a]
             P2 == [P1 EXCEPT ![t][v].readonly = b]
             P3 == [P2 EXCEPT ![t][v].shared = c]
             e1 == [l.pte[t][v] EXCEPT !.write = a]
             e2 == [e1 EXCEPT !.readonly = b]
  <2>2. P1 = [l.pte EXCEPT ![t][v] = e1]
    BY <1>5
  <2> HIDE DEF P1
  <2>3. P2 = [l.pte EXCEPT ![t][v] = e2]
    <3> HIDE DEF e1
    <3> QED BY <1>5, <2>2
  <2> HIDE DEF P2
  <2>4. P3 = [l.pte EXCEPT ![t][v] = [e2 EXCEPT !.shared = c]]
    <3> HIDE DEF e2
    <3> QED BY <1>5, <2>3
  <2>5. [e2 EXCEPT !.shared = c] = e
    OBVIOUS
  <2> HIDE DEF e, e2
  <2>6. y = [l EXCEPT !.pte = P3]
    BY <1>2, <1>4 DEF Mem, P1, P2
  <2> HIDE DEF P3
  <2> QED BY <2>4, <2>5, <2>6
<1> HIDE DEF e
<1>8. /\ y.map = l.map /\ y.free = l.free /\ y.pde = l.pde /\ y.data = l.data
      /\ y.pte = [l.pte EXCEPT ![t][v] = e]
      /\ y.panic = l.panic /\ y.kernel_map = l.kernel_map
  BY <1>4, <1>7 DEF Mem
<1>9. y \in Mem
  <2>1. [l.pte EXCEPT ![t][v] = e] \in [Tasks -> [Pages -> Pte]]
    BY <1>5, <1>6
  <2> QED BY <1>4, <1>7, <2>1 DEF Mem
<1>10. Rights(l, y, t, v, e)
  BY <1>6, <1>8, <1>9 DEF Rights
<1>11. /\ Base(y)
       /\ (Cow(l) /\ (Present(l, t, v) => l.map[l.pte[t][v].frame] = 1) => Cow(y))
       /\ (Tidy(l) /\ Present(l, t, v) => Tidy(y))
       /\ Grows(l, y, t)
       /\ \A w \in Pages : y.pte[t][w] = IF w = v THEN e ELSE l.pte[t][w]
  <2>1. Base(l) /\ y.data = l.data
    BY <1>1, <1>8
  <2> HIDE DEF y
  <2> QED BY <1>10, <2>1, RightsKeep
<1>12. Upward(l, y)
  BY <1>8 DEF Upward
<1>13. Grows(x, y, t) /\ Upward(x, y)
  BY <1>1, <1>11, <1>12, ViewsAddUp
<1> QED BY <1>1, <1>8, <1>11, <1>13 DEF y

(***************************************************************************)
(* The loop of sys_mmap over pages of the process.                         *)
(***************************************************************************)
LEMMA MmapLoopKeeps ==
  ASSUME Base(m), NEW t \in Tasks, NEW a \in Nat, NEW count \in Nat,
         NEW kind \in MmapKinds, NEW new \in Values,
         a .. a + count - 1 \subseteq Pages
  PROVE  LET y == MmapLoop(t, a, count, kind, new)
             V == a .. a + count - 1 IN
         /\ Base(y)
         /\ Cow(m) /\ (\A v \in V : ~ Present(m, t, v)) => Cow(y)
         /\ Tidy(m) /\ y.panic = "none" => Tidy(y)
         /\ Grows(m, y, t) /\ Upward(m, y)
         /\ \A w \in Pages \ V : y.pte[t][w] = m.pte[t][w]
<1> DEFINE Turn(x, i) == MmapPage(x, t, a + i - 1, kind, new)
           Loop(f, n) == f[0] = m /\ \A i \in 1 .. n : f[i] = Turn(f[i - 1], i)
           Def(f) == f = [i \in 0 .. count |->
                            IF i = 0 THEN m
                            ELSE MmapPage(f[i - 1], t, a + i - 1, kind, new)]
           Linked == CHOOSE f : Def(f)
<1>2. MmapLoop(t, a, count, kind, new) = Linked[count]
  BY DEF MmapLoop
<1> HIDE DEF Turn, Linked
<1>3. \E f : Loop(f, count)
  <2> DEFINE S == {n \in 0 .. count : \E f : Loop(f, n)}
  <2>1. 0 \in S
    <3>1. Loop([i \in {0} |-> m], 0)
      OBVIOUS
    <3> HIDE DEF Loop
    <3> QED BY <3>1
  <2>2. ASSUME NEW n \in 0 .. count - 1, n \in S
        PROVE  n + 1 \in S
    <3>1. PICK f : Loop(f, n)
      BY <2>2
    <3> DEFINE g == [i \in 0 .. n + 1 |-> IF i = n + 1 THEN Turn(f[n], n + 1) ELSE f[i]]
    <3>2. n \in Nat /\ 0 # n + 1
      OBVIOUS
    <3>3. g[0] = m
      BY <3>1, <3>2
    <3>4. ASSUME NEW i \in 1 .. n + 1 PROVE g[i] = Turn(g[i - 1], i)
      <4>1. i - 1 \in 0 .. n + 1 /\ i - 1 # n + 1 /\ i \in 0 .. n + 1
        BY <3>2
      <4>2. g[i - 1] = f[i - 1]
        BY <4>1
      <4>3. CASE i = n + 1
        <5>1. g[i] = Turn(f[n], n + 1) /\ i - 1 = n
          BY <3>2, <4>1, <4>3
        <5> HIDE DEF g
        <5> QED BY <4>2, <4>3, <5>1
      <4>4. CASE i # n + 1
        <5>1. g[i] = f[i] /\ i \in 1 .. n
          BY <3>2, <4>1, <4>4
        <5> HIDE DEF g
        <5> QED BY <3>1, <4>2, <5>1
      <4> QED BY <4>3, <4>4
    <3>5. Loop(g, n + 1)
      <4> HIDE DEF g
      <4> QED BY <3>3, <3>4
    <3> HIDE DEF Loop, g
    <3> QED BY <3>2, <3>5
  <2> HIDE DEF S
  <2>3. \A n \in 0 .. count : n \in S
    BY <2>1, <2>2, PlaceInduction
  <2>4. count \in S
    BY <2>3
  <2> QED BY <2>4 DEF S
<1>4. \E f : Def(f)
  <2>1. PICK f : Loop(f, count)
    BY <1>3
  <2> DEFINE g == [i \in 0 .. count |-> f[i]]
  <2>2. ASSUME NEW i \in 0 .. count
        PROVE  g[i] = IF i = 0 THEN m ELSE MmapPage(g[i - 1], t, a + i - 1, kind, new)
    <3>1. CASE i = 0
      BY <2>1, <3>1
    <3>2. CASE i # 0
      <4>1. i \in 1 .. count /\ i - 1 \in 0 .. count
        BY <3>2
      <4>2. g[i] = f[i] /\ g[i - 1] = f[i - 1]
        BY <4>1
      <4>3. f[i] = Turn(f[i - 1], i)
        BY <2>1, <4>1
      <4> HIDE DEF g
      <4> QED BY <3>2, <4>2, <4>3 DEF Turn
    <3> QED BY <3>1, <3>2
  <2>3. g = [i \in 0 .. count |-> g[i]]
    OBVIOUS
  <2> HIDE DEF g
  <2>4. Def(g)
    BY <2>2, <2>3
  <2> HIDE DEF Def
  <2> QED BY <2>4
<1>5. Def(Linked)
  <2> HIDE DEF Def
  <2> QED BY <1>4 DEF Linked
<1>6. Loop(Linked, count)
  <2>1. Linked[0] = m
    BY <1>5
  <2>2. ASSUME NEW i \in 1 .. count PROVE Linked[i] = Turn(Linked[i - 1], i)
    <3>1. i \in 0 .. count /\ i # 0
      OBVIOUS
    <3> QED BY <1>5, <3>1 DEF Turn
  <2> QED BY <2>1, <2>2
<1> HIDE DEF Def
<1> DEFINE Absent == \A v \in a .. a + count - 1 : ~ Present(m, t, v)
           Good(y, n) == /\ Base(y)
                         /\ Cow(m) /\ Absent => Cow(y)
                         /\ Tidy(m) /\ y.panic = "none" => Tidy(y)
                         /\ Grows(m, y, t) /\ Upward(m, y)
                         /\ \A w \in Pages : w \notin a .. a + n - 1 => y.pte[t][w] = m.pte[t][w]
           T == {n \in 0 .. count : Good(Linked[n], n)}
<1>7. 0 \in T
  <2>1. Linked[0] = m
    BY <1>6
  <2>2. Grows(m, m, t) /\ Upward(m, m)
    BY DEF Grows, Elsewhere, SameView, Upward
  <2>3. Good(m, 0)
    BY <2>2
  <2> HIDE DEF Good
  <2> QED BY <2>1, <2>3
<1>8. ASSUME NEW n \in 0 .. count - 1, n \in T
      PROVE  n + 1 \in T
  <2> DEFINE x == Linked[n]
             v == a + (n + 1) - 1
             y == MmapPage(x, t, v, kind, new)
  <2>1. n + 1 \in 1 .. count /\ n + 1 \in 0 .. count /\ (n + 1) - 1 = n /\ v = a + n
    OBVIOUS
  <2>2. v \in a .. a + count - 1 /\ v \in Pages /\ v \notin a .. a + n - 1
    OBVIOUS
  <2>3. Linked[n + 1] = y
    BY <1>6, <2>1 DEF Turn
  <2>4. Good(x, n)
    BY <1>8
  <2> HIDE DEF v, x, Loop
  <2>5. /\ Base(y)
        /\ (Cow(x) /\ ~ Present(x, t, v) => Cow(y))
        /\ (Tidy(x) /\ y.panic = "none" => Tidy(y))
        /\ Grows(x, y, t) /\ Upward(x, y)
        /\ \A w \in Pages \ {v} : y.pte[t][w] = x.pte[t][w]
    BY <2>2, <2>4, MmapPageKeeps
  <2> HIDE DEF y
  <2>6. Absent => ~ Present(x, t, v)
    BY <2>2, <2>4 DEF Present
  <2>7. y.panic = "none" => x.panic = "none"
    BY <2>5 DEF Upward
  <2>8. Grows(m, y, t) /\ Upward(m, y)
    BY <2>4, <2>5, ViewsAddUp
  <2>9. \A w \in Pages : w \notin a .. a + (n + 1) - 1 => y.pte[t][w] = m.pte[t][w]
    <3> SUFFICES ASSUME NEW w \in Pages, w \notin a .. a + (n + 1) - 1
                 PROVE  y.pte[t][w] = m.pte[t][w]
      OBVIOUS
    <3>1. w # v /\ w \notin a .. a + n - 1
      BY <2>1
    <3> QED BY <2>4, <2>5, <3>1
  <2>10. Good(y, n + 1)
    BY <2>4, <2>5, <2>6, <2>7, <2>8, <2>9
  <2> HIDE DEF Good
  <2> QED BY <2>1, <2>3, <2>10
<1> HIDE DEF T, Loop
<1>9. \A n \in 0 .. count : n \in T
  BY <1>7, <1>8, PlaceInduction
<1>10. count \in T
  BY <1>9
<1>11. Good(Linked[count], count)
  BY <1>10, Zenon DEF T
<1> QED BY <1>2, <1>11

\* Process u is left with the memory of t in the regions R.
Copied(x, y, t, u, R) == \A v \in Pages : Region(v) \in R =>
  y.pte[u][v].frame = x.pte[t][v].frame /\ y.pte[u][v].shared = x.pte[t][v].shared

(***************************************************************************)
(* copy_pte for a region of t that u has nothing in: u gets what t has,    *)
(* unless the kernel panics.                                               *)
(***************************************************************************)
LEMMA CopyRegionKeeps ==
  ASSUME NEW x, Base(x), Tidy(x), NEW t \in Tasks, NEW u \in Tasks, t # u,
         NEW r \in Regions, x.pde[u][r] = None,
         \A v \in Pages : Region(v) = r => x.pte[u][v] = NoPte
  PROVE  LET y == CopyRegion(x, t, u, r) IN
         /\ Base(y) /\ Tidy(y)
         /\ Cow(x) => Cow(y)
         /\ Upward(x, y) /\ y.data = x.data
         /\ \A s \in Tasks \ {u} : SameView(x, y, s) /\ y.pde[s] = x.pde[s]
         /\ \A s \in Tasks \ {t, u} : y.pte[s] = x.pte[s]
         /\ \A q \in Regions \ {r} : y.pde[u][q] = x.pde[u][q]
         /\ \A v \in Pages : Region(v) # r => y.pte[u][v] = x.pte[u][v]
         /\ \A v \in Pages : y.pte[t][v].frame = x.pte[t][v].frame
         /\ y.panic = "none" => Copied(x, y, t, u, {r})
<1> DEFINE y == CopyRegion(x, t, u, r)
<1>1. x \in Mem /\ Rooted(x)
  BY DEF Base
<1>2. CASE x.pde[t][r] = None
  <2>1. y = x
    BY <1>2 DEF CopyRegion
  <2>2. Upward(x, x) /\ \A s \in Tasks : SameView(x, x, s)
    BY DEF SameView, Upward
  <2>3. Copied(x, x, t, u, {r})
    <3> SUFFICES ASSUME NEW v \in Pages, Region(v) = r
                 PROVE  x.pte[u][v] = x.pte[t][v]
      BY DEF Copied
    <3>1. ~ Present(x, t, v)
      BY <1>1, <1>2 DEF Rooted
    <3> QED BY <3>1 DEF Tidy
  <2> HIDE DEF y
  <2> QED BY <2>1, <2>2, <2>3 DEF y
<1>3. CASE x.pde[t][r] # None /\ FreeFrame(x) = None
  <2>1. y = Panic(x, "oom")
    BY <1>3 DEF CopyRegion
  <2>2. "oom" \in Reasons /\ "oom" # "none"
    BY DEF Reasons
  <2>3. SameTables(x, y) /\ y.data = x.data /\ Upward(x, y) /\ y.panic # "none"
    BY <1>1, <2>1, <2>2, PanicKeeps, Zenon
  <2> HIDE DEF y
  <2>4. /\ Base(y) /\ Tidy(y) /\ (Cow(x) => Cow(y))
        /\ \A s \in Tasks : SameView(x, y, s)
    BY <2>3, SameKeeps
  <2>5. y.pte = x.pte /\ y.pde = x.pde
    BY <2>3 DEF SameTables
  <2> QED BY <2>3, <2>4, <2>5 DEF y
<1>4. CASE x.pde[t][r] # None /\ FreeFrame(x) # None
  <2>1. /\ Base(y) /\ (Cow(x) => Cow(y)) /\ (Tidy(x) => Tidy(y))
        /\ Upward(x, y) /\ y.data = x.data
        /\ \A s \in Tasks \ {u} : SameView(x, y, s) /\ y.pde[s] = x.pde[s]
        /\ \A s \in Tasks \ {t, u} : y.pte[s] = x.pte[s]
        /\ \A q \in Regions \ {r} : y.pde[u][q] = x.pde[u][q]
        /\ \A v \in Pages : Region(v) # r => y.pte[u][v] = x.pte[u][v]
        /\ \A v \in Pages : y.pte[t][v].frame = x.pte[t][v].frame
        /\ \A v \in Pages : Region(v) = r /\ Present(x, t, v) =>
             y.pte[u][v].frame = x.pte[t][v].frame /\ y.pte[u][v].shared = x.pte[t][v].shared
        /\ \A v \in Pages : ~ Present(x, t, v) => y.pte[u][v] = x.pte[u][v]
    BY <1>4, CopyKeeps
  <2> HIDE DEF y
  <2>2. Copied(x, y, t, u, {r})
    <3> SUFFICES ASSUME NEW v \in Pages, Region(v) = r
                 PROVE  y.pte[u][v].frame = x.pte[t][v].frame
                          /\ y.pte[u][v].shared = x.pte[t][v].shared
      BY DEF Copied
    <3>1. CASE Present(x, t, v)
      BY <2>1, <3>1
    <3>2. CASE ~ Present(x, t, v)
      <4>1. y.pte[u][v] = x.pte[u][v] /\ x.pte[t][v] = NoPte
        BY <2>1, <3>2 DEF Tidy
      <4> QED BY <4>1
    <3> QED BY <3>1, <3>2
  <2> QED BY <2>1, <2>2 DEF y
<1> QED BY <1>2, <1>3, <1>4

(***************************************************************************)
(* copy_pte: both regions, for a new process.  Nobody sees a difference,   *)
(* and the child sees what its parent does.                                *)
(***************************************************************************)
LEMMA CopyPteKeeps ==
  ASSUME NEW x, Base(x), Tidy(x), NEW t \in Tasks, NEW u \in Tasks, t # u, Bare(x, u)
  PROVE  LET y == copy_pte(x, t, u) IN
         /\ Base(y) /\ Tidy(y)
         /\ Cow(x) => Cow(y)
         /\ Upward(x, y)
         /\ \A s \in Tasks \ {u} : SameView(x, y, s) /\ y.pde[s] = x.pde[s]
         /\ \A s \in Tasks \ {t, u} : y.pte[s] = x.pte[s]
         /\ y.panic = "none" => \A v \in Pages : /\ Seen(y, u, v) = Seen(x, t, v)
                                                 /\ y.pte[u][v].shared = x.pte[t][v].shared
<1> DEFINE z == CopyRegion(x, t, u, 1)
           y == CopyRegion(z, t, u, 2)
<1>1. copy_pte(x, t, u) = y
  BY DEF copy_pte
<1>2. 1 \in Regions /\ 2 \in Regions /\ 2 \in Regions \ {1} /\ 1 # 2 /\ Regions = {1, 2}
  BY DEF Regions
<1>3. /\ x.pde[u][1] = None /\ x.pde[u][2] = None
      /\ \A v \in Pages : x.pte[u][v] = NoPte
  BY <1>2 DEF Bare
<1>4. /\ Base(z) /\ Tidy(z) /\ (Cow(x) => Cow(z)) /\ Upward(x, z) /\ z.data = x.data
      /\ \A s \in Tasks \ {u} : SameView(x, z, s) /\ z.pde[s] = x.pde[s]
      /\ \A s \in Tasks \ {t, u} : z.pte[s] = x.pte[s]
      /\ \A q \in Regions \ {1} : z.pde[u][q] = x.pde[u][q]
      /\ \A v \in Pages : Region(v) # 1 => z.pte[u][v] = x.pte[u][v]
      /\ \A v \in Pages : z.pte[t][v].frame = x.pte[t][v].frame
      /\ (z.panic = "none" => Copied(x, z, t, u, {1}))
  BY <1>2, <1>3, CopyRegionKeeps
<1> HIDE DEF z
<1>5. z.pde[u][2] = None /\ \A v \in Pages : Region(v) = 2 => z.pte[u][v] = NoPte
  BY <1>2, <1>3, <1>4
<1>6. /\ Base(y) /\ Tidy(y) /\ (Cow(z) => Cow(y)) /\ Upward(z, y) /\ y.data = z.data
      /\ \A s \in Tasks \ {u} : SameView(z, y, s) /\ y.pde[s] = z.pde[s]
      /\ \A s \in Tasks \ {t, u} : y.pte[s] = z.pte[s]
      /\ \A v \in Pages : Region(v) # 2 => y.pte[u][v] = z.pte[u][v]
      /\ (y.panic = "none" => Copied(z, y, t, u, {2}))
  BY <1>2, <1>4, <1>5, CopyRegionKeeps
<1> HIDE DEF y
<1>7. \A s \in Tasks \ {u} : SameView(x, y, s) /\ y.pde[s] = x.pde[s]
  BY <1>4, <1>6 DEF SameView
<1>8. ASSUME y.panic = "none", NEW v \in Pages
      PROVE  Seen(y, u, v) = Seen(x, t, v) /\ y.pte[u][v].shared = x.pte[t][v].shared
  <2>1. z.panic = "none"
    BY <1>6, <1>8 DEF Upward
  <2>2. Region(v) \in Regions
    BY Layout
  <2>3. y.pte[u][v].frame = x.pte[t][v].frame /\ y.pte[u][v].shared = x.pte[t][v].shared
    <3>1. CASE Region(v) = 1
      BY <1>2, <1>4, <1>6, <2>1, <3>1 DEF Copied
    <3>2. CASE Region(v) = 2
      <4>1. z.pte[t][v].shared = x.pte[t][v].shared
        BY <1>4 DEF SameView
      <4>2. y.pte[u][v].frame = z.pte[t][v].frame /\ y.pte[u][v].shared = z.pte[t][v].shared
        BY <1>6, <1>8, <3>2 DEF Copied
      <4> QED BY <1>4, <4>1, <4>2
    <3> QED BY <1>2, <2>2, <3>1, <3>2
  <2> QED BY <1>4, <1>6, <2>3 DEF Seen, Present
<1>9. Upward(x, y)
  BY <1>4, <1>6, ViewsAddUp
<1>10. \A s \in Tasks \ {t, u} : y.pte[s] = x.pte[s]
  BY <1>4, <1>6
<1> QED BY <1>1, <1>4, <1>6, <1>7, <1>8, <1>9, <1>10

(***************************************************************************)
(* alloc_kpage takes pages that are free, or panics; it touches no user    *)
(* memory.                                                                 *)
(***************************************************************************)
LEMMA AllocKeeps ==
  ASSUME NEW x \in Mem, NEW count \in Nat \ {0}
  PROVE  LET y == alloc_kpage(x, count) IN
         /\ SameTables(x, y) /\ y.data = x.data /\ y.panic \in Reasons
         /\ y.panic = "none" =>
              /\ x.panic = "none" /\ Runs(x, count) # {}
              /\ y.kernel_map = x.kernel_map
                   \cup (Min(Runs(x, count)) .. Min(Runs(x, count)) + count - 1)
<1> DEFINE y == alloc_kpage(x, count)
           i == Min(Runs(x, count))
<1>0. NKpage \in Nat
  BY MemoryAssumption
<1>1. CASE Runs(x, count) = {}
  <2>1. y = Panic(x, "kpage")
    BY <1>1 DEF alloc_kpage
  <2>2. "kpage" \in Reasons /\ "kpage" # "none"
    BY DEF Reasons
  <2>3. SameTables(x, y) /\ y.data = x.data /\ Upward(x, y) /\ y.panic # "none"
    BY <2>1, <2>2, PanicKeeps, Zenon
  <2> HIDE DEF y
  <2>4. y.panic \in Reasons
    BY <2>3, MemType DEF SameTables
  <2> QED BY <2>3, <2>4 DEF y
<1>2. CASE Runs(x, count) # {}
  <2>1. y = [x EXCEPT !.kernel_map = x.kernel_map \cup (i .. i + count - 1)]
    BY <1>2 DEF alloc_kpage
  <2>2. i \in Runs(x, count)
    <3>1. Runs(x, count) \in SUBSET Nat
      BY <1>0 DEF Runs
    <3> QED BY <1>2, <3>1, MinExists
  <2>3. i \in 1 .. NKpage + 1 - count
    BY <2>2 DEF Runs
  <2>4. i .. i + count - 1 \subseteq 1 .. NKpage
    <3> HIDE DEF i
    <3> QED BY <1>0, <2>3
  <2> HIDE DEF i, y
  <2>5. /\ SameTables(x, y) /\ y.data = x.data /\ y.panic = x.panic
        /\ y.kernel_map = x.kernel_map \cup (i .. i + count - 1)
    BY <2>1, <2>4 DEF SameTables, Mem
  <2>6. y.panic \in Reasons
    BY <2>5, MemType
  <2> QED BY <1>2, <2>5, <2>6 DEF y, i
<1> QED BY <1>1, <1>2

(***************************************************************************)
(* alloc_kpage of a single page.                                           *)
(***************************************************************************)
LEMMA AllocOne ==
  ASSUME NEW x \in Mem
  PROVE  LET y == alloc_kpage(x, 1)
             k == NewKpage(x) IN
         /\ SameTables(x, y) /\ y.data = x.data /\ k \in 0 .. NKpage
         /\ y.panic = "none" =>
              /\ x.panic = "none" /\ k \in 1 .. NKpage
              /\ k \notin x.kernel_map /\ y.kernel_map = x.kernel_map \cup {k}
<1> DEFINE y == alloc_kpage(x, 1)
           k == NewKpage(x)
           i == Min(Runs(x, 1))
<1>0. NKpage \in Nat /\ 1 \in Nat \ {0}
  BY MemoryAssumption
<1>1. /\ SameTables(x, y) /\ y.data = x.data
      /\ y.panic = "none" => /\ x.panic = "none" /\ Runs(x, 1) # {}
                             /\ y.kernel_map = x.kernel_map \cup (i .. i + 1 - 1)
  BY <1>0, AllocKeeps
<1> HIDE DEF y
<1>2. CASE Runs(x, 1) = {}
  <2>1. k = None
    BY <1>2 DEF NewKpage
  <2> QED BY <1>0, <1>1, <1>2, <2>1 DEF None, y
<1>3. CASE Runs(x, 1) # {}
  <2>1. k = i
    BY <1>3 DEF NewKpage
  <2>2. i \in Runs(x, 1)
    <3>1. Runs(x, 1) \in SUBSET Nat
      BY <1>0 DEF Runs
    <3> QED BY <1>3, <3>1, MinExists
  <2>3. i \in 1 .. NKpage + 1 - 1 /\ (i .. i + 1 - 1) \cap x.kernel_map = {}
    BY <2>2 DEF Runs
  <2> HIDE DEF i, k
  <2>4. i .. i + 1 - 1 = {i} /\ i \in 1 .. NKpage /\ i \in 0 .. NKpage
    BY <1>0, <2>3
  <2>5. i \notin x.kernel_map
    BY <2>3, <2>4
  <2> QED BY <1>1, <2>1, <2>4, <2>5 DEF y, k
<1> QED BY <1>2, <1>3

(***************************************************************************)
(* free_kpage returns a page.                                              *)
(***************************************************************************)
LEMMA FreeKpage ==
  ASSUME NEW x \in Mem, NEW p
  PROVE  LET y == free_kpage(x, p) IN
         /\ SameTables(x, y) /\ y.data = x.data /\ y.panic = x.panic
         /\ y.kernel_map = x.kernel_map \ {p}
BY DEF free_kpage, SameTables, Mem

-----------------------------------------------------------------------------
(* What the larger steps do with the memory. *)

(***************************************************************************)
(* Memories with the same tables and contents look the same.               *)
(***************************************************************************)
LEMMA SameViews ==
  ASSUME NEW x, NEW y, SameTables(x, y), y.data = x.data, NEW t \in Tasks
  PROVE  /\ Grows(x, y, t) /\ Shrinks(x, y, t)
         /\ \A u \in Tasks : SameView(x, y, u)
<1>1. \A u \in Tasks : SameView(x, y, u)
  BY SameKeeps
<1>2. y.pte = x.pte /\ y.pde = x.pde
  BY DEF SameTables
<1> QED BY <1>1, <1>2 DEF Grows, Shrinks, Elsewhere, SameView

(***************************************************************************)
(* sys_exit leaves no memory behind and two kernel pages free.             *)
(***************************************************************************)
LEMMA ExitEffect ==
  ASSUME NEW x, Base(x), NEW t \in Tasks, NEW p, NEW q
  PROVE  LET y == free_kpage(free_kpage(free_pte(x, t), p), q) IN
         /\ Base(y)
         /\ Cow(x) => Cow(y)
         /\ Tidy(x) => Tidy(y) /\ Bare(y, t)
         /\ Shrinks(x, y, t) /\ y.panic = x.panic
         /\ y.kernel_map = (x.kernel_map \ {p}) \ {q}
<1> DEFINE z == free_pte(x, t)
           w == free_kpage(z, p)
           y == free_kpage(w, q)
<1>1. /\ Base(z) /\ (Cow(x) => Cow(z)) /\ (Tidy(x) => Tidy(z) /\ Bare(z, t))
      /\ Shrinks(x, z, t) /\ Upward(x, z) /\ z.panic = x.panic
  BY FreeKeeps
<1>2. z \in Mem
  BY <1>1 DEF Base
<1> HIDE DEF z
<1>3. /\ SameTables(z, w) /\ w.data = z.data /\ w.panic = z.panic
      /\ w.kernel_map = z.kernel_map \ {p}
  BY <1>2, FreeKpage
<1>4. w \in Mem
  BY <1>3 DEF SameTables
<1> HIDE DEF w
<1>5. /\ SameTables(w, y) /\ y.data = w.data /\ y.panic = w.panic
      /\ y.kernel_map = w.kernel_map \ {q}
  BY <1>4, FreeKpage
<1> HIDE DEF y
<1>6. SameTables(z, y) /\ y.data = z.data
  BY <1>3, <1>5 DEF SameTables
<1>7. /\ Base(y) /\ (Cow(z) => Cow(y)) /\ (Tidy(z) => Tidy(y)) /\ (Bare(z, t) <=> Bare(y, t))
  BY <1>1, <1>6, SameKeeps
<1>8. Shrinks(z, y, t)
  BY <1>6, SameViews
<1>9. Shrinks(x, y, t)
  BY <1>1, <1>8, ViewsAddUp
<1>10. z.kernel_map = x.kernel_map
  BY <1>1 DEF Upward
<1> QED BY <1>1, <1>3, <1>5, <1>7, <1>9, <1>10 DEF y, w, z

(***************************************************************************)
(* page_fault on a page that is not writable: nobody sees a difference.    *)
(***************************************************************************)
LEMMA CowBreakEffect ==
  ASSUME NEW x, Base(x), NEW t \in Tasks, NEW v \in Pages, Present(x, t, v),
         ~ x.pte[t][v].shared
  PROVE  LET y == CowBreak(x, t, v) IN
         /\ Base(y)
         /\ Cow(x) => Cow(y)
         /\ Tidy(x) => Tidy(y)
         /\ Upward(x, y) /\ Elsewhere(x, y, t) /\ SameView(x, y, t)
<1> DEFINE y == CowBreak(x, t, v)
           f == x.pte[t][v].frame
<1>1. x \in Mem
  BY DEF Base
<1>2. /\ x.pte \in [Tasks -> [Pages -> Pte]] /\ x.pte[t][v] \in Pte /\ f \in Frames
  BY <1>1, MemType
<1>3. ASSUME SameTables(x, y), y.data = x.data, Upward(x, y)
      PROVE  /\ Base(y) /\ (Cow(x) => Cow(y)) /\ (Tidy(x) => Tidy(y))
             /\ Upward(x, y) /\ Elsewhere(x, y, t) /\ SameView(x, y, t)
  <2> HIDE DEF y
  <2>1. Grows(x, y, t) /\ SameView(x, y, t)
    BY <1>3, SameViews
  <2>2. Base(y) /\ (Cow(x) => Cow(y)) /\ (Tidy(x) => Tidy(y))
    BY <1>3, SameKeeps
  <2> QED BY <1>3, <2>1, <2>2 DEF Grows
<1>4. CASE x.map[f] = 1
  <2> DEFINE e == [x.pte[t][v] EXCEPT !.write = TRUE]
  <2>1. y = [x EXCEPT !.pte[t][v].write = TRUE]
    BY <1>4 DEF CowBreak, CowReuse
  <2>2. e \in Pte /\ e.frame = f /\ e.shared = x.pte[t][v].shared
    BY <1>2 DEF Pte
  <2> HIDE DEF y
  <2>3. y = [x EXCEPT !.pte = [x.pte EXCEPT ![t][v] = e]]
    BY <1>1, <1>2, <2>1 DEF Mem
  <2> HIDE DEF e
  <2>4. /\ y.map = x.map /\ y.free = x.free /\ y.pde = x.pde /\ y.data = x.data
        /\ y.pte = [x.pte EXCEPT ![t][v] = e]
        /\ y.panic = x.panic /\ y.kernel_map = x.kernel_map
    BY <1>1, <2>3 DEF Mem
  <2>5. y \in Mem
    <3>1. [x.pte EXCEPT ![t][v] = e] \in [Tasks -> [Pages -> Pte]]
      BY <1>2, <2>2
    <3> QED BY <1>1, <2>3, <3>1 DEF Mem
  <2>6. Rights(x, y, t, v, e)
    BY <2>2, <2>4, <2>5 DEF Rights
  <2>7. /\ Base(y)
        /\ (Cow(x) /\ (Present(x, t, v) => x.map[x.pte[t][v].frame] = 1) => Cow(y))
        /\ (Tidy(x) /\ Present(x, t, v) => Tidy(y))
        /\ Elsewhere(x, y, t)
        /\ \A u \in Tasks, w \in Pages : Seen(y, u, w) = Seen(x, u, w)
        /\ \A w \in Pages : y.pte[t][w] = IF w = v THEN e ELSE x.pte[t][w]
    <3>1. y.data = x.data
      BY <2>4
    <3>2. Base(x)
      OBVIOUS
    <3> HIDE DEF f
    <3> QED BY <2>6, <3>1, <3>2, RightsKeep
  <2>8. SameView(x, y, t)
    BY <2>2, <2>7 DEF SameView
  <2>9. Upward(x, y)
    BY <2>4 DEF Upward
  <2> QED BY <1>4, <2>7, <2>8, <2>9 DEF y
<1>5. CASE x.map[f] = 2 /\ FreeFrame(x) # None
  <2>1. y = CowCopy(x, t, v)
    BY <1>5 DEF CowBreak
  <2>2. LET z == CowCopy(x, t, v) IN
          /\ Base(z) /\ (Cow(x) => Cow(z)) /\ (Tidy(x) => Tidy(z))
          /\ Upward(x, z) /\ Elsewhere(x, z, t) /\ SameView(x, z, t)
    BY <1>5, CowCopyKeeps
  <2> HIDE DEF y
  <2> QED BY <2>1, <2>2 DEF y
<1>6. CASE x.map[f] = 2 /\ FreeFrame(x) = None
  <2>1. y = Panic(x, "oom")
    BY <1>6 DEF CowBreak, CowCopy
  <2>2. "oom" \in Reasons /\ "oom" # "none"
    BY DEF Reasons
  <2>3. SameTables(x, y) /\ y.data = x.data /\ Upward(x, y)
    BY <1>1, <2>1, <2>2, PanicKeeps, Zenon
  <2> QED BY <1>3, <2>3
<1>7. CASE x.map[f] # 1 /\ x.map[f] # 2
  <2>1. y = Panic(x, "cow")
    BY <1>7 DEF CowBreak
  <2>2. "cow" \in Reasons /\ "cow" # "none"
    BY DEF Reasons
  <2>3. SameTables(x, y) /\ y.data = x.data /\ Upward(x, y)
    BY <1>1, <2>1, <2>2, PanicKeeps, Zenon
  <2> QED BY <1>3, <2>3
<1> QED BY <1>4, <1>5, <1>6, <1>7

(***************************************************************************)
(* task_fork and copy_pde: three kernel pages and the memory of t for u.   *)
(***************************************************************************)
LEMMA ForkEffect ==
  ASSUME NEW w, Base(w), Tidy(w), NEW t \in Tasks, NEW u \in Tasks, t # u, Bare(w, u)
  PROVE  LET x == alloc_kpage(w, 1)
             y == alloc_kpage(x, 1)
             z == copy_pte(y, t, u)
             n == alloc_kpage(z, 1) IN
         /\ Base(n) /\ Tidy(n)
         /\ Cow(w) => Cow(n)
         /\ \A s \in Tasks \ {u} : SameView(w, n, s) /\ n.pde[s] = w.pde[s]
         /\ \A s \in Tasks \ {t, u} : n.pte[s] = w.pte[s]
         /\ NewKpage(w) \in 0 .. NKpage /\ NewKpage(x) \in 0 .. NKpage
         /\ NewKpage(z) \in 0 .. NKpage
         /\ n.panic = "none" =>
              /\ \A v \in Pages : /\ Seen(n, u, v) = Seen(w, t, v)
                                  /\ n.pte[u][v].shared = w.pte[t][v].shared
              /\ NewKpage(w) # None /\ NewKpage(x) # None /\ NewKpage(z) # None
              /\ NewKpage(w) \notin w.kernel_map
              /\ NewKpage(x) \notin w.kernel_map \cup {NewKpage(w)}
              /\ NewKpage(z) \notin w.kernel_map \cup {NewKpage(w), NewKpage(x)}
              /\ n.kernel_map = w.kernel_map \cup {NewKpage(w), NewKpage(x), NewKpage(z)}
<1> DEFINE x == alloc_kpage(w, 1)
           y == alloc_kpage(x, 1)
           z == copy_pte(y, t, u)
           n == alloc_kpage(z, 1)
           a == NewKpage(w)
           b == NewKpage(x)
           c == NewKpage(z)
<1>0. w \in Mem
  BY DEF Base
<1>1. /\ SameTables(w, x) /\ x.data = w.data /\ a \in 0 .. NKpage
      /\ x.panic = "none" => /\ w.panic = "none" /\ a \in 1 .. NKpage
                             /\ a \notin w.kernel_map /\ x.kernel_map = w.kernel_map \cup {a}
  BY <1>0, AllocOne
<1>2. x \in Mem
  BY <1>1 DEF SameTables
<1> HIDE DEF x, a
<1>3. /\ SameTables(x, y) /\ y.data = x.data /\ b \in 0 .. NKpage
      /\ y.panic = "none" => /\ x.panic = "none" /\ b \in 1 .. NKpage
                             /\ b \notin x.kernel_map /\ y.kernel_map = x.kernel_map \cup {b}
  BY <1>2, AllocOne
<1> HIDE DEF y, b
<1>4. SameTables(w, y) /\ y.data = w.data
  BY <1>1, <1>3 DEF SameTables
<1>5. /\ Base(y) /\ Tidy(y) /\ (Cow(w) => Cow(y)) /\ Bare(y, u)
      /\ \A s \in Tasks : SameView(w, y, s)
  BY <1>4, SameKeeps
<1>6. y.pte = w.pte /\ y.pde = w.pde
  BY <1>4 DEF SameTables
<1>7. /\ Base(z) /\ Tidy(z) /\ (Cow(y) => Cow(z)) /\ Upward(y, z)
      /\ \A s \in Tasks \ {u} : SameView(y, z, s) /\ z.pde[s] = y.pde[s]
      /\ \A s \in Tasks \ {t, u} : z.pte[s] = y.pte[s]
      /\ (z.panic = "none" => \A v \in Pages : /\ Seen(z, u, v) = Seen(y, t, v)
                                               /\ z.pte[u][v].shared = y.pte[t][v].shared)
  BY <1>5, CopyPteKeeps
<1> HIDE DEF z
<1>8. z \in Mem
  BY <1>7 DEF Base
<1>9. /\ SameTables(z, n) /\ n.data = z.data /\ c \in 0 .. NKpage
      /\ n.panic = "none" => /\ z.panic = "none" /\ c \in 1 .. NKpage
                             /\ c \notin z.kernel_map /\ n.kernel_map = z.kernel_map \cup {c}
  BY <1>8, AllocOne
<1> HIDE DEF n, c
<1>10. /\ Base(n) /\ Tidy(n) /\ (Cow(z) => Cow(n))
       /\ \A s \in Tasks : SameView(z, n, s)
  BY <1>7, <1>9, SameKeeps
<1>11. n.pte = z.pte /\ n.pde = z.pde
  BY <1>9 DEF SameTables
<1>12. \A s \in Tasks \ {u} : SameView(w, n, s) /\ n.pde[s] = w.pde[s]
  BY <1>5, <1>6, <1>7, <1>10, <1>11 DEF SameView
<1>13. \A s \in Tasks \ {t, u} : n.pte[s] = w.pte[s]
  BY <1>6, <1>7, <1>11
<1>14. ASSUME n.panic = "none"
       PROVE  \A v \in Pages : /\ Seen(n, u, v) = Seen(w, t, v)
                               /\ n.pte[u][v].shared = w.pte[t][v].shared
  BY <1>5, <1>7, <1>9, <1>10, <1>14 DEF SameView
<1>15. ASSUME n.panic = "none"
       PROVE  /\ a # None /\ b # None /\ c # None
              /\ a \notin w.kernel_map /\ b \notin w.kernel_map \cup {a}
              /\ c \notin w.kernel_map \cup {a, b}
              /\ n.kernel_map = w.kernel_map \cup {a, b, c}
  <2>1. z.panic = "none" /\ y.panic = "none" /\ x.panic = "none" /\ z.kernel_map = y.kernel_map
    BY <1>3, <1>7, <1>9, <1>15 DEF Upward
  <2>2. a # None /\ b # None /\ c # None
    BY <1>1, <1>3, <1>9, <1>15, <2>1 DEF None
  <2> QED BY <1>1, <1>3, <1>9, <1>15, <2>1, <2>2
<1> QED BY <1>1, <1>3, <1>5, <1>7, <1>9, <1>10, <1>12, <1>13, <1>14, <1>15
        DEF n, z, y, x, a, b, c

(***************************************************************************)
(* execve gives the memory of t back; the kernel pages it takes for the    *)
(* arguments it has given back by then.                                    *)
(***************************************************************************)
LEMMA ExecveEffect ==
  ASSUME NEW x, Base(x), NEW t \in Tasks
  PROVE  LET y == [free_pte(x, t) EXCEPT
                     !.panic = alloc_kpage(alloc_kpage(x, 4), 1).panic] IN
         /\ Base(y)
         /\ Cow(x) => Cow(y)
         /\ Tidy(x) => Tidy(y) /\ Bare(y, t)
         /\ Shrinks(x, y, t) /\ Upward(x, y)
<1> DEFINE z == free_pte(x, t)
           p == alloc_kpage(alloc_kpage(x, 4), 1).panic
           y == [z EXCEPT !.panic = p]
<1>1. /\ Base(z) /\ (Cow(x) => Cow(z)) /\ (Tidy(x) => Tidy(z) /\ Bare(z, t))
      /\ Shrinks(x, z, t) /\ Upward(x, z)
  BY FreeKeeps
<1>2. z \in Mem
  BY <1>1 DEF Base
<1>3. p \in Reasons /\ (p = "none" => x.panic = "none")
  <2> DEFINE k == alloc_kpage(x, 4)
  <2>1. x \in Mem /\ 4 \in Nat \ {0} /\ 1 \in Nat \ {0}
    BY DEF Base
  <2>2. SameTables(x, k) /\ (k.panic = "none" => x.panic = "none")
    BY <2>1, AllocKeeps
  <2>3. k \in Mem
    BY <2>2 DEF SameTables
  <2> HIDE DEF k
  <2>4. /\ alloc_kpage(k, 1).panic \in Reasons
        /\ alloc_kpage(k, 1).panic = "none" => k.panic = "none"
    BY <2>1, <2>3, AllocKeeps
  <2> QED BY <2>2, <2>4 DEF k
<1> HIDE DEF z, p
<1>4. SameTables(z, y) /\ y.data = z.data /\ y.kernel_map = z.kernel_map /\ y.panic = p
  BY <1>2, <1>3 DEF SameTables, Mem
<1> HIDE DEF y
<1>5. /\ Base(y) /\ (Cow(z) => Cow(y)) /\ (Tidy(z) => Tidy(y)) /\ (Bare(z, t) <=> Bare(y, t))
  BY <1>1, <1>4, SameKeeps
<1>6. Shrinks(z, y, t)
  BY <1>4, SameViews
<1>7. Shrinks(x, y, t)
  BY <1>1, <1>6, ViewsAddUp
<1>8. Upward(x, y)
  BY <1>1, <1>3, <1>4 DEF Upward
<1> QED BY <1>1, <1>5, <1>7, <1>8 DEF y, z, p

\* The memory after LoadText.
WithText(x, t, new) ==
  LET l == link_user_page(x, t, Text, new) IN
    [l EXCEPT !.data[l.pte[t][Text].frame] = new,
              !.pte[t][Text].write = FALSE,
              !.pte[t][Text].readonly = TRUE]

\* The text page has new contents and keeps its place.
Filled(x, y, t, new) ==
  /\ y.data = [x.data EXCEPT ![x.pte[t][Text].frame] = new]
  /\ y.pte[t][Text].frame = x.pte[t][Text].frame
  /\ y.pte[t][Text].shared = x.pte[t][Text].shared
  /\ Cow(x) /\ x.map[x.pte[t][Text].frame] = 1 => Cow(y)

(***************************************************************************)
(* load_elf fills the text page and takes the right to write away.         *)
(***************************************************************************)
LEMMA LoadTextEffect ==
  ASSUME NEW x, Base(x), NEW t \in Tasks, NEW new \in Values
  PROVE  LET y == WithText(x, t, new) IN
         /\ Base(y)
         /\ Tidy(x) /\ y.panic = "none" => Tidy(y)
         /\ Upward(x, y)
         /\ \A u \in Tasks \ {t} : y.pte[u] = x.pte[u] /\ y.pde[u] = x.pde[u]
         /\ \A w \in Pages \ {Text} : y.pte[t][w] = x.pte[t][w]
         /\ Present(x, t, Text) => Filled(x, y, t, new)
<1> DEFINE l == link_user_page(x, t, Text, new)
           y == [l EXCEPT !.data[l.pte[t][Text].frame] = new,
                          !.pte[t][Text].write = FALSE,
                          !.pte[t][Text].readonly = TRUE]
           e == [l.pte[t][Text] EXCEPT !.write = FALSE, !.readonly = TRUE]
           d == [l.data EXCEPT ![l.pte[t][Text].frame] = new]
<1>0. Text \in Pages
  BY Layout
<1>1. /\ Base(l) /\ (Tidy(x) => Tidy(l)) /\ Grows(x, l, t) /\ Upward(x, l)
      /\ \A w \in Pages \ {Text} : l.pte[t][w] = x.pte[t][w]
      /\ (Present(x, t, Text) => l = x)
      /\ (~ Present(l, t, Text) => l.panic # "none")
  BY <1>0, LinkKeeps
<1> HIDE DEF l
<1>2. l \in Mem
  BY <1>1 DEF Base
<1>3. /\ l.pte \in [Tasks -> [Pages -> Pte]] /\ l.pte[t][Text] \in Pte
      /\ l.data \in [Frames -> Values]
  BY <1>0, <1>2, MemType
<1>4. e \in Pte /\ e.frame = l.pte[t][Text].frame /\ e.shared = l.pte[t][Text].shared
  BY <1>3 DEF Pte
<1>5. y = [l EXCEPT !.data = d, !.pte = [l.pte EXCEPT ![t][Text] = e]]
  <2> DEFINE e1 == [l.pte[t][Text] EXCEPT !.write = FALSE]
             P1 == [l.pte EXCEPT ![t][Text].write = FALSE]
             P2 == [P1 EXCEPT ![t][Text].readonly = TRUE]
  <2>1. P1 = [l.pte EXCEPT ![t][Text] = e1]
    BY <1>0, <1>3
  <2> HIDE DEF P1
  <2>2. P2 = [l.pte EXCEPT ![t][Text] = [e1 EXCEPT !.readonly = TRUE]]
    <3> HIDE DEF e1
    <3> QED BY <1>0, <1>3, <2>1
  <2>3. [e1 EXCEPT !.readonly = TRUE] = e
    OBVIOUS
  <2> HIDE DEF e, e1
  <2> DEFINE k == [l EXCEPT !.data = d]
  <2>4. y = [k EXCEPT !.pte[t][Text].write = FALSE, !.pte[t][Text].readonly = TRUE]
    BY <1>2 DEF Mem
  <2>5. k \in Mem /\ k.pte = l.pte
    BY <1>2, <1>3 DEF Mem
  <2>6. y = [l EXCEPT !.data = d, !.pte = P2]
    <3> HIDE DEF d, y
    <3>1. y = [k EXCEPT !.pte = P2]
      <4> HIDE DEF k
      <4> QED BY <1>0, <2>4, <2>5 DEF Mem, P1
    <3> HIDE DEF P2
    <3> QED BY <3>1
  <2> HIDE DEF P2, d, y
  <2> QED BY <2>2, <2>3, <2>6
<1>6. d \in [Frames -> Values]
  BY <1>3
<1> HIDE DEF y, e, d
<1>7. /\ y.map = l.map /\ y.free = l.free /\ y.pde = l.pde /\ y.data = d
      /\ y.pte = [l.pte EXCEPT ![t][Text] = e]
      /\ y.panic = l.panic /\ y.kernel_map = l.kernel_map
  BY <1>2, <1>5 DEF Mem
<1>8. y \in Mem
  <2>1. [l.pte EXCEPT ![t][Text] = e] \in [Tasks -> [Pages -> Pte]]
    BY <1>0, <1>3, <1>4
  <2> QED BY <1>2, <1>5, <1>6, <2>1 DEF Mem
<1>9. Rights(l, y, t, Text, e)
  BY <1>4, <1>7, <1>8 DEF Rights
<1>10. /\ Base(y)
       /\ (Cow(l) /\ (Present(l, t, Text) => l.map[l.pte[t][Text].frame] = 1) => Cow(y))
       /\ (Tidy(l) /\ Present(l, t, Text) => Tidy(y))
       /\ \A w \in Pages : y.pte[t][w] = IF w = Text THEN e ELSE l.pte[t][w]
       /\ \A u \in Tasks \ {t} : y.pte[u] = l.pte[u]
  BY <1>0, <1>1, <1>9, RightsKeep
<1>11. Upward(x, y)
  BY <1>1, <1>7 DEF Upward
<1>12. \A u \in Tasks \ {t} : y.pte[u] = x.pte[u] /\ y.pde[u] = x.pde[u]
  BY <1>1, <1>7, <1>10 DEF Grows, Elsewhere
<1>13. \A w \in Pages \ {Text} : y.pte[t][w] = x.pte[t][w]
  BY <1>1, <1>10
<1>14. ASSUME Present(x, t, Text)
       PROVE  Filled(x, y, t, new)
  BY <1>0, <1>1, <1>4, <1>7, <1>10, <1>14 DEF d, Filled
<1>15. Tidy(x) /\ y.panic = "none" => Tidy(y)
  BY <1>1, <1>7, <1>10
<1>16. WithText(x, t, new) = y
  BY DEF WithText, y, l
<1> QED BY <1>10, <1>11, <1>12, <1>13, <1>14, <1>15, <1>16

-----------------------------------------------------------------------------
(* Every count is right: MapCounts. *)

(***************************************************************************)
(* Init: nobody has memory.                                                *)
(***************************************************************************)
LEMMA MemInvInit ==
  ASSUME Init
  PROVE  MemInv
<1>0. /\ NTask \in Nat \ {0} /\ NFrame \in Nat \ {0} /\ NKpage \in Nat /\ NKpage >= 3
      /\ NMmap \in Nat \ {0} /\ 0 \in Values
  BY MemoryAssumption
<1>1. /\ m.map = [f \in Frames |-> 0] /\ m.free = NFrame /\ m.data = [f \in Frames |-> 0]
      /\ m.pde = [t \in Tasks |-> [r \in 1 .. 2 |-> None]]
      /\ m.pte = [t \in Tasks |-> [v \in Pages |-> NoPte]]
      /\ m.kernel_map = 1 .. 3 /\ m.panic = "none"
  BY DEF Init
<1>2. NoPte \in Pte /\ NoPte.frame = None /\ None \in 0 .. NFrame /\ None \notin Frames
  BY <1>0 DEF NoPte, Pte, None, Frames
<1>3. \A t \in Tasks, v \in Pages : m.pte[t][v] = NoPte /\ ~ Present(m, t, v)
  BY <1>1, <1>2 DEF Present
<1>4. \A t \in Tasks, r \in Regions : m.pde[t][r] = None
  BY <1>1 DEF Regions
<1>5. m \in Mem
  <2>1. /\ m.map \in [Frames -> Nat] /\ m.free \in Int /\ m.data \in [Frames -> Values]
        /\ m.pde \in [Tasks -> [1 .. 2 -> 0 .. NFrame]]
        /\ m.pte \in [Tasks -> [Pages -> Pte]]
        /\ m.kernel_map \in SUBSET (1 .. NKpage) /\ m.panic \in Reasons
    BY <1>0, <1>1, <1>2 DEF Reasons
  <2>2. m = [map |-> m.map, free |-> m.free, data |-> m.data, pde |-> m.pde,
             pte |-> m.pte, kernel_map |-> m.kernel_map, panic |-> m.panic]
    BY DEF Init
  <2> QED BY <2>1, <2>2 DEF Mem
<1>6. Counted(m)
  <2>1. ASSUME NEW f \in Frames
        PROVE  m.map[f] = Cardinality(Users(m, f)) + Cardinality(Tables(m, f))
    <3>1. Users(m, f) = {}
      BY <1>2, <1>3 DEF Users
    <3>2. Tables(m, f) = {}
      BY <1>2, <1>4 DEF Tables
    <3>3. Cardinality({}) = 0 /\ m.map[f] = 0
      BY <1>1, FS_EmptySet
    <3> QED BY <3>1, <3>2, <3>3
  <2>2. {f \in Frames : m.map[f] = 0} = 1 .. NFrame
    BY <1>1 DEF Frames
  <2>3. Cardinality(1 .. NFrame) = NFrame
    BY <1>0, FS_Interval
  <2> QED BY <1>1, <2>1, <2>2, <2>3 DEF Counted
<1>7. Rooted(m) /\ Apart(m) /\ Tidy(m)
  BY <1>3 DEF Rooted, Apart, Tidy
<1>8. OnlyLive
  BY <1>3, <1>4 DEF OnlyLive, Bare
<1>9. /\ live \in [Tasks -> {"free", "live", "dead", "exiting"}]
      /\ pc \in [Tasks -> {"user", "args", "header", "text", "data"}]
      /\ vmap \in [Tasks -> SUBSET MmapPages] /\ brk \in [Tasks -> 0 .. BrkLimit - 1]
  BY DEF Init, BrkLimit
<1>10. own \in [Tasks -> [pcb : 0 .. NKpage, pde : 0 .. NKpage, bits : 0 .. NKpage]]
  BY <1>0 DEF Init, NoPages, None
<1> QED BY <1>5, <1>6, <1>7, <1>8, <1>9, <1>10 DEF MemInv, TypeOK, Base

(***************************************************************************)
(* A step of a living process that touches the tables of no other keeps    *)
(* the dead without memory.                                                *)
(***************************************************************************)
LEMMA OnlyLiveKept ==
  ASSUME OnlyLive, NEW t \in Tasks, live[t] = "live", live' = live,
         \A u \in Tasks \ {t} : m'.pte[u] = m.pte[u] /\ m'.pde[u] = m.pde[u]
  PROVE  OnlyLive'
BY DEF OnlyLive, Bare

(***************************************************************************)
(* Where only the memory changes, the other variables keep their types.    *)
(***************************************************************************)
LEMMA MemInvBy ==
  ASSUME MemInv, Base(m'), UNCHANGED <<live, own>>, NEW t \in Tasks, live[t] = "live",
         m.panic = "none",
         pc' \in [Tasks -> {"user", "args", "header", "text", "data"}],
         vmap' \in [Tasks -> SUBSET MmapPages], brk' \in [Tasks -> 0 .. BrkLimit - 1],
         m'.panic = "none" => Tidy(m'),
         \A u \in Tasks \ {t} : m'.pte[u] = m.pte[u] /\ m'.pde[u] = m.pde[u]
  PROVE  MemInv'
<1>1. TypeOK'
  BY DEF MemInv, TypeOK, Base
<1>2. OnlyLive'
  BY OnlyLiveKept DEF MemInv
<1> QED BY <1>1, <1>2 DEF MemInv

(***************************************************************************)
(* A panic.                                                                *)
(***************************************************************************)
LEMMA PanicInv ==
  ASSUME MemInv, NEW why \in Reasons \ {"none"}, m' = Panic(m, why),
         UNCHANGED <<live, pc, vmap, brk, own>>
  PROVE  MemInv' /\ m'.panic # "none"
<1>1. m \in Mem /\ Base(m)
  BY DEF MemInv, Base
<1>2. SameTables(m, m') /\ m'.panic # "none"
  BY <1>1, PanicKeeps
<1>3. Base(m')
  BY <1>1, <1>2, SameKeeps
<1>4. TypeOK'
  BY <1>3 DEF MemInv, TypeOK, Base
<1> QED BY <1>2, <1>3, <1>4 DEF MemInv

(***************************************************************************)
(* A task that slept in sys_exit is switched to: the model stops.          *)
(***************************************************************************)
LEMMA ResumeInv ==
  ASSUME MemInv, NEW t \in Tasks, ExitResumes(t)
  PROVE  MemInv' /\ m.panic = "none" /\ m'.panic # "none"
<1>1. "exit_resumed" \in Reasons \ {"none"}
  BY DEF Reasons
<1> QED BY <1>1, PanicInv DEF ExitResumes

(***************************************************************************)
(* sys_exit, called by a program or by the fault handler.                  *)
(***************************************************************************)
LEMMA ExitInv ==
  ASSUME MemInv, NEW t \in Tasks, m.panic = "none", live[t] = "live", ExitOf(m, t)
  PROVE  MemInv'
<1>1. CASE t = 1
  <2>1. "init" \in Reasons \ {"none"}
    BY DEF Reasons
  <2>2. m' = Panic(m, "init") /\ UNCHANGED <<live, pc, vmap, brk, own>>
    BY <1>1 DEF ExitOf
  <2> QED BY <2>1, <2>2, PanicInv
<1>2. CASE t # 1
  <2>1. PICK s \in {"dead", "exiting"} :
        /\ m' = free_kpage(free_kpage(free_pte(m, t), own[t].pde), own[t].bits)
        /\ live' = [live EXCEPT ![t] = s]
        /\ own' = [own EXCEPT ![t].pde = None, ![t].bits = None]
        /\ vmap' = [vmap EXCEPT ![t] = {}]
        /\ brk' = [brk EXCEPT ![t] = 0]
        /\ pc' = pc
    BY <1>2 DEF ExitOf
  <2>2. Base(m) /\ Tidy(m) /\ OnlyLive /\ TypeOK
    BY DEF MemInv
  <2>3. /\ Base(m') /\ Tidy(m') /\ Bare(m', t) /\ Shrinks(m, m', t)
    BY <2>1, <2>2, ExitEffect
  <2>4. OnlyLive'
    BY <2>1, <2>2, <2>3 DEF OnlyLive, Bare, Shrinks, Elsewhere, TypeOK
  <2>5. own' \in [Tasks -> [pcb : 0 .. NKpage, pde : 0 .. NKpage, bits : 0 .. NKpage]]
    <3> DEFINE Own == [pcb : 0 .. NKpage, pde : 0 .. NKpage, bits : 0 .. NKpage]
               e == [own[t] EXCEPT !.pde = None, !.bits = None]
    <3>1. own \in [Tasks -> Own] /\ None \in 0 .. NKpage
      BY <2>2, MemoryAssumption DEF TypeOK, None
    <3>2. e \in Own
      BY <3>1
    <3>3. own' = [own EXCEPT ![t] = e]
      BY <2>1, <3>1
    <3> HIDE DEF Own, e
    <3>4. own' \in [Tasks -> Own]
      BY <3>1, <3>2, <3>3
    <3> QED BY <3>4 DEF Own
  <2>6. TypeOK'
    BY <2>1, <2>2, <2>3, <2>5 DEF TypeOK, Base, BrkLimit
  <2> QED BY <2>3, <2>4, <2>6 DEF MemInv
<1> QED BY <1>1, <1>2

(***************************************************************************)
(* fork: the child is a slot that had no memory.                           *)
(***************************************************************************)
LEMMA ForkInv ==
  ASSUME MemInv, NEW t \in Tasks, Fork(t)
  PROVE  MemInv'
<1>1. Base(m) /\ Tidy(m) /\ OnlyLive /\ TypeOK /\ m.panic = "none" /\ live[t] = "live"
  BY DEF MemInv, Fork, Running
<1>2. CASE FreeSlots = {}
  <2>1. "tasks" \in Reasons \ {"none"}
    BY DEF Reasons
  <2>2. m' = Panic(m, "tasks") /\ UNCHANGED <<live, pc, vmap, brk, own>>
    BY <1>2 DEF Fork
  <2> QED BY <2>1, <2>2, PanicInv
<1>3. CASE FreeSlots # {}
  <2> DEFINE u == Min(FreeSlots)
             x == alloc_kpage(m, 1)
             y == alloc_kpage(x, 1)
             z == copy_pte(y, t, u)
             k == [pcb |-> NewKpage(m), pde |-> NewKpage(x), bits |-> NewKpage(z)]
  <2>1. /\ m' = alloc_kpage(z, 1)
        /\ own' = [own EXCEPT ![u] = k]
        /\ live' = [live EXCEPT ![u] = "live"]
        /\ pc' = [pc EXCEPT ![u] = "user"]
        /\ vmap' = [vmap EXCEPT ![u] = vmap[t]]
        /\ brk' = [brk EXCEPT ![u] = brk[t]]
    BY <1>3 DEF Fork
  <2>2. u \in FreeSlots
    <3>1. FreeSlots \in SUBSET Nat
      BY MemoryAssumption DEF FreeSlots, Tasks
    <3> QED BY <1>3, <3>1, MinExists
  <2>3. u \in Tasks /\ live[u] = "free" /\ t # u /\ Bare(m, u)
    BY <1>1, <2>2 DEF FreeSlots, OnlyLive
  <2> HIDE DEF u
  <2>4. /\ Base(m') /\ Tidy(m')
        /\ \A s \in Tasks \ {u} : SameView(m, m', s) /\ m'.pde[s] = m.pde[s]
        /\ \A s \in Tasks \ {t, u} : m'.pte[s] = m.pte[s]
        /\ NewKpage(m) \in 0 .. NKpage /\ NewKpage(x) \in 0 .. NKpage
        /\ NewKpage(z) \in 0 .. NKpage
    BY <1>1, <2>1, <2>3, ForkEffect
  <2>5. k \in [pcb : 0 .. NKpage, pde : 0 .. NKpage, bits : 0 .. NKpage]
    BY <2>4
  <2> HIDE DEF k, z, y, x
  <2>6. TypeOK'
    BY <1>1, <2>1, <2>3, <2>4, <2>5 DEF TypeOK, Base
  <2>7. OnlyLive'
    BY <1>1, <2>1, <2>3, <2>4 DEF OnlyLive, Bare, TypeOK
  <2> QED BY <2>4, <2>6, <2>7 DEF MemInv
<1> QED BY <1>2, <1>3

(***************************************************************************)
(* The handlers that may link a page.                                      *)
(***************************************************************************)
LEMMA LinkInv ==
  ASSUME MemInv, NEW t \in Tasks, NEW v \in Pages, NEW new \in Fresh,
         m.panic = "none", live[t] = "live",
         m' = link_user_page(m, t, v, new), UNCHANGED <<live, own>>,
         pc' \in [Tasks -> {"user", "args", "header", "text", "data"}],
         vmap' \in [Tasks -> SUBSET MmapPages], brk' \in [Tasks -> 0 .. BrkLimit - 1]
  PROVE  MemInv'
<1>1. new \in Values
  BY MemoryAssumption
<1>2. Base(m) /\ Tidy(m)
  BY DEF MemInv
<1>3. Base(m') /\ Tidy(m') /\ Grows(m, m', t)
  BY <1>1, <1>2, LinkKeeps
<1>4. \A u \in Tasks \ {t} : m'.pte[u] = m.pte[u] /\ m'.pde[u] = m.pde[u]
  BY <1>3 DEF Grows, Elsewhere
<1> QED BY <1>3, <1>4, MemInvBy

(***************************************************************************)
(* Where an mmap goes is in the mmap area, and without a request of the    *)
(* program where the bitmap has room.                                      *)
(***************************************************************************)
LEMMA MmapPlace ==
  ASSUME NEW t, NEW n \in 1 .. NMmap, NEW a \in MmapAt(t, n), a # None
  PROVE  /\ a \in MmapPages /\ a \in Nat /\ a .. a + n - 1 \subseteq MmapPages
         /\ FixedMmap = FALSE => (a .. a + n - 1) \cap vmap[t] = {}
<1> DEFINE Fits == {v \in MmapPages : v + n - 1 \in MmapPages}
           Gaps == {v \in Fits : (v .. v + n - 1) \cap vmap[t] = {}}
<1>0. NMmap \in Nat /\ FixedMmap \in BOOLEAN
  BY MemoryAssumption
<1>1. a \in IF FixedMmap THEN Fits ELSE IF Gaps = {} THEN {None} ELSE {Min(Gaps)}
  BY DEF MmapAt
<1>2. Gaps \in SUBSET Nat
  BY <1>0 DEF MmapPages
<1>3. Gaps # {} => Min(Gaps) \in Gaps
  BY <1>2, MinExists
<1>4. a \in Fits /\ (FixedMmap = FALSE => a \in Gaps)
  BY <1>0, <1>1, <1>3
<1>5. a \in Nat /\ a .. a + n - 1 \subseteq MmapPages
  BY <1>0, <1>4 DEF MmapPages
<1> QED BY <1>4, <1>5

(***************************************************************************)
(* Every step keeps the counts right.                                      *)
(***************************************************************************)
LEMMA MemInvStep ==
  ASSUME MemInv, [Next]_vars
  PROVE  MemInv'
<1>0. Base(m) /\ TypeOK /\ (m.panic = "none" => Tidy(m) /\ OnlyLive)
  BY DEF MemInv
<1>t. /\ pc \in [Tasks -> {"user", "args", "header", "text", "data"}]
      /\ vmap \in [Tasks -> SUBSET MmapPages] /\ brk \in [Tasks -> 0 .. BrkLimit - 1]
      /\ live \in [Tasks -> {"free", "live", "dead", "exiting"}]
      /\ own \in [Tasks -> [pcb : 0 .. NKpage, pde : 0 .. NKpage, bits : 0 .. NKpage]]
  BY <1>0 DEF TypeOK
<1>1. ASSUME NEW t \in Tasks, Exit(t) PROVE MemInv'
  BY <1>1, ExitInv DEF Exit, Running
<1>r. ASSUME NEW t \in Tasks, ExitResumes(t) PROVE MemInv'
  BY <1>r, ResumeInv
<1>2. ASSUME NEW t \in Tasks, Fork(t) PROVE MemInv'
  BY <1>2, ForkInv
<1>3. ASSUME NEW t \in Tasks, Execve(t) PROVE MemInv'
  <2>1. /\ m' = [free_pte(m, t) EXCEPT !.panic = alloc_kpage(alloc_kpage(m, 4), 1).panic]
        /\ pc' = [pc EXCEPT ![t] = "args"] /\ UNCHANGED <<live, vmap, brk, own>>
        /\ m.panic = "none" /\ live[t] = "live"
    BY <1>3 DEF Execve, Running
  <2>2. Base(m') /\ Tidy(m') /\ Shrinks(m, m', t)
    BY <1>0, <2>1, ExecveEffect
  <2>3. \A u \in Tasks \ {t} : m'.pte[u] = m.pte[u] /\ m'.pde[u] = m.pde[u]
    BY <2>2 DEF Shrinks, Elsewhere
  <2>4. pc' \in [Tasks -> {"user", "args", "header", "text", "data"}]
    BY <1>t, <2>1
  <2> QED BY <1>t, <2>1, <2>2, <2>3, <2>4, MemInvBy
<1>4. ASSUME NEW t \in Tasks, BadHeader(t) PROVE MemInv'
  <2>1. "init" \in Reasons \ {"none"}
    BY DEF Reasons
  <2>2. CASE t = 1
    BY <1>4, <2>1, <2>2, PanicInv DEF BadHeader
  <2>3. CASE t # 1
    <3>1. m' = m /\ pc' = [pc EXCEPT ![t] = "user"] /\ UNCHANGED <<live, vmap, brk, own>>
      BY <1>4, <2>3 DEF BadHeader
    <3>2. m.panic = "none" /\ live[t] = "live"
      BY <1>4 DEF BadHeader, InExec
    <3>3. pc' \in [Tasks -> {"user", "args", "header", "text", "data"}]
      BY <1>t, <3>1
    <3> QED BY <1>0, <1>t, <3>1, <3>2, <3>3, MemInvBy
  <2> QED BY <2>2, <2>3
<1>5. ASSUME NEW t \in Tasks, NEW u \in Tasks, Wait(t, u) PROVE MemInv'
  <2>1. /\ m' = free_kpage(m, own[u].pcb) /\ m.panic = "none" /\ live[u] = "dead"
        /\ live' = [live EXCEPT ![u] = "free"] /\ own' = [own EXCEPT ![u] = NoPages]
        /\ UNCHANGED <<pc, vmap, brk>>
    BY <1>5 DEF Wait, Running
  <2>2. SameTables(m, m')
    BY <1>0, <2>1, FreeKpage DEF Base
  <2>3. Base(m') /\ Tidy(m') /\ \A s \in Tasks : Bare(m, s) <=> Bare(m', s)
    BY <1>0, <2>1, <2>2, SameKeeps
  <2>4. OnlyLive'
    BY <1>0, <1>t, <2>1, <2>3 DEF OnlyLive
  <2>5. NoPages \in [pcb : 0 .. NKpage, pde : 0 .. NKpage, bits : 0 .. NKpage]
    BY MemoryAssumption DEF NoPages, None
  <2>6. TypeOK'
    BY <1>t, <2>1, <2>3, <2>5 DEF TypeOK, Base
  <2> QED BY <2>3, <2>4, <2>6 DEF MemInv
<1>6. ASSUME NEW t \in Tasks, NEW v \in Pages, WriteFault(t, v) PROVE MemInv'
  <2>1. m.panic = "none" /\ live[t] = "live" /\ Present(m, t, v)
    BY <1>6 DEF WriteFault, Running, Present
  <2>2. CASE m.pte[t][v].shared
    <3>1. "shared" \in Reasons \ {"none"}
      BY DEF Reasons
    <3>2. m' = Panic(m, "shared") /\ UNCHANGED <<live, pc, vmap, brk, own>>
      BY <1>6, <2>2 DEF WriteFault
    <3> QED BY <3>1, <3>2, PanicInv
  <2>3. CASE ~ m.pte[t][v].shared /\ m.pte[t][v].readonly
    <3>1. ExitOf(m, t)
      BY <1>6, <2>3 DEF WriteFault
    <3> QED BY <2>1, <3>1, ExitInv
  <2>4. CASE ~ m.pte[t][v].shared /\ ~ m.pte[t][v].readonly
    <3>1. m' = CowBreak(m, t, v) /\ UNCHANGED <<live, pc, vmap, brk, own>>
      BY <1>6, <2>4 DEF WriteFault
    <3>2. Base(m') /\ Tidy(m') /\ Elsewhere(m, m', t)
      BY <1>0, <2>1, <2>4, <3>1, CowBreakEffect
    <3>3. \A u \in Tasks \ {t} : m'.pte[u] = m.pte[u] /\ m'.pde[u] = m.pde[u]
      BY <3>2 DEF Elsewhere
    <3> QED BY <1>t, <2>1, <3>1, <3>2, <3>3, MemInvBy
  <2> QED BY <2>2, <2>3, <2>4
<1>7. ASSUME NEW t \in Tasks, NEW v \in Pages, NEW new \in Values, NEW mode \in Modes,
             Store(t, v, new, mode)
      PROVE  MemInv'
  <2>1. /\ m' = [m EXCEPT !.data[m.pte[t][v].frame] = new] /\ m.panic = "none"
        /\ live[t] = "live" /\ UNCHANGED <<live, pc, vmap, brk, own>>
    BY <1>7 DEF Store, Running
  <2>2. SameTables(m, m')
    BY <1>0, <2>1 DEF SameTables, Base, Mem
  <2>3. Base(m') /\ Tidy(m') /\ m'.pte = m.pte /\ m'.pde = m.pde
    BY <1>0, <2>1, <2>2, SameKeeps DEF SameTables
  <2> QED BY <1>t, <2>1, <2>3, MemInvBy
<1>8. ASSUME NEW t \in Tasks, NEW v \in Pages, NEW new \in Fresh, MissingFault(t, v, new)
      PROVE  MemInv'
  <2>1. m.panic = "none" /\ live[t] = "live"
    BY <1>8 DEF MissingFault, Running
  <2>2. CASE v = Stack
    <3>1. m' = link_user_page(m, t, v, new) /\ UNCHANGED <<live, pc, vmap, brk, own>>
      BY <1>8, <2>2 DEF MissingFault
    <3> QED BY <1>t, <2>1, <3>1, LinkInv
  <2>3. CASE v # Stack
    <3>1. ExitOf(m, t)
      BY <1>8, <2>3 DEF MissingFault
    <3> QED BY <2>1, <3>1, ExitInv
  <2> QED BY <2>2, <2>3
<1>9. ASSUME NEW t \in Tasks, NEW b \in 0 .. BrkLimit, Brk(t, b) PROVE MemInv'
  <2>1. /\ m.panic = "none" /\ live[t] = "live" /\ b < BrkLimit
        /\ m' = IF brk[t] > b THEN unlink_user_page(m, t, Heap) ELSE m
        /\ brk' = [brk EXCEPT ![t] = b] /\ UNCHANGED <<live, pc, vmap, own>>
    BY <1>9 DEF Brk, Running
  <2>2. Heap \in Pages /\ {Heap} \in SUBSET Pages
    BY Layout
  <2>3. brk' \in [Tasks -> 0 .. BrkLimit - 1]
    <3>1. b \in 0 .. BrkLimit - 1
      BY <2>1 DEF BrkLimit
    <3> QED BY <1>t, <2>1, <3>1
  <2>4. /\ Base(m') /\ Tidy(m')
        /\ \A u \in Tasks \ {t} : m'.pte[u] = m.pte[u] /\ m'.pde[u] = m.pde[u]
    <3>1. CASE brk[t] > b
      <4>1. m' = DropPages(get_pte(m, t, Heap), t, {Heap})
        BY <2>1, <3>1 DEF unlink_user_page
      <4>2. Base(m') /\ Tidy(m') /\ Shrinks(m, m', t)
        BY <1>0, <2>1, <2>2, <4>1, UnlinkKeeps
      <4> QED BY <4>2 DEF Shrinks, Elsewhere
    <3>2. CASE ~ (brk[t] > b)
      BY <1>0, <2>1, <3>2
    <3> QED BY <3>1, <3>2
  <2> QED BY <1>t, <2>1, <2>3, <2>4, MemInvBy
<1>10. ASSUME NEW t \in Tasks, NEW n \in 1 .. NMmap, NEW kind \in MmapKinds, NEW new \in Fresh,
              Mmap(t, n, kind, new)
       PROVE  MemInv'
  <2>1. m.panic = "none" /\ live[t] = "live" /\ n \in Nat /\ new \in Values
    BY <1>10, MemoryAssumption DEF Mmap, Running
  <2>2. PICK a \in MmapAt(t, n) :
          IF a = None
          THEN m' = Panic(m, "vmap") /\ UNCHANGED <<live, pc, vmap, brk, own>>
          ELSE /\ m' = MmapLoop(t, a, n, kind, new)
               /\ vmap' = [vmap EXCEPT ![t] = @ \cup (a .. a + n - 1)]
               /\ UNCHANGED <<live, pc, brk, own>>
    BY <1>10 DEF Mmap
  <2>3. CASE a = None
    <3>1. "vmap" \in Reasons \ {"none"}
      BY DEF Reasons
    <3> QED BY <2>2, <2>3, <3>1, PanicInv
  <2>4. CASE a # None
    <3>1. a \in Nat /\ a .. a + n - 1 \subseteq MmapPages
      BY <2>1, <2>4, MmapPlace
    <3>2. a .. a + n - 1 \subseteq Pages
      BY <3>1, Layout
    <3>3. /\ m' = MmapLoop(t, a, n, kind, new)
          /\ vmap' = [vmap EXCEPT ![t] = @ \cup (a .. a + n - 1)]
          /\ UNCHANGED <<live, pc, brk, own>>
      BY <2>2, <2>4
    <3>4. Base(m') /\ (Tidy(m) /\ m'.panic = "none" => Tidy(m')) /\ Grows(m, m', t)
      BY <1>0, <2>1, <3>1, <3>2, <3>3, MmapLoopKeeps
    <3>5. \A u \in Tasks \ {t} : m'.pte[u] = m.pte[u] /\ m'.pde[u] = m.pde[u]
      BY <3>4 DEF Grows, Elsewhere
    <3>6. vmap' \in [Tasks -> SUBSET MmapPages]
      BY <1>t, <3>1, <3>3
    <3> QED BY <1>0, <1>t, <2>1, <3>3, <3>4, <3>5, <3>6, MemInvBy
  <2> QED BY <2>3, <2>4
<1>11. ASSUME NEW t \in Tasks, NEW n \in 1 .. NMmap, NEW a \in MmapPages,
              a + n - 1 \in MmapPages, Munmap(t, a, n)
       PROVE  MemInv'
  <2> DEFINE V == a .. a + n - 1
             x == DropPages(get_pte(m, t, a), t, V)
  <2>1. /\ m.panic = "none" /\ live[t] = "live"
        /\ m' = IF V \subseteq vmap[t] THEN x ELSE Panic(x, "munmap")
        /\ vmap' = [vmap EXCEPT ![t] = @ \ V] /\ UNCHANGED <<live, pc, brk, own>>
    BY <1>11 DEF Munmap, Running
  <2>2. a \in Pages /\ V \in SUBSET Pages
    BY <1>11, MemoryAssumption DEF MmapPages, Pages
  <2> HIDE DEF V
  <2>3. Base(x) /\ Tidy(x) /\ Shrinks(m, x, t)
    BY <1>0, <2>1, <2>2, UnlinkKeeps
  <2> HIDE DEF x
  <2>4. \A u \in Tasks \ {t} : x.pte[u] = m.pte[u] /\ x.pde[u] = m.pde[u]
    BY <2>3 DEF Shrinks, Elsewhere
  <2>5. SameTables(x, m') \/ m' = x
    <3>1. x \in Mem /\ "munmap" \in Reasons
      BY <2>3 DEF Base, Reasons
    <3>2. SameTables(x, Panic(x, "munmap"))
      BY <3>1, PanicKeeps, Zenon
    <3> QED BY <2>1, <3>2
  <2>6. Base(m') /\ Tidy(m') /\ m'.pte = x.pte /\ m'.pde = x.pde
    BY <2>3, <2>5, SameKeeps DEF SameTables
  <2>7. vmap' \in [Tasks -> SUBSET MmapPages]
    BY <1>t, <2>1
  <2> QED BY <1>t, <2>1, <2>4, <2>6, <2>7, MemInvBy
<1>12. ASSUME NEW t \in Tasks, NEW new \in Fresh,
              CopyArgs(t, new) \/ ReadHeader(t, new) \/ LoadData(t, new)
       PROVE  MemInv'
  <2>1. Text \in Pages /\ Stack \in Pages /\ Data \in Pages /\ Heap \in 0 .. BrkLimit - 1
    BY Layout DEF Heap, BrkLimit
  <2>2. m.panic = "none" /\ live[t] = "live" /\ UNCHANGED <<live, own>> /\ vmap' = vmap
    BY <1>12 DEF CopyArgs, ReadHeader, LoadData, InExec
  <2>3. \E v \in Pages : m' = link_user_page(m, t, v, new)
    BY <1>12, <2>1 DEF CopyArgs, ReadHeader, LoadData
  <2>4. pc' \in [Tasks -> {"user", "args", "header", "text", "data"}]
    BY <1>t, <1>12 DEF CopyArgs, ReadHeader, LoadData
  <2>5. brk' \in [Tasks -> 0 .. BrkLimit - 1]
    BY <1>t, <1>12, <2>1 DEF CopyArgs, ReadHeader, LoadData
  <2> QED BY <1>t, <2>2, <2>3, <2>4, <2>5, LinkInv
<1>13. ASSUME NEW t \in Tasks, NEW new \in Fresh, LoadText(t, new) PROVE MemInv'
  <2>1. /\ m.panic = "none" /\ live[t] = "live" /\ UNCHANGED <<live, vmap, brk, own>>
        /\ m' = WithText(m, t, new) /\ pc' = [pc EXCEPT ![t] = "data"]
    BY <1>13 DEF LoadText, InExec, WithText
  <2>2. new \in Values
    BY MemoryAssumption
  <2>3. /\ Base(m') /\ (m'.panic = "none" => Tidy(m'))
        /\ \A u \in Tasks \ {t} : m'.pte[u] = m.pte[u] /\ m'.pde[u] = m.pde[u]
    <3>1. Base(m)
      BY <1>0
    <3>2. LET y == WithText(m, t, new) IN
          /\ Base(y) /\ (Tidy(m) /\ y.panic = "none" => Tidy(y))
          /\ \A u \in Tasks \ {t} : y.pte[u] = m.pte[u] /\ y.pde[u] = m.pde[u]
      BY <2>2, <3>1, LoadTextEffect, Zenon
    <3> QED BY <1>0, <2>1, <3>2
  <2>4. pc' \in [Tasks -> {"user", "args", "header", "text", "data"}]
    BY <1>t, <2>1
  <2> QED BY <1>t, <2>1, <2>3, <2>4, MemInvBy
<1>14. CASE UNCHANGED vars
  BY <1>14 DEF vars, MemInv, TypeOK, OnlyLive
<1>15. CASE Next
  BY <1>1, <1>r, <1>2, <1>3, <1>4, <1>5, <1>6, <1>7, <1>8, <1>9, <1>10, <1>11, <1>12, <1>13, <1>15
     DEF Next
<1> QED BY <1>14, <1>15

(***************************************************************************)
(* The counts and types are right whatever programs do.                    *)
(***************************************************************************)
LEMMA AlwaysMemInv == Spec => []MemInv
<1>1. Init => MemInv
  BY MemInvInit
<1>2. MemInv /\ [Next]_vars => MemInv'
  BY MemInvStep
<1> QED BY <1>1, <1>2, PTL DEF Spec

(***************************************************************************)
(* MapCounts: mem_map counts the entries of all page tables and page       *)
(* directories that point at a page, and free_pages the pages without one, *)
(* whatever fork, exit, execve, munmap and the fault handler did before.   *)
(***************************************************************************)
THEOREM MemoryMapCounts == Spec => [](TypeOK /\ MapCounts)
<1>1. MemInv => TypeOK /\ MapCounts
  <2> SUFFICES ASSUME MemInv PROVE MapCounts
    BY DEF MemInv
  <2>1. Counted(m)
    BY DEF MemInv, Base
  <2>2. \A f \in Frames : m.map[f] = References(f)
    BY <2>1 DEF Counted, References, Users, Tables, Regions
  <2>3. m.free = Cardinality({f \in Frames : m.map[f] = 0})
    BY <2>1 DEF Counted
  <2> QED BY <2>2, <2>3 DEF MapCounts
<1> QED BY <1>1, AlwaysMemInv, PTL

-----------------------------------------------------------------------------
(* Copy on write: WritableIsPrivate. *)

(***************************************************************************)
(* Nobody has memory at first.                                             *)
(***************************************************************************)
LEMMA CowInvInit ==
  ASSUME Init
  PROVE  CowInv
<1>1. m.pte = [t \in Tasks |-> [v \in Pages |-> NoPte]]
      /\ m.pde = [t \in Tasks |-> [r \in 1 .. 2 |-> None]]
  BY DEF Init
<1>2. /\ \A t \in Tasks, v \in Pages : ~ Present(m, t, v) /\ m.pte[t][v] = NoPte
      /\ \A t \in Tasks, r \in Regions : m.pde[t][r] = None
  BY <1>1 DEF Present, NoPte, Regions
<1>3. Cow(m)
  BY <1>2 DEF Cow, Private, SamePlace
<1>4. \A t \in Tasks : MarkedAt(t)
  BY <1>2, Layout DEF MarkedAt
<1>5. \A t \in Tasks : pc[t] \in {"args", "user"} /\ Bare(m, t)
  BY <1>2 DEF Init, Bare
<1>6. \A t \in Tasks : LoadingAt(t)
  BY <1>5 DEF LoadingAt
<1> QED BY <1>3, <1>4, <1>6 DEF CowInv

(***************************************************************************)
(* A step that touches the memory of t alone need be looked at for t only. *)
(***************************************************************************)
LEMMA CowInvBy ==
  ASSUME CowInv, NEW t \in Tasks, m.panic = "none",
         m'.panic = "none" => Cow(m') /\ MarkedAt(t)' /\ LoadingAt(t)',
         \A u \in Tasks \ {t} : /\ m'.pte[u] = m.pte[u] /\ m'.pde[u] = m.pde[u]
                                /\ pc'[u] = pc[u] /\ vmap'[u] = vmap[u]
  PROVE  CowInv'
<1>1. ASSUME NEW u \in Tasks \ {t} PROVE MarkedAt(u)'
  BY <1>1 DEF CowInv, MarkedAt, Present
<1>2. ASSUME NEW u \in Tasks \ {t} PROVE LoadingAt(u)'
  BY <1>2 DEF CowInv, LoadingAt, Bare, Present
<1> QED BY <1>1, <1>2 DEF CowInv

(***************************************************************************)
(* A program that runs, and whose pages of the mmap area are still marked. *)
(***************************************************************************)
LEMMA AtUser ==
  ASSUME MemInv, CowInv, m.panic = "none", NEW t \in Tasks, pc'[t] = "user", m' \in Mem,
         \A v \in MmapPages : Seen(m', t, v) # Unmapped => Seen(m, t, v) # Unmapped,
         vmap'[t] = vmap[t]
  PROVE  MarkedAt(t)' /\ LoadingAt(t)'
<1>1. m \in Mem
  BY DEF MemInv, Base
<1>2. \A v \in MmapPages : Present(m', t, v) => Present(m, t, v)
  BY <1>1, MemType, Layout
<1> QED BY <1>2 DEF CowInv, MarkedAt, LoadingAt

(***************************************************************************)
(* sys_exit: the memory of t goes.                                         *)
(***************************************************************************)
LEMMA CowExit ==
  ASSUME MemInv, CowInv, NEW t \in Tasks, m.panic = "none", pc[t] = "user", ExitOf(m, t)
  PROVE  CowInv'
<1>1. m \in Mem /\ Base(m) /\ Tidy(m) /\ Cow(m) /\ TypeOK
  BY DEF MemInv, Base, CowInv
<1>2. CASE t = 1
  <2>1. "init" \in Reasons \ {"none"}
    BY DEF Reasons
  <2>2. m' = Panic(m, "init") /\ UNCHANGED <<live, pc, vmap, brk, own>>
    BY <1>2 DEF ExitOf
  <2> QED BY <2>1, <2>2, PanicInv DEF CowInv
<1>3. CASE t # 1
  <2>1. /\ m' = free_kpage(free_kpage(free_pte(m, t), own[t].pde), own[t].bits)
        /\ vmap' = [vmap EXCEPT ![t] = {}] /\ pc' = pc
    BY <1>3 DEF ExitOf
  <2>2. Cow(m') /\ Bare(m', t) /\ Shrinks(m, m', t)
    BY <1>1, <2>1, ExitEffect
  <2>3. \A u \in Tasks \ {t} : /\ m'.pte[u] = m.pte[u] /\ m'.pde[u] = m.pde[u]
                               /\ pc'[u] = pc[u] /\ vmap'[u] = vmap[u]
    BY <1>1, <2>1, <2>2 DEF Shrinks, Elsewhere, TypeOK
  <2>4. MarkedAt(t)' /\ LoadingAt(t)'
    BY <2>1, <2>2, Layout, SMTT(90) DEF MarkedAt, LoadingAt, Bare, Present, NoPte
  <2> QED BY <2>2, <2>3, <2>4, CowInvBy
<1> QED BY <1>2, <1>3

(***************************************************************************)
(* fork: parent and child have the same pages, marked in the same way.     *)
(***************************************************************************)
LEMMA CowFork ==
  ASSUME MemInv, CowInv, NEW t \in Tasks, Fork(t)
  PROVE  CowInv'
<1>1. /\ m \in Mem /\ Base(m) /\ Tidy(m) /\ OnlyLive /\ TypeOK /\ Cow(m)
      /\ m.panic = "none" /\ live[t] = "live" /\ pc[t] = "user"
  BY DEF MemInv, Base, Fork, Running, CowInv
<1>2. CASE FreeSlots = {}
  <2>1. "tasks" \in Reasons \ {"none"}
    BY DEF Reasons
  <2>2. m' = Panic(m, "tasks") /\ UNCHANGED <<live, pc, vmap, brk, own>>
    BY <1>2 DEF Fork
  <2> QED BY <2>1, <2>2, PanicInv DEF CowInv
<1>3. CASE FreeSlots # {}
  <2>0. PICK u : u = Min(FreeSlots)
    OBVIOUS
  <2> DEFINE x == alloc_kpage(m, 1)
             y == alloc_kpage(x, 1)
             z == copy_pte(y, t, u)
  <2>1. /\ m' = alloc_kpage(z, 1)
        /\ pc' = [pc EXCEPT ![u] = "user"]
        /\ vmap' = [vmap EXCEPT ![u] = vmap[t]]
    BY <1>3, <2>0 DEF Fork
  <2>2. u \in FreeSlots
    <3>1. FreeSlots \in SUBSET Nat
      BY MemoryAssumption DEF FreeSlots, Tasks
    <3> QED BY <1>3, <2>0, <3>1, MinExists
  <2>3. u \in Tasks /\ live[u] = "free" /\ t # u /\ Bare(m, u)
    BY <1>1, <2>2 DEF FreeSlots, OnlyLive
  <2>4. /\ Base(m') /\ Cow(m')
        /\ \A s \in Tasks \ {u} : SameView(m, m', s) /\ m'.pde[s] = m.pde[s]
        /\ \A s \in Tasks \ {t, u} : m'.pte[s] = m.pte[s]
        /\ m'.panic = "none" => \A v \in Pages : Seen(m', u, v) = Seen(m, t, v)
    BY <1>1, <2>1, <2>3, ForkEffect
  <2> HIDE DEF z, y, x
  <2>5. m' \in Mem
    BY <2>4 DEF Base
  <2>6. /\ pc'[u] = "user" /\ vmap'[u] = vmap[t]
        /\ \A s \in Tasks \ {u} : pc'[s] = pc[s] /\ vmap'[s] = vmap[s]
    BY <1>1, <2>1, <2>3 DEF TypeOK
  <2> SUFFICES ASSUME m'.panic = "none", NEW s \in Tasks
               PROVE  MarkedAt(s)' /\ LoadingAt(s)'
    BY <2>4 DEF CowInv
  <2>7. CASE s = t
    <3>1. \A v \in MmapPages : Seen(m', t, v) = Seen(m, t, v)
      BY <2>3, <2>4, Layout DEF SameView
    <3>2. pc'[t] = "user" /\ vmap'[t] = vmap[t]
      BY <1>1, <2>3, <2>6
    <3>3. MarkedAt(t)' /\ LoadingAt(t)'
      BY <1>1, <2>5, <3>1, <3>2, AtUser
    <3> QED BY <2>7, <3>3
  <2>8. CASE s = u
    <3>1. \A v \in MmapPages : Present(m', u, v) => Present(m, t, v)
      BY <1>1, <2>3, <2>4, <2>5, MemType, Layout
    <3>2. \A v \in MmapPages : Present(m', u, v) => v \in vmap[t]
      BY <1>1, <3>1 DEF CowInv, MarkedAt
    <3>3. MarkedAt(u)'
      BY <2>6, <3>2 DEF MarkedAt
    <3>4. LoadingAt(u)'
      BY <2>6 DEF LoadingAt
    <3> QED BY <2>8, <3>3, <3>4
  <2>9. CASE s \in Tasks \ {t, u}
    <3>1. /\ m'.pte[s] = m.pte[s] /\ m'.pde[s] = m.pde[s]
          /\ pc'[s] = pc[s] /\ vmap'[s] = vmap[s]
      BY <2>4, <2>6, <2>9
    <3>2. MarkedAt(s) /\ LoadingAt(s)
      BY <1>1 DEF CowInv
    <3> QED BY <3>1, <3>2 DEF MarkedAt, LoadingAt, Bare, Present
  <2> QED BY <2>7, <2>8, <2>9
<1> QED BY <1>2, <1>3

(***************************************************************************)
(* Every step keeps copy on write right, for programs that do not ask mmap *)
(* for an address of their own.                                            *)
(***************************************************************************)
LEMMA CowInvStep ==
  ASSUME FixedMmap = FALSE, MemInv, MemInv', CowInv, [Next]_vars
  PROVE  CowInv'
<1>0. Base(m) /\ m \in Mem /\ TypeOK /\ Base(m') /\ m' \in Mem
  BY DEF MemInv, Base
<1>p. ASSUME m.panic = "none"
      PROVE  /\ Tidy(m) /\ Cow(m)
             /\ \A t \in Tasks : MarkedAt(t) /\ LoadingAt(t)
  BY <1>p DEF MemInv, CowInv
<1>t. /\ pc \in [Tasks -> {"user", "args", "header", "text", "data"}]
      /\ vmap \in [Tasks -> SUBSET MmapPages]
  BY <1>0 DEF TypeOK
<1>s. /\ \A v \in MmapPages : v # Stack /\ v # Text /\ v # Data /\ v # Heap
      /\ Text # Stack /\ Stack \in Pages /\ Text \in Pages /\ Data \in Pages /\ Heap \in Pages
      /\ MmapPages \subseteq Pages
  BY Layout, MemoryAssumption DEF MmapPages, Stack, Text, Data, Heap
<1>1. ASSUME NEW t \in Tasks, Exit(t) PROVE CowInv'
  BY <1>1, CowExit DEF Exit, Running
<1>r. ASSUME NEW t \in Tasks, ExitResumes(t) PROVE CowInv'
  BY <1>r, ResumeInv DEF CowInv
<1>2. ASSUME NEW t \in Tasks, Fork(t) PROVE CowInv'
  BY <1>2, CowFork
<1>3. ASSUME NEW t \in Tasks, Execve(t) PROVE CowInv'
  <2>1. /\ m' = [free_pte(m, t) EXCEPT !.panic = alloc_kpage(alloc_kpage(m, 4), 1).panic]
        /\ pc' = [pc EXCEPT ![t] = "args"] /\ vmap' = vmap /\ m.panic = "none"
    BY <1>3 DEF Execve, Running
  <2>2. Cow(m') /\ Bare(m', t) /\ Shrinks(m, m', t)
    BY <1>0, <1>p, <2>1, ExecveEffect
  <2>3. \A u \in Tasks \ {t} : /\ m'.pte[u] = m.pte[u] /\ m'.pde[u] = m.pde[u]
                               /\ pc'[u] = pc[u] /\ vmap'[u] = vmap[u]
    BY <1>t, <2>1, <2>2 DEF Shrinks, Elsewhere
  <2>4. pc'[t] = "args"
    BY <1>t, <2>1
  <2>5. LoadingAt(t)'
    BY <2>2, <2>4 DEF LoadingAt
  <2>6. MarkedAt(t)'
    BY <2>2, Layout DEF MarkedAt, Bare, Present, NoPte
  <2> QED BY <2>1, <2>2, <2>3, <2>5, <2>6, CowInvBy
<1>4. ASSUME NEW t \in Tasks, BadHeader(t) PROVE CowInv'
  <2>1. "init" \in Reasons \ {"none"}
    BY DEF Reasons
  <2>2. CASE t = 1
    <3>1. m'.panic # "none"
      BY <1>4, <2>1, <2>2, PanicInv DEF BadHeader
    <3> QED BY <3>1 DEF CowInv
  <2>3. CASE t # 1
    <3>1. m' = m /\ pc' = [pc EXCEPT ![t] = "user"] /\ vmap' = vmap /\ m.panic = "none"
      BY <1>4, <2>3 DEF BadHeader, InExec
    <3>2. pc'[t] = "user" /\ \A u \in Tasks \ {t} : pc'[u] = pc[u]
      BY <1>t, <3>1
    <3>3. MarkedAt(t)' /\ LoadingAt(t)'
      BY <1>0, <3>1, <3>2, AtUser
    <3>4. Cow(m')
      BY <1>p, <3>1
    <3> QED BY <3>1, <3>2, <3>3, <3>4, CowInvBy
  <2> QED BY <2>2, <2>3
<1>5. ASSUME NEW t \in Tasks, NEW u \in Tasks, Wait(t, u) PROVE CowInv'
  <2>1. m' = free_kpage(m, own[u].pcb) /\ m.panic = "none" /\ UNCHANGED <<pc, vmap>>
    BY <1>5 DEF Wait, Running
  <2>2. SameTables(m, m')
    BY <1>0, <2>1, FreeKpage
  <2>3. Cow(m') /\ m'.pte = m.pte /\ m'.pde = m.pde
    BY <1>p, <2>1, <2>2, SameKeeps DEF SameTables
  <2>4. MarkedAt(t)' /\ LoadingAt(t)'
    BY <1>p, <2>1, <2>3 DEF MarkedAt, LoadingAt, Bare, Present
  <2> QED BY <2>1, <2>3, <2>4, CowInvBy
<1>6. ASSUME NEW t \in Tasks, NEW v \in Pages, WriteFault(t, v) PROVE CowInv'
  <2>1. m.panic = "none" /\ live[t] = "live" /\ Present(m, t, v) /\ pc[t] = "user"
    BY <1>6 DEF WriteFault, Running, Present
  <2>2. CASE m.pte[t][v].shared
    <3>1. "shared" \in Reasons \ {"none"}
      BY DEF Reasons
    <3>2. m' = Panic(m, "shared") /\ UNCHANGED <<live, pc, vmap, brk, own>>
      BY <1>6, <2>2 DEF WriteFault
    <3> QED BY <3>1, <3>2, PanicInv DEF CowInv
  <2>3. CASE ~ m.pte[t][v].shared /\ m.pte[t][v].readonly
    <3>1. ExitOf(m, t)
      BY <1>6, <2>3 DEF WriteFault
    <3> QED BY <2>1, <3>1, CowExit
  <2>4. CASE ~ m.pte[t][v].shared /\ ~ m.pte[t][v].readonly
    <3>1. m' = CowBreak(m, t, v) /\ UNCHANGED <<pc, vmap>>
      BY <1>6, <2>4 DEF WriteFault
    <3>2. Cow(m') /\ Elsewhere(m, m', t) /\ SameView(m, m', t)
      BY <1>0, <1>p, <2>1, <2>4, <3>1, CowBreakEffect
    <3>3. MarkedAt(t)' /\ LoadingAt(t)'
      <4>1. \A w \in MmapPages : Seen(m', t, w) = Seen(m, t, w)
        BY <1>s, <3>2 DEF SameView
      <4> QED BY <1>0, <2>1, <3>1, <4>1, AtUser
    <3>4. \A u \in Tasks \ {t} : m'.pte[u] = m.pte[u] /\ m'.pde[u] = m.pde[u]
      BY <3>2 DEF Elsewhere
    <3> QED BY <2>1, <3>1, <3>2, <3>3, <3>4, CowInvBy
  <2> QED BY <2>2, <2>3, <2>4
<1>7. ASSUME NEW t \in Tasks, NEW v \in Pages, NEW new \in Values, NEW mode \in Modes,
             Store(t, v, new, mode)
      PROVE  CowInv'
  <2>1. /\ m' = [m EXCEPT !.data[m.pte[t][v].frame] = new] /\ m.panic = "none"
        /\ UNCHANGED <<pc, vmap>>
    BY <1>7 DEF Store, Running
  <2>2. SameTables(m, m')
    BY <1>0, <2>1 DEF SameTables, Mem
  <2>3. Cow(m') /\ m'.pte = m.pte /\ m'.pde = m.pde
    BY <1>p, <2>1, <2>2, SameKeeps DEF SameTables
  <2>4. MarkedAt(t)' /\ LoadingAt(t)'
    BY <1>p, <2>1, <2>3 DEF MarkedAt, LoadingAt, Bare, Present
  <2> QED BY <2>1, <2>3, <2>4, CowInvBy
<1>8. ASSUME NEW t \in Tasks, NEW v \in Pages, NEW new \in Fresh, v \notin MmapPages,
             m' = link_user_page(m, t, v, new), m.panic = "none", vmap' = vmap,
             \A u \in Tasks \ {t} : pc'[u] = pc[u],
             m'.panic = "none" => LoadingAt(t)'
      PROVE  CowInv'
  <2>1. new \in Values
    BY MemoryAssumption
  <2>2. /\ Cow(m') /\ Grows(m, m', t)
        /\ \A w \in Pages \ {v} : m'.pte[t][w] = m.pte[t][w]
    BY <1>0, <1>p, <1>8, <2>1, LinkKeeps
  <2>3. MarkedAt(t)'
    BY <1>p, <1>s, <1>8, <2>2 DEF MarkedAt, Present
  <2>4. \A u \in Tasks \ {t} : m'.pte[u] = m.pte[u] /\ m'.pde[u] = m.pde[u]
    BY <2>2 DEF Grows, Elsewhere
  <2> QED BY <1>8, <2>2, <2>3, <2>4, CowInvBy
<1>9. ASSUME NEW t \in Tasks, NEW v \in Pages, NEW new \in Fresh, MissingFault(t, v, new)
      PROVE  CowInv'
  <2>1. m.panic = "none" /\ pc[t] = "user"
    BY <1>9 DEF MissingFault, Running
  <2>2. CASE v = Stack
    <3>1. m' = link_user_page(m, t, v, new) /\ UNCHANGED <<pc, vmap>>
      BY <1>9, <2>2 DEF MissingFault
    <3>2. LoadingAt(t)'
      BY <2>1, <3>1 DEF LoadingAt
    <3>3. v \notin MmapPages
      BY <1>s, <2>2
    <3> QED BY <1>8, <2>1, <3>1, <3>2, <3>3
  <2>3. CASE v # Stack
    <3>1. ExitOf(m, t)
      BY <1>9, <2>3 DEF MissingFault
    <3> QED BY <2>1, <3>1, CowExit
  <2> QED BY <2>2, <2>3
<1>10. ASSUME NEW t \in Tasks, NEW b \in 0 .. BrkLimit, Brk(t, b) PROVE CowInv'
  <2>1. /\ m.panic = "none" /\ pc[t] = "user" /\ UNCHANGED <<pc, vmap>>
        /\ m' = IF brk[t] > b THEN unlink_user_page(m, t, Heap) ELSE m
    BY <1>10 DEF Brk, Running
  <2>2. Cow(m') /\ Shrinks(m, m', t)
    <3>1. CASE brk[t] > b
      <4>1. m' = DropPages(get_pte(m, t, Heap), t, {Heap})
        BY <2>1, <3>1 DEF unlink_user_page
      <4>2. {Heap} \in SUBSET Pages
        BY <1>s
      <4> QED BY <1>0, <1>p, <1>s, <2>1, <4>1, <4>2, UnlinkKeeps
    <3>2. CASE ~ (brk[t] > b)
      <4>1. m' = m
        BY <2>1, <3>2
      <4> QED BY <1>p, <2>1, <4>1 DEF Shrinks, Elsewhere, SameView
    <3> QED BY <3>1, <3>2
  <2>3. \A w \in MmapPages : Seen(m', t, w) # Unmapped => Seen(m, t, w) # Unmapped
    BY <1>s, <2>2 DEF Shrinks
  <2>4. MarkedAt(t)' /\ LoadingAt(t)'
    BY <1>0, <2>1, <2>3, AtUser
  <2>5. \A u \in Tasks \ {t} : m'.pte[u] = m.pte[u] /\ m'.pde[u] = m.pde[u]
    BY <2>2 DEF Shrinks, Elsewhere
  <2> QED BY <2>1, <2>2, <2>4, <2>5, CowInvBy
<1>11. ASSUME NEW t \in Tasks, NEW n \in 1 .. NMmap, NEW kind \in MmapKinds, NEW new \in Fresh,
              Mmap(t, n, kind, new)
       PROVE  CowInv'
  <2>1. m.panic = "none" /\ pc[t] = "user" /\ n \in Nat /\ new \in Values
    BY <1>11, MemoryAssumption DEF Mmap, Running
  <2>2. PICK a \in MmapAt(t, n) :
          IF a = None
          THEN m' = Panic(m, "vmap") /\ UNCHANGED <<live, pc, vmap, brk, own>>
          ELSE /\ m' = MmapLoop(t, a, n, kind, new)
               /\ vmap' = [vmap EXCEPT ![t] = @ \cup (a .. a + n - 1)]
               /\ UNCHANGED <<live, pc, brk, own>>
    BY <1>11 DEF Mmap
  <2>3. CASE a = None
    <3>1. "vmap" \in Reasons \ {"none"}
      BY DEF Reasons
    <3> QED BY <2>2, <2>3, <3>1, PanicInv DEF CowInv
  <2>4. CASE a # None
    <3> DEFINE V == a .. a + n - 1
    <3>1. a \in Nat /\ V \subseteq MmapPages /\ V \cap vmap[t] = {}
      BY <2>1, <2>4, MmapPlace
    <3>2. V \subseteq Pages
      BY <1>s, <3>1
    <3>3. /\ m' = MmapLoop(t, a, n, kind, new)
          /\ vmap' = [vmap EXCEPT ![t] = @ \cup V] /\ pc' = pc
      BY <2>2, <2>4
    <3>4. \A v \in V : ~ Present(m, t, v)
      BY <1>p, <2>1, <3>1 DEF MarkedAt
    <3>5. /\ Cow(m') /\ Grows(m, m', t)
          /\ \A w \in Pages \ V : m'.pte[t][w] = m.pte[t][w]
      <4>1. Base(m) /\ n \in Nat /\ new \in Values /\ a \in Nat
        BY <1>0, <2>1, <3>1
      <4>2. LET y == MmapLoop(t, a, n, kind, new) IN
            /\ (Cow(m) /\ (\A v \in V : ~ Present(m, t, v)) => Cow(y))
            /\ Grows(m, y, t)
            /\ \A w \in Pages \ V : y.pte[t][w] = m.pte[t][w]
        BY <3>2, <4>1, MmapLoopKeeps
      <4> HIDE DEF V
      <4> QED BY <1>p, <2>1, <3>3, <3>4, <4>2
    <3> HIDE DEF V
    <3>6. MarkedAt(t)'
      <4>1. vmap'[t] = vmap[t] \cup V
        BY <1>t, <3>3
      <4>2. \A v \in MmapPages \ V : m'.pte[t][v] = m.pte[t][v]
        BY <1>s, <3>5
      <4> QED BY <1>p, <2>1, <4>1, <4>2 DEF MarkedAt, Present
    <3>7. LoadingAt(t)'
      BY <2>1, <3>3 DEF LoadingAt
    <3>8. \A u \in Tasks \ {t} : /\ m'.pte[u] = m.pte[u] /\ m'.pde[u] = m.pde[u]
                                 /\ pc'[u] = pc[u] /\ vmap'[u] = vmap[u]
      BY <1>t, <3>3, <3>5 DEF Grows, Elsewhere
    <3> QED BY <2>1, <3>5, <3>6, <3>7, <3>8, CowInvBy
  <2> QED BY <2>3, <2>4
<1>12. ASSUME NEW t \in Tasks, NEW n \in 1 .. NMmap, NEW a \in MmapPages,
              a + n - 1 \in MmapPages, Munmap(t, a, n)
       PROVE  CowInv'
  <2> DEFINE V == a .. a + n - 1
             x == DropPages(get_pte(m, t, a), t, V)
  <2>1. /\ m.panic = "none" /\ pc[t] = "user" /\ pc' = pc
        /\ m' = IF V \subseteq vmap[t] THEN x ELSE Panic(x, "munmap")
        /\ vmap' = [vmap EXCEPT ![t] = @ \ V]
    BY <1>12 DEF Munmap, Running
  <2>2. a \in Pages /\ V \in SUBSET Pages
    BY <1>12, MemoryAssumption DEF MmapPages, Pages
  <2> HIDE DEF V
  <2>3. /\ Base(x) /\ Cow(x) /\ Shrinks(m, x, t)
        /\ \A w \in Pages : x.pte[t][w] = IF w \in V THEN NoPte ELSE m.pte[t][w]
    BY <1>0, <1>p, <2>1, <2>2, UnlinkKeeps
  <2> HIDE DEF x
  <2>4. m' = x \/ m'.panic # "none"
    <3>1. x \in Mem /\ "munmap" \in Reasons /\ "munmap" # "none"
      BY <2>3 DEF Base, Reasons
    <3>2. Panic(x, "munmap").panic # "none"
      BY <3>1, PanicKeeps, Zenon
    <3> QED BY <2>1, <3>2
  <2>5. CASE m'.panic # "none"
    BY <2>5 DEF CowInv
  <2>6. CASE m' = x
    <3>1. MarkedAt(t)'
      BY <1>p, <1>s, <1>t, <2>1, <2>3, <2>6 DEF MarkedAt, Present, NoPte
    <3>2. LoadingAt(t)'
      BY <2>1 DEF LoadingAt
    <3>3. \A u \in Tasks \ {t} : /\ m'.pte[u] = m.pte[u] /\ m'.pde[u] = m.pde[u]
                                 /\ pc'[u] = pc[u] /\ vmap'[u] = vmap[u]
      BY <1>t, <2>1, <2>3, <2>6 DEF Shrinks, Elsewhere
    <3> QED BY <2>1, <2>3, <2>6, <3>1, <3>2, <3>3, CowInvBy
  <2> QED BY <2>4, <2>5, <2>6
<1>13. ASSUME NEW t \in Tasks, NEW new \in Fresh, CopyArgs(t, new) PROVE CowInv'
  <2>1. /\ m.panic = "none" /\ pc[t] = "args" /\ m' = link_user_page(m, t, Stack, new)
        /\ pc' = [pc EXCEPT ![t] = "header"] /\ vmap' = vmap
    BY <1>13 DEF CopyArgs, InExec
  <2>2. pc'[t] = "header" /\ \A u \in Tasks \ {t} : pc'[u] = pc[u]
    BY <1>t, <2>1
  <2>3. new \in Values
    BY MemoryAssumption
  <2>4. \A w \in Pages \ {Stack} : m'.pte[t][w] = m.pte[t][w]
    BY <1>0, <1>s, <2>1, <2>3, LinkKeeps
  <2>5. ~ Present(m, t, Text)
    BY <1>p, <1>s, <2>1 DEF LoadingAt, Bare, Present, NoPte
  <2>6. LoadingAt(t)'
    BY <1>s, <2>2, <2>4, <2>5 DEF LoadingAt, Present
  <2> QED BY <1>8, <1>s, <2>1, <2>2, <2>6
<1>14. ASSUME NEW t \in Tasks, NEW new \in Fresh, ReadHeader(t, new) PROVE CowInv'
  <2>1. /\ m.panic = "none" /\ pc[t] = "header" /\ m' = link_user_page(m, t, Text, new)
        /\ pc' = [pc EXCEPT ![t] = "text"] /\ vmap' = vmap
    BY <1>14 DEF ReadHeader, InExec
  <2>2. pc'[t] = "text" /\ \A u \in Tasks \ {t} : pc'[u] = pc[u]
    BY <1>t, <2>1
  <2>3. new \in Values
    BY MemoryAssumption
  <2>4. /\ ~ Present(m', t, Text) => m'.panic # "none"
        /\ ~ Present(m, t, Text) /\ Present(m', t, Text) =>
             m'.pte[t][Text].write /\ ~ m'.pte[t][Text].shared
    BY <1>0, <1>s, <2>1, <2>3, LinkKeeps
  <2>5. ~ Present(m, t, Text)
    BY <1>p, <2>1 DEF LoadingAt
  <2>6. m'.panic = "none" => LoadingAt(t)'
    BY <2>2, <2>4, <2>5 DEF LoadingAt
  <2>7. Text \notin MmapPages
    BY <1>s
  <2> QED BY <1>8, <1>s, <2>1, <2>2, <2>6, <2>7
<1>15. ASSUME NEW t \in Tasks, NEW new \in Fresh, LoadData(t, new) PROVE CowInv'
  <2>1. /\ m.panic = "none" /\ m' = link_user_page(m, t, Data, new)
        /\ pc' = [pc EXCEPT ![t] = "user"] /\ vmap' = vmap
    BY <1>15 DEF LoadData, InExec
  <2>2. pc'[t] = "user" /\ \A u \in Tasks \ {t} : pc'[u] = pc[u]
    BY <1>t, <2>1
  <2>3. LoadingAt(t)'
    BY <2>2 DEF LoadingAt
  <2>4. Data \notin MmapPages
    BY <1>s
  <2> QED BY <1>8, <1>s, <2>1, <2>2, <2>3, <2>4
<1>16. ASSUME NEW t \in Tasks, NEW new \in Fresh, LoadText(t, new) PROVE CowInv'
  <2>1. /\ m.panic = "none" /\ pc[t] = "text" /\ vmap' = vmap
        /\ m' = WithText(m, t, new) /\ pc' = [pc EXCEPT ![t] = "data"]
    BY <1>16 DEF LoadText, InExec, WithText
  <2>2. Present(m, t, Text) /\ m.map[m.pte[t][Text].frame] = 1
    BY <1>p, <1>s, <2>1 DEF LoadingAt, Cow, Private
  <2>3. /\ Filled(m, m', t, new)
        /\ \A u \in Tasks \ {t} : m'.pte[u] = m.pte[u] /\ m'.pde[u] = m.pde[u]
        /\ \A w \in Pages \ {Text} : m'.pte[t][w] = m.pte[t][w]
    <3>1. new \in Values
      BY MemoryAssumption
    <3>2. LET y == WithText(m, t, new) IN
          /\ \A u \in Tasks \ {t} : y.pte[u] = m.pte[u] /\ y.pde[u] = m.pde[u]
          /\ \A w \in Pages \ {Text} : y.pte[t][w] = m.pte[t][w]
          /\ Present(m, t, Text) => Filled(m, y, t, new)
      BY <1>0, <3>1, LoadTextEffect, Zenon
    <3> QED BY <2>1, <2>2, <3>2
  <2>4. Cow(m')
    BY <1>p, <2>1, <2>2, <2>3 DEF Filled
  <2>5. pc'[t] = "data" /\ \A u \in Tasks \ {t} : pc'[u] = pc[u]
    BY <1>t, <2>1
  <2>6. LoadingAt(t)'
    BY <2>5 DEF LoadingAt
  <2>7. MarkedAt(t)'
    BY <1>p, <1>s, <2>1, <2>3 DEF MarkedAt, Present
  <2> QED BY <2>1, <2>3, <2>4, <2>5, <2>6, <2>7, CowInvBy
<1>17. CASE UNCHANGED vars
  BY <1>17 DEF vars, CowInv, MarkedAt, LoadingAt
<1>18. CASE Next
  BY <1>1, <1>r, <1>2, <1>3, <1>4, <1>5, <1>6, <1>7, <1>9, <1>10, <1>11, <1>12, <1>13, <1>14, <1>15,
     <1>16, <1>18
     DEF Next
<1> QED BY <1>17, <1>18

(***************************************************************************)
(* WritableIsPrivate: a page that a program can write without a fault has  *)
(* one user, unless it is shared, and none is a page table; for programs   *)
(* that leave the place of an mmap to the kernel.                          *)
(***************************************************************************)
THEOREM MemoryWritableIsPrivate ==
  ASSUME FixedMmap = FALSE
  PROVE  Spec => []WritableIsPrivate
<1>1. Init => CowInv
  BY CowInvInit
<1>2. MemInv /\ MemInv' /\ CowInv /\ [Next]_vars => CowInv'
  BY CowInvStep
<1>3. MemInv /\ CowInv => WritableIsPrivate
  <2> SUFFICES ASSUME MemInv, CowInv, m.panic = "none", NEW t \in Tasks, NEW v \in Pages
               PROVE  /\ m.pte[t][v].write /\ ~ m.pte[t][v].shared
                           => m.map[m.pte[t][v].frame] = 1
                      /\ Present(m, t, v) =>
                           \A u \in Tasks, r \in 1 .. 2 : m.pde[u][r] # m.pte[t][v].frame
    BY DEF WritableIsPrivate
  <2>1. Base(m) /\ Tidy(m) /\ Private(m)
    BY DEF MemInv, CowInv, Cow
  <2>2. ~ Present(m, t, v) => ~ m.pte[t][v].write
    BY <2>1 DEF Tidy, NoPte
  <2>3. m.pte[t][v].write /\ ~ m.pte[t][v].shared => m.map[m.pte[t][v].frame] = 1
    BY <2>1, <2>2 DEF Private
  <2>4. Present(m, t, v) => \A u \in Tasks, r \in 1 .. 2 : m.pde[u][r] # m.pte[t][v].frame
    BY <2>1 DEF Base, Apart, Regions
  <2> QED BY <2>3, <2>4
<1> QED BY <1>1, <1>2, <1>3, AlwaysMemInv, PTL DEF Spec

-----------------------------------------------------------------------------
(* The pages of kernel_map: KernelPagesOwned. *)

(***************************************************************************)
(* Init: the three pages of init.                                          *)
(***************************************************************************)
LEMMA KernelInvInit ==
  ASSUME Init
  PROVE  KernelInv
<1>0. 1 \in Tasks
  BY MemoryAssumption DEF Tasks
<1>1. /\ m.kernel_map = 1 .. 3
      /\ \A t \in Tasks : live[t] = IF t = 1 THEN "live" ELSE "free"
      /\ \A t \in Tasks : own[t] = IF t = 1 THEN [pcb |-> 1, pde |-> 2, bits |-> 3] ELSE NoPages
  BY DEF Init
<1>2. \A t \in Tasks, k \in Parts :
        own[t][k] = IF t # 1 THEN 0 ELSE CASE k = "pcb" -> 1 [] k = "pde" -> 2 [] k = "bits" -> 3
  BY <1>1 DEF Parts, NoPages, None
<1>3. \A s \in Tasks \X Parts : s[1] \in Tasks /\ s[2] \in Parts /\ s = <<s[1], s[2]>>
  OBVIOUS
<1>4. Slots = {1} \X Parts
  BY <1>0, <1>2, <1>3 DEF Slots, Slot, None, Parts
<1>5. /\ Slot(<<1, "pcb">>) = 1 /\ Slot(<<1, "pde">>) = 2 /\ Slot(<<1, "bits">>) = 3
  BY <1>0, <1>1 DEF Slot
<1>6. Slots = {<<1, "pcb">>, <<1, "pde">>, <<1, "bits">>}
  BY <1>4 DEF Parts
<1>7. 1 .. 3 = {1, 2, 3}
  OBVIOUS
<1>8. m.kernel_map = {Slot(s) : s \in Slots}
  BY <1>1, <1>5, <1>6, <1>7
<1>9. \A s, q \in Slots : Slot(s) = Slot(q) => s = q
  BY <1>5, <1>6
<1>10. \A t \in Tasks :
         /\ live[t] = "live" => \A k \in Parts : own[t][k] # None
         /\ live[t] \in {"dead", "exiting"} =>
              /\ own[t].pcb # None /\ own[t].pde = None /\ own[t].bits = None
         /\ live[t] = "free" => own[t] = NoPages
  BY <1>1, <1>2 DEF Parts, None
<1> QED BY <1>8, <1>9, <1>10 DEF KernelInv

(***************************************************************************)
(* What sys_exit and sys_waitpid give back: the pages of some slots.       *)
(***************************************************************************)
LEMMA GiveBack ==
  ASSUME KernelInv, m.panic = "none", NEW R \in SUBSET Slots,
         \A s \in Tasks \X Parts : Slot(s)' = IF s \in R THEN None ELSE Slot(s),
         m'.kernel_map = m.kernel_map \ {Slot(s) : s \in R}
  PROVE  /\ m'.kernel_map = {Slot(s)' : s \in Slots'}
         /\ \A s, q \in Slots' : Slot(s)' = Slot(q)' => s = q
<1>1. Slots' = {s \in Tasks \X Parts : Slot(s)' # None}
  BY DEF Slots, Slot
<1>2. Slots \in SUBSET (Tasks \X Parts) /\ \A s \in Slots : Slot(s) # None
  BY DEF Slots
<1>3. Slots' = Slots \ R
  BY <1>1, <1>2 DEF Slots
<1>4. \A s \in Slots' : Slot(s)' = Slot(s)
  BY <1>2, <1>3
<1>5. /\ m.kernel_map = {Slot(s) : s \in Slots}
      /\ \A s, q \in Slots : Slot(s) = Slot(q) => s = q
  BY DEF KernelInv
<1>6. m'.kernel_map = {Slot(s) : s \in Slots \ R}
  BY <1>5
<1>7. {Slot(s) : s \in Slots \ R} = {Slot(s)' : s \in Slots'}
  BY <1>3, <1>4
<1>8. \A s, q \in Slots' : Slot(s)' = Slot(q)' => s = q
  BY <1>3, <1>4, <1>5
<1> QED BY <1>6, <1>7, <1>8

(***************************************************************************)
(* sys_exit gives the page directory and the bitmap back.                  *)
(***************************************************************************)
LEMMA KernelExit ==
  ASSUME MemInv, KernelInv, NEW t \in Tasks, m.panic = "none", live[t] = "live", ExitOf(m, t)
  PROVE  KernelInv'
<1>1. Base(m) /\ TypeOK
  BY DEF MemInv
<1>2. CASE t = 1
  <2>1. "init" \in Reasons \ {"none"}
    BY DEF Reasons
  <2>2. m' = Panic(m, "init") /\ UNCHANGED <<live, pc, vmap, brk, own>>
    BY <1>2 DEF ExitOf
  <2> QED BY <2>1, <2>2, PanicInv DEF KernelInv
<1>3. CASE t # 1
  <2> DEFINE Own == [pcb : 0 .. NKpage, pde : 0 .. NKpage, bits : 0 .. NKpage]
             R == {<<t, "pde">>, <<t, "bits">>}
  <2>1. PICK z \in {"dead", "exiting"} :
        /\ m' = free_kpage(free_kpage(free_pte(m, t), own[t].pde), own[t].bits)
        /\ live' = [live EXCEPT ![t] = z]
        /\ own' = [own EXCEPT ![t].pde = None, ![t].bits = None]
    BY <1>3 DEF ExitOf
  <2>2. m'.kernel_map = (m.kernel_map \ {own[t].pde}) \ {own[t].bits}
    BY <1>1, <2>1, ExitEffect
  <2>3. live \in [Tasks -> {"free", "live", "dead", "exiting"}] /\ own \in [Tasks -> Own]
    BY <1>1 DEF TypeOK
  <2>4. /\ \A u \in Tasks \ {t} : own'[u] = own[u] /\ live'[u] = live[u]
        /\ own'[t].pcb = own[t].pcb /\ own'[t].pde = None /\ own'[t].bits = None
        /\ live'[t] \in {"dead", "exiting"}
    BY <2>1, <2>3
  <2>5. own[t].pcb # None /\ own[t].pde # None /\ own[t].bits # None
    BY DEF KernelInv, Parts
  <2>6. R \in SUBSET Slots
    BY <2>5 DEF Slots, Slot, Parts
  <2>7. \A s \in Tasks \X Parts : Slot(s)' = IF s \in R THEN None ELSE Slot(s)
    <3> SUFFICES ASSUME NEW u \in Tasks, NEW k \in Parts
                 PROVE  own'[u][k] = IF <<u, k>> \in R THEN None ELSE own[u][k]
      BY DEF Slot
    <3>1. CASE u # t
      BY <2>4, <3>1
    <3>2. CASE u = t /\ k = "pcb"
      BY <2>4, <3>2
    <3>3. CASE u = t /\ k = "pde"
      BY <2>4, <3>3
    <3>4. CASE u = t /\ k = "bits"
      BY <2>4, <3>4
    <3> QED BY <3>1, <3>2, <3>3, <3>4 DEF Parts
  <2>8. {Slot(s) : s \in R} = {own[t].pde, own[t].bits}
    BY DEF Slot
  <2>9. m'.kernel_map = m.kernel_map \ {Slot(s) : s \in R}
    BY <2>2, <2>8
  <2> HIDE DEF R
  <2>10. /\ m'.kernel_map = {Slot(s)' : s \in Slots'}
         /\ \A s, q \in Slots' : Slot(s)' = Slot(q)' => s = q
    BY <2>6, <2>7, <2>9, GiveBack
  <2>11. \A u \in Tasks :
           /\ live'[u] = "live" => \A k \in Parts : own'[u][k] # None
           /\ live'[u] \in {"dead", "exiting"} =>
                /\ own'[u].pcb # None /\ own'[u].pde = None /\ own'[u].bits = None
           /\ live'[u] = "free" => own'[u] = NoPages
    BY <2>4, <2>5 DEF KernelInv
  <2> QED BY <2>10, <2>11 DEF KernelInv
<1> QED BY <1>2, <1>3

(***************************************************************************)
(* sys_waitpid gives the PCB of a dead child back.                         *)
(***************************************************************************)
LEMMA KernelWait ==
  ASSUME MemInv, KernelInv, NEW t \in Tasks, NEW u \in Tasks, Wait(t, u)
  PROVE  KernelInv'
<1> DEFINE Own == [pcb : 0 .. NKpage, pde : 0 .. NKpage, bits : 0 .. NKpage]
           R == {<<u, "pcb">>}
<1>1. Base(m) /\ TypeOK /\ m \in Mem
  BY DEF MemInv, Base
<1>2. /\ m' = free_kpage(m, own[u].pcb) /\ m.panic = "none" /\ live[u] = "dead"
      /\ live' = [live EXCEPT ![u] = "free"] /\ own' = [own EXCEPT ![u] = NoPages]
  BY DEF Wait, Running
<1>3. m'.kernel_map = m.kernel_map \ {own[u].pcb}
  BY <1>1, <1>2, FreeKpage
<1>4. live \in [Tasks -> {"free", "live", "dead", "exiting"}] /\ own \in [Tasks -> Own]
  BY <1>1 DEF TypeOK
<1>5. /\ \A s \in Tasks \ {u} : own'[s] = own[s] /\ live'[s] = live[s]
      /\ own'[u] = NoPages /\ live'[u] = "free"
  BY <1>2, <1>4
<1>6. own[u].pcb # None /\ own[u].pde = None /\ own[u].bits = None
  BY <1>2 DEF KernelInv
<1>7. R \in SUBSET Slots
  BY <1>6 DEF Slots, Slot, Parts
<1>8. \A s \in Tasks \X Parts : Slot(s)' = IF s \in R THEN None ELSE Slot(s)
  <2> SUFFICES ASSUME NEW w \in Tasks, NEW k \in Parts
               PROVE  own'[w][k] = IF <<w, k>> \in R THEN None ELSE own[w][k]
    BY DEF Slot
  <2>1. CASE w # u
    BY <1>5, <2>1
  <2>2. CASE w = u
    <3>1. NoPages.pcb = None /\ NoPages.pde = None /\ NoPages.bits = None
      BY DEF NoPages
    <3>2. CASE k = "pcb"
      BY <1>5, <2>2, <3>1, <3>2
    <3>3. CASE k = "pde"
      BY <1>5, <1>6, <2>2, <3>1, <3>3
    <3>4. CASE k = "bits"
      BY <1>5, <1>6, <2>2, <3>1, <3>4
    <3> QED BY <3>2, <3>3, <3>4 DEF Parts
  <2> QED BY <2>1, <2>2
<1>9. {Slot(s) : s \in R} = {own[u].pcb}
  BY DEF Slot
<1>10. m'.kernel_map = m.kernel_map \ {Slot(s) : s \in R}
  BY <1>3, <1>9
<1> HIDE DEF R
<1>11. /\ m'.kernel_map = {Slot(s)' : s \in Slots'}
       /\ \A s, q \in Slots' : Slot(s)' = Slot(q)' => s = q
  BY <1>2, <1>7, <1>8, <1>10, GiveBack
<1>12. \A s \in Tasks :
         /\ live'[s] = "live" => \A k \in Parts : own'[s][k] # None
         /\ live'[s] \in {"dead", "exiting"} =>
              /\ own'[s].pcb # None /\ own'[s].pde = None /\ own'[s].bits = None
         /\ live'[s] = "free" => own'[s] = NoPages
  BY <1>2, <1>5 DEF KernelInv
<1> QED BY <1>11, <1>12 DEF KernelInv

(***************************************************************************)
(* fork takes three pages that are free for a slot that has none.          *)
(***************************************************************************)
LEMMA KernelFork ==
  ASSUME MemInv, KernelInv, NEW t \in Tasks, Fork(t)
  PROVE  KernelInv'
<1> SUFFICES ASSUME m'.panic = "none" PROVE KernelInv'
  BY DEF KernelInv
<1> DEFINE Own == [pcb : 0 .. NKpage, pde : 0 .. NKpage, bits : 0 .. NKpage]
<1>1. /\ Base(m) /\ Tidy(m) /\ OnlyLive /\ TypeOK /\ m.panic = "none" /\ live[t] = "live"
  BY DEF MemInv, Fork, Running
<1>2. FreeSlots # {}
  <2>1. "tasks" \in Reasons \ {"none"}
    BY DEF Reasons
  <2>2. FreeSlots = {} => m' = Panic(m, "tasks") /\ UNCHANGED <<live, pc, vmap, brk, own>>
    BY DEF Fork
  <2> QED BY <2>1, <2>2, PanicInv
<1>3. PICK u : u = Min(FreeSlots)
  OBVIOUS
<1> DEFINE x == alloc_kpage(m, 1)
           y == alloc_kpage(x, 1)
           z == copy_pte(y, t, u)
<1>4. /\ m' = alloc_kpage(z, 1)
      /\ own' = [own EXCEPT ![u] = [pcb |-> NewKpage(m), pde |-> NewKpage(x),
                                    bits |-> NewKpage(z)]]
      /\ live' = [live EXCEPT ![u] = "live"]
  BY <1>2, <1>3 DEF Fork
<1>5. u \in FreeSlots
  <2>1. FreeSlots \in SUBSET Nat
    BY MemoryAssumption DEF FreeSlots, Tasks
  <2> QED BY <1>2, <1>3, <2>1, MinExists
<1>6. u \in Tasks /\ live[u] = "free" /\ t # u /\ Bare(m, u)
  BY <1>1, <1>5 DEF FreeSlots, OnlyLive
<1>7. /\ NewKpage(m) # None /\ NewKpage(x) # None /\ NewKpage(z) # None
      /\ NewKpage(m) \notin m.kernel_map
      /\ NewKpage(x) \notin m.kernel_map \cup {NewKpage(m)}
      /\ NewKpage(z) \notin m.kernel_map \cup {NewKpage(m), NewKpage(x)}
      /\ m'.kernel_map = m.kernel_map \cup {NewKpage(m), NewKpage(x), NewKpage(z)}
  BY <1>1, <1>4, <1>6, ForkEffect
<1>8. PICK a, b, c : a = NewKpage(m) /\ b = NewKpage(x) /\ c = NewKpage(z)
  OBVIOUS
<1>9. /\ a # None /\ b # None /\ c # None
      /\ a \notin m.kernel_map /\ b \notin m.kernel_map /\ c \notin m.kernel_map
      /\ a # b /\ a # c /\ b # c
      /\ m'.kernel_map = m.kernel_map \cup {a, b, c}
  BY <1>7, <1>8
<1> HIDE DEF x, y, z
<1>10. live \in [Tasks -> {"free", "live", "dead", "exiting"}] /\ own \in [Tasks -> Own]
  BY <1>1 DEF TypeOK
<1>11. /\ \A s \in Tasks \ {u} : own'[s] = own[s] /\ live'[s] = live[s]
       /\ own'[u].pcb = a /\ own'[u].pde = b /\ own'[u].bits = c /\ live'[u] = "live"
  BY <1>4, <1>6, <1>8, <1>10
<1> DEFINE P == <<u, "pcb">>
           D == <<u, "pde">>
           B == <<u, "bits">>
<1>12. own[u] = NoPages
  BY <1>1, <1>6 DEF KernelInv
<1>13. P \notin Slots /\ D \notin Slots /\ B \notin Slots
  BY <1>6, <1>12 DEF Slots, Slot, NoPages, None
<1>14. /\ P \in Tasks \X Parts /\ D \in Tasks \X Parts /\ B \in Tasks \X Parts
       /\ P # D /\ P # B /\ D # B
       /\ \A s \in Tasks \X Parts : s \notin {P, D, B} => s[1] \in Tasks \ {u}
       /\ Slots \in SUBSET (Tasks \X Parts)
  BY <1>6 DEF Parts, Slots
<1>15. /\ Slot(P)' = a /\ Slot(D)' = b /\ Slot(B)' = c
       /\ \A s \in (Tasks \X Parts) \ {P, D, B} : Slot(s)' = Slot(s)
  BY <1>11, <1>14 DEF Slot
<1> HIDE DEF P, D, B
<1>16. Slots' = Slots \cup {P, D, B}
  <2>1. Slots' = {s \in Tasks \X Parts : Slot(s)' # None}
    BY DEF Slots, Slot
  <2> QED BY <1>9, <1>14, <1>15, <2>1 DEF Slots
<1>17. /\ m.kernel_map = {Slot(s) : s \in Slots}
       /\ \A s, q \in Slots : Slot(s) = Slot(q) => s = q
  BY <1>1 DEF KernelInv
<1>18. \A s \in Slots : Slot(s)' = Slot(s) /\ Slot(s)' \in m.kernel_map
  BY <1>13, <1>14, <1>15, <1>17
<1>19. m'.kernel_map = {Slot(s)' : s \in Slots'}
  <2>1. \A k \in m'.kernel_map : \E s \in Slots' : k = Slot(s)'
    BY <1>9, <1>15, <1>16, <1>17, <1>18
  <2>2. \A s \in Slots' : Slot(s)' \in m'.kernel_map
    BY <1>9, <1>15, <1>16, <1>18
  <2> QED BY <2>1, <2>2
<1>20. ASSUME NEW s \in Slots', NEW q \in Slots', Slot(s)' = Slot(q)' PROVE s = q
  BY <1>9, <1>15, <1>16, <1>17, <1>18, <1>20
<1>21. \A s \in Tasks :
         /\ live'[s] = "live" => \A k \in Parts : own'[s][k] # None
         /\ live'[s] \in {"dead", "exiting"} =>
              /\ own'[s].pcb # None /\ own'[s].pde = None /\ own'[s].bits = None
         /\ live'[s] = "free" => own'[s] = NoPages
  BY <1>1, <1>9, <1>11 DEF KernelInv, Parts
<1> QED BY <1>19, <1>20, <1>21 DEF KernelInv

(***************************************************************************)
(* Every step keeps kernel_map right.                                      *)
(***************************************************************************)
LEMMA KernelInvStep ==
  ASSUME MemInv, KernelInv, [Next]_vars
  PROVE  KernelInv'
<1>0. Base(m) /\ m \in Mem /\ TypeOK
  BY DEF MemInv, Base
<1>k. ASSUME UNCHANGED <<live, own>>, Upward(m, m') PROVE KernelInv'
  BY <1>k DEF KernelInv, Upward, Slots, Slot
<1>1. ASSUME NEW t \in Tasks, Exit(t) PROVE KernelInv'
  BY <1>1, KernelExit DEF Exit, Running
<1>r. ASSUME NEW t \in Tasks, ExitResumes(t) PROVE KernelInv'
  BY <1>r, ResumeInv DEF KernelInv
<1>2. ASSUME NEW t \in Tasks, Fork(t) PROVE KernelInv'
  BY <1>2, KernelFork
<1>3. ASSUME NEW t \in Tasks, Execve(t) PROVE KernelInv'
  <2>1. /\ m' = [free_pte(m, t) EXCEPT !.panic = alloc_kpage(alloc_kpage(m, 4), 1).panic]
        /\ UNCHANGED <<live, own>>
    BY <1>3 DEF Execve
  <2>2. Upward(m, m')
    BY <1>0, <2>1, ExecveEffect
  <2> QED BY <1>k, <2>1, <2>2
<1>4. ASSUME NEW t \in Tasks, BadHeader(t) PROVE KernelInv'
  <2>1. "init" \in Reasons \ {"none"}
    BY DEF Reasons
  <2>2. CASE t = 1
    BY <1>4, <2>1, <2>2, PanicInv DEF BadHeader, KernelInv
  <2>3. CASE t # 1
    BY <1>k, <1>4, <2>3 DEF BadHeader, Upward
  <2> QED BY <2>2, <2>3
<1>5. ASSUME NEW t \in Tasks, NEW u \in Tasks, Wait(t, u) PROVE KernelInv'
  BY <1>5, KernelWait
<1>6. ASSUME NEW t \in Tasks, NEW v \in Pages, WriteFault(t, v) PROVE KernelInv'
  <2>1. m.panic = "none" /\ live[t] = "live" /\ Present(m, t, v)
    BY <1>6 DEF WriteFault, Running, Present
  <2>2. CASE m.pte[t][v].shared
    <3>1. "shared" \in Reasons \ {"none"}
      BY DEF Reasons
    <3>2. m' = Panic(m, "shared") /\ UNCHANGED <<live, pc, vmap, brk, own>>
      BY <1>6, <2>2 DEF WriteFault
    <3> QED BY <3>1, <3>2, PanicInv DEF KernelInv
  <2>3. CASE ~ m.pte[t][v].shared /\ m.pte[t][v].readonly
    <3>1. ExitOf(m, t)
      BY <1>6, <2>3 DEF WriteFault
    <3> QED BY <2>1, <3>1, KernelExit
  <2>4. CASE ~ m.pte[t][v].shared /\ ~ m.pte[t][v].readonly
    <3>1. m' = CowBreak(m, t, v) /\ UNCHANGED <<live, own>>
      BY <1>6, <2>4 DEF WriteFault
    <3>2. Upward(m, m')
      BY <1>0, <2>1, <2>4, <3>1, CowBreakEffect
    <3> QED BY <1>k, <3>1, <3>2
  <2> QED BY <2>2, <2>3, <2>4
<1>7. ASSUME NEW t \in Tasks, NEW v \in Pages, NEW new \in Values, NEW mode \in Modes,
             Store(t, v, new, mode)
      PROVE  KernelInv'
  <2>1. m' = [m EXCEPT !.data[m.pte[t][v].frame] = new] /\ UNCHANGED <<live, own>>
    BY <1>7 DEF Store
  <2>2. Upward(m, m')
    BY <1>0, <2>1 DEF Upward, Mem
  <2> QED BY <1>k, <2>1, <2>2
<1>8. ASSUME NEW t \in Tasks, NEW v \in Pages, NEW new \in Fresh,
             m' = link_user_page(m, t, v, new), UNCHANGED <<live, own>>
      PROVE  KernelInv'
  <2>1. new \in Values
    BY MemoryAssumption
  <2>2. Upward(m, m')
    BY <1>0, <1>8, <2>1, LinkKeeps
  <2> QED BY <1>k, <1>8, <2>2
<1>9. ASSUME NEW t \in Tasks, NEW v \in Pages, NEW new \in Fresh, MissingFault(t, v, new)
      PROVE  KernelInv'
  <2>1. m.panic = "none" /\ live[t] = "live"
    BY <1>9 DEF MissingFault, Running
  <2>2. CASE v = Stack
    BY <1>8, <1>9, <2>2 DEF MissingFault
  <2>3. CASE v # Stack
    BY <1>9, <2>1, <2>3, KernelExit DEF MissingFault
  <2> QED BY <2>2, <2>3
<1>10. ASSUME NEW t \in Tasks, NEW b \in 0 .. BrkLimit, Brk(t, b) PROVE KernelInv'
  <2>1. /\ m' = IF brk[t] > b THEN unlink_user_page(m, t, Heap) ELSE m
        /\ UNCHANGED <<live, own>>
    BY <1>10 DEF Brk
  <2>2. Upward(m, m')
    <3>1. CASE brk[t] > b
      <4>1. m' = DropPages(get_pte(m, t, Heap), t, {Heap})
        BY <2>1, <3>1 DEF unlink_user_page
      <4>2. Heap \in Pages /\ {Heap} \in SUBSET Pages
        BY Layout
      <4> QED BY <1>0, <4>1, <4>2, UnlinkKeeps
    <3>2. CASE ~ (brk[t] > b)
      BY <2>1, <3>2 DEF Upward
    <3> QED BY <3>1, <3>2
  <2> QED BY <1>k, <2>1, <2>2
<1>11. ASSUME NEW t \in Tasks, NEW n \in 1 .. NMmap, NEW kind \in MmapKinds, NEW new \in Fresh,
              Mmap(t, n, kind, new)
       PROVE  KernelInv'
  <2>1. n \in Nat /\ new \in Values
    BY MemoryAssumption
  <2>2. PICK a \in MmapAt(t, n) :
          IF a = None
          THEN m' = Panic(m, "vmap") /\ UNCHANGED <<live, pc, vmap, brk, own>>
          ELSE m' = MmapLoop(t, a, n, kind, new) /\ UNCHANGED <<live, pc, brk, own>>
    BY <1>11 DEF Mmap
  <2>3. CASE a = None
    <3>1. "vmap" \in Reasons \ {"none"}
      BY DEF Reasons
    <3> QED BY <2>2, <2>3, <3>1, PanicInv DEF KernelInv
  <2>4. CASE a # None
    <3>1. a \in Nat /\ a .. a + n - 1 \subseteq Pages
      BY <2>4, MmapPlace, Layout
    <3>2. Upward(m, MmapLoop(t, a, n, kind, new))
      BY <1>0, <2>1, <3>1, MmapLoopKeeps
    <3> QED BY <1>k, <2>2, <2>4, <3>2
  <2> QED BY <2>3, <2>4
<1>12. ASSUME NEW t \in Tasks, NEW n \in 1 .. NMmap, NEW a \in MmapPages,
              a + n - 1 \in MmapPages, Munmap(t, a, n)
       PROVE  KernelInv'
  <2> DEFINE V == a .. a + n - 1
             x == DropPages(get_pte(m, t, a), t, V)
  <2>1. /\ m' = IF V \subseteq vmap[t] THEN x ELSE Panic(x, "munmap")
        /\ UNCHANGED <<live, own>>
    BY <1>12 DEF Munmap
  <2>2. a \in Pages /\ V \in SUBSET Pages
    BY <1>12, MemoryAssumption DEF MmapPages, Pages
  <2> HIDE DEF V
  <2>3. Base(x) /\ Upward(m, x)
    BY <1>0, <2>2, UnlinkKeeps
  <2> HIDE DEF x
  <2>4. Upward(x, Panic(x, "munmap"))
    <3>1. x \in Mem /\ "munmap" \in Reasons /\ "munmap" # "none"
      BY <2>3 DEF Base, Reasons
    <3> QED BY <3>1, PanicKeeps, Zenon
  <2>5. Upward(m, m')
    BY <2>1, <2>3, <2>4 DEF Upward
  <2> QED BY <1>k, <2>1, <2>5
<1>13. ASSUME NEW t \in Tasks, NEW new \in Fresh,
              CopyArgs(t, new) \/ ReadHeader(t, new) \/ LoadData(t, new)
       PROVE  KernelInv'
  <2>1. Text \in Pages /\ Stack \in Pages /\ Data \in Pages
    BY Layout
  <2>2. UNCHANGED <<live, own>> /\ \E v \in Pages : m' = link_user_page(m, t, v, new)
    BY <1>13, <2>1 DEF CopyArgs, ReadHeader, LoadData
  <2> QED BY <1>8, <2>2
<1>14. ASSUME NEW t \in Tasks, NEW new \in Fresh, LoadText(t, new) PROVE KernelInv'
  <2>1. m' = WithText(m, t, new) /\ UNCHANGED <<live, own>>
    BY <1>14 DEF LoadText, WithText
  <2>2. new \in Values
    BY MemoryAssumption
  <2>3. Upward(m, WithText(m, t, new))
    BY <1>0, <2>2, LoadTextEffect, Zenon
  <2> QED BY <1>k, <2>1, <2>3
<1>15. CASE UNCHANGED vars
  BY <1>15 DEF vars, KernelInv, Slots, Slot
<1>16. CASE Next
  BY <1>1, <1>r, <1>2, <1>3, <1>4, <1>5, <1>6, <1>7, <1>9, <1>10, <1>11, <1>12, <1>13, <1>14, <1>16
     DEF Next
<1> QED BY <1>15, <1>16

(***************************************************************************)
(* KernelPagesOwned: exit and waitpid together give back the kernel pages  *)
(* that fork took, and nothing twice, until a task that slept in sys_exit  *)
(* after giving its pages back is switched to again.                       *)
(***************************************************************************)
THEOREM MemoryKernelPages == Spec => []KernelPagesOwned
<1>1. Init => KernelInv
  BY KernelInvInit
<1>2. MemInv /\ KernelInv /\ [Next]_vars => KernelInv'
  BY KernelInvStep
<1>3. KernelInv => KernelPagesOwned
  <2> SUFFICES ASSUME KernelInv, m.panic = "none"
               PROVE  /\ m.kernel_map = {Slot(s) : s \in Slots}
                      /\ Cardinality(m.kernel_map) = Cardinality(Slots)
    BY DEF KernelPagesOwned, Slots, Slot, Parts
  <2> DEFINE f == [s \in Slots |-> Slot(s)]
  <2>1. /\ m.kernel_map = {Slot(s) : s \in Slots}
        /\ \A s, q \in Slots : Slot(s) = Slot(q) => s = q
    BY DEF KernelInv
  <2>2. IsFiniteSet(Slots)
    <3>1. IsFiniteSet(Parts)
      <4>1. Parts = ({"pcb"} \cup {"pde"}) \cup {"bits"}
        BY DEF Parts
      <4>2. IsFiniteSet({"pcb"}) /\ IsFiniteSet({"pde"}) /\ IsFiniteSet({"bits"})
        BY FS_Singleton
      <4>3. IsFiniteSet({"pcb"} \cup {"pde"})
        BY <4>2, FS_Union
      <4> QED BY <4>1, <4>2, <4>3, FS_Union
    <3>2. IsFiniteSet(Tasks \X Parts)
      BY <3>1, Finite, FS_Product
    <3>3. Slots \subseteq Tasks \X Parts
      BY DEF Slots
    <3> QED BY <3>2, <3>3, FS_Subset
  <2>3. f \in Injection(Slots, m.kernel_map)
    BY <2>1 DEF Injection, IsInjective
  <2>4. f \in Surjection(Slots, m.kernel_map)
    BY <2>1 DEF Surjection
  <2>5. Cardinality(m.kernel_map) = Cardinality(Slots)
    <3> HIDE DEF f
    <3> QED BY <2>2, <2>3, <2>4, FS_Surjection
  <2> QED BY <2>1, <2>5
<1> QED BY <1>1, <1>2, <1>3, AlwaysMemInv, PTL DEF Spec

-----------------------------------------------------------------------------
(* Processes have memories of their own: Isolated. *)

(***************************************************************************)
(* The refinement mapping in terms of what a process reads and shares.     *)
(***************************************************************************)
LEMMA Mapping ==
  /\ View = [t \in Tasks |-> [v \in Pages |-> Seen(m, t, v)]]
  /\ View' = [t \in Tasks |-> [v \in Pages |-> Seen(m', t, v)]]
  /\ SharedPages = [t \in Tasks |-> {v \in Pages : m.pte[t][v].shared}]
  /\ SharedPages' = [t \in Tasks |-> {v \in Pages : m'.pte[t][v].shared}]
  /\ Alive = {t \in Tasks : live[t] = "live"}
  /\ Alive' = {t \in Tasks : live'[t] = "live"}
  /\ (Up <=> m.panic = "none") /\ (Up' <=> m'.panic = "none")
BY DEF View, Seen, Present, SharedPages, Alive, Up

(***************************************************************************)
(* Who sees and shares the same has the same place in the mapping.         *)
(***************************************************************************)
LEMMA SameMapped ==
  ASSUME NEW t \in Tasks, SameView(m, m', t)
  PROVE  View'[t] = View[t] /\ SharedPages'[t] = SharedPages[t]
<1>1. View'[t] = [v \in Pages |-> Seen(m', t, v)] /\ View[t] = [v \in Pages |-> Seen(m, t, v)]
  BY Mapping
<1>2. \A v \in Pages : Seen(m', t, v) = Seen(m, t, v)
  BY DEF SameView
<1>3. View'[t] = View[t]
  BY <1>1, <1>2
<1>4. /\ SharedPages'[t] = {v \in Pages : m'.pte[t][v].shared}
      /\ SharedPages[t] = {v \in Pages : m.pte[t][v].shared}
  BY Mapping
<1>5. \A v \in Pages : m'.pte[t][v].shared = m.pte[t][v].shared
  BY DEF SameView
<1>6. SharedPages'[t] = SharedPages[t]
  BY <1>4, <1>5
<1> QED BY <1>3, <1>6

(***************************************************************************)
(* A step that nobody can see.                                             *)
(***************************************************************************)
LEMMA UnseenStep ==
  ASSUME \A t \in Tasks : SameView(m, m', t), Alive' = Alive, Up' = Up
  PROVE  UNCHANGED <<View, SharedPages, Alive, Up>>
<1>1. \A t \in Tasks : View'[t] = View[t] /\ SharedPages'[t] = SharedPages[t]
  BY SameMapped
<1>2. View' = View
  BY <1>1, Mapping
<1>3. SharedPages' = SharedPages
  BY <1>1, Mapping
<1> QED BY <1>2, <1>3

(***************************************************************************)
(* A process that gains or loses pages remaps its own memory.              *)
(***************************************************************************)
LEMMA RemapStep ==
  ASSUME m.panic = "none", NEW t \in Tasks, live[t] = "live", live' = live,
         Grows(m, m', t) \/ Shrinks(m, m', t)
  PROVE  AS!Step
<1>1. \A u \in Tasks \ {t} : SameView(m, m', u)
  BY DEF Grows, Shrinks, Elsewhere
<1>2. \A u \in Tasks \ {t} : View'[u] = View[u] /\ SharedPages'[u] = SharedPages[u]
  BY <1>1, SameMapped
<1>3. \A v \in Pages : Seen(m, t, v) = Seen(m', t, v)
                         \/ Unmapped \in {Seen(m, t, v), Seen(m', t, v)}
  BY DEF Grows, Shrinks
<1>4. \A v \in Pages : View[t][v] = Seen(m, t, v) /\ View'[t][v] = Seen(m', t, v)
  BY Mapping
<1>5. \A v \in Pages : View[t][v] = View'[t][v] \/ Unmapped \in {View[t][v], View'[t][v]}
  BY <1>3, <1>4
<1>6. Alive' = Alive /\ t \in Alive /\ Up
  BY Mapping
<1>7. AS!RemapBy(t)
  BY <1>2, <1>5, <1>6 DEF AS!RemapBy
<1> QED BY <1>6, <1>7 DEF AS!Step

(***************************************************************************)
(* A panic ends the promise.                                               *)
(***************************************************************************)
LEMMA PanicStep ==
  ASSUME m.panic = "none", m'.panic # "none"
  PROVE  AS!Step
BY Mapping DEF AS!Step

(***************************************************************************)
(* sys_exit.                                                               *)
(***************************************************************************)
LEMMA ExitStep ==
  ASSUME MemInv, MemInv', NEW t \in Tasks, m.panic = "none", live[t] = "live", ExitOf(m, t)
  PROVE  AS!Step
<1>1. Base(m) /\ Tidy(m) /\ TypeOK
  BY DEF MemInv
<1>2. CASE t = 1
  <2>1. "init" \in Reasons \ {"none"}
    BY DEF Reasons
  <2>2. m' = Panic(m, "init") /\ UNCHANGED <<live, pc, vmap, brk, own>>
    BY <1>2 DEF ExitOf
  <2> QED BY <2>1, <2>2, PanicInv, PanicStep
<1>3. CASE t # 1
  <2>1. PICK z \in {"dead", "exiting"} :
        /\ m' = free_kpage(free_kpage(free_pte(m, t), own[t].pde), own[t].bits)
        /\ live' = [live EXCEPT ![t] = z]
    BY <1>3 DEF ExitOf
  <2>2. Bare(m', t) /\ Shrinks(m, m', t)
    BY <1>1, <2>1, ExitEffect
  <2>3. \A u \in Tasks \ {t} : View'[u] = View[u] /\ SharedPages'[u] = SharedPages[u]
    BY <2>2, SameMapped DEF Shrinks, Elsewhere
  <2>4. View'[t] = AS!Blank
    <3>1. \A v \in Pages : Seen(m', t, v) = Unmapped
      BY <2>2 DEF Bare, Seen, Present, NoPte
    <3> QED BY <3>1, Mapping DEF AS!Blank
  <2>5. SharedPages'[t] = {}
    <3>1. \A v \in Pages : ~ m'.pte[t][v].shared
      BY <2>2 DEF Bare, NoPte
    <3>2. SharedPages'[t] = {v \in Pages : m'.pte[t][v].shared}
      BY Mapping
    <3> QED BY <3>1, <3>2
  <2>6. View' = [View EXCEPT ![t] = AS!Blank]
    BY <2>3, <2>4, Mapping
  <2>7. SharedPages' = [SharedPages EXCEPT ![t] = {}]
    BY <2>3, <2>5, Mapping
  <2>8. Alive' = Alive \ {t} /\ t \in Alive /\ Up
    BY <1>1, <2>1, Mapping DEF TypeOK
  <2>9. AS!ExitBy(t)
    BY <2>6, <2>7, <2>8 DEF AS!ExitBy
  <2> QED BY <2>8, <2>9 DEF AS!Step
<1> QED BY <1>2, <1>3

(***************************************************************************)
(* fork: the child starts with the memory of its parent.                   *)
(***************************************************************************)
LEMMA ForkStep ==
  ASSUME MemInv, NEW t \in Tasks, Fork(t)
  PROVE  AS!Step
<1>1. /\ Base(m) /\ Tidy(m) /\ OnlyLive /\ TypeOK /\ m.panic = "none" /\ live[t] = "live"
  BY DEF MemInv, Fork, Running
<1>2. CASE m'.panic # "none"
  BY <1>1, <1>2, PanicStep
<1>3. CASE m'.panic = "none"
  <2>1. FreeSlots # {}
    <3>1. "tasks" \in Reasons \ {"none"}
      BY DEF Reasons
    <3>2. FreeSlots = {} => m' = Panic(m, "tasks") /\ UNCHANGED <<live, pc, vmap, brk, own>>
      BY DEF Fork
    <3> QED BY <1>3, <3>1, <3>2, PanicInv
  <2>2. PICK u : u = Min(FreeSlots)
    OBVIOUS
  <2> DEFINE x == alloc_kpage(m, 1)
             y == alloc_kpage(x, 1)
             z == copy_pte(y, t, u)
  <2>3. m' = alloc_kpage(z, 1) /\ live' = [live EXCEPT ![u] = "live"]
    BY <2>1, <2>2 DEF Fork
  <2>4. u \in FreeSlots
    <3>1. FreeSlots \in SUBSET Nat
      BY MemoryAssumption DEF FreeSlots, Tasks
    <3> QED BY <2>1, <2>2, <3>1, MinExists
  <2>5. u \in Tasks /\ live[u] = "free" /\ t # u /\ Bare(m, u)
    BY <1>1, <2>4 DEF FreeSlots, OnlyLive
  <2>6. /\ \A s \in Tasks \ {u} : SameView(m, m', s)
        /\ \A v \in Pages : /\ Seen(m', u, v) = Seen(m, t, v)
                            /\ m'.pte[u][v].shared = m.pte[t][v].shared
    BY <1>1, <1>3, <2>3, <2>5, ForkEffect
  <2> HIDE DEF x, y, z
  <2>7. \A s \in Tasks \ {u} : View'[s] = View[s] /\ SharedPages'[s] = SharedPages[s]
    BY <2>6, SameMapped
  <2>8. View'[u] = View[t]
    BY <2>5, <2>6, Mapping
  <2>9. SharedPages'[u] = SharedPages[t]
    <3>1. /\ SharedPages'[u] = {v \in Pages : m'.pte[u][v].shared}
          /\ SharedPages[t] = {v \in Pages : m.pte[t][v].shared}
      BY <2>5, Mapping
    <3> QED BY <2>6, <3>1
  <2>10. View' = [View EXCEPT ![u] = View[t]]
    BY <2>5, <2>7, <2>8, Mapping
  <2>11. SharedPages' = [SharedPages EXCEPT ![u] = SharedPages[t]]
    BY <2>5, <2>7, <2>9, Mapping
  <2>12. View[u] = AS!Blank
    <3>1. \A v \in Pages : Seen(m, u, v) = Unmapped
      BY <2>5 DEF Bare, Seen, Present, NoPte
    <3> QED BY <2>5, <3>1, Mapping DEF AS!Blank
  <2>13. Alive' = Alive \cup {u} /\ u \notin Alive /\ t \in Alive /\ Up
    BY <1>1, <2>3, <2>5, Mapping DEF TypeOK
  <2>14. AS!ForkOf(t, u)
    BY <2>10, <2>11, <2>12, <2>13 DEF AS!ForkOf
  <2> QED BY <2>5, <2>13, <2>14 DEF AS!Step
<1> QED BY <1>2, <1>3

(***************************************************************************)
(* A store where the entry allows it: another process sees it only through *)
(* a shared page, at the same place.                                       *)
(***************************************************************************)
LEMMA StoreStep ==
  ASSUME Base(m), Cow(m), m.panic = "none", NEW t \in Tasks, live[t] = "live", live' = live,
         NEW v \in Pages, Present(m, t, v), m.pte[t][v].write, NEW new,
         m'.data = [m.data EXCEPT ![m.pte[t][v].frame] = new],
         \A u \in Tasks, w \in Pages : /\ m'.pte[u][w].frame = m.pte[u][w].frame
                                       /\ m'.pte[u][w].shared = m.pte[u][w].shared
  PROVE  AS!Step
<1> DEFINE f == m.pte[t][v].frame
<1>1. m \in Mem /\ Counted(m)
  BY DEF Base
<1>2. /\ f \in Frames /\ m.data \in [Frames -> Values] /\ Seen(m, t, v) # Unmapped
      /\ \A u \in Tasks, w \in Pages : Present(m, u, w) => m.pte[u][w].frame \in Frames
  BY <1>1, MemType
<1>3. ASSUME NEW u \in Tasks, NEW w \in Pages, Seen(m', u, w) # Seen(m, u, w)
      PROVE  w = v /\ (u = t \/ (m.pte[t][v].shared /\ m.pte[u][v].shared))
  <2>1. Present(m', u, w) <=> Present(m, u, w)
    BY DEF Present
  <2>2. Present(m, u, w) /\ m.pte[u][w].frame = f
    BY <1>2, <1>3, <2>1 DEF Seen
  <2>3. w = v /\ m.pte[u][w].shared = m.pte[t][v].shared
    BY <2>2 DEF Cow, SamePlace
  <2>4. CASE m.pte[t][v].shared
    BY <2>3, <2>4
  <2>5. CASE ~ m.pte[t][v].shared
    <3>1. m.map[f] = 1
      BY <2>5 DEF Cow, Private
    <3>2. t = u
      BY <1>1, <1>2, <2>2, <3>1, OneUser
    <3> QED BY <2>3, <3>2
  <2> QED BY <2>4, <2>5
<1> HIDE DEF f
<1>4. \A u \in Tasks, w \in Pages : View[u][w] = Seen(m, u, w) /\ View'[u][w] = Seen(m', u, w)
  BY Mapping
<1>5. \A u \in Tasks, w \in Pages : w \in SharedPages[u] <=> m.pte[u][w].shared
  BY Mapping
<1>6. View[t][v] # Unmapped
  BY <1>2, <1>4
<1>7. \A u \in Tasks, w \in Pages : View'[u][w] # View[u][w] =>
        w = v /\ (u = t \/ v \in SharedPages[t] \cap SharedPages[u])
  BY <1>3, <1>4, <1>5
<1>8. SharedPages' = SharedPages
  BY Mapping
<1>9. Alive' = Alive /\ t \in Alive /\ Up
  BY Mapping
<1>10. AS!StoreBy(t)
  BY <1>6, <1>7, <1>8, <1>9 DEF AS!StoreBy
<1> QED BY <1>9, <1>10 DEF AS!Step

(***************************************************************************)
(* A store of the kernel to a page without the right to write.             *)
(***************************************************************************)
KernelStore ==
  /\ "kernel" \in Modes
  /\ \E t \in Tasks, v \in Pages, new \in Values :
       ~ m.pte[t][v].write /\ Store(t, v, new, "kernel")

(***************************************************************************)
(* Every other step of the memory is one that AddressSpaces allows.        *)
(***************************************************************************)
LEMMA IsolatedStep ==
  ASSUME FixedMmap = FALSE, MemInv, MemInv', CowInv, [Next]_vars
  PROVE  [AS!Step \/ KernelStore]_<<View, SharedPages, Alive, Up>>
<1>0. Base(m) /\ m \in Mem /\ TypeOK /\ Base(m') /\ m' \in Mem
  BY DEF MemInv, Base
<1>p. ASSUME m.panic = "none"
      PROVE  Tidy(m) /\ Cow(m) /\ \A t \in Tasks : LoadingAt(t)
  BY <1>p DEF MemInv, CowInv
<1>t. live \in [Tasks -> {"free", "live", "dead", "exiting"}]
  BY <1>0 DEF TypeOK
<1>1. ASSUME NEW t \in Tasks, Exit(t) PROVE AS!Step
  BY <1>1, ExitStep DEF Exit, Running
<1>r. ASSUME NEW t \in Tasks, ExitResumes(t) PROVE AS!Step
  BY <1>r, ResumeInv, PanicStep
<1>2. ASSUME NEW t \in Tasks, Fork(t) PROVE AS!Step
  BY <1>2, ForkStep
<1>3. ASSUME NEW t \in Tasks, Execve(t) PROVE AS!Step
  <2>1. /\ m' = [free_pte(m, t) EXCEPT !.panic = alloc_kpage(alloc_kpage(m, 4), 1).panic]
        /\ m.panic = "none" /\ live[t] = "live" /\ live' = live
    BY <1>3 DEF Execve, Running
  <2>2. Shrinks(m, m', t)
    BY <1>0, <2>1, ExecveEffect
  <2> QED BY <2>1, <2>2, RemapStep
<1>4. ASSUME NEW t \in Tasks, BadHeader(t)
      PROVE  AS!Step \/ UNCHANGED <<View, SharedPages, Alive, Up>>
  <2>1. "init" \in Reasons \ {"none"} /\ m.panic = "none"
    BY <1>4 DEF Reasons, BadHeader, InExec
  <2>2. CASE t = 1
    <3>1. m'.panic # "none"
      BY <1>4, <2>1, <2>2, PanicInv DEF BadHeader
    <3> QED BY <2>1, <3>1, PanicStep
  <2>3. CASE t # 1
    <3>1. m' = m /\ live' = live
      BY <1>4, <2>3 DEF BadHeader
    <3>2. Alive' = Alive /\ Up' = Up /\ \A u \in Tasks : SameView(m, m', u)
      BY <3>1 DEF Alive, Up, SameView
    <3> QED BY <3>2, UnseenStep
  <2> QED BY <2>2, <2>3
<1>5. ASSUME NEW t \in Tasks, NEW u \in Tasks, Wait(t, u)
      PROVE  UNCHANGED <<View, SharedPages, Alive, Up>>
  <2>1. /\ m' = free_kpage(m, own[u].pcb) /\ live[u] = "dead"
        /\ live' = [live EXCEPT ![u] = "free"]
    BY <1>5 DEF Wait
  <2>2. SameTables(m, m') /\ m'.data = m.data /\ m'.panic = m.panic
    BY <1>0, <2>1, FreeKpage
  <2>3. \A s \in Tasks : SameView(m, m', s)
    BY <2>2, SameKeeps
  <2>4. Alive' = Alive /\ Up' = Up
    BY <1>t, <2>1, <2>2 DEF Alive, Up
  <2> QED BY <2>3, <2>4, UnseenStep
<1>6. ASSUME NEW t \in Tasks, NEW v \in Pages, WriteFault(t, v)
      PROVE  AS!Step \/ UNCHANGED <<View, SharedPages, Alive, Up>>
  <2>1. m.panic = "none" /\ live[t] = "live" /\ Present(m, t, v)
    BY <1>6 DEF WriteFault, Running, Present
  <2>2. CASE m'.panic # "none"
    BY <2>1, <2>2, PanicStep
  <2>3. CASE m'.panic = "none"
    <3>1. ~ m.pte[t][v].shared
      <4>1. "shared" \in Reasons \ {"none"}
        BY DEF Reasons
      <4>2. m.pte[t][v].shared =>
              m' = Panic(m, "shared") /\ UNCHANGED <<live, pc, vmap, brk, own>>
        BY <1>6 DEF WriteFault
      <4> QED BY <2>3, <4>1, <4>2, PanicInv
    <3>2. CASE m.pte[t][v].readonly
      <4>1. ExitOf(m, t)
        BY <1>6, <3>1, <3>2 DEF WriteFault
      <4> QED BY <2>1, <4>1, ExitStep
    <3>3. CASE ~ m.pte[t][v].readonly
      <4>1. m' = CowBreak(m, t, v) /\ live' = live
        BY <1>6, <3>1, <3>3 DEF WriteFault
      <4>2. Elsewhere(m, m', t) /\ SameView(m, m', t)
        BY <1>0, <2>1, <3>1, <4>1, CowBreakEffect
      <4>3. \A s \in Tasks : SameView(m, m', s)
        BY <4>2 DEF Elsewhere
      <4>4. Alive' = Alive /\ Up' = Up
        BY <2>1, <2>3, <4>1 DEF Alive, Up
      <4> QED BY <4>3, <4>4, UnseenStep
    <3> QED BY <3>2, <3>3
  <2> QED BY <2>2, <2>3
<1>7. ASSUME NEW t \in Tasks, NEW v \in Pages, NEW new \in Values, NEW mode \in Modes,
             Store(t, v, new, mode)
      PROVE  AS!Step \/ KernelStore
  <2> SUFFICES ASSUME ~ KernelStore PROVE AS!Step
    OBVIOUS
  <2>1. /\ m' = [m EXCEPT !.data[m.pte[t][v].frame] = new] /\ m.panic = "none"
        /\ live[t] = "live" /\ live' = live /\ Present(m, t, v)
        /\ (m.pte[t][v].write \/ mode = "kernel")
    BY <1>7 DEF Store, Running
  <2>2. m.pte[t][v].write
    BY <1>7, <2>1 DEF KernelStore
  <2>3. /\ m'.data = [m.data EXCEPT ![m.pte[t][v].frame] = new] /\ m'.pte = m.pte
    BY <1>0, <2>1 DEF Mem
  <2>4. Cow(m)
    BY <1>p, <2>1
  <2>5. \A u \in Tasks, w \in Pages : /\ m'.pte[u][w].frame = m.pte[u][w].frame
                                      /\ m'.pte[u][w].shared = m.pte[u][w].shared
    BY <2>3
  <2>6. m.panic = "none" /\ live[t] = "live" /\ live' = live /\ Present(m, t, v)
    BY <2>1
  <2>7. m'.data = [m.data EXCEPT ![m.pte[t][v].frame] = new] /\ Base(m)
    BY <1>0, <2>3
  <2> QED BY <2>2, <2>4, <2>5, <2>6, <2>7, StoreStep
<1>8. ASSUME NEW t \in Tasks, NEW v \in Pages, NEW new \in Fresh, m.panic = "none",
             live[t] = "live", m' = link_user_page(m, t, v, new), live' = live
      PROVE  AS!Step
  <2>1. new \in Values
    BY MemoryAssumption
  <2>2. Grows(m, m', t)
    BY <1>0, <1>8, <2>1, LinkKeeps
  <2> QED BY <1>8, <2>2, RemapStep
<1>9. ASSUME NEW t \in Tasks, NEW v \in Pages, NEW new \in Fresh, MissingFault(t, v, new)
      PROVE  AS!Step
  <2>1. m.panic = "none" /\ live[t] = "live"
    BY <1>9 DEF MissingFault, Running
  <2>2. CASE v = Stack
    BY <1>8, <1>9, <2>1, <2>2 DEF MissingFault
  <2>3. CASE v # Stack
    BY <1>9, <2>1, <2>3, ExitStep DEF MissingFault
  <2> QED BY <2>2, <2>3
<1>10. ASSUME NEW t \in Tasks, NEW b \in 0 .. BrkLimit, Brk(t, b) PROVE AS!Step
  <2>1. /\ m' = IF brk[t] > b THEN unlink_user_page(m, t, Heap) ELSE m
        /\ m.panic = "none" /\ live[t] = "live" /\ live' = live
    BY <1>10 DEF Brk, Running
  <2>2. Shrinks(m, m', t)
    <3>1. CASE brk[t] > b
      <4>1. m' = DropPages(get_pte(m, t, Heap), t, {Heap})
        BY <2>1, <3>1 DEF unlink_user_page
      <4>2. Heap \in Pages /\ {Heap} \in SUBSET Pages
        BY Layout
      <4> QED BY <1>0, <4>1, <4>2, UnlinkKeeps
    <3>2. CASE ~ (brk[t] > b)
      <4>1. m' = m
        BY <2>1, <3>2
      <4> QED BY <4>1 DEF Shrinks, Elsewhere, SameView
    <3> QED BY <3>1, <3>2
  <2> QED BY <2>1, <2>2, RemapStep
<1>11. ASSUME NEW t \in Tasks, NEW n \in 1 .. NMmap, NEW kind \in MmapKinds, NEW new \in Fresh,
              Mmap(t, n, kind, new)
       PROVE  AS!Step
  <2>1. n \in Nat /\ new \in Values /\ m.panic = "none" /\ live[t] = "live"
    BY <1>11, MemoryAssumption DEF Mmap, Running
  <2>2. PICK a \in MmapAt(t, n) :
          IF a = None
          THEN m' = Panic(m, "vmap") /\ UNCHANGED <<live, pc, vmap, brk, own>>
          ELSE m' = MmapLoop(t, a, n, kind, new) /\ UNCHANGED <<live, pc, brk, own>>
    BY <1>11 DEF Mmap
  <2>3. CASE a = None
    <3>1. "vmap" \in Reasons \ {"none"}
      BY DEF Reasons
    <3> QED BY <2>1, <2>2, <2>3, <3>1, PanicInv, PanicStep
  <2>4. CASE a # None
    <3>1. a \in Nat /\ a .. a + n - 1 \subseteq Pages
      BY <2>4, MmapPlace, Layout
    <3>2. Grows(m, MmapLoop(t, a, n, kind, new), t)
      BY <1>0, <2>1, <3>1, MmapLoopKeeps
    <3> QED BY <2>1, <2>2, <2>4, <3>2, RemapStep
  <2> QED BY <2>3, <2>4
<1>12. ASSUME NEW t \in Tasks, NEW n \in 1 .. NMmap, NEW a \in MmapPages,
              a + n - 1 \in MmapPages, Munmap(t, a, n)
       PROVE  AS!Step
  <2> DEFINE V == a .. a + n - 1
             x == DropPages(get_pte(m, t, a), t, V)
  <2>1. /\ m' = IF V \subseteq vmap[t] THEN x ELSE Panic(x, "munmap")
        /\ m.panic = "none" /\ live[t] = "live" /\ live' = live
    BY <1>12 DEF Munmap, Running
  <2>2. a \in Pages /\ V \in SUBSET Pages
    BY <1>12, MemoryAssumption DEF MmapPages, Pages
  <2> HIDE DEF V
  <2>3. Base(x) /\ Shrinks(m, x, t)
    BY <1>0, <2>2, UnlinkKeeps
  <2> HIDE DEF x
  <2>4. Panic(x, "munmap").panic # "none"
    <3>1. x \in Mem /\ "munmap" \in Reasons /\ "munmap" # "none"
      BY <2>3 DEF Base, Reasons
    <3> QED BY <3>1, PanicKeeps, Zenon
  <2> QED BY <2>1, <2>3, <2>4, PanicStep, RemapStep
<1>13. ASSUME NEW t \in Tasks, NEW new \in Fresh,
              CopyArgs(t, new) \/ ReadHeader(t, new) \/ LoadData(t, new)
       PROVE  AS!Step
  <2>1. Text \in Pages /\ Stack \in Pages /\ Data \in Pages
    BY Layout
  <2>2. /\ live' = live /\ m.panic = "none" /\ live[t] = "live"
        /\ \E v \in Pages : m' = link_user_page(m, t, v, new)
    BY <1>13, <2>1 DEF CopyArgs, ReadHeader, LoadData, InExec
  <2> QED BY <1>8, <2>2
<1>14. ASSUME NEW t \in Tasks, NEW new \in Fresh, LoadText(t, new) PROVE AS!Step
  <2>1. /\ m.panic = "none" /\ pc[t] = "text" /\ live[t] = "live" /\ live' = live
        /\ m' = WithText(m, t, new)
    BY <1>14 DEF LoadText, InExec, WithText
  <2>2. Present(m, t, Text) /\ m.pte[t][Text].write /\ Cow(m) /\ Text \in Pages
    BY <1>p, <2>1, Layout DEF LoadingAt
  <2>3. /\ Filled(m, m', t, new)
        /\ \A u \in Tasks \ {t} : m'.pte[u] = m.pte[u]
        /\ \A w \in Pages \ {Text} : m'.pte[t][w] = m.pte[t][w]
    <3>1. new \in Values
      BY MemoryAssumption
    <3>2. LET y == WithText(m, t, new) IN
          /\ \A u \in Tasks \ {t} : y.pte[u] = m.pte[u] /\ y.pde[u] = m.pde[u]
          /\ \A w \in Pages \ {Text} : y.pte[t][w] = m.pte[t][w]
          /\ Present(m, t, Text) => Filled(m, y, t, new)
      BY <1>0, <3>1, LoadTextEffect, Zenon
    <3> QED BY <2>1, <2>2, <3>2
  <2>4. \A u \in Tasks, w \in Pages : /\ m'.pte[u][w].frame = m.pte[u][w].frame
                                      /\ m'.pte[u][w].shared = m.pte[u][w].shared
    <3> SUFFICES ASSUME NEW u \in Tasks, NEW w \in Pages
                 PROVE  /\ m'.pte[u][w].frame = m.pte[u][w].frame
                        /\ m'.pte[u][w].shared = m.pte[u][w].shared
      OBVIOUS
    <3>1. CASE u # t
      BY <2>3, <3>1
    <3>2. CASE u = t /\ w # Text
      BY <2>3, <3>2
    <3>3. CASE u = t /\ w = Text
      BY <2>3, <3>3 DEF Filled
    <3> QED BY <3>1, <3>2, <3>3
  <2>5. m'.data = [m.data EXCEPT ![m.pte[t][Text].frame] = new] /\ Base(m)
    BY <1>0, <2>3 DEF Filled
  <2>6. m.panic = "none" /\ live[t] = "live" /\ live' = live
    BY <2>1
  <2> QED BY <2>2, <2>4, <2>5, <2>6, StoreStep
<1>15. CASE UNCHANGED vars
  BY <1>15 DEF vars, View, SharedPages, Alive, Up, Present
<1>16. CASE Next
  BY <1>1, <1>r, <1>2, <1>3, <1>4, <1>5, <1>6, <1>7, <1>9, <1>10, <1>11, <1>12, <1>13, <1>14, <1>16
     DEF Next
<1> QED BY <1>15, <1>16

(***************************************************************************)
(* The memory implements AddressSpaces but for the stores of the kernel    *)
(* through copy on write, and these are the only exception: a store of a   *)
(* program changes what another process reads only through a page both     *)
(* have mapped with MAP_SHARED, so does one of the kernel to a page that   *)
(* may be written, fork copies, exit leaves nothing, and mapping disturbs  *)
(* nobody else; while programs leave the place of an mmap to the kernel.   *)
(* Without stores of the kernel this is Isolated.                          *)
(***************************************************************************)
THEOREM MemoryIsolatedButKernel ==
  ASSUME FixedMmap = FALSE
  PROVE  Spec => AS!Start /\ [][AS!Step \/ KernelStore]_<<View, SharedPages, Alive, Up>>
<1>1. Init => AS!Start
  <2> SUFFICES ASSUME Init PROVE AS!Start
    OBVIOUS
  <2>1. /\ m.pte = [t \in Tasks |-> [v \in Pages |-> NoPte]] /\ m.panic = "none"
        /\ \A t \in Tasks : live[t] = IF t = 1 THEN "live" ELSE "free"
    BY DEF Init
  <2>2. \A t \in Tasks, v \in Pages : Seen(m, t, v) = Unmapped /\ ~ m.pte[t][v].shared
    BY <2>1 DEF Seen, Present, NoPte
  <2>3. View = [t \in Tasks |-> AS!Blank]
    BY <2>2, Mapping DEF AS!Blank
  <2>4. SharedPages = [t \in Tasks |-> {}]
    BY <2>2, Mapping
  <2>5. 1 \in Tasks /\ Alive = {1}
    BY <2>1, Mapping, MemoryAssumption DEF Tasks
  <2>6. Up = TRUE
    BY <2>1 DEF Up
  <2> QED BY <2>3, <2>4, <2>5, <2>6 DEF AS!Start
<1>2. MemInv /\ MemInv' /\ CowInv /\ [Next]_vars
        => [AS!Step \/ KernelStore]_<<View, SharedPages, Alive, Up>>
  BY IsolatedStep
<1>3. Init => CowInv
  BY CowInvInit
<1>4. MemInv /\ MemInv' /\ CowInv /\ [Next]_vars => CowInv'
  BY CowInvStep
<1> QED BY <1>1, <1>2, <1>3, <1>4, AlwaysMemInv, PTL DEF Spec
=============================================================================
