----------------------------- MODULE MutexProofs -----------------------------
(***************************************************************************)
(* Proofs about the mutex for every number of tasks: type correctness,     *)
(* mutual exclusion and the shape of the waiting list, with interrupts on  *)
(* or off; and, with interrupts off as all callers have them, that no      *)
(* queued task is forgotten.                                               *)
(***************************************************************************)
EXTENDS Mutex, SchedProofs

States == {"RUNNING", "READY", "BLOCKED"}

(***************************************************************************)
(* What rescheduling preserves: types, and who is asleep.                  *)
(***************************************************************************)
LEMMA RescheduleKeeps ==
  ASSUME NEW st \in [Pid -> States], current \in Pid, Reschedule(st)
  PROVE  /\ state' \in [Pid -> States]
         /\ current' \in Pid
         /\ \A n \in Tasks : state'[n] = "BLOCKED" <=> st[n] = "BLOCKED"
         /\ st[Idle] # "BLOCKED" =>
              state'[Idle] # "BLOCKED" /\ state'[current'] # "BLOCKED"
<1>1. {"READY", "RUNNING"} \subseteq States
      /\ "BLOCKED" \in States \ {"READY", "RUNNING"}
  BY DEF States
<1>2. /\ state' = AfterSchedule(st, current)
      /\ current' = Schedule(st, current)
  BY DEF Reschedule
<1>3. /\ AfterSchedule(st, current) \in [Pid -> States]
      /\ \A n \in Pid \ {Idle} :
           AfterSchedule(st, current)[n] = "BLOCKED" <=> st[n] = "BLOCKED"
  BY <1>1, ScheduleKeeps
<1>4. current' \in Pid
  BY <1>2, ScheduleReady
<1>5. st[Idle] # "BLOCKED" =>
        /\ AfterSchedule(st, current)[Idle] # "BLOCKED"
        /\ AfterSchedule(st, current)[Schedule(st, current)] # "BLOCKED"
  BY <1>1, ScheduleRuns
<1> QED BY <1>2, <1>3, <1>4, <1>5 DEF Tasks

-----------------------------------------------------------------------------

(***************************************************************************)
(* Type correctness is not inductive alone: that the decrement keeps value *)
(* in {0, 1} rests on mutual exclusion.                                    *)
(***************************************************************************)
ExclusionInv == TypeOK /\ MutualExclusion

(***************************************************************************)
(* mutex_init leaves the mutex free and no task inside.                    *)
(***************************************************************************)
LEMMA ExclusionInit == Init => ExclusionInv
<1> SUFFICES ASSUME Init PROVE ExclusionInv
  OBVIOUS
<1>1. Idle \in Pid
  BY TaskNrAssumption DEF Idle, Pid
<1>2. TypeOK
  BY <1>1 DEF Init, TypeOK, PC
<1>3. MutualExclusion
  BY DEF Init, MutualExclusion, Holding, Tasks
<1> QED BY <1>2, <1>3 DEF ExclusionInv

(***************************************************************************)
(* Every step of the mutex keeps the types and the exclusion: only the     *)
(* cmpxchg that finds 0 lets a task in, and only the holder's decrement    *)
(* lets it out.                                                            *)
(***************************************************************************)
LEMMA ExclusionStep == ExclusionInv /\ [Next]_vars => ExclusionInv'
<1> SUFFICES ASSUME ExclusionInv, [Next]_vars
             PROVE  ExclusionInv'
  OBVIOUS
<1> USE DEF ExclusionInv
<1>1. ASSUME NEW t \in Tasks, current = t, Enter(t)
      PROVE  ExclusionInv'
  BY <1>1 DEF Enter, Goto, TypeOK, PC, MutualExclusion, Holding, Tasks
<1>2. ASSUME NEW t \in Tasks, current = t, CmpXchg(t)
      PROVE  ExclusionInv'
  <2>1. CASE value = 0
    BY <1>2, <2>1 DEF CmpXchg, Goto, TypeOK, PC, MutualExclusion, Holding, Tasks
  <2>2. CASE value # 0
    BY <1>2, <2>2 DEF CmpXchg, Goto, TypeOK, PC, MutualExclusion, Holding, Tasks
  <2> QED BY <2>1, <2>2
<1>3. ASSUME NEW t \in Tasks, current = t, Block(t)
      PROVE  ExclusionInv'
  <2>1. [state EXCEPT ![t] = "BLOCKED"] \in [Pid -> States]
    BY DEF TypeOK, States
  <2>2. state' \in [Pid -> States] /\ current' \in Pid
    BY <1>3, <2>1, RescheduleKeeps DEF Block, TypeOK
  <2>3. waiters' \in Seq(Tasks)
    BY <1>3 DEF Block, TypeOK
  <2>4. TypeOK'
    BY <1>3, <2>2, <2>3 DEF Block, Goto, TypeOK, PC, States
  <2>5. MutualExclusion'
    BY <1>3 DEF Block, Goto, TypeOK, MutualExclusion, Holding, Tasks
  <2> QED BY <2>4, <2>5
<1>4. ASSUME NEW t \in Tasks, current = t, WaitDevice(t)
      PROVE  ExclusionInv'
  <2>1. [state EXCEPT ![t] = "BLOCKED"] \in [Pid -> States]
    BY DEF TypeOK, States
  <2>2. state' \in [Pid -> States] /\ current' \in Pid
    BY <1>4, <2>1, RescheduleKeeps DEF WaitDevice, TypeOK
  <2>3. TypeOK'
    BY <1>4, <2>2 DEF WaitDevice, Goto, TypeOK, PC, States
  <2>4. MutualExclusion'
    BY <1>4 DEF WaitDevice, Goto, TypeOK, MutualExclusion, Holding, Tasks
  <2> QED BY <2>3, <2>4
<1>5. ASSUME NEW t \in Tasks, current = t, Dec(t)
      PROVE  ExclusionInv'
  <2>1. value = 1
    BY <1>5 DEF Dec, TypeOK, MutualExclusion, Holding
  <2> QED
    BY <1>5, <2>1 DEF Dec, Goto, TypeOK, PC, MutualExclusion, Holding, Tasks
<1>6. ASSUME NEW t \in Tasks, current = t, Unblock(t)
      PROVE  ExclusionInv'
  <2>1. state' \in [Pid -> States] /\ current' \in Pid /\ waiters' \in Seq(Tasks)
    <3>1. CASE waiters = << >>
      BY <1>6, <3>1 DEF Unblock, TypeOK, States
    <3>2. CASE waiters # << >>
      <4>1. Head(waiters) \in Tasks /\ Tail(waiters) \in Seq(Tasks)
        BY <3>2 DEF TypeOK
      <4>2. [state EXCEPT ![Head(waiters)] = "READY"] \in [Pid -> States]
        BY <4>1 DEF TypeOK, States
      <4> QED BY <1>6, <3>2, <4>1, <4>2, RescheduleKeeps DEF Unblock, TypeOK
    <3> QED BY <3>1, <3>2
  <2>2. TypeOK'
    BY <1>6, <2>1 DEF Unblock, Goto, TypeOK, PC, States
  <2>3. MutualExclusion'
    BY <1>6 DEF Unblock, Goto, TypeOK, MutualExclusion, Holding, Tasks
  <2> QED BY <2>2, <2>3
<1>7. ASSUME NEW t \in Tasks, DeviceInterrupt(t)
      PROVE  ExclusionInv'
  BY <1>7 DEF DeviceInterrupt, TypeOK, MutualExclusion, Holding, Tasks
<1>8. ASSUME Clock
      PROVE  ExclusionInv'
  <2>1. state' \in [Pid -> States] /\ current' \in Pid
    BY <1>8, RescheduleKeeps DEF Clock, TypeOK, States
  <2> QED
    BY <1>8, <2>1 DEF Clock, TypeOK, MutualExclusion, Holding, States
<1>9. CASE UNCHANGED vars
  BY <1>9 DEF vars, TypeOK, MutualExclusion, Holding
<1> QED
  BY <1>1, <1>2, <1>3, <1>4, <1>5, <1>6, <1>7, <1>8, <1>9 DEF Next, Step

(***************************************************************************)
(* The mutex excludes: in every behaviour, with interrupts on or off, the  *)
(* types are right and no two tasks are between mutex_lock and             *)
(* mutex_unlock.                                                           *)
(***************************************************************************)
THEOREM MutexExcludes == Spec => [](TypeOK /\ MutualExclusion)
<1>1. Init => ExclusionInv
  BY ExclusionInit
<1>2. ExclusionInv /\ [Next]_vars => ExclusionInv'
  BY ExclusionStep
<1> QED BY <1>1, <1>2, PTL DEF Spec, ExclusionInv

-----------------------------------------------------------------------------

(***************************************************************************)
(* For the waiting list one more fact is needed: the task that runs, and   *)
(* the idle task, are awake.                                               *)
(***************************************************************************)
CurrentAwake == state[current] # "BLOCKED" /\ state[Idle] # "BLOCKED"

QueueInv == ExclusionInv /\ CurrentAwake /\ WaitersAreAsleep

(***************************************************************************)
(* Every step keeps the waiting list equal to the set of tasks asleep in   *)
(* mutex_lock.                                                             *)
(***************************************************************************)
LEMMA QueueStep == QueueInv /\ [Next]_vars => QueueInv'
<1> SUFFICES ASSUME QueueInv, [Next]_vars
             PROVE  CurrentAwake' /\ WaitersAreAsleep'
  BY ExclusionStep DEF QueueInv
<1>0. /\ TypeOK /\ CurrentAwake
      /\ \A t \in Tasks : Queued(waiters, t)
                            <=> (pc[t] = "lock" /\ state[t] = "BLOCKED")
      /\ \A i, j \in DOMAIN waiters : waiters[i] = waiters[j] => i = j
      /\ waiters \in Seq(Tasks)
      /\ Idle \in Pid /\ Idle \notin Tasks /\ Tasks \subseteq Pid
  BY TaskNrAssumption
     DEF QueueInv, ExclusionInv, WaitersAreAsleep, Queued, TypeOK, Tasks, Pid, Idle
<1> SUFFICES
      /\ CurrentAwake'
      /\ \A t \in Tasks : Queued(waiters', t)
                            <=> (pc'[t] = "lock" /\ state'[t] = "BLOCKED")
      /\ \A i, j \in DOMAIN waiters' : waiters'[i] = waiters'[j] => i = j
  BY DEF WaitersAreAsleep, Queued
<1> DEFINE Goal ==
      /\ CurrentAwake'
      /\ \A t \in Tasks : Queued(waiters', t)
                            <=> (pc'[t] = "lock" /\ state'[t] = "BLOCKED")
      /\ \A i, j \in DOMAIN waiters' : waiters'[i] = waiters'[j] => i = j
<1>1. ASSUME NEW t \in Tasks, current = t, Enter(t) \/ CmpXchg(t) \/ Dec(t)
      PROVE  Goal
  <2>1. UNCHANGED <<waiters, state, current>>
    BY <1>1 DEF Enter, CmpXchg, Dec
  <2>2. \A s \in Tasks \ {t} : pc'[s] = pc[s]
    BY <1>0, <1>1 DEF Enter, CmpXchg, Dec, Goto, TypeOK
  <2>3. state[t] # "BLOCKED"
    BY <1>0, <1>1 DEF CurrentAwake
  <2> QED BY <1>0, <2>1, <2>2, <2>3 DEF CurrentAwake
<1>2. ASSUME NEW t \in Tasks, current = t, Block(t)
      PROVE  Goal
  <2> DEFINE st == [state EXCEPT ![t] = "BLOCKED"]
  <2>1. st \in [Pid -> States] /\ st[t] = "BLOCKED" /\ st[Idle] = state[Idle]
        /\ \A n \in Tasks \ {t} : st[n] = state[n]
    BY <1>0 DEF TypeOK, States
  <2>2. /\ \A n \in Tasks : state'[n] = "BLOCKED" <=> st[n] = "BLOCKED"
        /\ CurrentAwake'
    BY <1>0, <1>2, <2>1, RescheduleKeeps DEF Block, TypeOK, CurrentAwake
  <2>3. pc'[t] = "lock" /\ \A n \in Tasks \ {t} : pc'[n] = pc[n]
    BY <1>0, <1>2 DEF Block, Goto, TypeOK
  <2>4. ~ Queued(waiters, t)
    BY <1>0, <1>2 DEF Block
  <2>5. waiters' = Append(waiters, t)
    BY <1>2 DEF Block
  <2>6. /\ \A s : Queued(waiters', s) <=> Queued(waiters, s) \/ s = t
        /\ \A i, j \in DOMAIN waiters' : waiters'[i] = waiters'[j] => i = j
    BY <1>0, <2>4, <2>5, AppendQueued
  <2> QED BY <1>0, <2>1, <2>2, <2>3, <2>6
<1>3. ASSUME NEW t \in Tasks, current = t, WaitDevice(t)
      PROVE  Goal
  <2> DEFINE st == [state EXCEPT ![t] = "BLOCKED"]
  <2>1. st \in [Pid -> States] /\ st[Idle] = state[Idle]
        /\ \A n \in Tasks \ {t} : st[n] = state[n]
    BY <1>0 DEF TypeOK, States
  <2>2. /\ \A n \in Tasks : state'[n] = "BLOCKED" <=> st[n] = "BLOCKED"
        /\ CurrentAwake'
    BY <1>0, <1>3, <2>1, RescheduleKeeps DEF WaitDevice, TypeOK, CurrentAwake
  <2>3. pc[t] = "cs" /\ pc'[t] = "io" /\ \A n \in Tasks \ {t} : pc'[n] = pc[n]
    BY <1>0, <1>3 DEF WaitDevice, Goto, TypeOK
  <2>4. waiters' = waiters
    BY <1>3 DEF WaitDevice
  <2> QED BY <1>0, <2>1, <2>2, <2>3, <2>4
<1>4. ASSUME NEW t \in Tasks, current = t, Unblock(t)
      PROVE  Goal
  <2>1. pc[t] = "unblock" /\ pc'[t] = "user"
        /\ \A n \in Tasks \ {t} : pc'[n] = pc[n]
    BY <1>0, <1>4 DEF Unblock, Goto, TypeOK
  <2>2. CASE waiters = << >>
    BY <1>0, <1>4, <2>1, <2>2 DEF Unblock, CurrentAwake
  <2>3. CASE waiters # << >>
    <3> DEFINE h == Head(waiters)
               st == [state EXCEPT ![h] = "READY"]
    <3>1. h \in Tasks /\ waiters' = Tail(waiters)
      BY <1>0, <1>4, <2>3 DEF Unblock
    <3>2. st \in [Pid -> States] /\ st[h] = "READY" /\ st[Idle] = state[Idle]
          /\ \A n \in Tasks \ {h} : st[n] = state[n]
      BY <1>0, <3>1 DEF TypeOK, States
    <3>3. /\ \A n \in Tasks : state'[n] = "BLOCKED" <=> st[n] = "BLOCKED"
          /\ CurrentAwake'
      BY <1>0, <1>4, <2>3, <3>2, RescheduleKeeps
         DEF Unblock, TypeOK, CurrentAwake
    <3>4. /\ \A s : Queued(waiters', s) <=> Queued(waiters, s) /\ s # h
          /\ \A i, j \in DOMAIN waiters' : waiters'[i] = waiters'[j] => i = j
      BY <1>0, <2>3, <3>1, TailQueued
    <3> QED BY <1>0, <2>1, <3>1, <3>2, <3>3, <3>4
  <2> QED BY <2>2, <2>3
<1>5. ASSUME NEW t \in Tasks, DeviceInterrupt(t)
      PROVE  Goal
  <2>1. /\ pc[t] = "io" /\ state'[t] = "READY"
        /\ \A n \in Pid \ {t} : state'[n] = state[n]
        /\ UNCHANGED <<waiters, pc, current>>
    BY <1>0, <1>5 DEF DeviceInterrupt, TypeOK
  <2>2. current \in Pid
    BY <1>0 DEF TypeOK
  <2> QED BY <1>0, <2>1, <2>2 DEF CurrentAwake
<1>6. ASSUME Clock
      PROVE  Goal
  <2>1. /\ \A n \in Tasks : state'[n] = "BLOCKED" <=> state[n] = "BLOCKED"
        /\ CurrentAwake'
    BY <1>0, <1>6, RescheduleKeeps DEF Clock, TypeOK, CurrentAwake, States
  <2> QED BY <1>0, <1>6, <2>1 DEF Clock
<1>7. CASE UNCHANGED vars
  BY <1>0, <1>7 DEF vars, CurrentAwake
<1> QED
  BY <1>1, <1>2, <1>3, <1>4, <1>5, <1>6, <1>7 DEF Next, Step

(***************************************************************************)
(* mutex_init and task_setup leave an empty list and nobody asleep.        *)
(***************************************************************************)
LEMMA QueueInit == Init => QueueInv
<1> SUFFICES ASSUME Init PROVE CurrentAwake /\ WaitersAreAsleep
  BY ExclusionInit DEF QueueInv
<1>1. Idle \in Pid
  BY TaskNrAssumption DEF Idle, Pid
<1>2. waiters = << >> /\ DOMAIN waiters = {}
  BY DEF Init
<1> QED BY <1>1, <1>2 DEF Init, CurrentAwake, WaitersAreAsleep, Tasks

(***************************************************************************)
(* The waiting list is always the list of the tasks that sleep in          *)
(* mutex_lock, each once, with interrupts on or off.                       *)
(***************************************************************************)
THEOREM WaitersAreExact == Spec => []WaitersAreAsleep
<1>1. QueueInv => WaitersAreAsleep
  BY DEF QueueInv
<1> QED BY <1>1, QueueInit, QueueStep, PTL DEF Spec

-----------------------------------------------------------------------------

(***************************************************************************)
(* With interrupts off between the cmpxchg and task_block, a task that is  *)
(* about to block is the one that runs, and the mutex it found taken still *)
(* is.  This is what makes the wakeup safe.                                *)
(***************************************************************************)
BlockersSeeLock ==
  \A t \in Tasks : pc[t] = "block" => current = t /\ value = 1

WakeupInv == QueueInv /\ BlockersSeeLock /\ NoLostWakeup

(***************************************************************************)
(* Every step keeps, for a nonempty list, a task that will come to         *)
(* task_unblock.                                                           *)
(***************************************************************************)
LEMMA WakeupStep ==
  ASSUME ~ Preemptible, WakeupInv, [Next]_vars
  PROVE  WakeupInv'
<1>0. /\ TypeOK /\ MutualExclusion /\ BlockersSeeLock /\ NoLostWakeup
      /\ QueueInv' /\ Tasks \subseteq Pid
      /\ CurrentAwake /\ WaitersAreAsleep
  BY QueueStep DEF WakeupInv, QueueInv, ExclusionInv, Tasks
<1>a. pc \in [Pid -> PC] /\ state \in [Pid -> States] /\ current \in Pid
  BY <1>0 DEF TypeOK, States
<1> SUFFICES BlockersSeeLock' /\ NoLostWakeup'
  BY <1>0 DEF WakeupInv
<1>1. ASSUME NEW t \in Tasks, current = t, Enter(t)
      PROVE  BlockersSeeLock' /\ NoLostWakeup'
  BY <1>0, <1>1, <1>a
     DEF Enter, Goto, BlockersSeeLock, NoLostWakeup, Holding, Contending
<1>2. ASSUME NEW t \in Tasks, current = t, CmpXchg(t)
      PROVE  BlockersSeeLock' /\ NoLostWakeup'
  <2>1. CASE value = 0
    <3>1. pc'[t] = "cs" /\ \A n \in Tasks \ {t} : pc'[n] = pc[n]
      BY <1>0, <1>2, <1>a, <2>1 DEF CmpXchg, Goto
    <3>2. NoLostWakeup'
      BY <3>1 DEF NoLostWakeup, Holding
    <3>3. BlockersSeeLock'
      BY <1>0, <1>2, <2>1, <3>1 DEF CmpXchg, BlockersSeeLock
    <3> QED BY <3>2, <3>3
  <2>2. CASE value = 1
    <3>1. /\ pc'[t] = "block" /\ \A n \in Tasks \ {t} : pc'[n] = pc[n]
          /\ pc[t] = "lock" /\ value' = 1 /\ current' = t
      BY <1>0, <1>2, <1>a, <2>2 DEF CmpXchg, Goto
    <3>2. PICK h \in Tasks : Holding(h)
      BY <1>0, <2>2 DEF MutualExclusion
    <3>3. Holding(h)'
      BY <3>1, <3>2 DEF Holding
    <3>4. BlockersSeeLock'
      BY <1>0, <1>2, <3>1 DEF BlockersSeeLock
    <3> QED BY <3>3, <3>4 DEF NoLostWakeup
  <2> QED BY <1>0, <2>1, <2>2 DEF TypeOK
<1>3. ASSUME NEW t \in Tasks, current = t, Block(t)
      PROVE  BlockersSeeLock' /\ NoLostWakeup'
  <2>1. /\ pc'[t] = "lock" /\ \A n \in Tasks \ {t} : pc'[n] = pc[n]
        /\ pc[t] = "block"
    BY <1>0, <1>3, <1>a DEF Block, Goto
  <2>2. PICK h \in Tasks : Holding(h)
    BY <1>0, <2>1 DEF BlockersSeeLock, MutualExclusion
  <2>3. Holding(h)'
    BY <2>1, <2>2 DEF Holding
  <2>4. BlockersSeeLock'
    BY <1>0, <1>3, <2>1 DEF BlockersSeeLock
  <2> QED BY <2>3, <2>4 DEF NoLostWakeup
<1>4. ASSUME NEW t \in Tasks, current = t, WaitDevice(t)
      PROVE  BlockersSeeLock' /\ NoLostWakeup'
  <2>1. /\ pc'[t] = "io" /\ \A n \in Tasks \ {t} : pc'[n] = pc[n]
        /\ pc[t] = "cs"
    BY <1>0, <1>4, <1>a DEF WaitDevice, Goto
  <2> QED
    BY <1>0, <1>4, <2>1 DEF BlockersSeeLock, NoLostWakeup, Holding
<1>5. ASSUME NEW t \in Tasks, current = t, Dec(t)
      PROVE  BlockersSeeLock' /\ NoLostWakeup'
  <2>1. /\ pc'[t] = "unblock" /\ \A n \in Tasks \ {t} : pc'[n] = pc[n]
        /\ pc[t] \in {"cs", "io"}
    BY <1>0, <1>5, <1>a DEF Dec, Goto
  <2> QED
    BY <1>0, <1>5, <2>1 DEF BlockersSeeLock, NoLostWakeup
<1>6. ASSUME NEW t \in Tasks, current = t, Unblock(t)
      PROVE  BlockersSeeLock' /\ NoLostWakeup'
  <2>1. /\ pc'[t] = "user" /\ \A n \in Tasks \ {t} : pc'[n] = pc[n]
        /\ pc[t] = "unblock"
    BY <1>0, <1>6, <1>a DEF Unblock, Goto
  <2>2. BlockersSeeLock'
    BY <1>0, <1>6, <2>1 DEF BlockersSeeLock
  <2>3. CASE waiters = << >>
    BY <1>6, <2>2, <2>3 DEF Unblock, NoLostWakeup
  <2>4. CASE waiters # << >>
    <3>0. Head(waiters) \in Tasks /\ Head(waiters) = waiters[1]
          /\ 1 \in DOMAIN waiters
      BY <1>0, <2>4 DEF TypeOK
    <3>1. PICK h \in Tasks : h = Head(waiters)
      BY <3>0
    <3> DEFINE st == [state EXCEPT ![h] = "READY"]
    <3>2. pc[h] = "lock"
      BY <1>0, <3>0, <3>1 DEF WaitersAreAsleep
    <3>3. st \in [Pid -> States] /\ st[h] = "READY"
      BY <1>0, <1>a, <3>1 DEF States
    <3>4. state'[h] # "BLOCKED"
      BY <1>6, <1>a, <2>4, <3>1, <3>3, RescheduleKeeps DEF Unblock
    <3>5. Contending(h)'
      BY <2>1, <3>1, <3>2, <3>4 DEF Contending
    <3> QED BY <2>2, <3>1, <3>5 DEF NoLostWakeup
  <2> QED BY <2>3, <2>4
<1>7. ASSUME NEW t \in Tasks, DeviceInterrupt(t)
      PROVE  BlockersSeeLock' /\ NoLostWakeup'
  <2>1. /\ UNCHANGED <<value, waiters, current, pc>>
        /\ \A n \in Tasks : state[n] # "BLOCKED" => state'[n] # "BLOCKED"
    BY <1>0, <1>7, <1>a DEF DeviceInterrupt
  <2> QED
    BY <1>0, <2>1 DEF BlockersSeeLock, NoLostWakeup, Holding, Contending
<1>8. ASSUME Clock
      PROVE  BlockersSeeLock' /\ NoLostWakeup'
  <2>1. /\ UNCHANGED <<value, waiters, pc>>
        /\ \A n \in Tasks : state'[n] = "BLOCKED" <=> state[n] = "BLOCKED"
    BY <1>8, <1>a, RescheduleKeeps DEF Clock
  <2>2. \A t \in Tasks : pc[t] # "block"
    BY <1>0, <1>8 DEF Clock, InterruptsOn, BlockersSeeLock
  <2> QED
    BY <1>0, <2>1, <2>2 DEF BlockersSeeLock, NoLostWakeup, Holding, Contending
<1>9. CASE UNCHANGED vars
  BY <1>0, <1>9 DEF vars, BlockersSeeLock, NoLostWakeup, Holding, Contending
<1> QED
  BY <1>1, <1>2, <1>3, <1>4, <1>5, <1>6, <1>7, <1>8, <1>9 DEF Next, Step

(***************************************************************************)
(* No wakeup is lost when the kernel runs the mutex with interrupts off,   *)
(* for any number of tasks.                                                *)
(***************************************************************************)
THEOREM NoWakeupIsLost == ~ Preemptible => (Spec => []NoLostWakeup)
<1> SUFFICES ASSUME ~ Preemptible PROVE Spec => []NoLostWakeup
  OBVIOUS
<1>1. Init => WakeupInv
  BY QueueInit DEF Init, WakeupInv, BlockersSeeLock, NoLostWakeup, Tasks
<1>2. WakeupInv /\ [Next]_vars => WakeupInv'
  BY WakeupStep
<1>3. WakeupInv => NoLostWakeup
  BY DEF WakeupInv
<1> QED BY <1>1, <1>2, <1>3, PTL DEF Spec
=============================================================================
