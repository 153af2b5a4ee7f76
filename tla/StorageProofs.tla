---------------------------- MODULE StorageProofs ----------------------------
(***************************************************************************)
(* Proofs about the disks and what is kept on them.  Block I/O, for every  *)
(* number of tasks, disks, indices and sectors, with and without raw       *)
(* reads: the controller serves one transfer at a time, and of the         *)
(* requests for a disk exactly one is being served.  Names and files, for  *)
(* every number of devices, inodes, tasks, files and descriptors and for   *)
(* every set of paths: a file counts the descriptors that hold it, and an  *)
(* inode is counted for everything that points to it.                      *)
(***************************************************************************)
EXTENDS Device, Files, SchedProofs, FiniteSetTheorems

-----------------------------------------------------------------------------
(* Block I/O.  The two theorems need each other: that device_request wakes
   the next task only when it sleeps in the list, and never one that waits for
   the drive, is what the second says, and the list is left one at a time by
   the first. *)

States == {"RUNNING", "READY", "BLOCKED"}
Req == [task : Tasks, idx : Idx]

-----------------------------------------------------------------------------
(* Lists of requests. *)

\* Whether a request of task t is in the list q.
In(q, t) == \E i \in DOMAIN q : q[i].task = t

\* Every task has at most one request in the list q.
Distinct(q) == \A i, j \in DOMAIN q : q[i].task = q[j].task => i = j

\* Of the tasks with a request in q exactly one is not in A.
OneAwake(q, A) ==
  \E s \in Tasks : /\ In(q, s) /\ s \notin A
                   /\ \A t \in Tasks : In(q, t) /\ t # s => t \in A

(***************************************************************************)
(* list_insert_sort adds the request to the list.                          *)
(***************************************************************************)
LEMMA InsertIn ==
  ASSUME NEW q \in Seq(Req), NEW req \in Req, Distinct(q), ~ In(q, req.task)
  PROVE  /\ InsertRequest(q, req) \in Seq(Req)
         /\ InsertRequest(q, req) # << >>
         /\ Distinct(InsertRequest(q, req))
         /\ \A t : In(InsertRequest(q, req), t) <=> In(q, t) \/ t = req.task
<1> DEFINE greater == {i \in DOMAIN q : q[i].idx > req.idx}
           at == IF greater = {} THEN Len(q) + 1 ELSE Min(greater)
           r == InsertRequest(q, req)
           old(i) == IF i < at THEN i ELSE i - 1
<1>1. r = ListInsert(q, at, req)
  BY DEF InsertRequest, InsertAt, ListInsert
<1>2. at \in 1 .. Len(q) + 1
  <2>1. greater \in SUBSET Nat /\ greater \subseteq 1 .. Len(q)
    OBVIOUS
  <2>2. greater # {} => Min(greater) \in greater
    <3> HIDE DEF greater
    <3> QED BY <2>1, MinExists
  <2>3. Len(q) \in Nat
    OBVIOUS
  <2> HIDE DEF greater
  <2>4. CASE greater = {}
    BY <2>3, <2>4
  <2>5. CASE greater # {}
    <3>1. at = Min(greater)
      BY <2>5
    <3> HIDE DEF at
    <3>2. at \in 1 .. Len(q)
      BY <2>1, <2>2, <2>5, <3>1
    <3> QED BY <2>3, <3>2
  <2> QED BY <2>4, <2>5
<1> HIDE DEF at, r, greater
<1>3. /\ r \in Seq(Req) /\ Len(r) = Len(q) + 1 /\ Len(q) \in Nat
      /\ \A i \in 1 .. Len(q) + 1 :
           r[i] = IF i < at THEN q[i] ELSE IF i = at THEN req ELSE q[i - 1]
  <2>1. Len(q) \in Nat
    OBVIOUS
  <2>2. /\ ListInsert(q, at, req) \in Seq(Req)
        /\ Len(ListInsert(q, at, req)) = Len(q) + 1
        /\ \A i \in 1 .. Len(q) + 1 :
             ListInsert(q, at, req)[i] = IF i < at THEN q[i]
                                     ELSE IF i = at THEN req ELSE q[i - 1]
    BY <1>2, InsertElements
  <2> QED BY <1>1, <2>1, <2>2
<1>4. /\ DOMAIN r = 1 .. Len(q) + 1 /\ DOMAIN q = 1 .. Len(q)
      /\ at \in DOMAIN r /\ r[at] = req
      /\ \A i \in DOMAIN r : i # at => old(i) \in DOMAIN q /\ r[i] = q[old(i)]
      /\ \A i, j \in DOMAIN r : i # at /\ j # at /\ old(i) = old(j) => i = j
      /\ \A i \in DOMAIN q : \E j \in DOMAIN r : r[j] = q[i]
  <2>1. /\ DOMAIN r = 1 .. Len(q) + 1 /\ DOMAIN q = 1 .. Len(q)
        /\ at \in DOMAIN r /\ r[at] = req
    BY <1>2, <1>3
  <2>2. \A i \in DOMAIN r : i # at => old(i) \in DOMAIN q /\ r[i] = q[old(i)]
    BY <1>2, <1>3, <2>1
  <2>3. \A i, j \in DOMAIN r : i # at /\ j # at /\ old(i) = old(j) => i = j
    BY <1>2, <1>3, <2>1
  <2>4. ASSUME NEW i \in DOMAIN q PROVE \E j \in DOMAIN r : r[j] = q[i]
    <3>1. CASE i < at
      BY <1>2, <1>3, <2>1, <3>1
    <3>2. CASE ~ (i < at)
      <4>1. i + 1 \in DOMAIN r /\ r[i + 1] = q[(i + 1) - 1] /\ (i + 1) - 1 = i
        BY <1>2, <1>3, <2>1, <3>2
      <4> QED BY <4>1
    <3> QED BY <3>1, <3>2
  <2> QED BY <2>1, <2>2, <2>3, <2>4
<1> HIDE DEF old
<1>5. Distinct(r)
  BY <1>4 DEF Distinct, In
<1>6. \A t : In(r, t) <=> In(q, t) \/ t = req.task
  BY <1>4 DEF In
<1>7. r # << >>
  BY <1>3
<1> QED BY <1>3, <1>5, <1>6, <1>7 DEF r

(***************************************************************************)
(* list_remove takes the request out of the list.                          *)
(***************************************************************************)
LEMMA RemoveIn ==
  ASSUME NEW q \in Seq(Req), NEW at \in DOMAIN q, Distinct(q)
  PROVE  /\ RemoveAt(q, at) \in Seq(Req)
         /\ Distinct(RemoveAt(q, at))
         /\ \A t : In(RemoveAt(q, at), t) <=> In(q, t) /\ t # q[at].task
         /\ RemoveAt(q, at) # << >> => Len(q) > 1
<1> DEFINE r == RemoveAt(q, at)
           old(i) == IF i < at THEN i ELSE i + 1
<1>1. r = ListRemove(q, at)
  BY DEF RemoveAt, ListRemove
<1> HIDE DEF r
<1>2. at \in 1 .. Len(q)
  OBVIOUS
<1>3. /\ r \in Seq(Req) /\ Len(r) = Len(q) - 1 /\ Len(q) \in Nat
      /\ \A i \in 1 .. Len(q) - 1 : r[i] = IF i < at THEN q[i] ELSE q[i + 1]
  <2>1. Len(q) \in Nat
    OBVIOUS
  <2>2. /\ ListRemove(q, at) \in Seq(Req)
        /\ Len(ListRemove(q, at)) = Len(q) - 1
        /\ \A i \in 1 .. Len(q) - 1 :
             ListRemove(q, at)[i] = IF i < at THEN q[i] ELSE q[i + 1]
    BY <1>2, RemoveElements, Zenon
  <2> QED BY <1>1, <2>1, <2>2
<1>4. /\ \A i \in DOMAIN r : /\ old(i) \in DOMAIN q /\ old(i) # at
                             /\ r[i] = q[old(i)]
      /\ \A i, j \in DOMAIN r : old(i) = old(j) => i = j
      /\ \A i \in DOMAIN q : i # at => \E j \in DOMAIN r : r[j] = q[i]
  <2>1. DOMAIN r = 1 .. Len(q) - 1 /\ DOMAIN q = 1 .. Len(q)
    BY <1>3
  <2>2. \A i \in DOMAIN r : /\ old(i) \in DOMAIN q /\ old(i) # at
                            /\ r[i] = q[old(i)]
    BY <1>2, <1>3, <2>1
  <2>3. \A i, j \in DOMAIN r : old(i) = old(j) => i = j
    BY <1>2, <1>3, <2>1
  <2>4. ASSUME NEW i \in DOMAIN q, i # at PROVE \E j \in DOMAIN r : r[j] = q[i]
    <3>1. CASE i < at
      BY <1>2, <1>3, <2>1, <3>1
    <3>2. CASE ~ (i < at)
      <4>1. i - 1 \in DOMAIN r /\ r[i - 1] = q[(i - 1) + 1] /\ (i - 1) + 1 = i
        BY <1>2, <1>3, <2>1, <2>4, <3>2
      <4> QED BY <4>1
    <3> QED BY <3>1, <3>2
  <2> QED BY <2>2, <2>3, <2>4
<1> HIDE DEF old
<1>5. Distinct(r)
  BY <1>4 DEF Distinct
<1>6. \A t : In(r, t) <=> In(q, t) /\ t # q[at].task
  BY <1>4 DEF Distinct, In
<1>7. r # << >> => Len(q) > 1
  BY <1>3
<1> QED BY <1>3, <1>5, <1>6, <1>7 DEF r

(***************************************************************************)
(* request_nextreq finds another request if there is one.                  *)
(***************************************************************************)
LEMMA NextIndexOther ==
  ASSUME NEW q \in Seq(Req), NEW at \in DOMAIN q, NEW dir \in {"UP", "DOWN"}
  PROVE  /\ NextIndex(q, at, dir) # at
         /\ Len(q) > 1 => NextIndex(q, at, dir) \in DOMAIN q
         /\ NextDirect(q, at, dir) \in {"UP", "DOWN"}
<1>1. at \in 1 .. Len(q) /\ DOMAIN q = 1 .. Len(q) /\ Len(q) \in Nat
  OBVIOUS
<1> QED BY <1>1 DEF NextIndex, NextDirect

-----------------------------------------------------------------------------
(* The inductive invariant. *)

(***************************************************************************)
(* The task that runs and the idle task are awake.                         *)
(***************************************************************************)
CurrentAwake == state[current] # "BLOCKED" /\ state[Idle] # "BLOCKED"

(***************************************************************************)
(* The controller is locked exactly while a task moves sectors.            *)
(***************************************************************************)
LockHeld == locked => \E t \in Tasks : pc[t] = "sector"

(***************************************************************************)
(* The tasks in the list of ctrl->lock sleep in mutex_lock, each once.     *)
(***************************************************************************)
LockQueue ==
  /\ \A t \in Tasks : Queued(lockWaiters, t)
                        => pc[t] = "lock" /\ state[t] = "BLOCKED"
  /\ \A i, j \in DOMAIN lockWaiters : lockWaiters[i] = lockWaiters[j] => i = j

(***************************************************************************)
(* A task in the driver is there for a disk, and whoever has a request in  *)
(* a list has one, and is between the two halves of device_request for     *)
(* that disk.                                                              *)
(***************************************************************************)
RequestsInProgress ==
  /\ \A t \in Tasks : pc[t] # "user" => disk[t] \in Disks
  /\ \A d \in Disks :
       /\ Distinct(queue[d])
       /\ \A t \in Tasks : In(queue[d], t) => pc[t] # "user" /\ disk[t] = d

\* The tasks that sleep in device_request.
Asleep == {t \in Tasks : /\ pc[t] = "lock" /\ state[t] = "BLOCKED"
                         /\ ~ Queued(lockWaiters, t)}

Served == \A d \in Disks : queue[d] # << >> => OneAwake(queue[d], Asleep)

DeviceInv ==
  /\ TypeOK
  /\ CurrentAwake
  /\ OneTransfer
  /\ LockHeld
  /\ LockQueue
  /\ RequestsInProgress
  /\ Served

(***************************************************************************)
(* What rescheduling preserves: types, and who is asleep.                  *)
(***************************************************************************)
LEMMA RescheduleKeeps ==
  ASSUME NEW st \in [Pid -> States], current \in Pid, st[Idle] # "BLOCKED",
         Reschedule(st)
  PROVE  /\ state' \in [Pid -> States]
         /\ current' \in Pid
         /\ \A n \in Tasks : state'[n] = "BLOCKED" <=> st[n] = "BLOCKED"
         /\ CurrentAwake'
<1>1. {"READY", "RUNNING"} \subseteq States
      /\ "BLOCKED" \in States \ {"READY", "RUNNING"}
  BY DEF States
<1>2. /\ state' = AfterSchedule(st, current)
      /\ current' = Schedule(st, current)
  BY DEF Reschedule
<1>3. /\ AfterSchedule(st, current) \in [Pid -> States]
      /\ \A n \in Pid \ {Idle} :
           AfterSchedule(st, current)[n] = "BLOCKED" <=> st[n] = "BLOCKED"
  BY <1>1, ScheduleKeeps
<1>4. current' \in Pid
  BY <1>2, ScheduleReady
<1>5. /\ AfterSchedule(st, current)[Idle] # "BLOCKED"
      /\ AfterSchedule(st, current)[Schedule(st, current)] # "BLOCKED"
  BY <1>1, ScheduleRuns
<1> QED BY <1>2, <1>3, <1>4, <1>5 DEF Tasks, CurrentAwake

(***************************************************************************)
(* task_block: the caller, and nobody else, falls asleep.                  *)
(***************************************************************************)
LEMMA BlockSelfEffect ==
  ASSUME TypeOK, CurrentAwake, NEW t \in Tasks, BlockSelf(t)
  PROVE  /\ state' \in [Pid -> States] /\ current' \in Pid /\ CurrentAwake'
         /\ \A n \in Tasks :
              state'[n] = "BLOCKED" <=> state[n] = "BLOCKED" \/ n = t
<1> DEFINE st == [state EXCEPT ![t] = "BLOCKED"]
<1>1. /\ st \in [Pid -> States] /\ st[Idle] # "BLOCKED" /\ current \in Pid
      /\ \A n \in Tasks : st[n] = "BLOCKED" <=> state[n] = "BLOCKED" \/ n = t
  BY TaskNrAssumption DEF TypeOK, States, Tasks, CurrentAwake, Idle, Pid
<1>2. Reschedule(st)
  BY DEF BlockSelf
<1> HIDE DEF st
<1> QED BY <1>1, <1>2, RescheduleKeeps

(***************************************************************************)
(* device_init and ide_init leave the lists empty and the controller free. *)
(***************************************************************************)
LEMMA DeviceInit == Init => DeviceInv
<1> SUFFICES ASSUME Init PROVE DeviceInv
  OBVIOUS
<1>1. Idle \in Pid
  BY TaskNrAssumption DEF Idle, Pid
<1>2. TypeOK
  <2>1. queue \in [Disks -> Seq(Req)] /\ direct \in [Disks -> {"UP", "DOWN"}]
    BY DEF Init
  <2>2. locked \in BOOLEAN /\ irq \in BOOLEAN
    BY Zenon DEF Init
  <2>3. left \in 0 .. Secs
    BY SecsAssumption DEF Init
  <2>4. /\ state \in [Pid -> {"RUNNING", "READY", "BLOCKED"}]
        /\ pc \in [Pid -> PC] /\ disk \in [Pid -> Disks \cup {None}]
    BY DEF Init, PC
  <2> QED BY <1>1, <2>1, <2>2, <2>3, <2>4 DEF Init, TypeOK, Req
<1>3. /\ \A t \in Tasks : pc[t] = "user" /\ ~ Queued(lockWaiters, t)
      /\ \A d \in Disks : queue[d] = << >>
      /\ waiter = None /\ ~locked
      /\ lockWaiters = << >>
  BY DEF Init, Tasks, Queued
<1>4. CurrentAwake /\ OneTransfer /\ LockHeld
  BY <1>1, <1>3 DEF Init, CurrentAwake, OneTransfer, LockHeld
<1>5. LockQueue
  BY <1>3 DEF LockQueue
<1>6. RequestsInProgress /\ Served
  BY <1>3 DEF RequestsInProgress, Served, Distinct, In
<1> QED BY <1>2, <1>4, <1>5, <1>6 DEF DeviceInv

(***************************************************************************)
(* Every step keeps the invariant.                                         *)
(***************************************************************************)
LEMMA DeviceStep == DeviceInv /\ [Next]_vars => DeviceInv'
<1> SUFFICES ASSUME DeviceInv, [Next]_vars PROVE DeviceInv'
  OBVIOUS
<1>0. /\ TypeOK /\ CurrentAwake /\ OneTransfer /\ LockHeld /\ LockQueue
      /\ RequestsInProgress /\ Served
      /\ Tasks \subseteq Pid /\ Idle \in Pid /\ Idle \notin Tasks
      /\ None \notin Tasks /\ None \notin Disks /\ None \notin Pid
      /\ queue \in [Disks -> Seq(Req)] /\ state \in [Pid -> States]
      /\ pc \in [Pid -> PC]
  <2>1. /\ Tasks \subseteq Pid /\ Idle \in Pid /\ Idle \notin Tasks
        /\ None \notin Tasks /\ None \notin Disks /\ None \notin Pid
    BY TaskNrAssumption, NoneAssumption DEF Tasks, Pid, Idle
  <2>2. /\ queue \in [Disks -> Seq(Req)] /\ state \in [Pid -> States]
        /\ pc \in [Pid -> PC]
    BY DEF DeviceInv, TypeOK, Req, States
  <2> QED BY <2>1, <2>2 DEF DeviceInv
<1>1. ASSUME NEW t \in Tasks, current = t, NEW d \in Disks, NEW i \in Idx,
             Request(t, d, i)
      PROVE  DeviceInv'
  <2> DEFINE req == [task |-> t, idx |-> i]
  <2>1. /\ pc[t] = "user" /\ pc' = [pc EXCEPT ![t] = "lock"]
        /\ disk' = [disk EXCEPT ![t] = d]
        /\ UNCHANGED <<direct, ctrl>>
        /\ queue' = [queue EXCEPT ![d] = InsertRequest(queue[d], req)]
        /\ IF queue[d] # << >> THEN BlockSelf(t)
                               ELSE UNCHANGED <<state, current>>
    BY <1>0, <1>1 DEF Request, Goto, MustWait
  <2>2. req \in Req /\ req.task = t /\ ~ In(queue[d], t) /\ Distinct(queue[d])
        /\ queue[d] \in Seq(Req)
    BY <1>0, <2>1 DEF Req, RequestsInProgress
  <2> HIDE DEF req
  <2>3. /\ queue' \in [Disks -> Seq(Req)]
        /\ Distinct(queue'[d]) /\ queue'[d] # << >>
        /\ \A s : In(queue'[d], s) <=> In(queue[d], s) \/ s = t
        /\ \A e \in Disks \ {d} : queue'[e] = queue[e]
    <3>1. /\ InsertRequest(queue[d], req) \in Seq(Req)
          /\ InsertRequest(queue[d], req) # << >>
          /\ Distinct(InsertRequest(queue[d], req))
          /\ \A s : In(InsertRequest(queue[d], req), s)
                      <=> In(queue[d], s) \/ s = t
      BY <2>2, InsertIn
    <3> QED BY <1>0, <2>1, <3>1
  <2>4. /\ state' \in [Pid -> States] /\ current' \in Pid /\ CurrentAwake'
        /\ \A n \in Tasks : state'[n] = "BLOCKED"
             <=> state[n] = "BLOCKED" \/ (n = t /\ queue[d] # << >>)
    <3>1. CASE queue[d] = << >>
      BY <1>0, <2>1, <3>1 DEF CurrentAwake, TypeOK
    <3>2. CASE queue[d] # << >>
      BY <1>0, <2>1, <3>2, BlockSelfEffect
    <3> QED BY <3>1, <3>2
  <2>5. TypeOK'
    BY <1>0, <2>1, <2>3, <2>4 DEF TypeOK, Req, States, ctrl, PC
  <2>6. /\ \A n \in Tasks \ {t} : pc'[n] = pc[n] /\ disk'[n] = disk[n]
        /\ pc'[t] = "lock" /\ disk'[t] = d
    BY <1>0, <2>1 DEF TypeOK
  <2>7. OneTransfer' /\ LockHeld' /\ LockQueue'
    <3>1. UNCHANGED <<locked, lockWaiters, waiter, drive, left>>
      BY <2>1 DEF ctrl
    <3>2. OneTransfer'
      BY <1>0, <2>1, <2>4, <2>6, <3>1 DEF OneTransfer, TypeOK
    <3>3. LockHeld'
      BY <1>0, <2>1, <2>6, <3>1 DEF LockHeld
    <3>4. LockQueue'
      BY <1>0, <2>1, <2>4, <2>6, <3>1 DEF LockQueue
    <3> QED BY <3>2, <3>3, <3>4
  <2>8. RequestsInProgress'
    BY <1>0, <2>1, <2>3, <2>6 DEF RequestsInProgress
  <2>9. Served'
    <3>1. ~ Queued(lockWaiters, t) /\ lockWaiters' = lockWaiters
      BY <1>0, <2>1 DEF LockQueue, ctrl
    <3>2. \A n \in Tasks : n \in Asleep'
             <=> n \in Asleep \/ (n = t /\ queue[d] # << >>)
      BY <1>0, <1>1, <2>1, <2>4, <2>6, <3>1 DEF Asleep, CurrentAwake
    <3>3. t \notin Asleep
      BY <2>1 DEF Asleep
    <3>4. ASSUME NEW e \in Disks \ {d}, queue'[e] # << >>
          PROVE  OneAwake(queue'[e], Asleep')
      <4>1. ~ In(queue[e], t)
        BY <1>0, <2>1 DEF RequestsInProgress
      <4>2. OneAwake(queue[e], Asleep)
        BY <1>0, <2>3, <3>4 DEF Served
      <4> QED BY <2>3, <3>2, <4>1, <4>2 DEF OneAwake
    <3>5. OneAwake(queue'[d], Asleep')
      <4>1. CASE queue[d] = << >>
        <5>1. \A s \in Tasks : ~ In(queue[d], s)
          BY <4>1 DEF In
        <5>2. \A s \in Tasks : In(queue'[d], s) <=> s = t
          BY <2>3, <5>1
        <5>3. t \notin Asleep'
          BY <3>2, <3>3, <4>1
        <5> QED BY <5>2, <5>3 DEF OneAwake
      <4>2. CASE queue[d] # << >>
        <5>1. OneAwake(queue[d], Asleep)
          BY <1>0, <4>2 DEF Served
        <5> QED BY <2>2, <2>3, <3>2, <4>2, <5>1 DEF OneAwake
      <4> QED BY <4>1, <4>2
    <3> QED BY <3>4, <3>5 DEF Served
  <2> QED BY <2>4, <2>5, <2>7, <2>8, <2>9 DEF DeviceInv
<1>2. ASSUME NEW t \in Tasks, current = t, NEW d \in Disks, Raw(t, d)
      PROVE  DeviceInv'
  <2>1. /\ pc[t] = "user" /\ pc' = [pc EXCEPT ![t] = "lock"]
        /\ disk' = [disk EXCEPT ![t] = d]
        /\ UNCHANGED <<queue, direct, ctrl, state, current>>
    BY <1>2 DEF Raw, Goto
  <2>2. /\ \A n \in Tasks \ {t} : pc'[n] = pc[n] /\ disk'[n] = disk[n]
        /\ pc'[t] = "lock" /\ disk'[t] = d
    BY <1>0, <2>1 DEF TypeOK
  <2>3. TypeOK' /\ CurrentAwake'
    BY <1>0, <2>1 DEF TypeOK, CurrentAwake, PC, ctrl
  <2>4. OneTransfer' /\ LockHeld' /\ LockQueue'
    BY <1>0, <2>1, <2>2 DEF OneTransfer, LockHeld, LockQueue, TypeOK, ctrl
  <2>5. RequestsInProgress'
    BY <1>0, <2>1, <2>2 DEF RequestsInProgress
  <2>6. \A n \in Tasks : n \in Asleep' <=> n \in Asleep
    BY <1>0, <1>2, <2>1, <2>2 DEF Asleep, CurrentAwake, ctrl
  <2>7. Served'
    BY <1>0, <2>1, <2>6 DEF Served, OneAwake
  <2> QED BY <2>3, <2>4, <2>5, <2>7 DEF DeviceInv
<1>3. ASSUME NEW t \in Tasks, current = t, Start(t)
      PROVE  DeviceInv'
  <2>0. /\ pc[t] = "lock" /\ UNCHANGED <<queue, direct, disk>>
        /\ state[t] # "BLOCKED" /\ ~ Queued(lockWaiters, t)
    BY <1>0, <1>3 DEF Start, CurrentAwake, LockQueue
  <2>1. CASE ~locked
    <3>1. /\ locked' = TRUE /\ drive' = disk[t] /\ waiter' = t /\ irq' = TRUE
          /\ left' = Secs /\ BlockSelf(t) /\ lockWaiters' = lockWaiters
          /\ pc' = [pc EXCEPT ![t] = "sector"]
      BY <1>3, <2>1 DEF Start, AwaitSector, Goto
    <3>2. /\ state' \in [Pid -> States] /\ current' \in Pid /\ CurrentAwake'
          /\ \A n \in Tasks :
               state'[n] = "BLOCKED" <=> state[n] = "BLOCKED" \/ n = t
      BY <1>0, <3>1, BlockSelfEffect
    <3>3. \A n \in Tasks : pc'[n] = IF n = t THEN "sector" ELSE pc[n]
      BY <1>0, <3>1
    <3>4. \A n \in Tasks : pc[n] # "sector"
      BY <1>0, <2>1 DEF OneTransfer
    <3>5. TypeOK'
      <4>1. locked' \in BOOLEAN /\ irq' \in BOOLEAN
        BY <3>1, Zenon
      <4>2. left' \in 0 .. Secs /\ pc' \in [Pid -> PC] /\ waiter' \in Tasks
        BY <1>0, <3>1, SecsAssumption DEF PC
      <4>3. drive' \in Disks \cup {None} /\ lockWaiters' \in Seq(Tasks)
        BY <1>0, <3>1 DEF TypeOK
      <4> QED BY <1>0, <2>0, <3>2, <4>1, <4>2, <4>3 DEF TypeOK, States
    <3>6. OneTransfer' /\ LockHeld'
      BY <1>0, <2>0, <3>1, <3>2, <3>3, <3>4, SecsAssumption
         DEF OneTransfer, LockHeld
    <3>7. LockQueue' /\ RequestsInProgress'
      BY <1>0, <2>0, <3>1, <3>2, <3>3 DEF LockQueue, RequestsInProgress
    <3>8. \A n \in Tasks : n \in Asleep' <=> n \in Asleep
      BY <2>0, <3>1, <3>2, <3>3 DEF Asleep
    <3>9. Served'
      BY <1>0, <2>0, <3>8 DEF Served, OneAwake
    <3> QED BY <3>2, <3>5, <3>6, <3>7, <3>9 DEF DeviceInv
  <2>2. CASE locked
    <3>1. /\ lockWaiters' = Append(lockWaiters, t) /\ BlockSelf(t)
          /\ UNCHANGED <<locked, drive, waiter, irq, left, pc>>
      BY <1>3, <2>2 DEF Start
    <3>2. /\ state' \in [Pid -> States] /\ current' \in Pid /\ CurrentAwake'
          /\ \A n \in Tasks :
               state'[n] = "BLOCKED" <=> state[n] = "BLOCKED" \/ n = t
      BY <1>0, <3>1, BlockSelfEffect
    <3>3. /\ lockWaiters' \in Seq(Tasks)
          /\ \A s : Queued(lockWaiters', s) <=> Queued(lockWaiters, s) \/ s = t
          /\ \A i, j \in DOMAIN lockWaiters' :
               lockWaiters'[i] = lockWaiters'[j] => i = j
      BY <1>0, <2>0, <3>1, AppendQueued DEF TypeOK, LockQueue
    <3>4. TypeOK'
      BY <1>0, <2>0, <3>1, <3>2, <3>3 DEF TypeOK, States
    <3>5. OneTransfer' /\ LockHeld'
      BY <1>0, <2>0, <3>1, <3>2 DEF OneTransfer, LockHeld, TypeOK
    <3>6. LockQueue' /\ RequestsInProgress'
      BY <1>0, <2>0, <3>1, <3>2, <3>3 DEF LockQueue, RequestsInProgress
    <3>7. \A n \in Tasks : n \in Asleep' <=> n \in Asleep
      BY <2>0, <3>1, <3>2, <3>3 DEF Asleep
    <3>8. Served'
      BY <1>0, <2>0, <3>7 DEF Served, OneAwake
    <3> QED BY <3>2, <3>4, <3>5, <3>6, <3>8 DEF DeviceInv
  <2> QED BY <2>1, <2>2
<1>4. ASSUME NEW t \in Tasks, current = t, Sector(t)
      PROVE  DeviceInv'
  <2>0. /\ pc[t] = "sector" /\ UNCHANGED <<queue, direct, drive, disk>>
        /\ state[t] # "BLOCKED" /\ waiter = None
        /\ \A n \in Tasks : pc[n] = "sector" => n = t
        /\ left \in 1 .. Secs /\ locked
    <3>1. /\ pc[t] = "sector" /\ UNCHANGED <<queue, direct, drive, disk>>
          /\ state[t] # "BLOCKED"
      BY <1>0, <1>4 DEF Sector, CurrentAwake
    <3>2. /\ \A n \in Tasks : pc[n] = "sector" => n = t
          /\ left > 0 /\ left \in 0 .. Secs /\ locked
      BY <1>0, <3>1 DEF OneTransfer, TypeOK
    <3>3. waiter = None
      BY <1>0, <3>1, <3>2 DEF OneTransfer, TypeOK
    <3> QED BY <3>1, <3>2, <3>3, SecsAssumption
  <2>1. CASE left > 1
    <3>1. /\ waiter' = t /\ irq' = TRUE /\ left' = left - 1 /\ BlockSelf(t)
          /\ UNCHANGED <<locked, lockWaiters, pc>>
      BY <1>4, <2>1 DEF Sector, AwaitSector
    <3>2. /\ state' \in [Pid -> States] /\ current' \in Pid /\ CurrentAwake'
          /\ \A n \in Tasks :
               state'[n] = "BLOCKED" <=> state[n] = "BLOCKED" \/ n = t
      BY <1>0, <3>1, BlockSelfEffect
    <3>3. left' \in 0 .. Secs /\ left' > 0
      BY <2>0, <2>1, <3>1, SecsAssumption
    <3>4. TypeOK'
      BY <1>0, <2>0, <3>1, <3>2, <3>3 DEF TypeOK, States
    <3>5. OneTransfer' /\ LockHeld'
      BY <1>0, <2>0, <3>1, <3>2, <3>3 DEF OneTransfer, LockHeld
    <3>6. LockQueue' /\ RequestsInProgress'
      BY <1>0, <2>0, <3>1, <3>2 DEF LockQueue, RequestsInProgress
    <3>7. \A n \in Tasks : n \in Asleep' <=> n \in Asleep
      BY <2>0, <3>1, <3>2 DEF Asleep
    <3>8. Served'
      BY <1>0, <2>0, <3>7 DEF Served, OneAwake
    <3> QED BY <3>2, <3>4, <3>5, <3>6, <3>8 DEF DeviceInv
  <2>2. CASE ~ (left > 1)
    <3>1. /\ left' = 0 /\ locked' = FALSE /\ UNCHANGED <<waiter, irq>>
          /\ pc' = [pc EXCEPT ![t] = "complete"]
          /\ IF lockWaiters # << >>
             THEN /\ lockWaiters' = Tail(lockWaiters)
                  /\ Reschedule([state EXCEPT ![Head(lockWaiters)] = "READY"])
             ELSE UNCHANGED <<lockWaiters, state, current>>
      BY <1>4, <2>2 DEF Sector, Goto
    <3>2. \A n \in Tasks : pc'[n] = IF n = t THEN "complete" ELSE pc[n]
      BY <1>0, <3>1
    <3>3. /\ state' \in [Pid -> States] /\ current' \in Pid /\ CurrentAwake'
          /\ lockWaiters' \in Seq(Tasks)
          /\ \A n \in Tasks : Queued(lockWaiters', n) =>
                                Queued(lockWaiters, n) /\ state'[n] = "BLOCKED"
          /\ \A n \in Tasks : state'[n] = "BLOCKED" => state[n] = "BLOCKED"
          /\ \A n \in Tasks : Queued(lockWaiters, n) =>
                                Queued(lockWaiters', n) \/ state'[n] # "BLOCKED"
          /\ \A n \in Tasks : ~ Queued(lockWaiters, n) =>
                                (state'[n] = "BLOCKED" <=> state[n] = "BLOCKED")
          /\ \A i, j \in DOMAIN lockWaiters' :
               lockWaiters'[i] = lockWaiters'[j] => i = j
      <4>1. CASE lockWaiters = << >>
        BY <1>0, <3>1, <4>1 DEF TypeOK, CurrentAwake, LockQueue, States
      <4>2. CASE lockWaiters # << >>
        <5> DEFINE h == Head(lockWaiters)
                   st == [state EXCEPT ![h] = "READY"]
        <5>1. /\ h \in Tasks /\ lockWaiters' \in Seq(Tasks)
              /\ \A s : Queued(lockWaiters', s) <=> Queued(lockWaiters, s) /\ s # h
              /\ \A i, j \in DOMAIN lockWaiters' :
                   lockWaiters'[i] = lockWaiters'[j] => i = j
              /\ Queued(lockWaiters, h)
          <6> DEFINE w == lockWaiters
          <6>1. /\ w \in Seq(Tasks)
                /\ \A i, j \in DOMAIN w : w[i] = w[j] => i = j
            BY <1>0 DEF TypeOK, LockQueue
          <6>2. /\ Head(w) \in Tasks /\ Tail(w) \in Seq(Tasks)
                /\ \A s : Queued(Tail(w), s) <=> Queued(w, s) /\ s # Head(w)
                /\ \A i, j \in DOMAIN Tail(w) : Tail(w)[i] = Tail(w)[j] => i = j
                /\ Queued(w, Head(w))
            BY <4>2, <6>1, TailQueued
          <6>3. lockWaiters' = Tail(w)
            BY <3>1, <4>2
          <6> QED BY <6>2, <6>3
        <5>2. Reschedule(st)
          BY <3>1, <4>2
        <5> HIDE DEF h
        <5>3. /\ st \in [Pid -> States] /\ st[Idle] # "BLOCKED" /\ current \in Pid
              /\ \A n \in Tasks : st[n] = "BLOCKED" <=> state[n] = "BLOCKED" /\ n # h
          BY <1>0, <5>1 DEF TypeOK, States, CurrentAwake
        <5> HIDE DEF st
        <5>4. /\ state' \in [Pid -> States] /\ current' \in Pid /\ CurrentAwake'
              /\ \A n \in Tasks : state'[n] = "BLOCKED" <=> st[n] = "BLOCKED"
          BY <5>2, <5>3, RescheduleKeeps
        <5> QED BY <1>0, <5>1, <5>3, <5>4 DEF LockQueue
      <4> QED BY <4>1, <4>2
    <3>4. TypeOK'
      <4>1. locked' \in BOOLEAN /\ irq' \in BOOLEAN
        BY <1>0, <3>1, Zenon DEF TypeOK
      <4>2. left' \in 0 .. Secs /\ pc' \in [Pid -> PC]
        BY <1>0, <3>1, SecsAssumption DEF PC
      <4> QED BY <1>0, <2>0, <3>1, <3>3, <4>1, <4>2 DEF TypeOK, States
    <3>5. OneTransfer' /\ LockHeld'
      BY <1>0, <2>0, <3>1, <3>2 DEF OneTransfer, LockHeld
    <3>6. LockQueue' /\ RequestsInProgress'
      BY <1>0, <2>0, <3>1, <3>2, <3>3 DEF LockQueue, RequestsInProgress
    <3>7. \A n \in Tasks : n \in Asleep' <=> n \in Asleep
      BY <1>0, <2>0, <3>2, <3>3 DEF Asleep, LockQueue
    <3>8. Served'
      BY <1>0, <2>0, <3>7 DEF Served, OneAwake
    <3> QED BY <3>3, <3>4, <3>5, <3>6, <3>8 DEF DeviceInv
  <2> QED BY <2>1, <2>2
<1>5. ASSUME NEW t \in Tasks, current = t, Complete(t)
      PROVE  DeviceInv'
  <2> DEFINE d == disk[t]
             q == queue[d]
             mine == {i \in DOMAIN q : q[i].task = t}
             at == Min(mine)
             next == NextIndex(q, at, direct[d])
  <2>0. /\ pc[t] = "complete" /\ d \in Disks /\ state[t] # "BLOCKED"
        /\ t \notin Asleep /\ q \in Seq(Req) /\ Distinct(q)
        /\ direct[d] \in {"UP", "DOWN"}
    BY <1>0, <1>5 DEF Complete, RequestsInProgress, CurrentAwake, Asleep, TypeOK
  <2>1. /\ disk' = [disk EXCEPT ![t] = None]
        /\ pc' = [pc EXCEPT ![t] = "user"]
        /\ UNCHANGED <<ctrl, current>>
    BY <1>5 DEF Complete, Goto
  <2>2. /\ \A n \in Tasks : pc'[n] = IF n = t THEN "user" ELSE pc[n]
        /\ \A n \in Tasks : disk'[n] = IF n = t THEN None ELSE disk[n]
    BY <1>0, <2>1 DEF TypeOK
  <2>3. CASE mine = {}
    <3>1. UNCHANGED <<queue, direct, state>>
      BY <1>5, <2>3 DEF Complete
    <3>2. \A e \in Disks : ~ In(queue[e], t)
      BY <1>0, <2>3 DEF RequestsInProgress, In
    <3>3. TypeOK' /\ CurrentAwake'
      BY <1>0, <2>1, <3>1 DEF TypeOK, CurrentAwake, PC, ctrl
    <3>4. OneTransfer' /\ LockHeld' /\ LockQueue'
      BY <1>0, <2>0, <2>1, <2>2, <3>1
         DEF OneTransfer, LockHeld, LockQueue, TypeOK, ctrl
    <3>5. RequestsInProgress'
      BY <1>0, <2>2, <3>1, <3>2, ZenonT(60) DEF RequestsInProgress
    <3>6. \A n \in Tasks : n \in Asleep' <=> n \in Asleep
      BY <2>0, <2>1, <2>2, <3>1 DEF Asleep, ctrl
    <3>7. Served'
      BY <1>0, <3>1, <3>6 DEF Served, OneAwake
    <3> QED BY <3>3, <3>4, <3>5, <3>7 DEF DeviceInv
  <2>4. CASE mine # {}
    <3>1. at \in DOMAIN q /\ q[at].task = t
      <4>1. mine \in SUBSET Nat
        BY <2>0
      <4>2. at \in mine
        BY <2>4, <4>1, MinExists
      <4> QED BY <4>2
    <3>2. /\ direct' = [direct EXCEPT ![d] = NextDirect(q, at, direct[d])]
          /\ queue' = [queue EXCEPT ![d] = RemoveAt(q, at)]
          /\ state' = IF next \in DOMAIN q
                      THEN [state EXCEPT ![q[next].task] = "READY"] ELSE state
      BY <1>0, <1>5, <2>0, <2>4 DEF Complete, TypeOK
    <3> HIDE DEF q, at, next, mine, d
    <3>3. /\ RemoveAt(q, at) \in Seq(Req) /\ Distinct(RemoveAt(q, at))
          /\ \A s : In(RemoveAt(q, at), s) <=> In(q, s) /\ s # t
          /\ RemoveAt(q, at) # << >> => Len(q) > 1
      BY <2>0, <3>1, RemoveIn
    <3>4. /\ next # at
          /\ Len(q) > 1 => next \in DOMAIN q
          /\ NextDirect(q, at, direct[d]) \in {"UP", "DOWN"}
      BY <2>0, <3>1, NextIndexOther DEF next
    <3>5. /\ queue' \in [Disks -> Seq(Req)]
          /\ queue'[d] = RemoveAt(q, at)
          /\ \A e \in Disks \ {d} : queue'[e] = queue[e]
      BY <1>0, <2>0, <3>2, <3>3
    <3>6. PICK s \in Tasks : /\ In(q, s) /\ s \notin Asleep
                             /\ \A n \in Tasks : In(q, n) /\ n # s => n \in Asleep
      BY <1>0, <2>0, <3>1 DEF Served, OneAwake, q
    <3>7. s = t /\ In(q, t)
      BY <2>0, <3>1, <3>6 DEF In
    <3>8. ASSUME next \in DOMAIN q
          PROVE  q[next].task \in Asleep /\ In(q, q[next].task)
                 /\ q[next].task \in Tasks /\ q[next].task # t
      <4>1. q[next].task # t
        BY <2>0, <3>1, <3>4, <3>8 DEF Distinct
      <4>2. q[next].task \in Tasks /\ In(q, q[next].task)
        <5>1. q[next] \in Req
          BY <2>0, <3>8
        <5> QED BY <3>8, <5>1 DEF Req, In
      <4> QED BY <3>6, <3>7, <4>1, <4>2
    <3>9. /\ state' \in [Pid -> States]
          /\ \A n \in Pid : state'[n] = "BLOCKED" <=>
               state[n] = "BLOCKED" /\ ~ (next \in DOMAIN q /\ n = q[next].task)
      <4>1. CASE next \in DOMAIN q
        BY <1>0, <3>2, <3>8, <4>1 DEF States
      <4>2. CASE next \notin DOMAIN q
        BY <1>0, <3>2, <4>2
      <4> QED BY <4>1, <4>2
    <3>10. TypeOK' /\ CurrentAwake'
      <4>1. direct' \in [Disks -> {"UP", "DOWN"}]
        BY <1>0, <3>2, <3>4 DEF TypeOK
      <4>2. disk' \in [Pid -> Disks \cup {None}] /\ pc' \in [Pid -> PC]
        BY <1>0, <2>1 DEF TypeOK, PC
      <4> QED BY <1>0, <2>1, <3>5, <3>9, <4>1, <4>2
              DEF TypeOK, Req, States, CurrentAwake, ctrl
    <3>11. OneTransfer' /\ LockHeld' /\ LockQueue'
      <4>1. UNCHANGED <<locked, lockWaiters, waiter, drive, left>>
        BY <2>1 DEF ctrl
      <4>2. \A n \in Tasks : n \in Asleep =>
              pc[n] = "lock" /\ ~ Queued(lockWaiters, n)
        BY DEF Asleep
      <4>3. OneTransfer'
        <5>1. waiter # None => waiter \in Tasks /\ pc[waiter] = "sector"
          BY <1>0 DEF OneTransfer, TypeOK
        <5>2. next \in DOMAIN q => q[next].task # waiter
          BY <1>0, <3>8, <4>2, <5>1
        <5>3. waiter' # None => pc'[waiter'] = "sector" /\ state'[waiter'] = "BLOCKED"
          BY <1>0, <2>0, <2>2, <3>9, <4>1, <5>1, <5>2 DEF OneTransfer
        <5>4. \A n \in Tasks : pc'[n] = "sector" => pc[n] = "sector" /\ disk'[n] = disk[n]
          BY <2>2
        <5> QED BY <1>0, <4>1, <5>3, <5>4 DEF OneTransfer
      <4>4. LockHeld'
        BY <1>0, <2>0, <2>2, <4>1 DEF LockHeld
      <4>5. LockQueue'
        BY <1>0, <2>0, <2>2, <3>8, <3>9, <4>1, <4>2 DEF LockQueue
      <4> QED BY <4>3, <4>4, <4>5
    <3>12. RequestsInProgress'
      <4>1. \A e \in Disks \ {d} : ~ In(queue[e], t)
        BY <1>0 DEF RequestsInProgress, d
      <4>2. q = queue[d]
        BY DEF q
      <4>3. ASSUME NEW n \in Tasks, pc'[n] # "user" PROVE disk'[n] \in Disks
        BY <1>0, <2>2, <4>3 DEF RequestsInProgress
      <4>4. ASSUME NEW e \in Disks
            PROVE  /\ Distinct(queue'[e])
                   /\ \A n \in Tasks : In(queue'[e], n) => In(queue[e], n) /\ n # t
        <5>1. CASE e = d
          BY <3>3, <3>5, <4>2, <5>1
        <5>2. CASE e # d
          BY <1>0, <3>5, <4>1, <5>2 DEF RequestsInProgress
        <5> QED BY <5>1, <5>2
      <4> QED BY <1>0, <2>2, <4>3, <4>4 DEF RequestsInProgress
    <3>13. \A n \in Tasks : n \in Asleep' <=>
             n \in Asleep /\ ~ (next \in DOMAIN q /\ n = q[next].task)
      <4>1. lockWaiters' = lockWaiters
        BY <2>1 DEF ctrl
      <4> QED BY <1>0, <2>0, <2>2, <3>9, <4>1 DEF Asleep
    <3>14. Served'
      <4>1. ASSUME NEW e \in Disks \ {d}, queue'[e] # << >>
            PROVE  OneAwake(queue'[e], Asleep')
        <5>1. OneAwake(queue[e], Asleep)
          BY <1>0, <3>5, <4>1 DEF Served
        <5>2. next \in DOMAIN q => ~ In(queue[e], q[next].task)
          BY <1>0, <2>0, <3>8 DEF RequestsInProgress, q
        <5> QED BY <3>5, <3>13, <5>1, <5>2 DEF OneAwake
      <4>2. ASSUME queue'[d] # << >>
            PROVE  OneAwake(queue'[d], Asleep')
        <5>1. next \in DOMAIN q
          BY <3>3, <3>4, <3>5, <4>2
        <5> QED BY <3>3, <3>5, <3>6, <3>7, <3>8, <3>13, <5>1 DEF OneAwake
      <4> QED BY <4>1, <4>2 DEF Served
    <3> QED BY <3>10, <3>11, <3>12, <3>14 DEF DeviceInv
  <2> QED BY <2>3, <2>4
<1>6. ASSUME IdeHandler
      PROVE  DeviceInv'
  <2>1. /\ irq' = FALSE
        /\ UNCHANGED <<queue, direct, locked, lockWaiters, drive, left, disk,
                       current, pc>>
        /\ waiter' = None
        /\ state' = IF waiter # None THEN [state EXCEPT ![waiter] = "READY"]
                                     ELSE state
    BY <1>6 DEF IdeHandler
  <2>2. waiter # None => waiter \in Tasks /\ pc[waiter] = "sector"
    BY <1>0 DEF OneTransfer, TypeOK
  <2>3. /\ state' \in [Pid -> States]
        /\ \A n \in Pid : state'[n] = "BLOCKED" <=>
                            state[n] = "BLOCKED" /\ n # waiter
    BY <1>0, <2>1, <2>2 DEF States
  <2>4. TypeOK' /\ CurrentAwake'
    BY <1>0, <2>1, <2>3 DEF TypeOK, States, CurrentAwake
  <2>5. OneTransfer' /\ LockHeld'
    BY <1>0, <2>1 DEF OneTransfer, LockHeld
  <2>6. LockQueue' /\ RequestsInProgress'
    BY <1>0, <2>1, <2>2, <2>3 DEF LockQueue, RequestsInProgress
  <2>7. \A n \in Tasks : n \in Asleep' <=> n \in Asleep
    BY <1>0, <2>1, <2>2, <2>3 DEF Asleep
  <2>8. Served'
    BY <1>0, <2>1, <2>7 DEF Served, OneAwake
  <2> QED BY <2>4, <2>5, <2>6, <2>8 DEF DeviceInv
<1>7. ASSUME Clock
      PROVE  DeviceInv'
  <2>1. Reschedule(state) /\ UNCHANGED <<queue, direct, ctrl, disk, pc>>
    BY <1>7 DEF Clock
  <2>2. /\ state' \in [Pid -> States] /\ current' \in Pid /\ CurrentAwake'
        /\ \A n \in Tasks : state'[n] = "BLOCKED" <=> state[n] = "BLOCKED"
    BY <1>0, <2>1, RescheduleKeeps DEF TypeOK, CurrentAwake
  <2>3. TypeOK'
    BY <1>0, <2>1, <2>2 DEF TypeOK, States, ctrl
  <2>4. OneTransfer' /\ LockHeld' /\ LockQueue' /\ RequestsInProgress'
    BY <1>0, <2>1, <2>2
       DEF OneTransfer, LockHeld, LockQueue, RequestsInProgress, TypeOK, ctrl
  <2>5. \A n \in Tasks : n \in Asleep' <=> n \in Asleep
    BY <2>1, <2>2 DEF Asleep, ctrl
  <2>6. Served'
    BY <1>0, <2>1, <2>5 DEF Served, OneAwake
  <2> QED BY <2>2, <2>3, <2>4, <2>6 DEF DeviceInv
<1>8. CASE UNCHANGED vars
  BY <1>8, ZenonT(60)
     DEF DeviceInv, TypeOK, CurrentAwake, OneTransfer, LockHeld, LockQueue,
         RequestsInProgress, Served, Asleep, vars, ctrl
<1> QED
  BY <1>1, <1>2, <1>3, <1>4, <1>5, <1>6, <1>7, <1>8 DEF Next, KernelStep

(***************************************************************************)
(* Exactly one request of a list is served: what the invariant says with   *)
(* tasks, said with the places of the list.                                *)
(***************************************************************************)
LEMMA ServedIsOne == DeviceInv => OneServed
<1> SUFFICES ASSUME DeviceInv, NEW d \in Disks, queue[d] # << >>
             PROVE  \E i \in DOMAIN queue[d] :
                      /\ ~ Sleeping(queue[d][i].task)
                      /\ \A j \in DOMAIN queue[d] \ {i} :
                           Sleeping(queue[d][j].task)
  BY DEF OneServed
<1>1. queue[d] \in Seq(Req)
  BY DEF DeviceInv, TypeOK, Req
<1>2. \A i \in DOMAIN queue[d] : queue[d][i].task \in Tasks
  <2>1. \A i \in DOMAIN queue[d] : queue[d][i] \in Req
    BY <1>1
  <2> QED BY <2>1 DEF Req
<1>3. \A t \in Tasks : Sleeping(t) <=> t \in Asleep
  BY DEF Sleeping, Asleep, Queued
<1>4. PICK s \in Tasks :
        /\ In(queue[d], s) /\ s \notin Asleep
        /\ \A t \in Tasks : In(queue[d], t) /\ t # s => t \in Asleep
  BY DEF DeviceInv, Served, OneAwake
<1>5. PICK i \in DOMAIN queue[d] : queue[d][i].task = s
  BY <1>4 DEF In
<1>6. ASSUME NEW j \in DOMAIN queue[d] \ {i}
      PROVE  Sleeping(queue[d][j].task)
  <2>1. queue[d][j].task # s
    BY <1>5, <1>6 DEF DeviceInv, RequestsInProgress, Distinct
  <2> QED BY <1>2, <1>3, <1>4, <2>1 DEF In
<1> QED BY <1>3, <1>4, <1>5, <1>6

(***************************************************************************)
(* The controller moves one task's sectors at a time, on the drive that    *)
(* this task asked for, and its interrupt wakes that task and no other.    *)
(***************************************************************************)
THEOREM DeviceOneTransfer == Spec => [](TypeOK /\ OneTransfer)
<1>1. Init => DeviceInv
  BY DeviceInit
<1>2. DeviceInv /\ [Next]_vars => DeviceInv'
  BY DeviceStep
<1>3. DeviceInv => TypeOK /\ OneTransfer
  BY DEF DeviceInv
<1> QED BY <1>1, <1>2, <1>3, PTL DEF Spec

(***************************************************************************)
(* Of the requests for a disk one is served, and the tasks of the others   *)
(* sleep in device_request until it is their turn.                         *)
(***************************************************************************)
THEOREM DeviceOneServed == Spec => []OneServed
<1>1. Init => DeviceInv
  BY DeviceInit
<1>2. DeviceInv /\ [Next]_vars => DeviceInv'
  BY DeviceStep
<1>3. DeviceInv => OneServed
  BY ServedIsOne
<1> QED BY <1>1, <1>2, <1>3, PTL DEF Spec

-----------------------------------------------------------------------------
(* Names and files.  The invariant keeps the shapes of the tables and that the
   files count; Moves and Tallies say of every helper and of every call what
   it does to the count of one inode j, and add up along the calls it makes.
   The number of uses and the count are then compared step by step. *)

(***************************************************************************)
(* The shapes of what the file system keeps, as far as the counts depend   *)
(* on them: a record has its fields, an entry of a directory names an      *)
(* inode of the device, and what is mounted is a device.                   *)
(***************************************************************************)
IsFcn(f, S) == f = [a \in S |-> f[a]]

DescFields == {"type", "nlinks", "size", "zone", "index", "far", "entries"}
FsFields == {"imap", "zmap", "stale", "ino", "count", "mount", "sb", "minix", "panic"}

IsDesc(x) == IsFcn(x, DescFields) /\ x.entries \in Seq(Entry)

Inodes(ino) ==
  /\ IsFcn(ino, Dev)
  /\ \A d \in Dev : IsFcn(ino[d], Nr)
  /\ \A d \in Dev, nr \in Nr : IsDesc(ino[d][nr])

Fs(f) ==
  /\ IsFcn(f, FsFields)
  /\ Inodes(f.ino)
  /\ f.count \in [Key -> Nat]
  /\ f.mount \in [Key -> Dev \cup {0}]
  /\ f.sb \in [Dev -> Super]
  /\ f.minix \subseteq Dev

(***************************************************************************)
(* zone[0] of a device node is the number of a device.                     *)
(***************************************************************************)
Nodes(f) == \A d \in Dev, nr \in Nr :
  f.ino[d][nr].type = "blk" => f.ino[d][nr].zone \in Dev

\* What the count of inode j owes to a use of inode k.
One(j, k) == IF j = k THEN 1 ELSE 0

(***************************************************************************)
(* A helper takes f to g and does nothing to the counts but that inode j   *)
(* is counted n times more, or more often than that; or the kernel stops.  *)
(***************************************************************************)
Moves(j, f, g, n) ==
  /\ Fs(g) /\ g.sb = f.sb
  /\ Nodes(f) => Nodes(g)
  /\ g.panic = "none" => f.panic = "none" /\ g.count[j] >= f.count[j] + n

\* A walk that ends with one more use of the inode it found.
Gives(j, f, w) == w.at \in Key \cup {Null} /\ Moves(j, f, w.fs, One(j, w.at))

\* A helper that leaves counts and super blocks alone.
Disk(f, g) ==
  /\ Fs(g) /\ g.sb = f.sb /\ g.count = f.count
  /\ g.panic = "none" => f.panic = "none"

-----------------------------------------------------------------------------

\* Ones are numbers, and nothing is not an inode.
LEMMA OneNumber ==
  ASSUME NEW j \in Key
  PROVE  /\ \A k : One(j, k) \in {0, 1} /\ One(j, k) \in Int
         /\ One(j, Null) = 0 /\ Null \notin Key
<1>1. Key \subseteq Nat \X Nat
  BY SizesAssumption DEF Key, Dev, Nr
<1> QED BY <1>1, NullAssumption DEF One

\* Helpers compose, and their uses add up.
LEMMA MovesAdd ==
  ASSUME NEW j \in Key, NEW f, NEW g, NEW h, NEW a \in Int, NEW b \in Int,
         NEW c \in Int, Fs(f), Moves(j, f, g, a), Moves(j, g, h, b), c <= a + b
  PROVE  Moves(j, f, h, c)
<1>1. f.count[j] \in Nat /\ g.count[j] \in Nat /\ h.count[j] \in Nat
  BY DEF Fs, Moves
<1> QED BY <1>1 DEF Moves

\* A helper that only writes the disk moves no count.
LEMMA DiskMoves ==
  ASSUME NEW j \in Key, NEW f, NEW g, Fs(f), Disk(f, g), Nodes(f) => Nodes(g)
  PROVE  Moves(j, f, g, 0)
<1>1. f.count[j] \in Nat /\ f.count[j] + 0 = f.count[j]
  BY DEF Fs
<1> QED BY <1>1 DEF Moves, Disk

\* Disk steps compose.
LEMMA DiskAdd ==
  ASSUME NEW f, NEW g, NEW h, Disk(f, g), Disk(g, h)
  PROVE  Disk(f, h)
BY DEF Disk

-----------------------------------------------------------------------------
(* Writes to the record fs. *)

Put(f, k, desc) == [f EXCEPT !.ino[k[1]][k[2]] = desc]

Place(k) == k[1] \in Dev /\ k[2] \in Nr

\* One inode on the disk is written: nothing happens where there is none.
LEMMA PutKeeps ==
  ASSUME NEW f, Fs(f), NEW k, NEW desc, Place(k) => IsDesc(desc)
  PROVE  /\ Disk(f, Put(f, k, desc))
         /\ \A d \in Dev, nr \in Nr :
              Put(f, k, desc).ino[d][nr] =
                IF d = k[1] /\ nr = k[2] THEN desc ELSE f.ino[d][nr]
         /\ \A a \in FsFields \ {"ino"} : Put(f, k, desc)[a] = f[a]
<1> DEFINE row == [f.ino[k[1]] EXCEPT ![k[2]] = desc]
           ino == [f.ino EXCEPT ![k[1]] = row]
           g == [f EXCEPT !.ino = ino]
<1>1. Put(f, k, desc) = g
  BY DEF Put
<1>2. /\ IsFcn(g, FsFields)
      /\ \A b \in FsFields : g[b] = IF b = "ino" THEN ino ELSE f[b]
  <2> HIDE DEF ino
  <2> QED BY DEF Fs, IsFcn
<1>3. IsFcn(ino, Dev) /\ \A b \in Dev : ino[b] = IF b = k[1] THEN row ELSE f.ino[b]
  <2> HIDE DEF row
  <2> QED BY DEF Fs, Inodes, IsFcn
<1>4. k[1] \in Dev => /\ IsFcn(row, Nr)
                      /\ \A b \in Nr : row[b] = IF b = k[2] THEN desc ELSE f.ino[k[1]][b]
  BY DEF Fs, Inodes, IsFcn
<1> HIDE DEF ino, row, g
<1>5. \A d \in Dev, nr \in Nr :
        ino[d][nr] = IF d = k[1] /\ nr = k[2] THEN desc ELSE f.ino[d][nr]
  BY <1>3, <1>4
<1>6. Inodes(ino)
  BY <1>3, <1>4, <1>5 DEF Inodes, Fs, Place
<1>7. \A a \in FsFields \ {"ino"} : g[a] = f[a]
  BY <1>2
<1>8. /\ g.ino = ino /\ g.count = f.count /\ g.mount = f.mount /\ g.sb = f.sb
      /\ g.minix = f.minix /\ g.panic = f.panic
  BY <1>2 DEF FsFields
<1>9. Fs(g)
  BY <1>2, <1>6, <1>8 DEF Fs
<1> QED BY <1>1, <1>5, <1>7, <1>8, <1>9 DEF Disk

\* A bitmap is written, or what the free blocks hold.
LEMMA MapKeeps ==
  ASSUME NEW f, Fs(f), NEW map \in {"imap", "zmap", "stale"}, NEW bits
  PROVE  /\ Disk(f, [f EXCEPT ![map] = bits])
         /\ \A a \in FsFields \ {map} : [f EXCEPT ![map] = bits][a] = f[a]
<1> DEFINE g == [f EXCEPT ![map] = bits]
<1>1. /\ IsFcn(g, FsFields)
      /\ \A b \in FsFields : g[b] = IF b = map THEN bits ELSE f[b]
  BY DEF Fs, IsFcn
<1> HIDE DEF g
<1>2. /\ g.ino = f.ino /\ g.count = f.count /\ g.mount = f.mount /\ g.sb = f.sb
      /\ g.minix = f.minix /\ g.panic = f.panic
  BY <1>1 DEF FsFields
<1>3. Disk(f, g)
  BY <1>1, <1>2 DEF Fs, Disk
<1> QED BY <1>1, <1>3 DEF g

\* The kernel stops.
LEMMA PanicKeeps ==
  ASSUME NEW f, Fs(f), NEW why, why # "none"
  PROVE  /\ Disk(f, Panic(f, why)) /\ Panic(f, why).panic # "none"
         /\ \A a \in FsFields \ {"panic"} : Panic(f, why)[a] = f[a]
<1> DEFINE g == [f EXCEPT !.panic = why]
<1>1. /\ IsFcn(g, FsFields)
      /\ \A b \in FsFields : g[b] = IF b = "panic" THEN why ELSE f[b]
  BY DEF Fs, IsFcn
<1> HIDE DEF g
<1>2. /\ g.ino = f.ino /\ g.count = f.count /\ g.mount = f.mount /\ g.sb = f.sb
      /\ g.minix = f.minix /\ g.panic # "none"
  BY <1>1 DEF FsFields
<1>3. Disk(f, g)
  BY <1>1, <1>2 DEF Fs, Disk
<1>4. Disk(f, f)
  BY DEF Disk
<1>5. Panic(f, why) = IF f.panic \in {"none", "stale_index"} THEN g ELSE f
  BY DEF Panic, g
<1> QED BY <1>1, <1>2, <1>3, <1>4, <1>5

\* An assertion leaves everything but panic alone.
LEMMA CheckKeeps ==
  ASSUME NEW f, Fs(f), NEW holds, NEW why, why # "none"
  PROVE  /\ Disk(f, Check(f, holds, why))
         /\ \A a \in FsFields \ {"panic"} : Check(f, holds, why)[a] = f[a]
<1>1. Disk(f, f)
  BY DEF Disk
<1> QED BY <1>1, PanicKeeps DEF Check

\* A step that also keeps the device nodes as they should be.
Quiet(f, g) == Disk(f, g) /\ (Nodes(f) => Nodes(g))

\* Quiet helpers compose.
LEMMA QuietAdd ==
  ASSUME NEW f, NEW g, NEW h, Quiet(f, g), Quiet(g, h)
  PROVE  Quiet(f, h)
BY DEF Quiet, Disk

\* What a quiet helper leaves is a file system, with its counts and super blocks.
LEMMA QuietFs ==
  ASSUME NEW f, NEW g, Quiet(f, g)
  PROVE  Fs(g) /\ g.sb = f.sb /\ g.count = f.count
BY DEF Quiet, Disk

\* A quiet helper moves no count.
LEMMA QuietMoves ==
  ASSUME NEW j \in Key, NEW f, NEW g, Fs(f), Quiet(f, g)
  PROVE  Moves(j, f, g, 0)
BY DiskMoves DEF Quiet

\* Nothing is a step as well.
LEMMA QuietSelf ==
  ASSUME NEW f, Fs(f)
  PROVE  Quiet(f, f)
BY DEF Quiet, Disk

\* A bitmap, or panic, does not touch the inodes on the disk.
LEMMA QuietSameIno ==
  ASSUME NEW f, NEW g, Disk(f, g), g.ino = f.ino
  PROVE  Quiet(f, g)
BY DEF Quiet, Nodes

\* panic stops the kernel and changes nothing else.
LEMMA PanicQuiet ==
  ASSUME NEW f, Fs(f), NEW why, why # "none"
  PROVE  Quiet(f, Panic(f, why)) /\ Panic(f, why).ino = f.ino
                                 /\ Panic(f, why).panic # "none"
<1>1. Panic(f, why).ino = f.ino
  BY PanicKeeps DEF FsFields
<1> QED BY <1>1, PanicKeeps, QuietSameIno

\* assert changes nothing but that it may stop the kernel.
LEMMA CheckQuiet ==
  ASSUME NEW f, Fs(f), NEW holds, NEW why, why # "none"
  PROVE  Quiet(f, Check(f, holds, why)) /\ Check(f, holds, why).ino = f.ino
<1>1. Check(f, holds, why).ino = f.ino
  BY CheckKeeps DEF FsFields
<1> QED BY <1>1, CheckKeeps, QuietSameIno

\* A descriptor whose device is right if it has one.
LEMMA PutQuiet ==
  ASSUME NEW f, Fs(f), NEW k, NEW desc,
         Place(k) => IsDesc(desc) /\ (Nodes(f) /\ desc.type = "blk" => desc.zone \in Dev)
  PROVE  Quiet(f, Put(f, k, desc))
<1>1. Disk(f, Put(f, k, desc))
  BY PutKeeps
<1>2. \A d \in Dev, nr \in Nr :
        Put(f, k, desc).ino[d][nr] =
          IF d = k[1] /\ nr = k[2] THEN desc ELSE f.ino[d][nr]
  BY PutKeeps
<1>3. Nodes(f) => Nodes(Put(f, k, desc))
  <2> HIDE DEF Put
  <2> QED BY <1>2 DEF Nodes, Place
<1> QED BY <1>1, <1>3 DEF Quiet

\* An inode there is has the shape of one.
LEMMA InoDesc ==
  ASSUME NEW f, Fs(f), NEW k, Place(k)
  PROVE  /\ IsDesc(Ino(f, k))
         /\ Nodes(f) /\ Ino(f, k).type = "blk" => Ino(f, k).zone \in Dev
BY DEF Fs, Inodes, Ino, Place, Nodes

With(x, a, v) == [x EXCEPT ![a] = v]

\* One field of a descriptor is written.
LEMMA DescAt ==
  ASSUME NEW x, IsDesc(x), NEW a \in DescFields, NEW v,
         a = "entries" => v \in Seq(Entry)
  PROVE  /\ IsDesc(With(x, a, v))
         /\ \A b \in DescFields : With(x, a, v)[b] = IF b = a THEN v ELSE x[b]
<1> DEFINE y == With(x, a, v)
<1>1. IsFcn(y, DescFields) /\ \A b \in DescFields : y[b] = IF b = a THEN v ELSE x[b]
  BY DEF IsDesc, IsFcn, With
<1> HIDE DEF y
<1>2. y.entries = IF a = "entries" THEN v ELSE x.entries
  BY <1>1 DEF DescFields
<1>3. IsDesc(y)
  BY <1>1, <1>2 DEF IsDesc
<1> QED BY <1>1, <1>3 DEF y

SetField(f, k, a, v) == Put(f, k, With(Ino(f, k), a, v))

\* To write one field of an inode is quiet, as long as its type stays.
LEMMA FieldQuiet ==
  ASSUME NEW f, Fs(f), NEW k, NEW a \in DescFields \ {"type"}, NEW v,
         a = "entries" /\ Place(k) => v \in Seq(Entry),
         a = "zone" /\ Place(k) /\ Nodes(f) /\ Ino(f, k).type = "blk" => v \in Dev
  PROVE  Quiet(f, SetField(f, k, a, v))
<1> DEFINE y == With(Ino(f, k), a, v)
<1>1. ASSUME Place(k)
      PROVE  IsDesc(y) /\ (Nodes(f) /\ y.type = "blk" => y.zone \in Dev)
  <2>1. IsDesc(Ino(f, k))
    BY <1>1, InoDesc
  <2>2. IsDesc(y) /\ \A b \in DescFields : y[b] = IF b = a THEN v ELSE Ino(f, k)[b]
    BY <1>1, <2>1, DescAt
  <2>3. Nodes(f) /\ Ino(f, k).type = "blk" => Ino(f, k).zone \in Dev
    BY <1>1, InoDesc
  <2> HIDE DEF y
  <2>4. y.type = Ino(f, k).type /\ y.zone = IF a = "zone" THEN v ELSE Ino(f, k).zone
    BY <2>2 DEF DescFields
  <2> QED BY <1>1, <2>2, <2>3, <2>4
<1> HIDE DEF y
<1>2. Quiet(f, Put(f, k, y))
  BY <1>1, PutQuiet
<1> QED BY <1>2 DEF SetField, y

-----------------------------------------------------------------------------
(* bmap.c and inode_truncate. *)

\* The search of a bitmap is quiet, and finds one of the bits it may give out.
LEMMA ScanQuiet ==
  ASSUME NEW f, Fs(f), NEW d, NEW map \in {"imap", "zmap"}, NEW bits \in SUBSET Nat
  PROVE  LET a == Scan(f, d, map, bits)
         IN  Quiet(f, a.fs) /\ a.fs.ino = f.ino /\ a.bit \in bits \cup {1}
<1>1. CASE ~ Loaded(f, d)
  BY <1>1, PanicQuiet DEF Scan
<1>2. CASE Loaded(f, d) /\ bits \subseteq f[map][d]
  BY <1>2, PanicQuiet DEF Scan
<1>3. CASE Loaded(f, d) /\ ~ (bits \subseteq f[map][d])
  <2> DEFINE bit == Min(bits \ f[map][d])
             new == [f[map] EXCEPT ![d] = @ \cup {bit}]
             g == [f EXCEPT ![map] = new]
  <2>1. Scan(f, d, map, bits) = [fs |-> [f EXCEPT ![map] = new], bit |-> bit]
    BY <1>3 DEF Scan
  <2>2. bit \in bits
    <3>1. bits \ f[map][d] \in SUBSET Nat /\ bits \ f[map][d] # {}
      BY <1>3
    <3> QED BY <3>1, MinExists
  <2> HIDE DEF new, bit
  <2>3. Disk(f, g) /\ g.ino = f.ino
    BY MapKeeps DEF FsFields
  <2>4. Scan(f, d, map, bits) = [fs |-> g, bit |-> bit]
    BY <2>1
  <2> HIDE DEF g
  <2>5. Quiet(f, g)
    BY <2>3, QuietSameIno
  <2> QED BY <2>2, <2>3, <2>4, <2>5
<1> QED BY <1>1, <1>2, <1>3

\* ifree clears a bit.
LEMMA ifreeQuiet ==
  ASSUME NEW f, Fs(f), NEW k
  PROVE  Quiet(f, ifree(f, k)) /\ ifree(f, k).ino = f.ino
<1> DEFINE c == Check(f, k[2] \in f.imap[k[1]], "bitmap")
           new == [c.imap EXCEPT ![k[1]] = @ \ {k[2]}]
<1>1. ifree(f, k) = [c EXCEPT !.imap = new]
  BY DEF ifree
<1>2. Quiet(f, c) /\ c.ino = f.ino
  BY CheckQuiet
<1> HIDE DEF c, new
<1>3. Fs(c)
  BY <1>2, QuietFs
<1>4. Disk(c, [c EXCEPT !.imap = new]) /\ [c EXCEPT !.imap = new].ino = c.ino
  BY <1>3, MapKeeps DEF FsFields
<1> QED BY <1>1, <1>2, <1>4, QuietSameIno, QuietAdd

\* A device node has its zone: no block is put in its place.
LEMMA FillZoneQuiet ==
  ASSUME NEW f, Fs(f), NEW k, NEW index \in {"zone", "index", "far"}
  PROVE  Quiet(f, FillZone(f, k, index))
<1> DEFINE a == balloc(f, k[1])
<1>1. CASE Ino(f, k)[index] # 0
  BY <1>1, QuietSelf DEF FillZone
<1>2. CASE Ino(f, k)[index] = 0
  <2>1. Quiet(f, a.fs) /\ a.fs.ino = f.ino
    <3>1. Zone \in SUBSET Nat
      BY SizesAssumption DEF Zone
    <3> QED BY <3>1, ScanQuiet DEF balloc
  <2>2. FillZone(f, k, index) = SetField(a.fs, k, index, a.bit)
    BY <1>2 DEF FillZone, SetField, With, Put, Ino
  <2> HIDE DEF a
  <2>3. Fs(a.fs) /\ Ino(a.fs, k) = Ino(f, k)
    BY <2>1, QuietFs DEF Ino
  <2>4. ~ (index = "zone" /\ Place(k) /\ Nodes(a.fs) /\ Ino(a.fs, k).type = "blk")
    <3>1. 0 \notin Dev
      BY DEF Dev
    <3> QED BY <1>2, <2>3, <3>1, InoDesc
  <2>5. Quiet(a.fs, SetField(a.fs, k, index, a.bit))
    BY <2>3, <2>4, FieldQuiet DEF DescFields
  <2> QED BY <2>1, <2>2, <2>5, QuietAdd
<1> QED BY <1>1, <1>2

\* What a new block of indexes holds is taken for an index of the file.
LEMMA NewIndexesQuiet ==
  ASSUME NEW f, Fs(f), NEW k
  PROVE  /\ Quiet(f, NewIndexes(f, k))
         /\ NewIndexes(f, k) = f \/ NewIndexes(f, k).panic # "none"
<1> DEFINE first == f.stale[k[1]][Ino(f, k).index]
           g == SetField(f, k, "far", first)
           h == Panic(g, "stale_index")
<1>1. Quiet(f, g)
  BY FieldQuiet DEF DescFields
<1>2. NewIndexes(f, k) = f \/ NewIndexes(f, k) = h
  BY DEF NewIndexes, SetField, With, Put, Ino
<1> HIDE DEF g
<1>3. Quiet(g, h) /\ h.panic # "none"
  BY <1>1, QuietFs, PanicQuiet
<1> HIDE DEF h
<1>4. Quiet(f, h) /\ Quiet(f, f)
  BY <1>1, <1>3, QuietAdd, QuietSelf
<1> QED BY <1>2, <1>3, <1>4

\* bmap with create writes the block numbers of one inode.
LEMMA bmap_createQuiet ==
  ASSUME NEW f, Fs(f), NEW k, NEW block
  PROVE  Quiet(f, bmap_create(f, k, block))
<1>1. CASE block = 0
  BY <1>1, FillZoneQuiet DEF bmap_create
<1>2. CASE block # 0
  <2> DEFINE e == FillZone(f, k, "index")
             g == IF Ino(f, k).index # 0 THEN f ELSE NewIndexes(e, k)
  <2>1. Quiet(f, e)
    BY FillZoneQuiet
  <2>2. Quiet(e, NewIndexes(e, k))
    <3> HIDE DEF e
    <3> QED BY <2>1, QuietFs, NewIndexesQuiet
  <2>3. Quiet(f, g)
    <3> HIDE DEF e
    <3>1. Quiet(f, NewIndexes(e, k)) /\ Quiet(f, f)
      BY <2>1, <2>2, QuietAdd, QuietSelf
    <3> QED BY <3>1
  <2>4. bmap_create(f, k, block) = FillZone(g, k, "far")
    BY <1>2 DEF bmap_create
  <2> HIDE DEF e, g
  <2>5. Quiet(g, FillZone(g, k, "far"))
    BY <2>3, QuietFs, FillZoneQuiet
  <2> QED BY <2>3, <2>4, <2>5, QuietAdd
<1> QED BY <1>1, <1>2

\* inode_truncate frees the blocks of one inode.
LEMMA inode_truncateQuiet ==
  ASSUME NEW f, Fs(f), NEW k
  PROVE  Quiet(f, inode_truncate(f, k))
<1> DEFINE desc == Ino(f, k)
<1>1. CASE desc.type \notin {"file", "dir"}
  BY <1>1, QuietSelf DEF inode_truncate
<1>2. CASE desc.type \in {"file", "dir"}
  <2> DEFINE c == Check(f, Freed(desc) \subseteq f.zmap[k[1]], "bitmap")
             zmap == [c.zmap EXCEPT ![k[1]] = @ \ Freed(desc)]
             b == [c EXCEPT !.zmap = zmap]
             stale == [b.stale EXCEPT ![k[1]] = Left(f, k)]
             e == [b EXCEPT !.stale = stale]
             y == [Ino(e, k) EXCEPT !.zone = 0, !.index = 0, !.far = 0,
                                    !.size = 0, !.entries = << >>]
  <2>1. Quiet(f, c) /\ c.ino = f.ino
    BY CheckQuiet
  <2>2. Fs(c)
    BY <2>1, QuietFs
  <2>3. Disk(c, e) /\ e.ino = c.ino
    <3>1. Disk(c, b) /\ b.ino = c.ino
      <4> HIDE DEF c, zmap
      <4> QED BY <2>2, MapKeeps DEF FsFields
    <3>2. Disk(b, e) /\ e.ino = b.ino
      <4>1. Fs(b)
        BY <3>1 DEF Disk
      <4> HIDE DEF b, stale
      <4> QED BY <4>1, MapKeeps DEF FsFields
    <3> HIDE DEF c, b, e
    <3> QED BY <3>1, <3>2, DiskAdd
  <2>4. inode_truncate(f, k) = Put(e, k, y)
    BY <1>2, <2>2, <2>3 DEF inode_truncate, Put, Ino, Fs, IsFcn, FsFields
  <2>5. Quiet(c, e) /\ Fs(e)
    BY <2>3, QuietSameIno DEF Disk
  <2>6. Ino(e, k) = desc
    BY <2>1, <2>3 DEF Ino
  <2>7. Place(k) => IsDesc(y) /\ y.type \in {"file", "dir"}
    <3> SUFFICES ASSUME Place(k) PROVE IsDesc(y) /\ y.type \in {"file", "dir"}
      OBVIOUS
    <3>1. IsDesc(Ino(e, k))
      BY <2>5, InoDesc
    <3>2. Ino(e, k).type \in {"file", "dir"}
      BY <1>2, <2>6
    <3> DEFINE x == Ino(e, k)
    <3> HIDE DEF x, e, desc
    <3>3. IsFcn(y, DescFields) /\ y.type = x.type /\ y.entries = << >>
      BY <3>1 DEF x, IsDesc, IsFcn, DescFields
    <3>4. << >> \in Seq(Entry)
      OBVIOUS
    <3> QED BY <3>2, <3>3, <3>4 DEF IsDesc, x
  <2> HIDE DEF c, zmap, e, y, desc
  <2>8. Quiet(e, Put(e, k, y))
    BY <2>5, <2>7, PutQuiet
  <2> QED BY <2>1, <2>4, <2>5, <2>8, QuietAdd
<1> QED BY <1>1, <1>2

-----------------------------------------------------------------------------
(* inode.c and namei.c: every walk ends with one more use of what it found. *)

\* The counts are written.
LEMMA CountKeeps ==
  ASSUME NEW f, Fs(f), NEW new \in [Key -> Nat]
  PROVE  LET g == [f EXCEPT !.count = new]
         IN  /\ Fs(g) /\ g.count = new /\ g.sb = f.sb /\ g.panic = f.panic
             /\ Nodes(f) => Nodes(g)
<1> DEFINE g == [f EXCEPT !.count = new]
<1>1. /\ IsFcn(g, FsFields)
      /\ \A b \in FsFields : g[b] = IF b = "count" THEN new ELSE f[b]
  BY DEF Fs, IsFcn
<1> HIDE DEF g
<1>2. /\ g.ino = f.ino /\ g.count = new /\ g.mount = f.mount /\ g.sb = f.sb
      /\ g.minix = f.minix /\ g.panic = f.panic
  BY <1>1 DEF FsFields
<1>3. Fs(g)
  BY <1>1, <1>2 DEF Fs
<1> QED BY <1>2, <1>3 DEF g, Nodes

\* Where the code writes count++ the inode is counted once more.
LEMMA HoldMoves ==
  ASSUME NEW j \in Key, NEW f, Fs(f), NEW k
  PROVE  Moves(j, f, Hold(f, k), One(j, k))
<1> DEFINE new == [f.count EXCEPT ![k] = @ + 1]
           g == [f EXCEPT !.count = new]
<1>1. Hold(f, k) = g
  BY DEF Hold
<1>2. new \in [Key -> Nat] /\ new[j] = f.count[j] + One(j, k)
  <2> DEFINE v == f.count[k] + 1
  <2>1. f.count \in [Key -> Nat] /\ f.count[j] \in Nat /\ (k \in Key => v \in Nat)
    BY DEF Fs
  <2>2. k = j => v = f.count[j] + 1
    OBVIOUS
  <2>3. new = [f.count EXCEPT ![k] = v]
    OBVIOUS
  <2> HIDE DEF v, new
  <2>4. new \in [Key -> Nat] /\ new[j] = IF j = k THEN v ELSE f.count[j]
    BY <2>1, <2>3
  <2> QED BY <2>1, <2>2, <2>4 DEF One
<1> HIDE DEF new
<1>3. /\ Fs(g) /\ g.count = new /\ g.sb = f.sb /\ g.panic = f.panic
      /\ Nodes(f) => Nodes(g)
  BY <1>2, CountKeeps
<1> HIDE DEF g
<1>4. new[j] \in Nat
  BY <1>2
<1> QED BY <1>1, <1>2, <1>3, <1>4 DEF Moves

\* After a panic every count will do.
LEMMA PanicMoves ==
  ASSUME NEW j \in Key, NEW f, Fs(f), NEW why, why # "none", NEW n
  PROVE  Moves(j, f, Panic(f, why), n)
<1>1. Quiet(f, Panic(f, why)) /\ Panic(f, why).panic # "none"
  BY PanicQuiet
<1> QED BY <1>1 DEF Moves, Quiet, Disk

\* iput takes one use off the inode it is given, and off no other.
LEMMA iputMoves ==
  ASSUME NEW j \in Key, NEW f, Fs(f), NEW k
  PROVE  Moves(j, f, iput(f, k), - One(j, k))
<1>1. CASE k = Null
  <2>1. One(j, k) = 0 /\ - One(j, k) = 0
    BY <1>1, OneNumber
  <2>2. Moves(j, f, f, 0)
    BY QuietSelf, QuietMoves
  <2> QED BY <1>1, <2>1, <2>2 DEF iput
<1>2. CASE k # Null /\ f.count[k] = 0
  BY <1>2, PanicMoves DEF iput
<1>3. CASE k # Null /\ f.count[k] # 0
  <2> DEFINE new == [f.count EXCEPT ![k] = @ - 1]
             g == [f EXCEPT !.count = new]
  <2>1. iput(f, k) = g
    BY <1>3 DEF iput
  <2>2. new \in [Key -> Nat] /\ new[j] = f.count[j] - One(j, k)
    <3> DEFINE v == f.count[k] - 1
    <3>1. f.count \in [Key -> Nat] /\ f.count[j] \in Nat /\ (k \in Key => v \in Nat)
      BY <1>3 DEF Fs
    <3>2. k = j => v = f.count[j] - 1
      OBVIOUS
    <3>3. new = [f.count EXCEPT ![k] = v]
      OBVIOUS
    <3> HIDE DEF v, new
    <3>4. new \in [Key -> Nat] /\ new[j] = IF j = k THEN v ELSE f.count[j]
      BY <3>1, <3>3
    <3> QED BY <3>1, <3>2, <3>4 DEF One
  <2> HIDE DEF new
  <2>3. /\ Fs(g) /\ g.count = new /\ g.sb = f.sb /\ g.panic = f.panic
        /\ Nodes(f) => Nodes(g)
    BY <2>2, CountKeeps
  <2> HIDE DEF g
  <2>4. new[j] \in Nat /\ f.count[j] \in Nat /\ One(j, k) \in Int
    BY <2>2, OneNumber DEF Fs
  <2>5. new[j] >= f.count[j] + (- One(j, k))
    BY <2>2, <2>4
  <2> QED BY <2>1, <2>3, <2>5 DEF Moves
<1> QED BY <1>1, <1>2, <1>3

\* What a helper leaves is a file system.
LEMMA MovesFs ==
  ASSUME NEW j, NEW f, NEW g, NEW n, Moves(j, f, g, n)
  PROVE  Fs(g) /\ g.sb = f.sb
BY DEF Moves

\* iget adds one use of the inode it returns, the mounted root included.
LEMMA igetGives ==
  ASSUME NEW j \in Key, NEW f, Fs(f), NEW d \in Dev, NEW nr \in Nr
  PROVE  Gives(j, f, iget(f, d, nr))
<1> DEFINE k == <<d, nr>>
           over == IF f.count[k] > 0 THEN f.mount[k] ELSE 0
           to == IF over # 0 THEN f.sb[over].iroot ELSE k
<1>1. k \in Key
  BY DEF Key
<1>2. over \in Dev \cup {0}
  BY <1>1 DEF Fs
<1>3. to \in Key \cup {Null}
  BY <1>1, <1>2 DEF Fs, Super
<1>4. CASE ~ Loaded(f, d) \/ (over # 0 /\ ~ Loaded(f, over))
  <2>1. iget(f, d, nr) = [fs |-> Panic(f, "no_super"), at |-> k]
    BY <1>4 DEF iget
  <2> QED BY <1>1, <2>1, PanicMoves DEF Gives
<1>5. CASE ~ (~ Loaded(f, d) \/ (over # 0 /\ ~ Loaded(f, over)))
  <2>1. iget(f, d, nr) = [fs |-> Hold(f, to), at |-> to]
    BY <1>5 DEF iget
  <2> HIDE DEF to
  <2> QED BY <1>3, <2>1, HoldMoves DEF Gives
<1> QED BY <1>4, <1>5

\* The step over a mount point exchanges a use of the root for one of the directory.
LEMMA CrossMoves ==
  ASSUME NEW j \in Key, NEW f, Fs(f), NEW k \in Key, NEW name
  PROVE  LET c == Cross(f, k, name)
         IN  c.at \in Key /\ Moves(j, f, c.fs, One(j, c.at) - One(j, k))
<1>0. One(j, k) \in Int /\ One(j, k) - One(j, k) = 0
  BY OneNumber
<1>1. CASE name # ".." \/ k[2] # 1 \/ k = Root
  <2>1. Cross(f, k, name) = [fs |-> f, at |-> k]
    BY <1>1 DEF Cross
  <2>2. Moves(j, f, f, 0)
    BY QuietSelf, QuietMoves
  <2> QED BY <1>0, <2>1, <2>2
<1>2. CASE ~ (name # ".." \/ k[2] # 1 \/ k = Root)
  <2> DEFINE over == f.sb[k[1]].imount
  <2>1. over \in Key \cup {Null}
    BY DEF Fs, Super, Key
  <2>2. CASE over = Null
    <3>1. Cross(f, k, name) = [fs |-> Panic(f, "no_super"), at |-> k]
      BY <1>2, <2>2 DEF Cross
    <3> QED BY <3>1, PanicMoves
  <2>3. CASE over # Null
    <3>1. Cross(f, k, name) = [fs |-> iput(Hold(f, over), k), at |-> over]
      BY <1>2, <2>3 DEF Cross
    <3> HIDE DEF over
    <3> DEFINE g == Hold(f, over)
    <3>2. Moves(j, f, g, One(j, over))
      BY HoldMoves
    <3> HIDE DEF g
    <3>3. Fs(g)
      BY <3>2, MovesFs
    <3>4. Moves(j, g, iput(g, k), - One(j, k))
      BY <3>3, iputMoves
    <3>5. One(j, over) \in Int /\ One(j, k) \in Int
      BY OneNumber
    <3>6. Moves(j, f, iput(g, k), One(j, over) - One(j, k))
      BY <3>2, <3>4, <3>5, MovesAdd
    <3> QED BY <2>1, <2>3, <3>1, <3>6 DEF g
  <2> QED BY <2>2, <2>3
<1> QED BY <1>1, <1>2

\* find_entry keeps the use of the directory it ends in.
LEMMA find_entryMoves ==
  ASSUME NEW j \in Key, NEW f, Fs(f), NEW k \in Key, NEW name
  PROVE  LET e == find_entry(f, k, name)
         IN  /\ e.at \in Key
             /\ e.slot # 0 => /\ e.nr \in Nr
                              /\ e.slot \in DOMAIN Ino(e.fs, e.at).entries
             /\ Moves(j, f, e.fs, One(j, e.at) - One(j, k))
<1> DEFINE c == Cross(f, k, name)
           slots == Slots(c.fs, c.at, name)
           entries == Ino(c.fs, c.at).entries
<1>1. find_entry(f, k, name) =
        [fs |-> c.fs, at |-> c.at, slot |-> IF slots = {} THEN 0 ELSE Min(slots),
         nr |-> IF slots = {} THEN 0 ELSE entries[Min(slots)].nr]
  BY DEF find_entry
<1>2. c.at \in Key /\ Moves(j, f, c.fs, One(j, c.at) - One(j, k))
  BY CrossMoves
<1> HIDE DEF c
<1>3. Fs(c.fs) /\ Place(c.at)
  BY <1>2, MovesFs DEF Key, Place
<1>4. entries \in Seq(Entry)
  BY <1>3, InoDesc DEF IsDesc
<1>5. slots = {i \in DOMAIN entries : entries[i].nr # 0 /\ entries[i].name = name}
  BY DEF Slots
<1> HIDE DEF entries, slots
<1>6. ASSUME slots # {}
      PROVE  Min(slots) \in DOMAIN entries /\ entries[Min(slots)].nr \in Nr
  <2>1. slots \in SUBSET Nat
    BY <1>4, <1>5
  <2>2. Min(slots) \in slots
    BY <1>6, <2>1, MinExists
  <2> DEFINE i == Min(slots)
  <2> HIDE DEF i
  <2>3. i \in DOMAIN entries /\ entries[i].nr # 0
    BY <1>5, <2>2 DEF i
  <2>4. entries[i] \in Entry
    BY <1>4, <2>3
  <2>5. entries[i].nr \in 0 .. NInode
    BY <2>4 DEF Entry
  <2> QED BY <2>3, <2>5, SizesAssumption DEF Nr, i
<1> QED BY <1>1, <1>2, <1>6 DEF entries

\* One name of a path: the use of the directory becomes one of what it names.
LEMMA DownMoves ==
  ASSUME NEW j \in Key, NEW f, Fs(f), NEW k \in Key, NEW name
  PROVE  LET w == Down(f, k, name)
         IN  /\ w.at \in Key \cup {Null}
             /\ Moves(j, f, w.fs, One(j, w.at) - One(j, k))
<1> DEFINE e == find_entry(f, k, name)
           g == iput(e.fs, e.at)
           h == iget(g, e.at[1], e.nr)
           at == IF Ino(h.fs, h.at).type = "dir" /\ permission(h.fs, h.at)
                 THEN h.at ELSE Null
<1>1. Down(f, k, name) = IF e.slot = 0 THEN [fs |-> g, at |-> Null]
                         ELSE [fs |-> h.fs, at |-> at]
  BY DEF Down
<1>2. /\ e.at \in Key /\ (e.slot # 0 => e.nr \in Nr)
      /\ Moves(j, f, e.fs, One(j, e.at) - One(j, k))
  BY find_entryMoves
<1> HIDE DEF e
<1>3. Fs(e.fs)
  BY <1>2, MovesFs
<1>4. Moves(j, e.fs, g, - One(j, e.at))
  BY <1>3, iputMoves
<1> HIDE DEF g
<1>5. Fs(g)
  BY <1>4, MovesFs
<1>6. /\ One(j, k) \in Int /\ One(j, e.at) \in Int /\ One(j, Null) = 0
      /\ One(j, h.at) \in {0, 1} /\ One(j, at) \in {0, 1}
  BY OneNumber
<1>7. Moves(j, f, g, - One(j, k))
  BY <1>2, <1>4, <1>6, MovesAdd
<1>8. CASE e.slot = 0
  <2>1. One(j, Null) - One(j, k) = - One(j, k)
    BY <1>6
  <2> QED BY <1>1, <1>7, <1>8, <2>1
<1>9. CASE e.slot # 0
  <2>1. e.at[1] \in Dev
    BY <1>2 DEF Key
  <2>2. Gives(j, g, h)
    BY <1>2, <1>5, <1>9, <2>1, igetGives
  <2> HIDE DEF h
  <2>3. at \in Key \cup {Null} /\ One(j, at) <= One(j, h.at)
    BY <1>6, <2>2 DEF Gives
  <2> HIDE DEF at
  <2>4. Moves(j, f, h.fs, One(j, at) - One(j, k))
    BY <1>6, <1>7, <2>2, <2>3, MovesAdd DEF Gives
  <2> QED BY <1>1, <1>9, <2>3, <2>4
<1> QED BY <1>8, <1>9

\* The paths of a program, and where its walks begin.
IsPath(path) == path.names \in Seq(Names \cup {".", ".."})
Starts(t) == {task[t].iroot, task[t].ipwd} \subseteq Key \cup {Null}

\* Where a walk begins, and its step to the next name.
Source(t, path) == IF path.abs THEN task[t].iroot ELSE task[t].ipwd
Turn(w, name) == IF w.at = Null THEN w ELSE Down(w.fs, w.at, name)

Walk(f, t, path, after) ==
  /\ after[0] = [fs |-> Hold(f, Source(t, path)), at |-> Source(t, path)]
  /\ \A i \in 1 .. Len(path.names) : after[i] = Turn(after[i - 1], path.names[i])
  /\ \E last \in 0 .. Len(path.names) : named(f, t, path) = after[last]

\* named is a number of such steps.
LEMMA namedTurns ==
  ASSUME NEW f, NEW t, NEW path, IsPath(path)
  PROVE  \E after : Walk(f, t, path, after)
<1> DEFINE begin == [fs |-> Hold(f, Source(t, path)), at |-> Source(t, path)]
           Go(w, i) == Turn(w, path.names[i])
           count == Len(path.names)
           last == IF path.names = << >> THEN 0 ELSE Len(path.names) - 1
           Loop(p, n) == p[0] = begin /\ \A i \in 1 .. n : p[i] = Go(p[i - 1], i)
           Def(p) == p = [i \in 0 .. count |->
                            IF i = 0 THEN begin ELSE Go(p[i - 1], i)]
           after == CHOOSE p : Def(p)
<1>1. named(f, t, path) = after[last]
  BY DEF named, Turn, Source
<1>2. count \in Nat /\ last \in 0 .. count
  BY DEF IsPath
<1> HIDE DEF begin, count, last, Go, after
<1>3. \E p : Loop(p, count)
  <2> DEFINE S == {n \in 0 .. count : \E p : Loop(p, n)}
  <2>1. 0 \in S
    <3>1. Loop([i \in {0} |-> begin], 0)
      OBVIOUS
    <3> HIDE DEF Loop
    <3> QED BY <1>2, <3>1
  <2>2. ASSUME NEW n \in 0 .. count - 1, n \in S
        PROVE  n + 1 \in S
    <3>1. PICK p : Loop(p, n)
      BY <2>2
    <3> DEFINE q == [i \in 0 .. n + 1 |-> IF i = n + 1 THEN Go(p[n], n + 1) ELSE p[i]]
    <3>2. n \in Nat /\ 0 # n + 1 /\ n + 1 \in 0 .. count
      BY <1>2
    <3>3. q[0] = begin
      BY <3>1, <3>2
    <3>4. ASSUME NEW i \in 1 .. n + 1 PROVE q[i] = Go(q[i - 1], i)
      <4>1. i - 1 \in 0 .. n + 1 /\ i - 1 # n + 1 /\ i \in 0 .. n + 1
        BY <3>2
      <4>2. q[i - 1] = p[i - 1]
        BY <4>1
      <4>3. CASE i = n + 1
        <5>1. q[i] = Go(p[n], n + 1) /\ i - 1 = n
          BY <3>2, <4>1, <4>3
        <5> HIDE DEF q
        <5> QED BY <4>2, <4>3, <5>1
      <4>4. CASE i # n + 1
        <5>1. q[i] = p[i] /\ i \in 1 .. n
          BY <3>2, <4>1, <4>4
        <5> HIDE DEF q
        <5> QED BY <3>1, <4>2, <5>1
      <4> QED BY <4>3, <4>4
    <3>5. Loop(q, n + 1)
      <4> HIDE DEF q
      <4> QED BY <3>3, <3>4
    <3> HIDE DEF Loop, q
    <3> QED BY <3>2, <3>5
  <2> HIDE DEF S
  <2>3. \A n \in 0 .. count : n \in S
    BY <1>2, <2>1, <2>2, PlaceInduction
  <2>4. count \in S
    BY <1>2, <2>3
  <2> QED BY <2>4 DEF S
<1>4. \E p : Def(p)
  <2>1. PICK p : Loop(p, count)
    BY <1>3
  <2> DEFINE q == [i \in 0 .. count |-> p[i]]
  <2>2. ASSUME NEW i \in 0 .. count
        PROVE  q[i] = IF i = 0 THEN begin ELSE Go(q[i - 1], i)
    <3>1. CASE i = 0
      BY <2>1, <3>1
    <3>2. CASE i # 0
      <4>1. i \in 1 .. count /\ i - 1 \in 0 .. count
        BY <1>2, <3>2
      <4>2. q[i] = p[i] /\ q[i - 1] = p[i - 1]
        BY <4>1
      <4>3. p[i] = Go(p[i - 1], i)
        BY <2>1, <4>1
      <4> HIDE DEF q
      <4> QED BY <3>2, <4>2, <4>3
    <3> QED BY <3>1, <3>2
  <2>3. q = [i \in 0 .. count |-> q[i]]
    OBVIOUS
  <2> HIDE DEF q
  <2>4. Def(q)
    BY <2>2, <2>3
  <2> QED BY <2>4
<1>5. Def(after)
  BY <1>4 DEF after
<1>6. /\ after[0] = begin
      /\ \A i \in 1 .. count : after[i] = Go(after[i - 1], i)
  BY <1>2, <1>5
<1>7. Walk(f, t, path, after)
  BY <1>1, <1>2, <1>6 DEF begin, Go, count, Walk
<1> QED BY <1>7

\* named adds one use of the directory it returns, and on failure none.
LEMMA namedGives ==
  ASSUME NEW j \in Key, NEW f, Fs(f), NEW t, Starts(t), NEW path, IsPath(path)
  PROVE  Gives(j, f, named(f, t, path))
<1> DEFINE start == Source(t, path)
           begin == [fs |-> Hold(f, start), at |-> start]
           count == Len(path.names)
<1>0. PICK after : Walk(f, t, path, after)
  BY namedTurns
<1>1. /\ count \in Nat /\ after[0] = begin
      /\ \A i \in 1 .. count : after[i] = Turn(after[i - 1], path.names[i])
      /\ \E last \in 0 .. count : named(f, t, path) = after[last]
  BY <1>0 DEF Walk, IsPath
<1>2. start \in Key \cup {Null}
  BY DEF Starts, Source
<1>3. Gives(j, f, begin)
  <2> HIDE DEF start
  <2> QED BY <1>2, HoldMoves DEF Gives
<1>4. ASSUME NEW w, NEW name, Gives(j, f, w) PROVE Gives(j, f, Turn(w, name))
  <2>1. CASE w.at = Null
    BY <1>4, <2>1 DEF Turn
  <2>2. CASE w.at # Null
    <3> DEFINE v == Down(w.fs, w.at, name)
    <3>1. w.at \in Key /\ Moves(j, f, w.fs, One(j, w.at)) /\ Fs(w.fs)
      BY <1>4, <2>2, MovesFs DEF Gives
    <3>2. v.at \in Key \cup {Null} /\ Moves(j, w.fs, v.fs, One(j, v.at) - One(j, w.at))
      BY <3>1, DownMoves
    <3> HIDE DEF v
    <3>3. One(j, w.at) \in Int /\ One(j, v.at) \in Int
      BY OneNumber
    <3>4. Moves(j, f, v.fs, One(j, v.at))
      BY <3>1, <3>2, <3>3, MovesAdd
    <3> QED BY <2>2, <3>2, <3>4 DEF Gives, Turn, v
  <2> QED BY <2>1, <2>2
<1> HIDE DEF begin, start, count
<1>5. \A i \in 0 .. count : Gives(j, f, after[i])
  <2> DEFINE S == {i \in 0 .. count : Gives(j, f, after[i])}
  <2>1. 0 \in S
    BY <1>1, <1>3
  <2>2. ASSUME NEW n \in 0 .. count - 1, n \in S
        PROVE  n + 1 \in S
    <3>1. n + 1 \in 1 .. count /\ n + 1 - 1 = n /\ n + 1 \in 0 .. count
      BY <1>1
    <3>2. after[n + 1] = Turn(after[n], path.names[n + 1])
      BY <1>1, <3>1
    <3>3. Gives(j, f, after[n])
      BY <2>2
    <3> QED BY <1>4, <3>1, <3>2, <3>3
  <2> HIDE DEF S
  <2>3. \A n \in 0 .. count : n \in S
    BY <1>1, <2>1, <2>2, PlaceInduction
  <2> QED BY <2>3 DEF S
<1> QED BY <1>1, <1>5

\* What find_entry found is taken, and the directory it looked in given back.
LEMMA nameiGives ==
  ASSUME NEW j \in Key, NEW f, Fs(f), NEW t, Starts(t), NEW path, IsPath(path)
  PROVE  Gives(j, f, namei(f, t, path))
<1> DEFINE w == named(f, t, path)
           e == LastEntry(w, path)
           g == iget(e.fs, e.at[1], e.nr)
<1>1. namei(f, t, path) =
        IF w.at = Null \/ path.names = << >> THEN w
        ELSE IF e.slot = 0 THEN [fs |-> iput(e.fs, e.at), at |-> Null]
        ELSE [fs |-> iput(g.fs, e.at), at |-> g.at]
  BY DEF namei
<1>2. Gives(j, f, w)
  BY namedGives
<1> HIDE DEF w
<1>3. CASE w.at = Null \/ path.names = << >>
  BY <1>1, <1>2, <1>3
<1>4. CASE ~ (w.at = Null \/ path.names = << >>)
  <2>1. w.at \in Key /\ Moves(j, f, w.fs, One(j, w.at)) /\ Fs(w.fs)
    BY <1>2, <1>4, MovesFs DEF Gives
  <2>2. /\ e.at \in Key /\ (e.slot # 0 => e.nr \in Nr)
        /\ Moves(j, w.fs, e.fs, One(j, e.at) - One(j, w.at))
    BY <2>1, find_entryMoves DEF LastEntry
  <2> HIDE DEF e
  <2>3. One(j, w.at) \in Int /\ One(j, e.at) \in Int /\ One(j, g.at) \in Int
        /\ One(j, Null) = 0
    BY OneNumber
  <2>4. Moves(j, f, e.fs, One(j, e.at)) /\ Fs(e.fs)
    <3> DEFINE a == One(j, w.at)
               b == One(j, e.at) - One(j, w.at)
               c == One(j, e.at)
    <3>1. a \in Int /\ b \in Int /\ c \in Int /\ c <= a + b
      BY <2>3
    <3>2. Moves(j, f, w.fs, a) /\ Moves(j, w.fs, e.fs, b)
      BY <2>1, <2>2
    <3> HIDE DEF a, b, c
    <3>3. Moves(j, f, e.fs, c)
      BY <3>1, <3>2, MovesAdd
    <3> QED BY <3>3, MovesFs DEF c
  <2>5. CASE e.slot = 0
    <3>1. Moves(j, e.fs, iput(e.fs, e.at), - One(j, e.at))
      BY <2>4, iputMoves
    <3>2. Moves(j, f, iput(e.fs, e.at), 0)
      BY <2>3, <2>4, <3>1, MovesAdd
    <3>3. namei(f, t, path) = [fs |-> iput(e.fs, e.at), at |-> Null]
      BY <1>1, <1>4, <2>5
    <3> QED BY <2>3, <3>2, <3>3 DEF Gives
  <2>6. CASE e.slot # 0
    <3>1. e.at[1] \in Dev
      BY <2>2 DEF Key
    <3>2. Gives(j, e.fs, g)
      BY <2>2, <2>4, <2>6, <3>1, igetGives
    <3>3. namei(f, t, path) = [fs |-> iput(g.fs, e.at), at |-> g.at]
      BY <1>1, <1>4, <2>6
    <3> HIDE DEF g
    <3>4. Moves(j, e.fs, g.fs, One(j, g.at)) /\ Fs(g.fs)
      BY <3>2, MovesFs DEF Gives
    <3>5. Moves(j, g.fs, iput(g.fs, e.at), - One(j, e.at))
      BY <3>4, iputMoves
    <3>6. Moves(j, f, g.fs, One(j, e.at) + One(j, g.at))
      BY <2>3, <2>4, <3>4, MovesAdd
    <3>7. Moves(j, f, iput(g.fs, e.at), One(j, g.at))
      BY <2>3, <3>5, <3>6, MovesAdd
    <3> QED BY <3>2, <3>3, <3>7 DEF Gives
  <2> QED BY <2>5, <2>6
<1> QED BY <1>3, <1>4

\* The last component of a path is a name.
LEMMA LastName ==
  ASSUME NEW path, IsPath(path), path.names # << >>
  PROVE  Last(path.names) \in Names \cup {".", ".."}
BY DEF IsPath, Last

\* To write one entry of a directory is quiet.
LEMMA SetEntryQuiet ==
  ASSUME NEW f, Fs(f), NEW k, NEW slot, NEW nr \in 0 .. NInode
  PROVE  Quiet(f, SetEntry(f, k, slot, nr))
<1> DEFINE entries == Ino(f, k).entries
           new == [entries EXCEPT ![slot].nr = nr]
<1>1. SetEntry(f, k, slot, nr) = SetField(f, k, "entries", new)
  BY DEF SetEntry, SetField, With, Put, Ino
<1>2. Place(k) => new \in Seq(Entry)
  <2> SUFFICES ASSUME Place(k) PROVE new \in Seq(Entry)
    OBVIOUS
  <2>1. entries \in Seq(Entry)
    BY InoDesc DEF IsDesc
  <2> DEFINE v == [entries[slot] EXCEPT !.nr = nr]
  <2>2. slot \in DOMAIN entries => v \in Entry
    <3> SUFFICES ASSUME slot \in DOMAIN entries PROVE v \in Entry
      OBVIOUS
    <3>1. entries[slot] \in Entry
      BY <2>1
    <3> HIDE DEF entries
    <3> QED BY <3>1 DEF Entry
  <2>3. new = [entries EXCEPT ![slot] = v]
    OBVIOUS
  <2> HIDE DEF v, new, entries
  <2>4. /\ entries \in [1 .. Len(entries) -> Entry]
        /\ DOMAIN entries = 1 .. Len(entries) /\ Len(entries) \in Nat
    BY <2>1
  <2>5. new \in [1 .. Len(entries) -> Entry]
    BY <2>2, <2>3, <2>4
  <2> QED BY <2>4, <2>5
<1> HIDE DEF new
<1> QED BY <1>1, <1>2, FieldQuiet DEF DescFields

\* To write nlinks is quiet.
LEMMA LinksQuiet ==
  ASSUME NEW f, Fs(f), NEW k, NEW n
  PROVE  Quiet(f, Links(f, k, n))
<1>1. Links(f, k, n) = SetField(f, k, "nlinks", n)
  BY DEF Links, SetField, With, Put, Ino
<1> QED BY <1>1, FieldQuiet DEF DescFields

\* add_entry is quiet.
LEMMA add_entryQuiet ==
  ASSUME NEW f, Fs(f), NEW k, NEW name \in Names \cup {".", ".."}
  PROVE  Quiet(f, add_entry(f, k, name).fs)
<1> DEFINE entries == Ino(f, k).entries
           gaps == {i \in DOMAIN entries : entries[i].nr = 0}
           at == IF gaps = {} THEN Len(entries) + 1 ELSE Min(gaps)
           entry == [name |-> name, nr |-> 0]
           g == bmap_create(f, k, (at - 1) \div BLOCK_DENTRIES)
           new == IF gaps = {} THEN Append(Ino(g, k).entries, entry)
                  ELSE [Ino(g, k).entries EXCEPT ![at] = entry]
<1>1. add_entry(f, k, name).fs = SetField(g, k, "entries", new)
  BY DEF add_entry, SetField, With, Put, Ino
<1>2. Quiet(f, g)
  BY bmap_createQuiet
<1> HIDE DEF g
<1>3. Fs(g)
  BY <1>2, QuietFs
<1>4. entry \in Entry
  BY SizesAssumption DEF Entry
<1>5. Place(k) => new \in Seq(Entry)
  <2> SUFFICES ASSUME Place(k) PROVE new \in Seq(Entry)
    OBVIOUS
  <2>1. Ino(g, k).entries \in Seq(Entry)
    BY <1>3, InoDesc DEF IsDesc
  <2> DEFINE old == Ino(g, k).entries
  <2> HIDE DEF entry, gaps, at, old
  <2>2. old \in Seq(Entry)
    BY <2>1 DEF old
  <2>3. Append(old, entry) \in Seq(Entry)
    BY <1>4, <2>2
  <2>4. [old EXCEPT ![at] = entry] \in Seq(Entry)
    <3>1. old \in [1 .. Len(old) -> Entry] /\ Len(old) \in Nat
      BY <2>2
    <3>2. [old EXCEPT ![at] = entry] \in [1 .. Len(old) -> Entry]
      BY <1>4, <3>1
    <3> QED BY <3>1, <3>2
  <2> QED BY <2>3, <2>4 DEF old
<1> HIDE DEF new
<1>6. Quiet(g, SetField(g, k, "entries", new))
  BY <1>3, <1>5, FieldQuiet DEF DescFields
<1> QED BY <1>1, <1>2, <1>6, QuietAdd

\* A new name: the inode allocated is used once more.  A device node has its
\* device when mknod has set it.
LEMMA CreateGives ==
  ASSUME NEW j \in Key, NEW f, Fs(f), NEW k \in Key,
         NEW name \in Names \cup {".", ".."}, NEW type, NEW d \in Dev
  PROVE  LET c == Create(f, k, name, type)
         IN  /\ c.at \in Key \cup {Null}
             /\ type # "blk" => Gives(j, f, c)
             /\ Moves(j, f, SetField(c.fs, c.at, "zone", d), One(j, c.at))
<1> DEFINE e == add_entry(f, k, name)
           a == ialloc(e.fs, k[1])
           s == SetEntry(a.fs, k, e.slot, a.bit)
           g == iget(s, k[1], a.bit)
           y == [Ino(g.fs, g.at) EXCEPT !.type = type, !.nlinks = 1, !.size = 0,
                                        !.entries = << >>]
           c == Create(f, k, name, type)
<1>1. g = [fs |-> g.fs, at |-> g.at]
  BY DEF iget
<1>2. c = [fs |-> Put(g.fs, g.at, y), at |-> g.at]
  <2>1. c = [g EXCEPT !.fs.ino[g.at[1]][g.at[2]] =
               [@ EXCEPT !.type = type, !.nlinks = 1, !.size = 0, !.entries = << >>]]
    BY DEF Create
  <2> HIDE DEF g, c
  <2> QED BY <1>1, <2>1 DEF Put, Ino
<1>3. Quiet(f, e.fs)
  BY add_entryQuiet
<1> HIDE DEF e
<1>4. Fs(e.fs) /\ Nr \in SUBSET Nat /\ 1 \in Nr
  BY <1>3, QuietFs, SizesAssumption DEF Nr
<1>5. Quiet(e.fs, a.fs) /\ a.bit \in Nr
  BY <1>4, ScanQuiet DEF ialloc
<1> HIDE DEF a
<1>6. Fs(a.fs) /\ a.bit \in 0 .. NInode /\ k[1] \in Dev
  BY <1>5, QuietFs DEF Nr, Key
<1>7. Quiet(a.fs, s)
  BY <1>6, SetEntryQuiet
<1> HIDE DEF s
<1>8. Quiet(f, s) /\ Fs(s)
  BY <1>3, <1>5, <1>7, QuietAdd, QuietFs
<1>9. Gives(j, s, g)
  BY <1>5, <1>6, <1>8, igetGives
<1> HIDE DEF g
<1>10. g.at \in Key \cup {Null} /\ One(j, g.at) \in Int
  BY <1>9, OneNumber DEF Gives
<1>11. Moves(j, f, g.fs, One(j, g.at)) /\ Fs(g.fs)
  <2>1. Moves(j, f, s, 0)
    BY <1>8, QuietMoves
  <2> QED BY <1>9, <1>10, <2>1, MovesAdd, MovesFs DEF Gives
<1>12. Place(g.at) => IsDesc(y) /\ y.type = type
  <2> SUFFICES ASSUME Place(g.at) PROVE IsDesc(y) /\ y.type = type
    OBVIOUS
  <2> DEFINE x == Ino(g.fs, g.at)
  <2>1. IsDesc(x)
    BY <1>11, InoDesc
  <2> HIDE DEF x
  <2>2. IsFcn(y, DescFields) /\ y.type = type /\ y.entries = << >>
    BY <2>1 DEF x, IsDesc, IsFcn, DescFields
  <2>3. << >> \in Seq(Entry)
    OBVIOUS
  <2> QED BY <2>2, <2>3 DEF IsDesc
<1> HIDE DEF y, c
<1> DEFINE h == Put(g.fs, g.at, y)
<1>13. ASSUME type # "blk" PROVE Gives(j, f, c)
  <2>1. Quiet(g.fs, h)
    BY <1>11, <1>12, <1>13, PutQuiet
  <2>2. Moves(j, g.fs, h, 0)
    BY <1>11, <2>1, QuietMoves
  <2> HIDE DEF h
  <2>3. Moves(j, f, h, One(j, g.at))
    BY <1>10, <1>11, <2>2, MovesAdd
  <2> QED BY <1>2, <1>10, <2>3 DEF Gives, h
<1>14. Moves(j, f, SetField(h, g.at, "zone", d), One(j, g.at))
  <2> DEFINE z == With(Ino(h, g.at), "zone", d)
             i == Put(h, g.at, z)
  <2>1. /\ Disk(g.fs, h)
        /\ \A b \in Dev, nr \in Nr :
             h.ino[b][nr] = IF b = g.at[1] /\ nr = g.at[2] THEN y ELSE g.fs.ino[b][nr]
    BY <1>11, <1>12, PutKeeps
  <2> HIDE DEF h
  <2>2. Fs(h) /\ (Place(g.at) => Ino(h, g.at) = y)
    BY <2>1 DEF Disk, Place, Ino
  <2>3. Place(g.at) => IsDesc(z) /\ z.zone = d
    BY <1>12, <2>2, DescAt DEF DescFields
  <2> HIDE DEF z
  <2>4. /\ Disk(h, i)
        /\ \A b \in Dev, nr \in Nr :
             i.ino[b][nr] = IF b = g.at[1] /\ nr = g.at[2] THEN z ELSE h.ino[b][nr]
    BY <2>2, <2>3, PutKeeps
  <2> HIDE DEF i
  <2>5. Disk(g.fs, i)
    BY <2>1, <2>4, DiskAdd
  <2>6. \A b \in Dev, nr \in Nr :
          i.ino[b][nr] = IF b = g.at[1] /\ nr = g.at[2] THEN z ELSE g.fs.ino[b][nr]
    BY <2>1, <2>4
  <2>7. Nodes(g.fs) => Nodes(i)
    BY <2>3, <2>6 DEF Nodes, Place
  <2>8. Moves(j, g.fs, i, 0)
    BY <1>11, <2>5, <2>7, DiskMoves
  <2>9. Moves(j, f, i, One(j, g.at))
    BY <1>10, <1>11, <2>8, MovesAdd
  <2> QED BY <2>9 DEF SetField, i, z
<1> QED BY <1>2, <1>10, <1>13, <1>14 DEF h, c

\* The directory of a path that may be written, and the entry in it.
LEMMA WritableGives ==
  ASSUME NEW j \in Key, NEW f, Fs(f), NEW t, Starts(t), NEW path, IsPath(path)
  PROVE  LET e == Writable(f, t, path)
         IN  /\ Gives(j, f, e)
             /\ e.at # Null => /\ path.names # << >>
                               /\ e.slot # 0 => e.nr \in Nr
<1> DEFINE w == named(f, t, path)
           e == LastEntry(w, path)
<1>1. Writable(f, t, path) =
        IF w.at = Null THEN [fs |-> w.fs, at |-> Null, slot |-> 0]
        ELSE IF path.names = << >> \/ ~ permission(w.fs, w.at)
        THEN [fs |-> iput(w.fs, w.at), at |-> Null, slot |-> 0] ELSE e
  BY DEF Writable
<1>2. Gives(j, f, w)
  BY namedGives
<1> HIDE DEF w
<1>3. Moves(j, f, w.fs, One(j, w.at)) /\ Fs(w.fs) /\ One(j, w.at) \in Int
      /\ One(j, Null) = 0
  BY <1>2, MovesFs, OneNumber DEF Gives
<1>4. CASE w.at = Null
  BY <1>1, <1>2, <1>4 DEF Gives
<1>5. CASE w.at # Null /\ (path.names = << >> \/ ~ permission(w.fs, w.at))
  <2>1. Moves(j, w.fs, iput(w.fs, w.at), - One(j, w.at))
    BY <1>3, iputMoves
  <2>2. Moves(j, f, iput(w.fs, w.at), 0)
    BY <1>3, <2>1, MovesAdd
  <2>3. Writable(f, t, path) = [fs |-> iput(w.fs, w.at), at |-> Null, slot |-> 0]
    BY <1>1, <1>5
  <2> QED BY <1>3, <2>2, <2>3 DEF Gives
<1>6. CASE w.at # Null /\ ~ (path.names = << >> \/ ~ permission(w.fs, w.at))
  <2>1. w.at \in Key
    BY <1>2, <1>6 DEF Gives
  <2>2. /\ e.at \in Key /\ (e.slot # 0 => e.nr \in Nr)
        /\ Moves(j, w.fs, e.fs, One(j, e.at) - One(j, w.at))
    BY <1>3, <2>1, find_entryMoves DEF LastEntry
  <2> HIDE DEF e
  <2>3. One(j, e.at) \in Int
    BY OneNumber
  <2>4. Moves(j, f, e.fs, One(j, e.at))
    BY <1>3, <2>2, <2>3, MovesAdd
  <2> QED BY <1>1, <1>6, <2>2, <2>4 DEF Gives
<1> QED BY <1>4, <1>5, <1>6

\* A use is given back.
LEMMA GiveBack ==
  ASSUME NEW j \in Key, NEW f, Fs(f), NEW g, NEW k, NEW n \in Int,
         Moves(j, f, g, One(j, k) + n)
  PROVE  Moves(j, f, iput(g, k), n)
<1>1. Fs(g) /\ One(j, k) \in Int
  BY MovesFs, OneNumber
<1>2. Moves(j, g, iput(g, k), - One(j, k))
  BY <1>1, iputMoves
<1> QED BY <1>1, <1>2, MovesAdd

\* What was taken is given back.
LEMMA GiveBackLast ==
  ASSUME NEW j \in Key, NEW f, Fs(f), NEW g, NEW k, Moves(j, f, g, One(j, k))
  PROVE  Moves(j, f, iput(g, k), 0)
<1>1. One(j, k) \in Int /\ One(j, k) = One(j, k) + 0
  BY OneNumber
<1>2. Moves(j, f, g, One(j, k) + 0)
  BY <1>1
<1> QED BY <1>2, GiveBack

\* Uses are only more than was said.
LEMMA MovesLess ==
  ASSUME NEW j \in Key, NEW f, Fs(f), NEW g, NEW a \in Int, NEW b \in Int,
         Moves(j, f, g, a), b <= a
  PROVE  Moves(j, f, g, b)
<1>1. f.count[j] \in Nat /\ g.count[j] \in Nat
  BY DEF Fs, Moves
<1> QED BY <1>1 DEF Moves

\* A quiet step after a helper.
LEMMA ThenQuiet ==
  ASSUME NEW j \in Key, NEW f, Fs(f), NEW g, NEW h, NEW n \in Int,
         Moves(j, f, g, n), Quiet(g, h)
  PROVE  Moves(j, f, h, n)
<1>1. Moves(j, g, h, 0)
  BY MovesFs, QuietMoves
<1> QED BY <1>1, MovesAdd

\* A new name adds one use of the directory it goes into.
LEMMA AbsentGives ==
  ASSUME NEW j \in Key, NEW f, Fs(f), NEW t, Starts(t), NEW path, IsPath(path)
  PROVE  LET w == Absent(f, t, path)
         IN  Gives(j, f, w) /\ (w.at # Null => path.names # << >>)
<1> DEFINE e == Writable(f, t, path)
<1>1. Absent(f, t, path) = IF e.slot = 0 THEN [fs |-> e.fs, at |-> e.at]
                           ELSE [fs |-> iput(e.fs, e.at), at |-> Null]
  BY DEF Absent
<1>2. Gives(j, f, e) /\ (e.at # Null => path.names # << >>)
  BY WritableGives
<1> HIDE DEF e
<1>3. CASE e.slot = 0
  BY <1>1, <1>2, <1>3 DEF Gives
<1>4. CASE e.slot # 0
  <2>1. Moves(j, f, iput(e.fs, e.at), 0) /\ One(j, Null) = 0
    BY <1>2, GiveBackLast, OneNumber DEF Gives
  <2> QED BY <1>1, <1>4, <2>1 DEF Gives
<1> QED BY <1>3, <1>4

\* An old name adds one use of what it names and one of its directory.
LEMMA PresentGives ==
  ASSUME NEW j \in Key, NEW f, Fs(f), NEW t, Starts(t), NEW path, IsPath(path)
  PROVE  LET p == Present(f, t, path)
         IN  /\ p.at = Null => Moves(j, f, p.fs, 0)
             /\ p.at # Null => /\ p.at \in Key /\ p.dir \in Key
                               /\ Moves(j, f, p.fs, One(j, p.at) + One(j, p.dir))
<1> DEFINE e == Writable(f, t, path)
           g == iget(e.fs, e.at[1], e.nr)
<1>1. Present(f, t, path) =
        IF e.at = Null THEN [fs |-> e.fs, dir |-> Null, slot |-> 0, at |-> Null]
        ELSE IF e.slot = 0
        THEN [fs |-> iput(e.fs, e.at), dir |-> Null, slot |-> 0, at |-> Null]
        ELSE [fs |-> g.fs, dir |-> e.at, slot |-> e.slot, at |-> g.at]
  BY DEF Present
<1>2. Gives(j, f, e) /\ (e.at # Null /\ e.slot # 0 => e.nr \in Nr)
  BY WritableGives
<1> HIDE DEF e
<1>3. Moves(j, f, e.fs, One(j, e.at)) /\ Fs(e.fs) /\ One(j, e.at) \in {0, 1}
      /\ One(j, Null) = 0
  BY <1>2, MovesFs, OneNumber DEF Gives
<1>4. CASE e.at = Null
  BY <1>1, <1>3, <1>4
<1>5. CASE e.at # Null /\ e.slot = 0
  <2>1. Moves(j, f, iput(e.fs, e.at), 0)
    BY <1>3, GiveBackLast
  <2> QED BY <1>1, <1>5, <2>1
<1>6. CASE e.at # Null /\ e.slot # 0
  <2>1. e.at \in Key /\ e.at[1] \in Dev
    BY <1>2, <1>6 DEF Gives, Key
  <2>2. Gives(j, e.fs, g)
    BY <1>2, <1>3, <1>6, <2>1, igetGives
  <2> HIDE DEF g
  <2>3. One(j, g.at) \in {0, 1}
    BY OneNumber
  <2>4. Moves(j, f, g.fs, One(j, g.at) + One(j, e.at)) /\ Moves(j, f, g.fs, 0)
    BY <1>3, <2>2, <2>3, MovesAdd DEF Gives
  <2> QED BY <1>1, <1>6, <2>1, <2>2, <2>4 DEF Gives
<1> QED BY <1>4, <1>5, <1>6

-----------------------------------------------------------------------------
(* System calls on names use nothing that they do not give back. *)

\* sys_mkdir, every error path included, gives back every inode it takes.
LEMMA MkdirMoves ==
  ASSUME NEW j \in Key, Fs(fs), NEW t, Starts(t), NEW path, IsPath(path),
         Mkdir(t, path)
  PROVE  Moves(j, fs, fs', 0)
<1> DEFINE w == Absent(fs, t, path)
           c == Create(w.fs, w.at, Last(path.names), "dir")
           new == <<w.at[1], c.at[2]>>
           y == [Ino(c.fs, new) EXCEPT !.nlinks = 2,
                                       !.entries = Dots(c.at[2], w.at[2])]
           h == Put(c.fs, new, y)
           i == Links(h, w.at, Ino(h, w.at).nlinks + 1)
           b == bmap_create(i, c.at, 0)
           raw == [c.fs EXCEPT !.ino[w.at[1]][c.at[2]] =
                     [@ EXCEPT !.nlinks = 2, !.entries = Dots(c.at[2], w.at[2])]]
<1>0. raw = h
  <2> HIDE DEF c, w
  <2>1. new[1] = w.at[1] /\ new[2] = c.at[2]
    OBVIOUS
  <2>2. y = [c.fs.ino[w.at[1]][c.at[2]] EXCEPT !.nlinks = 2,
                                       !.entries = Dots(c.at[2], w.at[2])]
    BY <2>1 DEF Ino
  <2> HIDE DEF y, new
  <2>3. h = [c.fs EXCEPT !.ino[w.at[1]][c.at[2]] = y]
    BY <2>1 DEF Put
  <2> QED BY <2>2, <2>3
<1>1. fs' = IF w.at = Null THEN w.fs ELSE iput(iput(b, c.at), w.at)
  <2>1. fs' = IF w.at = Null THEN w.fs
              ELSE iput(iput(bmap_create(Links(raw, w.at, Ino(raw, w.at).nlinks + 1),
                                         c.at, 0), c.at), w.at)
    BY DEF Mkdir
  <2> HIDE DEF raw, h, c, w
  <2> QED BY <1>0, <2>1
<1>2. Gives(j, fs, w) /\ (w.at # Null => path.names # << >>)
  BY AbsentGives
<1> HIDE DEF w
<1>3. Moves(j, fs, w.fs, One(j, w.at)) /\ Fs(w.fs) /\ One(j, w.at) \in {0, 1}
      /\ One(j, Null) = 0
  BY <1>2, MovesFs, OneNumber DEF Gives
<1>4. CASE w.at = Null
  BY <1>1, <1>3, <1>4
<1>5. CASE w.at # Null
  <2>1. w.at \in Key /\ w.at[1] \in Dev /\ w.at[2] \in Nr
    BY <1>2, <1>5 DEF Gives, Key
  <2>2. Gives(j, w.fs, c)
    <3>1. Last(path.names) \in Names \cup {".", ".."}
      BY <1>2, <1>5, LastName
    <3>2. PICK d \in Dev : TRUE
      BY <2>1
    <3> QED BY <1>3, <2>1, <3>1, <3>2, CreateGives
  <2> HIDE DEF c
  <2>3. Fs(c.fs) /\ One(j, c.at) \in {0, 1}
    BY <2>2, MovesFs, OneNumber DEF Gives
  <2>4. Moves(j, fs, c.fs, One(j, c.at) + One(j, w.at))
    BY <1>3, <2>2, <2>3, MovesAdd DEF Gives
  <2>5. Place(new) => Dots(c.at[2], w.at[2]) \in Seq(Entry)
    <3> SUFFICES ASSUME Place(new) PROVE Dots(c.at[2], w.at[2]) \in Seq(Entry)
      OBVIOUS
    <3>1. c.at[2] \in 0 .. NInode /\ w.at[2] \in 0 .. NInode
      BY <2>1 DEF Place, Nr
    <3>2. /\ [name |-> ".", nr |-> c.at[2]] \in Entry
          /\ [name |-> "..", nr |-> w.at[2]] \in Entry
      BY <3>1 DEF Entry
    <3> QED BY <3>2 DEF Dots
  <2> HIDE DEF new
  <2>6. Place(new) => IsDesc(y) /\ (Nodes(c.fs) /\ y.type = "blk" => y.zone \in Dev)
    <3> SUFFICES ASSUME Place(new)
                 PROVE  IsDesc(y) /\ (Nodes(c.fs) /\ y.type = "blk" => y.zone \in Dev)
      OBVIOUS
    <3> DEFINE x == Ino(c.fs, new)
    <3>1. IsDesc(x) /\ (Nodes(c.fs) /\ x.type = "blk" => x.zone \in Dev)
      BY <2>3, InoDesc
    <3> HIDE DEF x
    <3>2. /\ IsFcn(y, DescFields) /\ y.entries = Dots(c.at[2], w.at[2])
          /\ y.type = x.type /\ y.zone = x.zone
      BY <3>1 DEF x, IsDesc, IsFcn, DescFields
    <3> QED BY <2>5, <3>1, <3>2 DEF IsDesc
  <2> HIDE DEF y
  <2>7. Quiet(c.fs, h)
    BY <2>3, <2>6, PutQuiet
  <2> HIDE DEF h
  <2>8. Fs(h)
    BY <2>7, QuietFs
  <2>9. Quiet(h, i)
    BY <2>8, LinksQuiet
  <2> HIDE DEF i
  <2>10. Fs(i)
    BY <2>9, QuietFs
  <2>11. Quiet(i, b)
    BY <2>10, bmap_createQuiet
  <2> HIDE DEF b
  <2>12. Quiet(c.fs, b)
    BY <2>7, <2>9, <2>11, QuietAdd
  <2>13. Moves(j, fs, b, One(j, c.at) + One(j, w.at))
    BY <1>3, <2>3, <2>4, <2>12, ThenQuiet
  <2>14. Moves(j, fs, iput(b, c.at), One(j, w.at))
    BY <1>3, <2>13, GiveBack
  <2>15. Moves(j, fs, iput(iput(b, c.at), w.at), 0)
    BY <2>14, GiveBackLast
  <2> QED BY <1>1, <1>5, <2>15
<1> QED BY <1>4, <1>5

\* sys_rmdir gives back every inode it takes.
LEMMA RmdirMoves ==
  ASSUME NEW j \in Key, Fs(fs), NEW t, Starts(t), NEW path, IsPath(path),
         Rmdir(t, path)
  PROVE  Moves(j, fs, fs', 0)
<1> DEFINE w == named(fs, t, path)
           p == Present(fs, t, path)
           r == RemoveDir(p)
<1>1. \/ fs' = iput(w.fs, w.at)
      \/ p.at = Null /\ fs' = p.fs
      \/ p.at # Null /\ \E g \in {r, p.fs} : fs' = iput(iput(g, p.at), p.dir)
  BY DEF Rmdir
<1>2. CASE fs' = iput(w.fs, w.at)
  <2>1. Gives(j, fs, w)
    BY namedGives
  <2> HIDE DEF w
  <2> QED BY <1>2, <2>1, GiveBackLast DEF Gives
<1>3. /\ p.at = Null => Moves(j, fs, p.fs, 0)
      /\ p.at # Null => Moves(j, fs, p.fs, One(j, p.at) + One(j, p.dir))
  BY PresentGives
<1> HIDE DEF p
<1>4. CASE p.at = Null /\ fs' = p.fs
  BY <1>3, <1>4
<1>5. CASE p.at # Null /\ \E g \in {r, p.fs} : fs' = iput(iput(g, p.at), p.dir)
  <2>1. Fs(p.fs) /\ One(j, p.at) \in {0, 1} /\ One(j, p.dir) \in {0, 1}
    BY <1>3, <1>5, MovesFs, OneNumber
  <2>2. Quiet(p.fs, r)
    <3> DEFINE a == inode_truncate(p.fs, p.at)
               b == ifree(a, p.at)
               freed == Links(b, p.at, 0)
               rest == Ino(p.fs, p.dir).nlinks - 1
               ok == Ino(p.fs, p.at).nlinks = 2 /\ rest > 0
               d == Check(freed, ok, "links")
               e == Links(d, p.dir, rest)
    <3>1. r = SetEntry(e, p.dir, p.slot, 0)
      BY DEF RemoveDir
    <3>2. Quiet(p.fs, a)
      BY <2>1, inode_truncateQuiet
    <3> HIDE DEF a
    <3>3. Quiet(a, b)
      BY <3>2, ifreeQuiet, QuietFs
    <3> HIDE DEF b
    <3>4. Quiet(b, freed)
      BY <3>3, LinksQuiet, QuietFs
    <3> HIDE DEF freed, rest, ok
    <3>5. Quiet(freed, d)
      BY <3>4, CheckQuiet, QuietFs
    <3> HIDE DEF d
    <3>6. Quiet(d, e)
      BY <3>5, LinksQuiet, QuietFs
    <3> HIDE DEF e
    <3>7. 0 \in 0 .. NInode
      BY SizesAssumption
    <3>8. Quiet(e, SetEntry(e, p.dir, p.slot, 0))
      BY <3>6, <3>7, SetEntryQuiet, QuietFs
    <3>9. Quiet(p.fs, e)
      BY <3>2, <3>3, <3>4, <3>5, <3>6, QuietAdd
    <3> QED BY <3>1, <3>8, <3>9, QuietAdd
  <2> HIDE DEF r
  <2>3. PICK g \in {r, p.fs} : fs' = iput(iput(g, p.at), p.dir)
    BY <1>5
  <2>4. Moves(j, fs, g, One(j, p.at) + One(j, p.dir))
    BY <1>3, <1>5, <2>1, <2>2, ThenQuiet
  <2>5. Moves(j, fs, iput(g, p.at), One(j, p.dir))
    BY <2>1, <2>4, GiveBack
  <2> QED BY <2>3, <2>5, GiveBackLast
<1> QED BY <1>1, <1>2, <1>4, <1>5

\* sys_link gives back every inode it takes.
LEMMA LinkMoves ==
  ASSUME NEW j \in Key, Fs(fs), NEW t, Starts(t), NEW old, IsPath(old),
         NEW new, IsPath(new), Link(t, old, new)
  PROVE  Moves(j, fs, fs', 0)
<1> DEFINE n == namei(fs, t, old)
           k == n.at
           w == Absent(n.fs, t, new)
           e == add_entry(w.fs, w.at, Last(new.names))
           s == SetEntry(e.fs, w.at, e.slot, k[2])
           made == Links(s, k, Ino(e.fs, k).nlinks + 1)
<1>1. \/ k = Null /\ fs' = n.fs
      \/ k # Null /\ fs' = iput(n.fs, k)
      \/ k # Null /\ w.at = Null /\ fs' = iput(w.fs, k)
      \/ k # Null /\ w.at # Null /\ fs' = iput(iput(w.fs, w.at), k)
      \/ k # Null /\ w.at # Null /\ fs' = iput(iput(made, w.at), k)
  BY DEF Link
<1>2. Gives(j, fs, n)
  BY nameiGives
<1> HIDE DEF n
<1>3. Moves(j, fs, n.fs, One(j, k)) /\ Fs(n.fs) /\ One(j, k) \in {0, 1}
      /\ One(j, Null) = 0
  BY <1>2, MovesFs, OneNumber DEF Gives
<1>4. Gives(j, n.fs, w) /\ (w.at # Null => new.names # << >>)
  BY <1>3, AbsentGives
<1> HIDE DEF w
<1>5. Fs(w.fs) /\ One(j, w.at) \in {0, 1}
  BY <1>4, MovesFs, OneNumber DEF Gives
<1>6. Moves(j, fs, w.fs, One(j, w.at) + One(j, k))
  BY <1>3, <1>4, <1>5, MovesAdd DEF Gives
<1>7. CASE k = Null /\ fs' = n.fs
  BY <1>3, <1>7
<1>8. CASE k # Null /\ fs' = iput(n.fs, k)
  BY <1>3, <1>8, GiveBackLast
<1>9. CASE k # Null /\ w.at = Null /\ fs' = iput(w.fs, k)
  <2>1. Moves(j, fs, w.fs, One(j, k))
    BY <1>3, <1>6, <1>9
  <2> QED BY <1>9, <2>1, GiveBackLast
<1>10. CASE k # Null /\ w.at # Null /\ fs' = iput(iput(w.fs, w.at), k)
  <2>1. Moves(j, fs, iput(w.fs, w.at), One(j, k))
    BY <1>3, <1>6, GiveBack
  <2> QED BY <1>10, <2>1, GiveBackLast
<1>11. CASE k # Null /\ w.at # Null /\ fs' = iput(iput(made, w.at), k)
  <2>1. Last(new.names) \in Names \cup {".", ".."}
    BY <1>4, <1>11, LastName
  <2>2. Quiet(w.fs, e.fs)
    BY <1>5, <2>1, add_entryQuiet
  <2> HIDE DEF e
  <2>3. k[2] \in 0 .. NInode /\ Fs(e.fs)
    BY <1>2, <1>11, <2>2, QuietFs DEF Gives, Key, Nr
  <2>4. Quiet(e.fs, s)
    BY <2>3, SetEntryQuiet
  <2> HIDE DEF s
  <2>5. Quiet(s, made)
    BY <2>4, LinksQuiet, QuietFs
  <2> HIDE DEF made
  <2>6. Quiet(w.fs, made)
    BY <2>2, <2>4, <2>5, QuietAdd
  <2>7. Moves(j, fs, made, One(j, w.at) + One(j, k))
    BY <1>3, <1>5, <1>6, <2>6, ThenQuiet
  <2>8. Moves(j, fs, iput(made, w.at), One(j, k))
    BY <1>3, <2>7, GiveBack
  <2> QED BY <1>11, <2>8, GiveBackLast
<1> QED BY <1>1, <1>7, <1>8, <1>9, <1>10, <1>11

\* sys_unlink gives back every inode it takes.
LEMMA UnlinkMoves ==
  ASSUME NEW j \in Key, Fs(fs), NEW t, Starts(t), NEW path, IsPath(path),
         Unlink(t, path)
  PROVE  Moves(j, fs, fs', 0)
<1> DEFINE p == Present(fs, t, path)
           n == Ino(p.fs, p.at).nlinks
           c == Check(p.fs, n > 0, "links")
           s == SetEntry(c, p.dir, p.slot, 0)
           less == Links(s, p.at, n - 1)
           cut == inode_truncate(less, p.at)
           drop == ifree(cut, p.at)
<1>1. \/ p.at = Null /\ fs' = p.fs
      \/ p.at # Null /\ \E g \in {p.fs, less, drop} : fs' = iput(iput(g, p.at), p.dir)
  BY DEF Unlink
<1>2. /\ p.at = Null => Moves(j, fs, p.fs, 0)
      /\ p.at # Null => Moves(j, fs, p.fs, One(j, p.at) + One(j, p.dir))
  BY PresentGives
<1> HIDE DEF p
<1>3. CASE p.at = Null /\ fs' = p.fs
  BY <1>2, <1>3
<1>4. CASE p.at # Null /\ \E g \in {p.fs, less, drop} : fs' = iput(iput(g, p.at), p.dir)
  <2>1. Fs(p.fs) /\ One(j, p.at) \in {0, 1} /\ One(j, p.dir) \in {0, 1}
    BY <1>2, <1>4, MovesFs, OneNumber
  <2>2. Quiet(p.fs, c)
    BY <2>1, CheckQuiet
  <2> HIDE DEF c
  <2>3. 0 \in 0 .. NInode /\ Fs(c)
    BY <2>2, QuietFs, SizesAssumption
  <2>4. Quiet(c, s)
    BY <2>3, SetEntryQuiet
  <2> HIDE DEF s
  <2>5. Quiet(s, less)
    BY <2>4, LinksQuiet, QuietFs
  <2> HIDE DEF less
  <2>6. Quiet(less, cut)
    BY <2>5, inode_truncateQuiet, QuietFs
  <2> HIDE DEF cut
  <2>7. Quiet(cut, drop)
    BY <2>6, ifreeQuiet, QuietFs
  <2> HIDE DEF drop
  <2>8. Quiet(p.fs, less) /\ Quiet(p.fs, drop) /\ Quiet(p.fs, p.fs)
    BY <2>1, <2>2, <2>4, <2>5, <2>6, <2>7, QuietAdd, QuietSelf
  <2>9. PICK g \in {p.fs, less, drop} : fs' = iput(iput(g, p.at), p.dir)
    BY <1>4
  <2>10. Quiet(p.fs, g)
    BY <2>8, <2>9
  <2>11. Moves(j, fs, g, One(j, p.at) + One(j, p.dir))
    BY <1>2, <1>4, <2>1, <2>10, ThenQuiet
  <2>12. Moves(j, fs, iput(g, p.at), One(j, p.dir))
    BY <2>1, <2>11, GiveBack
  <2> QED BY <2>9, <2>12, GiveBackLast
<1> QED BY <1>1, <1>3, <1>4

\* sys_mknod gives back every inode it takes.
LEMMA MknodMoves ==
  ASSUME NEW j \in Key, Fs(fs), NEW t, Starts(t), NEW path, IsPath(path),
         NEW d \in Dev, Mknod(t, path, d)
  PROVE  Moves(j, fs, fs', 0)
<1> DEFINE w == Absent(fs, t, path)
           c == Create(w.fs, w.at, Last(path.names), "blk")
           g == SetField(c.fs, c.at, "zone", d)
<1>1. fs' = IF w.at = Null THEN w.fs ELSE iput(iput(g, c.at), w.at)
  BY DEF Mknod, SetField, With, Put, Ino
<1>2. Gives(j, fs, w) /\ (w.at # Null => path.names # << >>)
  BY AbsentGives
<1> HIDE DEF w
<1>3. Moves(j, fs, w.fs, One(j, w.at)) /\ Fs(w.fs) /\ One(j, w.at) \in {0, 1}
      /\ One(j, Null) = 0
  BY <1>2, MovesFs, OneNumber DEF Gives
<1>4. CASE w.at = Null
  BY <1>1, <1>3, <1>4
<1>5. CASE w.at # Null
  <2>1. w.at \in Key
    BY <1>2, <1>5 DEF Gives
  <2>2. Last(path.names) \in Names \cup {".", ".."}
    BY <1>2, <1>5, LastName
  <2>3. Moves(j, w.fs, g, One(j, c.at))
    BY <1>3, <2>1, <2>2, CreateGives
  <2> HIDE DEF g, c
  <2>4. One(j, c.at) \in {0, 1}
    BY OneNumber
  <2>5. Moves(j, fs, g, One(j, c.at) + One(j, w.at))
    BY <1>3, <2>3, <2>4, MovesAdd
  <2>6. Moves(j, fs, iput(g, c.at), One(j, w.at))
    BY <1>3, <2>5, GiveBack
  <2>7. Moves(j, fs, iput(iput(g, c.at), w.at), 0)
    BY <2>6, GiveBackLast
  <2> QED BY <1>1, <1>5, <2>7
<1> QED BY <1>4, <1>5

\* sys_stat gives back the inode it takes.
LEMMA StatMoves ==
  ASSUME NEW j \in Key, Fs(fs), NEW t, Starts(t), NEW path, IsPath(path),
         Stat(t, path)
  PROVE  Moves(j, fs, fs', 0)
<1> DEFINE n == namei(fs, t, path)
<1>1. fs' = iput(n.fs, n.at)
  BY DEF Stat
<1>2. Gives(j, fs, n)
  BY nameiGives
<1> HIDE DEF n
<1> QED BY <1>1, <1>2, GiveBackLast DEF Gives

-----------------------------------------------------------------------------
(* How often something is used. *)

Count(S, F, j) == Cardinality({u \in S : F[u] = j})

\* One of a finite number of users changes what it uses.
LEMMA Recount ==
  ASSUME NEW S, IsFiniteSet(S), NEW F, NEW G, NEW s \in S,
         \A u \in S \ {s} : G[u] = F[u], NEW j
  PROVE  /\ Count(S, F, j) \in Nat /\ Count(S, G, j) \in Nat
         /\ Count(S, G, j) = Count(S, F, j) + One(j, G[s]) - One(j, F[s])
<1> DEFINE A == {u \in S \ {s} : F[u] = j}
           f == {u \in S : F[u] = j}
           g == {u \in S : G[u] = j}
<1>1. IsFiniteSet(A) /\ s \notin A /\ Cardinality(A) \in Nat
  <2>1. A \subseteq S
    OBVIOUS
  <2> QED BY <2>1, FS_Subset, FS_CardinalityType
<1>2. IsFiniteSet(A \cup {s}) /\ Cardinality(A \cup {s}) = Cardinality(A) + 1
  BY <1>1, FS_AddElement
<1>3. f = (IF F[s] = j THEN A \cup {s} ELSE A) /\ g = (IF G[s] = j THEN A \cup {s} ELSE A)
  OBVIOUS
<1>4. Cardinality(f) = Cardinality(A) + One(j, F[s])
  <2> HIDE DEF A, f, g
  <2> QED BY <1>1, <1>2, <1>3 DEF One
<1>5. Cardinality(g) = Cardinality(A) + One(j, G[s])
  <2> HIDE DEF A, f, g
  <2> QED BY <1>1, <1>2, <1>3 DEF One
<1>6. One(j, F[s]) \in {0, 1} /\ One(j, G[s]) \in {0, 1}
  BY DEF One
<1> HIDE DEF A, f, g
<1>7. Cardinality(f) \in Nat /\ Cardinality(g) \in Nat
      /\ Cardinality(g) = Cardinality(f) + One(j, G[s]) - One(j, F[s])
  BY <1>1, <1>4, <1>5, <1>6
<1> QED BY <1>7 DEF f, g, Count

\* The tables are finite.
LEMMA FiniteTables ==
  /\ IsFiniteSet(Dev) /\ IsFiniteSet(Task) /\ IsFiniteSet(File) /\ IsFiniteSet(Fd)
<1>1. {NDev, NTask, NFile, NFd} \subseteq Nat
  BY SizesAssumption
<1> QED BY <1>1, FS_Interval DEF Dev, Task, File, Fd

\* The uses of inode j by super blocks, by tasks and by files.
TopUses(j, sb) == Cardinality({d \in Dev : sb[d]["iroot"] = j})
                    + Cardinality({d \in Dev : sb[d]["imount"] = j})
TaskUses(j, tk) == Cardinality({t \in Task : tk[t]["iroot"] = j})
                     + Cardinality({t \in Task : tk[t]["ipwd"] = j})
                     + Cardinality({t \in Task : tk[t]["iexec"] = j})
FileUses(j, fl) == Cardinality({n \in File : fl[n].inode = j})

\* One super block changes.
LEMMA TopsChange ==
  ASSUME NEW j, NEW sb, NEW new, NEW d \in Dev, \A e \in Dev \ {d} : new[e] = sb[e]
  PROVE  /\ TopUses(j, sb) \in Nat /\ TopUses(j, new) \in Nat
         /\ TopUses(j, new) = TopUses(j, sb)
              + One(j, new[d].iroot) - One(j, sb[d].iroot)
              + One(j, new[d].imount) - One(j, sb[d].imount)
<1> DEFINE F(a) == [e \in Dev |-> sb[e][a]]
           G(a) == [e \in Dev |-> new[e][a]]
<1>1. ASSUME NEW a
      PROVE  /\ Count(Dev, F(a), j) \in Nat /\ Count(Dev, G(a), j) \in Nat
             /\ Count(Dev, G(a), j) =
                  Count(Dev, F(a), j) + One(j, new[d][a]) - One(j, sb[d][a])
  <2>1. \A u \in Dev \ {d} : G(a)[u] = F(a)[u]
    OBVIOUS
  <2>2. G(a)[d] = new[d][a] /\ F(a)[d] = sb[d][a]
    OBVIOUS
  <2>3. IsFiniteSet(Dev)
    BY FiniteTables
  <2> HIDE DEF F, G
  <2> QED BY <2>1, <2>2, <2>3, Recount
<1>2. \A a : /\ Count(Dev, F(a), j) = Cardinality({e \in Dev : sb[e][a] = j})
            /\ Count(Dev, G(a), j) = Cardinality({e \in Dev : new[e][a] = j})
  <2> SUFFICES ASSUME NEW a
               PROVE  /\ Count(Dev, F(a), j) = Cardinality({e \in Dev : sb[e][a] = j})
                      /\ Count(Dev, G(a), j) = Cardinality({e \in Dev : new[e][a] = j})
    OBVIOUS
  <2>1. /\ {e \in Dev : F(a)[e] = j} = {e \in Dev : sb[e][a] = j}
        /\ {e \in Dev : G(a)[e] = j} = {e \in Dev : new[e][a] = j}
    OBVIOUS
  <2> HIDE DEF F, G
  <2> QED BY <2>1 DEF Count
<1> DEFINE f(a) == Count(Dev, F(a), j)
           g(a) == Count(Dev, G(a), j)
<1>4. TopUses(j, sb) = f("iroot") + f("imount") /\ TopUses(j, new) = g("iroot") + g("imount")
  <2> HIDE DEF F, G
  <2> QED BY <1>2 DEF TopUses
<1>5. \A k : One(j, k) \in {0, 1}
  BY DEF One
<1>6. /\ f("iroot") \in Nat /\ g("iroot") \in Nat
      /\ g("iroot") = f("iroot") + One(j, new[d]["iroot"]) - One(j, sb[d]["iroot"])
      /\ f("imount") \in Nat /\ g("imount") \in Nat
      /\ g("imount") = f("imount") + One(j, new[d]["imount"]) - One(j, sb[d]["imount"])
  <2> HIDE DEF F, G
  <2> QED BY <1>1
<1> HIDE DEF f, g, F, G
<1> QED BY <1>4, <1>5, <1>6

\* A step that may change super blocks: inode j is counted n times more than
\* its uses by super blocks are.
Tallies(j, f, g, n) ==
  /\ Fs(g)
  /\ Nodes(f) => Nodes(g)
  /\ g.panic = "none" =>
       /\ f.panic = "none"
       /\ g.count[j] >= f.count[j] + n + TopUses(j, g.sb) - TopUses(j, f.sb)

\* The uses by super blocks are a number.
LEMMA TopsNumber ==
  ASSUME NEW j, NEW sb
  PROVE  TopUses(j, sb) \in Nat
<1>1. PICK d \in Dev : TRUE
  BY SizesAssumption DEF Dev
<1> QED BY <1>1, TopsChange

\* A helper that leaves the super blocks alone.
LEMMA MovesTallies ==
  ASSUME NEW j \in Key, NEW f, Fs(f), NEW g, NEW n \in Int, Moves(j, f, g, n)
  PROVE  Tallies(j, f, g, n)
<1>1. f.count[j] \in Nat /\ g.count[j] \in Nat /\ TopUses(j, f.sb) \in Nat
  BY TopsNumber DEF Fs, Moves
<1> QED BY <1>1 DEF Moves, Tallies

\* Steps compose, and their tallies add up.
LEMMA TalliesAdd ==
  ASSUME NEW j \in Key, NEW f, Fs(f), NEW g, NEW h, NEW a \in Int, NEW b \in Int,
         NEW c \in Int, Tallies(j, f, g, a), Tallies(j, g, h, b), c <= a + b
  PROVE  Tallies(j, f, h, c)
<1>1. /\ f.count[j] \in Nat /\ g.count[j] \in Nat /\ h.count[j] \in Nat
      /\ TopUses(j, f.sb) \in Nat /\ TopUses(j, g.sb) \in Nat /\ TopUses(j, h.sb) \in Nat
  BY TopsNumber DEF Fs, Tallies
<1> QED BY <1>1 DEF Tallies

\* One super block is written.
LEMMA SuperTallies ==
  ASSUME NEW j \in Key, NEW f, Fs(f), NEW d \in Dev, NEW new \in Super, NEW n \in Int,
         n <= One(j, f.sb[d].iroot) - One(j, new.iroot)
                + One(j, f.sb[d].imount) - One(j, new.imount)
  PROVE  Tallies(j, f, [f EXCEPT !.sb = [f.sb EXCEPT ![d] = new]], n)
<1> DEFINE sb == [f.sb EXCEPT ![d] = new]
           g == [f EXCEPT !.sb = sb]
<1>1. sb \in [Dev -> Super] /\ sb[d] = new /\ \A e \in Dev \ {d} : sb[e] = f.sb[e]
  BY DEF Fs
<1> HIDE DEF sb
<1>2. /\ IsFcn(g, FsFields)
      /\ \A b \in FsFields : g[b] = IF b = "sb" THEN sb ELSE f[b]
  BY DEF Fs, IsFcn
<1> HIDE DEF g
<1>3. /\ g.ino = f.ino /\ g.count = f.count /\ g.mount = f.mount /\ g.sb = sb
      /\ g.minix = f.minix /\ g.panic = f.panic
  BY <1>2 DEF FsFields
<1>4. Fs(g)
  BY <1>1, <1>2, <1>3 DEF Fs
<1>5. Nodes(f) => Nodes(g)
  BY <1>3 DEF Nodes
<1>6. /\ TopUses(j, f.sb) \in Nat /\ TopUses(j, sb) \in Nat
      /\ TopUses(j, sb) = TopUses(j, f.sb)
           + One(j, new.iroot) - One(j, f.sb[d].iroot)
           + One(j, new.imount) - One(j, f.sb[d].imount)
  <2>1. \A e \in Dev \ {d} : sb[e] = f.sb[e]
    BY <1>1
  <2>2. /\ TopUses(j, f.sb) \in Nat /\ TopUses(j, sb) \in Nat
        /\ TopUses(j, sb) = TopUses(j, f.sb)
             + One(j, sb[d].iroot) - One(j, f.sb[d].iroot)
             + One(j, sb[d].imount) - One(j, f.sb[d].imount)
    BY <2>1, TopsChange
  <2> QED BY <1>1, <2>2
<1>7. \A k : One(j, k) \in Int
  BY OneNumber
<1>8. f.count[j] \in Nat
  BY DEF Fs
<1>9. f.count[j] >= f.count[j] + n + TopUses(j, sb) - TopUses(j, f.sb)
  BY <1>6, <1>7, <1>8
<1>10. Tallies(j, f, g, n)
  BY <1>3, <1>4, <1>5, <1>9 DEF Tallies
<1> QED BY <1>10 DEF g, sb

\* A device is mounted on a directory, or none is.
LEMMA MountMoves ==
  ASSUME NEW j \in Key, NEW f, Fs(f), NEW k, NEW d \in Dev \cup {0}
  PROVE  Moves(j, f, [f EXCEPT !.mount[k] = d], 0)
<1> DEFINE new == [f.mount EXCEPT ![k] = d]
           g == [f EXCEPT !.mount = new]
<1>1. [f EXCEPT !.mount[k] = d] = g
  OBVIOUS
<1>2. new \in [Key -> Dev \cup {0}]
  BY DEF Fs
<1> HIDE DEF new
<1>3. /\ IsFcn(g, FsFields)
      /\ \A b \in FsFields : g[b] = IF b = "mount" THEN new ELSE f[b]
  BY DEF Fs, IsFcn
<1> HIDE DEF g
<1>4. /\ g.ino = f.ino /\ g.count = f.count /\ g.mount = new /\ g.sb = f.sb
      /\ g.minix = f.minix /\ g.panic = f.panic
  BY <1>3 DEF FsFields
<1>5. Fs(g) /\ (Nodes(f) => Nodes(g)) /\ f.count[j] \in Nat
  BY <1>2, <1>3, <1>4 DEF Fs, Nodes
<1>6. Moves(j, f, g, 0)
  BY <1>4, <1>5 DEF Moves
<1> QED BY <1>1, <1>6

\* The number in a device node is that of a device.
LEMMA NodeDev ==
  ASSUME NEW f, Fs(f), Nodes(f), NEW k \in Key, Ino(f, k).type = "blk"
  PROVE  Ino(f, k).zone \in Dev
<1>1. Place(k)
  BY DEF Place, Key
<1> QED BY <1>1, InoDesc

\* read_super names no inode.
LEMMA read_superTallies ==
  ASSUME NEW j \in Key, NEW f, Fs(f), NEW d \in Dev
  PROVE  Tallies(j, f, read_super(f, d).fs, 0)
<1>1. CASE Loaded(f, d)
  <2> DEFINE g == Check(f, d \in f.minix, "not_minix")
  <2>1. read_super(f, d).fs = g
    BY <1>1 DEF read_super
  <2>2. Moves(j, f, g, 0)
    BY CheckQuiet, QuietMoves
  <2> HIDE DEF g
  <2> QED BY <2>1, <2>2, MovesTallies
<1>2. CASE ~ Loaded(f, d)
  <2> DEFINE new == [f.sb[d] EXCEPT !.count = 1]
  <2>1. read_super(f, d).fs = [f EXCEPT !.sb = [f.sb EXCEPT ![d] = new]]
    BY <1>2 DEF read_super
  <2>2. new \in Super /\ new.iroot = f.sb[d].iroot /\ new.imount = f.sb[d].imount
    BY DEF Fs, Super
  <2> HIDE DEF new
  <2>3. 0 <= One(j, f.sb[d].iroot) - One(j, new.iroot)
               + One(j, f.sb[d].imount) - One(j, new.imount)
    BY <2>2, OneNumber
  <2> QED BY <2>1, <2>2, <2>3, SuperTallies
<1> QED BY <1>1, <1>2

\* sys_mount: the super block has the two uses that are kept.
LEMMA MountTallies ==
  ASSUME NEW j \in Key, Fs(fs), Nodes(fs), NEW t, Starts(t),
         NEW node, IsPath(node), NEW path, IsPath(path), Mount(t, node, path)
  PROVE  Tallies(j, fs, fs', 0)
<1> DEFINE n == namei(fs, t, node)
           d == Ino(n.fs, n.at).zone
           p == namei(n.fs, t, path)
           s == read_super(p.fs, d)
           i == iget(s.fs, d, 1)
           new == [i.fs.sb[d] EXCEPT !.iroot = i.at, !.imount = p.at]
           h == [i.fs EXCEPT !.sb = [i.fs.sb EXCEPT ![d] = new]]
           h2 == [h EXCEPT !.mount[p.at] = d]
           raw == [i.fs EXCEPT !.sb[d] = [@ EXCEPT !.iroot = i.at, !.imount = p.at],
                               !.mount[p.at] = d]
<1>1. \/ n.at = Null /\ fs' = n.fs
      \/ n.at # Null /\ fs' = iput(n.fs, n.at)
      \/ /\ n.at # Null /\ Ino(n.fs, n.at).type = "blk"
         /\ \/ p.at = Null /\ fs' = iput(p.fs, n.at)
            \/ p.at # Null /\ fs' = iput(iput(p.fs, n.at), p.at)
            \/ p.at # Null /\ fs' = iput(iput(s.fs, n.at), p.at)
            \/ p.at # Null /\ fs' = iput(raw, n.at)
  BY DEF Mount
<1>2. Gives(j, fs, n)
  BY nameiGives
<1> HIDE DEF n
<1>3. Moves(j, fs, n.fs, One(j, n.at)) /\ Fs(n.fs) /\ Nodes(n.fs)
      /\ One(j, n.at) \in {0, 1} /\ One(j, Null) = 0
  BY <1>2, MovesFs, OneNumber DEF Gives, Moves
<1>4. CASE n.at = Null /\ fs' = n.fs
  BY <1>3, <1>4, MovesTallies
<1>5. CASE n.at # Null /\ fs' = iput(n.fs, n.at)
  <2>1. Moves(j, fs, iput(n.fs, n.at), 0)
    BY <1>3, GiveBackLast
  <2> QED BY <1>5, <2>1, MovesTallies
<1>6. CASE /\ n.at # Null /\ Ino(n.fs, n.at).type = "blk"
           /\ \/ p.at = Null /\ fs' = iput(p.fs, n.at)
              \/ p.at # Null /\ fs' = iput(iput(p.fs, n.at), p.at)
              \/ p.at # Null /\ fs' = iput(iput(s.fs, n.at), p.at)
              \/ p.at # Null /\ fs' = iput(raw, n.at)
  <2>1. d \in Dev
    BY <1>2, <1>3, <1>6, NodeDev DEF Gives
  <2> HIDE DEF d
  <2>2. Gives(j, n.fs, p)
    BY <1>3, nameiGives
  <2> HIDE DEF p
  <2>3. Fs(p.fs) /\ One(j, p.at) \in {0, 1}
    BY <2>2, MovesFs, OneNumber DEF Gives
  <2>4. Moves(j, fs, p.fs, One(j, n.at) + One(j, p.at))
    BY <1>3, <2>2, <2>3, MovesAdd DEF Gives
  <2>5. CASE p.at = Null /\ fs' = iput(p.fs, n.at)
    <3>1. Moves(j, fs, p.fs, One(j, n.at))
      BY <1>3, <2>4, <2>5
    <3>2. Moves(j, fs, iput(p.fs, n.at), 0)
      BY <3>1, GiveBackLast
    <3> QED BY <2>5, <3>2, MovesTallies
  <2>6. CASE p.at # Null /\ fs' = iput(iput(p.fs, n.at), p.at)
    <3>1. Moves(j, fs, iput(p.fs, n.at), One(j, p.at))
      BY <2>3, <2>4, GiveBack
    <3>2. Moves(j, fs, iput(iput(p.fs, n.at), p.at), 0)
      BY <3>1, GiveBackLast
    <3> QED BY <2>6, <3>2, MovesTallies
  <2>7. Tallies(j, p.fs, s.fs, 0)
    BY <2>1, <2>3, read_superTallies
  <2> HIDE DEF s
  <2>8. Fs(s.fs) /\ Tallies(j, fs, s.fs, One(j, n.at) + One(j, p.at))
    <3>1. Fs(s.fs)
      BY <2>7 DEF Tallies
    <3>2. Tallies(j, fs, p.fs, One(j, n.at) + One(j, p.at))
      BY <1>3, <2>3, <2>4, MovesTallies
    <3> QED BY <1>3, <2>3, <2>7, <3>1, <3>2, TalliesAdd
  <2>9. CASE p.at # Null /\ fs' = iput(iput(s.fs, n.at), p.at)
    <3> DEFINE b == iput(s.fs, n.at)
    <3>1. Moves(j, s.fs, b, - One(j, n.at))
      BY <2>8, iputMoves
    <3> HIDE DEF b
    <3>2. Moves(j, b, iput(b, p.at), - One(j, p.at))
      BY <3>1, MovesFs, iputMoves
    <3>3. Moves(j, s.fs, iput(b, p.at), - One(j, n.at) - One(j, p.at))
      BY <1>3, <2>3, <2>8, <3>1, <3>2, MovesAdd
    <3>4. Tallies(j, s.fs, iput(b, p.at), - One(j, n.at) - One(j, p.at))
      BY <1>3, <2>3, <2>8, <3>3, MovesTallies
    <3>5. Tallies(j, fs, iput(b, p.at), 0)
      BY <1>3, <2>3, <2>8, <3>4, TalliesAdd
    <3> QED BY <2>9, <3>5 DEF b
  <2>10. CASE p.at # Null /\ fs' = iput(raw, n.at)
    <3>1. 1 \in Nr /\ p.at \in Key
      BY <2>2, <2>10, SizesAssumption DEF Nr, Gives
    <3>2. Gives(j, s.fs, i)
      BY <2>1, <2>8, <3>1, igetGives
    <3> HIDE DEF i
    <3>3. Fs(i.fs) /\ One(j, i.at) \in {0, 1} /\ Tallies(j, s.fs, i.fs, One(j, i.at))
      BY <2>8, <3>2, MovesFs, MovesTallies, OneNumber DEF Gives
    <3>4. new \in Super /\ new.iroot = i.at /\ new.imount = p.at
      <4>1. i.fs.sb[d] \in Super
        BY <2>1, <3>3 DEF Fs
      <4> QED BY <3>1, <3>2, <4>1 DEF Super, Gives
    <3>5. raw = h2
      BY <3>3 DEF Fs, IsFcn, FsFields
    <3> HIDE DEF new
    <3>6. - One(j, i.at) - One(j, p.at)
             <= One(j, i.fs.sb[d].iroot) - One(j, new.iroot)
                  + One(j, i.fs.sb[d].imount) - One(j, new.imount)
      <4>1. One(j, new.iroot) = One(j, i.at) /\ One(j, new.imount) = One(j, p.at)
        BY <3>4
      <4>2. One(j, i.fs.sb[d].iroot) \in {0, 1} /\ One(j, i.fs.sb[d].imount) \in {0, 1}
        BY OneNumber
      <4> QED BY <2>3, <3>3, <4>1, <4>2, SMTT(30)
    <3>7. Tallies(j, i.fs, h, - One(j, i.at) - One(j, p.at))
      BY <2>1, <2>3, <3>3, <3>4, <3>6, SuperTallies
    <3> HIDE DEF h, raw
    <3>8. Fs(h)
      BY <3>7 DEF Tallies
    <3>9. Moves(j, h, h2, 0)
      BY <2>1, <3>8, MountMoves
    <3> HIDE DEF h2
    <3>10. Fs(h2)
      BY <3>9, MovesFs
    <3>11. Moves(j, h2, iput(h2, n.at), - One(j, n.at))
      BY <3>10, iputMoves
    <3>12. Tallies(j, h, h2, 0) /\ Tallies(j, h2, iput(h2, n.at), - One(j, n.at))
      BY <1>3, <3>8, <3>9, <3>10, <3>11, MovesTallies
    <3>13. Tallies(j, h, iput(h2, n.at), - One(j, n.at))
      BY <1>3, <3>8, <3>12, TalliesAdd
    <3>14. Tallies(j, fs, i.fs, One(j, n.at) + One(j, p.at) + One(j, i.at))
      BY <1>3, <2>3, <2>8, <3>3, TalliesAdd
    <3>15. Tallies(j, fs, h, One(j, n.at))
      BY <1>3, <2>3, <3>3, <3>7, <3>14, TalliesAdd
    <3>16. Tallies(j, fs, iput(h2, n.at), 0)
      BY <1>3, <3>13, <3>15, TalliesAdd
    <3> QED BY <2>10, <3>5, <3>16
  <2> QED BY <1>6, <2>5, <2>6, <2>9, <2>10
<1> QED BY <1>1, <1>4, <1>5, <1>6

\* sys_umount: the super block gives its two uses back.
LEMMA UmountTallies ==
  ASSUME NEW j \in Key, Fs(fs), Nodes(fs), NEW t, Starts(t),
         NEW path, IsPath(path), Umount(t, path)
  PROVE  Tallies(j, fs, fs', 0)
<1> DEFINE n == namei(fs, t, path)
           Detach(d, sb) ==
             [iput([iput(n.fs, sb.iroot) EXCEPT !.mount[sb.imount] = 0], sb.imount)
                EXCEPT !.sb[d] = NoSuper]
<1>1. \/ n.at = Null /\ fs' = n.fs
      \/ n.at # Null /\ fs' = iput(n.fs, n.at)
      \/ n.at # Null /\ fs' = iput(Panic(n.fs, "no_super"), n.at)
      \/ /\ n.at # Null
         /\ \E d : /\ \/ Ino(n.fs, n.at).type = "blk" /\ d = Ino(n.fs, n.at).zone
                      \/ d = n.at[1]
                   /\ fs' = iput(Detach(d, n.fs.sb[d]), n.at)
  <2> DEFINE d1 == Ino(n.fs, n.at).zone
             d2 == n.at[1]
  <2>1. \/ n.at = Null /\ fs' = n.fs
        \/ n.at # Null /\ fs' = iput(n.fs, n.at)
        \/ n.at # Null /\ fs' = iput(Panic(n.fs, "no_super"), n.at)
        \/ /\ n.at # Null /\ Ino(n.fs, n.at).type = "blk"
           /\ fs' = iput(Detach(d1, n.fs.sb[d1]), n.at)
        \/ n.at # Null /\ fs' = iput(Detach(d2, n.fs.sb[d2]), n.at)
    BY DEF Umount
  <2> HIDE DEF Detach, n
  <2> QED BY <2>1
<1>2. Gives(j, fs, n)
  BY nameiGives
<1> HIDE DEF n
<1>3. Moves(j, fs, n.fs, One(j, n.at)) /\ Fs(n.fs) /\ Nodes(n.fs)
      /\ One(j, n.at) \in {0, 1} /\ One(j, Null) = 0
  BY <1>2, MovesFs, OneNumber DEF Gives, Moves
<1>4. CASE n.at = Null /\ fs' = n.fs
  BY <1>3, <1>4, MovesTallies
<1>5. CASE n.at # Null /\ fs' = iput(n.fs, n.at)
  <2>1. Moves(j, fs, iput(n.fs, n.at), 0)
    BY <1>3, GiveBackLast
  <2> QED BY <1>5, <2>1, MovesTallies
<1>6. CASE n.at # Null /\ fs' = iput(Panic(n.fs, "no_super"), n.at)
  <2> DEFINE g == Panic(n.fs, "no_super")
  <2>1. Quiet(n.fs, g)
    BY <1>3, PanicQuiet
  <2> HIDE DEF g
  <2>2. Moves(j, fs, g, One(j, n.at))
    BY <1>3, <2>1, ThenQuiet
  <2>3. Moves(j, fs, iput(g, n.at), 0)
    BY <2>2, GiveBackLast
  <2>4. fs' = iput(g, n.at)
    BY <1>6 DEF g
  <2> QED BY <2>3, <2>4, MovesTallies
<1>7. CASE /\ n.at # Null
           /\ \E d : /\ \/ Ino(n.fs, n.at).type = "blk" /\ d = Ino(n.fs, n.at).zone
                        \/ d = n.at[1]
                     /\ fs' = iput(Detach(d, n.fs.sb[d]), n.at)
  <2>1. PICK d : /\ \/ Ino(n.fs, n.at).type = "blk" /\ d = Ino(n.fs, n.at).zone
                    \/ d = n.at[1]
                 /\ fs' = iput(Detach(d, n.fs.sb[d]), n.at)
    BY <1>7
  <2>2. n.at \in Key
    BY <1>2, <1>7 DEF Gives
  <2>3. d \in Dev
    <3>1. CASE Ino(n.fs, n.at).type = "blk" /\ d = Ino(n.fs, n.at).zone
      BY <1>3, <2>2, <3>1, NodeDev
    <3>2. CASE d = n.at[1]
      BY <2>2, <3>2 DEF Key
    <3> QED BY <2>1, <3>1, <3>2
  <2> DEFINE sb == n.fs.sb[d]
             a == iput(n.fs, sb.iroot)
             b == [a EXCEPT !.mount[sb.imount] = 0]
             c == iput(b, sb.imount)
             none == NoSuper
             e == [c EXCEPT !.sb = [c.sb EXCEPT ![d] = none]]
  <2>4. fs' = iput(e, n.at)
    BY <2>1
  <2>5. Moves(j, n.fs, a, - One(j, sb.iroot))
    BY <1>3, iputMoves
  <2> HIDE DEF a
  <2>6. Fs(a) /\ a.sb = n.fs.sb
    BY <2>5, MovesFs
  <2>7. Moves(j, a, b, 0)
    BY <2>6, MountMoves
  <2> HIDE DEF b
  <2>8. Fs(b) /\ b.sb = n.fs.sb
    BY <2>6, <2>7, MovesFs
  <2>9. Moves(j, b, c, - One(j, sb.imount))
    BY <2>8, iputMoves
  <2> HIDE DEF c
  <2>10. Fs(c) /\ c.sb[d] = sb
    BY <2>8, <2>9, MovesFs
  <2> HIDE DEF sb
  <2>11. One(j, sb.iroot) \in {0, 1} /\ One(j, sb.imount) \in {0, 1}
    BY OneNumber
  <2>12. Moves(j, n.fs, b, - One(j, sb.iroot))
    BY <1>3, <2>5, <2>7, <2>11, MovesAdd
  <2>13. Moves(j, n.fs, c, - One(j, sb.iroot) - One(j, sb.imount))
    BY <1>3, <2>9, <2>11, <2>12, MovesAdd
  <2>14. Moves(j, fs, c, One(j, n.at) - One(j, sb.iroot) - One(j, sb.imount))
    BY <1>3, <2>11, <2>13, MovesAdd
  <2>15. none \in Super /\ none.iroot = Null /\ none.imount = Null
    BY DEF NoSuper, Super
  <2> HIDE DEF none
  <2>16. One(j, sb.iroot) + One(j, sb.imount)
           <= One(j, c.sb[d].iroot) - One(j, none.iroot)
                + One(j, c.sb[d].imount) - One(j, none.imount)
    BY <1>3, <2>10, <2>11, <2>15
  <2>17. Tallies(j, c, e, One(j, sb.iroot) + One(j, sb.imount))
    <3> DEFINE m == One(j, sb.iroot) + One(j, sb.imount)
    <3>1. m \in Int
      BY <2>11
    <3>2. m <= One(j, c.sb[d].iroot) - One(j, none.iroot)
                 + One(j, c.sb[d].imount) - One(j, none.imount)
      BY <2>16
    <3> HIDE DEF m
    <3>3. Tallies(j, c, e, m)
      BY <2>3, <2>10, <2>15, <3>1, <3>2, SuperTallies
    <3> QED BY <3>3 DEF m
  <2> HIDE DEF e
  <2>18. Tallies(j, fs, c, One(j, n.at) - One(j, sb.iroot) - One(j, sb.imount))
    BY <1>3, <2>11, <2>14, MovesTallies
  <2>19. Tallies(j, fs, e, One(j, n.at))
    BY <1>3, <2>11, <2>17, <2>18, TalliesAdd
  <2>20. Fs(e)
    BY <2>17 DEF Tallies
  <2>21. Moves(j, e, iput(e, n.at), - One(j, n.at))
    BY <2>20, iputMoves
  <2>22. Tallies(j, e, iput(e, n.at), - One(j, n.at))
    BY <1>3, <2>20, <2>21, MovesTallies
  <2>23. Tallies(j, fs, iput(e, n.at), 0)
    BY <1>3, <2>19, <2>22, TalliesAdd
  <2> QED BY <2>4, <2>23
<1> QED BY <1>1, <1>4, <1>5, <1>6, <1>7

\* mkfs writes a new file system; the super block it used is given up.
LEMMA devmkfsTallies ==
  ASSUME NEW j \in Key, NEW f, Fs(f), NEW d \in Dev
  PROVE  Tallies(j, f, devmkfs(f, d), 0)
<1> DEFINE bare == [f EXCEPT !.minix = @ \cup {d}, !.sb[d].count = 1,
                             !.imap[d] = {1}, !.zmap[d] = {},
                             !.stale[d] = [b \in Zone |->
                                IF b \in f.zmap[d] THEN Junk ELSE f.stale[d][b]]]
           k == <<d, 1>>
           y == [Ino(bare, k) EXCEPT !.type = "dir", !.nlinks = 2, !.size = 0,
                                     !.entries = Dots(1, 1)]
           root == [bare EXCEPT !.ino[d][1] =
                      [@ EXCEPT !.type = "dir", !.nlinks = 2, !.size = 0,
                                !.entries = Dots(1, 1)]]
           g == bmap_create(root, k, 0)
           none == NoSuper
           h == [g EXCEPT !.sb = [g.sb EXCEPT ![d] = none]]
<1>1. devmkfs(f, d) = h
  BY DEF devmkfs
<1>2. root = Put(bare, k, y)
  <2> HIDE DEF bare
  <2>1. k[1] = d /\ k[2] = 1
    OBVIOUS
  <2>2. y = [bare.ino[d][1] EXCEPT !.type = "dir", !.nlinks = 2, !.size = 0,
                                   !.entries = Dots(1, 1)]
    BY <2>1 DEF Ino
  <2> HIDE DEF k, y
  <2>3. Put(bare, k, y) = [bare EXCEPT !.ino[d][1] = y]
    BY <2>1 DEF Put
  <2> QED BY <2>2, <2>3
<1>3. /\ IsFcn(bare, FsFields)
      /\ bare.minix = f.minix \cup {d} /\ bare.sb = [f.sb EXCEPT ![d].count = 1]
      /\ bare.ino = f.ino /\ bare.count = f.count /\ bare.mount = f.mount
      /\ bare.panic = f.panic
  BY DEF Fs, IsFcn, FsFields
<1> HIDE DEF bare
<1>4. /\ bare.sb \in [Dev -> Super]
      /\ bare.sb[d].iroot = f.sb[d].iroot /\ bare.sb[d].imount = f.sb[d].imount
      /\ \A e \in Dev \ {d} : bare.sb[e] = f.sb[e]
  BY <1>3 DEF Fs, Super
<1>5. Fs(bare)
  BY <1>3, <1>4 DEF Fs
<1>6. Tallies(j, f, bare, 0)
  <2>2. /\ TopUses(j, f.sb) \in Nat /\ TopUses(j, bare.sb) \in Nat
        /\ TopUses(j, bare.sb) = TopUses(j, f.sb)
             + One(j, bare.sb[d].iroot) - One(j, f.sb[d].iroot)
             + One(j, bare.sb[d].imount) - One(j, f.sb[d].imount)
    <3> DEFINE new == bare.sb
               old == f.sb
    <3>1. \A e \in Dev \ {d} : new[e] = old[e]
      BY <1>4
    <3> HIDE DEF new, old
    <3>2. /\ TopUses(j, old) \in Nat /\ TopUses(j, new) \in Nat
          /\ TopUses(j, new) = TopUses(j, old)
               + One(j, new[d].iroot) - One(j, old[d].iroot)
               + One(j, new[d].imount) - One(j, old[d].imount)
      BY <3>1, TopsChange
    <3> QED BY <3>2 DEF new, old
  <2>3. One(j, f.sb[d].iroot) \in Int /\ One(j, f.sb[d].imount) \in Int
    BY OneNumber
  <2>4. TopUses(j, bare.sb) = TopUses(j, f.sb)
    BY <1>4, <2>2, <2>3
  <2>5. f.count[j] \in Nat /\ (Nodes(f) => Nodes(bare))
    BY <1>3 DEF Fs, Nodes
  <2> QED BY <1>3, <1>5, <2>2, <2>4, <2>5 DEF Tallies
<1>7. 1 \in Nr /\ Place(k)
  BY SizesAssumption DEF Nr, Place
<1>8. IsDesc(y) /\ y.type = "dir"
  <2> DEFINE x == Ino(bare, k)
  <2>1. IsDesc(x)
    BY <1>5, <1>7, InoDesc
  <2> HIDE DEF x
  <2>2. IsFcn(y, DescFields) /\ y.type = "dir" /\ y.entries = Dots(1, 1)
    BY <2>1 DEF x, IsDesc, IsFcn, DescFields
  <2>3. Dots(1, 1) \in Seq(Entry)
    <3>1. 1 \in 0 .. NInode
      BY <1>7 DEF Nr
    <3>2. [name |-> ".", nr |-> 1] \in Entry /\ [name |-> "..", nr |-> 1] \in Entry
      BY <3>1 DEF Entry
    <3> QED BY <3>2 DEF Dots
  <2> QED BY <2>2, <2>3 DEF IsDesc
<1> HIDE DEF y, k, root
<1>9. Quiet(bare, root)
  BY <1>2, <1>5, <1>8, PutQuiet
<1>10. Quiet(root, g)
  BY <1>9, QuietFs, bmap_createQuiet
<1> HIDE DEF g
<1>11. Quiet(bare, g) /\ Fs(g)
  BY <1>9, <1>10, QuietAdd, QuietFs
<1>12. Tallies(j, bare, g, 0)
  BY <1>5, <1>11, QuietMoves, MovesTallies
<1>13. none \in Super /\ none.iroot = Null /\ none.imount = Null
  BY DEF NoSuper, Super
<1> HIDE DEF none
<1>14. /\ One(j, Null) = 0 /\ One(j, g.sb[d].iroot) \in {0, 1}
       /\ One(j, g.sb[d].imount) \in {0, 1}
  BY OneNumber
<1>15. 0 <= One(j, g.sb[d].iroot) - One(j, none.iroot)
              + One(j, g.sb[d].imount) - One(j, none.imount)
  BY <1>13, <1>14
<1>16. Tallies(j, g, h, 0)
  <2>1. Fs(g) /\ none \in Super
    BY <1>11, <1>13
  <2>2. PICK n \in Int : n = 0
    OBVIOUS
  <2>3. n <= One(j, g.sb[d].iroot) - One(j, none.iroot)
              + One(j, g.sb[d].imount) - One(j, none.imount)
    BY <1>15, <2>2
  <2>4. Tallies(j, g, h, n)
    BY <2>1, <2>3, SuperTallies
  <2> QED BY <2>2, <2>4
<1> HIDE DEF h
<1>17. Tallies(j, f, g, 0)
  BY <1>6, <1>12, TalliesAdd
<1>18. Tallies(j, f, h, 0)
  BY <1>16, <1>17, TalliesAdd
<1> QED BY <1>1, <1>18

\* sys_mkfs gives back the inode of the node it takes.
LEMMA MkfsTallies ==
  ASSUME NEW j \in Key, Fs(fs), Nodes(fs), NEW t, Starts(t),
         NEW path, IsPath(path), Mkfs(t, path)
  PROVE  Tallies(j, fs, fs', 0)
<1> DEFINE n == namei(fs, t, path)
           d == Ino(n.fs, n.at).zone
<1>1. \/ fs' = iput(n.fs, n.at)
      \/ /\ n.at # Null /\ Ino(n.fs, n.at).type = "blk"
         /\ \E g \in {devmkfs(n.fs, d), n.fs, Panic(n.fs, "stale_super")} :
              fs' = iput(g, n.at)
  BY DEF Mkfs
<1>2. Gives(j, fs, n)
  BY nameiGives
<1> HIDE DEF n
<1>3. Moves(j, fs, n.fs, One(j, n.at)) /\ Fs(n.fs) /\ Nodes(n.fs)
      /\ One(j, n.at) \in {0, 1}
  BY <1>2, MovesFs, OneNumber DEF Gives, Moves
<1>4. CASE fs' = iput(n.fs, n.at)
  <2>1. Moves(j, fs, iput(n.fs, n.at), 0)
    BY <1>3, GiveBackLast
  <2> QED BY <1>4, <2>1, MovesTallies
<1>5. CASE /\ n.at # Null /\ Ino(n.fs, n.at).type = "blk"
           /\ \E g \in {devmkfs(n.fs, d), n.fs, Panic(n.fs, "stale_super")} :
                fs' = iput(g, n.at)
  <2>1. d \in Dev
    BY <1>2, <1>3, <1>5, NodeDev DEF Gives
  <2> HIDE DEF d
  <2>2. PICK g \in {devmkfs(n.fs, d), n.fs, Panic(n.fs, "stale_super")} :
               fs' = iput(g, n.at)
    BY <1>5
  <2>3. Tallies(j, n.fs, g, 0)
    <3>1. Tallies(j, n.fs, devmkfs(n.fs, d), 0)
      BY <1>3, <2>1, devmkfsTallies
    <3>2. Moves(j, n.fs, n.fs, 0) /\ Moves(j, n.fs, Panic(n.fs, "stale_super"), 0)
      BY <1>3, QuietSelf, QuietMoves, PanicMoves
    <3>3. Tallies(j, n.fs, n.fs, 0) /\ Tallies(j, n.fs, Panic(n.fs, "stale_super"), 0)
      BY <1>3, <3>2, MovesTallies
    <3> QED BY <2>2, <3>1, <3>3
  <2>4. Fs(g)
    BY <2>3 DEF Tallies
  <2>5. Tallies(j, fs, n.fs, One(j, n.at))
    BY <1>3, MovesTallies
  <2>6. Tallies(j, g, iput(g, n.at), - One(j, n.at))
    BY <1>3, <2>4, iputMoves, MovesTallies
  <2>7. Tallies(j, fs, g, One(j, n.at))
    BY <1>3, <2>3, <2>5, TalliesAdd
  <2>8. Tallies(j, fs, iput(g, n.at), 0)
    BY <1>3, <2>6, <2>7, TalliesAdd
  <2> QED BY <2>2, <2>8
<1> QED BY <1>1, <1>4, <1>5

-----------------------------------------------------------------------------
(* Open files. *)

\* The end of inode_open: a truncation, and the directory is given back.
LEMMA MakeupGives ==
  ASSUME NEW j \in Key, NEW f, Fs(f), NEW x, x.at \in Key \cup {Null}, NEW dir, NEW trunc,
         Moves(j, f, x.fs, One(j, dir) + One(j, x.at))
  PROVE  Gives(j, f, [fs |-> iput(IF trunc THEN inode_truncate(x.fs, x.at) ELSE x.fs, dir),
                      at |-> x.at])
<1> DEFINE g == IF trunc THEN inode_truncate(x.fs, x.at) ELSE x.fs
<1>1. One(j, dir) \in Int /\ One(j, x.at) \in Int /\ Fs(x.fs)
  BY MovesFs, OneNumber
<1>2. Quiet(x.fs, g)
  BY <1>1, inode_truncateQuiet, QuietSelf
<1> HIDE DEF g
<1>3. Moves(j, f, g, One(j, dir) + One(j, x.at))
  BY <1>1, <1>2, ThenQuiet
<1>4. Moves(j, f, iput(g, dir), One(j, x.at))
  BY <1>1, <1>3, GiveBack
<1>5. Gives(j, f, [fs |-> iput(g, dir), at |-> x.at])
  BY <1>4 DEF Gives
<1> QED BY <1>5 DEF g

\* inode_open leaves one more use of the inode it opens.
LEMMA inode_openGives ==
  ASSUME NEW j \in Key, NEW f, Fs(f), NEW t, Starts(t), NEW path, IsPath(path),
         NEW creat, NEW trunc, NEW write
  PROVE  Gives(j, f, inode_open(f, t, path, creat, trunc, write))
<1> DEFINE o == inode_open(f, t, path, creat, trunc, write)
           w == named(f, t, path)
           e == LastEntry(w, path)
           g == iget(e.fs, e.at[1], e.nr)
           c == Create(e.fs, e.at, Last(path.names), "file")
           up(x) == [fs |-> iput(IF trunc THEN inode_truncate(x.fs, x.at) ELSE x.fs, e.at),
                     at |-> x.at]
           no(x) == [fs |-> x, at |-> Null]
<1> SUFFICES Gives(j, f, o)
  OBVIOUS
<1>1. \/ o = no(f)
      \/ o = w
      \/ /\ w.at # Null /\ path.names # << >>
         /\ \/ e.slot # 0 /\ o = no(iput(iput(g.fs, g.at), e.at))
            \/ e.slot # 0 /\ o = up(g)
            \/ o = up(c)
            \/ o = no(iput(e.fs, e.at))
  BY DEF inode_open
<1>2. Gives(j, f, w)
  BY namedGives
<1> HIDE DEF w, o
<1>3. One(j, Null) = 0 /\ \A k : One(j, k) \in Int
  BY OneNumber
<1>4. ASSUME NEW x, Moves(j, f, x, 0) PROVE Gives(j, f, no(x))
  BY <1>3, <1>4 DEF Gives
<1>5. CASE o = no(f)
  <2>1. Moves(j, f, f, 0)
    BY QuietSelf, QuietMoves
  <2> HIDE DEF no
  <2> QED BY <1>4, <1>5, <2>1
<1>6. CASE w.at # Null /\ path.names # << >>
  <2>1. w.at \in Key /\ Moves(j, f, w.fs, One(j, w.at)) /\ Fs(w.fs)
    BY <1>2, <1>6, MovesFs DEF Gives
  <2>2. /\ e.at \in Key /\ (e.slot # 0 => e.nr \in Nr)
        /\ Moves(j, w.fs, e.fs, One(j, e.at) - One(j, w.at))
    BY <2>1, find_entryMoves DEF LastEntry
  <2> HIDE DEF e
  <2>3. One(j, w.at) \in Int /\ One(j, e.at) \in Int /\ One(j, g.at) \in Int
        /\ One(j, c.at) \in Int
    BY <1>3
  <2>4. Moves(j, f, e.fs, One(j, e.at)) /\ Fs(e.fs)
    BY <2>1, <2>2, <2>3, MovesAdd, MovesFs
  <2>5. Gives(j, f, no(iput(e.fs, e.at)))
    <3>1. Moves(j, f, iput(e.fs, e.at), 0)
      BY <2>4, GiveBackLast
    <3> HIDE DEF no
    <3> QED BY <1>4, <3>1
  <2>6. ASSUME e.slot # 0
        PROVE  Gives(j, f, up(g)) /\ Gives(j, f, no(iput(iput(g.fs, g.at), e.at)))
    <3>1. e.at[1] \in Dev
      BY <2>2 DEF Key
    <3>2. Gives(j, e.fs, g)
      BY <2>2, <2>4, <2>6, <3>1, igetGives
    <3> HIDE DEF g
    <3>3. Moves(j, f, g.fs, One(j, e.at) + One(j, g.at)) /\ Fs(g.fs)
      BY <2>3, <2>4, <3>2, MovesAdd, MovesFs DEF Gives
    <3>4. g.at \in Key \cup {Null}
      BY <3>2 DEF Gives
    <3>5. Gives(j, f, up(g))
      BY <3>3, <3>4, MakeupGives
    <3>6. Moves(j, f, g.fs, One(j, g.at) + One(j, e.at))
      BY <2>3, <3>3, MovesLess
    <3>7. Moves(j, f, iput(g.fs, g.at), One(j, e.at))
      BY <2>3, <3>6, GiveBack
    <3>8. Moves(j, f, iput(iput(g.fs, g.at), e.at), 0)
      BY <3>7, GiveBackLast
    <3>9. Gives(j, f, no(iput(iput(g.fs, g.at), e.at)))
      <4> HIDE DEF no
      <4> QED BY <1>4, <3>8
    <3> QED BY <3>5, <3>9
  <2>7. Gives(j, f, up(c))
    <3>1. PICK d \in Dev : TRUE
      BY SizesAssumption DEF Dev
    <3>2. Last(path.names) \in Names \cup {".", ".."}
      BY <1>6, LastName
    <3>3. Gives(j, e.fs, c)
      BY <2>2, <2>4, <3>1, <3>2, CreateGives
    <3> HIDE DEF c
    <3>4. Moves(j, f, c.fs, One(j, e.at) + One(j, c.at))
      BY <2>3, <2>4, <3>3, MovesAdd DEF Gives
    <3>5. c.at \in Key \cup {Null}
      BY <3>3 DEF Gives
    <3> QED BY <3>4, <3>5, MakeupGives
  <2> HIDE DEF up, no, g, c
  <2> QED BY <1>1, <1>2, <1>5, <2>5, <2>6, <2>7
<1> HIDE DEF up, no, e, g, c
<1> QED BY <1>1, <1>2, <1>5, <1>6

\* A read may find a hole; it changes no count.
LEMMA ReadMoves ==
  ASSUME NEW j \in Key, Fs(fs), NEW t, NEW fd, Read(t, fd)
  PROVE  Moves(j, fs, fs', 0)
<1>1. PICK holds : fs' = Check(fs, holds, "hole")
  BY DEF Read
<1> QED BY <1>1, CheckQuiet, QuietMoves

\* A write allocates blocks and makes the file longer.
LEMMA WriteMoves ==
  ASSUME NEW j \in Key, Fs(fs), NEW t, NEW fd, Write(t, fd)
  PROVE  Moves(j, fs, fs', 0)
<1>1. \/ fs' = Panic(fs, "isfile")
      \/ \E k, at : fs' = Grow(bmap_create(fs, k, at), k, at + 1)
  BY DEF Write
<1>2. CASE fs' = Panic(fs, "isfile")
  BY <1>2, PanicMoves
<1>3. CASE \E k, at : fs' = Grow(bmap_create(fs, k, at), k, at + 1)
  <2>1. PICK k, at : fs' = Grow(bmap_create(fs, k, at), k, at + 1)
    BY <1>3
  <2> DEFINE g == bmap_create(fs, k, at)
             size == Max({Ino(g, k)["size"], at + 1})
  <2>2. Quiet(fs, g)
    BY bmap_createQuiet
  <2>3. fs' = Grow(g, k, at + 1)
    BY <2>1
  <2> HIDE DEF g
  <2>4. Grow(g, k, at + 1) = SetField(g, k, "size", size)
    BY DEF Grow, SetField, With, Put, Ino
  <2> HIDE DEF size
  <2>5. Quiet(g, SetField(g, k, "size", size))
    BY <2>2, QuietFs, FieldQuiet DEF DescFields
  <2>6. Quiet(fs, fs')
    BY <2>2, <2>3, <2>4, <2>5, QuietAdd
  <2> QED BY <2>6, QuietMoves
<1> QED BY <1>1, <1>2, <1>3

\* fork holds what the child shares.
LEMMA ForkHoldsMoves ==
  ASSUME NEW j \in Key, NEW f, Fs(f), NEW t
  PROVE  Moves(j, f, ForkHolds(f, t),
               One(j, task[t].ipwd) + One(j, task[t].iroot) + One(j, task[t].iexec))
<1> DEFINE a == task[t].ipwd
           b == task[t].iroot
           c == task[t].iexec
           g == Hold(f, a)
           h == Hold(g, b)
<1>1. ForkHolds(f, t) = IF c = Null THEN h ELSE Hold(h, c)
  BY DEF ForkHolds
<1> HIDE DEF a, b, c
<1>2. \A k : One(j, k) \in Int
  BY OneNumber
<1>3. Moves(j, f, g, One(j, a)) /\ Fs(g)
  BY HoldMoves, MovesFs
<1> HIDE DEF g
<1>4. Moves(j, g, h, One(j, b)) /\ Fs(h)
  BY <1>3, HoldMoves, MovesFs
<1> HIDE DEF h
<1>5. Moves(j, f, h, One(j, a) + One(j, b))
  BY <1>2, <1>3, <1>4, MovesAdd
<1>6. CASE c = Null
  <2>1. One(j, c) = 0
    BY <1>6, OneNumber
  <2>2. Moves(j, f, h, One(j, a) + One(j, b) + One(j, c))
    BY <1>2, <1>5, <2>1
  <2> QED BY <1>1, <1>6, <2>2 DEF a, b, c
<1>7. CASE c # Null
  <2>1. Moves(j, h, Hold(h, c), One(j, c))
    BY <1>4, HoldMoves
  <2>2. Moves(j, f, Hold(h, c), One(j, a) + One(j, b) + One(j, c))
    BY <1>2, <1>5, <2>1, MovesAdd
  <2> QED BY <1>1, <1>7, <2>2 DEF a, b, c
<1> QED BY <1>6, <1>7

-----------------------------------------------------------------------------
(* file_table and the descriptors. *)

FileFields == {"inode", "count", "offset", "read", "write"}

\* A file that no descriptor holds names no inode, and one that names none is
\* not open for writing.
IsFile(x) ==
  /\ IsFcn(x, FileFields) /\ x.inode \in Key \cup {Null} /\ x.count \in Nat
  /\ x.count = 0 => x.inode = Null
  /\ x.inode = Null => x.write = FALSE

IsTable(fl) == IsFcn(fl, File) /\ \A n \in File : IsFile(fl[n])

\* What each descriptor holds, and that the files count their descriptors.
Fds == Task \X Fd
Held(tk) == [h \in Fds |-> tk[h[1]].fd[h[2]]]
Counted(held, fl) == \A n \in File : fl[n].count = Count(Fds, held, n)

\* The last close of a file leaves NoFile.
LEMMA NoFileIs == IsFile(NoFile) /\ NoFile.inode = Null /\ NoFile.count = 0
BY DEF NoFile, IsFile, IsFcn, FileFields

\* One file changes.
LEMMA FilesChange ==
  ASSUME NEW j, NEW fl, NEW new, NEW n \in File,
         \A m \in File \ {n} : new[m].inode = fl[m].inode
  PROVE  /\ FileUses(j, fl) \in Nat /\ FileUses(j, new) \in Nat
         /\ FileUses(j, new) = FileUses(j, fl) + One(j, new[n].inode) - One(j, fl[n].inode)
<1> DEFINE F == [m \in File |-> fl[m].inode]
           G == [m \in File |-> new[m].inode]
<1>1. FileUses(j, fl) = Count(File, F, j) /\ FileUses(j, new) = Count(File, G, j)
  <2>1. /\ {m \in File : F[m] = j} = {m \in File : fl[m].inode = j}
        /\ {m \in File : G[m] = j} = {m \in File : new[m].inode = j}
    OBVIOUS
  <2> HIDE DEF F, G
  <2> QED BY <2>1 DEF Count, FileUses
<1>2. (\A m \in File \ {n} : G[m] = F[m]) /\ G[n] = new[n].inode /\ F[n] = fl[n].inode
  OBVIOUS
<1> HIDE DEF F, G
<1>3. /\ Count(File, F, j) \in Nat /\ Count(File, G, j) \in Nat
      /\ Count(File, G, j) = Count(File, F, j) + One(j, G[n]) - One(j, F[n])
  BY <1>2, FiniteTables, Recount
<1> QED BY <1>1, <1>2, <1>3

\* Files that keep their inodes are used as before.
LEMMA FilesSame ==
  ASSUME NEW j, NEW fl, NEW new, \A m \in File : new[m].inode = fl[m].inode
  PROVE  FileUses(j, new) = FileUses(j, fl)
<1>1. {m \in File : new[m].inode = j} = {m \in File : fl[m].inode = j}
  OBVIOUS
<1> QED BY <1>1 DEF FileUses

\* There are finitely many descriptors.
LEMMA FiniteFds == IsFiniteSet(Fds)
BY FiniteTables, FS_Product DEF Fds

\* One descriptor changes.
LEMMA HeldChange ==
  ASSUME NEW held, NEW new, NEW h \in Fds, \A i \in Fds \ {h} : new[i] = held[i]
  PROVE  \A m : /\ Count(Fds, held, m) \in Nat /\ Count(Fds, new, m) \in Nat
                /\ Count(Fds, new, m) =
                     Count(Fds, held, m) + One(m, new[h]) - One(m, held[h])
<1> DEFINE F == [i \in Fds |-> held[i]]
           G == [i \in Fds |-> new[i]]
<1>1. (\A i \in Fds \ {h} : G[i] = F[i]) /\ G[h] = new[h] /\ F[h] = held[h]
  OBVIOUS
<1>2. \A m : Count(Fds, F, m) = Count(Fds, held, m) /\ Count(Fds, G, m) = Count(Fds, new, m)
  <2> TAKE m
  <2>1. /\ {i \in Fds : F[i] = m} = {i \in Fds : held[i] = m}
        /\ {i \in Fds : G[i] = m} = {i \in Fds : new[i] = m}
    OBVIOUS
  <2> HIDE DEF F, G
  <2> QED BY <2>1 DEF Count
<1> HIDE DEF F, G
<1>3. ASSUME NEW m
      PROVE  /\ Count(Fds, F, m) \in Nat /\ Count(Fds, G, m) \in Nat
             /\ Count(Fds, G, m) = Count(Fds, F, m) + One(m, G[h]) - One(m, F[h])
  BY <1>1, FiniteFds, Recount
<1> QED BY <1>1, <1>2, <1>3

\* put_file of what one descriptor holds, that holds nothing then: the files
\* count their descriptors again, and the last of them gives the inode back.
LEMMA put_fileKeeps ==
  ASSUME NEW j \in Key, NEW s, s = [fs |-> s.fs, file |-> s.file], Fs(s.fs),
         IsTable(s.file), NEW held, NEW new, NEW h \in Fds,
         held[h] \in File \cup {0}, new[h] = 0,
         \A i \in Fds \ {h} : new[i] = held[i], Counted(held, s.file)
  PROVE  LET r == put_file(s, held[h])
         IN  /\ r = [fs |-> r.fs, file |-> r.file]
             /\ IsTable(r.file) /\ Counted(new, r.file)
             /\ Moves(j, s.fs, r.fs, FileUses(j, r.file) - FileUses(j, s.file))
<1> DEFINE n == held[h]
           r == put_file(s, n)
<1>1. \A m : /\ Count(Fds, held, m) \in Nat /\ Count(Fds, new, m) \in Nat
             /\ Count(Fds, new, m) =
                  Count(Fds, held, m) + One(m, 0) - One(m, n)
  BY HeldChange
<1>2. \A m \in File : One(m, 0) = 0 /\ One(m, n) = IF m = n THEN 1 ELSE 0
  BY SizesAssumption DEF File, One
<1>3. \A m \in File : /\ Count(Fds, held, m) \in Nat
                      /\ Count(Fds, new, m) \in Nat
                      /\ Count(Fds, new, m) =
                           Count(Fds, held, m) - (IF m = n THEN 1 ELSE 0)
  <2> SUFFICES ASSUME NEW m \in File
               PROVE  /\ Count(Fds, held, m) \in Nat
                      /\ Count(Fds, new, m) \in Nat
                      /\ Count(Fds, new, m) =
                           Count(Fds, held, m) - (IF m = n THEN 1 ELSE 0)
    OBVIOUS
  <2> HIDE DEF n
  <2> QED BY <1>1, <1>2
<1>4. 0 \notin File
  BY SizesAssumption DEF File
<1> HIDE DEF n
<1>5. FileUses(j, s.file) \in Nat
  <2>1. PICK m \in File : TRUE
    BY SizesAssumption DEF File
  <2> QED BY <2>1, FilesChange
<1>6. CASE n = 0
  <2>1. r = s
    BY <1>6 DEF put_file
  <2>2. Counted(new, s.file)
    <3>1. \A m \in File : m # n
      BY <1>4, <1>6
    <3> QED BY <1>3, <3>1 DEF Counted
  <2>3. Moves(j, s.fs, s.fs, 0)
    BY QuietSelf, QuietMoves
  <2>4. FileUses(j, s.file) - FileUses(j, s.file) = 0
    BY <1>5
  <2> QED BY <2>1, <2>2, <2>3, <2>4 DEF n
<1>7. CASE n \in File /\ s.file[n].count = 1
  <2> DEFINE fl == [s.file EXCEPT ![n] = NoFile]
             k == s.file[n].inode
  <2>1. r = [fs |-> iput(s.fs, k), file |-> fl]
    BY <1>4, <1>7 DEF put_file
  <2>2. IsFcn(fl, File) /\ \A m \in File : fl[m] = IF m = n THEN NoFile ELSE s.file[m]
    BY <1>7 DEF IsTable, IsFcn
  <2> HIDE DEF fl
  <2>3. IsTable(fl)
    BY <2>2, NoFileIs DEF IsTable
  <2>4. Counted(new, fl)
    <3> SUFFICES ASSUME NEW m \in File PROVE fl[m].count = Count(Fds, new, m)
      BY DEF Counted
    <3>1. s.file[m].count = Count(Fds, held, m)
      BY DEF Counted
    <3>2. CASE m = n
      BY <1>3, <1>7, <2>2, <3>1, <3>2, NoFileIs
    <3>3. CASE m # n
      BY <1>3, <2>2, <3>1, <3>3
    <3> QED BY <3>2, <3>3
  <2>5. FileUses(j, fl) = FileUses(j, s.file) + One(j, Null) - One(j, k)
    <3>1. \A m \in File \ {n} : fl[m].inode = s.file[m].inode
      BY <2>2
    <3>2. fl[n].inode = Null
      BY <1>7, <2>2, NoFileIs
    <3>3. FileUses(j, fl) = FileUses(j, s.file) + One(j, fl[n].inode) - One(j, s.file[n].inode)
      <4> DEFINE old == s.file
      <4>1. \A m \in File \ {n} : fl[m].inode = old[m].inode
        BY <3>1
      <4> HIDE DEF old
      <4>2. FileUses(j, fl) = FileUses(j, old) + One(j, fl[n].inode) - One(j, old[n].inode)
        BY <1>7, <4>1, FilesChange
      <4> QED BY <4>2 DEF old
    <3> QED BY <3>2, <3>3
  <2>6. FileUses(j, fl) - FileUses(j, s.file) = - One(j, k)
    BY <1>5, <2>5, OneNumber
  <2>7. Moves(j, s.fs, iput(s.fs, k), - One(j, k))
    BY iputMoves
  <2> HIDE DEF k
  <2> QED BY <2>1, <2>3, <2>4, <2>6, <2>7 DEF n
<1>8. CASE n \in File /\ s.file[n].count # 1
  <2> DEFINE x == [s.file[n] EXCEPT !.count = @ - 1]
             fl == [s.file EXCEPT ![n] = x]
  <2>1. r = [fs |-> s.fs, file |-> fl]
    <3>1. r = [s EXCEPT !.file[n].count = @ - 1]
      BY <1>4, <1>8 DEF put_file
    <3> QED BY <3>1
  <2>2. IsFcn(s.file[n], FileFields)
    BY <1>8 DEF IsTable, IsFile
  <2>3. /\ IsFcn(x, FileFields) /\ x.count = s.file[n].count - 1
        /\ x.inode = s.file[n].inode /\ x.write = s.file[n].write
    BY <2>2 DEF IsFcn, FileFields
  <2> HIDE DEF x
  <2>4. IsFcn(fl, File) /\ \A m \in File : fl[m] = IF m = n THEN x ELSE s.file[m]
    BY <1>8 DEF IsTable, IsFcn
  <2> HIDE DEF fl
  <2>5. s.file[n].count \in Nat /\ s.file[n].count - 1 \in Nat
    <3>1. s.file[n].count = Count(Fds, held, n)
      BY <1>8 DEF Counted
    <3> QED BY <1>3, <1>8, <3>1
  <2>6. IsFile(x)
    BY <1>8, <2>3, <2>5 DEF IsTable, IsFile
  <2>7. IsTable(fl)
    BY <2>4, <2>6 DEF IsTable
  <2>8. Counted(new, fl)
    <3> SUFFICES ASSUME NEW m \in File PROVE fl[m].count = Count(Fds, new, m)
      BY DEF Counted
    <3>1. s.file[m].count = Count(Fds, held, m)
      BY DEF Counted
    <3>2. CASE m = n
      BY <1>3, <1>8, <2>3, <2>4, <3>1, <3>2
    <3>3. CASE m # n
      BY <1>3, <2>4, <3>1, <3>3
    <3> QED BY <3>2, <3>3
  <2>9. FileUses(j, fl) = FileUses(j, s.file)
    <3>1. \A m \in File : fl[m].inode = s.file[m].inode
      BY <2>3, <2>4
    <3> QED BY <3>1, FilesSame
  <2>10. FileUses(j, fl) - FileUses(j, s.file) = 0
    BY <1>5, <2>9
  <2>11. Moves(j, s.fs, s.fs, 0)
    BY QuietSelf, QuietMoves
  <2> QED BY <2>1, <2>7, <2>8, <2>10, <2>11 DEF n
<1> QED BY <1>6, <1>7, <1>8 DEF n

\* CloseAll is a put_file for each descriptor.
LEMMA CloseAllTurns ==
  ASSUME NEW f, NEW t
  PROVE  \E after :
           /\ CloseAll(f, t) = after[NFd] /\ after[0] = [fs |-> f, file |-> file]
           /\ \A i \in 1 .. NFd : after[i] = put_file(after[i - 1], task[t].fd[i])
<1> DEFINE begin == [fs |-> f, file |-> file]
           Go(s, i) == put_file(s, task[t].fd[i])
           Loop(p, n) == p[0] = begin /\ \A i \in 1 .. n : p[i] = Go(p[i - 1], i)
           Def(p) == p = [i \in 0 .. NFd |->
                            IF i = 0 THEN begin ELSE Go(p[i - 1], i)]
           after == CHOOSE p : Def(p)
<1>1. CloseAll(f, t) = after[NFd]
  BY DEF CloseAll
<1>2. NFd \in Nat
  BY SizesAssumption
<1> HIDE DEF begin, Go, after
<1>3. \E p : Loop(p, NFd)
  <2> DEFINE S == {n \in 0 .. NFd : \E p : Loop(p, n)}
  <2>1. 0 \in S
    <3>1. Loop([i \in {0} |-> begin], 0)
      OBVIOUS
    <3> HIDE DEF Loop
    <3> QED BY <1>2, <3>1
  <2>2. ASSUME NEW n \in 0 .. NFd - 1, n \in S
        PROVE  n + 1 \in S
    <3>1. PICK p : Loop(p, n)
      BY <2>2
    <3> DEFINE q == [i \in 0 .. n + 1 |-> IF i = n + 1 THEN Go(p[n], n + 1) ELSE p[i]]
    <3>2. n \in Nat /\ 0 # n + 1 /\ n + 1 \in 0 .. NFd
      BY <1>2
    <3>3. q[0] = begin
      BY <3>1, <3>2
    <3>4. ASSUME NEW i \in 1 .. n + 1 PROVE q[i] = Go(q[i - 1], i)
      <4>1. i - 1 \in 0 .. n + 1 /\ i - 1 # n + 1 /\ i \in 0 .. n + 1
        BY <3>2
      <4>2. q[i - 1] = p[i - 1]
        BY <4>1
      <4>3. CASE i = n + 1
        <5>1. q[i] = Go(p[n], n + 1) /\ i - 1 = n
          BY <3>2, <4>1, <4>3
        <5> HIDE DEF q
        <5> QED BY <4>2, <4>3, <5>1
      <4>4. CASE i # n + 1
        <5>1. q[i] = p[i] /\ i \in 1 .. n
          BY <3>2, <4>1, <4>4
        <5> HIDE DEF q
        <5> QED BY <3>1, <4>2, <5>1
      <4> QED BY <4>3, <4>4
    <3>5. Loop(q, n + 1)
      <4> HIDE DEF q
      <4> QED BY <3>3, <3>4
    <3> HIDE DEF Loop, q
    <3> QED BY <3>2, <3>5
  <2> HIDE DEF S
  <2>3. \A n \in 0 .. NFd : n \in S
    BY <1>2, <2>1, <2>2, PlaceInduction
  <2>4. NFd \in S
    BY <1>2, <2>3
  <2> QED BY <2>4 DEF S
<1>4. \E p : Def(p)
  <2>1. PICK p : Loop(p, NFd)
    BY <1>3
  <2> DEFINE q == [i \in 0 .. NFd |-> p[i]]
  <2>2. ASSUME NEW i \in 0 .. NFd
        PROVE  q[i] = IF i = 0 THEN begin ELSE Go(q[i - 1], i)
    <3>1. CASE i = 0
      BY <2>1, <3>1
    <3>2. CASE i # 0
      <4>1. i \in 1 .. NFd /\ i - 1 \in 0 .. NFd
        BY <1>2, <3>2
      <4>2. q[i] = p[i] /\ q[i - 1] = p[i - 1]
        BY <4>1
      <4>3. p[i] = Go(p[i - 1], i)
        BY <2>1, <4>1
      <4> HIDE DEF q
      <4> QED BY <3>2, <4>2, <4>3
    <3> QED BY <3>1, <3>2
  <2>3. q = [i \in 0 .. NFd |-> q[i]]
    OBVIOUS
  <2> HIDE DEF q
  <2>4. Def(q)
    BY <2>2, <2>3
  <2> QED BY <2>4
<1>5. Def(after)
  BY <1>4 DEF after
<1>6. /\ after[0] = begin
      /\ \A i \in 1 .. NFd : after[i] = Go(after[i - 1], i)
  BY <1>2, <1>5
<1> QED BY <1>1, <1>6 DEF begin, Go

\* sys_close of every descriptor of a task, as fork_clean and sys_exit do it.
LEMMA CloseAllKeeps ==
  ASSUME NEW j \in Key, NEW f, Fs(f), IsTable(file), NEW t \in Task,
         \A fd \in Fd : task[t].fd[fd] \in File \cup {0}, Counted(Held(task), file)
  PROVE  LET c == CloseAll(f, t)
         IN  /\ IsTable(c.file)
             /\ Counted([h \in Fds |-> IF h[1] = t THEN 0 ELSE Held(task)[h]], c.file)
             /\ Moves(j, f, c.fs, FileUses(j, c.file) - FileUses(j, file))
<1> DEFINE begin == [fs |-> f, file |-> file]
           held(n) == [h \in Fds |-> IF h[1] = t /\ h[2] <= n THEN 0 ELSE Held(task)[h]]
           Good(s, n) == /\ s = [fs |-> s.fs, file |-> s.file]
                         /\ IsTable(s.file) /\ Counted(held(n), s.file)
                         /\ Moves(j, f, s.fs, FileUses(j, s.file) - FileUses(j, file))
<1>1. PICK after :
        /\ CloseAll(f, t) = after[NFd] /\ after[0] = begin
        /\ \A i \in 1 .. NFd : after[i] = put_file(after[i - 1], task[t].fd[i])
  BY CloseAllTurns
<1>2. NFd \in Nat
  BY SizesAssumption
<1>3. \A fl : FileUses(j, fl) \in Nat
  <2>1. PICK m \in File : TRUE
    BY SizesAssumption DEF File
  <2> TAKE fl
  <2> QED BY <2>1, FilesChange
<1>4. Good(begin, 0)
  <2>1. held(0) = Held(task)
    <3>1. \A h \in Fds : ~ (h[2] <= 0)
      BY <1>2 DEF Fds, Fd
    <3>2. Held(task) = [h \in Fds |-> Held(task)[h]]
      BY DEF Held
    <3> QED BY <3>1, <3>2
  <2> HIDE DEF held
  <2>2. Moves(j, f, f, 0) /\ FileUses(j, file) - FileUses(j, file) = 0
    BY <1>3, QuietSelf, QuietMoves
  <2> QED BY <2>1, <2>2
<1>5. ASSUME NEW s, NEW n \in 0 .. NFd - 1, Good(s, n)
      PROVE  Good(put_file(s, task[t].fd[n + 1]), n + 1)
  <2> DEFINE h == <<t, n + 1>>
             old == held(n)
             new == held(n + 1)
  <2>1. h \in Fds /\ n \in Nat /\ n + 1 \in Fd /\ h[1] = t /\ h[2] = n + 1
    BY <1>2 DEF Fds, Fd
  <2>2. old[h] = task[t].fd[n + 1] /\ new[h] = 0
    <3>1. ~ (n + 1 <= n) /\ n + 1 <= n + 1
      BY <2>1
    <3>2. Held(task)[h] = task[t].fd[n + 1]
      BY <2>1 DEF Held
    <3> HIDE DEF h
    <3> QED BY <2>1, <3>1, <3>2
  <2>3. \A i \in Fds \ {h} : new[i] = old[i]
    <3> SUFFICES ASSUME NEW i \in Fds, i # h PROVE new[i] = old[i]
      OBVIOUS
    <3>1. i[1] = t => i[2] # n + 1
      BY DEF Fds
    <3>2. i[2] \in Nat
      BY <1>2 DEF Fds, Fd
    <3>3. (i[1] = t /\ i[2] <= n + 1) <=> (i[1] = t /\ i[2] <= n)
      BY <2>1, <3>1, <3>2
    <3> HIDE DEF h
    <3> QED BY <3>3
  <2>4. old[h] \in File \cup {0}
    BY <2>1, <2>2
  <2>5. /\ s = [fs |-> s.fs, file |-> s.file] /\ Fs(s.fs) /\ IsTable(s.file)
        /\ Counted(old, s.file)
        /\ Moves(j, f, s.fs, FileUses(j, s.file) - FileUses(j, file))
    BY <1>5, MovesFs
  <2> DEFINE r == put_file(s, old[h])
  <2> HIDE DEF old, new, h
  <2>6. /\ r = [fs |-> r.fs, file |-> r.file]
        /\ IsTable(r.file) /\ Counted(new, r.file)
        /\ Moves(j, s.fs, r.fs, FileUses(j, r.file) - FileUses(j, s.file))
    BY <2>1, <2>2, <2>3, <2>4, <2>5, put_fileKeeps
  <2>7. r = put_file(s, task[t].fd[n + 1])
    BY <2>2
  <2> HIDE DEF r
  <2>8. Moves(j, f, r.fs, FileUses(j, r.file) - FileUses(j, file))
    <3> DEFINE a == FileUses(j, s.file) - FileUses(j, file)
               b == FileUses(j, r.file) - FileUses(j, s.file)
               c == FileUses(j, r.file) - FileUses(j, file)
    <3>1. a \in Int /\ b \in Int /\ c \in Int /\ c <= a + b
      <4>1. FileUses(j, s.file) \in Nat /\ FileUses(j, file) \in Nat
            /\ FileUses(j, r.file) \in Nat
        BY <1>3
      <4> QED BY <4>1
    <3>2. Moves(j, f, s.fs, a) /\ Moves(j, s.fs, r.fs, b)
      BY <2>5, <2>6
    <3> HIDE DEF a, b, c
    <3>3. Moves(j, f, r.fs, c)
      BY <3>1, <3>2, MovesAdd
    <3> QED BY <3>3 DEF c
  <2>9. Good(r, n + 1)
    <3> HIDE DEF held
    <3> QED BY <2>6, <2>8 DEF new
  <2> QED BY <2>7, <2>9
<1> HIDE DEF begin, Good
<1>6. \A i \in 0 .. NFd : Good(after[i], i)
  <2> DEFINE S == {i \in 0 .. NFd : Good(after[i], i)}
  <2>1. 0 \in S
    BY <1>1, <1>2, <1>4
  <2>2. ASSUME NEW n \in 0 .. NFd - 1, n \in S
        PROVE  n + 1 \in S
    <3>1. n + 1 \in 1 .. NFd /\ n + 1 - 1 = n /\ n + 1 \in 0 .. NFd
      BY <1>2
    <3>2. after[n + 1] = put_file(after[n], task[t].fd[n + 1])
      BY <1>1, <3>1
    <3>3. Good(after[n], n)
      BY <2>2
    <3>4. Good(put_file(after[n], task[t].fd[n + 1]), n + 1)
      BY <1>5, <3>3
    <3> QED BY <3>1, <3>2, <3>4
  <2> HIDE DEF S
  <2>3. \A n \in 0 .. NFd : n \in S
    BY <1>2, <2>1, <2>2, PlaceInduction
  <2> QED BY <2>3 DEF S
<1>7. Good(after[NFd], NFd)
  BY <1>2, <1>6
<1>8. held(NFd) = [h \in Fds |-> IF h[1] = t THEN 0 ELSE Held(task)[h]]
  <2>1. \A h \in Fds : h[2] <= NFd
    BY <1>2 DEF Fds, Fd
  <2> QED BY <2>1
<1> HIDE DEF held
<1> QED BY <1>1, <1>7, <1>8 DEF Good

-----------------------------------------------------------------------------
(* Tasks. *)

\* Two tables of tasks, but for task t.
Beside(t, tk, new) == \A u \in Task \ {t} : new[u] = tk[u]

\* One task changes.
LEMMA TasksChange ==
  ASSUME NEW j, NEW tk, NEW new, NEW t \in Task, Beside(t, tk, new)
  PROVE  /\ TaskUses(j, tk) \in Nat /\ TaskUses(j, new) \in Nat
         /\ TaskUses(j, new) = TaskUses(j, tk)
              + One(j, new[t].iroot) - One(j, tk[t].iroot)
              + One(j, new[t].ipwd) - One(j, tk[t].ipwd)
              + One(j, new[t].iexec) - One(j, tk[t].iexec)
<1> DEFINE F(a) == [u \in Task |-> tk[u][a]]
           G(a) == [u \in Task |-> new[u][a]]
<1>1. ASSUME NEW a
      PROVE  /\ Count(Task, F(a), j) \in Nat /\ Count(Task, G(a), j) \in Nat
             /\ Count(Task, G(a), j) =
                  Count(Task, F(a), j) + One(j, new[t][a]) - One(j, tk[t][a])
  <2>1. \A u \in Task \ {t} : G(a)[u] = F(a)[u]
    BY DEF Beside
  <2>2. G(a)[t] = new[t][a] /\ F(a)[t] = tk[t][a]
    OBVIOUS
  <2>3. IsFiniteSet(Task)
    BY FiniteTables
  <2> HIDE DEF F, G
  <2> QED BY <2>1, <2>2, <2>3, Recount
<1>2. \A a : /\ Count(Task, F(a), j) = Cardinality({u \in Task : tk[u][a] = j})
            /\ Count(Task, G(a), j) = Cardinality({u \in Task : new[u][a] = j})
  <2> SUFFICES ASSUME NEW a
               PROVE  /\ Count(Task, F(a), j) = Cardinality({u \in Task : tk[u][a] = j})
                      /\ Count(Task, G(a), j) = Cardinality({u \in Task : new[u][a] = j})
    OBVIOUS
  <2>1. /\ {u \in Task : F(a)[u] = j} = {u \in Task : tk[u][a] = j}
        /\ {u \in Task : G(a)[u] = j} = {u \in Task : new[u][a] = j}
    OBVIOUS
  <2> HIDE DEF F, G
  <2> QED BY <2>1 DEF Count
<1> DEFINE f(a) == Count(Task, F(a), j)
           g(a) == Count(Task, G(a), j)
<1>3. /\ TaskUses(j, tk) = f("iroot") + f("ipwd") + f("iexec")
      /\ TaskUses(j, new) = g("iroot") + g("ipwd") + g("iexec")
  <2> HIDE DEF F, G
  <2> QED BY <1>2 DEF TaskUses
<1>4. \A k : One(j, k) \in {0, 1}
  BY DEF One
<1>5. ASSUME NEW a
      PROVE  /\ f(a) \in Nat /\ g(a) \in Nat
             /\ g(a) = f(a) + One(j, new[t][a]) - One(j, tk[t][a])
  <2> HIDE DEF F, G
  <2> QED BY <1>1
<1> HIDE DEF f, g, F, G
<1>6. /\ f("iroot") \in Nat /\ g("iroot") \in Nat
      /\ g("iroot") = f("iroot") + One(j, new[t]["iroot"]) - One(j, tk[t]["iroot"])
  BY <1>5
<1>7. /\ f("ipwd") \in Nat /\ g("ipwd") \in Nat
      /\ g("ipwd") = f("ipwd") + One(j, new[t]["ipwd"]) - One(j, tk[t]["ipwd"])
  BY <1>5
<1>8. /\ f("iexec") \in Nat /\ g("iexec") \in Nat
      /\ g("iexec") = f("iexec") + One(j, new[t]["iexec"]) - One(j, tk[t]["iexec"])
  BY <1>5
<1> QED BY <1>3, <1>4, <1>6, <1>7, <1>8

\* The descriptors of task t that hold file n, and what the descriptors hold
\* when a child has those of t.
Mine(held, t, n) == {fd \in Fd : held[<<t, fd>>] = n}
Forked(held, t, child) ==
  [h \in Fds |-> IF h[1] = child THEN held[<<t, h[2]>>] ELSE held[h]]

\* The descriptors of a child hold the files of the parent once more.
LEMMA ForkCounts ==
  ASSUME NEW t \in Task, NEW child \in Task, NEW held, NEW n \in File,
         \A fd \in Fd : held[<<child, fd>>] = 0
  PROVE  /\ Count(Fds, held, n) \in Nat /\ Cardinality(Mine(held, t, n)) \in Nat
         /\ Count(Fds, Forked(held, t, child), n)
              = Count(Fds, held, n) + Cardinality(Mine(held, t, n))
<1> DEFINE new == [h \in Fds |-> IF h[1] = child THEN held[<<t, h[2]>>] ELSE held[h]]
           mine == {fd \in Fd : held[<<t, fd>>] = n}
           A == {h \in Fds : held[h] = n}
           B == {h \in Fds : new[h] = n}
           C == {h \in Fds : h[1] = child /\ h[2] \in mine}
<1>1. \A h \in Fds : h[1] \in Task /\ h[2] \in Fd /\ h = <<h[1], h[2]>>
  BY DEF Fds
<1>2. 0 # n
  BY SizesAssumption DEF File
<1>3. \A h \in Fds : h[1] = child => held[h] = 0
  BY <1>1
<1>4. B = A \cup C /\ A \cap C = {}
  <2>1. \A h \in Fds : h[1] = child => (h \in B <=> h[2] \in mine)
    BY <1>1
  <2>2. \A h \in Fds : h[1] # child => (h \in B <=> h \in A)
    OBVIOUS
  <2>3. \A h \in Fds : h[1] = child => h \notin A
    BY <1>2, <1>3
  <2>4. \A h : (h \in A => h \in Fds) /\ (h \in B => h \in Fds)
              /\ (h \in C <=> h \in Fds /\ h[1] = child /\ h[2] \in mine)
    OBVIOUS
  <2> HIDE DEF A, B, C, mine, new
  <2> QED BY <2>1, <2>2, <2>3, <2>4
<1>5. IsFiniteSet(A) /\ IsFiniteSet(C) /\ IsFiniteSet(mine)
  <2>1. A \subseteq Fds /\ C \subseteq Fds /\ mine \subseteq Fd
    OBVIOUS
  <2> QED BY <2>1, FiniteFds, FiniteTables, FS_Subset
<1>6. Cardinality(C) = Cardinality(mine)
  <2> DEFINE b == [fd \in mine |-> <<child, fd>>]
  <2>1. b \in [mine -> C]
    BY DEF Fds
  <2>2. \A x, y \in mine : b[x] = b[y] => x = y
    OBVIOUS
  <2>3. \A h \in C : \E x \in mine : b[x] = h
    BY <1>1
  <2> HIDE DEF C, b, mine
  <2>4. b \in Bijection(mine, C)
    BY <2>1, <2>2, <2>3 DEF Bijection, Injection, Surjection, IsInjective
  <2>5. ExistsBijection(mine, C)
    BY <2>4 DEF ExistsBijection
  <2> QED BY <1>5, <2>5, FS_Bijection
<1> HIDE DEF A, C
<1>7. /\ Cardinality(B) = Cardinality(A) + Cardinality(C)
      /\ Cardinality(A) \in Nat /\ Cardinality(C) \in Nat
  <2> HIDE DEF B
  <2>1. Cardinality(A \cap C) = 0
    BY <1>4, FS_EmptySet
  <2>2. Cardinality(A) \in Nat /\ Cardinality(C) \in Nat
    BY <1>5, FS_CardinalityType
  <2>3. Cardinality(A \cup C) = Cardinality(A) + Cardinality(C) - Cardinality(A \cap C)
    BY <1>5, FS_Union
  <2> QED BY <1>4, <2>1, <2>2, <2>3
<1>8. Count(Fds, held, n) = Cardinality(A) /\ Count(Fds, new, n) = Cardinality(B)
  <2> HIDE DEF new
  <2> QED BY DEF Count, A
<1> HIDE DEF B, mine, new
<1>9. Count(Fds, new, n) = Count(Fds, held, n) + Cardinality(mine)
  BY <1>6, <1>7, <1>8
<1>10. Count(Fds, held, n) \in Nat /\ Cardinality(mine) \in Nat
  BY <1>6, <1>7, <1>8
<1> QED BY <1>9, <1>10 DEF new, mine, Mine, Forked

-----------------------------------------------------------------------------
(* The tables of a state and their changes. *)

TaskRec == [alive : BOOLEAN, iroot : Key \cup {Null}, ipwd : Key \cup {Null},
            iexec : Key \cup {Null}, fd : [Fd -> File \cup {0}]]

\* A task that is not there holds nothing.
Typed(tk) == tk \in [Task -> TaskRec]
IsTasks(tk) == Typed(tk) /\ \A t \in Task : ~ tk[t].alive => tk[t] = NoTask

Tables(tk, fl) == IsTasks(tk) /\ IsTable(fl) /\ Counted(Held(tk), fl)

\* The uses of inode j that tasks and files have more than before.
Change(j, tk, fl, tk2, fl2) ==
  TaskUses(j, tk2) - TaskUses(j, tk) + FileUses(j, fl2) - FileUses(j, fl)

\* Uses are numbers.
LEMMA UsesNumber ==
  ASSUME NEW j
  PROVE  /\ \A tk : TaskUses(j, tk) \in Nat
         /\ \A fl : FileUses(j, fl) \in Nat
<1>1. PICK t \in Task, n \in File : TRUE
  BY SizesAssumption DEF Task, File
<1>2. ASSUME NEW tk PROVE TaskUses(j, tk) \in Nat
  <2>1. Beside(t, tk, tk)
    BY DEF Beside
  <2> QED BY <1>1, <2>1, TasksChange
<1>3. ASSUME NEW fl PROVE FileUses(j, fl) \in Nat
  BY <1>1, FilesChange
<1> QED BY <1>2, <1>3

\* A task that is not there is a task.
LEMMA NoTaskIs == NoTask \in TaskRec /\ ~ NoTask.alive
BY DEF NoTask, TaskRec, NoFds

\* One file of the table is written.
LEMMA TableWrite ==
  ASSUME NEW fl, IsTable(fl), NEW n \in File, NEW x, IsFile(x)
  PROVE  LET new == [fl EXCEPT ![n] = x]
         IN  /\ IsTable(new)
             /\ \A m \in File : new[m] = IF m = n THEN x ELSE fl[m]
             /\ \A j : FileUses(j, new)
                         = FileUses(j, fl) + One(j, x.inode) - One(j, fl[n].inode)
<1> DEFINE new == [fl EXCEPT ![n] = x]
<1>1. IsFcn(new, File) /\ \A m \in File : new[m] = IF m = n THEN x ELSE fl[m]
  BY DEF IsTable, IsFcn
<1> HIDE DEF new
<1>2. IsTable(new)
  BY <1>1 DEF IsTable
<1>3. ASSUME NEW j
      PROVE  FileUses(j, new) = FileUses(j, fl) + One(j, x.inode) - One(j, fl[n].inode)
  <2>1. \A m \in File \ {n} : new[m].inode = fl[m].inode
    BY <1>1
  <2>2. FileUses(j, new) = FileUses(j, fl) + One(j, new[n].inode) - One(j, fl[n].inode)
    BY <2>1, FilesChange
  <2> QED BY <1>1, <2>2
<1> QED BY <1>1, <1>2, <1>3 DEF new

\* Task t of the table becomes x.
Alters(t, x, tk, new) == new = [tk EXCEPT ![t] = x]

\* One task of the table is written.
LEMMA TaskWrite ==
  ASSUME NEW tk, Typed(tk), NEW t \in Task, NEW x \in TaskRec,
         NEW new, Alters(t, x, tk, new)
  PROVE  /\ Typed(new)
         /\ \A u \in Task : new[u] = IF u = t THEN x ELSE tk[u]
         /\ \A j : TaskUses(j, new) = TaskUses(j, tk)
                     + One(j, x.iroot) - One(j, tk[t].iroot)
                     + One(j, x.ipwd) - One(j, tk[t].ipwd)
                     + One(j, x.iexec) - One(j, tk[t].iexec)
         /\ \A h \in Fds : Held(new)[h] = IF h[1] = t THEN x.fd[h[2]] ELSE Held(tk)[h]
<1>1. /\ Typed(new)
      /\ \A u \in Task : new[u] = IF u = t THEN x ELSE tk[u]
  BY DEF Typed, Alters
<1>2. ASSUME NEW j
      PROVE  TaskUses(j, new) = TaskUses(j, tk)
                         + One(j, x.iroot) - One(j, tk[t].iroot)
                         + One(j, x.ipwd) - One(j, tk[t].ipwd)
                         + One(j, x.iexec) - One(j, tk[t].iexec)
  <2>1. Beside(t, tk, new)
    BY <1>1 DEF Beside
  <2>2. TaskUses(j, new) = TaskUses(j, tk)
                         + One(j, new[t].iroot) - One(j, tk[t].iroot)
                         + One(j, new[t].ipwd) - One(j, tk[t].ipwd)
                         + One(j, new[t].iexec) - One(j, tk[t].iexec)
    BY <2>1, TasksChange
  <2> QED BY <1>1, <2>2
<1>3. ASSUME NEW h \in Fds
      PROVE  Held(new)[h] = IF h[1] = t THEN x.fd[h[2]] ELSE Held(tk)[h]
  <2>1. h[1] \in Task
    BY DEF Fds
  <2>2. Held(new)[h] = new[h[1]].fd[h[2]] /\ Held(tk)[h] = tk[h[1]].fd[h[2]]
    BY DEF Held
  <2> QED BY <1>1, <2>1, <2>2
<1> QED BY <1>1, <1>2, <1>3

\* The descriptors of two tables that hold the same are counted the same.
LEMMA SameHeld ==
  ASSUME NEW held, NEW new, NEW fl, Counted(held, fl), \A h \in Fds : new[h] = held[h]
  PROVE  Counted(new, fl)
<1>1. ASSUME NEW n \in File PROVE Count(Fds, new, n) = Count(Fds, held, n)
  <2>1. {h \in Fds : new[h] = n} = {h \in Fds : held[h] = n}
    OBVIOUS
  <2> QED BY <2>1 DEF Count
<1> QED BY <1>1 DEF Counted

\* Descriptor h holds n, and the others hold what they held.
Sets(h, n, held, new) == \A i \in Fds : new[i] = IF i = h THEN n ELSE held[i]

\* One more descriptor holds file n, that is written so that it counts it.
LEMMA OneMore ==
  ASSUME NEW fl, IsTable(fl), NEW held, Counted(held, fl), NEW h \in Fds, held[h] = 0,
         NEW n \in File, NEW new, Sets(h, n, held, new),
         NEW x, IsFile(x), x.count = fl[n].count + 1
  PROVE  IsTable([fl EXCEPT ![n] = x]) /\ Counted(new, [fl EXCEPT ![n] = x])
<1> DEFINE tb == [fl EXCEPT ![n] = x]
<1>1. IsTable(tb) /\ \A m \in File : tb[m] = IF m = n THEN x ELSE fl[m]
  BY TableWrite
<1> HIDE DEF tb
<1>2. (\A i \in Fds \ {h} : new[i] = held[i]) /\ new[h] = n
  BY DEF Sets
<1>3. \A m : /\ Count(Fds, held, m) \in Nat /\ Count(Fds, new, m) \in Nat
             /\ Count(Fds, new, m) = Count(Fds, held, m) + One(m, new[h]) - One(m, held[h])
  BY <1>2, HeldChange
<1>4. \A m \in File : One(m, 0) = 0 /\ One(m, n) = IF m = n THEN 1 ELSE 0
  BY SizesAssumption DEF File, One
<1>5. ASSUME NEW m \in File PROVE tb[m].count = Count(Fds, new, m)
  <2>1. fl[m].count = Count(Fds, held, m)
    BY DEF Counted
  <2>2. Count(Fds, new, m) = Count(Fds, held, m) + (IF m = n THEN 1 ELSE 0)
    BY <1>2, <1>3, <1>4
  <2>3. Count(Fds, held, m) \in Nat
    BY <1>3
  <2>4. CASE m = n
    BY <1>1, <2>1, <2>2, <2>4
  <2>5. CASE m # n
    BY <1>1, <2>1, <2>2, <2>3, <2>5
  <2> QED BY <2>4, <2>5
<1>6. Counted(new, tb)
  BY <1>5 DEF Counted
<1> QED BY <1>1, <1>6 DEF tb

\* Descriptor fd of task t becomes n.
FdSet(t, fd, n, tk, new) == new = [tk EXCEPT ![t].fd[fd] = n]

\* One descriptor of a task is set.
LEMMA FdWrite ==
  ASSUME NEW tk, IsTasks(tk), NEW t \in Task, tk[t].alive, NEW fd \in Fd,
         NEW n \in File \cup {0}, NEW new, FdSet(t, fd, n, tk, new)
  PROVE  /\ IsTasks(new) /\ Sets(<<t, fd>>, n, Held(tk), Held(new))
         /\ \A j : TaskUses(j, new) = TaskUses(j, tk)
<1> DEFINE x == [tk[t] EXCEPT !.fd = [tk[t].fd EXCEPT ![fd] = n]]
<1>1. new = [tk EXCEPT ![t] = x]
  BY DEF FdSet
<1>2. Typed(tk) /\ tk[t] \in TaskRec
  BY DEF IsTasks, Typed
<1>3. /\ x \in TaskRec /\ x.alive /\ x.iroot = tk[t].iroot /\ x.ipwd = tk[t].ipwd
      /\ x.iexec = tk[t].iexec
      /\ \A i \in Fd : x.fd[i] = IF i = fd THEN n ELSE tk[t].fd[i]
  BY <1>2 DEF TaskRec, Typed
<1>4. Alters(t, x, tk, new)
  BY <1>1 DEF Alters
<1> HIDE DEF x
<1>5. /\ Typed(new)
      /\ \A u \in Task : new[u] = IF u = t THEN x ELSE tk[u]
      /\ \A h \in Fds : Held(new)[h] = IF h[1] = t THEN x.fd[h[2]] ELSE Held(tk)[h]
  BY <1>2, <1>3, <1>4, TaskWrite
<1>6. ASSUME NEW j PROVE TaskUses(j, new) = TaskUses(j, tk)
  <2>1. TaskUses(j, new) = TaskUses(j, tk)
                         + One(j, x.iroot) - One(j, tk[t].iroot)
                         + One(j, x.ipwd) - One(j, tk[t].ipwd)
                         + One(j, x.iexec) - One(j, tk[t].iexec)
    BY <1>2, <1>3, <1>4, TaskWrite
  <2>2. \A k : One(j, k) \in {0, 1}
    BY DEF One
  <2> QED BY <1>3, <2>1, <2>2, UsesNumber
<1>7. IsTasks(new)
  BY <1>3, <1>5 DEF IsTasks
<1>8. ASSUME NEW h \in Fds
      PROVE  Held(new)[h] = IF h = <<t, fd>> THEN n ELSE Held(tk)[h]
  <2>1. h = <<h[1], h[2]>> /\ h[2] \in Fd
    BY DEF Fds
  <2>2. Held(tk)[h] = tk[h[1]].fd[h[2]]
    BY DEF Held
  <2> QED BY <1>3, <1>5, <2>1, <2>2
<1>9. Sets(<<t, fd>>, n, Held(tk), Held(new))
  BY <1>8 DEF Sets
<1> QED BY <1>6, <1>7, <1>9

\* Tables that stay have no change.
LEMMA NoChange ==
  ASSUME NEW j, NEW tk, NEW fl
  PROVE  Change(j, tk, fl, tk, fl) = 0
<1>1. TaskUses(j, tk) \in Nat /\ FileUses(j, fl) \in Nat
  BY UsesNumber
<1> QED BY <1>1 DEF Change

\* What a task of the tables is.
LEMMA TaskIs ==
  ASSUME Tables(task, file), NEW t \in Task
  PROVE  /\ IsTasks(task) /\ IsTable(file) /\ Counted(Held(task), file) /\ Typed(task)
         /\ task[t] \in TaskRec /\ Starts(t) /\ task[t].iexec \in Key \cup {Null}
         /\ \A fd \in Fd : /\ task[t].fd[fd] \in File \cup {0}
                           /\ <<t, fd>> \in Fds /\ Held(task)[<<t, fd>>] = task[t].fd[fd]
<1>1. Typed(task) /\ IsTasks(task) /\ IsTable(file) /\ Counted(Held(task), file)
  BY DEF Tables, IsTasks
<1>2. task[t] \in TaskRec
  BY <1>1 DEF Typed
<1>3. Starts(t) /\ task[t].iexec \in Key \cup {Null}
  BY <1>2 DEF Starts, TaskRec
<1>4. ASSUME NEW fd \in Fd
      PROVE  /\ task[t].fd[fd] \in File \cup {0}
             /\ <<t, fd>> \in Fds /\ Held(task)[<<t, fd>>] = task[t].fd[fd]
  <2>1. <<t, fd>> \in Fds
    BY DEF Fds
  <2> QED BY <1>2, <2>1 DEF TaskRec, Held
<1> QED BY <1>1, <1>2, <1>3, <1>4

\* lseek, read and write move the offset of a file.
LEMMA OffsetKeeps ==
  ASSUME NEW tk, NEW fl, Tables(tk, fl), NEW n \in File, NEW v
  PROVE  LET new == [fl EXCEPT ![n].offset = v]
         IN  Tables(tk, new) /\ \A j : Change(j, tk, fl, tk, new) = 0
<1> DEFINE x == [fl[n] EXCEPT !.offset = v]
           new == [fl EXCEPT ![n] = x]
<1>1. [fl EXCEPT ![n].offset = v] = new
  OBVIOUS
<1>2. IsTasks(tk) /\ IsTable(fl) /\ Counted(Held(tk), fl) /\ IsFile(fl[n])
  BY DEF Tables, IsTable
<1>3. /\ IsFcn(x, FileFields) /\ x.inode = fl[n].inode /\ x.count = fl[n].count
      /\ x.write = fl[n].write
  BY <1>2 DEF IsFile, IsFcn, FileFields
<1> HIDE DEF x
<1>4. IsFile(x)
  BY <1>2, <1>3 DEF IsFile
<1>5. IsTable(new) /\ \A m \in File : new[m] = IF m = n THEN x ELSE fl[m]
  BY <1>2, <1>4, TableWrite
<1> HIDE DEF new
<1>6. \A m \in File : new[m].count = fl[m].count /\ new[m].inode = fl[m].inode
  BY <1>3, <1>5
<1>7. Counted(Held(tk), new)
  BY <1>2, <1>6 DEF Counted
<1>8. ASSUME NEW j PROVE Change(j, tk, fl, tk, new) = 0
  <2>1. FileUses(j, new) = FileUses(j, fl)
    BY <1>6, FilesSame
  <2>2. TaskUses(j, tk) \in Nat /\ FileUses(j, fl) \in Nat
    BY UsesNumber
  <2> QED BY <2>1, <2>2 DEF Change
<1> QED BY <1>1, <1>2, <1>5, <1>7, <1>8 DEF Tables

\* A call that leaves tasks and files alone.
LEMMA StillStep ==
  ASSUME NEW j \in Key, Tables(task, file), UNCHANGED <<task, file>>, Tallies(j, fs, fs', 0)
  PROVE  Tables(task', file') /\ Tallies(j, fs, fs', Change(j, task, file, task', file'))
BY NoChange

\* A call that moves an offset.
LEMMA OffsetStep ==
  ASSUME NEW j \in Key, Tables(task, file), task' = task, NEW n \in File, NEW v,
         file' = [file EXCEPT ![n].offset = v], Tallies(j, fs, fs', 0)
  PROVE  Tables(task', file') /\ Tallies(j, fs, fs', Change(j, task, file, task', file'))
<1> DEFINE new == [file EXCEPT ![n].offset = v]
<1>1. Tables(task, new) /\ Change(j, task, file, task, new) = 0
  BY OffsetKeeps
<1>2. file' = new
  OBVIOUS
<1> HIDE DEF new
<1> QED BY <1>1, <1>2

\* chdir and chroot: one use for another.
LEMMA EnterStep ==
  ASSUME NEW j \in Key, Fs(fs), Tables(task, file), NEW t \in Task, NEW path, IsPath(path),
         NEW which \in {"ipwd", "iroot"}, Enter(t, path, which)
  PROVE  Tables(task', file') /\ Tallies(j, fs, fs', Change(j, task, file, task', file'))
<1> DEFINE n == namei(fs, t, path)
           x == [task[t] EXCEPT ![which] = n.at]
           new == [task EXCEPT ![t] = x]
<1>1. /\ task[t].alive /\ file' = file
      /\ \/ fs' = iput(n.fs, n.at) /\ task' = task
         \/ n.at # Null /\ fs' = iput(n.fs, task[t][which]) /\ task' = new
  BY DEF Enter, Calling
<1>2. /\ IsTasks(task) /\ IsTable(file) /\ Counted(Held(task), file) /\ Typed(task)
      /\ task[t] \in TaskRec /\ Starts(t)
  BY TaskIs
<1>3. Gives(j, fs, n)
  BY <1>2, nameiGives
<1> HIDE DEF n
<1>4. Moves(j, fs, n.fs, One(j, n.at)) /\ n.at \in Key \cup {Null}
  BY <1>3 DEF Gives
<1>5. CASE fs' = iput(n.fs, n.at) /\ task' = task
  <2>1. Moves(j, fs, iput(n.fs, n.at), 0)
    BY <1>4, GiveBackLast
  <2> QED BY <1>1, <1>5, <2>1, MovesTallies, StillStep
<1>6. CASE fs' = iput(n.fs, task[t][which]) /\ task' = new
  <2>1. /\ x \in TaskRec /\ x.alive = task[t].alive /\ x.iexec = task[t].iexec
        /\ x.fd = task[t].fd
        /\ x.iroot = (IF which = "iroot" THEN n.at ELSE task[t].iroot)
        /\ x.ipwd = (IF which = "ipwd" THEN n.at ELSE task[t].ipwd)
    BY <1>2, <1>4 DEF TaskRec
  <2>2. Alters(t, x, task, new)
    BY DEF Alters
  <2> HIDE DEF x, new
  <2>3. /\ Typed(new) /\ \A u \in Task : new[u] = IF u = t THEN x ELSE task[u]
        /\ \A h \in Fds : Held(new)[h] = IF h[1] = t THEN x.fd[h[2]] ELSE Held(task)[h]
    BY <1>2, <2>1, <2>2, TaskWrite
  <2>4. TaskUses(j, new) = TaskUses(j, task)
                             + One(j, x.iroot) - One(j, task[t].iroot)
                             + One(j, x.ipwd) - One(j, task[t].ipwd)
                             + One(j, x.iexec) - One(j, task[t].iexec)
    BY <1>2, <2>1, <2>2, TaskWrite
  <2>5. IsTasks(new)
    BY <1>1, <1>2, <2>1, <2>3 DEF IsTasks
  <2>6. Counted(Held(new), file)
    <3>1. ASSUME NEW h \in Fds PROVE Held(new)[h] = Held(task)[h]
      <4>1. Held(task)[h] = task[h[1]].fd[h[2]]
        BY DEF Held
      <4> QED BY <2>1, <2>3, <4>1
    <3> QED BY <1>2, <3>1, SameHeld
  <2> DEFINE k == task[t][which]
  <2>7. Change(j, task, file, new, file) = One(j, n.at) - One(j, k)
    <3>1. \A i : One(j, i) \in {0, 1}
      BY OneNumber
    <3>2. TaskUses(j, task) \in Nat /\ FileUses(j, file) \in Nat
      BY UsesNumber
    <3>3. TaskUses(j, new) = TaskUses(j, task) + One(j, n.at) - One(j, k)
      <4>1. CASE which = "iroot"
        <5>1. x.iroot = n.at /\ x.ipwd = task[t].ipwd /\ k = task[t].iroot
          BY <2>1, <4>1
        <5> QED BY <2>1, <2>4, <3>1, <3>2, <5>1
      <4>2. CASE which = "ipwd"
        <5>1. x.ipwd = n.at /\ x.iroot = task[t].iroot /\ k = task[t].ipwd
          BY <2>1, <4>2
        <5> QED BY <2>1, <2>4, <3>1, <3>2, <5>1
      <4> QED BY <4>1, <4>2
    <3> HIDE DEF k
    <3> QED BY <3>1, <3>2, <3>3 DEF Change
  <2>8. Moves(j, fs, iput(n.fs, k), One(j, n.at) - One(j, k))
    <3>1. One(j, n.at) \in Int /\ One(j, k) \in Int
      BY OneNumber
    <3>2. Fs(n.fs) /\ Moves(j, n.fs, iput(n.fs, k), - One(j, k))
      BY <1>4, MovesFs, iputMoves
    <3> HIDE DEF k
    <3> QED BY <1>4, <3>1, <3>2, MovesAdd
  <2>9. Tallies(j, fs, iput(n.fs, k), One(j, n.at) - One(j, k))
    <3>1. One(j, n.at) - One(j, k) \in Int
      BY OneNumber
    <3> HIDE DEF k
    <3> QED BY <2>8, <3>1, MovesTallies
  <2>10. fs' = iput(n.fs, k) /\ task' = new /\ file' = file
    BY <1>1, <1>6
  <2> HIDE DEF k
  <2> QED BY <1>2, <2>5, <2>6, <2>7, <2>9, <2>10 DEF Tables
<1> QED BY <1>1, <1>5, <1>6

\* open: the new file has the inode that inode_open holds.
LEMMA OpenStep ==
  ASSUME NEW j \in Key, Fs(fs), Tables(task, file), NEW t \in Task, NEW path, IsPath(path),
         NEW creat, NEW trunc, NEW read, NEW write, Open(t, path, creat, trunc, read, write)
  PROVE  Tables(task', file') /\ Tallies(j, fs, fs', Change(j, task, file, task', file'))
<1> DEFINE o == inode_open(fs, t, path, creat, trunc, write)
           fd == Min(FreeFds(t))
           n == Min(FreeFiles)
           X(offset) == [inode |-> o.at, count |-> 1, offset |-> offset,
                         read |-> read, write |-> write]
<1>1. /\ task[t].alive
      /\ \/ o.at = Null /\ fs' = o.fs /\ UNCHANGED <<task, file>>
         \/ fs' = Panic(o.fs, "files") /\ UNCHANGED <<task, file>>
         \/ /\ o.at # Null /\ FreeFds(t) # {} /\ FreeFiles # {}
            /\ fs' = o.fs /\ task' = [task EXCEPT ![t].fd[fd] = n]
            /\ \E offset : file' = [file EXCEPT ![n] = X(offset)]
  BY DEF Open, Calling
<1>2. /\ IsTasks(task) /\ IsTable(file) /\ Counted(Held(task), file) /\ Starts(t)
      /\ \A i \in Fd : /\ <<t, i>> \in Fds /\ Held(task)[<<t, i>>] = task[t].fd[i]
  BY TaskIs
<1>3. Gives(j, fs, o)
  BY <1>2, inode_openGives
<1> HIDE DEF o
<1>4. Moves(j, fs, o.fs, One(j, o.at)) /\ o.at \in Key \cup {Null} /\ Fs(o.fs)
      /\ One(j, o.at) \in {0, 1} /\ One(j, Null) = 0
  BY <1>3, MovesFs, OneNumber DEF Gives
<1>5. CASE o.at = Null /\ fs' = o.fs /\ UNCHANGED <<task, file>>
  BY <1>4, <1>5, MovesTallies, StillStep
<1>6. CASE fs' = Panic(o.fs, "files") /\ UNCHANGED <<task, file>>
  <2>1. Quiet(o.fs, Panic(o.fs, "files"))
    BY <1>4, PanicQuiet
  <2>2. Moves(j, fs, Panic(o.fs, "files"), One(j, o.at))
    BY <1>4, <2>1, ThenQuiet
  <2>3. Moves(j, fs, Panic(o.fs, "files"), 0)
    BY <1>4, <2>2, MovesLess
  <2> QED BY <1>6, <2>3, MovesTallies, StillStep
<1>7. CASE /\ o.at # Null /\ FreeFds(t) # {} /\ FreeFiles # {}
           /\ fs' = o.fs /\ task' = [task EXCEPT ![t].fd[fd] = n]
           /\ \E offset : file' = [file EXCEPT ![n] = X(offset)]
  <2>1. fd \in Fd /\ task[t].fd[fd] = 0
    <3>1. FreeFds(t) \in SUBSET Nat
      BY SizesAssumption DEF FreeFds, Fd
    <3>2. fd \in FreeFds(t)
      BY <1>7, <3>1, MinExists
    <3> HIDE DEF fd
    <3> QED BY <3>2 DEF FreeFds
  <2>2. n \in File /\ file[n].count = 0
    <3>1. FreeFiles \in SUBSET Nat
      BY SizesAssumption DEF FreeFiles, File
    <3>2. n \in FreeFiles
      BY <1>7, <3>1, MinExists
    <3> HIDE DEF n
    <3> QED BY <3>2 DEF FreeFiles
  <2> HIDE DEF fd, n
  <2>3. PICK offset : file' = [file EXCEPT ![n] = X(offset)]
    BY <1>7
  <2> DEFINE x == X(offset)
             fl == [file EXCEPT ![n] = x]
             tk == [task EXCEPT ![t].fd[fd] = n]
  <2>4. IsFile(x) /\ x.inode = o.at /\ x.count = 1
    BY <1>4, <1>7 DEF IsFile, IsFcn, FileFields
  <2>5. file' = fl /\ task' = tk /\ fs' = o.fs
    BY <1>7, <2>3
  <2> HIDE DEF X, x
  <2>6. /\ IsTasks(tk) /\ Sets(<<t, fd>>, n, Held(task), Held(tk))
        /\ TaskUses(j, tk) = TaskUses(j, task)
    <3>1. FdSet(t, fd, n, task, tk)
      BY DEF FdSet
    <3> HIDE DEF tk
    <3> QED BY <1>1, <1>2, <2>1, <2>2, <3>1, FdWrite
  <2> HIDE DEF tk
  <2>7. file[n].inode = Null
    BY <1>2, <2>2 DEF IsTable, IsFile
  <2>8. FileUses(j, fl) = FileUses(j, file) + One(j, x.inode) - One(j, file[n].inode)
    BY <1>2, <2>2, <2>4, TableWrite
  <2>9. IsTable(fl) /\ Counted(Held(tk), fl)
    <3> DEFINE h == <<t, fd>>
               old == Held(task)
               new == Held(tk)
    <3>1. h \in Fds /\ old[h] = 0 /\ Sets(h, n, old, new) /\ Counted(old, file)
      BY <1>2, <2>1, <2>6
    <3>2. x.count = file[n].count + 1
      BY <2>2, <2>4
    <3> HIDE DEF h, old, new
    <3>3. IsTable(fl) /\ Counted(new, fl)
      BY <1>2, <2>2, <2>4, <3>1, <3>2, OneMore
    <3> QED BY <3>3 DEF new
  <2> HIDE DEF fl
  <2>10. Change(j, task, file, tk, fl) = One(j, o.at)
    <3>1. TaskUses(j, task) \in Nat /\ FileUses(j, file) \in Nat
      BY UsesNumber
    <3> QED BY <1>4, <2>4, <2>6, <2>7, <2>8, <3>1 DEF Change
  <2>11. Tallies(j, fs, o.fs, One(j, o.at))
    BY <1>4, MovesTallies
  <2> QED BY <2>5, <2>6, <2>9, <2>10, <2>11 DEF Tables
<1> QED BY <1>1, <1>5, <1>6, <1>7

\* sys_close of one descriptor.
LEMMA CloseFdKeeps ==
  ASSUME NEW j \in Key, Fs(fs), Tables(task, file), NEW t \in Task, NEW fd \in Fd,
         NEW new, Sets(<<t, fd>>, 0, Held(task), new)
  PROVE  LET c == CloseFd(fs, t, fd)
         IN  /\ IsTable(c.file) /\ Counted(new, c.file)
             /\ Moves(j, fs, c.fs, FileUses(j, c.file) - FileUses(j, file))
<1> DEFINE s == [fs |-> fs, file |-> file]
           h == <<t, fd>>
           held == Held(task)
           to == [i \in Fds |-> new[i]]
           r == put_file(s, held[h])
<1>1. /\ h \in Fds /\ held[h] = task[t].fd[fd] /\ held[h] \in File \cup {0}
      /\ IsTable(file) /\ Counted(held, file)
  BY TaskIs
<1>2. to[h] = 0 /\ \A i \in Fds \ {h} : to[i] = held[i]
  <2> HIDE DEF held, h
  <2> QED BY <1>1 DEF Sets, h, held
<1>3. s = [fs |-> s.fs, file |-> s.file] /\ s.fs = fs /\ s.file = file
  OBVIOUS
<1>4. CloseFd(fs, t, fd) = r
  BY <1>1 DEF CloseFd
<1>5. \A i \in Fds : new[i] = to[i]
  OBVIOUS
<1> HIDE DEF s, h, held, to
<1>6. /\ IsTable(r.file) /\ Counted(to, r.file)
      /\ Moves(j, s.fs, r.fs, FileUses(j, r.file) - FileUses(j, s.file))
  BY <1>1, <1>2, <1>3, put_fileKeeps
<1> HIDE DEF r
<1>7. Counted(new, r.file)
  BY <1>5, <1>6, SameHeld
<1> QED BY <1>3, <1>4, <1>6, <1>7

\* close.
LEMMA CloseStep ==
  ASSUME NEW j \in Key, Fs(fs), Tables(task, file), NEW t \in Task, NEW fd \in Fd,
         Close(t, fd)
  PROVE  Tables(task', file') /\ Tallies(j, fs, fs', Change(j, task, file, task', file'))
<1> DEFINE c == CloseFd(fs, t, fd)
           tk == [task EXCEPT ![t].fd[fd] = 0]
<1>1. task[t].alive /\ fs' = c.fs /\ file' = c.file /\ task' = tk
  BY DEF Close, Calling
<1>2. IsTasks(task)
  BY TaskIs
<1>3. /\ IsTasks(tk) /\ Sets(<<t, fd>>, 0, Held(task), Held(tk))
      /\ TaskUses(j, tk) = TaskUses(j, task)
  <2>1. FdSet(t, fd, 0, task, tk)
    BY DEF FdSet
  <2> HIDE DEF tk
  <2> QED BY <1>1, <1>2, <2>1, FdWrite
<1> HIDE DEF tk
<1>4. /\ IsTable(c.file) /\ Counted(Held(tk), c.file)
      /\ Moves(j, fs, c.fs, FileUses(j, c.file) - FileUses(j, file))
  BY <1>3, CloseFdKeeps
<1> HIDE DEF c
<1>5. TaskUses(j, task) \in Nat /\ FileUses(j, file) \in Nat /\ FileUses(j, c.file) \in Nat
  BY UsesNumber
<1>6. Change(j, task, file, tk, c.file) = FileUses(j, c.file) - FileUses(j, file)
      /\ FileUses(j, c.file) - FileUses(j, file) \in Int
  BY <1>3, <1>5 DEF Change
<1>7. Tallies(j, fs, c.fs, FileUses(j, c.file) - FileUses(j, file))
  BY <1>4, <1>6, MovesTallies
<1> QED BY <1>1, <1>3, <1>4, <1>6, <1>7 DEF Tables

\* The count of a file that gets one more descriptor.
LEMMA CountUp ==
  ASSUME NEW fl, IsTable(fl), NEW n \in File
  PROVE  LET x == [fl[n] EXCEPT !.count = @ + 1]
         IN  /\ [fl EXCEPT ![n].count = @ + 1] = [fl EXCEPT ![n] = x]
             /\ IsFile(x) /\ x.count = fl[n].count + 1 /\ x.inode = fl[n].inode
             /\ \A j : FileUses(j, [fl EXCEPT ![n] = x]) = FileUses(j, fl)
<1> DEFINE x == [fl[n] EXCEPT !.count = @ + 1]
<1>1. IsFile(fl[n])
  BY DEF IsTable
<1>2. /\ IsFcn(x, FileFields) /\ x.inode = fl[n].inode /\ x.count = fl[n].count + 1
      /\ x.write = fl[n].write
  BY <1>1 DEF IsFile, IsFcn, FileFields
<1>3. [fl EXCEPT ![n].count = @ + 1] = [fl EXCEPT ![n] = x]
  OBVIOUS
<1> HIDE DEF x
<1>4. IsFile(x)
  BY <1>1, <1>2 DEF IsFile
<1>5. ASSUME NEW j PROVE FileUses(j, [fl EXCEPT ![n] = x]) = FileUses(j, fl)
  <2> DEFINE new == [fl EXCEPT ![n] = x]
  <2>1. \A m \in File : new[m] = IF m = n THEN x ELSE fl[m]
    BY DEF IsTable, IsFcn
  <2> HIDE DEF new
  <2>2. \A m \in File : new[m].inode = fl[m].inode
    BY <1>2, <2>1
  <2>3. FileUses(j, new) = FileUses(j, fl)
    BY <2>2, FilesSame
  <2> QED BY <2>3 DEF new
<1> QED BY <1>2, <1>3, <1>4, <1>5 DEF x

\* dup.
LEMMA DupStep ==
  ASSUME NEW j \in Key, Fs(fs), Tables(task, file), NEW t \in Task, NEW fd \in Fd,
         Dup(t, fd)
  PROVE  Tables(task', file') /\ Tallies(j, fs, fs', Change(j, task, file, task', file'))
<1> DEFINE to == Min(FreeFds(t))
           n == task[t].fd[fd]
           x == [file[n] EXCEPT !.count = @ + 1]
           fl == [file EXCEPT ![n] = x]
           tk == [task EXCEPT ![t].fd[to] = n]
<1>1. /\ task[t].alive /\ n # 0 /\ FreeFds(t) # {} /\ fs' = fs /\ task' = tk
      /\ file' = [file EXCEPT ![n].count = @ + 1]
  BY DEF Dup, Calling
<1>2. /\ IsTasks(task) /\ IsTable(file) /\ Counted(Held(task), file)
      /\ \A i \in Fd : /\ <<t, i>> \in Fds /\ Held(task)[<<t, i>>] = task[t].fd[i]
      /\ n \in File \cup {0}
  BY TaskIs
<1>3. to \in Fd /\ task[t].fd[to] = 0
  <2>1. FreeFds(t) \in SUBSET Nat
    BY SizesAssumption DEF FreeFds, Fd
  <2>2. to \in FreeFds(t)
    BY <1>1, <2>1, MinExists
  <2> HIDE DEF to
  <2> QED BY <2>2 DEF FreeFds
<1>4. FdSet(t, to, n, task, tk)
  BY DEF FdSet
<1> HIDE DEF to, n, tk
<1>5. n \in File
  BY <1>1, <1>2
<1>6. /\ file' = fl /\ IsFile(x) /\ x.count = file[n].count + 1
      /\ FileUses(j, fl) = FileUses(j, file)
  BY <1>1, <1>2, <1>5, CountUp
<1> HIDE DEF x
<1>7. /\ IsTasks(tk) /\ Sets(<<t, to>>, n, Held(task), Held(tk))
      /\ TaskUses(j, tk) = TaskUses(j, task)
  BY <1>1, <1>2, <1>3, <1>4, FdWrite
<1>8. IsTable(fl) /\ Counted(Held(tk), fl)
  <2> DEFINE h == <<t, to>>
             old == Held(task)
             new == Held(tk)
  <2>1. h \in Fds /\ old[h] = 0 /\ Sets(h, n, old, new) /\ Counted(old, file)
    BY <1>2, <1>3, <1>7
  <2> HIDE DEF h, old, new
  <2>2. IsTable(fl) /\ Counted(new, fl)
    BY <1>2, <1>5, <1>6, <2>1, OneMore
  <2> QED BY <2>2 DEF new
<1> HIDE DEF fl
<1>9. Change(j, task, file, tk, fl) = 0
  <2>1. TaskUses(j, task) \in Nat /\ FileUses(j, file) \in Nat
    BY UsesNumber
  <2> QED BY <1>6, <1>7, <2>1 DEF Change
<1>10. Tallies(j, fs, fs, 0)
  BY QuietSelf, QuietMoves, MovesTallies
<1> QED BY <1>1, <1>6, <1>7, <1>8, <1>9, <1>10 DEF Tables

\* dup2: the descriptor is closed before it holds the other file.
LEMMA Dup2Step ==
  ASSUME NEW j \in Key, Fs(fs), Tables(task, file), NEW t \in Task, NEW old \in Fd,
         NEW new \in Fd, Dup2(t, old, new)
  PROVE  Tables(task', file') /\ Tallies(j, fs, fs', Change(j, task, file, task', file'))
<1> DEFINE c == CloseFd(fs, t, new)
           n == task[t].fd[old]
           tk == [task EXCEPT ![t].fd[new] = n]
           h == <<t, new>>
           held == Held(task)
           mid == [i \in Fds |-> IF i = h THEN 0 ELSE held[i]]
<1>1. /\ task[t].alive /\ fs' = c.fs /\ task' = tk
      /\ file' = IF n = 0 THEN c.file ELSE [c.file EXCEPT ![n].count = @ + 1]
  BY DEF Dup2, Calling
<1>2. IsTasks(task) /\ h \in Fds /\ n \in File \cup {0}
  BY TaskIs
<1>3. FdSet(t, new, n, task, tk)
  BY DEF FdSet
<1>4. Sets(h, 0, held, mid) /\ mid[h] = 0
  <2> HIDE DEF h, held
  <2> QED BY <1>2 DEF Sets
<1> HIDE DEF n, tk
<1>5. /\ IsTasks(tk) /\ Sets(h, n, held, Held(tk))
      /\ TaskUses(j, tk) = TaskUses(j, task)
  BY <1>1, <1>2, <1>3, FdWrite
<1> HIDE DEF mid
<1>6. /\ IsTable(c.file) /\ Counted(mid, c.file)
      /\ Moves(j, fs, c.fs, FileUses(j, c.file) - FileUses(j, file))
  BY <1>4, CloseFdKeeps
<1> HIDE DEF c
<1>7. /\ TaskUses(j, task) \in Nat /\ FileUses(j, file) \in Nat
      /\ FileUses(j, c.file) \in Nat
  BY UsesNumber
<1>8. Tallies(j, fs, c.fs, FileUses(j, c.file) - FileUses(j, file))
  <2>1. FileUses(j, c.file) - FileUses(j, file) \in Int
    BY <1>7
  <2> QED BY <1>6, <2>1, MovesTallies
<1>9. CASE n = 0
  <2>1. \A i \in Fds : Held(tk)[i] = mid[i]
    <3> HIDE DEF h, held
    <3> QED BY <1>4, <1>5, <1>9 DEF Sets
  <2>2. Counted(Held(tk), c.file)
    <3> DEFINE to == Held(tk)
    <3>1. \A i \in Fds : to[i] = mid[i]
      BY <2>1
    <3> HIDE DEF to
    <3>2. Counted(to, c.file)
      BY <1>6, <3>1, SameHeld
    <3> QED BY <3>2 DEF to
  <2>3. Change(j, task, file, tk, c.file) = FileUses(j, c.file) - FileUses(j, file)
    BY <1>5, <1>7 DEF Change
  <2>4. file' = c.file
    BY <1>1, <1>9
  <2> QED BY <1>1, <1>5, <1>6, <1>8, <2>2, <2>3, <2>4 DEF Tables
<1>10. CASE n \in File
  <2> DEFINE tb == c.file
             x == [tb[n] EXCEPT !.count = @ + 1]
             fl == [tb EXCEPT ![n] = x]
             to == Held(tk)
  <2>1. n # 0
    BY <1>10, SizesAssumption DEF File
  <2>2. file' = [tb EXCEPT ![n].count = @ + 1]
    BY <1>1, <2>1
  <2>3. IsTable(tb) /\ Counted(mid, tb)
    BY <1>6
  <2>4. Sets(h, n, mid, to)
    <3> HIDE DEF h, held
    <3> QED BY <1>4, <1>5 DEF Sets
  <2> HIDE DEF tb, to
  <2>5. /\ file' = fl /\ IsFile(x) /\ x.count = tb[n].count + 1
        /\ FileUses(j, fl) = FileUses(j, tb)
    BY <1>10, <2>2, <2>3, CountUp
  <2> HIDE DEF x, h
  <2>6. IsTable(fl) /\ Counted(to, fl)
    BY <1>2, <1>4, <1>10, <2>3, <2>4, <2>5, OneMore
  <2> HIDE DEF fl
  <2>7. Change(j, task, file, tk, fl) = FileUses(j, c.file) - FileUses(j, file)
    <3>1. FileUses(j, tb) = FileUses(j, c.file)
      BY DEF tb
    <3> QED BY <1>5, <1>7, <2>5, <3>1 DEF Change
  <2>8. Counted(Held(tk), fl)
    BY <2>6 DEF to
  <2> QED BY <1>1, <1>5, <1>8, <2>5, <2>6, <2>7, <2>8 DEF Tables
<1> QED BY <1>2, <1>9, <1>10

\* fork: the child has what the parent has.
LEMMA ForkStep ==
  ASSUME NEW j \in Key, Fs(fs), Tables(task, file), NEW t \in Task, NEW child \in Task,
         Fork(t, child)
  PROVE  Tables(task', file') /\ Tallies(j, fs, fs', Change(j, task, file, task', file'))
<1> DEFINE x == task[t]
           tk == [task EXCEPT ![child] = x]
           held == Held(task)
           mine(n) == Mine(held, t, n)
           fl == [n \in File |-> [file[n] EXCEPT !.count = @ + Cardinality(mine(n))]]
           new == Forked(held, t, child)
<1>1. /\ x.alive /\ ~ task[child].alive /\ fs' = ForkHolds(fs, t) /\ task' = tk
      /\ file' = [n \in File |->
                    [file[n] EXCEPT !.count =
                       @ + Cardinality({fd \in Fd : task[t].fd[fd] = n /\ n # 0})]]
  BY DEF Fork, Calling
<1>2. /\ IsTasks(task) /\ IsTable(file) /\ Counted(held, file) /\ Typed(task)
      /\ x \in TaskRec
      /\ \A fd \in Fd : /\ <<t, fd>> \in Fds /\ held[<<t, fd>>] = task[t].fd[fd]
  BY TaskIs
<1>3. task[child] = NoTask
  BY <1>1, <1>2 DEF IsTasks
<1>4. file' = fl
  <2>1. ASSUME NEW n \in File
        PROVE  {fd \in Fd : task[t].fd[fd] = n /\ n # 0} = mine(n)
    <3>1. n # 0
      BY SizesAssumption DEF File
    <3> HIDE DEF held
    <3> QED BY <1>2, <3>1 DEF Mine
  <2> HIDE DEF mine
  <2> QED BY <1>1, <2>1
<1>5. \A fd \in Fd : held[<<child, fd>>] = 0
  <2> SUFFICES ASSUME NEW fd \in Fd PROVE held[<<child, fd>>] = 0
    OBVIOUS
  <2>1. held[<<child, fd>>] = task[child].fd[fd]
    BY TaskIs
  <2> HIDE DEF held
  <2> QED BY <1>3, <2>1 DEF NoTask, NoFds
<1>6. Alters(child, x, task, tk)
  BY DEF Alters
<1> HIDE DEF x, tk
<1>7. /\ Typed(tk) /\ \A u \in Task : tk[u] = IF u = child THEN x ELSE task[u]
      /\ \A h \in Fds : Held(tk)[h] = IF h[1] = child THEN x.fd[h[2]] ELSE Held(task)[h]
  BY <1>2, <1>6, TaskWrite
<1>8. TaskUses(j, tk) = TaskUses(j, task)
                          + One(j, x.iroot) - One(j, task[child].iroot)
                          + One(j, x.ipwd) - One(j, task[child].ipwd)
                          + One(j, x.iexec) - One(j, task[child].iexec)
  BY <1>2, <1>6, TaskWrite
<1>9. IsTasks(tk)
  BY <1>1, <1>2, <1>7 DEF IsTasks
<1> HIDE DEF held
<1>10. ASSUME NEW n \in File
       PROVE  /\ Count(Fds, held, n) \in Nat /\ Cardinality(mine(n)) \in Nat
              /\ Count(Fds, new, n) = Count(Fds, held, n) + Cardinality(mine(n))
  BY <1>5, ForkCounts
<1>11. \A h \in Fds : Held(tk)[h] = new[h]
  <2> SUFFICES ASSUME NEW h \in Fds PROVE Held(tk)[h] = new[h]
    OBVIOUS
  <2>1. h[2] \in Fd
    BY DEF Fds
  <2>2. held[<<t, h[2]>>] = x.fd[h[2]]
    BY <1>2, <2>1 DEF x
  <2>3. new[h] = IF h[1] = child THEN held[<<t, h[2]>>] ELSE held[h]
    BY DEF Forked
  <2> HIDE DEF new
  <2> QED BY <1>7, <2>2, <2>3 DEF held
<1> HIDE DEF mine, new
<1>12. ASSUME NEW n \in File
       PROVE  IsFile(fl[n]) /\ fl[n].inode = file[n].inode /\ fl[n].count = Count(Fds, new, n)
  <2> DEFINE k == Cardinality(mine(n))
             y == [file[n] EXCEPT !.count = @ + k]
  <2>1. IsFile(file[n]) /\ file[n].count = Count(Fds, held, n)
    BY <1>2 DEF IsTable, Counted
  <2>2. k \in Nat /\ Count(Fds, new, n) = Count(Fds, held, n) + k
    BY <1>10
  <2>3. fl[n] = y
    OBVIOUS
  <2> HIDE DEF k, fl
  <2>4. /\ IsFcn(y, FileFields) /\ y.inode = file[n].inode
        /\ y.count = file[n].count + k /\ y.write = file[n].write
    BY <2>1 DEF IsFile, IsFcn, FileFields
  <2> HIDE DEF y
  <2>5. y.count \in Nat /\ (y.count = 0 => file[n].count = 0)
    BY <2>1, <2>2, <2>4 DEF IsFile
  <2>6. IsFile(y)
    BY <2>1, <2>4, <2>5 DEF IsFile
  <2> QED BY <2>1, <2>2, <2>3, <2>4, <2>6
<1>13. IsTable(fl)
  <2>1. IsFcn(fl, File)
    BY DEF IsFcn
  <2> HIDE DEF fl
  <2> QED BY <1>12, <2>1 DEF IsTable
<1> HIDE DEF fl
<1>14. Counted(Held(tk), fl)
  <2>1. Counted(new, fl)
    BY <1>12 DEF Counted
  <2> QED BY <1>11, <2>1, SameHeld
<1>15. FileUses(j, fl) = FileUses(j, file)
  BY <1>12, FilesSame
<1> DEFINE k == One(j, x.ipwd) + One(j, x.iroot) + One(j, x.iexec)
<1>16. k \in Int /\ Change(j, task, file, tk, fl) = k
  <2>1. /\ TaskUses(j, task) \in Nat /\ FileUses(j, file) \in Nat
        /\ One(j, x.ipwd) \in {0, 1} /\ One(j, x.iroot) \in {0, 1}
        /\ One(j, x.iexec) \in {0, 1} /\ One(j, Null) = 0
    BY UsesNumber, OneNumber
  <2>2. task[child].iroot = Null /\ task[child].ipwd = Null /\ task[child].iexec = Null
    BY <1>3 DEF NoTask
  <2> QED BY <1>8, <1>15, <2>1, <2>2 DEF Change
<1>17. Moves(j, fs, ForkHolds(fs, t), k)
  BY ForkHoldsMoves DEF x
<1> HIDE DEF k
<1>18. Tallies(j, fs, ForkHolds(fs, t), k)
  BY <1>16, <1>17, MovesTallies
<1> QED BY <1>1, <1>4, <1>9, <1>13, <1>14, <1>16, <1>18 DEF Tables

\* A task gives up all its descriptors.
LEMMA LeaveKeeps ==
  ASSUME NEW j \in Key, NEW f, Fs(f), Tables(task, file), NEW t \in Task, NEW x \in TaskRec,
         x.fd = NoFds, ~ x.alive => x = NoTask, NEW tk, Alters(t, x, task, tk)
  PROVE  LET c == CloseAll(f, t)
         IN  /\ Tables(tk, c.file)
             /\ Moves(j, f, c.fs, FileUses(j, c.file) - FileUses(j, file))
<1> DEFINE c == CloseAll(f, t)
           none == [h \in Fds |-> IF h[1] = t THEN 0 ELSE Held(task)[h]]
<1>1. /\ IsTasks(task) /\ IsTable(file) /\ Counted(Held(task), file) /\ Typed(task)
      /\ \A fd \in Fd : task[t].fd[fd] \in File \cup {0}
  BY TaskIs
<1>2. /\ IsTable(c.file) /\ Counted(none, c.file)
      /\ Moves(j, f, c.fs, FileUses(j, c.file) - FileUses(j, file))
  BY <1>1, CloseAllKeeps
<1> HIDE DEF c
<1>3. /\ Typed(tk) /\ \A u \in Task : tk[u] = IF u = t THEN x ELSE task[u]
      /\ \A h \in Fds : Held(tk)[h] = IF h[1] = t THEN x.fd[h[2]] ELSE Held(task)[h]
  BY <1>1, TaskWrite
<1>4. IsTasks(tk)
  BY <1>1, <1>3 DEF IsTasks
<1>5. \A h \in Fds : Held(tk)[h] = none[h]
  <2> SUFFICES ASSUME NEW h \in Fds PROVE Held(tk)[h] = none[h]
    OBVIOUS
  <2>1. x.fd[h[2]] = 0
    BY DEF NoFds, Fds
  <2> QED BY <1>3, <2>1
<1> HIDE DEF none
<1>6. Counted(Held(tk), c.file)
  <2> DEFINE to == Held(tk)
  <2>1. \A h \in Fds : to[h] = none[h]
    BY <1>5
  <2> HIDE DEF to
  <2>2. Counted(to, c.file)
    BY <1>2, <2>1, SameHeld
  <2> QED BY <2>2 DEF to
<1> QED BY <1>2, <1>4, <1>6 DEF Tables, c

\* exit gives everything back.
LEMMA ExitStep ==
  ASSUME NEW j \in Key, Fs(fs), Tables(task, file), NEW t \in Task, Exit(t)
  PROVE  Tables(task', file') /\ Tallies(j, fs, fs', Change(j, task, file, task', file'))
<1> DEFINE a == task[t].ipwd
           b == task[t].iroot
           e == task[t].iexec
           f1 == iput(fs, a)
           f2 == iput(f1, b)
           f == iput(f2, e)
           c == CloseAll(f, t)
           x == NoTask
           tk == [task EXCEPT ![t] = x]
<1>1. fs' = c.fs /\ file' = c.file /\ task' = tk
  BY DEF Exit
<1>2. Typed(task)
  BY TaskIs
<1>3. /\ x \in TaskRec /\ x.fd = NoFds /\ x.iroot = Null /\ x.ipwd = Null
      /\ x.iexec = Null /\ x = NoTask /\ Alters(t, x, task, tk)
  BY NoTaskIs DEF NoTask, Alters
<1> HIDE DEF a, b, e, x, tk
<1>4. /\ One(j, a) \in {0, 1} /\ One(j, b) \in {0, 1} /\ One(j, e) \in {0, 1}
      /\ One(j, Null) = 0
  BY OneNumber
<1>5. Moves(j, fs, f1, - One(j, a)) /\ Fs(f1)
  BY iputMoves, MovesFs
<1> HIDE DEF f1
<1>6. Moves(j, f1, f2, - One(j, b)) /\ Fs(f2)
  BY <1>5, iputMoves, MovesFs
<1> HIDE DEF f2
<1>7. Moves(j, f2, f, - One(j, e)) /\ Fs(f)
  BY <1>6, iputMoves, MovesFs
<1> HIDE DEF f
<1>8. Moves(j, fs, f2, - One(j, a) - One(j, b))
  BY <1>4, <1>5, <1>6, MovesAdd
<1>9. Moves(j, fs, f, - One(j, a) - One(j, b) - One(j, e))
  BY <1>4, <1>7, <1>8, MovesAdd
<1>10. /\ Tables(tk, c.file)
       /\ Moves(j, f, c.fs, FileUses(j, c.file) - FileUses(j, file))
  BY <1>3, <1>7, LeaveKeeps
<1> HIDE DEF c
<1>11. TaskUses(j, tk) = TaskUses(j, task)
                           + One(j, x.iroot) - One(j, task[t].iroot)
                           + One(j, x.ipwd) - One(j, task[t].ipwd)
                           + One(j, x.iexec) - One(j, task[t].iexec)
  BY <1>2, <1>3, TaskWrite
<1> DEFINE m == - One(j, a) - One(j, b) - One(j, e)
           k == FileUses(j, c.file) - FileUses(j, file)
<1>12. /\ m \in Int /\ k \in Int /\ Change(j, task, file, tk, c.file) = m + k
  <2>1. /\ TaskUses(j, task) \in Nat /\ FileUses(j, file) \in Nat
        /\ FileUses(j, c.file) \in Nat
    BY UsesNumber
  <2>2. TaskUses(j, tk) = TaskUses(j, task) - One(j, b) - One(j, a) - One(j, e)
    BY <1>3, <1>4, <1>11, <2>1 DEF a, b, e
  <2> QED BY <1>4, <2>1, <2>2 DEF Change
<1> HIDE DEF m, k
<1>13. Moves(j, fs, f, m) /\ Moves(j, f, c.fs, k)
  BY <1>9, <1>10 DEF m, k
<1>14. m + k \in Int
  BY <1>12
<1>15. Moves(j, fs, c.fs, m + k)
  BY <1>12, <1>13, <1>14, MovesAdd
<1>16. Tallies(j, fs, c.fs, m + k)
  BY <1>14, <1>15, MovesTallies
<1> QED BY <1>1, <1>10, <1>12, <1>16

\* execve of an image gives the old one back for the new one.  Of what is no
\* image the files are closed, and iexec still names the old one.
LEMMA ExecveStep ==
  ASSUME NEW j \in Key, Fs(fs), Nodes(fs), Tables(task, file), NEW t \in Task,
         NEW path, IsPath(path), NEW elf \in BOOLEAN, Execve(t, path, elf)
  PROVE  /\ Tables(task', file') /\ Fs(fs') /\ Nodes(fs')
         /\ elf => Tallies(j, fs, fs', Change(j, task, file, task', file'))
<1> DEFINE n == namei(fs, t, path)
           e == task[t].iexec
           f == iput(n.fs, e)
           c == CloseAll(f, t)
           x == [task[t] EXCEPT !.fd = NoFds,
                                !.iexec = IF elf THEN n.at ELSE task[t].iexec]
           tk == [task EXCEPT ![t] = x]
<1>1. /\ task[t].alive
      /\ \/ fs' = iput(n.fs, n.at) /\ UNCHANGED <<task, file>>
         \/ /\ n.at # Null /\ file' = c.file /\ task' = tk
            /\ fs' = IF elf THEN c.fs ELSE iput(c.fs, n.at)
  <2>1. task[t].alive
    BY DEF Execve, Calling
  <2>2. \/ fs' = iput(n.fs, n.at) /\ UNCHANGED <<task, file>>
        \/ /\ n.at # Null
           /\ fs' = IF elf THEN c.fs ELSE iput(c.fs, n.at)
           /\ file' = c.file
           /\ task' = [task EXCEPT ![t] =
                         [@ EXCEPT !.fd = NoFds,
                                   !.iexec = IF elf THEN n.at ELSE task[t].iexec]]
    BY DEF Execve
  <2> HIDE DEF n, c
  <2> QED BY <2>1, <2>2
<1>2. Typed(task) /\ task[t] \in TaskRec /\ Starts(t)
  BY TaskIs
<1>3. Gives(j, fs, n)
  BY <1>2, nameiGives
<1> HIDE DEF n
<1>4. /\ Moves(j, fs, n.fs, One(j, n.at)) /\ n.at \in Key \cup {Null} /\ Fs(n.fs)
      /\ One(j, n.at) \in {0, 1} /\ One(j, e) \in {0, 1}
  BY <1>3, MovesFs, OneNumber DEF Gives
<1>5. CASE fs' = iput(n.fs, n.at) /\ UNCHANGED <<task, file>>
  <2>1. Moves(j, fs, iput(n.fs, n.at), 0)
    BY <1>4, GiveBackLast
  <2>2. Tallies(j, fs, fs', 0)
    BY <1>5, <2>1, MovesTallies
  <2>3. Fs(fs') /\ Nodes(fs')
    BY <2>2 DEF Tallies
  <2> QED BY <1>5, <2>2, <2>3, StillStep
<1>6. CASE /\ n.at # Null /\ file' = c.file /\ task' = tk
           /\ fs' = IF elf THEN c.fs ELSE iput(c.fs, n.at)
  <2>1. /\ x \in TaskRec /\ x.fd = NoFds /\ x.alive = task[t].alive
        /\ x.iroot = task[t].iroot /\ x.ipwd = task[t].ipwd
        /\ elf => x.iexec = n.at
    BY <1>2, <1>4 DEF TaskRec, NoFds
  <2>2. Alters(t, x, task, tk)
    BY DEF Alters
  <2> HIDE DEF x, tk
  <2>3. Moves(j, n.fs, f, - One(j, e)) /\ Fs(f)
    BY <1>4, iputMoves, MovesFs
  <2> HIDE DEF f
  <2>4. Moves(j, fs, f, One(j, n.at) - One(j, e))
    <3> HIDE DEF e
    <3> QED BY <1>4, <2>3, MovesAdd
  <2>5. /\ Tables(tk, c.file)
        /\ Moves(j, f, c.fs, FileUses(j, c.file) - FileUses(j, file))
    BY <1>1, <2>1, <2>2, <2>3, LeaveKeeps
  <2> HIDE DEF c
  <2> DEFINE m == One(j, n.at) - One(j, e)
             k == FileUses(j, c.file) - FileUses(j, file)
  <2>6. /\ TaskUses(j, task) \in Nat /\ FileUses(j, file) \in Nat
        /\ FileUses(j, c.file) \in Nat
    BY UsesNumber
  <2>7. m \in Int /\ k \in Int /\ m + k \in Int
    <3> HIDE DEF e
    <3> QED BY <1>4, <2>6
  <2>8. Moves(j, fs, f, m) /\ Moves(j, f, c.fs, k)
    BY <2>4, <2>5
  <2>9. Moves(j, fs, c.fs, m + k)
    <3> HIDE DEF m, k
    <3> QED BY <2>7, <2>8, MovesAdd
  <2>10. Fs(fs') /\ Nodes(fs')
    <3>1. Fs(c.fs) /\ Nodes(c.fs)
      BY <2>9 DEF Moves
    <3>2. Moves(j, c.fs, iput(c.fs, n.at), - One(j, n.at))
      BY <3>1, iputMoves
    <3>3. Fs(iput(c.fs, n.at)) /\ Nodes(iput(c.fs, n.at))
      BY <3>1, <3>2 DEF Moves
    <3> QED BY <1>6, <3>1, <3>3
  <2>11. ASSUME elf PROVE Tallies(j, fs, fs', Change(j, task, file, tk, c.file))
    <3>1. TaskUses(j, tk) = TaskUses(j, task)
                              + One(j, x.iroot) - One(j, task[t].iroot)
                              + One(j, x.ipwd) - One(j, task[t].ipwd)
                              + One(j, x.iexec) - One(j, task[t].iexec)
      BY <1>2, <2>1, <2>2, TaskWrite
    <3>2. Change(j, task, file, tk, c.file) = m + k
      <4>1. One(j, x.iroot) \in {0, 1} /\ One(j, x.ipwd) \in {0, 1}
        BY OneNumber
      <4>2. TaskUses(j, tk) = TaskUses(j, task) + One(j, n.at) - One(j, e)
        BY <1>4, <2>1, <2>6, <2>11, <3>1, <4>1
      <4> HIDE DEF e
      <4> QED BY <1>4, <2>6, <4>2 DEF Change
    <3> HIDE DEF m, k
    <3>3. Tallies(j, fs, c.fs, m + k)
      BY <2>7, <2>9, MovesTallies
    <3> QED BY <1>6, <2>11, <3>2, <3>3
  <2> QED BY <1>6, <2>5, <2>10, <2>11
<1> QED BY <1>1, <1>5, <1>6

-----------------------------------------------------------------------------
(* The invariant. *)

FilesInv == prog \in Programs /\ Fs(fs) /\ Nodes(fs) /\ Tables(task, file)

\* What the idle task holds.
IdleOf(j) == IF j = Root THEN IdleUses ELSE 0

\* The inodes of a state that runs are counted.
Enough == fs.panic = "none" => \A j \in Key :
  fs.count[j] + One(j, Root)
    >= TaskUses(j, task) + TopUses(j, fs.sb) + FileUses(j, file) + IdleOf(j)

\* The names of a path are names.
LEMMA ProgramPaths ==
  ASSUME prog \in Programs, NEW path \in prog.paths \cup prog.dirs
  PROVE  IsPath(path)
BY ProgramsAssumption DEF IsPath

\* An inode to speak of.
LEMMA RootKey == Root \in Key /\ 1 \in Dev /\ 1 \in Nr
BY SizesAssumption DEF Root, Key, Dev, Nr

\* The disk as mkfs and dev_init leave it.
LEMMA RootDiskIs ==
  /\ IsFcn(RootDisk, Nr)
  /\ \A nr \in Nr : /\ IsDesc(RootDisk[nr])
                    /\ RootDisk[nr].type = "blk" => RootDisk[nr].zone \in Dev
  /\ IsDesc(Blank) /\ Blank.type # "blk"
<1>1. IsDesc(Blank) /\ Blank.type # "blk"
  BY DEF Blank, IsDesc, IsFcn, DescFields
<1> DEFINE a == [Blank EXCEPT !.type = "dir", !.nlinks = 2, !.zone = Min(Zone),
                              !.entries = RootEntries]
           b == [Blank EXCEPT !.type = "blk", !.nlinks = 1, !.zone = NDev]
<1>2. RootEntries \in Seq(Entry)
  <2>1. 1 \in 0 .. NInode /\ 2 \in 0 .. NInode
    BY SizesAssumption, NodeAssumption
  <2>2. /\ [name |-> ".", nr |-> 1] \in Entry /\ [name |-> "..", nr |-> 1] \in Entry
        /\ [name |-> "dev", nr |-> 2] \in Entry
    BY <2>1, NodeAssumption DEF Entry
  <2>3. Dots(1, 1) \in Seq(Entry)
    BY <2>2 DEF Dots
  <2> QED BY <2>2, <2>3 DEF RootEntries
<1>3. IsDesc(a) /\ a.type = "dir"
  BY <1>2 DEF Blank, IsDesc, IsFcn, DescFields
<1>4. IsDesc(b) /\ b.type = "blk" /\ b.zone = NDev
  <2> DEFINE z == NDev
  <2>1. IsFcn(Blank, DescFields) /\ Blank.entries \in Seq(Entry)
    BY <1>1 DEF IsDesc
  <2> HIDE DEF z
  <2> SUFFICES LET c == [Blank EXCEPT !.type = "blk", !.nlinks = 1, !.zone = z]
               IN  IsDesc(c) /\ c.type = "blk" /\ c.zone = z
    BY DEF z
  <2> QED BY <2>1 DEF IsDesc, IsFcn, DescFields
<1>5. NDev \in Dev
  BY SizesAssumption DEF Dev
<1>6. /\ IsFcn(RootDisk, Nr)
      /\ \A nr \in Nr : RootDisk[nr] = IF nr = 1 THEN a ELSE IF nr = 2 THEN b ELSE Blank
  <2> HIDE DEF a, b
  <2>1. RootDisk = [nr \in Nr |-> CASE nr = 1 -> a [] nr = 2 -> b [] OTHER -> Blank]
    BY DEF RootDisk, a, b
  <2> QED BY <2>1 DEF IsFcn
<1> HIDE DEF a, b
<1> QED BY <1>1, <1>3, <1>4, <1>5, <1>6

\* Before the first call.
LEMMA FirstFs ==
  ASSUME FilesInit
  PROVE  Fs(fs) /\ Nodes(fs) /\ prog \in Programs
<1> DEFINE ino == [d \in Dev |-> IF d = 1 THEN RootDisk ELSE [nr \in Nr |-> Blank]]
           count == [k \in Key |-> IF k = Root THEN IdleUses + 3 ELSE 0]
           mount == [k \in Key |-> IF k = Root THEN 1 ELSE 0]
           sb == [d \in Dev |->
                    IF d = 1 THEN [count |-> 1, iroot |-> Root, imount |-> Root]
                    ELSE NoSuper]
<1>1. /\ IsFcn(fs, FsFields) /\ fs.ino = ino /\ fs.count = count /\ fs.mount = mount
      /\ fs.sb = sb /\ fs.minix = {1} /\ prog \in Programs
  <2> HIDE DEF ino, count, mount, sb
  <2> QED BY DEF FilesInit, IsFcn, FsFields, ino, count, mount, sb
<1>2. Inodes(ino) /\ \A d \in Dev, nr \in Nr : ino[d][nr].type = "blk" => ino[d][nr].zone \in Dev
  <2>1. /\ IsFcn(ino, Dev)
        /\ \A d \in Dev : ino[d] = IF d = 1 THEN RootDisk ELSE [nr \in Nr |-> Blank]
    BY DEF IsFcn
  <2>2. IsFcn([nr \in Nr |-> Blank], Nr) /\ \A nr \in Nr : [i \in Nr |-> Blank][nr] = Blank
    BY DEF IsFcn
  <2> HIDE DEF ino
  <2> QED BY <2>1, <2>2, RootDiskIs DEF Inodes
<1>3. count \in [Key -> Nat] /\ mount \in [Key -> Dev \cup {0}] /\ {1} \subseteq Dev
  BY RootKey DEF IdleUses
<1>4. sb \in [Dev -> Super]
  BY RootKey DEF Super, NoSuper
<1> HIDE DEF ino, count, mount, sb
<1> QED BY <1>1, <1>2, <1>3, <1>4 DEF Fs, Nodes

\* Before the first call no descriptor is open.
LEMMA FirstTables ==
  ASSUME FilesInit
  PROVE  Tables(task, file)
<1> DEFINE init == [NoTask EXCEPT !.alive = TRUE, !.iroot = Root, !.ipwd = Root]
<1>1. task = [t \in Task |-> IF t = 1 THEN init ELSE NoTask]
      /\ file = [n \in File |-> NoFile]
  BY DEF FilesInit
<1>2. init \in TaskRec /\ init.alive /\ init.fd = NoFds
  BY RootKey DEF NoTask, TaskRec, NoFds
<1>3. NoTask \in TaskRec /\ NoTask.fd = NoFds
  BY NoTaskIs DEF NoTask
<1> HIDE DEF init
<1>4. IsTasks(task)
  BY <1>1, <1>2, <1>3 DEF IsTasks, Typed
<1>5. IsTable(file) /\ \A n \in File : file[n].count = 0
  BY <1>1, NoFileIs DEF IsTable, IsFcn
<1>6. \A h \in Fds : Held(task)[h] = 0
  <2> SUFFICES ASSUME NEW h \in Fds PROVE Held(task)[h] = 0
    OBVIOUS
  <2>1. h[1] \in Task /\ h[2] \in Fd
    BY DEF Fds
  <2>2. Held(task)[h] = task[h[1]].fd[h[2]]
    BY DEF Held
  <2>3. task[h[1]].fd = NoFds
    BY <1>1, <1>2, <1>3, <2>1
  <2> QED BY <2>1, <2>2, <2>3 DEF NoFds
<1>7. ASSUME NEW n \in File PROVE Count(Fds, Held(task), n) = 0
  <2>1. n # 0
    BY SizesAssumption DEF File
  <2>2. {h \in Fds : Held(task)[h] = n} = {}
    BY <1>6, <2>1
  <2> QED BY <2>2, FS_EmptySet DEF Count
<1>8. Counted(Held(task), file)
  BY <1>5, <1>7 DEF Counted
<1> QED BY <1>4, <1>5, <1>8 DEF Tables

\* The first task, the idle task and mount_root are counted for.
LEMMA FirstEnough ==
  ASSUME FilesInit
  PROVE  Enough
<1> SUFFICES ASSUME NEW j \in Key
             PROVE  fs.count[j] + One(j, Root) >= TaskUses(j, task) + TopUses(j, fs.sb)
                                                    + FileUses(j, file) + IdleOf(j)
  BY DEF Enough
<1>1. j # Null
  BY OneNumber
<1>2. TaskUses(j, task) = 2 * One(j, Root)
  <2> DEFINE init == [NoTask EXCEPT !.alive = TRUE, !.iroot = Root, !.ipwd = Root]
             nobody == [t \in Task |-> NoTask]
  <2>1. task = [t \in Task |-> IF t = 1 THEN init ELSE NoTask] /\ 1 \in Task
    BY SizesAssumption DEF FilesInit, Task
  <2>2. /\ init.iroot = Root /\ init.ipwd = Root /\ init.iexec = Null
        /\ NoTask.iroot = Null /\ NoTask.ipwd = Null /\ NoTask.iexec = Null
    BY DEF NoTask
  <2> HIDE DEF init
  <2>3. Beside(1, nobody, task) /\ task[1] = init /\ nobody[1] = NoTask
    BY <2>1 DEF Beside
  <2>4. TaskUses(j, nobody) = 0
    <3>1. /\ {t \in Task : nobody[t]["iroot"] = j} = {}
          /\ {t \in Task : nobody[t]["ipwd"] = j} = {}
          /\ {t \in Task : nobody[t]["iexec"] = j} = {}
      BY <1>1, <2>2
    <3> HIDE DEF nobody
    <3> QED BY <3>1, FS_EmptySet DEF TaskUses
  <2> HIDE DEF nobody
  <2>5. TaskUses(j, task) = TaskUses(j, nobody)
                              + One(j, task[1].iroot) - One(j, nobody[1].iroot)
                              + One(j, task[1].ipwd) - One(j, nobody[1].ipwd)
                              + One(j, task[1].iexec) - One(j, nobody[1].iexec)
    BY <2>1, <2>3, TasksChange
  <2>6. One(j, Null) = 0 /\ One(j, Root) \in {0, 1}
    BY OneNumber
  <2> QED BY <2>2, <2>3, <2>4, <2>5, <2>6
<1>3. TopUses(j, fs.sb) = 2 * One(j, Root)
  <2> DEFINE first == [count |-> 1, iroot |-> Root, imount |-> Root]
             sb == [d \in Dev |-> IF d = 1 THEN first ELSE NoSuper]
             none == [d \in Dev |-> NoSuper]
  <2>1. fs.sb = sb
    BY DEF FilesInit
  <2>2. /\ first.iroot = Root /\ first.imount = Root
        /\ NoSuper.iroot = Null /\ NoSuper.imount = Null /\ 1 \in Dev
    BY RootKey DEF NoSuper
  <2> HIDE DEF first
  <2>3. sb[1] = first /\ none[1] = NoSuper
    BY <2>2
  <2>7. \A e \in Dev \ {1} : sb[e] = none[e]
    OBVIOUS
  <2>4. TopUses(j, none) = 0
    <3>1. /\ {d \in Dev : none[d]["iroot"] = j} = {}
          /\ {d \in Dev : none[d]["imount"] = j} = {}
      BY <1>1, <2>2
    <3> HIDE DEF none
    <3> QED BY <3>1, FS_EmptySet DEF TopUses
  <2> HIDE DEF none, sb
  <2>5. TopUses(j, sb) = TopUses(j, none)
                           + One(j, sb[1].iroot) - One(j, none[1].iroot)
                           + One(j, sb[1].imount) - One(j, none[1].imount)
    <3>1. 1 \in Dev
      BY <2>2
    <3> QED BY <2>7, <3>1, TopsChange
  <2>6. One(j, Null) = 0 /\ One(j, Root) \in {0, 1}
    BY OneNumber
  <2> QED BY <2>1, <2>2, <2>3, <2>4, <2>5, <2>6
<1>4. FileUses(j, file) = 0
  <2>1. \A n \in File : file[n].inode = Null
    BY NoFileIs DEF FilesInit
  <2>2. {n \in File : file[n].inode = j} = {}
    BY <1>1, <2>1
  <2> QED BY <2>2, FS_EmptySet DEF FileUses
<1>5. fs.count[j] = IF j = Root THEN IdleUses + 3 ELSE 0
  BY DEF FilesInit
<1> QED BY <1>2, <1>3, <1>4, <1>5 DEF IdleOf, IdleUses, One

\* What a step does: the tables stay tables that count, and inode j is counted
\* for the uses that are added, unless a failed execve forgets some.
Accounts(j) ==
  /\ Tables(task', file') /\ Fs(fs') /\ Nodes(fs') /\ prog' = prog
  /\ "bad_image" \notin prog.risks =>
       Tallies(j, fs, fs', Change(j, task, file, task', file'))

\* A call whose tally is kept.
LEMMA TallyAccounts ==
  ASSUME NEW j, Nodes(fs), prog' = prog,
         Tables(task', file') /\ Tallies(j, fs, fs', Change(j, task, file, task', file'))
  PROVE  Accounts(j)
BY DEF Accounts, Tallies

\* A call that leaves tasks and files alone.
LEMMA StillAccounts ==
  ASSUME NEW j \in Key, FilesInv, UNCHANGED <<task, file, prog>>, Moves(j, fs, fs', 0)
  PROVE  Accounts(j)
<1>1. Tallies(j, fs, fs', 0)
  BY MovesTallies DEF FilesInv
<1> QED BY <1>1, StillStep, TallyAccounts DEF FilesInv

\* A call on the path of a program, by a task that is there.
LEMMA PathAccounts ==
  ASSUME FilesInv, NEW j \in Key, NEW t \in Task, NEW path \in prog.paths,
         \/ Mkdir(t, path) \/ Rmdir(t, path) \/ Unlink(t, path)
         \/ \E d \in Dev : Mknod(t, path, d)
         \/ \E new \in prog.paths : Link(t, path, new)
         \/ Stat(t, path)
         \/ \E elf \in BOOLEAN : Execve(t, path, elf)
         \/ Umount(t, path) \/ Mkfs(t, path)
         \/ \E on \in prog.dirs : Mount(t, path, on)
         \/ \E creat, trunc, read, write \in BOOLEAN :
              Open(t, path, creat, trunc, read, write)
  PROVE  Accounts(j)
<1>1. Fs(fs) /\ Nodes(fs) /\ Tables(task, file) /\ Starts(t) /\ IsPath(path)
  BY TaskIs, ProgramPaths DEF FilesInv
<1>2. \A p \in prog.paths \cup prog.dirs : IsPath(p)
  BY ProgramPaths DEF FilesInv
<1>3. CASE Mkdir(t, path)
  <2>1. UNCHANGED <<task, file, prog>>
    BY <1>3 DEF Mkdir
  <2> QED BY <1>1, <1>3, <2>1, MkdirMoves, StillAccounts
<1>4. CASE Rmdir(t, path)
  <2>1. UNCHANGED <<task, file, prog>>
    BY <1>4 DEF Rmdir
  <2> QED BY <1>1, <1>4, <2>1, RmdirMoves, StillAccounts
<1>5. CASE Unlink(t, path)
  <2>1. UNCHANGED <<task, file, prog>>
    BY <1>5 DEF Unlink
  <2> QED BY <1>1, <1>5, <2>1, UnlinkMoves, StillAccounts
<1>6. ASSUME NEW d \in Dev, Mknod(t, path, d) PROVE Accounts(j)
  <2>1. UNCHANGED <<task, file, prog>>
    BY <1>6 DEF Mknod
  <2> QED BY <1>1, <1>6, <2>1, MknodMoves, StillAccounts
<1>7. ASSUME NEW new \in prog.paths, Link(t, path, new) PROVE Accounts(j)
  <2>1. UNCHANGED <<task, file, prog>>
    BY <1>7 DEF Link
  <2>2. IsPath(new)
    BY <1>2
  <2> QED BY <1>1, <1>7, <2>1, <2>2, LinkMoves, StillAccounts
<1>8. CASE Stat(t, path)
  <2>1. UNCHANGED <<task, file, prog>>
    BY <1>8 DEF Stat
  <2> QED BY <1>1, <1>8, <2>1, StatMoves, StillAccounts
<1>9. ASSUME NEW elf \in BOOLEAN, Execve(t, path, elf) PROVE Accounts(j)
  <2>1. prog' = prog /\ (elf \/ "bad_image" \in prog.risks)
    BY <1>9 DEF Execve
  <2>2. /\ Tables(task', file') /\ Fs(fs') /\ Nodes(fs')
        /\ elf => Tallies(j, fs, fs', Change(j, task, file, task', file'))
    BY <1>1, <1>9, ExecveStep
  <2> QED BY <2>1, <2>2 DEF Accounts
<1>10. CASE Umount(t, path)
  <2>1. UNCHANGED <<task, file, prog>>
    BY <1>10 DEF Umount
  <2>2. Tallies(j, fs, fs', 0)
    BY <1>1, <1>10, UmountTallies
  <2> QED BY <1>1, <2>1, <2>2, StillStep, TallyAccounts
<1>11. CASE Mkfs(t, path)
  <2>1. UNCHANGED <<task, file, prog>>
    BY <1>11 DEF Mkfs
  <2>2. Tallies(j, fs, fs', 0)
    BY <1>1, <1>11, MkfsTallies
  <2> QED BY <1>1, <2>1, <2>2, StillStep, TallyAccounts
<1>12. ASSUME NEW on \in prog.dirs, Mount(t, path, on) PROVE Accounts(j)
  <2>1. UNCHANGED <<task, file, prog>>
    BY <1>12 DEF Mount
  <2>2. IsPath(on)
    BY <1>2
  <2>3. Tallies(j, fs, fs', 0)
    BY <1>1, <1>12, <2>2, MountTallies
  <2> QED BY <1>1, <2>1, <2>3, StillStep, TallyAccounts
<1>13. ASSUME NEW creat \in BOOLEAN, NEW trunc \in BOOLEAN, NEW read \in BOOLEAN,
              NEW write \in BOOLEAN, Open(t, path, creat, trunc, read, write)
       PROVE  Accounts(j)
  <2>1. prog' = prog
    BY <1>13 DEF Open
  <2>2. Tables(task', file') /\ Tallies(j, fs, fs', Change(j, task, file, task', file'))
    BY <1>1, <1>13, OpenStep
  <2> QED BY <1>1, <2>1, <2>2, TallyAccounts
<1> QED BY <1>3, <1>4, <1>5, <1>6, <1>7, <1>8, <1>9, <1>10, <1>11, <1>12, <1>13

\* A call on a descriptor.
LEMMA FdAccounts ==
  ASSUME FilesInv, NEW j \in Key, NEW t \in Task, NEW fd \in Fd,
         \/ Close(t, fd) \/ Dup(t, fd)
         \/ \E new \in Fd : Dup2(t, fd, new)
         \/ \E to \in Offset : Lseek(t, fd, to)
         \/ Read(t, fd) \/ Write(t, fd)
  PROVE  Accounts(j)
<1>1. Fs(fs) /\ Nodes(fs) /\ Tables(task, file) /\ task[t].fd[fd] \in File \cup {0}
  BY TaskIs DEF FilesInv
<1>2. CASE Close(t, fd)
  <2>1. prog' = prog
    BY <1>2 DEF Close
  <2>2. Tables(task', file') /\ Tallies(j, fs, fs', Change(j, task, file, task', file'))
    BY <1>1, <1>2, CloseStep
  <2> QED BY <1>1, <2>1, <2>2, TallyAccounts
<1>3. CASE Dup(t, fd)
  <2>1. prog' = prog
    BY <1>3 DEF Dup
  <2>2. Tables(task', file') /\ Tallies(j, fs, fs', Change(j, task, file, task', file'))
    BY <1>1, <1>3, DupStep
  <2> QED BY <1>1, <2>1, <2>2, TallyAccounts
<1>4. ASSUME NEW new \in Fd, Dup2(t, fd, new) PROVE Accounts(j)
  <2>1. prog' = prog
    BY <1>4 DEF Dup2
  <2>2. Tables(task', file') /\ Tallies(j, fs, fs', Change(j, task, file, task', file'))
    BY <1>1, <1>4, Dup2Step
  <2> QED BY <1>1, <2>1, <2>2, TallyAccounts
<1>5. ASSUME task' = task, prog' = prog, Moves(j, fs, fs', 0), task[t].fd[fd] # 0,
             NEW v, file' = [file EXCEPT ![task[t].fd[fd]].offset = v]
      PROVE  Accounts(j)
  <2> DEFINE n == task[t].fd[fd]
  <2>1. Tallies(j, fs, fs', 0)
    BY <1>1, <1>5, MovesTallies
  <2>2. n \in File /\ file' = [file EXCEPT ![n].offset = v]
    BY <1>1, <1>5
  <2> HIDE DEF n
  <2>3. Tables(task', file') /\ Tallies(j, fs, fs', Change(j, task, file, task', file'))
    BY <1>1, <1>5, <2>1, <2>2, OffsetStep
  <2> QED BY <1>1, <1>5, <2>3, TallyAccounts
<1>6. ASSUME NEW to \in Offset, Lseek(t, fd, to) PROVE Accounts(j)
  <2>1. /\ task' = task /\ prog' = prog /\ fs' = fs /\ task[t].fd[fd] # 0
        /\ file' = [file EXCEPT ![task[t].fd[fd]].offset = to]
    BY <1>6 DEF Lseek
  <2>2. Moves(j, fs, fs', 0)
    BY <1>1, <2>1, QuietSelf, QuietMoves
  <2> QED BY <1>5, <2>1, <2>2
<1>7. CASE Read(t, fd)
  <2>1. /\ task' = task /\ prog' = prog /\ task[t].fd[fd] # 0
        /\ file' = [file EXCEPT ![task[t].fd[fd]].offset = @ + 1]
    BY <1>7 DEF Read
  <2>2. PICK v : v = file[task[t].fd[fd]].offset + 1
    OBVIOUS
  <2>3. file' = [file EXCEPT ![task[t].fd[fd]].offset = v]
    BY <2>1, <2>2
  <2>4. Moves(j, fs, fs', 0)
    BY <1>1, <1>7, ReadMoves
  <2> QED BY <1>5, <2>1, <2>3, <2>4
<1>8. CASE Write(t, fd)
  <2>1. /\ task' = task /\ prog' = prog /\ task[t].fd[fd] # 0
        /\ file' = [file EXCEPT ![task[t].fd[fd]].offset = @ + 1]
    BY <1>8 DEF Write
  <2>2. PICK v : v = file[task[t].fd[fd]].offset + 1
    OBVIOUS
  <2>3. file' = [file EXCEPT ![task[t].fd[fd]].offset = v]
    BY <2>1, <2>2
  <2>4. Moves(j, fs, fs', 0)
    BY <1>1, <1>8, WriteMoves
  <2> QED BY <1>5, <2>1, <2>3, <2>4
<1> QED BY <1>2, <1>3, <1>4, <1>6, <1>7, <1>8

\* Every step accounts for its uses.
LEMMA StepAccounts ==
  ASSUME FilesInv, FilesNext, NEW j \in Key
  PROVE  Accounts(j)
<1>1. Fs(fs) /\ Nodes(fs) /\ Tables(task, file)
  BY DEF FilesInv
<1>2. ASSUME NEW t \in Task, NEW path \in prog.dirs, NEW which \in {"ipwd", "iroot"},
             Enter(t, path, which)
      PROVE  Accounts(j)
  <2>1. prog' = prog
    BY <1>2 DEF Enter
  <2>2. IsPath(path)
    BY ProgramPaths DEF FilesInv
  <2>3. Tables(task', file') /\ Tallies(j, fs, fs', Change(j, task, file, task', file'))
    BY <1>1, <1>2, <2>2, EnterStep
  <2> QED BY <1>1, <2>1, <2>3, TallyAccounts
<1>3. ASSUME NEW t \in Task, NEW child \in Task, Fork(t, child)
      PROVE  Accounts(j)
  <2>1. prog' = prog
    BY <1>3 DEF Fork
  <2>2. Tables(task', file') /\ Tallies(j, fs, fs', Change(j, task, file, task', file'))
    BY <1>1, <1>3, ForkStep
  <2> QED BY <1>1, <2>1, <2>2, TallyAccounts
<1>4. ASSUME NEW t \in Task, Exit(t)
      PROVE  Accounts(j)
  <2>1. prog' = prog
    BY <1>4 DEF Exit
  <2>2. Tables(task', file') /\ Tallies(j, fs, fs', Change(j, task, file, task', file'))
    BY <1>1, <1>4, ExitStep
  <2> QED BY <1>1, <2>1, <2>2, TallyAccounts
<1> QED BY <1>2, <1>3, <1>4, PathAccounts, FdAccounts DEF FilesNext

\* The tables count, after every step.
LEMMA FilesStep ==
  ASSUME FilesInv, [FilesNext]_fileVars
  PROVE  FilesInv'
<1>1. CASE FilesNext
  <2>1. Accounts(Root)
    BY <1>1, RootKey, StepAccounts
  <2> QED BY <2>1 DEF Accounts, FilesInv
<1>2. CASE UNCHANGED fileVars
  BY <1>2 DEF fileVars, FilesInv, Fs, Nodes, Tables, IsTasks, Typed, IsTable, Counted, Held
<1> QED BY <1>1, <1>2

\* An inode that is in use stays counted.
LEMMA EnoughStep ==
  ASSUME FilesInv, Enough, "bad_image" \notin prog.risks, [FilesNext]_fileVars
  PROVE  Enough'
<1>1. CASE FilesNext
  <2> SUFFICES ASSUME fs'.panic = "none", NEW j \in Key
               PROVE  fs'.count[j] + One(j, Root)
                        >= TaskUses(j, task') + TopUses(j, fs'.sb) + FileUses(j, file')
                             + IdleOf(j)
    BY DEF Enough
  <2>1. Tallies(j, fs, fs', Change(j, task, file, task', file'))
    BY <1>1, StepAccounts DEF Accounts
  <2>2. /\ fs.panic = "none"
        /\ fs'.count[j] >= fs.count[j] + Change(j, task, file, task', file')
                             + TopUses(j, fs'.sb) - TopUses(j, fs.sb)
    BY <2>1 DEF Tallies
  <2>3. fs.count[j] + One(j, Root)
          >= TaskUses(j, task) + TopUses(j, fs.sb) + FileUses(j, file) + IdleOf(j)
    BY <2>2 DEF Enough
  <2>4. fs.count[j] \in Nat /\ fs'.count[j] \in Nat
    BY <2>1 DEF FilesInv, Tallies, Fs
  <2>5. TopUses(j, fs.sb) \in Nat /\ TopUses(j, fs'.sb) \in Nat
    BY TopsNumber
  <2>6. /\ TaskUses(j, task) \in Nat /\ TaskUses(j, task') \in Nat
        /\ FileUses(j, file) \in Nat /\ FileUses(j, file') \in Nat
    BY UsesNumber
  <2>7. One(j, Root) \in Int /\ IdleOf(j) \in Int
    BY DEF One, IdleOf, IdleUses
  <2> QED BY <2>2, <2>3, <2>4, <2>5, <2>6, <2>7 DEF Change
<1>2. CASE UNCHANGED fileVars
  BY <1>2 DEF fileVars, Enough
<1> QED BY <1>1, <1>2

-----------------------------------------------------------------------------
(* The theorems about the counts. *)

(***************************************************************************)
(* The tables of tasks and files are always what the calls expect, and     *)
(* file->count is the number of descriptors that hold the file: put_file   *)
(* closes a file for its last user and for no other, over any sequence of  *)
(* open, close, dup, dup2, fork, exit and execve, one that fails included. *)
(***************************************************************************)
THEOREM FilesFilesCounted == FilesSpec => []FilesCounted
<1>1. FilesInit => FilesInv
  BY FirstFs, FirstTables DEF FilesInv
<1>2. FilesInv /\ [FilesNext]_fileVars => FilesInv'
  BY FilesStep
<1>3. FilesInv => FilesCounted
  <2> SUFFICES ASSUME FilesInv, NEW n \in File
               PROVE  file[n].count
                        = Cardinality({h \in Task \X Fd : task[h[1]].fd[h[2]] = n})
    BY DEF FilesCounted
  <2>1. file[n].count = Cardinality({h \in Fds : Held(task)[h] = n})
    BY DEF FilesInv, Tables, Counted, Count
  <2>2. {h \in Fds : Held(task)[h] = n} = {h \in Task \X Fd : task[h[1]].fd[h[2]] = n}
    BY DEF Held, Fds
  <2> QED BY <2>1, <2>2
<1> QED BY <1>1, <1>2, <1>3, PTL DEF FilesSpec

(***************************************************************************)
(* Where no execve fails after fork_clean, an inode is counted at least    *)
(* once for every task, open file and super block that points to it, over  *)
(* every call, its error paths included: iput recycles no inode that is    *)
(* still pointed to.  An execve that fails leaves task->iexec at an inode  *)
(* it has given back; ForkHolds and the next iput then count it wrong.     *)
(***************************************************************************)
THEOREM FilesInodesCounted ==
  ASSUME \A p \in Programs : "bad_image" \notin p.risks
  PROVE  FilesSpec => []InodesCounted
<1> DEFINE Inv == FilesInv /\ Enough
<1>1. FilesInit => Inv
  BY FirstFs, FirstTables, FirstEnough DEF FilesInv
<1>2. Inv /\ [FilesNext]_fileVars => Inv'
  <2> SUFFICES ASSUME FilesInv, Enough, [FilesNext]_fileVars PROVE FilesInv' /\ Enough'
    OBVIOUS
  <2>1. "bad_image" \notin prog.risks
    BY DEF FilesInv
  <2> QED BY <2>1, FilesStep, EnoughStep
<1>3. Inv => InodesCounted
  <2> SUFFICES ASSUME Enough, fs.panic = "none", NEW k \in Key
               PROVE  fs.count[k] + (IF k = Root THEN 1 ELSE 0) >= Uses(k)
    BY DEF InodesCounted, Running
  <2>1. fs.count[k] + One(k, Root)
          >= TaskUses(k, task) + TopUses(k, fs.sb) + FileUses(k, file) + IdleOf(k)
    BY DEF Enough
  <2>2. Uses(k) = TaskUses(k, task) + TopUses(k, fs.sb) + FileUses(k, file) + IdleOf(k)
    <3> DEFINE Of(field) == Cardinality({t \in Task : task[t][field] = k})
               Top(field) == Cardinality({d \in Dev : fs.sb[d][field] = k})
               i == IF k = Root THEN IdleUses ELSE 0
    <3>1. /\ Uses(k) = Of("iroot") + Of("ipwd") + Of("iexec") + Top("iroot")
                         + Top("imount") + FileUses(k, file) + i
      BY DEF Uses, FileUses
    <3>2. /\ TaskUses(k, task) = Of("iroot") + Of("ipwd") + Of("iexec")
          /\ TopUses(k, fs.sb) = Top("iroot") + Top("imount") /\ IdleOf(k) = i
      BY DEF TaskUses, TopUses, IdleOf
    <3>3. \A x : Of(x) \in Nat /\ Top(x) \in Nat
      BY FiniteTables, FS_Subset, FS_CardinalityType
    <3>4. FileUses(k, file) \in Nat /\ i \in Nat
      BY UsesNumber DEF IdleUses
    <3> HIDE DEF Of, Top, i
    <3> QED BY <3>1, <3>2, <3>3, <3>4
  <2> QED BY <2>1, <2>2 DEF One
<1> QED BY <1>1, <1>2, <1>3, PTL DEF FilesSpec
-----------------------------------------------------------------------------
(* The blocks of the disk.  Sound says of a device with a file system that its
   files and directories share no block and use those the bitmap marks, and of
   every inode that it may be taken for a new file without a block coming or
   going with it; Steady says of every helper and of every call that it leaves
   the file system so. *)

Owns(desc) == desc.type \in {"file", "dir"}

\* The blocks an inode is answerable for: the zone of a device node is none.
Has(desc) == IF Owns(desc) THEN Blocks(desc) ELSE {}

Own(f, k) == Owns(Ino(f, k))

\* A bitmap and the inodes of one device.
Parts(bits, row) ==
  /\ bits = UNION {Has(row[nr]) : nr \in Nr}
  /\ \A m, n \in Nr : m # n => Has(row[m]) \cap Has(row[n]) = {}

Exact(f) == \A d \in f.minix : Parts(f.zmap[d], f.ino[d])

\* Who has no block may not name one, and a device node is marked used.
Clean(f, d, nr) ==
  \/ f.ino[d][nr].type = "free" /\ Blocks(f.ino[d][nr]) = {}
  \/ /\ d \in f.minix
     /\ \/ Owns(f.ino[d][nr])
        \/ f.ino[d][nr].type = "blk" /\ nr \in f.imap[d] /\ nr # 1

\* What is mounted is the root of a file system, on a directory that knows it.
Rooted(f) ==
  /\ \A d \in Dev :
       /\ f.sb[d].iroot # Null => f.sb[d].iroot[2] = 1 /\ f.sb[d].iroot[1] \in f.minix
       /\ f.sb[d].imount # Null => Own(f, f.sb[d].imount) /\ f.sb[d].count > 0
  /\ \A k \in Key : f.mount[k] # 0 =>
       f.sb[f.mount[k]].imount = k /\ f.sb[f.mount[k]].iroot # Null

\* As long as nothing is removed, an inode that is not marked was never used.
Fresh(f) == \A d \in f.minix :
  1 \in f.imap[d] /\ \A nr \in Nr \ f.imap[d] : f.ino[d][nr].type = "free"

Sound(m, f) ==
  /\ IsFcn(f.imap, Dev) /\ IsFcn(f.zmap, Dev)
  /\ Exact(f) /\ Rooted(f)
  /\ \A d \in Dev, nr \in Nr : Clean(f, d, nr)
  /\ "mknod" \in m => Fresh(f)

Fit(m, f) == Fs(f) /\ (f.panic = "none" => Sound(m, f))

\* A helper that leaves a sound file system, and in it what held blocks.
Steady(m, f, g) ==
  /\ Fs(g)
  /\ g.panic = "none" =>
       f.panic = "none" /\ Sound(m, g) /\ \A k \in Key : Own(f, k) => Own(g, k)

\* An inode that holds blocks, unless the kernel stopped.
Holder(f, k) == f.panic = "none" => k \in Key /\ Own(f, k)

\* A helper that writes nothing but a count.
Same(f, g) ==
  /\ Fs(g) /\ (g.panic = "none" => f.panic = "none")
  /\ g.imap = f.imap /\ g.zmap = f.zmap /\ g.ino = f.ino /\ g.mount = f.mount
  /\ g.sb = f.sb /\ g.minix = f.minix

\* Steady helpers compose.
LEMMA SteadyAdd ==
  ASSUME NEW m, NEW f, NEW g, NEW h, Steady(m, f, g), Steady(m, g, h)
  PROVE  Steady(m, f, h)
BY DEF Steady

\* What a steady helper leaves is as it should be.
LEMMA SteadyFit ==
  ASSUME NEW m, NEW f, NEW g, Steady(m, f, g)
  PROVE  Fit(m, g) /\ Fs(g) /\ \A k : Holder(f, k) => Holder(g, k)
BY DEF Steady, Fit, Holder

\* Nothing is a step as well.
LEMMA SteadySelf ==
  ASSUME NEW m, NEW f, Fit(m, f)
  PROVE  Steady(m, f, f)
BY DEF Steady, Fit

\* After a panic nothing is said.
LEMMA SteadyPanic ==
  ASSUME NEW m, NEW f, NEW g, Fs(g), g.panic # "none"
  PROVE  Steady(m, f, g)
BY DEF Steady

\* Soundness does not depend on counts.
LEMMA SameSound ==
  ASSUME NEW m, NEW f, NEW g, Same(f, g)
  PROVE  /\ Sound(m, g) <=> Sound(m, f)
         /\ \A k : Ino(g, k) = Ino(f, k) /\ (Own(g, k) <=> Own(f, k))
<1>1. \A k : Ino(g, k) = Ino(f, k) /\ (Own(g, k) <=> Own(f, k))
  BY DEF Same, Ino, Own
<1>2. Exact(g) <=> Exact(f)
  BY DEF Same, Exact
<1>3. Rooted(g) <=> Rooted(f)
  BY <1>1 DEF Same, Rooted
<1>4. \A d \in Dev, nr \in Nr : Clean(g, d, nr) <=> Clean(f, d, nr)
  BY DEF Same, Clean
<1>5. Fresh(g) <=> Fresh(f)
  BY DEF Same, Fresh
<1>6. Sound(m, g) <=> Sound(m, f)
  BY <1>2, <1>3, <1>4, <1>5 DEF Same, Sound
<1> QED BY <1>1, <1>6

\* A walk is steady.
LEMMA SameSteady ==
  ASSUME NEW m, NEW f, NEW g, Fit(m, f), Same(f, g)
  PROVE  Steady(m, f, g)
BY SameSound DEF Fit, Same, Steady

\* Walks compose.
LEMMA SameAdd ==
  ASSUME NEW f, NEW g, NEW h, Same(f, g), Same(g, h)
  PROVE  Same(f, h)
BY DEF Same

\* The count of an inode goes up.
LEMMA HoldSame ==
  ASSUME NEW f, Fs(f), NEW k
  PROVE  Same(f, Hold(f, k))
<1> DEFINE new == [f.count EXCEPT ![k] = @ + 1]
           g == [f EXCEPT !.count = new]
<1>1. Hold(f, k) = g
  BY DEF Hold
<1>2. Fs(g)
  <2>1. Root \in Key
    BY RootKey
  <2> QED BY <1>1, <2>1, HoldMoves, MovesFs
<1> HIDE DEF new
<1>3. \A a \in FsFields \ {"count"} : g[a] = f[a]
  BY DEF Fs, IsFcn
<1> HIDE DEF g
<1> QED BY <1>1, <1>2, <1>3 DEF Same, FsFields

\* panic writes nothing else.
LEMMA PanicSame ==
  ASSUME NEW f, Fs(f), NEW why, why # "none"
  PROVE  Same(f, Panic(f, why)) /\ Panic(f, why).panic # "none"
<1>1. /\ Disk(f, Panic(f, why)) /\ Panic(f, why).panic # "none"
      /\ \A a \in FsFields \ {"panic"} : Panic(f, why)[a] = f[a]
  BY PanicKeeps
<1> QED BY <1>1 DEF Same, Disk, FsFields

\* An assertion writes nothing else.
LEMMA CheckSame ==
  ASSUME NEW f, Fs(f), NEW holds, NEW why, why # "none"
  PROVE  Same(f, Check(f, holds, why))
<1>1. Same(f, f)
  BY DEF Same
<1> QED BY <1>1, PanicSame DEF Check

\* iput takes the count down.
LEMMA iputSame ==
  ASSUME NEW f, Fs(f), NEW k
  PROVE  Same(f, iput(f, k))
<1>1. CASE k = Null
  BY <1>1 DEF iput, Same
<1>2. CASE k # Null /\ f.count[k] = 0
  BY <1>2, PanicSame DEF iput
<1>3. CASE k # Null /\ f.count[k] # 0
  <2> DEFINE new == [f.count EXCEPT ![k] = @ - 1]
             g == [f EXCEPT !.count = new]
  <2>1. iput(f, k) = g
    BY <1>3 DEF iput
  <2>2. Fs(g)
    <3>1. Root \in Key
      BY RootKey
    <3> QED BY <2>1, <3>1, iputMoves, MovesFs
  <2> HIDE DEF new
  <2>3. \A a \in FsFields \ {"count"} : g[a] = f[a]
    BY DEF Fs, IsFcn
  <2> HIDE DEF g
  <2> QED BY <2>1, <2>2, <2>3 DEF Same, FsFields
<1> QED BY <1>1, <1>2, <1>3

\* iget finds the inode asked for or, over a mount point, the root of a file system.
LEMMA igetSame ==
  ASSUME NEW m, NEW f, Fs(f), NEW d \in Dev, NEW nr \in Nr
  PROVE  LET g == iget(f, d, nr)
         IN  /\ Same(f, g.fs) /\ g = [fs |-> g.fs, at |-> g.at]
             /\ g.fs.panic = "none" /\ Sound(m, f) =>
                  /\ g.at \in Key
                  /\ \/ g.at = <<d, nr>>
                     \/ /\ Own(f, <<d, nr>>)
                        /\ g.at[2] = 1 /\ g.at[1] \in f.minix
<1> DEFINE k == <<d, nr>>
           over == IF f.count[k] > 0 THEN f.mount[k] ELSE 0
           to == IF over # 0 THEN f.sb[over].iroot ELSE k
<1>1. k \in Key
  BY DEF Key
<1>2. over \in Dev \cup {0}
  BY <1>1 DEF Fs
<1>3. CASE ~ Loaded(f, d) \/ (over # 0 /\ ~ Loaded(f, over))
  <2>1. iget(f, d, nr) = [fs |-> Panic(f, "no_super"), at |-> k]
    BY <1>3 DEF iget
  <2> QED BY <2>1, PanicSame
<1>4. CASE ~ (~ Loaded(f, d) \/ (over # 0 /\ ~ Loaded(f, over)))
  <2>1. iget(f, d, nr) = [fs |-> Hold(f, to), at |-> to]
    BY <1>4 DEF iget
  <2>2. ASSUME Sound(m, f)
        PROVE  /\ to \in Key
               /\ to = k \/ (Own(f, k) /\ to[2] = 1 /\ to[1] \in f.minix)
    <3>1. CASE over = 0
      BY <1>1, <3>1
    <3>2. CASE over # 0
      <4>1. over \in Dev /\ over = f.mount[k] /\ to = f.sb[over].iroot
        BY <1>2, <3>2
      <4>2. f.sb[over].imount = k /\ f.sb[over].iroot # Null
        BY <1>1, <2>2, <3>2, <4>1 DEF Sound, Rooted
      <4>3. k # Null
        BY <1>1, RootKey, OneNumber
      <4>4. f.sb[over] \in Super
        BY <4>1 DEF Fs
      <4> HIDE DEF k, over, to
      <4> QED BY <2>2, <4>1, <4>2, <4>3, <4>4 DEF Sound, Rooted, Super
    <3> QED BY <3>1, <3>2
  <2> HIDE DEF to
  <2> QED BY <2>1, <2>2, HoldSame
<1> QED BY <1>3, <1>4

\* `..' at a root leads to the directory it is mounted on.
LEMMA CrossSame ==
  ASSUME NEW m, NEW f, Fs(f), NEW k \in Key, NEW name
  PROVE  LET c == Cross(f, k, name)
         IN  Same(f, c.fs) /\ (c.fs.panic = "none" /\ Sound(m, f) /\ Own(f, k) => Own(f, c.at))
<1>1. CASE name # ".." \/ k[2] # 1 \/ k = Root
  <2>1. Cross(f, k, name) = [fs |-> f, at |-> k]
    BY <1>1 DEF Cross
  <2> QED BY <2>1 DEF Same
<1>2. CASE ~ (name # ".." \/ k[2] # 1 \/ k = Root)
  <2> DEFINE over == f.sb[k[1]].imount
  <2>1. CASE over = Null
    <3>1. Cross(f, k, name) = [fs |-> Panic(f, "no_super"), at |-> k]
      BY <1>2, <2>1 DEF Cross
    <3> QED BY <3>1, PanicSame
  <2>2. CASE over # Null
    <3>1. Cross(f, k, name) = [fs |-> iput(Hold(f, over), k), at |-> over]
      BY <1>2, <2>2 DEF Cross
    <3>2. Same(f, Hold(f, over))
      BY HoldSame
    <3>3. Same(Hold(f, over), iput(Hold(f, over), k))
      BY <3>2, iputSame DEF Same
    <3>4. Sound(m, f) => Own(f, over)
      BY <2>2 DEF Sound, Rooted, Key
    <3> HIDE DEF over
    <3>5. Same(f, iput(Hold(f, over), k))
      BY <3>2, <3>3, SameAdd
    <3> QED BY <3>1, <3>4, <3>5
  <2> QED BY <2>1, <2>2
<1> QED BY <1>1, <1>2

\* find_entry looks in a directory, or in what it is mounted on.
LEMMA find_entrySame ==
  ASSUME NEW m, NEW f, Fs(f), NEW k \in Key, NEW name
  PROVE  LET e == find_entry(f, k, name)
         IN  /\ Same(f, e.fs) /\ e.at \in Key /\ (e.slot # 0 => e.nr \in Nr)
             /\ e.fs.panic = "none" /\ Sound(m, f) /\ Own(f, k) => Own(f, e.at)
<1> DEFINE c == Cross(f, k, name)
           e == find_entry(f, k, name)
<1>1. e.fs = c.fs /\ e.at = c.at
  BY DEF find_entry
<1>2. Same(f, c.fs) /\ (c.fs.panic = "none" /\ Sound(m, f) /\ Own(f, k) => Own(f, c.at))
  BY CrossSame
<1>3. e.at \in Key /\ (e.slot # 0 => e.nr \in Nr)
  BY RootKey, find_entryMoves
<1> HIDE DEF e, c
<1> QED BY <1>1, <1>2, <1>3 DEF e

\* A walk that ends, if anywhere, in an inode that holds blocks.
Leads(m, f, w) ==
  /\ Same(f, w.fs) /\ w.at \in Key \cup {Null}
  /\ w.fs.panic = "none" /\ Sound(m, f) /\ w.at # Null => Own(f, w.at)

\* One name of a path: a directory is found, or nothing.
LEMMA DownSame ==
  ASSUME NEW m, NEW f, Fs(f), NEW k \in Key, NEW name
  PROVE  Leads(m, f, Down(f, k, name))
<1> DEFINE w == Down(f, k, name)
           e == find_entry(f, k, name)
           g == iput(e.fs, e.at)
           h == iget(g, e.at[1], e.nr)
           at == IF Ino(h.fs, h.at).type = "dir" /\ permission(h.fs, h.at)
                 THEN h.at ELSE Null
<1>1. w = IF e.slot = 0 THEN [fs |-> g, at |-> Null] ELSE [fs |-> h.fs, at |-> at]
  BY DEF Down
<1>2. w.at \in Key \cup {Null}
  BY RootKey, DownMoves
<1>3. Same(f, e.fs) /\ e.at \in Key /\ (e.slot # 0 => e.nr \in Nr)
  BY find_entrySame
<1> HIDE DEF e, w
<1>4. Same(e.fs, g)
  BY <1>3, iputSame DEF Same
<1> HIDE DEF g
<1>5. Same(f, g) /\ Fs(g)
  BY <1>3, <1>4, SameAdd DEF Same
<1>6. CASE e.slot = 0
  <2>1. w.fs = g /\ w.at = Null
    BY <1>1, <1>6
  <2> QED BY <1>5, <2>1 DEF Leads, w
<1>7. CASE e.slot # 0
  <2>1. e.at[1] \in Dev
    BY <1>3 DEF Key
  <2>2. Same(g, h.fs)
    BY <1>3, <1>5, <1>7, <2>1, igetSame
  <2>3. w.fs = h.fs /\ w.at = at
    BY <1>1, <1>7
  <2> HIDE DEF h
  <2>4. Same(f, h.fs)
    BY <1>5, <2>2, SameAdd
  <2>5. at # Null => Own(h.fs, at)
    BY DEF Own, Owns
  <2> HIDE DEF at
  <2>6. Own(h.fs, at) <=> Own(f, at)
    BY <2>4, SameSound
  <2> QED BY <1>2, <2>3, <2>4, <2>5, <2>6 DEF Leads, w
<1> QED BY <1>6, <1>7

\* Where the walks of a task begin there is a directory.
Grounded(f, t) ==
  {task[t].iroot, task[t].ipwd} \subseteq Key
    /\ Own(f, task[t].iroot) /\ Own(f, task[t].ipwd)

\* The directory named returns is one.
LEMMA namedLeads ==
  ASSUME NEW m, NEW f, Fs(f), NEW t, Grounded(f, t), NEW path, IsPath(path)
  PROVE  Leads(m, f, named(f, t, path))
<1> DEFINE start == Source(t, path)
           begin == [fs |-> Hold(f, start), at |-> start]
           count == Len(path.names)
<1>0. PICK after : Walk(f, t, path, after)
  BY namedTurns
<1>1. /\ count \in Nat /\ after[0] = begin
      /\ \A i \in 1 .. count : after[i] = Turn(after[i - 1], path.names[i])
      /\ \E last \in 0 .. count : named(f, t, path) = after[last]
  BY <1>0 DEF Walk, IsPath
<1>2. start \in Key /\ Own(f, start)
  BY DEF Grounded, Source
<1>3. Leads(m, f, begin)
  <2> HIDE DEF start
  <2> QED BY <1>2, HoldSame DEF Leads
<1>4. ASSUME NEW w, NEW name, Leads(m, f, w) PROVE Leads(m, f, Turn(w, name))
  <2>1. CASE w.at = Null
    BY <1>4, <2>1 DEF Turn
  <2>2. CASE w.at # Null
    <3> DEFINE v == Down(w.fs, w.at, name)
    <3>1. w.at \in Key /\ Same(f, w.fs) /\ Fs(w.fs)
      BY <1>4, <2>2 DEF Leads, Same
    <3>2. Leads(m, w.fs, v)
      BY <3>1, DownSame
    <3> HIDE DEF v
    <3>3. (Sound(m, w.fs) <=> Sound(m, f)) /\ (Own(w.fs, v.at) <=> Own(f, v.at))
      BY <3>1, SameSound
    <3>4. Same(f, v.fs)
      BY <3>1, <3>2, SameAdd DEF Leads
    <3>5. Leads(m, f, v)
      BY <3>2, <3>3, <3>4 DEF Leads
    <3> QED BY <2>2, <3>5 DEF Turn, v
  <2> QED BY <2>1, <2>2
<1> HIDE DEF begin, start, count
<1>5. \A i \in 0 .. count : Leads(m, f, after[i])
  <2> DEFINE S == {i \in 0 .. count : Leads(m, f, after[i])}
  <2>1. 0 \in S
    BY <1>1, <1>3
  <2>2. ASSUME NEW n \in 0 .. count - 1, n \in S
        PROVE  n + 1 \in S
    <3>1. n + 1 \in 1 .. count /\ n + 1 - 1 = n /\ n + 1 \in 0 .. count
      BY <1>1
    <3>2. after[n + 1] = Turn(after[n], path.names[n + 1])
      BY <1>1, <3>1
    <3>3. Leads(m, f, after[n])
      BY <2>2
    <3> QED BY <1>4, <3>1, <3>2, <3>3
  <2> HIDE DEF S
  <2>3. \A n \in 0 .. count : n \in S
    BY <1>1, <2>1, <2>2, PlaceInduction
  <2> QED BY <2>3 DEF S
<1> QED BY <1>1, <1>5

\* A walk in one file system is a walk in the one before it.
LEMMA LeadsFrom ==
  ASSUME NEW m, NEW f, NEW g, NEW w, Same(f, g), Leads(m, g, w)
  PROVE  Leads(m, f, w)
<1>1. (Sound(m, g) <=> Sound(m, f)) /\ (Own(g, w.at) <=> Own(f, w.at))
  BY SameSound
<1>2. Same(f, w.fs)
  BY SameAdd DEF Leads
<1> QED BY <1>1, <1>2 DEF Leads

\* namei finds an inode, whatever it holds.
LEMMA nameiSame ==
  ASSUME NEW f, Fs(f), NEW t, Grounded(f, t), NEW path, IsPath(path)
  PROVE  LET n == namei(f, t, path)
         IN  Same(f, n.fs) /\ n.at \in Key \cup {Null}
<1> DEFINE w == named(f, t, path)
           e == LastEntry(w, path)
           g == iget(e.fs, e.at[1], e.nr)
           n == namei(f, t, path)
<1>1. n = IF w.at = Null \/ path.names = << >> THEN w
          ELSE IF e.slot = 0 THEN [fs |-> iput(e.fs, e.at), at |-> Null]
          ELSE [fs |-> iput(g.fs, e.at), at |-> g.at]
  BY DEF namei
<1>2. n.at \in Key \cup {Null}
  <2>1. Starts(t)
    BY DEF Starts, Grounded
  <2> QED BY <2>1, RootKey, nameiGives DEF Gives
<1>3. Same(f, w.fs) /\ w.at \in Key \cup {Null}
  <2>1. Leads({}, f, w)
    BY namedLeads
  <2> QED BY <2>1 DEF Leads
<1> HIDE DEF w, n
<1>4. CASE w.at = Null \/ path.names = << >>
  BY <1>1, <1>2, <1>3, <1>4 DEF n
<1>5. CASE ~ (w.at = Null \/ path.names = << >>)
  <2>1. Same(w.fs, e.fs) /\ e.at \in Key /\ (e.slot # 0 => e.nr \in Nr)
    <3>1. w.at \in Key /\ Fs(w.fs)
      BY <1>3, <1>5 DEF Same
    <3> QED BY <3>1, find_entrySame DEF LastEntry
  <2> HIDE DEF e
  <2>2. Same(f, e.fs) /\ Fs(e.fs)
    BY <1>3, <2>1, SameAdd DEF Same
  <2>3. CASE e.slot = 0
    <3>1. Same(f, iput(e.fs, e.at))
      BY <2>2, iputSame, SameAdd
    <3>2. n.fs = iput(e.fs, e.at)
      BY <1>1, <1>5, <2>3
    <3> QED BY <1>2, <3>1, <3>2 DEF n
  <2>4. CASE e.slot # 0
    <3>1. e.at[1] \in Dev
      BY <2>1 DEF Key
    <3>2. Same(e.fs, g.fs)
      BY <2>1, <2>2, <2>4, <3>1, igetSame
    <3>3. n.fs = iput(g.fs, e.at)
      BY <1>1, <1>5, <2>4
    <3> HIDE DEF g
    <3>4. Same(f, g.fs) /\ Fs(g.fs)
      BY <2>2, <3>2, SameAdd DEF Same
    <3>5. Same(f, iput(g.fs, e.at))
      BY <3>4, iputSame, SameAdd
    <3> QED BY <1>2, <3>3, <3>5 DEF n
  <2> QED BY <2>3, <2>4
<1> QED BY <1>4, <1>5

\* The directory of a path that may be written.
LEMMA WritableLeads ==
  ASSUME NEW m, NEW f, Fs(f), NEW t, Grounded(f, t), NEW path, IsPath(path)
  PROVE  Leads(m, f, Writable(f, t, path))
<1> DEFINE w == named(f, t, path)
           e == LastEntry(w, path)
<1>1. Writable(f, t, path) =
        IF w.at = Null THEN [fs |-> w.fs, at |-> Null, slot |-> 0]
        ELSE IF path.names = << >> \/ ~ permission(w.fs, w.at)
        THEN [fs |-> iput(w.fs, w.at), at |-> Null, slot |-> 0] ELSE e
  BY DEF Writable
<1>2. Leads(m, f, w)
  BY namedLeads
<1> HIDE DEF w
<1>3. Same(f, w.fs) /\ Fs(w.fs)
  BY <1>2 DEF Leads, Same
<1>4. CASE w.at = Null
  BY <1>1, <1>3, <1>4 DEF Leads
<1>5. CASE w.at # Null /\ (path.names = << >> \/ ~ permission(w.fs, w.at))
  <2>1. Same(f, iput(w.fs, w.at))
    BY <1>3, iputSame, SameAdd
  <2>2. Writable(f, t, path) = [fs |-> iput(w.fs, w.at), at |-> Null, slot |-> 0]
    BY <1>1, <1>5
  <2> QED BY <2>1, <2>2 DEF Leads
<1>6. CASE w.at # Null /\ ~ (path.names = << >> \/ ~ permission(w.fs, w.at))
  <2>1. w.at \in Key
    BY <1>2, <1>6 DEF Leads
  <2>2. /\ Same(w.fs, e.fs) /\ e.at \in Key
        /\ e.fs.panic = "none" /\ Sound(m, w.fs) /\ Own(w.fs, w.at) => Own(w.fs, e.at)
    BY <1>3, <2>1, find_entrySame DEF LastEntry
  <2>3. Writable(f, t, path) = e
    BY <1>1, <1>6
  <2> HIDE DEF e
  <2>4. /\ Sound(m, w.fs) <=> Sound(m, f)
        /\ Own(w.fs, w.at) <=> Own(f, w.at)
        /\ Own(w.fs, e.at) <=> Own(f, e.at)
    BY <1>3, SameSound
  <2>5. Same(f, e.fs) /\ (e.fs.panic = "none" => w.fs.panic = "none")
    BY <1>3, <2>2, SameAdd DEF Same
  <2> QED BY <1>2, <1>6, <2>2, <2>3, <2>4, <2>5 DEF Leads
<1> QED BY <1>4, <1>5, <1>6

\* A name that is new goes into a directory.
LEMMA AbsentLeads ==
  ASSUME NEW m, NEW f, Fs(f), NEW t, Grounded(f, t), NEW path, IsPath(path)
  PROVE  LET w == Absent(f, t, path)
         IN  Leads(m, f, w) /\ (w.at # Null => path.names # << >>)
<1> DEFINE e == Writable(f, t, path)
           w == Absent(f, t, path)
<1>1. w = IF e.slot = 0 THEN [fs |-> e.fs, at |-> e.at]
          ELSE [fs |-> iput(e.fs, e.at), at |-> Null]
  BY DEF Absent
<1>2. Leads(m, f, e)
  BY WritableLeads
<1>3. w.at # Null => path.names # << >>
  <2>1. Starts(t)
    BY DEF Starts, Grounded
  <2> QED BY <2>1, RootKey, AbsentGives
<1> HIDE DEF e, w
<1>4. CASE e.slot = 0
  BY <1>1, <1>2, <1>3, <1>4 DEF Leads, w
<1>5. CASE e.slot # 0
  <2>1. Same(f, iput(e.fs, e.at))
    BY <1>2, iputSame, SameAdd DEF Leads, Same
  <2> QED BY <1>1, <1>3, <1>5, <2>1 DEF Leads, w
<1> QED BY <1>4, <1>5

\* A name that is there, and its directory.
LEMMA PresentSame ==
  ASSUME NEW f, Fs(f), NEW t, Grounded(f, t), NEW path, IsPath(path)
  PROVE  LET p == Present(f, t, path)
         IN  Same(f, p.fs) /\ (p.at # Null => p.at \in Key /\ p.dir \in Key)
<1> DEFINE e == Writable(f, t, path)
           g == iget(e.fs, e.at[1], e.nr)
           p == Present(f, t, path)
<1>1. p = IF e.at = Null THEN [fs |-> e.fs, dir |-> Null, slot |-> 0, at |-> Null]
          ELSE IF e.slot = 0
          THEN [fs |-> iput(e.fs, e.at), dir |-> Null, slot |-> 0, at |-> Null]
          ELSE [fs |-> g.fs, dir |-> e.at, slot |-> e.slot, at |-> g.at]
  BY DEF Present
<1>2. Starts(t)
  BY DEF Starts, Grounded
<1>3. p.at # Null => p.at \in Key /\ p.dir \in Key
  BY <1>2, RootKey, PresentGives
<1>4. e.at # Null => (e.slot # 0 => e.nr \in Nr)
  BY <1>2, RootKey, WritableGives
<1>5. Same(f, e.fs) /\ Fs(e.fs) /\ e.at \in Key \cup {Null}
  <2>1. Leads({}, f, e)
    BY WritableLeads
  <2> QED BY <2>1 DEF Leads, Same
<1> HIDE DEF e, p
<1>6. CASE e.at = Null
  BY <1>1, <1>3, <1>5, <1>6 DEF p
<1>7. CASE e.at # Null /\ e.slot = 0
  <2>1. Same(f, iput(e.fs, e.at))
    BY <1>5, iputSame, SameAdd
  <2> QED BY <1>1, <1>3, <1>7, <2>1 DEF p
<1>8. CASE e.at # Null /\ e.slot # 0
  <2>1. e.at[1] \in Dev /\ e.nr \in Nr
    BY <1>4, <1>5, <1>8 DEF Key
  <2>2. Same(e.fs, g.fs)
    BY <1>5, <2>1, igetSame
  <2> HIDE DEF g
  <2>3. Same(f, g.fs) /\ p.fs = g.fs
    BY <1>1, <1>5, <1>8, <2>2, SameAdd
  <2> QED BY <1>3, <2>3 DEF p
<1> QED BY <1>6, <1>7, <1>8

\* Two inodes are given back.
LEMMA iputTwice ==
  ASSUME NEW m, NEW f, NEW g, Steady(m, f, g), NEW k, NEW l
  PROVE  Steady(m, f, iput(g, k)) /\ Steady(m, f, iput(iput(g, k), l))
<1>1. Same(g, iput(g, k))
  BY iputSame DEF Steady
<1>2. Same(iput(g, k), iput(iput(g, k), l))
  BY <1>1, iputSame DEF Same
<1>3. Steady(m, g, iput(g, k))
  BY <1>1, SteadyFit, SameSteady
<1>4. Steady(m, iput(g, k), iput(iput(g, k), l))
  BY <1>2, <1>3, SteadyFit, SameSteady
<1> QED BY <1>3, <1>4, SteadyAdd

\* put_file gives an inode back or writes no inode at all.
LEMMA put_fileSame ==
  ASSUME NEW s, Fs(s.fs), NEW n
  PROVE  Same(s.fs, put_file(s, n).fs)
<1>1. Same(s.fs, s.fs)
  BY DEF Same
<1>2. CASE n = 0
  BY <1>1, <1>2 DEF put_file
<1>3. CASE n # 0 /\ s.file[n].count = 1
  BY <1>3, iputSame DEF put_file
<1>4. CASE n # 0 /\ s.file[n].count # 1
  <2>1. put_file(s, n).fs = s.fs
    BY <1>4 DEF put_file
  <2> QED BY <1>1, <2>1
<1> QED BY <1>2, <1>3, <1>4

\* To close every descriptor changes no block.
LEMMA CloseAllSame ==
  ASSUME NEW f, Fs(f), NEW t
  PROVE  Same(f, CloseAll(f, t).fs)
<1>1. PICK after :
        /\ CloseAll(f, t) = after[NFd] /\ after[0] = [fs |-> f, file |-> file]
        /\ \A i \in 1 .. NFd : after[i] = put_file(after[i - 1], task[t].fd[i])
  BY CloseAllTurns
<1>2. NFd \in Nat
  BY SizesAssumption
<1> DEFINE S == {i \in 0 .. NFd : Same(f, after[i].fs)}
<1>3. 0 \in S
  BY <1>1, <1>2 DEF Same
<1>4. ASSUME NEW n \in 0 .. NFd - 1, n \in S
      PROVE  n + 1 \in S
  <2>1. n + 1 \in 1 .. NFd /\ n + 1 - 1 = n /\ n + 1 \in 0 .. NFd
    BY <1>2
  <2>2. after[n + 1] = put_file(after[n], task[t].fd[n + 1])
    BY <1>1, <2>1
  <2>3. Same(f, after[n].fs) /\ Fs(after[n].fs)
    BY <1>4 DEF Same
  <2>4. Same(after[n].fs, after[n + 1].fs)
    BY <2>2, <2>3, put_fileSame
  <2> QED BY <2>1, <2>3, <2>4, SameAdd
<1> HIDE DEF S
<1>5. \A n \in 0 .. NFd : n \in S
  BY <1>2, <1>3, <1>4, PlaceInduction
<1>6. NFd \in 0 .. NFd
  BY <1>2
<1>7. NFd \in S
  BY <1>5, <1>6
<1> QED BY <1>1, <1>7 DEF S

-----------------------------------------------------------------------------
(* Writes to the disk. *)

\* What one write to an inode leaves of the others.
LEMMA PutAt ==
  ASSUME NEW f, Fs(f), NEW k, NEW desc
  PROVE  /\ \A d \in Dev, nr \in Nr :
              Put(f, k, desc).ino[d][nr] =
                IF d = k[1] /\ nr = k[2] THEN desc ELSE f.ino[d][nr]
         /\ \A a \in FsFields \ {"ino"} : Put(f, k, desc)[a] = f[a]
<1> DEFINE row == [f.ino[k[1]] EXCEPT ![k[2]] = desc]
           ino == [f.ino EXCEPT ![k[1]] = row]
           g == [f EXCEPT !.ino = ino]
<1>1. Put(f, k, desc) = g
  BY DEF Put
<1>2. \A b \in FsFields : g[b] = IF b = "ino" THEN ino ELSE f[b]
  <2> HIDE DEF ino
  <2> QED BY DEF Fs, IsFcn
<1>3. \A b \in Dev : ino[b] = IF b = k[1] THEN row ELSE f.ino[b]
  <2> HIDE DEF row
  <2> QED BY DEF Fs, Inodes, IsFcn
<1>4. k[1] \in Dev =>
        \A b \in Nr : row[b] = IF b = k[2] THEN desc ELSE f.ino[k[1]][b]
  BY DEF Fs, Inodes, IsFcn
<1> HIDE DEF ino, row, g
<1>5. g.ino = ino
  BY <1>2 DEF FsFields
<1> QED BY <1>1, <1>2, <1>3, <1>4, <1>5

\* The rest of the file system stays when inodes are written.
Rest(f, g) ==
  /\ g.imap = f.imap /\ g.mount = f.mount /\ g.sb = f.sb /\ g.minix = f.minix
  /\ g.panic = "none" => f.panic = "none"

\* Types and blocks stay: links, sizes and entries may change, and a device.
LEMMA LikeSteady ==
  ASSUME NEW m, NEW f, Fit(m, f), NEW g, Fs(g), Rest(f, g), g.zmap = f.zmap,
         \A d \in Dev, nr \in Nr :
           /\ g.ino[d][nr].type = f.ino[d][nr].type
           /\ \/ f.ino[d][nr].type = "blk"
              \/ Blocks(g.ino[d][nr]) = Blocks(f.ino[d][nr])
  PROVE  Steady(m, f, g)
<1> SUFFICES ASSUME g.panic = "none", Sound(m, f)
             PROVE  Sound(m, g) /\ \A k \in Key : Own(f, k) <=> Own(g, k)
  BY DEF Steady, Fit, Rest
<1>1. \A k \in Key : Own(f, k) <=> Own(g, k)
  BY DEF Own, Owns, Ino, Key
<1>2. \A d \in Dev, nr \in Nr : Has(g.ino[d][nr]) = Has(f.ino[d][nr])
  BY DEF Has, Owns
<1>3. Exact(g)
  <2> SUFFICES ASSUME NEW d \in Dev, d \in f.minix
               PROVE  Parts(g.zmap[d], g.ino[d])
    BY DEF Exact, Rest, Fs
  <2>1. Parts(f.zmap[d], f.ino[d])
    BY DEF Sound, Exact
  <2> QED BY <1>2, <2>1 DEF Parts
<1>4. Rooted(g)
  <2>1. \A d \in Dev : f.sb[d].imount \in Key \cup {Null}
    BY DEF Fit, Fs, Super
  <2>2. Rooted(f)
    BY DEF Sound
  <2> QED BY <1>1, <2>1, <2>2 DEF Rooted, Rest
<1>5. \A d \in Dev, nr \in Nr : Clean(g, d, nr)
  <2>1. \A d \in Dev, nr \in Nr : Clean(f, d, nr)
    BY DEF Sound
  <2> QED BY <2>1 DEF Clean, Rest, Owns
<1>6. "mknod" \in m => Fresh(g)
  BY DEF Sound, Fresh, Rest, Fs
<1> QED BY <1>1, <1>3, <1>4, <1>5, <1>6 DEF Sound, Rest

\* One field is written that is neither the type nor a block of a file.
LEMMA FieldSteady ==
  ASSUME NEW m, NEW f, Fit(m, f), NEW k, NEW v,
         NEW a \in {"nlinks", "size", "entries", "zone"},
         f.panic = "none" /\ a = "zone" /\ Place(k) => Ino(f, k).type = "blk",
         Fs(SetField(f, k, a, v))
  PROVE  Steady(m, f, SetField(f, k, a, v))
<1> DEFINE y == With(Ino(f, k), a, v)
           g == SetField(f, k, a, v)
<1>1. Fs(f)
  BY DEF Fit
<1>2. Place(k) => /\ y.type = Ino(f, k).type
                  /\ a # "zone" => Blocks(y) = Blocks(Ino(f, k))
  <2> SUFFICES ASSUME Place(k)
               PROVE  /\ y.type = Ino(f, k).type
                      /\ a # "zone" => Blocks(y) = Blocks(Ino(f, k))
    OBVIOUS
  <2> DEFINE x == Ino(f, k)
  <2>1. IsFcn(x, DescFields)
    BY <1>1, InoDesc DEF IsDesc
  <2> HIDE DEF x
  <2>2. /\ y.type = x.type /\ (a # "zone" => y.zone = x.zone)
        /\ y.index = x.index /\ y.far = x.far
    BY <2>1 DEF With, IsFcn, DescFields, x
  <2> QED BY <2>2 DEF Blocks, x
<1> HIDE DEF y
<1>3. /\ \A d \in Dev, nr \in Nr :
           g.ino[d][nr] = IF d = k[1] /\ nr = k[2] THEN y ELSE f.ino[d][nr]
      /\ \A b \in FsFields \ {"ino"} : g[b] = f[b]
  BY <1>1, PutAt DEF SetField, y
<1> HIDE DEF g
<1>4. Rest(f, g) /\ g.zmap = f.zmap
  BY <1>3 DEF Rest, FsFields
<1>5. Fs(g)
  BY DEF g
<1>6. CASE f.panic = "none"
  <2>1. \A d \in Dev, nr \in Nr :
          /\ g.ino[d][nr].type = f.ino[d][nr].type
          /\ \/ f.ino[d][nr].type = "blk"
             \/ Blocks(g.ino[d][nr]) = Blocks(f.ino[d][nr])
    BY <1>2, <1>3, <1>6 DEF Place, Ino
  <2>2. Steady(m, f, g)
    BY <1>4, <1>5, <2>1, LikeSteady
  <2> QED BY <2>2 DEF g
<1>7. CASE f.panic # "none"
  <2>1. Steady(m, f, g)
    BY <1>4, <1>5, <1>7, SteadyPanic DEF Rest
  <2> QED BY <2>1 DEF g
<1> QED BY <1>6, <1>7

\* An entry of a directory is written.
LEMMA SetEntrySteady ==
  ASSUME NEW m, NEW f, Fit(m, f), NEW k, NEW slot, NEW nr \in 0 .. NInode
  PROVE  Steady(m, f, SetEntry(f, k, slot, nr))
<1> DEFINE new == [Ino(f, k).entries EXCEPT ![slot].nr = nr]
<1>1. SetEntry(f, k, slot, nr) = SetField(f, k, "entries", new)
  BY DEF SetEntry, SetField, With, Put, Ino
<1>2. Fs(SetEntry(f, k, slot, nr))
  BY SetEntryQuiet, QuietFs DEF Fit
<1> HIDE DEF new
<1> QED BY <1>1, <1>2, FieldSteady

\* nlinks is written.
LEMMA LinksSteady ==
  ASSUME NEW m, NEW f, Fit(m, f), NEW k, NEW n
  PROVE  Steady(m, f, Links(f, k, n))
<1>1. Links(f, k, n) = SetField(f, k, "nlinks", n)
  BY DEF Links, SetField, With, Put, Ino
<1>2. Fs(Links(f, k, n))
  BY LinksQuiet, QuietFs DEF Fit
<1> QED BY <1>1, <1>2, FieldSteady

\* A free block is given to one inode.
LEMMA PartsAdd ==
  ASSUME NEW bits, NEW row, Parts(bits, row), NEW n \in Nr, NEW b, b \notin bits,
         NEW new, \A i \in Nr \ {n} : new[i] = row[i],
         Has(new[n]) = Has(row[n]) \cup {b}
  PROVE  Parts(bits \cup {b}, new)
<1>1. \A i \in Nr : Has(new[i]) = IF i = n THEN Has(row[i]) \cup {b} ELSE Has(row[i])
  OBVIOUS
<1>2. \A i \in Nr : b \notin Has(row[i])
  BY DEF Parts
<1>3. bits \cup {b} = UNION {Has(new[i]) : i \in Nr}
  BY <1>1 DEF Parts
<1>4. \A i, j \in Nr : i # j => Has(new[i]) \cap Has(new[j]) = {}
  BY <1>1, <1>2 DEF Parts
<1> QED BY <1>3, <1>4 DEF Parts

\* The blocks of one inode are freed.
LEMMA PartsCut ==
  ASSUME NEW bits, NEW row, Parts(bits, row), NEW n \in Nr,
         NEW new, \A i \in Nr \ {n} : new[i] = row[i], Has(new[n]) = {}
  PROVE  Parts(bits \ Has(row[n]), new)
<1>1. \A i \in Nr : Has(new[i]) = IF i = n THEN {} ELSE Has(row[i])
  OBVIOUS
<1>2. \A i \in Nr \ {n} : Has(row[i]) \cap Has(row[n]) = {}
  BY DEF Parts
<1>3. bits \ Has(row[n]) = UNION {Has(new[i]) : i \in Nr}
  BY <1>1, <1>2 DEF Parts
<1>4. \A i, j \in Nr : i # j => Has(new[i]) \cap Has(new[j]) = {}
  BY <1>1 DEF Parts
<1> QED BY <1>3, <1>4 DEF Parts

\* Where the blocks of two rows are the same so is what is said of them.
LEMMA PartsSame ==
  ASSUME NEW bits, NEW row, Parts(bits, row), NEW new,
         \A i \in Nr : Has(new[i]) = Has(row[i])
  PROVE  Parts(bits, new)
BY DEF Parts

\* The blocks of one inode change, and the bitmap of its device with them.
LEMMA BlocksSteady ==
  ASSUME NEW m, NEW f, Fit(m, f), NEW g, Fs(g), Rest(f, g), NEW k, Holder(f, k),
         IsFcn(f.zmap, Dev) => /\ IsFcn(g.zmap, Dev)
                               /\ \A d \in Dev \ {k[1]} : g.zmap[d] = f.zmap[d],
         \A d \in Dev, nr \in Nr : d # k[1] \/ nr # k[2] => g.ino[d][nr] = f.ino[d][nr],
         Ino(g, k).type = Ino(f, k).type,
         g.panic = "none" /\ Sound(m, f) => Parts(g.zmap[k[1]], g.ino[k[1]])
  PROVE  Steady(m, f, g)
<1> SUFFICES ASSUME g.panic = "none", Sound(m, f)
             PROVE  Sound(m, g) /\ \A j \in Key : Own(f, j) <=> Own(g, j)
  BY DEF Steady, Fit, Rest
<1>1. k \in Key /\ k[1] \in Dev /\ k[2] \in Nr /\ Own(f, k)
  BY DEF Holder, Key, Rest
<1>2. \A d \in Dev, nr \in Nr : g.ino[d][nr].type = f.ino[d][nr].type
  BY <1>1 DEF Ino
<1>3. \A j \in Key : Own(f, j) <=> Own(g, j)
  BY <1>2 DEF Own, Owns, Ino, Key
<1>4. Exact(g)
  <2> SUFFICES ASSUME NEW d \in Dev, d \in f.minix
               PROVE  Parts(g.zmap[d], g.ino[d])
    BY DEF Exact, Rest, Fs
  <2>1. CASE d = k[1]
    BY <2>1
  <2>2. CASE d # k[1]
    <3>1. Parts(f.zmap[d], f.ino[d]) /\ g.zmap[d] = f.zmap[d]
      BY <2>2 DEF Sound, Exact
    <3>2. \A i \in Nr : g.ino[d][i] = f.ino[d][i]
      BY <2>2
    <3> QED BY <3>1, <3>2, PartsSame
  <2> QED BY <2>1, <2>2
<1>5. Rooted(g)
  <2>1. \A d \in Dev : f.sb[d].imount \in Key \cup {Null}
    BY DEF Fit, Fs, Super
  <2>2. Rooted(f)
    BY DEF Sound
  <2> QED BY <1>3, <2>1, <2>2 DEF Rooted, Rest
<1>6. \A d \in Dev, nr \in Nr : Clean(g, d, nr)
  <2> SUFFICES ASSUME NEW d \in Dev, NEW nr \in Nr PROVE Clean(g, d, nr)
    OBVIOUS
  <2>1. Clean(f, d, nr)
    BY DEF Sound
  <2>2. CASE d = k[1] /\ nr = k[2]
    <3>1. Owns(f.ino[d][nr]) /\ Owns(g.ino[d][nr])
      BY <1>1, <1>2, <2>2 DEF Own, Ino, Owns
    <3> QED BY <2>1, <3>1 DEF Clean, Rest, Owns
  <2>3. CASE ~ (d = k[1] /\ nr = k[2])
    <3>1. g.ino[d][nr] = f.ino[d][nr]
      BY <2>3
    <3> QED BY <2>1, <3>1 DEF Clean, Rest
  <2> QED BY <2>2, <2>3
<1>7. "mknod" \in m => Fresh(g)
  BY <1>2 DEF Sound, Fresh, Rest, Fs
<1> QED BY <1>3, <1>4, <1>5, <1>6, <1>7 DEF Sound, Rest

\* An inode that holds blocks is given one.
LEMMA FillZoneSteady ==
  ASSUME NEW m, NEW f, Fit(m, f), NEW k, Holder(f, k),
         NEW index \in {"zone", "index", "far"}
  PROVE  Steady(m, f, FillZone(f, k, index))
<1> DEFINE g == FillZone(f, k, index)
           d == k[1]
<1> SUFFICES ASSUME f.panic = "none" PROVE Steady(m, f, g)
  <2>1. Quiet(f, g)
    BY FillZoneQuiet DEF Fit
  <2> HIDE DEF g
  <2>2. f.panic # "none" => Steady(m, f, g)
    BY <2>1, SteadyPanic DEF Quiet, Disk
  <2> QED BY <2>2 DEF g
<1>1. Fs(f) /\ Fs(g) /\ k \in Key /\ d \in Dev /\ k[2] \in Nr /\ Place(k)
  BY FillZoneQuiet, QuietFs DEF Fit, Holder, Key, Place
<1>2. CASE Ino(f, k)[index] # 0
  BY <1>2, SteadySelf DEF FillZone
<1>3. CASE Ino(f, k)[index] = 0 /\ (~ Loaded(f, d) \/ Zone \subseteq f.zmap[d])
  <2> DEFINE a == balloc(f, d)
  <2>1. g = SetField(a.fs, k, index, a.bit)
    BY <1>3 DEF FillZone, SetField, With, Put, Ino
  <2>2. Fs(a.fs) /\ a.fs.panic # "none"
    <3>1. a.fs \in {Panic(f, "no_super"), Panic(f, "full")}
      BY <1>3 DEF balloc, Scan
    <3> QED BY <1>1, <3>1, PanicSame DEF Same
  <2> HIDE DEF a
  <2>3. g.panic = a.fs.panic
    BY <2>1, <2>2, PutAt DEF SetField, FsFields
  <2> QED BY <1>1, <2>2, <2>3, SteadyPanic
<1>4. CASE Ino(f, k)[index] = 0 /\ Loaded(f, d) /\ ~ (Zone \subseteq f.zmap[d])
  <2> DEFINE bit == Min(Zone \ f.zmap[d])
             bits == f.zmap[d] \cup {bit}
             zmap == [f.zmap EXCEPT ![d] = bits]
             h == [f EXCEPT !.zmap = zmap]
             y == With(Ino(f, k), index, bit)
  <2>1. bit \in Zone /\ bit \notin f.zmap[d] /\ bit # 0
    <3>1. Zone \ f.zmap[d] \in SUBSET Nat /\ Zone \ f.zmap[d] # {}
      BY <1>4, SizesAssumption DEF Zone
    <3>2. bit \in Zone \ f.zmap[d]
      BY <3>1, MinExists
    <3> QED BY <3>2, SizesAssumption DEF Zone
  <2>2. balloc(f, d) = [fs |-> h, bit |-> bit]
    BY <1>4 DEF balloc, Scan
  <2>3. Fs(h) /\ \A a \in FsFields \ {"zmap"} : h[a] = f[a]
    <3> HIDE DEF zmap
    <3> QED BY <1>1, MapKeeps DEF Disk
  <2>4. h.zmap = zmap
    BY <1>1 DEF Fs, IsFcn, FsFields
  <2> HIDE DEF bit, h
  <2>5. Ino(h, k) = Ino(f, k)
    BY <2>3 DEF Ino, FsFields
  <2>6. g = Put(h, k, y)
    BY <1>4, <2>2, <2>5 DEF FillZone, With, Put, Ino
  <2>7. y.type = Ino(f, k).type /\ Blocks(y) = Blocks(Ino(f, k)) \cup {bit}
    <3> DEFINE x == Ino(f, k)
    <3>1. IsFcn(x, DescFields) /\ x[index] = 0
      BY <1>1, <1>4, InoDesc DEF IsDesc
    <3> HIDE DEF x
    <3>2. /\ y.type = x.type
          /\ y.zone = IF index = "zone" THEN bit ELSE x.zone
          /\ y.index = IF index = "index" THEN bit ELSE x.index
          /\ y.far = IF index = "far" THEN bit ELSE x.far
      BY <3>1 DEF With, IsFcn, DescFields, x
    <3>3. (index = "zone" => x.zone = 0) /\ (index = "index" => x.index = 0)
          /\ (index = "far" => x.far = 0)
      BY <3>1
    <3> HIDE DEF y
    <3>4. Blocks(y) = Blocks(x) \cup {bit}
      <4>1. CASE index = "zone"
        BY <2>1, <3>2, <3>3, <4>1 DEF Blocks
      <4>2. CASE index = "index"
        BY <2>1, <3>2, <3>3, <4>2 DEF Blocks
      <4>3. CASE index = "far"
        BY <2>1, <3>2, <3>3, <4>3 DEF Blocks
      <4> QED BY <4>1, <4>2, <4>3
    <3> QED BY <3>2, <3>4 DEF x
  <2> HIDE DEF y, g
  <2>8. /\ \A b \in Dev, nr \in Nr :
             g.ino[b][nr] = IF b = k[1] /\ nr = k[2] THEN y ELSE f.ino[b][nr]
        /\ \A a \in FsFields \ {"ino"} : g[a] = h[a]
    <3>1. h.ino = f.ino
      BY <2>3 DEF FsFields
    <3> QED BY <2>3, <2>6, <3>1, PutAt
  <2>9. Rest(f, g) /\ g.zmap = zmap
    BY <2>3, <2>4, <2>8 DEF Rest, FsFields
  <2>10. Ino(g, k) = y
    BY <1>1, <2>8 DEF Ino
  <2>11. IsFcn(f.zmap, Dev) => /\ IsFcn(g.zmap, Dev) /\ g.zmap[d] = bits
                               /\ \A b \in Dev \ {d} : g.zmap[b] = f.zmap[b]
    <3> HIDE DEF bits
    <3> QED BY <1>1, <2>9 DEF IsFcn
  <2>12. ASSUME g.panic = "none", Sound(m, f) PROVE Parts(g.zmap[d], g.ino[d])
    <3>1. Own(f, k) /\ f.panic = "none"
      BY <2>9, <2>12 DEF Holder, Rest
    <3>2. d \in f.minix
      <4>1. Clean(f, d, k[2]) /\ Owns(f.ino[d][k[2]])
        BY <1>1, <2>12, <3>1 DEF Sound, Own, Ino
      <4> QED BY <4>1 DEF Clean, Owns
    <3>3. Parts(f.zmap[d], f.ino[d])
      BY <2>12, <3>2 DEF Sound, Exact
    <3>4. g.ino[d][k[2]] = y /\ \A i \in Nr \ {k[2]} : g.ino[d][i] = f.ino[d][i]
      BY <1>1, <2>8
    <3>5. Has(y) = Has(f.ino[d][k[2]]) \cup {bit}
      BY <2>7, <3>1 DEF Has, Own, Owns, Ino
    <3>6. Parts(bits, g.ino[d])
      BY <1>1, <2>1, <3>3, <3>4, <3>5, PartsAdd
    <3> QED BY <2>11, <2>12, <3>6 DEF Sound
  <2> HIDE DEF zmap, bits
  <2>13. \A b \in Dev, nr \in Nr : b # k[1] \/ nr # k[2] => g.ino[b][nr] = f.ino[b][nr]
    BY <2>8
  <2>14. Fs(g)
    BY <1>1 DEF g
  <2>15. Steady(m, f, g)
    BY <2>7, <2>9, <2>10, <2>11, <2>12, <2>13, <2>14, BlocksSteady
  <2> QED BY <2>15 DEF g
<1> QED BY <1>2, <1>3, <1>4

\* A new block of indexes that is stale ends the run; an empty one adds nothing.
LEMMA NewIndexesSteady ==
  ASSUME NEW m, NEW f, Fit(m, f), NEW k
  PROVE  Steady(m, f, NewIndexes(f, k))
<1> DEFINE g == NewIndexes(f, k)
<1>1. Fs(g) /\ (g = f \/ g.panic # "none")
  BY NewIndexesQuiet, QuietFs DEF Fit
<1> HIDE DEF g
<1>2. g = f => Steady(m, f, g)
  BY SteadySelf
<1>3. g.panic # "none" => Steady(m, f, g)
  BY <1>1, SteadyPanic
<1> QED BY <1>1, <1>2, <1>3 DEF g

\* bmap with create gives a holder of blocks the blocks it needs.
LEMMA bmap_createSteady ==
  ASSUME NEW m, NEW f, Fit(m, f), NEW k, Holder(f, k), NEW block
  PROVE  Steady(m, f, bmap_create(f, k, block))
<1>1. CASE block = 0
  BY <1>1, FillZoneSteady DEF bmap_create
<1>2. CASE block # 0
  <2> DEFINE e == FillZone(f, k, "index")
             h == NewIndexes(e, k)
             g == IF Ino(f, k).index # 0 THEN f ELSE h
  <2>1. Steady(m, f, e)
    BY FillZoneSteady
  <2>2. Steady(m, e, h)
    <3> HIDE DEF e
    <3> QED BY <2>1, SteadyFit, NewIndexesSteady
  <2>3. Steady(m, f, g)
    <3> HIDE DEF e, h
    <3>1. Steady(m, f, h) /\ Steady(m, f, f)
      BY <2>1, <2>2, SteadyAdd, SteadySelf
    <3> QED BY <3>1
  <2>4. bmap_create(f, k, block) = FillZone(g, k, "far")
    BY <1>2 DEF bmap_create
  <2> HIDE DEF e, h, g
  <2>5. Steady(m, g, FillZone(g, k, "far"))
    BY <2>3, SteadyFit, FillZoneSteady
  <2> QED BY <2>3, <2>4, <2>5, SteadyAdd
<1> QED BY <1>1, <1>2

\* inode_truncate frees the blocks of an inode and forgets them.
LEMMA inode_truncateSteady ==
  ASSUME NEW m, NEW f, Fit(m, f), NEW k, f.panic = "none" => k \in Key
  PROVE  Steady(m, f, inode_truncate(f, k))
<1> DEFINE x == Ino(f, k)
           g == inode_truncate(f, k)
           d == k[1]
<1> SUFFICES ASSUME f.panic = "none" PROVE Steady(m, f, g)
  <2>1. Quiet(f, g)
    BY inode_truncateQuiet DEF Fit
  <2> HIDE DEF g
  <2>2. f.panic # "none" => Steady(m, f, g)
    BY <2>1, SteadyPanic DEF Quiet, Disk
  <2> QED BY <2>2 DEF g
<1>1. Fs(f) /\ Fs(g) /\ d \in Dev /\ k[2] \in Nr /\ Place(k)
  BY inode_truncateQuiet, QuietFs DEF Fit, Key, Place
<1>2. CASE x.type \notin {"file", "dir"}
  BY <1>2, SteadySelf DEF inode_truncate
<1>3. CASE x.type \in {"file", "dir"}
  <2> DEFINE c == Check(f, Freed(x) \subseteq f.zmap[d], "bitmap")
             zmap == [c.zmap EXCEPT ![d] = @ \ Freed(x)]
             q == [c EXCEPT !.zmap = zmap]
             stale == [q.stale EXCEPT ![d] = Left(f, k)]
             e == [q EXCEPT !.stale = stale]
             y == [Ino(e, k) EXCEPT !.zone = 0, !.index = 0, !.far = 0,
                                    !.size = 0, !.entries = << >>]
  <2>1. Same(f, c) /\ Fs(c)
    BY <1>1, CheckSame DEF Same
  <2>a. Fs(q) /\ q.zmap = zmap /\ \A a \in FsFields \ {"zmap"} : q[a] = c[a]
    <3> HIDE DEF c, zmap
    <3>1. q.zmap = zmap
      BY <2>1 DEF Fs, IsFcn, FsFields
    <3> QED BY <2>1, <3>1, MapKeeps DEF Disk
  <2>b. Fs(e) /\ \A a \in FsFields \ {"stale"} : e[a] = q[a]
    <3>1. Fs(q)
      BY <2>a
    <3> HIDE DEF q, stale
    <3> QED BY <3>1, MapKeeps DEF Disk
  <2>2. Fs(e) /\ \A a \in FsFields \ {"zmap", "stale"} : e[a] = c[a]
    BY <2>a, <2>b
  <2>3. e.zmap = zmap
    <3> HIDE DEF q, e
    <3> QED BY <2>a, <2>b DEF FsFields
  <2>4. g = Put(e, k, y)
    BY <1>3, <2>1, <2>2 DEF inode_truncate, Put, Ino, Fs, IsFcn, FsFields
  <2>5. zmap = [f.zmap EXCEPT ![d] = @ \ Freed(x)]
    BY <2>1 DEF Same
  <2> HIDE DEF c, zmap
  <2>6. e.ino = f.ino /\ Ino(e, k) = x
    BY <2>1, <2>2 DEF Same, Ino, FsFields
  <2>7. y.type = x.type /\ Blocks(y) = {}
    <3> HIDE DEF e, x
    <3>1. IsFcn(x, DescFields)
      BY <1>1, InoDesc DEF IsDesc, x
    <3>2. y.type = x.type /\ y.zone = 0 /\ y.index = 0 /\ y.far = 0
      BY <2>6, <3>1 DEF IsFcn, DescFields
    <3> QED BY <3>2 DEF Blocks
  <2> HIDE DEF e, y, g
  <2>8. /\ \A b \in Dev, nr \in Nr :
             g.ino[b][nr] = IF b = k[1] /\ nr = k[2] THEN y ELSE f.ino[b][nr]
        /\ \A a \in FsFields \ {"ino"} : g[a] = e[a]
    BY <2>2, <2>4, <2>6, PutAt
  <2>9. Rest(f, g) /\ g.zmap = zmap
    <3>1. Rest(f, c)
      BY <2>1 DEF Same, Rest
    <3> QED BY <3>1, <2>2, <2>3, <2>8 DEF Rest, FsFields
  <2>10. Ino(g, k) = y
    BY <1>1, <2>8 DEF Ino
  <2>11. IsFcn(f.zmap, Dev) => /\ IsFcn(g.zmap, Dev) /\ g.zmap[d] = f.zmap[d] \ Freed(x)
                               /\ \A b \in Dev \ {d} : g.zmap[b] = f.zmap[b]
    <3> DEFINE bits == f.zmap[d] \ Freed(x)
    <3>1. g.zmap = [f.zmap EXCEPT ![d] = bits]
      BY <2>5, <2>9
    <3> HIDE DEF bits
    <3>2. IsFcn(f.zmap, Dev) => /\ IsFcn(g.zmap, Dev) /\ g.zmap[d] = bits
                                /\ \A b \in Dev \ {d} : g.zmap[b] = f.zmap[b]
      BY <1>1, <3>1 DEF IsFcn
    <3> QED BY <3>2 DEF bits
  <2>12. ASSUME g.panic = "none", Sound(m, f) PROVE Parts(g.zmap[d], g.ino[d])
    <3>1. d \in f.minix
      <4>1. Clean(f, d, k[2]) /\ Owns(f.ino[d][k[2]])
        BY <1>1, <1>3, <2>12 DEF Sound, Owns, Ino
      <4> QED BY <4>1 DEF Clean, Owns
    <3>2. Parts(f.zmap[d], f.ino[d])
      BY <2>12, <3>1 DEF Sound, Exact
    <3>3. g.ino[d][k[2]] = y /\ \A i \in Nr \ {k[2]} : g.ino[d][i] = f.ino[d][i]
      BY <1>1, <2>8
    <3>4. Has(y) = {} /\ Freed(x) = Has(f.ino[d][k[2]])
      BY <1>3, <2>7 DEF Has, Owns, Ino, Freed
    <3>5. Has(g.ino[d][k[2]]) = {}
      BY <3>3, <3>4
    <3>6. Parts(f.zmap[d] \ Has(f.ino[d][k[2]]), g.ino[d])
      <4> DEFINE bits == f.zmap[d]
                 row == f.ino[d]
                 new == g.ino[d]
                 n == k[2]
      <4>1. /\ Parts(bits, row) /\ n \in Nr /\ Has(new[n]) = {}
            /\ \A i \in Nr \ {n} : new[i] = row[i]
        BY <1>1, <3>2, <3>3, <3>5
      <4> HIDE DEF bits, row, new, n
      <4>2. Parts(bits \ Has(row[n]), new)
        BY <4>1, PartsCut
      <4> QED BY <4>2 DEF bits, row, new, n
    <3> QED BY <2>11, <2>12, <3>4, <3>6 DEF Sound
  <2>13. \A b \in Dev, nr \in Nr : b # k[1] \/ nr # k[2] => g.ino[b][nr] = f.ino[b][nr]
    BY <2>8
  <2>14. Fs(g) /\ Holder(f, k)
    BY <1>1, <1>3 DEF g, Holder, Own, Owns
  <2> HIDE DEF x
  <2>15. Steady(m, f, g)
    BY <2>7, <2>9, <2>10, <2>11, <2>12, <2>13, <2>14, BlocksSteady DEF x
  <2> QED BY <2>15 DEF g
<1> QED BY <1>2, <1>3

\* The bit of an inode is cleared that is no device node, where no unmarked
\* inode has to be free.
LEMMA ifreeSteady ==
  ASSUME NEW m, "mknod" \notin m, NEW f, Fit(m, f), NEW k \in Key,
         f.panic = "none" => Ino(f, k).type # "blk"
  PROVE  Steady(m, f, ifree(f, k))
<1> DEFINE c == Check(f, k[2] \in f.imap[k[1]], "bitmap")
           new == [c.imap EXCEPT ![k[1]] = @ \ {k[2]}]
           g == [c EXCEPT !.imap = new]
<1>1. ifree(f, k) = g
  BY DEF ifree
<1>2. Same(f, c) /\ Fs(c) /\ k[1] \in Dev /\ k[2] \in Nr
  BY CheckSame DEF Fit, Same, Key
<1> HIDE DEF c
<1>3. Fs(g) /\ \A a \in FsFields \ {"imap"} : g[a] = c[a]
  <2> HIDE DEF new
  <2> QED BY <1>2, MapKeeps DEF Disk
<1>4. g.imap = new
  <2> HIDE DEF new
  <2> QED BY <1>2 DEF Fs, IsFcn, FsFields
<1> HIDE DEF g
<1>5. /\ g.ino = f.ino /\ g.zmap = f.zmap /\ g.mount = f.mount /\ g.sb = f.sb
      /\ g.minix = f.minix /\ (g.panic = "none" => f.panic = "none")
  BY <1>2, <1>3 DEF Same, FsFields
<1>6. ASSUME g.panic = "none", Sound(m, f)
      PROVE  Sound(m, g) /\ \A j \in Key : Own(f, j) <=> Own(g, j)
  <2>1. \A j : Own(f, j) <=> Own(g, j)
    BY <1>5 DEF Own, Ino
  <2>2. IsFcn(g.imap, Dev) /\ \A d \in Dev, nr \in Nr :
          d # k[1] \/ nr # k[2] => (nr \in g.imap[d] <=> nr \in f.imap[d])
    <3> DEFINE bits == f.imap[k[1]] \ {k[2]}
    <3>1. new = [f.imap EXCEPT ![k[1]] = bits] /\ IsFcn(f.imap, Dev)
      BY <1>2, <1>6 DEF Same, Sound
    <3>2. \A nr \in Nr \ {k[2]} : nr \in bits <=> nr \in f.imap[k[1]]
      OBVIOUS
    <3> HIDE DEF bits, new
    <3>3. IsFcn(new, Dev) /\ \A d \in Dev : new[d] = IF d = k[1] THEN bits ELSE f.imap[d]
      BY <3>1 DEF IsFcn
    <3> QED BY <1>4, <3>2, <3>3
  <2>3. Exact(g)
    BY <1>5, <1>6 DEF Sound, Exact
  <2>4. Rooted(g)
    BY <1>5, <1>6, <2>1 DEF Sound, Rooted
  <2>5. \A d \in Dev, nr \in Nr : Clean(g, d, nr)
    <3> SUFFICES ASSUME NEW d \in Dev, NEW nr \in Nr PROVE Clean(g, d, nr)
      OBVIOUS
    <3>1. Clean(f, d, nr)
      BY <1>6 DEF Sound
    <3>2. f.ino[d][nr].type = "blk" => d # k[1] \/ nr # k[2]
      BY <1>5, <1>6 DEF Ino
    <3> QED BY <1>5, <2>2, <3>1, <3>2 DEF Clean
  <2> QED BY <1>5, <1>6, <2>1, <2>2, <2>3, <2>4, <2>5 DEF Sound
<1> QED BY <1>1, <1>3, <1>5, <1>6 DEF Steady, Fit

\* add_entry gives a directory the block of its new entry.
LEMMA add_entrySteady ==
  ASSUME NEW m, NEW f, Fit(m, f), NEW k, Holder(f, k), NEW name \in Names \cup {".", ".."}
  PROVE  Steady(m, f, add_entry(f, k, name).fs)
<1> DEFINE entries == Ino(f, k).entries
           gaps == {i \in DOMAIN entries : entries[i].nr = 0}
           at == IF gaps = {} THEN Len(entries) + 1 ELSE Min(gaps)
           entry == [name |-> name, nr |-> 0]
           g == bmap_create(f, k, (at - 1) \div BLOCK_DENTRIES)
           new == IF gaps = {} THEN Append(Ino(g, k).entries, entry)
                  ELSE [Ino(g, k).entries EXCEPT ![at] = entry]
           h == add_entry(f, k, name).fs
<1>1. h = SetField(g, k, "entries", new)
  BY DEF add_entry, SetField, With, Put, Ino
<1>2. Fs(h)
  BY add_entryQuiet, QuietFs DEF Fit
<1>3. Steady(m, f, g)
  BY bmap_createSteady
<1> HIDE DEF g, new, h
<1>4. Steady(m, g, h)
  BY <1>1, <1>2, <1>3, SteadyFit, FieldSteady
<1> QED BY <1>3, <1>4, SteadyAdd DEF h

\* An inode that no file and no device has becomes one; the blocks stay.
Taken(m, f, k, y) ==
  /\ k \in Key /\ k[1] \in f.minix /\ ("mknod" \in m => k[2] \in f.imap[k[1]])
  /\ \/ Owns(y) /\ Ino(f, k).type # "blk" /\ Blocks(y) = Blocks(Ino(f, k))
     \/ /\ y.type = "blk" /\ Ino(f, k).type = "free"
        /\ k[2] # 1 /\ k[2] \in f.imap[k[1]]

\* new_inode does not touch the blocks of an inode.
LEMMA NewSteady ==
  ASSUME NEW m, NEW f, Fit(m, f), NEW k, NEW y, Fs(Put(f, k, y)),
         f.panic = "none" => Taken(m, f, k, y)
  PROVE  Steady(m, f, Put(f, k, y))
<1> DEFINE g == Put(f, k, y)
<1>1. /\ \A d \in Dev, nr \in Nr :
           g.ino[d][nr] = IF d = k[1] /\ nr = k[2] THEN y ELSE f.ino[d][nr]
      /\ \A a \in FsFields \ {"ino"} : g[a] = f[a]
  BY PutAt DEF Fit
<1>2. Fs(g)
  OBVIOUS
<1> HIDE DEF g
<1>3. Rest(f, g) /\ g.zmap = f.zmap /\ g.panic = f.panic
  BY <1>1 DEF Rest, FsFields
<1>4. ASSUME f.panic = "none", Sound(m, f)
      PROVE  Sound(m, g) /\ \A j \in Key : Own(f, j) => Own(g, j)
  <2> DEFINE x == Ino(f, k)
  <2>1. Taken(m, f, k, y) /\ k[1] \in Dev /\ k[2] \in Nr
    BY <1>4 DEF Taken, Key
  <2>2. Has(y) = Has(x) /\ (Owns(x) => Owns(y)) /\ x.type # "blk"
    <3>1. Clean(f, k[1], k[2])
      BY <1>4, <2>1 DEF Sound
    <3>2. Owns(x) \/ (x.type = "free" /\ Blocks(x) = {})
      BY <2>1, <3>1 DEF Clean, Taken, Ino
    <3> HIDE DEF x
    <3> QED BY <2>1, <3>2 DEF Taken, Has, Owns, x
  <2>3. \A d \in Dev, nr \in Nr : /\ Has(g.ino[d][nr]) = Has(f.ino[d][nr])
                                  /\ Owns(f.ino[d][nr]) => Owns(g.ino[d][nr])
    BY <1>1, <2>2 DEF Ino
  <2>4. \A j \in Key : Own(f, j) => Own(g, j)
    BY <2>3 DEF Own, Ino, Key
  <2>5. Exact(g)
    <3> SUFFICES ASSUME NEW d \in Dev, d \in f.minix
                 PROVE  Parts(g.zmap[d], g.ino[d])
      BY <1>2, <1>3 DEF Exact, Rest, Fs
    <3>1. Parts(f.zmap[d], f.ino[d])
      BY <1>4 DEF Sound, Exact
    <3>2. \A i \in Nr : Has(g.ino[d][i]) = Has(f.ino[d][i])
      BY <2>3
    <3> QED BY <1>3, <3>1, <3>2, PartsSame
  <2>6. Rooted(g)
    <3>1. \A d \in Dev : f.sb[d].imount \in Key \cup {Null}
      BY DEF Fit, Fs, Super
    <3>2. Rooted(f)
      BY <1>4 DEF Sound
    <3> QED BY <1>3, <2>4, <3>1, <3>2 DEF Rooted, Rest
  <2>7. \A d \in Dev, nr \in Nr : Clean(g, d, nr)
    <3> SUFFICES ASSUME NEW d \in Dev, NEW nr \in Nr PROVE Clean(g, d, nr)
      OBVIOUS
    <3>1. Clean(f, d, nr)
      BY <1>4 DEF Sound
    <3>2. CASE d = k[1] /\ nr = k[2]
      <4>1. g.ino[d][nr] = y
        BY <1>1, <3>2
      <4> QED BY <1>3, <2>1, <3>2, <4>1 DEF Clean, Rest, Taken
    <3>3. CASE ~ (d = k[1] /\ nr = k[2])
      <4>1. g.ino[d][nr] = f.ino[d][nr]
        BY <1>1, <3>3
      <4> QED BY <1>3, <3>1, <4>1 DEF Clean, Rest
    <3> QED BY <3>2, <3>3
  <2>8. "mknod" \in m => Fresh(g)
    <3> SUFFICES ASSUME "mknod" \in m, NEW d \in Dev, d \in f.minix
                 PROVE  /\ 1 \in f.imap[d]
                        /\ \A nr \in Nr \ f.imap[d] : g.ino[d][nr].type = "free"
      BY <1>2, <1>3 DEF Fresh, Rest, Fs
    <3>1. 1 \in f.imap[d] /\ \A nr \in Nr \ f.imap[d] : f.ino[d][nr].type = "free"
      BY <1>4 DEF Sound, Fresh
    <3>2. k[2] \in f.imap[k[1]]
      BY <2>1 DEF Taken
    <3> QED BY <1>1, <3>1, <3>2
  <2> QED BY <1>3, <1>4, <2>4, <2>5, <2>6, <2>7, <2>8 DEF Sound, Rest
<1>5. Steady(m, f, g)
  BY <1>2, <1>3, <1>4 DEF Steady, Fit
<1> QED BY <1>5 DEF g

\* ialloc marks an inode that was not marked.
LEMMA iallocSteady ==
  ASSUME NEW m, NEW f, Fit(m, f), NEW d \in Dev
  PROVE  LET a == ialloc(f, d)
         IN  /\ Steady(m, f, a.fs) /\ a.fs.ino = f.ino /\ a.bit \in Nr
             /\ a.fs.panic = "none" => /\ a.bit \notin f.imap[d] /\ a.bit \in a.fs.imap[d]
                                       /\ a.fs.minix = f.minix
<1> DEFINE a == ialloc(f, d)
<1>1. Nr \in SUBSET Nat /\ Fs(f)
  BY SizesAssumption DEF Nr, Fit
<1>2. Quiet(f, a.fs) /\ a.fs.ino = f.ino /\ a.bit \in Nr
  BY <1>1, ScanQuiet, RootKey DEF ialloc
<1>3. CASE ~ Loaded(f, d) \/ Nr \subseteq f.imap[d]
  <2>1. a.fs \in {Panic(f, "no_super"), Panic(f, "full")}
    BY <1>3 DEF ialloc, Scan
  <2>2. a.fs.panic # "none" /\ Fs(a.fs)
    BY <1>1, <2>1, PanicSame DEF Same
  <2> HIDE DEF a
  <2> QED BY <1>2, <2>2, SteadyPanic DEF a
<1>4. CASE Loaded(f, d) /\ ~ (Nr \subseteq f.imap[d])
  <2> DEFINE bit == Min(Nr \ f.imap[d])
             bits == f.imap[d] \cup {bit}
             imap == [f.imap EXCEPT ![d] = bits]
             g == [f EXCEPT !.imap = imap]
  <2>1. a = [fs |-> g, bit |-> bit]
    BY <1>4 DEF ialloc, Scan
  <2>2. bit \in Nr /\ bit \notin f.imap[d]
    <3>1. Nr \ f.imap[d] \in SUBSET Nat /\ Nr \ f.imap[d] # {}
      BY <1>1, <1>4
    <3>2. bit \in Nr \ f.imap[d]
      BY <3>1, MinExists
    <3> QED BY <3>2
  <2>3. Fs(g) /\ \A b \in FsFields \ {"imap"} : g[b] = f[b]
    <3> HIDE DEF imap
    <3> QED BY <1>1, MapKeeps DEF Disk
  <2>4. g.imap = imap
    <3> HIDE DEF imap
    <3> QED BY <1>1 DEF Fs, IsFcn, FsFields
  <2> HIDE DEF bit, g, a
  <2>5. /\ g.ino = f.ino /\ g.zmap = f.zmap /\ g.mount = f.mount /\ g.sb = f.sb
        /\ g.minix = f.minix /\ g.panic = f.panic
    BY <2>3 DEF FsFields
  <2>6. ASSUME Sound(m, f)
        PROVE  /\ IsFcn(g.imap, Dev) /\ g.imap[d] = bits
               /\ \A b \in Dev : f.imap[b] \subseteq g.imap[b]
    <3>1. IsFcn(f.imap, Dev) /\ f.imap[d] \subseteq bits
      BY <2>6 DEF Sound
    <3> HIDE DEF bits
    <3>2. IsFcn(imap, Dev) /\ \A b \in Dev : imap[b] = IF b = d THEN bits ELSE f.imap[b]
      BY <3>1 DEF IsFcn
    <3> QED BY <2>4, <3>1, <3>2
  <2>7. ASSUME Sound(m, f)
        PROVE  Sound(m, g) /\ \A j \in Key : Own(f, j) => Own(g, j)
    <3>1. \A j : Own(f, j) <=> Own(g, j)
      BY <2>5 DEF Own, Ino
    <3>2. Exact(g)
      BY <2>5, <2>7 DEF Sound, Exact
    <3>3. Rooted(g)
      BY <2>5, <2>7, <3>1 DEF Sound, Rooted
    <3>4. \A b \in Dev, nr \in Nr : Clean(g, b, nr)
      <4>1. \A b \in Dev, nr \in Nr : Clean(f, b, nr)
        BY <2>7 DEF Sound
      <4>2. \A b \in Dev : f.imap[b] \subseteq g.imap[b]
        BY <2>6, <2>7
      <4> QED BY <2>5, <4>1, <4>2 DEF Clean
    <3>5. "mknod" \in m => Fresh(g)
      <4>1. "mknod" \in m => Fresh(f)
        BY <2>7 DEF Sound
      <4>2. \A b \in Dev : f.imap[b] \subseteq g.imap[b]
        BY <2>6, <2>7
      <4>3. f.minix \subseteq Dev
        BY <1>1 DEF Fs
      <4> QED BY <2>5, <4>1, <4>2, <4>3 DEF Fresh
    <3> QED BY <2>5, <2>6, <2>7, <3>1, <3>2, <3>3, <3>4, <3>5 DEF Sound
  <2>8. Steady(m, f, g)
    BY <2>3, <2>5, <2>7 DEF Steady, Fit
  <2>9. g.panic = "none" => bit \in g.imap[d]
    BY <2>5, <2>6 DEF Fit
  <2> QED BY <1>2, <2>1, <2>2, <2>5, <2>8, <2>9 DEF a
<1> QED BY <1>3, <1>4

\* Where a new name gets its inode: the parts of Create before new_inode.
CreateIn(f, k, name) ==
  LET e == add_entry(f, k, name)
      a == ialloc(e.fs, k[1])
  IN  iget(SetEntry(a.fs, k, e.slot, a.bit), k[1], a.bit)

\* The descriptor new_inode makes of x.
NewDesc(x, type) == [x EXCEPT !.type = type, !.nlinks = 1, !.size = 0, !.entries = << >>]

\* Create is new_inode of what CreateIn finds.
LEMMA CreateIs ==
  ASSUME NEW f, NEW k, NEW name, NEW type
  PROVE  LET g == CreateIn(f, k, name)
         IN  Create(f, k, name, type) =
               [fs |-> Put(g.fs, g.at, NewDesc(Ino(g.fs, g.at), type)), at |-> g.at]
<1> DEFINE g == CreateIn(f, k, name)
           c == Create(f, k, name, type)
<1>1. g = [fs |-> g.fs, at |-> g.at]
  BY DEF CreateIn, iget
<1>2. c = [g EXCEPT !.fs.ino[g.at[1]][g.at[2]] =
             [@ EXCEPT !.type = type, !.nlinks = 1, !.size = 0, !.entries = << >>]]
  BY DEF Create, CreateIn
<1> HIDE DEF g, c
<1>3. c = [fs |-> Put(g.fs, g.at, NewDesc(Ino(g.fs, g.at), type)), at |-> g.at]
  BY <1>1, <1>2 DEF Put, Ino, NewDesc
<1> QED BY <1>3 DEF g, c

\* The inode of a new name is no device node; where nothing is ever removed it
\* was never used.
LEMMA CreateInSteady ==
  ASSUME NEW m, NEW f, Fit(m, f), NEW k \in Key, Holder(f, k),
         NEW name \in Names \cup {".", ".."}
  PROVE  LET g == CreateIn(f, k, name)
         IN  /\ Steady(m, f, g.fs)
             /\ g.fs.panic = "none" =>
                  /\ g.at \in Key /\ g.at[1] \in g.fs.minix
                  /\ Ino(g.fs, g.at).type # "blk"
                  /\ "mknod" \in m =>
                       /\ g.at[2] # 1 /\ g.at[2] \in g.fs.imap[g.at[1]]
                       /\ Ino(g.fs, g.at).type = "free"
<1> DEFINE d == k[1]
           e == add_entry(f, k, name)
           a == ialloc(e.fs, d)
           s == SetEntry(a.fs, k, e.slot, a.bit)
           g == iget(s, d, a.bit)
<1>1. g = CreateIn(f, k, name)
  BY DEF CreateIn
<1>2. Steady(m, f, e.fs)
  BY add_entrySteady
<1> HIDE DEF e
<1>3. Fit(m, e.fs) /\ Holder(e.fs, k) /\ d \in Dev
  BY <1>2, SteadyFit DEF Key
<1>4. /\ Steady(m, e.fs, a.fs) /\ a.fs.ino = e.fs.ino /\ a.bit \in Nr
      /\ a.fs.panic = "none" => /\ a.bit \notin e.fs.imap[d] /\ a.bit \in a.fs.imap[d]
                                /\ a.fs.minix = e.fs.minix
  BY <1>3, iallocSteady
<1> HIDE DEF a
<1>5. Fit(m, a.fs) /\ a.bit \in 0 .. NInode
  BY <1>4, SteadyFit DEF Nr
<1>6. Steady(m, a.fs, s)
  BY <1>5, SetEntrySteady
<1>7. /\ s.imap = a.fs.imap /\ s.minix = a.fs.minix /\ s.panic = a.fs.panic
      /\ \A b \in Dev, nr \in Nr : s.ino[b][nr].type = a.fs.ino[b][nr].type
  <2> DEFINE new == [Ino(a.fs, k).entries EXCEPT ![e.slot].nr = a.bit]
             y == With(Ino(a.fs, k), "entries", new)
  <2>1. s = Put(a.fs, k, y)
    BY DEF SetEntry, With, Put, Ino
  <2>2. IsDesc(Ino(a.fs, k)) /\ Fs(a.fs)
    BY <1>5, InoDesc DEF Fit, Place, Key
  <2> HIDE DEF new
  <2>3. y.type = Ino(a.fs, k).type
    <3> DEFINE x == Ino(a.fs, k)
    <3> HIDE DEF x
    <3>1. IsFcn(x, DescFields)
      BY <2>2 DEF IsDesc, x
    <3> QED BY <3>1 DEF With, IsFcn, DescFields, x
  <2> HIDE DEF y, s
  <2>4. /\ \A b \in Dev, nr \in Nr :
             s.ino[b][nr] = IF b = k[1] /\ nr = k[2] THEN y ELSE a.fs.ino[b][nr]
        /\ \A b \in FsFields \ {"ino"} : s[b] = a.fs[b]
    BY <2>1, <2>2, PutAt
  <2> QED BY <2>3, <2>4 DEF FsFields, Ino
<1> HIDE DEF s
<1>8. Fit(m, s) /\ Fs(s)
  BY <1>6, SteadyFit
<1>9. /\ Same(s, g.fs)
      /\ g.fs.panic = "none" /\ Sound(m, s) =>
           /\ g.at \in Key
           /\ \/ g.at = <<d, a.bit>>
              \/ /\ Own(s, <<d, a.bit>>)
                 /\ g.at[2] = 1 /\ g.at[1] \in s.minix
  BY <1>3, <1>4, <1>8, igetSame
<1> HIDE DEF g
<1>10. Steady(m, s, g.fs)
  BY <1>8, <1>9, SameSteady
<1>11. Steady(m, f, g.fs)
  BY <1>2, <1>4, <1>6, <1>10, SteadyAdd
<1>12. ASSUME g.fs.panic = "none"
       PROVE  /\ g.at \in Key /\ g.at[1] \in g.fs.minix
              /\ Ino(g.fs, g.at).type # "blk"
              /\ "mknod" \in m =>
                   /\ g.at[2] # 1 /\ g.at[2] \in g.fs.imap[g.at[1]]
                   /\ Ino(g.fs, g.at).type = "free"
  <2>1. s.panic = "none" /\ a.fs.panic = "none" /\ e.fs.panic = "none"
    BY <1>4, <1>7, <1>9, <1>12 DEF Same, Steady
  <2>2. Sound(m, e.fs) /\ Sound(m, s)
    BY <1>3, <1>8, <2>1 DEF Fit
  <2>3. d \in e.fs.minix
    <3>1. Clean(e.fs, d, k[2]) /\ Owns(e.fs.ino[d][k[2]])
      BY <1>3, <2>1, <2>2 DEF Sound, Own, Ino, Holder, Key
    <3> QED BY <3>1 DEF Clean, Owns
  <2>4. /\ e.fs.ino[d][a.bit].type # "blk"
        /\ "mknod" \in m => e.fs.ino[d][a.bit].type = "free" /\ a.bit # 1
    <3>1. Clean(e.fs, d, a.bit) /\ ("mknod" \in m => Fresh(e.fs))
      BY <1>3, <1>4, <2>2 DEF Sound
    <3>2. a.bit \notin e.fs.imap[d] /\ a.bit \in Nr
      BY <1>4, <2>1
    <3> QED BY <2>3, <3>1, <3>2 DEF Clean, Fresh, Owns
  <2>5. s.ino[d][a.bit].type = e.fs.ino[d][a.bit].type
    BY <1>3, <1>4, <1>7
  <2>6. /\ g.fs.ino = s.ino /\ g.fs.imap = s.imap /\ g.fs.minix = s.minix
        /\ s.minix = e.fs.minix /\ a.bit \in s.imap[d]
    BY <1>4, <1>7, <1>9, <2>1 DEF Same
  <2>7. CASE g.at = <<d, a.bit>>
    <3>1. g.at[1] = d /\ g.at[2] = a.bit
      BY <2>7
    <3> QED BY <1>9, <1>12, <2>2, <2>3, <2>4, <2>5, <2>6, <3>1 DEF Ino
  <2>8. CASE /\ Own(s, <<d, a.bit>>) /\ g.at[2] = 1 /\ g.at[1] \in s.minix
             /\ g.at # <<d, a.bit>>
    <3>1. "mknod" \notin m
      <4>1. s.ino[d][a.bit].type # "free"
        BY <2>8 DEF Own, Owns, Ino
      <4> QED BY <2>4, <2>5, <4>1
    <3>2. g.at \in Key /\ g.at[1] \in Dev
      BY <1>9, <1>12, <2>2 DEF Key
    <3>3. Clean(s, g.at[1], 1)
      BY <2>2, <3>2, RootKey DEF Sound
    <3>4. s.ino[g.at[1]][1].type # "blk"
      BY <3>3 DEF Clean, Owns
    <3> QED BY <2>6, <2>8, <3>1, <3>2, <3>4 DEF Ino
  <2> QED BY <1>9, <1>12, <2>2, <2>7, <2>8
<1> QED BY <1>1, <1>11, <1>12

\* What new_inode makes of a descriptor.
LEMMA NewDescIs ==
  ASSUME NEW x, IsDesc(x), NEW type
  PROVE  LET y == NewDesc(x, type)
         IN  IsDesc(y) /\ y.type = type /\ Blocks(y) = Blocks(x)
<1> DEFINE y == NewDesc(x, type)
<1>1. /\ IsFcn(y, DescFields) /\ y.type = type /\ y.entries = << >>
      /\ y.zone = x.zone /\ y.index = x.index /\ y.far = x.far
  BY DEF NewDesc, IsDesc, IsFcn, DescFields
<1> HIDE DEF y
<1>2. << >> \in Seq(Entry)
  OBVIOUS
<1> QED BY <1>1, <1>2 DEF IsDesc, Blocks, y

\* A new file or directory; a device node where nothing is ever removed.
LEMMA CreateSteady ==
  ASSUME NEW m, NEW f, Fit(m, f), NEW k \in Key, Holder(f, k),
         NEW name \in Names \cup {".", ".."}, NEW type \in {"file", "dir", "blk"},
         type = "blk" => "mknod" \in m
  PROVE  LET c == Create(f, k, name, type)
         IN  /\ Steady(m, f, c.fs)
             /\ c.fs.panic = "none" => c.at \in Key /\ Ino(c.fs, c.at).type = type
<1> DEFINE g == CreateIn(f, k, name)
           y == NewDesc(Ino(g.fs, g.at), type)
           h == Put(g.fs, g.at, y)
<1>1. Create(f, k, name, type) = [fs |-> h, at |-> g.at]
  BY CreateIs
<1>2. /\ Steady(m, f, g.fs)
      /\ g.fs.panic = "none" =>
           /\ g.at \in Key /\ g.at[1] \in g.fs.minix
           /\ Ino(g.fs, g.at).type # "blk"
           /\ "mknod" \in m =>
                /\ g.at[2] # 1 /\ g.at[2] \in g.fs.imap[g.at[1]]
                /\ Ino(g.fs, g.at).type = "free"
  BY CreateInSteady
<1> HIDE DEF g
<1>3. Fit(m, g.fs) /\ Fs(g.fs)
  BY <1>2, SteadyFit
<1>4. Place(g.at) => IsDesc(y) /\ y.type = type /\ Blocks(y) = Blocks(Ino(g.fs, g.at))
  BY <1>3, InoDesc, NewDescIs
<1> HIDE DEF y
<1>5. /\ Disk(g.fs, h)
      /\ \A d \in Dev, nr \in Nr :
           h.ino[d][nr] = IF d = g.at[1] /\ nr = g.at[2] THEN y ELSE g.fs.ino[d][nr]
  BY <1>3, <1>4, PutKeeps
<1>6. g.fs.panic = "none" => Place(g.at)
  BY <1>2 DEF Place, Key
<1>7. g.fs.panic = "none" => Taken(m, g.fs, g.at, y)
  BY <1>2, <1>4, <1>6 DEF Taken, Owns
<1>8. Steady(m, g.fs, h)
  BY <1>3, <1>5, <1>7, NewSteady DEF Disk
<1>9. h.panic = "none" => g.at \in Key /\ Ino(h, g.at).type = type
  <2>1. h.panic = "none" => g.fs.panic = "none"
    BY <1>5 DEF Disk
  <2> HIDE DEF h
  <2> QED BY <1>2, <1>4, <1>5, <1>6, <2>1 DEF Place, Ino
<1> HIDE DEF h
<1>10. Steady(m, f, h)
  BY <1>2, <1>8, SteadyAdd
<1> QED BY <1>1, <1>9, <1>10

-----------------------------------------------------------------------------
(* The calls on names. *)

\* Where a walk ended there is something that holds blocks.
LEMMA LeadsHolder ==
  ASSUME NEW m, NEW f, Fit(m, f), NEW w, Leads(m, f, w)
  PROVE  /\ Same(f, w.fs) /\ Steady(m, f, w.fs) /\ Fit(m, w.fs) /\ Fs(w.fs)
         /\ w.at # Null => w.at \in Key /\ Holder(w.fs, w.at)
<1>1. Same(f, w.fs) /\ w.at \in Key \cup {Null}
  BY DEF Leads
<1>2. Steady(m, f, w.fs)
  BY <1>1, SameSteady
<1>3. Own(w.fs, w.at) <=> Own(f, w.at)
  BY <1>1, SameSound
<1> QED BY <1>1, <1>2, <1>3, SteadyFit DEF Leads, Holder, Fit, Same

\* A walk ends where another may begin.
LEMMA GroundedSame ==
  ASSUME NEW f, NEW g, Same(f, g), NEW t, Grounded(f, t)
  PROVE  Grounded(g, t)
BY SameSound DEF Grounded

\* An inode is written that keeps its type and its blocks.
LEMMA PutLike ==
  ASSUME NEW m, NEW f, Fit(m, f), NEW k, NEW y,
         Place(k) => /\ IsDesc(y) /\ y.type = Ino(f, k).type
                     /\ Blocks(y) = Blocks(Ino(f, k))
  PROVE  Steady(m, f, Put(f, k, y))
<1> DEFINE g == Put(f, k, y)
<1>1. /\ Disk(f, g)
      /\ \A d \in Dev, nr \in Nr :
           g.ino[d][nr] = IF d = k[1] /\ nr = k[2] THEN y ELSE f.ino[d][nr]
      /\ \A a \in FsFields \ {"ino"} : g[a] = f[a]
  BY PutKeeps DEF Fit
<1> HIDE DEF g
<1>2. Rest(f, g) /\ g.zmap = f.zmap /\ Fs(g)
  BY <1>1 DEF Rest, FsFields, Disk
<1>3. \A d \in Dev, nr \in Nr :
        /\ g.ino[d][nr].type = f.ino[d][nr].type
        /\ \/ f.ino[d][nr].type = "blk"
           \/ Blocks(g.ino[d][nr]) = Blocks(f.ino[d][nr])
  BY <1>1 DEF Place, Ino
<1>4. Steady(m, f, g)
  BY <1>2, <1>3, LikeSteady
<1> QED BY <1>4 DEF g

\* A write to a field other than the type leaves the types.
LEMMA FieldTypes ==
  ASSUME NEW f, Fs(f), NEW k, NEW a, a # "type", NEW v, NEW j \in Key
  PROVE  Ino(SetField(f, k, a, v), j).type = Ino(f, j).type
<1> DEFINE y == With(Ino(f, k), a, v)
           g == SetField(f, k, a, v)
<1>1. Place(k) => y.type = Ino(f, k).type
  <2> DEFINE x == Ino(f, k)
  <2>1. Place(k) => IsFcn(x, DescFields)
    BY InoDesc DEF IsDesc
  <2> HIDE DEF x
  <2> QED BY <2>1 DEF With, IsFcn, DescFields, x
<1> HIDE DEF y
<1>2. \A d \in Dev, nr \in Nr :
        g.ino[d][nr] = IF d = k[1] /\ nr = k[2] THEN y ELSE f.ino[d][nr]
  BY PutAt DEF SetField, y
<1> HIDE DEF g
<1>3. Ino(g, j).type = Ino(f, j).type
  BY <1>1, <1>2 DEF Ino, Place, Key
<1> QED BY <1>3 DEF g

\* mkdir gives the new directory a block that was free.
LEMMA MkdirSteady ==
  ASSUME NEW m, Fit(m, fs), NEW t, Grounded(fs, t), NEW path, IsPath(path),
         Mkdir(t, path)
  PROVE  Steady(m, fs, fs')
<1> DEFINE w == Absent(fs, t, path)
           c == Create(w.fs, w.at, Last(path.names), "dir")
           new == <<w.at[1], c.at[2]>>
           y == [Ino(c.fs, new) EXCEPT !.nlinks = 2,
                                       !.entries = Dots(c.at[2], w.at[2])]
           h == Put(c.fs, new, y)
           i == Links(h, w.at, Ino(h, w.at).nlinks + 1)
           b == bmap_create(i, c.at, 0)
           raw == [c.fs EXCEPT !.ino[w.at[1]][c.at[2]] =
                     [@ EXCEPT !.nlinks = 2, !.entries = Dots(c.at[2], w.at[2])]]
<1>0. raw = h
  <2> HIDE DEF c, w
  <2>1. new[1] = w.at[1] /\ new[2] = c.at[2]
    OBVIOUS
  <2>2. y = [c.fs.ino[w.at[1]][c.at[2]] EXCEPT !.nlinks = 2,
                                       !.entries = Dots(c.at[2], w.at[2])]
    BY <2>1 DEF Ino
  <2> HIDE DEF y, new
  <2>3. h = [c.fs EXCEPT !.ino[w.at[1]][c.at[2]] = y]
    BY <2>1 DEF Put
  <2> QED BY <2>2, <2>3
<1>1. fs' = IF w.at = Null THEN w.fs ELSE iput(iput(b, c.at), w.at)
  <2>1. fs' = IF w.at = Null THEN w.fs
              ELSE iput(iput(bmap_create(Links(raw, w.at, Ino(raw, w.at).nlinks + 1),
                                         c.at, 0), c.at), w.at)
    BY DEF Mkdir
  <2> HIDE DEF raw, h, c, w
  <2> QED BY <1>0, <2>1
<1>2. Leads(m, fs, w) /\ (w.at # Null => path.names # << >>)
  BY AbsentLeads DEF Fit
<1> HIDE DEF w
<1>3. /\ Steady(m, fs, w.fs) /\ Fit(m, w.fs)
      /\ w.at # Null => w.at \in Key /\ Holder(w.fs, w.at)
  BY <1>2, LeadsHolder
<1>4. CASE w.at = Null
  BY <1>1, <1>3, <1>4
<1>5. CASE w.at # Null
  <2>1. w.at \in Key /\ w.at[1] \in Dev /\ w.at[2] \in Nr
    BY <1>3, <1>5 DEF Key
  <2>2. /\ Steady(m, w.fs, c.fs)
        /\ c.fs.panic = "none" => c.at \in Key /\ Ino(c.fs, c.at).type = "dir"
    <3>1. Last(path.names) \in Names \cup {".", ".."}
      BY <1>2, <1>5, LastName
    <3> QED BY <1>3, <1>5, <3>1, CreateSteady
  <2> HIDE DEF c
  <2>3. Fs(c.fs) /\ Fit(m, c.fs) /\ Holder(c.fs, c.at)
    BY <2>2, SteadyFit DEF Holder, Own, Owns
  <2>4. Place(new) => Dots(c.at[2], w.at[2]) \in Seq(Entry)
    <3> SUFFICES ASSUME Place(new) PROVE Dots(c.at[2], w.at[2]) \in Seq(Entry)
      OBVIOUS
    <3>1. c.at[2] \in 0 .. NInode /\ w.at[2] \in 0 .. NInode
      BY <2>1 DEF Place, Nr
    <3>2. /\ [name |-> ".", nr |-> c.at[2]] \in Entry
          /\ [name |-> "..", nr |-> w.at[2]] \in Entry
      BY <3>1 DEF Entry
    <3> QED BY <3>2 DEF Dots
  <2> HIDE DEF new
  <2>5. Place(new) => /\ IsDesc(y) /\ y.type = Ino(c.fs, new).type
                      /\ Blocks(y) = Blocks(Ino(c.fs, new))
    <3> DEFINE x == Ino(c.fs, new)
    <3> SUFFICES ASSUME Place(new)
                 PROVE  IsDesc(y) /\ y.type = x.type /\ Blocks(y) = Blocks(x)
      OBVIOUS
    <3>1. IsDesc(x)
      BY <2>3, InoDesc
    <3> HIDE DEF x
    <3>2. /\ IsFcn(y, DescFields) /\ y.entries = Dots(c.at[2], w.at[2])
          /\ y.type = x.type /\ y.zone = x.zone /\ y.index = x.index /\ y.far = x.far
      BY <3>1 DEF x, IsDesc, IsFcn, DescFields
    <3> HIDE DEF y
    <3> QED BY <2>4, <3>1, <3>2 DEF IsDesc, Blocks
  <2> HIDE DEF y
  <2>6. Steady(m, c.fs, h)
    BY <2>3, <2>5, PutLike
  <2> HIDE DEF h
  <2>7. Steady(m, h, i)
    BY <2>6, SteadyFit, LinksSteady
  <2> HIDE DEF i
  <2>8. Fit(m, i) /\ Holder(i, c.at)
    BY <2>3, <2>6, <2>7, SteadyFit
  <2>9. Steady(m, i, b)
    BY <2>8, bmap_createSteady
  <2> HIDE DEF b
  <2>10. Steady(m, fs, b)
    BY <1>3, <2>2, <2>6, <2>7, <2>9, SteadyAdd
  <2> QED BY <1>1, <1>5, <2>10, iputTwice
<1> QED BY <1>4, <1>5

\* rmdir frees the blocks of the directory and its inode.
LEMMA RmdirSteady ==
  ASSUME NEW m, "mknod" \notin m, Fit(m, fs), NEW t, Grounded(fs, t),
         NEW path, IsPath(path), Rmdir(t, path)
  PROVE  Steady(m, fs, fs')
<1> DEFINE w == named(fs, t, path)
           p == Present(fs, t, path)
           r == RemoveDir(p)
<1>1. \/ fs' = iput(w.fs, w.at)
      \/ p.at = Null /\ fs' = p.fs
      \/ p.at # Null /\ fs' = iput(iput(p.fs, p.at), p.dir)
      \/ /\ p.at # Null /\ Ino(p.fs, p.at).type = "dir"
         /\ fs' = iput(iput(r, p.at), p.dir)
  BY DEF Rmdir
<1>2. CASE fs' = iput(w.fs, w.at)
  <2>1. Leads(m, fs, w)
    BY namedLeads DEF Fit
  <2> HIDE DEF w
  <2> QED BY <1>2, <2>1, LeadsHolder, iputTwice
<1>3. Same(fs, p.fs) /\ (p.at # Null => p.at \in Key /\ p.dir \in Key)
  BY PresentSame DEF Fit
<1> HIDE DEF p
<1>4. Steady(m, fs, p.fs) /\ Fit(m, p.fs)
  BY <1>3, SameSteady, SteadyFit
<1>5. CASE p.at = Null /\ fs' = p.fs
  BY <1>4, <1>5
<1>6. CASE p.at # Null /\ fs' = iput(iput(p.fs, p.at), p.dir)
  BY <1>4, <1>6, iputTwice
<1>7. CASE /\ p.at # Null /\ Ino(p.fs, p.at).type = "dir"
           /\ fs' = iput(iput(r, p.at), p.dir)
  <2> DEFINE a == inode_truncate(p.fs, p.at)
             b == ifree(a, p.at)
             freed == Links(b, p.at, 0)
             rest == Ino(p.fs, p.dir).nlinks - 1
             ok == Ino(p.fs, p.at).nlinks = 2 /\ rest > 0
             d == Check(freed, ok, "links")
             e == Links(d, p.dir, rest)
  <2>1. r = SetEntry(e, p.dir, p.slot, 0)
    BY DEF RemoveDir
  <2>2. p.at \in Key /\ Holder(p.fs, p.at)
    BY <1>3, <1>7 DEF Holder, Own, Owns
  <2>3. Steady(m, p.fs, a)
    BY <1>4, <2>2, inode_truncateSteady
  <2> HIDE DEF a
  <2>4. Fit(m, a) /\ Holder(a, p.at)
    BY <2>2, <2>3, SteadyFit
  <2>5. Steady(m, a, b)
    BY <2>2, <2>4, ifreeSteady DEF Holder, Own, Owns
  <2> HIDE DEF b
  <2>6. Steady(m, b, freed)
    BY <2>5, SteadyFit, LinksSteady
  <2> HIDE DEF freed, rest, ok
  <2>7. Steady(m, freed, d)
    BY <2>6, SteadyFit, CheckSame, SameSteady
  <2> HIDE DEF d
  <2>8. Steady(m, d, e)
    BY <2>7, SteadyFit, LinksSteady
  <2> HIDE DEF e
  <2>9. 0 \in 0 .. NInode
    BY SizesAssumption
  <2>10. Steady(m, e, r)
    BY <2>1, <2>8, <2>9, SteadyFit, SetEntrySteady
  <2> HIDE DEF r
  <2>11. Steady(m, fs, r)
    BY <1>4, <2>3, <2>5, <2>6, <2>7, <2>8, <2>10, SteadyAdd
  <2> QED BY <1>7, <2>11, iputTwice
<1> QED BY <1>1, <1>2, <1>5, <1>6, <1>7

\* link writes an entry, in a new block where it needs one.
LEMMA LinkSteady ==
  ASSUME NEW m, Fit(m, fs), NEW t, Grounded(fs, t), NEW old, IsPath(old),
         NEW new, IsPath(new), Link(t, old, new)
  PROVE  Steady(m, fs, fs')
<1> DEFINE n == namei(fs, t, old)
           k == n.at
           w == Absent(n.fs, t, new)
           e == add_entry(w.fs, w.at, Last(new.names))
           s == SetEntry(e.fs, w.at, e.slot, k[2])
           made == Links(s, k, Ino(e.fs, k).nlinks + 1)
<1>1. \/ k = Null /\ fs' = n.fs
      \/ k # Null /\ fs' = iput(n.fs, k)
      \/ k # Null /\ w.at = Null /\ fs' = iput(w.fs, k)
      \/ k # Null /\ w.at # Null /\ fs' = iput(iput(w.fs, w.at), k)
      \/ k # Null /\ w.at # Null /\ fs' = iput(iput(made, w.at), k)
  BY DEF Link
<1>2. Same(fs, n.fs) /\ n.at \in Key \cup {Null}
  BY nameiSame DEF Fit
<1> HIDE DEF n
<1>3. Steady(m, fs, n.fs) /\ Fit(m, n.fs) /\ Fs(n.fs) /\ Grounded(n.fs, t)
  BY <1>2, SameSteady, SteadyFit, GroundedSame
<1>4. Leads(m, n.fs, w) /\ (w.at # Null => new.names # << >>)
  BY <1>3, AbsentLeads
<1> HIDE DEF w
<1>5. /\ Steady(m, n.fs, w.fs) /\ Fit(m, w.fs)
      /\ w.at # Null => w.at \in Key /\ Holder(w.fs, w.at)
  BY <1>3, <1>4, LeadsHolder
<1>6. Steady(m, fs, w.fs)
  BY <1>3, <1>5, SteadyAdd
<1>7. CASE k = Null /\ fs' = n.fs
  BY <1>3, <1>7
<1>8. CASE k # Null /\ fs' = iput(n.fs, k)
  BY <1>3, <1>8, iputTwice
<1>9. CASE k # Null /\ w.at = Null /\ fs' = iput(w.fs, k)
  BY <1>6, <1>9, iputTwice
<1>10. CASE k # Null /\ w.at # Null /\ fs' = iput(iput(w.fs, w.at), k)
  BY <1>6, <1>10, iputTwice
<1>11. CASE k # Null /\ w.at # Null /\ fs' = iput(iput(made, w.at), k)
  <2>1. Last(new.names) \in Names \cup {".", ".."}
    BY <1>4, <1>11, LastName
  <2>2. Steady(m, w.fs, e.fs)
    BY <1>5, <1>11, <2>1, add_entrySteady
  <2> HIDE DEF e
  <2>3. k[2] \in 0 .. NInode /\ Fit(m, e.fs)
    BY <1>2, <1>11, <2>2, SteadyFit DEF Key, Nr
  <2>4. Steady(m, e.fs, s)
    BY <2>3, SetEntrySteady
  <2> HIDE DEF s
  <2>5. Steady(m, s, made)
    BY <2>4, SteadyFit, LinksSteady
  <2> HIDE DEF made
  <2>6. Steady(m, fs, made)
    BY <1>6, <2>2, <2>4, <2>5, SteadyAdd
  <2> QED BY <1>11, <2>6, iputTwice
<1> QED BY <1>1, <1>7, <1>8, <1>9, <1>10, <1>11

\* unlink frees, with the last link, the blocks of a file and its inode.
LEMMA UnlinkSteady ==
  ASSUME NEW m, "mknod" \notin m, Fit(m, fs), NEW t, Grounded(fs, t),
         NEW path, IsPath(path), Unlink(t, path), "node_unlink" \notin prog.risks
  PROVE  Steady(m, fs, fs')
<1> DEFINE p == Present(fs, t, path)
           n == Ino(p.fs, p.at).nlinks
           c == Check(p.fs, n > 0, "links")
           s == SetEntry(c, p.dir, p.slot, 0)
           less == Links(s, p.at, n - 1)
           cut == inode_truncate(less, p.at)
           drop == ifree(cut, p.at)
<1>1. \/ p.at = Null /\ fs' = p.fs
      \/ /\ p.at # Null /\ Ino(p.fs, p.at).type # "blk"
         /\ \E g \in {p.fs, less, drop} : fs' = iput(iput(g, p.at), p.dir)
  BY DEF Unlink
<1>2. Same(fs, p.fs) /\ (p.at # Null => p.at \in Key /\ p.dir \in Key)
  BY PresentSame DEF Fit
<1> HIDE DEF p
<1>3. Steady(m, fs, p.fs) /\ Fit(m, p.fs) /\ Fs(p.fs)
  BY <1>2, SameSteady, SteadyFit
<1>4. CASE p.at = Null /\ fs' = p.fs
  BY <1>3, <1>4
<1>5. CASE /\ p.at # Null /\ Ino(p.fs, p.at).type # "blk"
           /\ \E g \in {p.fs, less, drop} : fs' = iput(iput(g, p.at), p.dir)
  <2>1. p.at \in Key /\ 0 \in 0 .. NInode
    BY <1>2, <1>5, SizesAssumption
  <2>2. Same(p.fs, c)
    BY <1>3, CheckSame
  <2> HIDE DEF c
  <2>3. Steady(m, p.fs, c) /\ Fit(m, c) /\ Fs(c)
    BY <1>3, <2>2, SameSteady, SteadyFit
  <2>4. Ino(c, p.at).type # "blk"
    BY <1>5, <2>2, SameSound
  <2>5. Ino(s, p.at).type # "blk"
    <3> DEFINE new == [Ino(c, p.dir).entries EXCEPT ![p.slot].nr = 0]
    <3>1. s = SetField(c, p.dir, "entries", new)
      BY DEF SetEntry, SetField, With, Put, Ino
    <3> HIDE DEF s, new
    <3> QED BY <2>1, <2>3, <2>4, <3>1, FieldTypes
  <2>6. Steady(m, c, s)
    BY <2>1, <2>3, SetEntrySteady
  <2> HIDE DEF s
  <2>7. Fit(m, s) /\ Fs(s)
    BY <2>6, SteadyFit
  <2>8. Ino(less, p.at).type # "blk"
    <3>1. less = SetField(s, p.at, "nlinks", n - 1)
      BY DEF Links, SetField, With, Put, Ino
    <3> HIDE DEF less
    <3> QED BY <2>1, <2>5, <2>7, <3>1, FieldTypes
  <2>9. Steady(m, s, less)
    BY <2>7, LinksSteady
  <2> HIDE DEF less
  <2>10. Fit(m, less)
    BY <2>9, SteadyFit
  <2>11. Steady(m, less, cut)
    BY <2>1, <2>10, inode_truncateSteady
  <2>12. cut.panic = "none" => Ino(cut, p.at).type # "blk"
    <3>1. CASE Own(less, p.at)
      <4> HIDE DEF cut
      <4>1. cut.panic = "none" => Own(cut, p.at)
        BY <2>1, <2>11, <3>1 DEF Steady
      <4> QED BY <4>1 DEF Own, Owns
    <3>2. CASE ~ Own(less, p.at)
      <4>1. cut = less
        BY <3>2 DEF inode_truncate, Own, Owns
      <4> QED BY <2>8, <4>1
    <3> QED BY <3>1, <3>2
  <2> HIDE DEF cut
  <2>13. Steady(m, cut, drop)
    BY <2>1, <2>11, <2>12, SteadyFit, ifreeSteady
  <2> HIDE DEF drop
  <2>14. Steady(m, fs, less) /\ Steady(m, fs, drop)
    BY <1>3, <2>3, <2>6, <2>9, <2>11, <2>13, SteadyAdd
  <2>15. PICK g \in {p.fs, less, drop} : fs' = iput(iput(g, p.at), p.dir)
    BY <1>5
  <2>16. Steady(m, fs, g)
    BY <1>3, <2>14, <2>15
  <2> QED BY <2>15, <2>16, iputTwice
<1> QED BY <1>1, <1>4, <1>5

\* mknod writes a device number where, as nothing is ever removed, no block was.
LEMMA MknodSteady ==
  ASSUME NEW m, "mknod" \in m, Fit(m, fs), NEW t, Grounded(fs, t),
         NEW path, IsPath(path), NEW d \in Dev, Mknod(t, path, d)
  PROVE  Steady(m, fs, fs')
<1> DEFINE w == Absent(fs, t, path)
           c == Create(w.fs, w.at, Last(path.names), "blk")
           g == SetField(c.fs, c.at, "zone", d)
<1>1. fs' = IF w.at = Null THEN w.fs ELSE iput(iput(g, c.at), w.at)
  BY DEF Mknod, SetField, With, Put, Ino
<1>2. Leads(m, fs, w) /\ (w.at # Null => path.names # << >>)
  BY AbsentLeads DEF Fit
<1> HIDE DEF w
<1>3. /\ Steady(m, fs, w.fs) /\ Fit(m, w.fs) /\ Fs(w.fs)
      /\ w.at # Null => w.at \in Key /\ Holder(w.fs, w.at)
  BY <1>2, LeadsHolder
<1>4. CASE w.at = Null
  BY <1>1, <1>3, <1>4
<1>5. CASE w.at # Null
  <2>1. w.at \in Key /\ Last(path.names) \in Names \cup {".", ".."}
    BY <1>2, <1>3, <1>5, LastName
  <2>2. /\ Steady(m, w.fs, c.fs)
        /\ c.fs.panic = "none" => c.at \in Key /\ Ino(c.fs, c.at).type = "blk"
    <3> DEFINE name == Last(path.names)
               f == w.fs
               k == w.at
    <3>1. Fit(m, f) /\ k \in Key /\ Holder(f, k) /\ name \in Names \cup {".", ".."}
      BY <1>3, <1>5, <2>1
    <3>2. PICK type \in {"file", "dir", "blk"} : type = "blk"
      OBVIOUS
    <3>3. type = "blk" => "mknod" \in m
      OBVIOUS
    <3> HIDE DEF name, f, k
    <3>4. /\ Steady(m, f, Create(f, k, name, type).fs)
          /\ Create(f, k, name, type).fs.panic = "none" =>
               /\ Create(f, k, name, type).at \in Key
               /\ Ino(Create(f, k, name, type).fs, Create(f, k, name, type).at).type = type
      BY <3>1, <3>2, <3>3, CreateSteady
    <3> QED BY <3>2, <3>4 DEF name, f, k
  <2>3. Fs(g)
    <3>1. Moves(Root, w.fs, g, One(Root, c.at))
      BY <1>3, <2>1, RootKey, CreateGives
    <3> HIDE DEF g, c
    <3> QED BY <3>1, MovesFs
  <2> HIDE DEF c
  <2>4. Steady(m, c.fs, g)
    BY <2>2, <2>3, SteadyFit, FieldSteady
  <2> HIDE DEF g
  <2>5. Steady(m, fs, g)
    BY <1>3, <2>2, <2>4, SteadyAdd
  <2> QED BY <1>1, <1>5, <2>5, iputTwice
<1> QED BY <1>4, <1>5

\* A path is looked up and what was found given back.
LEMMA StatSteady ==
  ASSUME NEW m, Fit(m, fs), NEW t, Grounded(fs, t), NEW path, IsPath(path),
         Stat(t, path)
  PROVE  Steady(m, fs, fs')
<1> DEFINE n == namei(fs, t, path)
<1>1. fs' = iput(n.fs, n.at)
  BY DEF Stat
<1>2. Same(fs, n.fs)
  BY nameiSame DEF Fit
<1> HIDE DEF n
<1> QED BY <1>1, <1>2, SameSteady, iputTwice

-----------------------------------------------------------------------------
(* The calls on open files and on processes. *)

\* The end of inode_open: a truncation, and the directory is given back.
LEMMA MakeupSteady ==
  ASSUME NEW m, NEW f, NEW x, Steady(m, f, x.fs), x.fs.panic = "none" => x.at \in Key,
         NEW dir, NEW trunc
  PROVE  Steady(m, f, iput(IF trunc THEN inode_truncate(x.fs, x.at) ELSE x.fs, dir))
<1>1. Fit(m, x.fs)
  BY SteadyFit
<1>2. Steady(m, x.fs, inode_truncate(x.fs, x.at))
  BY <1>1, inode_truncateSteady
<1>3. Steady(m, f, inode_truncate(x.fs, x.at))
  BY <1>2, SteadyAdd
<1> QED BY <1>3, iputTwice

\* inode_open may make a file, or take the blocks of one away.
LEMMA inode_openSteady ==
  ASSUME NEW m, NEW f, Fit(m, f), NEW t, Grounded(f, t), NEW path, IsPath(path),
         NEW creat, NEW trunc, NEW write
  PROVE  Steady(m, f, inode_open(f, t, path, creat, trunc, write).fs)
<1> DEFINE o == inode_open(f, t, path, creat, trunc, write)
           w == named(f, t, path)
           e == LastEntry(w, path)
           g == iget(e.fs, e.at[1], e.nr)
           c == Create(e.fs, e.at, Last(path.names), "file")
           Up(x) == iput(IF trunc THEN inode_truncate(x.fs, x.at) ELSE x.fs, e.at)
<1> SUFFICES Steady(m, f, o.fs)
  OBVIOUS
<1>1. \/ o.fs = f
      \/ o.fs = w.fs
      \/ /\ w.at # Null /\ path.names # << >>
         /\ \/ e.slot # 0 /\ o.fs = iput(iput(g.fs, g.at), e.at)
            \/ e.slot # 0 /\ o.fs = Up(g)
            \/ o.fs = Up(c)
            \/ o.fs = iput(e.fs, e.at)
  BY DEF inode_open
<1>2. Leads(m, f, w)
  BY namedLeads DEF Fit
<1> HIDE DEF w, o
<1>3. /\ Steady(m, f, w.fs) /\ Fit(m, w.fs) /\ Fs(w.fs)
      /\ w.at # Null => w.at \in Key /\ Holder(w.fs, w.at)
  BY <1>2, LeadsHolder
<1>4. CASE o.fs = f
  BY <1>4, SteadySelf
<1>5. CASE o.fs = w.fs
  BY <1>3, <1>5
<1>6. CASE /\ w.at # Null /\ path.names # << >>
           /\ \/ e.slot # 0 /\ o.fs = iput(iput(g.fs, g.at), e.at)
              \/ e.slot # 0 /\ o.fs = Up(g)
              \/ o.fs = Up(c)
              \/ o.fs = iput(e.fs, e.at)
  <2>1. w.at \in Key /\ Holder(w.fs, w.at)
    BY <1>3, <1>6
  <2>2. /\ Same(w.fs, e.fs) /\ e.at \in Key /\ (e.slot # 0 => e.nr \in Nr)
        /\ e.fs.panic = "none" /\ Sound(m, w.fs) /\ Own(w.fs, w.at) => Own(w.fs, e.at)
    BY <1>3, <2>1, find_entrySame DEF LastEntry
  <2> HIDE DEF e
  <2>3. Steady(m, w.fs, e.fs)
    BY <1>3, <2>2, SameSteady
  <2>4. Steady(m, f, e.fs) /\ Fit(m, e.fs) /\ Fs(e.fs)
    BY <1>3, <2>3, SteadyAdd, SteadyFit
  <2>5. Holder(e.fs, e.at)
    <3>1. Own(e.fs, e.at) <=> Own(w.fs, e.at)
      BY <2>2, SameSound
    <3> QED BY <1>3, <2>1, <2>2, <3>1 DEF Holder, Same, Fit
  <2>6. ASSUME e.slot # 0
        PROVE  Steady(m, f, g.fs) /\ (g.fs.panic = "none" => g.at \in Key)
    <3>1. e.at[1] \in Dev /\ e.nr \in Nr
      BY <2>2, <2>6 DEF Key
    <3>2. /\ Same(e.fs, g.fs)
          /\ g.fs.panic = "none" /\ Sound(m, e.fs) => g.at \in Key
      BY <2>4, <3>1, igetSame
    <3> HIDE DEF g
    <3>3. Steady(m, e.fs, g.fs)
      BY <2>4, <3>2, SameSteady
    <3>4. Steady(m, f, g.fs)
      BY <2>4, <3>3, SteadyAdd
    <3> QED BY <2>4, <3>2, <3>4 DEF Same, Fit
  <2> HIDE DEF g
  <2>7. Steady(m, f, c.fs) /\ (c.fs.panic = "none" => c.at \in Key)
    <3>1. Last(path.names) \in Names \cup {".", ".."}
      BY <1>6, LastName
    <3>2. Steady(m, e.fs, c.fs) /\ (c.fs.panic = "none" => c.at \in Key)
      BY <2>2, <2>4, <2>5, <3>1, CreateSteady
    <3> HIDE DEF c
    <3> QED BY <2>4, <3>2, SteadyAdd
  <2> HIDE DEF c
  <2>8. CASE e.slot # 0 /\ o.fs = iput(iput(g.fs, g.at), e.at)
    BY <2>6, <2>8, iputTwice
  <2>9. CASE e.slot # 0 /\ o.fs = Up(g)
    BY <2>6, <2>9, MakeupSteady
  <2>10. CASE o.fs = Up(c)
    BY <2>7, <2>10, MakeupSteady
  <2>11. CASE o.fs = iput(e.fs, e.at)
    BY <2>4, <2>11, iputTwice
  <2> HIDE DEF Up
  <2> QED BY <1>6, <2>8, <2>9, <2>10, <2>11
<1> HIDE DEF Up, e, g, c
<1> QED BY <1>1, <1>4, <1>5, <1>6

\* A call that leaves the root and the working directory of every task.
Kept(tk, new) == \A u \in Task : new[u].alive =>
  tk[u].alive /\ new[u].iroot = tk[u].iroot /\ new[u].ipwd = tk[u].ipwd

\* The root and the working directory of every task are directories or files.
Based(f, tk) == \A u \in Task : tk[u].alive =>
  {tk[u].iroot, tk[u].ipwd} \subseteq Key /\ Own(f, tk[u].iroot) /\ Own(f, tk[u].ipwd)

\* What every step has to show.
Stands(m) ==
  Steady(m, fs, fs') /\ (fs'.panic = "none" => Based(fs', task'))

\* Where the tasks keep their directories those keep their blocks.
LEMMA KeptStands ==
  ASSUME NEW m, Based(fs, task), Steady(m, fs, fs'), Kept(task, task')
  PROVE  Stands(m)
BY DEF Based, Steady, Kept, Stands

\* A task is changed in a field that is not its root or working directory.
LEMMA FieldKept ==
  ASSUME Typed(task), NEW t \in Task, NEW x, NEW new, new = [task EXCEPT ![t] = x],
         x.alive => task[t].alive /\ x.iroot = task[t].iroot /\ x.ipwd = task[t].ipwd
  PROVE  Kept(task, new)
<1>1. \A u \in Task : new[u] = IF u = t THEN x ELSE task[u]
  BY DEF Typed
<1> QED BY <1>1 DEF Kept

\* A descriptor is written.
LEMMA FdKept ==
  ASSUME Typed(task), NEW t \in Task, NEW fd, NEW n,
         task' = [task EXCEPT ![t].fd[fd] = n]
  PROVE  Kept(task, task')
<1> DEFINE fds == [task[t].fd EXCEPT ![fd] = n]
           x == [task[t] EXCEPT !.fd = fds]
<1>1. task[t] \in TaskRec
  BY DEF Typed
<1> HIDE DEF fds
<1>2. x.alive = task[t].alive /\ x.iroot = task[t].iroot /\ x.ipwd = task[t].ipwd
  BY <1>1 DEF TaskRec
<1>3. task' = [task EXCEPT ![t] = x]
  BY DEF fds
<1> HIDE DEF x
<1> QED BY <1>2, <1>3, FieldKept

\* The state before a step: where the walks of task t begin there is a directory.
LEMMA Stage ==
  ASSUME NEW m, Fit(m, fs), Tables(task, file), Based(fs, task), NEW t \in Task
  PROVE  /\ Typed(task) /\ IsTable(file) /\ task[t] \in TaskRec /\ Fs(fs)
         /\ task[t].alive => Grounded(fs, t)
         /\ Steady(m, fs, fs) /\ Kept(task, task)
BY TaskIs, SteadySelf DEF Based, Grounded, Kept, Fit

\* open.
LEMMA OpenStands ==
  ASSUME NEW m, Fit(m, fs), Tables(task, file), Based(fs, task), NEW t \in Task,
         NEW path, IsPath(path), NEW creat, NEW trunc, NEW read, NEW write,
         Open(t, path, creat, trunc, read, write)
  PROVE  Stands(m)
<1> DEFINE o == inode_open(fs, t, path, creat, trunc, write)
<1>1. /\ task[t].alive
      /\ fs' \in {o.fs, Panic(o.fs, "files")}
      /\ \/ task' = task
         \/ \E fd, n : task' = [task EXCEPT ![t].fd[fd] = n]
  BY DEF Open, Calling
<1>2. Typed(task) /\ Grounded(fs, t) /\ Kept(task, task)
  BY <1>1, Stage
<1>3. Steady(m, fs, o.fs)
  BY <1>2, inode_openSteady
<1> HIDE DEF o
<1>4. Steady(m, fs, Panic(o.fs, "files"))
  <2>1. Fit(m, o.fs) /\ Fs(o.fs)
    BY <1>3, SteadyFit
  <2>2. Steady(m, o.fs, Panic(o.fs, "files"))
    BY <2>1, PanicSame, SameSteady
  <2> QED BY <1>3, <2>2, SteadyAdd
<1>5. Kept(task, task')
  BY <1>1, <1>2, FdKept
<1>6. Steady(m, fs, fs')
  BY <1>1, <1>3, <1>4
<1> QED BY <1>5, <1>6, KeptStands

\* chdir and chroot go to a directory.
LEMMA EnterStands ==
  ASSUME NEW m, Fit(m, fs), Tables(task, file), Based(fs, task), NEW t \in Task,
         NEW path, IsPath(path), NEW which \in {"ipwd", "iroot"}, Enter(t, path, which)
  PROVE  Stands(m)
<1> DEFINE n == namei(fs, t, path)
           x == [task[t] EXCEPT ![which] = n.at]
<1>1. /\ task[t].alive
      /\ \/ fs' = iput(n.fs, n.at) /\ task' = task
         \/ /\ n.at # Null /\ Ino(n.fs, n.at).type = "dir"
            /\ fs' = iput(n.fs, task[t][which]) /\ task' = [task EXCEPT ![t] = x]
  BY DEF Enter, Calling
<1>2. /\ Typed(task) /\ task[t] \in TaskRec /\ Grounded(fs, t) /\ Fs(fs)
      /\ Kept(task, task)
  BY <1>1, Stage
<1>3. Same(fs, n.fs) /\ n.at \in Key \cup {Null}
  BY <1>2, nameiSame
<1> HIDE DEF n
<1>4. Steady(m, fs, n.fs) /\ Fs(n.fs)
  BY <1>3, SameSteady DEF Same
<1>5. Steady(m, fs, iput(n.fs, n.at)) /\ Steady(m, fs, iput(n.fs, task[t][which]))
  BY <1>4, iputTwice
<1>6. CASE fs' = iput(n.fs, n.at) /\ task' = task
  BY <1>2, <1>5, <1>6, KeptStands
<1>7. CASE /\ n.at # Null /\ Ino(n.fs, n.at).type = "dir"
           /\ fs' = iput(n.fs, task[t][which]) /\ task' = [task EXCEPT ![t] = x]
  <2>1. /\ x.iroot \in {n.at, task[t].iroot} /\ x.ipwd \in {n.at, task[t].ipwd}
        /\ x.alive = task[t].alive
    BY <1>2 DEF TaskRec
  <2> HIDE DEF x
  <2>2. \A u \in Task : task'[u] = IF u = t THEN x ELSE task[u]
    BY <1>2, <1>7 DEF Typed
  <2>3. n.at \in Key /\ Own(fs', n.at)
    <3>1. Same(n.fs, fs')
      BY <1>4, <1>7, iputSame
    <3>2. Own(n.fs, n.at) /\ n.at \in Key
      BY <1>3, <1>7 DEF Own, Owns
    <3> QED BY <3>1, <3>2, SameSound
  <2>4. ASSUME fs'.panic = "none" PROVE Based(fs', task')
    <3>1. \A k \in Key : Own(fs, k) => Own(fs', k)
      BY <1>5, <1>7, <2>4 DEF Steady
    <3> QED BY <2>1, <2>2, <2>3, <3>1 DEF Based
  <2> QED BY <1>5, <1>7, <2>4 DEF Stands
<1> QED BY <1>1, <1>6, <1>7

\* close, dup, dup2, lseek and read write no inode.
LEMMA FileStands ==
  ASSUME NEW m, Fit(m, fs), Tables(task, file), Based(fs, task), NEW t \in Task, NEW fd,
         \/ Close(t, fd) \/ Dup(t, fd) \/ Read(t, fd)
         \/ \E new \in Fd : Dup2(t, fd, new)
         \/ \E to \in Offset : Lseek(t, fd, to)
  PROVE  Stands(m)
<1>1. Typed(task) /\ Fs(fs) /\ Steady(m, fs, fs) /\ Kept(task, task)
  BY Stage
<1>2. \/ fs' = fs
      \/ \E i : fs' = CloseFd(fs, t, i).fs
      \/ \E holds : fs' = Check(fs, holds, "hole")
  BY DEF Close, Dup, Read, Dup2, Lseek
<1>3. task' = task \/ \E i, n : task' = [task EXCEPT ![t].fd[i] = n]
  BY DEF Close, Dup, Read, Dup2, Lseek
<1>4. Kept(task, task')
  BY <1>1, <1>3, FdKept
<1>5. Steady(m, fs, fs')
  <2>1. ASSUME NEW i PROVE Steady(m, fs, CloseFd(fs, t, i).fs)
    <3> DEFINE s == [fs |-> fs, file |-> file]
    <3>1. Fs(s.fs) /\ s.fs = fs
      BY <1>1
    <3>2. CloseFd(fs, t, i) = put_file(s, task[t].fd[i])
      BY DEF CloseFd
    <3> HIDE DEF s
    <3>3. Same(fs, CloseFd(fs, t, i).fs)
      BY <3>1, <3>2, put_fileSame
    <3> QED BY <3>3, SameSteady
  <2>2. ASSUME NEW holds PROVE Steady(m, fs, Check(fs, holds, "hole"))
    BY <1>1, CheckSame, SameSteady
  <2> QED BY <1>1, <1>2, <2>1, <2>2
<1> QED BY <1>4, <1>5, KeptStands

\* write gives a file the block it writes; a file open for writing has an inode.
LEMMA WriteStands ==
  ASSUME NEW m, Fit(m, fs), Tables(task, file), Based(fs, task), NEW t \in Task,
         NEW fd \in Fd, Write(t, fd)
  PROVE  Stands(m)
<1> DEFINE n == task[t].fd[fd]
           at == file[n].offset
           k == file[n].inode
           g == bmap_create(fs, k, at)
           size == Max({Ino(g, k)["size"], at + 1})
<1>1. /\ task' = task /\ n # 0 /\ file[n].write
      /\ \/ fs' = Panic(fs, "isfile")
         \/ Ino(fs, k).type = "file" /\ fs' = Grow(g, k, at + 1)
  BY DEF Write
<1>2. Typed(task) /\ IsTable(file) /\ Fs(fs) /\ Kept(task, task) /\ n \in File \cup {0}
  BY Stage, TaskIs
<1>3. k \in Key
  <2>1. IsFile(file[n])
    BY <1>1, <1>2 DEF IsTable
  <2> QED BY <1>1, <2>1 DEF IsFile
<1>4. CASE fs' = Panic(fs, "isfile")
  <2>1. Steady(m, fs, fs')
    BY <1>2, <1>4, PanicSame, SameSteady
  <2> QED BY <1>1, <1>2, <2>1, KeptStands
<1>5. CASE Ino(fs, k).type = "file" /\ fs' = Grow(g, k, at + 1)
  <2>1. Holder(fs, k)
    BY <1>3, <1>5 DEF Holder, Own, Owns
  <2> HIDE DEF k, at, n
  <2>2. Steady(m, fs, g)
    BY <2>1, bmap_createSteady
  <2> HIDE DEF g
  <2>3. Grow(g, k, at + 1) = SetField(g, k, "size", size)
    BY DEF Grow, SetField, With, Put, Ino
  <2> HIDE DEF size
  <2>4. Fit(m, g) /\ Fs(g)
    BY <2>2, SteadyFit
  <2>5. Fs(SetField(g, k, "size", size))
    BY <2>4, FieldQuiet, QuietFs DEF DescFields
  <2>6. Steady(m, g, SetField(g, k, "size", size))
    BY <2>4, <2>5, FieldSteady
  <2>7. Steady(m, fs, fs')
    BY <1>5, <2>2, <2>3, <2>6, SteadyAdd
  <2> QED BY <1>1, <1>2, <2>7, KeptStands
<1> QED BY <1>1, <1>4, <1>5

\* The child of a fork has the directories of its parent.
LEMMA ForkStands ==
  ASSUME NEW m, Fit(m, fs), Tables(task, file), Based(fs, task), NEW t \in Task,
         NEW child \in Task, Fork(t, child)
  PROVE  Stands(m)
<1> DEFINE a == Hold(fs, task[t].ipwd)
           b == Hold(a, task[t].iroot)
           c == Hold(b, task[t].iexec)
<1>1. task[t].alive /\ fs' \in {b, c} /\ task' = [task EXCEPT ![child] = task[t]]
  BY DEF Fork, ForkHolds, Calling
<1>2. Typed(task) /\ Fs(fs) /\ Steady(m, fs, fs)
  BY Stage
<1>3. Same(fs, a) /\ Fs(a)
  BY <1>2, HoldSame DEF Same
<1> HIDE DEF a
<1>4. Same(a, b) /\ Fs(b)
  BY <1>3, HoldSame DEF Same
<1> HIDE DEF b
<1>5. Same(b, c)
  BY <1>4, HoldSame
<1> HIDE DEF c
<1>6. Same(fs, fs')
  BY <1>1, <1>3, <1>4, <1>5, SameAdd
<1>7. Steady(m, fs, fs') /\ \A k : Own(fs', k) <=> Own(fs, k)
  BY <1>6, SameSteady, SameSound
<1>8. \A u \in Task : task'[u] = IF u = child THEN task[t] ELSE task[u]
  BY <1>1, <1>2 DEF Typed
<1>9. Based(fs', task')
  BY <1>1, <1>7, <1>8 DEF Based
<1> QED BY <1>7, <1>9 DEF Stands

\* exit gives everything back.
LEMMA ExitStands ==
  ASSUME NEW m, Fit(m, fs), Tables(task, file), Based(fs, task), NEW t \in Task, Exit(t)
  PROVE  Stands(m)
<1> DEFINE a == iput(fs, task[t].ipwd)
           b == iput(a, task[t].iroot)
           c == iput(b, task[t].iexec)
<1>1. fs' = CloseAll(c, t).fs /\ task' = [task EXCEPT ![t] = NoTask]
  BY DEF Exit
<1>2. Typed(task) /\ Fs(fs)
  BY Stage
<1>3. Same(fs, a) /\ Fs(a)
  BY <1>2, iputSame DEF Same
<1> HIDE DEF a
<1>4. Same(a, b) /\ Fs(b)
  BY <1>3, iputSame DEF Same
<1> HIDE DEF b
<1>5. Same(b, c) /\ Fs(c)
  BY <1>4, iputSame DEF Same
<1> HIDE DEF c
<1>6. Same(c, fs')
  BY <1>1, <1>5, CloseAllSame
<1>7. Same(fs, fs')
  BY <1>3, <1>4, <1>5, <1>6, SameAdd
<1>8. Kept(task, task')
  <2>1. ~ NoTask.alive
    BY NoTaskIs
  <2> QED BY <1>1, <1>2, <2>1, FieldKept
<1> QED BY <1>7, <1>8, SameSteady, KeptStands

\* execve gives the old image and the files back.
LEMMA ExecveStands ==
  ASSUME NEW m, Fit(m, fs), Tables(task, file), Based(fs, task), NEW t \in Task,
         NEW path, IsPath(path), NEW elf \in BOOLEAN, Execve(t, path, elf)
  PROVE  Stands(m)
<1> DEFINE n == namei(fs, t, path)
           f == iput(n.fs, task[t].iexec)
           c == CloseAll(f, t)
           x == [task[t] EXCEPT !.fd = NoFds,
                                !.iexec = IF elf THEN n.at ELSE task[t].iexec]
<1>1. /\ task[t].alive
      /\ \/ fs' = iput(n.fs, n.at) /\ task' = task
         \/ fs' \in {c.fs, iput(c.fs, n.at)} /\ task' = [task EXCEPT ![t] = x]
  <2>1. task[t].alive
    BY DEF Execve, Calling
  <2>2. \/ fs' = iput(n.fs, n.at) /\ task' = task
        \/ /\ fs' = IF elf THEN c.fs ELSE iput(c.fs, n.at)
           /\ task' = [task EXCEPT ![t] =
                         [@ EXCEPT !.fd = NoFds,
                                   !.iexec = IF elf THEN n.at ELSE task[t].iexec]]
    BY DEF Execve
  <2> HIDE DEF n, c
  <2> QED BY <2>1, <2>2
<1>2. /\ Typed(task) /\ task[t] \in TaskRec /\ Grounded(fs, t) /\ Fs(fs)
      /\ Kept(task, task)
  BY <1>1, Stage
<1>3. Same(fs, n.fs)
  BY <1>2, nameiSame
<1> HIDE DEF n
<1>4. Steady(m, fs, n.fs)
  BY <1>3, SameSteady
<1>5. CASE fs' = iput(n.fs, n.at) /\ task' = task
  BY <1>2, <1>4, <1>5, iputTwice, KeptStands
<1>6. CASE fs' \in {c.fs, iput(c.fs, n.at)} /\ task' = [task EXCEPT ![t] = x]
  <2>1. x.alive = task[t].alive /\ x.iroot = task[t].iroot /\ x.ipwd = task[t].ipwd
    BY <1>2 DEF TaskRec
  <2> HIDE DEF x
  <2>2. Kept(task, task')
    BY <1>2, <1>6, <2>1, FieldKept
  <2>3. Steady(m, fs, f)
    BY <1>4, iputTwice
  <2>4. Fit(m, f) /\ Fs(f)
    BY <2>3, SteadyFit
  <2> HIDE DEF f
  <2>5. Steady(m, f, c.fs)
    BY <2>4, CloseAllSame, SameSteady
  <2> HIDE DEF c
  <2>6. Steady(m, fs, c.fs)
    BY <2>3, <2>5, SteadyAdd
  <2>7. Steady(m, fs, fs')
    BY <1>6, <2>6, iputTwice
  <2> QED BY <2>2, <2>7, KeptStands
<1> QED BY <1>1, <1>5, <1>6

-----------------------------------------------------------------------------
(* Super blocks and mounts. *)

\* Super blocks and mounts change, the disks do not.
LEMMA TopSteady ==
  ASSUME NEW m, NEW f, Fit(m, f), NEW g, Fs(g),
         g.imap = f.imap, g.zmap = f.zmap, g.ino = f.ino, g.minix = f.minix,
         g.panic = "none" => f.panic = "none",
         g.panic = "none" /\ Sound(m, f) => Rooted(g)
  PROVE  Steady(m, f, g)
<1> SUFFICES ASSUME g.panic = "none", Sound(m, f), Rooted(g)
             PROVE  Sound(m, g) /\ \A k \in Key : Own(f, k) => Own(g, k)
  BY DEF Steady, Fit
<1>1. \A k : Own(f, k) <=> Own(g, k)
  BY DEF Own, Ino
<1>2. Exact(g)
  BY DEF Sound, Exact
<1>3. \A d \in Dev, nr \in Nr : Clean(g, d, nr)
  <2> SUFFICES ASSUME NEW d \in Dev, NEW nr \in Nr PROVE Clean(g, d, nr)
    OBVIOUS
  <2>1. Clean(f, d, nr)
    BY DEF Sound
  <2> QED BY <2>1 DEF Clean
<1>4. "mknod" \in m => Fresh(g)
  BY DEF Sound, Fresh
<1> QED BY <1>1, <1>2, <1>3, <1>4 DEF Sound

\* One super block is written.
LEMMA SuperIs ==
  ASSUME NEW f, Fs(f), NEW d \in Dev, NEW new \in Super
  PROVE  LET g == [f EXCEPT !.sb = [f.sb EXCEPT ![d] = new]]
         IN  /\ Fs(g) /\ g.imap = f.imap /\ g.zmap = f.zmap /\ g.ino = f.ino
             /\ g.minix = f.minix /\ g.mount = f.mount /\ g.panic = f.panic
             /\ \A e \in Dev : g.sb[e] = IF e = d THEN new ELSE f.sb[e]
<1> DEFINE sb == [f.sb EXCEPT ![d] = new]
           g == [f EXCEPT !.sb = sb]
<1>1. sb \in [Dev -> Super] /\ \A e \in Dev : sb[e] = IF e = d THEN new ELSE f.sb[e]
  BY DEF Fs
<1> HIDE DEF sb
<1>2. /\ IsFcn(g, FsFields)
      /\ \A b \in FsFields : g[b] = IF b = "sb" THEN sb ELSE f[b]
  BY DEF Fs, IsFcn
<1> HIDE DEF g
<1>3. /\ g.ino = f.ino /\ g.count = f.count /\ g.mount = f.mount /\ g.sb = sb
      /\ g.minix = f.minix /\ g.panic = f.panic /\ g.imap = f.imap /\ g.zmap = f.zmap
  BY <1>2 DEF FsFields
<1>4. Fs(g)
  BY <1>1, <1>2, <1>3 DEF Fs
<1> QED BY <1>1, <1>3, <1>4 DEF g, sb

\* What a write to the mount of one directory leaves.
SetsMount(f, g, k, d) ==
  /\ Fs(g) /\ g.imap = f.imap /\ g.zmap = f.zmap /\ g.ino = f.ino
  /\ g.minix = f.minix /\ g.sb = f.sb /\ g.panic = f.panic
  /\ \A j \in Key : g.mount[j] = IF j = k THEN d ELSE f.mount[j]

\* The mount of one directory is written.
LEMMA MountIs ==
  ASSUME NEW f, Fs(f), NEW k, NEW d \in Dev \cup {0}
  PROVE  SetsMount(f, [f EXCEPT !.mount[k] = d], k, d)
<1> DEFINE new == [f.mount EXCEPT ![k] = d]
           g == [f EXCEPT !.mount = new]
<1>1. [f EXCEPT !.mount[k] = d] = g
  OBVIOUS
<1>2. /\ new \in [Key -> Dev \cup {0}]
      /\ \A j \in Key : new[j] = IF j = k THEN d ELSE f.mount[j]
  BY DEF Fs
<1> HIDE DEF new
<1>3. /\ IsFcn(g, FsFields)
      /\ \A b \in FsFields : g[b] = IF b = "mount" THEN new ELSE f[b]
  BY DEF Fs, IsFcn
<1> HIDE DEF g
<1>4. /\ g.ino = f.ino /\ g.count = f.count /\ g.mount = new /\ g.sb = f.sb
      /\ g.minix = f.minix /\ g.panic = f.panic /\ g.imap = f.imap /\ g.zmap = f.zmap
  BY <1>3 DEF FsFields
<1>5. Fs(g)
  BY <1>2, <1>3, <1>4 DEF Fs
<1>6. SetsMount(f, g, k, d)
  BY <1>2, <1>4, <1>5 DEF SetsMount
<1> QED BY <1>1, <1>6

\* No inode is nothing.
LEMMA KeyNotNull == \A k \in Key : k # Null
BY SizesAssumption, NullAssumption DEF Key, Dev, Nr

\* A super block is given up that no directory refers to.
LEMMA NoSuperSteady ==
  ASSUME NEW m, NEW f, Fit(m, f), NEW d \in Dev,
         f.panic = "none" => \A k \in Key : f.mount[k] # d
  PROVE  Steady(m, f, [f EXCEPT !.sb = [f.sb EXCEPT ![d] = NoSuper]])
<1> DEFINE none == NoSuper
           g == [f EXCEPT !.sb = [f.sb EXCEPT ![d] = none]]
<1>1. none \in Super /\ none.iroot = Null /\ none.imount = Null
  BY DEF NoSuper, Super
<1> HIDE DEF none
<1>2. /\ Fs(g) /\ g.imap = f.imap /\ g.zmap = f.zmap /\ g.ino = f.ino
      /\ g.minix = f.minix /\ g.mount = f.mount /\ g.panic = f.panic
      /\ \A e \in Dev : g.sb[e] = IF e = d THEN none ELSE f.sb[e]
  BY <1>1, SuperIs DEF Fit
<1> HIDE DEF g
<1>3. ASSUME g.panic = "none", Sound(m, f) PROVE Rooted(g)
  <2>1. \A k : Own(f, k) <=> Own(g, k)
    BY <1>2 DEF Own, Ino
  <2>2. Rooted(f)
    BY <1>3 DEF Sound
  <2>3. ASSUME NEW e \in Dev
        PROVE  /\ g.sb[e].iroot # Null =>
                    g.sb[e].iroot[2] = 1 /\ g.sb[e].iroot[1] \in g.minix
               /\ g.sb[e].imount # Null => Own(g, g.sb[e].imount) /\ g.sb[e].count > 0
    <3>1. CASE e = d
      BY <1>1, <1>2, <3>1
    <3>2. CASE e # d
      BY <1>2, <2>1, <2>2, <3>2 DEF Rooted
    <3> QED BY <3>1, <3>2
  <2>4. ASSUME NEW k \in Key, g.mount[k] # 0
        PROVE  g.sb[g.mount[k]].imount = k /\ g.sb[g.mount[k]].iroot # Null
    <3>1. g.mount[k] = f.mount[k] /\ f.mount[k] \in Dev /\ f.mount[k] # d
      BY <1>2, <1>3, <2>4 DEF Fit, Fs
    <3>2. f.sb[f.mount[k]].imount = k /\ f.sb[f.mount[k]].iroot # Null
      BY <2>2, <2>4, <3>1 DEF Rooted
    <3> QED BY <1>2, <3>1, <3>2
  <2> QED BY <2>3, <2>4 DEF Rooted
<1>4. Steady(m, f, g)
  BY <1>2, <1>3, TopSteady
<1> QED BY <1>4 DEF g, none

\* read_super keeps a super block for the device.
LEMMA read_superSteady ==
  ASSUME NEW m, NEW f, Fit(m, f), NEW d \in Dev
  PROVE  LET s == read_super(f, d)
         IN  /\ Steady(m, f, s.fs) /\ s.fs.minix = f.minix /\ s.fs.mount = f.mount
             /\ s.fs.ino = f.ino /\ (s.found <=> d \in f.minix) /\ Loaded(s.fs, d)
<1> DEFINE s == read_super(f, d)
<1>1. s.found <=> d \in f.minix
  BY DEF read_super
<1>2. CASE Loaded(f, d)
  <2> DEFINE g == Check(f, d \in f.minix, "not_minix")
  <2>1. s.fs = g
    BY <1>2 DEF read_super
  <2>2. Same(f, g)
    BY CheckSame DEF Fit
  <2> HIDE DEF g, s
  <2> QED BY <1>1, <1>2, <2>1, <2>2, SameSteady DEF Same, Loaded, s
<1>3. CASE ~ Loaded(f, d)
  <2> DEFINE new == [f.sb[d] EXCEPT !.count = 1]
             g == [f EXCEPT !.sb = [f.sb EXCEPT ![d] = new]]
  <2>1. s.fs = g
    BY <1>3 DEF read_super
  <2>2. /\ new \in Super /\ new.iroot = f.sb[d].iroot /\ new.imount = f.sb[d].imount
        /\ new.count = 1
    BY DEF Fit, Fs, Super
  <2> HIDE DEF new
  <2>3. /\ Fs(g) /\ g.imap = f.imap /\ g.zmap = f.zmap /\ g.ino = f.ino
        /\ g.minix = f.minix /\ g.mount = f.mount /\ g.panic = f.panic
        /\ \A e \in Dev : g.sb[e] = IF e = d THEN new ELSE f.sb[e]
    BY <2>2, SuperIs DEF Fit
  <2> HIDE DEF g, s
  <2>4. /\ \A e \in Dev : /\ g.sb[e].iroot = f.sb[e].iroot
                          /\ g.sb[e].imount = f.sb[e].imount
                          /\ f.sb[e].count > 0 => g.sb[e].count > 0
        /\ g.sb[d].count > 0
    BY <2>2, <2>3
  <2>5. ASSUME Sound(m, f) PROVE Rooted(g)
    <3>1. \A k : Own(f, k) <=> Own(g, k)
      BY <2>3 DEF Own, Ino
    <3>2. Rooted(f) /\ f.mount \in [Key -> Dev \cup {0}]
      BY <2>5 DEF Sound, Fit, Fs
    <3> QED BY <2>3, <2>4, <3>1, <3>2 DEF Rooted
  <2>6. Steady(m, f, g)
    BY <2>3, <2>5, TopSteady
  <2> QED BY <1>1, <2>1, <2>3, <2>4, <2>6 DEF Loaded, s
<1> QED BY <1>2, <1>3

\* A file system is attached to a directory that has none.
LEMMA AttachSteady ==
  ASSUME NEW m, NEW f, Fit(m, f), NEW d \in Dev, NEW dir \in Key, NEW top,
         f.panic = "none" =>
           /\ top \in Key /\ top[2] = 1 /\ top[1] \in f.minix
           /\ Own(f, dir) /\ f.sb[d].imount = Null /\ Loaded(f, d),
         NEW new \in Super, new.iroot = top, new.imount = dir, new.count = f.sb[d].count
  PROVE  LET h == [f EXCEPT !.sb = [f.sb EXCEPT ![d] = new]]
         IN  Steady(m, f, [h EXCEPT !.mount[dir] = d])
<1> DEFINE h == [f EXCEPT !.sb = [f.sb EXCEPT ![d] = new]]
           g == [h EXCEPT !.mount[dir] = d]
<1>1. /\ Fs(h) /\ h.imap = f.imap /\ h.zmap = f.zmap /\ h.ino = f.ino
      /\ h.minix = f.minix /\ h.mount = f.mount /\ h.panic = f.panic
      /\ \A e \in Dev : h.sb[e] = IF e = d THEN new ELSE f.sb[e]
  BY SuperIs DEF Fit
<1> HIDE DEF h
<1>2. /\ Fs(g) /\ g.imap = h.imap /\ g.zmap = h.zmap /\ g.ino = h.ino
      /\ g.minix = h.minix /\ g.sb = h.sb /\ g.panic = h.panic
      /\ \A j \in Key : g.mount[j] = IF j = dir THEN d ELSE h.mount[j]
  <2>1. Fs(h) /\ d \in Dev \cup {0}
    BY <1>1
  <2>2. SetsMount(h, g, dir, d)
    BY <2>1, MountIs
  <2> HIDE DEF g
  <2> QED BY <2>2 DEF SetsMount
<1> HIDE DEF g
<1>3. ASSUME g.panic = "none", Sound(m, f) PROVE Rooted(g)
  <2>1. /\ top \in Key /\ top[2] = 1 /\ top[1] \in f.minix
        /\ Own(f, dir) /\ f.sb[d].imount = Null /\ f.sb[d].count > 0
    BY <1>1, <1>2, <1>3 DEF Loaded
  <2>2. (\A k : Own(f, k) <=> Own(g, k)) /\ Rooted(f)
    BY <1>1, <1>2, <1>3 DEF Own, Ino, Sound
  <2>3. ASSUME NEW e \in Dev
        PROVE  /\ g.sb[e].iroot # Null =>
                    g.sb[e].iroot[2] = 1 /\ g.sb[e].iroot[1] \in g.minix
               /\ g.sb[e].imount # Null => Own(g, g.sb[e].imount) /\ g.sb[e].count > 0
    <3>1. CASE e = d
      BY <1>1, <1>2, <2>1, <2>2, <3>1
    <3>2. CASE e # d
      BY <1>1, <1>2, <2>2, <3>2 DEF Rooted
    <3> QED BY <3>1, <3>2
  <2>4. ASSUME NEW k \in Key, g.mount[k] # 0
        PROVE  g.sb[g.mount[k]].imount = k /\ g.sb[g.mount[k]].iroot # Null
    <3>1. CASE k = dir
      BY <1>1, <1>2, <2>1, <3>1, KeyNotNull
    <3>2. CASE k # dir
      <4>1. g.mount[k] = f.mount[k] /\ f.mount[k] \in Dev
        BY <1>1, <1>2, <2>4, <3>2 DEF Fit, Fs
      <4>2. f.sb[f.mount[k]].imount = k /\ f.sb[f.mount[k]].iroot # Null
        BY <2>2, <2>4, <4>1 DEF Rooted
      <4>3. f.mount[k] # d
        BY <2>1, <4>2, KeyNotNull
      <4> QED BY <1>1, <1>2, <4>1, <4>2, <4>3
    <3> QED BY <3>1, <3>2
  <2> QED BY <2>3, <2>4 DEF Rooted
<1>4. Steady(m, f, g)
  BY <1>1, <1>2, <1>3, TopSteady
<1> QED BY <1>4 DEF g, h

\* mount attaches the root of a file system, and nothing else.
LEMMA MountSteady ==
  ASSUME NEW m, Fit(m, fs), Nodes(fs), NEW t, Grounded(fs, t),
         NEW node, IsPath(node), NEW path, IsPath(path), Mount(t, node, path)
  PROVE  Steady(m, fs, fs')
<1> DEFINE n == namei(fs, t, node)
           d == Ino(n.fs, n.at).zone
           p == namei(n.fs, t, path)
           s == read_super(p.fs, d)
           i == iget(s.fs, d, 1)
           new == [i.fs.sb[d] EXCEPT !.iroot = i.at, !.imount = p.at]
           h == [i.fs EXCEPT !.sb = [i.fs.sb EXCEPT ![d] = new]]
           h2 == [h EXCEPT !.mount[p.at] = d]
           raw == [i.fs EXCEPT !.sb[d] = [@ EXCEPT !.iroot = i.at, !.imount = p.at],
                               !.mount[p.at] = d]
<1>1. \/ n.at = Null /\ fs' = n.fs
      \/ n.at # Null /\ fs' = iput(n.fs, n.at)
      \/ /\ n.at # Null /\ Ino(n.fs, n.at).type = "blk"
         /\ \/ p.at = Null /\ fs' = iput(p.fs, n.at)
            \/ p.at # Null /\ fs' = iput(iput(p.fs, n.at), p.at)
            \/ p.at # Null /\ fs' = iput(iput(s.fs, n.at), p.at)
            \/ /\ p.at # Null /\ Ino(p.fs, p.at).type = "dir" /\ s.found
               /\ s.fs.sb[d].imount = Null /\ fs' = iput(raw, n.at)
  BY DEF Mount
<1>2. Same(fs, n.fs) /\ n.at \in Key \cup {Null}
  BY nameiSame DEF Fit
<1> HIDE DEF n
<1>3. Steady(m, fs, n.fs) /\ Fit(m, n.fs) /\ Fs(n.fs) /\ Grounded(n.fs, t) /\ Nodes(n.fs)
  BY <1>2, SameSteady, SteadyFit, GroundedSame DEF Nodes, Same
<1>4. CASE n.at = Null /\ fs' = n.fs
  BY <1>3, <1>4
<1>5. CASE n.at # Null /\ fs' = iput(n.fs, n.at)
  BY <1>3, <1>5, iputTwice
<1>6. CASE /\ n.at # Null /\ Ino(n.fs, n.at).type = "blk"
           /\ \/ p.at = Null /\ fs' = iput(p.fs, n.at)
              \/ p.at # Null /\ fs' = iput(iput(p.fs, n.at), p.at)
              \/ p.at # Null /\ fs' = iput(iput(s.fs, n.at), p.at)
              \/ /\ p.at # Null /\ Ino(p.fs, p.at).type = "dir" /\ s.found
                 /\ s.fs.sb[d].imount = Null /\ fs' = iput(raw, n.at)
  <2>1. d \in Dev
    BY <1>2, <1>3, <1>6, NodeDev
  <2> HIDE DEF d
  <2>2. Same(n.fs, p.fs) /\ p.at \in Key \cup {Null}
    BY <1>3, nameiSame
  <2> HIDE DEF p
  <2>3. Steady(m, n.fs, p.fs)
    BY <1>3, <2>2, SameSteady
  <2>4. Steady(m, fs, p.fs) /\ Fit(m, p.fs)
    BY <1>3, <2>3, SteadyAdd, SteadyFit
  <2>5. CASE p.at = Null /\ fs' = iput(p.fs, n.at)
    BY <2>4, <2>5, iputTwice
  <2>6. CASE p.at # Null /\ fs' = iput(iput(p.fs, n.at), p.at)
    BY <2>4, <2>6, iputTwice
  <2>7. /\ Steady(m, p.fs, s.fs) /\ s.fs.minix = p.fs.minix
        /\ s.fs.ino = p.fs.ino /\ (s.found <=> d \in p.fs.minix) /\ Loaded(s.fs, d)
    BY <2>1, <2>4, read_superSteady
  <2> HIDE DEF s
  <2>8. Steady(m, fs, s.fs) /\ Fit(m, s.fs) /\ Fs(s.fs)
    BY <2>4, <2>7, SteadyAdd, SteadyFit
  <2>9. CASE p.at # Null /\ fs' = iput(iput(s.fs, n.at), p.at)
    BY <2>8, <2>9, iputTwice
  <2>10. CASE /\ p.at # Null /\ Ino(p.fs, p.at).type = "dir" /\ s.found
              /\ s.fs.sb[d].imount = Null /\ fs' = iput(raw, n.at)
    <3>1. 1 \in Nr /\ p.at \in Key
      BY <2>2, <2>10, RootKey
    <3>2. /\ Same(s.fs, i.fs)
          /\ i.fs.panic = "none" /\ Sound(m, s.fs) =>
               /\ i.at \in Key
               /\ \/ i.at = <<d, 1>>
                  \/ i.at[2] = 1 /\ i.at[1] \in s.fs.minix
      BY <2>1, <2>8, <3>1, igetSame
    <3>3. i.at \in Key \cup {Null}
      BY <2>1, <2>8, <3>1, RootKey, igetGives DEF Gives
    <3> HIDE DEF i
    <3>4. Steady(m, s.fs, i.fs)
      BY <2>8, <3>2, SameSteady
    <3>5. Steady(m, fs, i.fs) /\ Fit(m, i.fs) /\ Fs(i.fs)
      BY <2>8, <3>4, SteadyAdd, SteadyFit
    <3>6. i.fs.panic = "none" =>
            /\ i.at \in Key /\ i.at[2] = 1 /\ i.at[1] \in i.fs.minix
            /\ Own(i.fs, p.at) /\ i.fs.sb[d].imount = Null /\ Loaded(i.fs, d)
      <4> SUFFICES ASSUME i.fs.panic = "none"
                   PROVE  /\ i.at \in Key /\ i.at[2] = 1 /\ i.at[1] \in i.fs.minix
                          /\ Own(i.fs, p.at) /\ i.fs.sb[d].imount = Null
                          /\ Loaded(i.fs, d)
        OBVIOUS
      <4>1. Sound(m, s.fs) /\ d \in s.fs.minix
        BY <2>7, <2>8, <2>10, <3>2 DEF Same, Fit
      <4>2. i.at \in Key /\ i.at[2] = 1 /\ i.at[1] \in i.fs.minix
        BY <3>2, <4>1 DEF Same
      <4>3. Own(i.fs, p.at)
        BY <2>7, <2>10, <3>2 DEF Same, Own, Owns, Ino
      <4> QED BY <2>7, <2>10, <3>2, <4>2, <4>3 DEF Same, Loaded
    <3>7. /\ new \in Super /\ new.iroot = i.at /\ new.imount = p.at
          /\ new.count = i.fs.sb[d].count
      <4>1. i.fs.sb[d] \in Super
        BY <2>1, <3>5 DEF Fs
      <4> QED BY <3>1, <3>3, <4>1 DEF Super
    <3>8. raw = h2
      BY <3>5 DEF Fs, IsFcn, FsFields
    <3> HIDE DEF new
    <3> HIDE DEF raw
    <3>9. Steady(m, i.fs, h2)
      BY <2>1, <3>1, <3>5, <3>6, <3>7, AttachSteady
    <3> HIDE DEF h2, h
    <3>10. Steady(m, fs, h2)
      BY <3>5, <3>9, SteadyAdd
    <3> QED BY <2>10, <3>8, <3>10, iputTwice
  <2> QED BY <1>6, <2>5, <2>6, <2>9, <2>10
<1> QED BY <1>1, <1>4, <1>5, <1>6

\* A directory no longer leads to another file system.
LEMMA DetachSteady ==
  ASSUME NEW m, NEW f, Fit(m, f), NEW k
  PROVE  Steady(m, f, [f EXCEPT !.mount[k] = 0])
<1> DEFINE g == [f EXCEPT !.mount[k] = 0]
<1>1. SetsMount(f, g, k, 0)
  BY MountIs DEF Fit
<1> HIDE DEF g
<1>2. /\ Fs(g) /\ g.imap = f.imap /\ g.zmap = f.zmap /\ g.ino = f.ino
      /\ g.minix = f.minix /\ g.sb = f.sb /\ g.panic = f.panic
      /\ \A j \in Key : g.mount[j] = IF j = k THEN 0 ELSE f.mount[j]
  BY <1>1 DEF SetsMount
<1>3. ASSUME Sound(m, f) PROVE Rooted(g)
  <2>1. (\A l : Own(f, l) <=> Own(g, l)) /\ Rooted(f)
    BY <1>2, <1>3 DEF Own, Ino, Sound
  <2> QED BY <1>2, <2>1 DEF Rooted
<1>4. Steady(m, f, g)
  BY <1>2, <1>3, TopSteady
<1> QED BY <1>4 DEF g

\* umount detaches the root of a file system, and nothing else.
LEMMA UmountSteady ==
  ASSUME NEW m, Fit(m, fs), Nodes(fs), NEW t, Grounded(fs, t),
         NEW path, IsPath(path), Umount(t, path)
  PROVE  Steady(m, fs, fs')
<1> DEFINE n == namei(fs, t, path)
           Detach(d, sb) ==
             [iput([iput(n.fs, sb.iroot) EXCEPT !.mount[sb.imount] = 0], sb.imount)
                EXCEPT !.sb[d] = NoSuper]
<1>1. \/ n.at = Null /\ fs' = n.fs
      \/ n.at # Null /\ fs' = iput(n.fs, n.at)
      \/ n.at # Null /\ fs' = iput(Panic(n.fs, "no_super"), n.at)
      \/ /\ n.at # Null
         /\ \E d : /\ \/ Ino(n.fs, n.at).type = "blk" /\ d = Ino(n.fs, n.at).zone
                      \/ d = n.at[1]
                   /\ n.fs.sb[d].imount # Null
                   /\ fs' = iput(Detach(d, n.fs.sb[d]), n.at)
  <2> DEFINE d1 == Ino(n.fs, n.at).zone
             d2 == n.at[1]
  <2>1. \/ n.at = Null /\ fs' = n.fs
        \/ n.at # Null /\ fs' = iput(n.fs, n.at)
        \/ n.at # Null /\ fs' = iput(Panic(n.fs, "no_super"), n.at)
        \/ /\ n.at # Null /\ Ino(n.fs, n.at).type = "blk"
           /\ n.fs.sb[d1].imount # Null
           /\ fs' = iput(Detach(d1, n.fs.sb[d1]), n.at)
        \/ /\ n.at # Null /\ n.fs.sb[d2].imount # Null
           /\ fs' = iput(Detach(d2, n.fs.sb[d2]), n.at)
    BY DEF Umount
  <2> HIDE DEF Detach, n
  <2> QED BY <2>1
<1>2. Same(fs, n.fs) /\ n.at \in Key \cup {Null}
  BY nameiSame DEF Fit
<1> HIDE DEF n
<1>3. Steady(m, fs, n.fs) /\ Fit(m, n.fs) /\ Fs(n.fs) /\ Nodes(n.fs)
  BY <1>2, SameSteady, SteadyFit DEF Nodes, Same
<1>4. CASE n.at = Null /\ fs' = n.fs
  BY <1>3, <1>4
<1>5. CASE n.at # Null /\ fs' = iput(n.fs, n.at)
  BY <1>3, <1>5, iputTwice
<1>6. CASE n.at # Null /\ fs' = iput(Panic(n.fs, "no_super"), n.at)
  <2> DEFINE g == Panic(n.fs, "no_super")
  <2>1. Same(n.fs, g)
    BY <1>3, PanicSame
  <2>2. fs' = iput(g, n.at)
    BY <1>6
  <2> HIDE DEF g
  <2>3. Steady(m, n.fs, g)
    BY <1>3, <2>1, SameSteady
  <2>4. Steady(m, fs, g)
    BY <1>3, <2>3, SteadyAdd
  <2> QED BY <2>2, <2>4, iputTwice
<1>7. CASE /\ n.at # Null
           /\ \E d : /\ \/ Ino(n.fs, n.at).type = "blk" /\ d = Ino(n.fs, n.at).zone
                        \/ d = n.at[1]
                     /\ n.fs.sb[d].imount # Null
                     /\ fs' = iput(Detach(d, n.fs.sb[d]), n.at)
  <2>1. PICK d : /\ \/ Ino(n.fs, n.at).type = "blk" /\ d = Ino(n.fs, n.at).zone
                    \/ d = n.at[1]
                 /\ n.fs.sb[d].imount # Null
                 /\ fs' = iput(Detach(d, n.fs.sb[d]), n.at)
    BY <1>7
  <2>2. n.at \in Key
    BY <1>2, <1>7
  <2>3. d \in Dev
    <3>1. CASE Ino(n.fs, n.at).type = "blk" /\ d = Ino(n.fs, n.at).zone
      BY <1>3, <2>2, <3>1, NodeDev
    <3>2. CASE d = n.at[1]
      BY <2>2, <3>2 DEF Key
    <3> QED BY <2>1, <3>1, <3>2
  <2> DEFINE sb == n.fs.sb[d]
             a == iput(n.fs, sb.iroot)
             b == [a EXCEPT !.mount[sb.imount] = 0]
             c == iput(b, sb.imount)
             e == [c EXCEPT !.sb = [c.sb EXCEPT ![d] = NoSuper]]
  <2>4. fs' = iput(e, n.at)
    BY <2>1
  <2>5. Same(n.fs, a)
    BY <1>3, iputSame
  <2> HIDE DEF a
  <2>6. Steady(m, n.fs, a)
    BY <1>3, <2>5, SameSteady
  <2>7. Steady(m, fs, a) /\ Fit(m, a) /\ Fs(a)
    BY <1>3, <2>6, SteadyAdd, SteadyFit
  <2>8. SetsMount(a, b, sb.imount, 0)
    BY <2>7, MountIs
  <2>9. Steady(m, a, b)
    BY <2>7, DetachSteady
  <2> HIDE DEF b
  <2>10. Steady(m, fs, b) /\ Fit(m, b) /\ Fs(b)
    BY <2>7, <2>9, SteadyAdd, SteadyFit
  <2>11. Same(b, c)
    BY <2>10, iputSame
  <2> HIDE DEF c
  <2>12. Steady(m, b, c)
    BY <2>10, <2>11, SameSteady
  <2>13. Steady(m, fs, c) /\ Fit(m, c) /\ Fs(c)
    BY <2>10, <2>12, SteadyAdd, SteadyFit
  <2>14. c.mount = b.mount /\ c.sb[d] = sb
    BY <2>5, <2>8, <2>11 DEF Same, SetsMount
  <2>15. sb.imount \in Key
    <3>1. n.fs.sb[d] \in Super
      BY <1>3, <2>3 DEF Fs
    <3> QED BY <2>1, <3>1 DEF Super
  <2>16. b.mount[sb.imount] = 0
    BY <2>8, <2>15 DEF SetsMount
  <2> HIDE DEF sb
  <2>17. ASSUME c.panic = "none", NEW k \in Key, c.mount[k] = d PROVE FALSE
    <3>1. Rooted(c)
      BY <2>13, <2>17 DEF Fit, Sound
    <3>2. d # 0
      BY <2>3 DEF Dev
    <3>3. c.sb[d].imount = k
      BY <2>17, <3>1, <3>2 DEF Rooted
    <3> QED BY <2>14, <2>16, <2>17, <3>2, <3>3
  <2>18. Steady(m, c, e)
    BY <2>3, <2>13, <2>17, NoSuperSteady
  <2> HIDE DEF e
  <2>19. Steady(m, fs, e)
    BY <2>13, <2>18, SteadyAdd
  <2> QED BY <2>4, <2>19, iputTwice
<1> QED BY <1>1, <1>4, <1>5, <1>6, <1>7

\* What mkfs writes of a device before the root directory.
Bares(f, g, d) ==
  /\ Fs(g) /\ g.minix = f.minix \cup {d} /\ g.sb = [f.sb EXCEPT ![d].count = 1]
  /\ g.ino = f.ino /\ g.mount = f.mount /\ g.panic = f.panic
  /\ g.imap = [f.imap EXCEPT ![d] = {1}] /\ g.zmap = [f.zmap EXCEPT ![d] = {}]

\* An unused device, as far as its inodes go.
Unused(g, d) ==
  /\ g.imap[d] = {1} /\ g.sb[d].imount = Null
  /\ \A nr \in Nr : g.ino[d][nr].type = "free" /\ Blocks(g.ino[d][nr]) = {}

\* mkfs clears the bitmaps of a device that never had a file system.
LEMMA BareSteady ==
  ASSUME NEW m, NEW f, Fit(m, f), NEW d \in Dev,
         f.panic = "none" => d \notin f.minix /\ ~ Loaded(f, d),
         NEW g, Bares(f, g, d)
  PROVE  Steady(m, f, g) /\ (g.panic = "none" => Unused(g, d))
<1> USE DEF Bares
<1> SUFFICES ASSUME g.panic = "none"
             PROVE  /\ Sound(m, g) /\ \A k \in Key : Own(f, k) => Own(g, k)
                    /\ Unused(g, d)
  BY DEF Steady
<1>1. Sound(m, f) /\ d \notin f.minix /\ ~ Loaded(f, d)
  BY DEF Fit
<1>2. \A k : Own(f, k) <=> Own(g, k)
  BY DEF Own, Ino
<1>3. /\ IsFcn(g.imap, Dev) /\ IsFcn(g.zmap, Dev)
      /\ \A e \in Dev : /\ g.imap[e] = IF e = d THEN {1} ELSE f.imap[e]
                        /\ g.zmap[e] = IF e = d THEN {} ELSE f.zmap[e]
  BY <1>1 DEF Sound, IsFcn
<1>4. \A nr \in Nr : f.ino[d][nr].type = "free" /\ Blocks(f.ino[d][nr]) = {}
  BY <1>1 DEF Sound, Clean
<1>5. \A e \in Dev : /\ g.sb[e].iroot = f.sb[e].iroot /\ g.sb[e].imount = f.sb[e].imount
                     /\ g.sb[e].count = IF e = d THEN 1 ELSE f.sb[e].count
  BY DEF Fit, Fs, Super
<1>6. g.sb[d].imount = Null
  <2>1. f.sb[d].count \in Nat /\ ~ (f.sb[d].count > 0)
    BY <1>1 DEF Fit, Fs, Super, Loaded
  <2>2. f.sb[d].imount # Null => f.sb[d].count > 0
    BY <1>1 DEF Sound, Rooted
  <2> QED BY <1>5, <2>1, <2>2
<1>7. f.minix \subseteq Dev /\ f.mount \in [Key -> Dev \cup {0}]
  BY DEF Fit, Fs
<1>8. Exact(g)
  <2> SUFFICES ASSUME NEW e \in g.minix PROVE Parts(g.zmap[e], g.ino[e])
    BY DEF Exact
  <2>1. CASE e = d
    <3>1. \A nr \in Nr : Has(g.ino[d][nr]) = {}
      BY <1>4 DEF Has
    <3> QED BY <1>3, <2>1, <3>1 DEF Parts
  <2>2. CASE e # d
    <3>1. e \in f.minix /\ e \in Dev
      BY <1>7, <2>2
    <3>2. Parts(f.zmap[e], f.ino[e])
      BY <1>1, <3>1 DEF Sound, Exact
    <3> QED BY <1>3, <2>2, <3>1, <3>2
  <2> QED BY <2>1, <2>2
<1>9. Rooted(g)
  <2>1. Rooted(f)
    BY <1>1 DEF Sound
  <2>2. ASSUME NEW e \in Dev
        PROVE  /\ g.sb[e].iroot # Null =>
                    g.sb[e].iroot[2] = 1 /\ g.sb[e].iroot[1] \in g.minix
               /\ g.sb[e].imount # Null => Own(g, g.sb[e].imount) /\ g.sb[e].count > 0
    BY <1>2, <1>5, <2>1 DEF Rooted
  <2>3. ASSUME NEW k \in Key, g.mount[k] # 0
        PROVE  g.sb[g.mount[k]].imount = k /\ g.sb[g.mount[k]].iroot # Null
    BY <1>5, <1>7, <2>1, <2>3 DEF Rooted
  <2> QED BY <2>2, <2>3 DEF Rooted
<1>10. \A e \in Dev, nr \in Nr : Clean(g, e, nr)
  <2> SUFFICES ASSUME NEW e \in Dev, NEW nr \in Nr PROVE Clean(g, e, nr)
    OBVIOUS
  <2>1. CASE e = d
    BY <1>4, <2>1 DEF Clean
  <2>2. CASE e # d
    <3>1. Clean(f, e, nr)
      BY <1>1 DEF Sound
    <3> QED BY <1>3, <2>2, <3>1 DEF Clean
  <2> QED BY <2>1, <2>2
<1>11. "mknod" \in m => Fresh(g)
  <2> SUFFICES ASSUME Fresh(f), NEW e \in g.minix
               PROVE  /\ 1 \in g.imap[e]
                      /\ \A nr \in Nr \ g.imap[e] : g.ino[e][nr].type = "free"
    BY <1>1 DEF Sound, Fresh
  <2>1. CASE e = d
    BY <1>3, <1>4, <2>1
  <2>2. CASE e # d
    BY <1>3, <1>7, <2>2 DEF Fresh
  <2> QED BY <2>1, <2>2
<1>12. Sound(m, g)
  BY <1>3, <1>8, <1>9, <1>10, <1>11 DEF Sound
<1> QED BY <1>2, <1>3, <1>4, <1>6, <1>12 DEF Unused

\* mkfs on a device that never had a file system.
LEMMA devmkfsSteady ==
  ASSUME NEW m, NEW f, Fit(m, f), NEW d \in Dev,
         f.panic = "none" => d \notin f.minix /\ ~ Loaded(f, d)
  PROVE  Steady(m, f, devmkfs(f, d))
<1> DEFINE bare == [f EXCEPT !.minix = @ \cup {d}, !.sb[d].count = 1,
                             !.imap[d] = {1}, !.zmap[d] = {},
                             !.stale[d] = [b \in Zone |->
                                IF b \in f.zmap[d] THEN Junk ELSE f.stale[d][b]]]
           k == <<d, 1>>
           y == [Ino(bare, k) EXCEPT !.type = "dir", !.nlinks = 2, !.size = 0,
                                     !.entries = Dots(1, 1)]
           root == [bare EXCEPT !.ino[d][1] =
                      [@ EXCEPT !.type = "dir", !.nlinks = 2, !.size = 0,
                                !.entries = Dots(1, 1)]]
           g == bmap_create(root, k, 0)
           h == [g EXCEPT !.sb = [g.sb EXCEPT ![d] = NoSuper]]
<1>1. devmkfs(f, d) = h
  BY DEF devmkfs
<1>2. root = Put(bare, k, y)
  <2> HIDE DEF bare
  <2>1. k[1] = d /\ k[2] = 1
    OBVIOUS
  <2>2. y = [bare.ino[d][1] EXCEPT !.type = "dir", !.nlinks = 2, !.size = 0,
                                   !.entries = Dots(1, 1)]
    BY <2>1 DEF Ino
  <2> HIDE DEF k, y
  <2>3. Put(bare, k, y) = [bare EXCEPT !.ino[d][1] = y]
    BY <2>1 DEF Put
  <2> QED BY <2>2, <2>3
<1>3. /\ IsFcn(bare, FsFields)
      /\ bare.minix = f.minix \cup {d} /\ bare.sb = [f.sb EXCEPT ![d].count = 1]
      /\ bare.ino = f.ino /\ bare.count = f.count /\ bare.mount = f.mount
      /\ bare.panic = f.panic /\ bare.imap = [f.imap EXCEPT ![d] = {1}]
      /\ bare.zmap = [f.zmap EXCEPT ![d] = {}]
  BY DEF Fit, Fs, IsFcn, FsFields
<1> HIDE DEF bare
<1>4. bare.sb \in [Dev -> Super]
  BY <1>3 DEF Fit, Fs, Super
<1>5. Fs(bare)
  BY <1>3, <1>4 DEF Fit, Fs
<1>6. Steady(m, f, bare) /\ (bare.panic = "none" => Unused(bare, d))
  <2>1. Bares(f, bare, d)
    BY <1>3, <1>5 DEF Bares
  <2> QED BY <2>1, BareSteady
<1>7. /\ 1 \in Nr /\ Place(k) /\ k \in Key /\ k[1] = d /\ k[2] = 1
      /\ Ino(bare, k) = bare.ino[d][1]
  <2>1. 1 \in Nr /\ k[1] = d /\ k[2] = 1
    BY RootKey
  <2>2. k \in Key
    BY <2>1 DEF Key
  <2>3. Place(k)
    BY <2>1, <2>2 DEF Place
  <2> HIDE DEF k
  <2> QED BY <2>1, <2>2, <2>3 DEF Ino
<1>8. IsDesc(y) /\ y.type = "dir" /\ Blocks(y) = Blocks(Ino(bare, k))
  <2> DEFINE x == Ino(bare, k)
  <2>1. IsDesc(x)
    BY <1>5, <1>7, InoDesc
  <2> HIDE DEF x
  <2>2. /\ IsFcn(y, DescFields) /\ y.type = "dir" /\ y.entries = Dots(1, 1)
        /\ y.zone = x.zone /\ y.index = x.index /\ y.far = x.far
    BY <2>1 DEF x, IsDesc, IsFcn, DescFields
  <2>3. Dots(1, 1) \in Seq(Entry)
    <3>1. 1 \in 0 .. NInode
      BY <1>7 DEF Nr
    <3>2. [name |-> ".", nr |-> 1] \in Entry /\ [name |-> "..", nr |-> 1] \in Entry
      BY <3>1 DEF Entry
    <3> QED BY <3>2 DEF Dots
  <2>4. IsDesc(y)
    BY <2>2, <2>3 DEF IsDesc
  <2> QED BY <2>2, <2>4 DEF Blocks, x
<1> HIDE DEF y, k, root
<1>9. Quiet(bare, root)
  BY <1>2, <1>5, <1>8, PutQuiet
<1>10. Steady(m, bare, root)
  <2>1. ASSUME bare.panic = "none" PROVE Taken(m, bare, k, y)
    <3>1. Owns(y) /\ Ino(bare, k).type # "blk" /\ Blocks(y) = Blocks(Ino(bare, k))
      BY <1>6, <1>7, <1>8, <2>1 DEF Owns, Unused
    <3>2. k \in Key /\ k[1] \in bare.minix /\ k[2] \in bare.imap[k[1]]
      BY <1>3, <1>6, <1>7, <2>1 DEF Unused
    <3> QED BY <3>1, <3>2 DEF Taken
  <2>2. Fit(m, bare) /\ Fs(Put(bare, k, y))
    BY <1>2, <1>6, <1>9, SteadyFit, QuietFs
  <2>3. Steady(m, bare, Put(bare, k, y))
    BY <2>1, <2>2, NewSteady
  <2> QED BY <1>2, <2>3
<1>11. Fit(m, root) /\ Holder(root, k)
  <2>1. Fit(m, root)
    BY <1>10, SteadyFit
  <2>2. Ino(root, k) = y
    <3>1. k \in Key /\ Place(k)
      BY <1>7
    <3>2. \A e \in Dev, nr \in Nr :
            root.ino[e][nr] = IF e = k[1] /\ nr = k[2] THEN y ELSE bare.ino[e][nr]
      BY <1>2, <1>5, PutAt
    <3> QED BY <1>7, <3>2 DEF Ino
  <2>3. Own(root, k)
    BY <1>8, <2>2 DEF Own, Owns
  <2> QED BY <1>7, <2>1, <2>3 DEF Holder
<1>12. Steady(m, root, g)
  BY <1>11, bmap_createSteady
<1>13. Quiet(root, g)
  BY <1>9, QuietFs, bmap_createQuiet
<1> HIDE DEF g
<1>14. g.sb = bare.sb
  BY <1>9, <1>13, QuietFs
<1>15. Steady(m, f, g)
  BY <1>6, <1>10, <1>12, SteadyAdd
<1>16. Steady(m, bare, g)
  BY <1>10, <1>12, SteadyAdd
<1>17. ASSUME g.panic = "none", NEW l \in Key, g.mount[l] = d PROVE FALSE
  <2>1. Rooted(g) /\ bare.panic = "none"
    BY <1>16, <1>17 DEF Steady, Sound
  <2>2. d # 0
    BY DEF Dev
  <2>3. g.sb[d].imount = l
    BY <1>17, <2>1, <2>2 DEF Rooted
  <2> QED BY <1>6, <1>14, <2>1, <2>3, KeyNotNull DEF Unused
<1>18. Fit(m, g)
  BY <1>15, SteadyFit
<1>19. Steady(m, g, h)
  BY <1>17, <1>18, NoSuperSteady
<1> HIDE DEF h
<1> QED BY <1>1, <1>15, <1>19, SteadyAdd

\* mkfs makes a file system where none was.
LEMMA MkfsSteady ==
  ASSUME NEW m, Fit(m, fs), Nodes(fs), NEW t, Grounded(fs, t),
         NEW path, IsPath(path), Mkfs(t, path), "reformat" \notin prog.risks
  PROVE  Steady(m, fs, fs')
<1> DEFINE n == namei(fs, t, path)
           d == Ino(n.fs, n.at).zone
<1>1. \/ fs' = iput(n.fs, n.at)
      \/ /\ n.at # Null /\ Ino(n.fs, n.at).type = "blk"
         /\ d \in n.fs.minix => Loaded(n.fs, d)
         /\ \/ ~ Loaded(n.fs, d) /\ fs' = iput(devmkfs(n.fs, d), n.at)
            \/ fs' = iput(Panic(n.fs, "stale_super"), n.at)
  BY DEF Mkfs
<1>2. Same(fs, n.fs) /\ n.at \in Key \cup {Null}
  BY nameiSame DEF Fit
<1> HIDE DEF n
<1>3. Steady(m, fs, n.fs) /\ Fit(m, n.fs) /\ Fs(n.fs) /\ Nodes(n.fs)
  BY <1>2, SameSteady, SteadyFit DEF Nodes, Same
<1>4. CASE fs' = iput(n.fs, n.at)
  BY <1>3, <1>4, iputTwice
<1>5. CASE /\ n.at # Null /\ Ino(n.fs, n.at).type = "blk"
           /\ d \in n.fs.minix => Loaded(n.fs, d)
           /\ ~ Loaded(n.fs, d) /\ fs' = iput(devmkfs(n.fs, d), n.at)
  <2>1. d \in Dev
    BY <1>2, <1>3, <1>5, NodeDev
  <2> HIDE DEF d
  <2> DEFINE g == devmkfs(n.fs, d)
  <2>2. d \notin n.fs.minix /\ ~ Loaded(n.fs, d) /\ fs' = iput(g, n.at)
    BY <1>5
  <2>3. Steady(m, n.fs, g)
    BY <1>3, <2>1, <2>2, devmkfsSteady
  <2> HIDE DEF g
  <2>4. Steady(m, fs, g)
    BY <1>3, <2>3, SteadyAdd
  <2> QED BY <2>2, <2>4, iputTwice
<1>6. CASE fs' = iput(Panic(n.fs, "stale_super"), n.at)
  <2> DEFINE g == Panic(n.fs, "stale_super")
  <2>1. Same(n.fs, g)
    BY <1>3, PanicSame
  <2>2. fs' = iput(g, n.at)
    BY <1>6
  <2> HIDE DEF g
  <2>3. Steady(m, n.fs, g)
    BY <1>3, <2>1, SameSteady
  <2>4. Steady(m, fs, g)
    BY <1>3, <2>3, SteadyAdd
  <2> QED BY <2>2, <2>4, iputTwice
<1> QED BY <1>1, <1>4, <1>5, <1>6

-----------------------------------------------------------------------------
(* Every step, and the first state. *)

\* A program that does not make the disk lose track of a device node: it unlinks
\* none and formats no device twice, and does not both make nodes and remove
\* names.  It ends where a block that was used before becomes one of indexes.
Careful(p) ==
  /\ p.risks \cap {"node_unlink", "reformat", "stale_index"} = {}
  /\ "mknod" \notin p.calls \/ p.calls \cap {"unlink", "rmdir"} = {}

ZonesInv ==
  /\ FilesInv
  /\ fs.panic = "none" => Sound(prog.calls, fs) /\ Based(fs, task)

\* A call on the path of a program.
LEMMA PathStands ==
  ASSUME ZonesInv, fs.panic = "none", Careful(prog), NEW t \in Task,
         NEW path \in prog.paths,
         \/ Mkdir(t, path) \/ Rmdir(t, path) \/ Unlink(t, path)
         \/ \E d \in Dev : Mknod(t, path, d)
         \/ \E new \in prog.paths : Link(t, path, new)
         \/ Stat(t, path)
         \/ \E elf \in BOOLEAN : Execve(t, path, elf)
         \/ Umount(t, path) \/ Mkfs(t, path)
         \/ \E on \in prog.dirs : Mount(t, path, on)
         \/ \E creat, trunc, read, write \in BOOLEAN :
              Open(t, path, creat, trunc, read, write)
  PROVE  Stands(prog.calls)
<1> DEFINE m == prog.calls
<1>1. /\ Fit(m, fs) /\ Based(fs, task) /\ Tables(task, file) /\ Nodes(fs)
      /\ \A p \in prog.paths \cup prog.dirs : IsPath(p)
  BY ProgramPaths DEF ZonesInv, FilesInv, Fit
<1>2. IsPath(path)
  BY <1>1
<1>3. /\ "node_unlink" \notin prog.risks /\ "reformat" \notin prog.risks
      /\ "unlink" \in m \/ "rmdir" \in m => "mknod" \notin m
  BY DEF Careful
<1> HIDE DEF m
<1>4. (task[t].alive => Grounded(fs, t)) /\ Kept(task, task)
  BY <1>1, Stage
<1>5. ASSUME task' = task, Steady(m, fs, fs') PROVE Stands(m)
  BY <1>1, <1>4, <1>5, KeptStands
<1>6. CASE Mkdir(t, path)
  <2>1. task' = task /\ task[t].alive
    BY <1>6 DEF Mkdir, Calling
  <2> QED BY <1>1, <1>2, <1>4, <1>5, <1>6, <2>1, MkdirSteady DEF m
<1>7. CASE Rmdir(t, path)
  <2>1. task' = task /\ task[t].alive /\ "rmdir" \in m
    BY <1>7 DEF Rmdir, Calling, m
  <2> QED BY <1>1, <1>2, <1>3, <1>4, <1>5, <1>7, <2>1, RmdirSteady DEF m
<1>8. CASE Unlink(t, path)
  <2>1. task' = task /\ task[t].alive /\ "unlink" \in m
    BY <1>8 DEF Unlink, Calling, m
  <2> QED BY <1>1, <1>2, <1>3, <1>4, <1>5, <1>8, <2>1, UnlinkSteady DEF m
<1>9. ASSUME NEW d \in Dev, Mknod(t, path, d) PROVE Stands(m)
  <2>1. task' = task /\ task[t].alive /\ "mknod" \in m
    BY <1>9 DEF Mknod, Calling, m
  <2> QED BY <1>1, <1>2, <1>4, <1>5, <1>9, <2>1, MknodSteady
<1>10. ASSUME NEW new \in prog.paths, Link(t, path, new) PROVE Stands(m)
  <2>1. task' = task /\ task[t].alive /\ IsPath(new)
    BY <1>1, <1>10 DEF Link, Calling
  <2> QED BY <1>1, <1>2, <1>4, <1>5, <1>10, <2>1, LinkSteady
<1>11. CASE Stat(t, path)
  <2>1. task' = task /\ task[t].alive
    BY <1>11 DEF Stat, Calling
  <2> QED BY <1>1, <1>2, <1>4, <1>5, <1>11, <2>1, StatSteady DEF m
<1>12. ASSUME NEW elf \in BOOLEAN, Execve(t, path, elf) PROVE Stands(m)
  BY <1>1, <1>2, <1>12, ExecveStands
<1>13. CASE Umount(t, path)
  <2>1. task' = task /\ task[t].alive
    BY <1>13 DEF Umount, Calling
  <2> QED BY <1>1, <1>2, <1>4, <1>5, <1>13, <2>1, UmountSteady DEF m
<1>14. CASE Mkfs(t, path)
  <2>1. task' = task /\ task[t].alive
    BY <1>14 DEF Mkfs, Calling
  <2> QED BY <1>1, <1>2, <1>3, <1>4, <1>5, <1>14, <2>1, MkfsSteady DEF m
<1>15. ASSUME NEW on \in prog.dirs, Mount(t, path, on) PROVE Stands(m)
  <2>1. task' = task /\ task[t].alive /\ IsPath(on)
    BY <1>1, <1>15 DEF Mount, Calling
  <2> QED BY <1>1, <1>2, <1>4, <1>5, <1>15, <2>1, MountSteady
<1>16. ASSUME NEW creat \in BOOLEAN, NEW trunc \in BOOLEAN, NEW read \in BOOLEAN,
              NEW write \in BOOLEAN, Open(t, path, creat, trunc, read, write)
       PROVE  Stands(m)
  BY <1>1, <1>2, <1>16, OpenStands
<1> QED BY <1>6, <1>7, <1>8, <1>9, <1>10, <1>11, <1>12, <1>13, <1>14, <1>15, <1>16 DEF m

\* Every step leaves a sound file system.
LEMMA StepStands ==
  ASSUME ZonesInv, Careful(prog), FilesNext
  PROVE  Stands(prog.calls)
<1> DEFINE m == prog.calls
<1>1. /\ Fit(m, fs) /\ Based(fs, task) /\ Tables(task, file) /\ fs.panic = "none"
      /\ \A p \in prog.paths \cup prog.dirs : IsPath(p)
  BY ProgramPaths DEF ZonesInv, FilesInv, Fit, FilesNext, Careful
<1> HIDE DEF m
<1>2. ASSUME NEW t \in Task, NEW path \in prog.dirs, NEW which \in {"ipwd", "iroot"},
             Enter(t, path, which)
      PROVE  Stands(m)
  <2>1. IsPath(path)
    BY <1>1
  <2> QED BY <1>1, <1>2, <2>1, EnterStands
<1>3. ASSUME NEW t \in Task, NEW child \in Task, Fork(t, child)
      PROVE  Stands(m)
  BY <1>1, <1>3, ForkStands
<1>4. ASSUME NEW t \in Task, Exit(t)
      PROVE  Stands(m)
  BY <1>1, <1>4, ExitStands
<1>5. ASSUME NEW t \in Task, NEW fd \in Fd,
             \/ Close(t, fd) \/ Dup(t, fd)
             \/ \E new \in Fd : Dup2(t, fd, new)
             \/ \E to \in Offset : Lseek(t, fd, to)
             \/ Read(t, fd) \/ Write(t, fd)
      PROVE  Stands(m)
  <2>1. CASE Write(t, fd)
    BY <1>1, <2>1, WriteStands DEF m
  <2>2. CASE ~ Write(t, fd)
    <3>1. \/ Close(t, fd) \/ Dup(t, fd) \/ Read(t, fd)
          \/ \E new \in Fd : Dup2(t, fd, new)
          \/ \E to \in Offset : Lseek(t, fd, to)
      BY <1>5, <2>2
    <3> QED BY <1>1, <3>1, FileStands DEF m
  <2> QED BY <2>1, <2>2
<1> QED BY <1>1, <1>2, <1>3, <1>4, <1>5, PathStands DEF FilesNext, m

\* The file system stays sound, after every step.
LEMMA ZonesStep ==
  ASSUME ZonesInv, Careful(prog), [FilesNext]_fileVars
  PROVE  ZonesInv'
<1>1. FilesInv'
  BY FilesStep DEF ZonesInv
<1>2. CASE FilesNext
  <2>1. Accounts(Root)
    BY <1>2, RootKey, StepAccounts DEF ZonesInv
  <2>2. prog' = prog
    BY <2>1 DEF Accounts
  <2>3. Stands(prog.calls)
    BY <1>2, StepStands
  <2>4. ASSUME fs'.panic = "none"
        PROVE  Sound(prog'.calls, fs') /\ Based(fs', task')
    BY <2>2, <2>3, <2>4 DEF Stands, Steady
  <2> QED BY <1>1, <2>4 DEF ZonesInv, Sound, Based, Exact, Rooted, Clean, Fresh, Own
<1>3. CASE UNCHANGED fileVars
  BY <1>1, <1>3 DEF fileVars, ZonesInv, Sound, Based, Exact, Rooted, Clean, Fresh, Own
<1> QED BY <1>2, <1>3

\* The first disk: a directory with one block, the node of a device, and nothing.
LEMMA FirstDisk ==
  /\ RootDisk[1].type = "dir" /\ Blocks(RootDisk[1]) = {Min(Zone)}
  /\ RootDisk[2].type = "blk" /\ 2 \in Nr
  /\ \A nr \in Nr \ {1, 2} : RootDisk[nr] = Blank
  /\ Blank.type = "free" /\ Blocks(Blank) = {}
<1> DEFINE z == Min(Zone)
           a == [Blank EXCEPT !.type = "dir", !.nlinks = 2, !.zone = z,
                              !.entries = RootEntries]
           b == [Blank EXCEPT !.type = "blk", !.nlinks = 1, !.zone = NDev]
<1>1. 1 \in Nr /\ 2 \in Nr
  BY RootKey, NodeAssumption, SizesAssumption DEF Nr
<1>2. z # 0
  <2>1. Zone \in SUBSET Nat /\ Zone # {}
    BY SizesAssumption DEF Zone
  <2>2. z \in Zone
    BY <2>1, MinExists
  <2> QED BY <2>2, SizesAssumption DEF Zone
<1>3. RootDisk = [nr \in Nr |-> CASE nr = 1 -> a [] nr = 2 -> b [] OTHER -> Blank]
  BY DEF RootDisk
<1> HIDE DEF z
<1>4. a.type = "dir" /\ a.zone = z /\ a.index = 0 /\ a.far = 0
  BY DEF Blank
<1>5. b.type = "blk"
  BY DEF Blank
<1>6. Blank.type = "free" /\ Blank.zone = 0 /\ Blank.index = 0 /\ Blank.far = 0
  BY DEF Blank
<1> HIDE DEF a, b
<1>7. RootDisk[1] = a /\ RootDisk[2] = b /\ \A nr \in Nr \ {1, 2} : RootDisk[nr] = Blank
  BY <1>1, <1>3
<1>8. Blocks(a) = {z} /\ Blocks(Blank) = {}
  BY <1>2, <1>4, <1>6 DEF Blocks
<1> QED BY <1>1, <1>4, <1>5, <1>6, <1>7, <1>8 DEF z

\* The first state is sound.
LEMMA FirstSound ==
  ASSUME FilesInit, NEW m
  PROVE  Sound(m, fs) /\ Based(fs, task)
<1> DEFINE z == Min(Zone)
           row == [nr \in Nr |-> Blank]
           top == [count |-> 1, iroot |-> Root, imount |-> Root]
           init == [NoTask EXCEPT !.alive = TRUE, !.iroot = Root, !.ipwd = Root]
<1>1. /\ fs.imap = [d \in Dev |-> IF d = 1 THEN {1, 2} ELSE {}]
      /\ fs.zmap = [d \in Dev |-> IF d = 1 THEN {z} ELSE {}]
      /\ fs.ino = [d \in Dev |-> IF d = 1 THEN RootDisk ELSE row]
      /\ fs.mount = [k \in Key |-> IF k = Root THEN 1 ELSE 0]
      /\ fs.sb = [d \in Dev |-> IF d = 1 THEN top ELSE NoSuper]
      /\ fs.minix = {1}
      /\ task = [t \in Task |-> IF t = 1 THEN init ELSE NoTask]
  <2> HIDE DEF z, row, top, init
  <2> QED BY DEF FilesInit, z, row, top, init
<1>2. /\ top.count = 1 /\ top.iroot = Root /\ top.imount = Root
      /\ NoSuper.iroot = Null /\ NoSuper.imount = Null
  BY DEF NoSuper
<1>3. init.iroot = Root /\ init.ipwd = Root /\ ~ NoTask.alive
  BY NoTaskIs DEF NoTask
<1>4. \A nr \in Nr : row[nr] = Blank
  OBVIOUS
<1> HIDE DEF row, top, init, z
<1>5. Root \in Key /\ 1 \in Dev /\ 1 \in Nr /\ Root[1] = 1 /\ Root[2] = 1
  BY RootKey DEF Root
<1>6. /\ RootDisk[1].type = "dir" /\ Blocks(RootDisk[1]) = {z}
      /\ RootDisk[2].type = "blk" /\ 2 \in Nr
      /\ \A nr \in Nr \ {1, 2} : RootDisk[nr] = Blank
      /\ Blank.type = "free" /\ Blocks(Blank) = {}
  BY FirstDisk DEF z
<1>7. fs.ino[1] = RootDisk /\ fs.imap[1] = {1, 2} /\ fs.zmap[1] = {z}
      /\ \A d \in Dev \ {1} : fs.ino[d] = row
  BY <1>1, <1>5
<1>8. Own(fs, Root)
  BY <1>5, <1>6, <1>7 DEF Own, Owns, Ino
<1>9. Exact(fs)
  <2>1. Has(RootDisk[1]) = {z} /\ \A nr \in Nr \ {1} : Has(RootDisk[nr]) = {}
    BY <1>6 DEF Has, Owns
  <2>2. Parts({z}, RootDisk)
    <3>1. {z} = UNION {Has(RootDisk[nr]) : nr \in Nr}
      BY <1>5, <2>1
    <3>2. \A i, j \in Nr : i # j => Has(RootDisk[i]) \cap Has(RootDisk[j]) = {}
      BY <2>1
    <3> QED BY <3>1, <3>2 DEF Parts
  <2> QED BY <1>1, <1>7, <2>2 DEF Exact
<1>10. Rooted(fs)
  <2>1. ASSUME NEW d \in Dev
        PROVE  /\ fs.sb[d].iroot # Null =>
                    fs.sb[d].iroot[2] = 1 /\ fs.sb[d].iroot[1] \in fs.minix
               /\ fs.sb[d].imount # Null => Own(fs, fs.sb[d].imount) /\ fs.sb[d].count > 0
    <3>1. CASE d = 1
      <4>1. fs.sb[d] = top
        BY <1>1, <3>1
      <4> QED BY <1>1, <1>2, <1>5, <1>8, <4>1
    <3>2. CASE d # 1
      BY <1>1, <1>2, <3>2
    <3> QED BY <3>1, <3>2
  <2>2. ASSUME NEW k \in Key, fs.mount[k] # 0
        PROVE  fs.sb[fs.mount[k]].imount = k /\ fs.sb[fs.mount[k]].iroot # Null
    <3>1. k = Root /\ fs.mount[k] = 1
      BY <1>1, <2>2
    <3>2. fs.sb[1] = top
      BY <1>1, <1>5
    <3> QED BY <1>2, <1>5, <3>1, <3>2, KeyNotNull
  <2> QED BY <2>1, <2>2 DEF Rooted
<1>11. ASSUME NEW d \in Dev, NEW nr \in Nr PROVE Clean(fs, d, nr)
  <2>1. CASE d # 1
    BY <1>4, <1>6, <1>7, <2>1 DEF Clean
  <2>2. CASE d = 1 /\ nr = 1
    BY <1>1, <1>6, <1>7, <2>2 DEF Clean, Owns
  <2>3. CASE d = 1 /\ nr = 2
    BY <1>1, <1>6, <1>7, <2>3 DEF Clean
  <2>4. CASE d = 1 /\ nr \notin {1, 2}
    BY <1>6, <1>7, <2>4 DEF Clean
  <2> QED BY <2>1, <2>2, <2>3, <2>4
<1>12. Fresh(fs)
  BY <1>1, <1>6, <1>7 DEF Fresh
<1>13. IsFcn(fs.imap, Dev) /\ IsFcn(fs.zmap, Dev)
  BY <1>1 DEF IsFcn
<1>14. Based(fs, task)
  BY <1>1, <1>3, <1>5, <1>8 DEF Based
<1> QED BY <1>9, <1>10, <1>11, <1>12, <1>13, <1>14 DEF Sound

(***************************************************************************)
(* For programs that unlink no device node, format no device twice, and do *)
(* not both make nodes and remove names: until a block that was used       *)
(* before becomes a block of indexes, on every device with a file system   *)
(* the blocks the bitmap marks are exactly those that its files and        *)
(* directories name, and no block is named twice, whatever calls they make *)
(* and in whatever order, with mounts, failures and half done calls.  What *)
(* is excluded goes wrong: balloc hands out a block of indexes with the    *)
(* indexes it had before, which bmap takes for blocks of this file; an     *)
(* unlinked node leaves its device number in zone[0] for the next file in  *)
(* that inode (inode_truncate), a node made in the inode of a file         *)
(* unlinked while open shares zone[0] with what is written to that file,   *)
(* and a device formatted again keeps its inodes.                          *)
(***************************************************************************)
THEOREM FilesZonesExact ==
  ASSUME \A p \in Programs :
           /\ p.risks \cap {"node_unlink", "reformat", "stale_index"} = {}
           /\ "mknod" \notin p.calls \/ p.calls \cap {"unlink", "rmdir"} = {}
  PROVE  FilesSpec => []ZonesExact
<1>1. FilesInit => ZonesInv
  BY FirstFs, FirstTables, FirstSound DEF ZonesInv, FilesInv
<1>2. ZonesInv /\ [FilesNext]_fileVars => ZonesInv'
  <2> SUFFICES ASSUME ZonesInv, [FilesNext]_fileVars PROVE ZonesInv'
    OBVIOUS
  <2>1. Careful(prog)
    BY DEF ZonesInv, FilesInv, Careful
  <2> QED BY <2>1, ZonesStep
<1>3. ZonesInv => ZonesExact
  <2> SUFFICES ASSUME ZonesInv, fs.panic = "none", NEW d \in fs.minix
               PROVE  LET desc == fs.ino[d] IN
                      /\ UNION {Blocks(desc[nr]) : nr \in Owners(d)} = fs.zmap[d]
                      /\ \A m, n \in Owners(d) :
                           m # n => Blocks(desc[m]) \cap Blocks(desc[n]) = {}
    BY DEF ZonesExact, Running
  <2> DEFINE desc == fs.ino[d]
  <2>1. Parts(fs.zmap[d], desc)
    BY DEF ZonesInv, Sound, Exact
  <2>2. /\ Owners(d) \subseteq Nr
        /\ \A nr \in Owners(d) : Has(desc[nr]) = Blocks(desc[nr])
        /\ \A nr \in Nr \ Owners(d) : Has(desc[nr]) = {}
    BY DEF Owners, Has, Owns
  <2> HIDE DEF desc
  <2>3. UNION {Blocks(desc[nr]) : nr \in Owners(d)} = UNION {Has(desc[nr]) : nr \in Nr}
    BY <2>2
  <2>4. UNION {Blocks(desc[nr]) : nr \in Owners(d)} = fs.zmap[d]
    BY <2>1, <2>3 DEF Parts
  <2>5. \A m, n \in Owners(d) : m # n => Blocks(desc[m]) \cap Blocks(desc[n]) = {}
    BY <2>1, <2>2 DEF Parts
  <2> QED BY <2>4, <2>5 DEF desc
<1> QED BY <1>1, <1>2, <1>3, PTL DEF FilesSpec
=============================================================================
