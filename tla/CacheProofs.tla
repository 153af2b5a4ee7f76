----------------------------- MODULE CacheProofs -----------------------------
(***************************************************************************)
(* Proofs about the buffer cache, for any number of tasks, blocks and      *)
(* buffers: counts and free list are exact, no buffer is wasted, and with  *)
(* room for every block the readers see the latest contents.               *)
(***************************************************************************)
EXTENDS Cache, SchedProofs, FiniteSetTheorems

(***************************************************************************)
(* The list w has nothing twice.                                           *)
(***************************************************************************)
Distinct(w) == \A i, j \in DOMAIN w : w[i] = w[j] => i = j

(***************************************************************************)
(* The task that runs, and idle, are not asleep; idle uses no buffer.      *)
(***************************************************************************)
CurrentAwake ==
  state[current] # "BLOCKED" /\ state[Idle] # "BLOCKED" /\ pc[Idle] = "user"

(***************************************************************************)
(* A task has a block in mind from bread to brelse, and a buffer once      *)
(* getblk has found one.  Every buffer in use or in the table is one of    *)
(* those made so far.                                                      *)
(***************************************************************************)
Locals ==
  /\ \A t \in Tasks : pc[t] \in {"user", "free"} => buf[t] = None
  /\ \A t \in Tasks : pc[t] \notin {"user", "free"} => buf[t] \in 1 .. used
  /\ \A t \in Tasks : pc[t] # "user" => want[t] \in Blocks
  /\ \A i \in DOMAIN chain : chain[i] \in 1 .. used
  /\ \A b \in 1 .. used : block[b] \in Blocks

(***************************************************************************)
(* The free list has the buffers without a reference, each once.           *)
(***************************************************************************)
FreeExact ==
  /\ Distinct(freeList)
  /\ \A b \in Bufs : Queued(freeList, b) <=> b \in 1 .. used /\ count[b] = 0

(***************************************************************************)
(* The count of a buffer is the number of its holders.                     *)
(***************************************************************************)
CountsExact == \A b \in 1 .. used : count[b] = Cardinality(Holders(b))

(***************************************************************************)
(* wait_list has each task once that sleeps in get_free_cache, and there   *)
(* is no room for a new buffer then.                                       *)
(***************************************************************************)
WaitersAsleep ==
  /\ Distinct(waitList)
  /\ \A t \in Tasks : Queued(waitList, t) => pc[t] = "free" /\ state[t] = "BLOCKED"
  /\ waitList # << >> => used = room

(***************************************************************************)
(* The queue of a buffer's mutex has each task once that sleeps for it.    *)
(***************************************************************************)
LockersAsleep == \A b \in Bufs :
  /\ Distinct(lockWaiters[b])
  /\ \A t \in Tasks : Queued(lockWaiters[b], t) =>
       pc[t] = "lock" /\ state[t] = "BLOCKED" /\ buf[t] = b

(***************************************************************************)
(* The tasks that will take a free buffer or wake somebody who will.       *)
(***************************************************************************)
Wakers == {t \in Tasks :
             pc[t] = "release" \/ (pc[t] = "free" /\ state[t] # "BLOCKED")}

(***************************************************************************)
(* While tasks wait there is a waker for every free buffer.                *)
(***************************************************************************)
WakersSuffice == waitList # << >> => Len(freeList) <= Cardinality(Wakers)

(***************************************************************************)
(* The inductive invariant behind FreeIsUnused and NoBufferWasted.         *)
(***************************************************************************)
CacheInv == panic = "none" =>
  /\ TypeOK /\ CurrentAwake /\ Locals /\ FreeExact /\ CountsExact
  /\ WaitersAsleep /\ LockersAsleep /\ WakersSuffice

-----------------------------------------------------------------------------

(***************************************************************************)
(* There is a buffer for every block, so that none is ever taken away.     *)
(***************************************************************************)
Roomy == room >= Cardinality(Blocks)

(***************************************************************************)
(* The buffers made are in the table, one per block; a task that looks for *)
(* a free one wants a block that has none, and nobody ran since it missed. *)
(***************************************************************************)
OnePerBlock ==
  /\ waitList = << >>
  /\ \A t \in Tasks : pc[t] = "free" =>
       t = current /\ \A b \in 1 .. used : block[b] # want[t]
  /\ \A b \in 1 .. used : Queued(chain, b)
  /\ \A a, b \in 1 .. used : block[a] = block[b] => a = b
  /\ \A t \in Tasks : pc[t] \notin {"user", "free"} => block[buf[t]] = want[t]

(***************************************************************************)
(* A buffer is read once, by the task that has its mutex, before anybody   *)
(* gets to hold it.                                                        *)
(***************************************************************************)
ReadOnce ==
  /\ \A t \in Tasks : pc[t] \in {"hold", "bwrite", "other", "release"} =>
       valid[buf[t]]
  /\ \A t \in Tasks : pc[t] = "read" =>
       /\ locked[buf[t]] /\ ~ valid[buf[t]]
       /\ state[t] # "BLOCKED" => data[buf[t]] = latest[want[t]]
  /\ \A s, t \in Tasks :
       pc[s] = "read" /\ pc[t] = "read" /\ buf[s] = buf[t] => s = t

(***************************************************************************)
(* The latest contents of a block are in its valid buffer, or on the disk  *)
(* if it has none.                                                         *)
(***************************************************************************)
LatestKept ==
  /\ \A b \in Bufs : b > used => ~ valid[b]
  /\ \A b \in 1 .. used : valid[b] => data[b] = latest[block[b]]
  /\ \A k \in Blocks :
       (\A b \in 1 .. used : block[b] = k => ~ valid[b]) => disk[k] = latest[k]

(***************************************************************************)
(* What HoldersSeeLatest needs beyond CacheInv.                            *)
(***************************************************************************)
FreshInv == Roomy => panic = "none" /\ OnePerBlock /\ ReadOnce /\ LatestKept

-----------------------------------------------------------------------------
(* Lists. *)

(***************************************************************************)
(* list_push of something that is not on the list.                         *)
(***************************************************************************)
LEMMA PushQueued ==
  ASSUME NEW S, NEW w \in Seq(S), NEW e \in S
  PROVE  /\ << e >> \o w \in Seq(S)
         /\ Len(<< e >> \o w) = Len(w) + 1
         /\ \A s : Queued(<< e >> \o w, s) <=> Queued(w, s) \/ s = e
         /\ Distinct(w) /\ ~ Queued(w, e) => Distinct(<< e >> \o w)
<1> DEFINE p == << e >> \o w
<1>1. /\ p \in Seq(S) /\ Len(p) = Len(w) + 1
      /\ DOMAIN w = 1 .. Len(w) /\ DOMAIN p = 1 .. Len(w) + 1
      /\ p[1] = e
      /\ \A i \in 1 .. Len(w) : p[i + 1] = w[i]
      /\ Len(w) \in Nat
  OBVIOUS
<1> HIDE DEF p
<1>2. \A i \in DOMAIN p : i = 1 \/ (i - 1 \in DOMAIN w /\ p[i] = w[i - 1])
  <2> SUFFICES ASSUME NEW i \in DOMAIN p, i # 1
               PROVE  i - 1 \in DOMAIN w /\ p[i] = w[i - 1]
    OBVIOUS
  <2>1. i - 1 \in 1 .. Len(w) /\ (i - 1) + 1 = i
    BY <1>1
  <2> QED BY <1>1, <2>1
<1>3. ASSUME NEW s PROVE Queued(p, s) <=> Queued(w, s) \/ s = e
  <2>1. ASSUME NEW i \in DOMAIN p, p[i] = s PROVE Queued(w, s) \/ s = e
    BY <1>1, <1>2, <2>1 DEF Queued
  <2>2. ASSUME NEW i \in DOMAIN w, w[i] = s PROVE Queued(p, s)
    <3>1. i + 1 \in DOMAIN p
      BY <1>1
    <3> QED BY <1>1, <2>2, <3>1 DEF Queued
  <2>3. Queued(p, e)
    <3>1. 1 \in DOMAIN p
      BY <1>1
    <3> QED BY <1>1, <3>1 DEF Queued
  <2> QED BY <2>1, <2>2, <2>3 DEF Queued
<1>4. ASSUME Distinct(w), ~ Queued(w, e),
             NEW i \in DOMAIN p, NEW j \in DOMAIN p, p[i] = p[j]
      PROVE  i = j
  <2>1. i = 1 \/ (i - 1 \in DOMAIN w /\ p[i] = w[i - 1])
    BY <1>2
  <2>2. j = 1 \/ (j - 1 \in DOMAIN w /\ p[j] = w[j - 1])
    BY <1>2
  <2>3. CASE i = 1
    BY <1>1, <1>4, <2>2, <2>3 DEF Queued
  <2>4. CASE j = 1
    BY <1>1, <1>4, <2>1, <2>4 DEF Queued
  <2>5. CASE i # 1 /\ j # 1
    <3>1. i - 1 = j - 1
      BY <1>4, <2>1, <2>2, <2>5 DEF Distinct
    <3> QED BY <1>1, <3>1
  <2> QED BY <2>3, <2>4, <2>5
<1> QED BY <1>1, <1>3, <1>4 DEF p, Distinct

(***************************************************************************)
(* list_popback.                                                           *)
(***************************************************************************)
LEMMA FrontQueued ==
  ASSUME NEW S, NEW w \in Seq(S), w # << >>, Distinct(w)
  PROVE  /\ Last(w) \in S /\ Front(w) \in Seq(S)
         /\ Len(Front(w)) = Len(w) - 1
         /\ Queued(w, Last(w))
         /\ \A s : Queued(Front(w), s) <=> Queued(w, s) /\ s # Last(w)
         /\ Distinct(Front(w))
<1>1. /\ DOMAIN w = 1 .. Len(w) /\ Len(w) \in Nat \ {0}
      /\ Front(w) \in Seq(S) /\ Len(Front(w)) = Len(w) - 1
      /\ DOMAIN Front(w) = 1 .. Len(w) - 1
      /\ \A i \in 1 .. Len(w) - 1 : Front(w)[i] = w[i]
      /\ Last(w) = w[Len(w)]
  <2>1. Len(w) \in Nat \ {0} /\ DOMAIN w = 1 .. Len(w)
    OBVIOUS
  <2>2. /\ SubSeq(w, 1, Len(w) - 1) \in Seq(S)
        /\ Len(SubSeq(w, 1, Len(w) - 1)) = Len(w) - 1
        /\ \A i \in 1 .. Len(w) - 1 : SubSeq(w, 1, Len(w) - 1)[i] = w[i]
    BY <2>1
  <2>3. /\ Front(w) \in Seq(S) /\ Len(Front(w)) = Len(w) - 1
        /\ \A i \in 1 .. Len(w) - 1 : Front(w)[i] = w[i]
    BY <2>2 DEF Front
  <2>4. DOMAIN Front(w) = 1 .. Len(w) - 1
    BY <2>3
  <2> QED BY <2>1, <2>3, <2>4 DEF Last
<1>2. Len(w) \in DOMAIN w /\ \A i \in DOMAIN Front(w) : i \in DOMAIN w /\ i # Len(w)
  BY <1>1
<1>3. Last(w) \in S /\ Queued(w, Last(w))
  BY <1>1, <1>2 DEF Queued
<1>4. ASSUME NEW s
      PROVE  Queued(Front(w), s) <=> Queued(w, s) /\ s # Last(w)
  <2>1. ASSUME NEW i \in DOMAIN Front(w), Front(w)[i] = s
        PROVE  Queued(w, s) /\ s # Last(w)
    BY <1>1, <1>2, <2>1 DEF Queued, Distinct
  <2>2. ASSUME NEW i \in DOMAIN w, w[i] = s, s # Last(w)
        PROVE  Queued(Front(w), s)
    <3>1. i \in DOMAIN Front(w)
      BY <1>1, <2>2
    <3> QED BY <1>1, <2>2, <3>1 DEF Queued
  <2> QED BY <2>1, <2>2 DEF Queued
<1>5. Distinct(Front(w))
  BY <1>1, <1>2 DEF Distinct
<1> QED BY <1>1, <1>3, <1>4, <1>5

(***************************************************************************)
(* list_remove takes a node off a list and leaves the others.              *)
(***************************************************************************)
LEMMA WithoutQueued ==
  ASSUME NEW S, NEW w \in Seq(S), NEW b
  PROVE  /\ Without(w, b) \in Seq(S)
         /\ Len(Without(w, b)) <= Len(w)
         /\ \A s : Queued(Without(w, b), s) => Queued(w, s)
         /\ Distinct(w) =>
              /\ Distinct(Without(w, b))
              /\ \A s : Queued(Without(w, b), s) <=> Queued(w, s) /\ s # b
<1> DEFINE At == {i \in DOMAIN w : w[i] = b}
<1>1. CASE At = {}
  <2>1. Without(w, b) = w
    BY <1>1 DEF Without
  <2> QED BY <1>1, <2>1 DEF Queued
<1>2. CASE At # {}
  <2>1. At \in SUBSET Nat
    OBVIOUS
  <2>2. Min(At) \in At
    <3> HIDE DEF At
    <3> QED BY <1>2, <2>1, MinExists
  <2>3. PICK a \in 1 .. Len(w) : w[a] = b /\ Min(At) = a
    <3>1. PICK m : m = Min(At)
      OBVIOUS
    <3>2. m \in At
      BY <2>2, <3>1
    <3>3. m \in 1 .. Len(w) /\ w[m] = b
      BY <3>2
    <3> QED BY <3>1, <3>3, Zenon
  <2> DEFINE r == ListRemove(w, a)
  <2>4. Without(w, b) = r
    BY <1>2, <2>3 DEF Without, RemoveAt, ListRemove
  <2>5. /\ r \in Seq(S) /\ Len(r) = Len(w) - 1
        /\ \A i \in 1 .. Len(w) - 1 : r[i] = IF i < a THEN w[i] ELSE w[i + 1]
    BY RemoveElements
  <2> HIDE DEF r
  <2>6. DOMAIN r = 1 .. Len(w) - 1 /\ DOMAIN w = 1 .. Len(w) /\ Len(w) \in Nat
    BY <2>5
  <2> DEFINE Old(i) == IF i < a THEN i ELSE i + 1
  <2>7. ASSUME NEW i \in DOMAIN r
        PROVE  Old(i) \in DOMAIN w /\ r[i] = w[Old(i)] /\ Old(i) # a
    BY <2>5, <2>6
  <2>8. ASSUME NEW s, Queued(r, s) PROVE Queued(w, s)
    BY <2>7, <2>8 DEF Queued
  <2>9. ASSUME Distinct(w) PROVE Distinct(r)
    <3> SUFFICES ASSUME NEW i \in DOMAIN r, NEW j \in DOMAIN r, r[i] = r[j]
                 PROVE  i = j
      BY DEF Distinct
    <3>1. Old(i) = Old(j)
      <4> HIDE DEF Old
      <4> QED BY <2>7, <2>9 DEF Distinct
    <3> QED BY <2>6, <3>1
  <2>10. ASSUME Distinct(w), NEW s, Queued(r, s) PROVE s # b
    <3>1. PICK i \in DOMAIN r : r[i] = s
      BY <2>10 DEF Queued
    <3> HIDE DEF Old
    <3> QED BY <2>3, <2>6, <2>7, <2>10, <3>1 DEF Distinct
  <2>11. ASSUME NEW s, Queued(w, s), s # b PROVE Queued(r, s)
    <3>1. PICK i \in DOMAIN w : w[i] = s
      BY <2>11 DEF Queued
    <3>2. i # a
      BY <2>3, <2>11, <3>1
    <3>3. CASE i < a
      <4>1. i \in DOMAIN r /\ r[i] = w[i]
        BY <2>5, <2>6, <3>3
      <4> QED BY <3>1, <4>1 DEF Queued
    <3>4. CASE i > a
      <4>1. i - 1 \in DOMAIN r /\ r[i - 1] = w[(i - 1) + 1]
        BY <2>5, <2>6, <3>4
      <4>2. (i - 1) + 1 = i
        BY <2>6
      <4> QED BY <3>1, <4>1, <4>2 DEF Queued
    <3> QED BY <2>6, <3>2, <3>3, <3>4
  <2> QED BY <2>4, <2>5, <2>6, <2>8, <2>9, <2>10, <2>11
<1> QED BY <1>1, <1>2

-----------------------------------------------------------------------------
(* Sets of tasks, and what rescheduling leaves alone. *)

(***************************************************************************)
(* Slot 0 is in the table, and its other slots are finitely many.          *)
(***************************************************************************)
LEMMA TasksFinite == Idle \in Pid /\ Tasks \subseteq Pid /\ IsFiniteSet(Tasks)
<1>1. TASK_NR - 1 \in Int /\ 0 \in Int
  BY TaskNrAssumption
<1>2. IsFiniteSet(0 .. TASK_NR - 1)
  BY <1>1, FS_Interval
<1>3. Tasks \in SUBSET (0 .. TASK_NR - 1)
  BY DEF Tasks, Pid
<1>4. IsFiniteSet(Tasks)
  BY <1>2, <1>3, FS_Subset
<1>5. Idle \in Pid
  BY TaskNrAssumption DEF Idle, Pid
<1> QED BY <1>4, <1>5 DEF Tasks

(***************************************************************************)
(* So are the holders of a buffer and the wakers.                          *)
(***************************************************************************)
LEMMA HoldersFinite ==
  ASSUME NEW b
  PROVE  /\ IsFiniteSet(Holders(b)) /\ Cardinality(Holders(b)) \in Nat
         /\ IsFiniteSet(Wakers) /\ Cardinality(Wakers) \in Nat
<1>1. Holders(b) \in SUBSET Tasks /\ Wakers \in SUBSET Tasks
  BY DEF Holders, Wakers
<1>2. IsFiniteSet(Holders(b)) /\ IsFiniteSet(Wakers)
  BY <1>1, TasksFinite, FS_Subset
<1> QED BY <1>2, FS_CardinalityType

(***************************************************************************)
(* The same for the next state.                                            *)
(***************************************************************************)
LEMMA HoldersFiniteNext ==
  ASSUME NEW b
  PROVE  /\ IsFiniteSet(Holders(b)') /\ Cardinality(Holders(b)') \in Nat
         /\ IsFiniteSet(Wakers') /\ Cardinality(Wakers') \in Nat
<1>1. Holders(b)' \in SUBSET Tasks /\ Wakers' \in SUBSET Tasks
  BY DEF Holders, Wakers
<1>2. IsFiniteSet(Holders(b)') /\ IsFiniteSet(Wakers')
  BY <1>1, TasksFinite, FS_Subset
<1> QED BY <1>2, FS_CardinalityType

\* task->state, as far as the cache changes it.
CacheStates == {"RUNNING", "READY", "BLOCKED"}

(***************************************************************************)
(* Rescheduling after the task states have become st puts nobody to sleep  *)
(* and wakes nobody.                                                       *)
(***************************************************************************)
LEMMA RescheduleEffect ==
  ASSUME current \in Pid, NEW st \in [Pid -> CacheStates],
         st[Idle] # "BLOCKED", Reschedule(st)
  PROVE  /\ state' \in [Pid -> CacheStates]
         /\ current' \in Pid
         /\ state'[current'] # "BLOCKED" /\ state'[Idle] # "BLOCKED"
         /\ \A n \in Tasks : state'[n] = "BLOCKED" <=> st[n] = "BLOCKED"
<1>1. /\ {"READY", "RUNNING"} \subseteq CacheStates
      /\ "BLOCKED" \in CacheStates \ {"READY", "RUNNING"}
  BY DEF CacheStates
<1>2. state' = AfterSchedule(st, current) /\ current' = Schedule(st, current)
  BY DEF Reschedule
<1>3. /\ AfterSchedule(st, current) \in [Pid -> CacheStates]
      /\ \A n \in Pid \ {Idle} : \A s \in CacheStates \ {"READY", "RUNNING"} :
           AfterSchedule(st, current)[n] = s <=> st[n] = s
  BY <1>1, ScheduleKeeps
<1>4. /\ AfterSchedule(st, current)[Idle] # "BLOCKED"
      /\ AfterSchedule(st, current)[Schedule(st, current)] # "BLOCKED"
  BY <1>1, ScheduleRuns
<1>5. Schedule(st, current) \in Pid
  BY ScheduleReady
<1> QED BY <1>1, <1>2, <1>3, <1>4, <1>5 DEF Tasks

(***************************************************************************)
(* task_block puts the current task to sleep and nobody else.              *)
(***************************************************************************)
LEMMA BlockEffect ==
  ASSUME current \in Pid, state \in [Pid -> CacheStates],
         state[Idle] # "BLOCKED", NEW t \in Tasks, BlockSelf(t)
  PROVE  /\ state' \in [Pid -> CacheStates]
         /\ current' \in Pid
         /\ state'[current'] # "BLOCKED" /\ state'[Idle] # "BLOCKED"
         /\ \A n \in Tasks : state'[n] = "BLOCKED" <=> state[n] = "BLOCKED" \/ n = t
<1> DEFINE st == [state EXCEPT ![t] = "BLOCKED"]
<1>1. st \in [Pid -> CacheStates] /\ st[Idle] # "BLOCKED"
  BY TasksFinite DEF CacheStates, Tasks
<1>2. \A n \in Tasks : st[n] = "BLOCKED" <=> state[n] = "BLOCKED" \/ n = t
  BY TasksFinite
<1>3. Reschedule(st)
  BY DEF BlockSelf
<1> HIDE DEF st
<1> QED BY <1>1, <1>2, <1>3, RescheduleEffect

(***************************************************************************)
(* mutex_unlock wakes the first of the queue, w, and reschedules.          *)
(***************************************************************************)
LEMMA WakeEffect ==
  ASSUME current \in Pid, state \in [Pid -> CacheStates],
         state[Idle] # "BLOCKED", NEW w \in Tasks,
         Reschedule([state EXCEPT ![w] = "READY"])
  PROVE  /\ state' \in [Pid -> CacheStates]
         /\ current' \in Pid
         /\ state'[current'] # "BLOCKED" /\ state'[Idle] # "BLOCKED"
         /\ \A n \in Tasks : state'[n] = "BLOCKED" <=> state[n] = "BLOCKED" /\ n # w
<1> DEFINE st == [state EXCEPT ![w] = "READY"]
<1>1. st \in [Pid -> CacheStates] /\ st[Idle] # "BLOCKED"
  BY TasksFinite DEF CacheStates, Tasks
<1>2. \A n \in Tasks : st[n] = "BLOCKED" <=> state[n] = "BLOCKED" /\ n # w
  BY TasksFinite
<1> HIDE DEF st
<1> QED BY <1>1, <1>2, RescheduleEffect DEF st

(***************************************************************************)
(* The buffers made so far are buffers, and a task that has got one has    *)
(* one of them.                                                            *)
(***************************************************************************)
LEMMA HasBuffer ==
  ASSUME TypeOK
  PROVE  /\ used \in Nat /\ room \in Nat /\ used <= room /\ room <= NBuf
         /\ 1 .. used \subseteq Bufs
         /\ \A t \in Tasks : Locals /\ pc[t] \notin {"user", "free"} => buf[t] \in Bufs
<1>1. used \in Nat /\ room \in Nat /\ used <= room /\ room <= NBuf
  BY NBufAssumption DEF TypeOK
<1>2. 1 .. used \subseteq Bufs
  BY <1>1, NBufAssumption DEF Bufs
<1> QED BY <1>1, <1>2 DEF Locals

-----------------------------------------------------------------------------
(* Steps that leave references and lists alone. *)

(***************************************************************************)
(* Where a task has its buffer and is not about to give it back.           *)
(***************************************************************************)
Busy == {"hold", "lock", "read", "bwrite", "other"}

(***************************************************************************)
(* A step in which tasks only move on with the buffer they have.           *)
(***************************************************************************)
LEMMA QuietStep ==
  ASSUME CacheInv, panic = "none", TypeOK', CurrentAwake', LockersAsleep',
         UNCHANGED <<room, used, block, count, chain, freeList, waitList, want, buf>>,
         \A s \in Tasks : pc'[s] = pc[s] \/ (pc[s] \in Busy /\ pc'[s] \in Busy),
         \A s \in Tasks : pc[s] = "free" =>
           (state'[s] = "BLOCKED" <=> state[s] = "BLOCKED")
  PROVE  CacheInv'
<1>1. /\ TypeOK /\ CurrentAwake /\ Locals /\ FreeExact /\ CountsExact
      /\ WaitersAsleep /\ LockersAsleep /\ WakersSuffice
  BY DEF CacheInv
<1>2. Locals'
  BY <1>1 DEF Locals, Busy
<1>3. FreeExact'
  BY <1>1 DEF FreeExact
<1>4. CountsExact'
  <2>1. \A b : Holders(b)' = Holders(b)
    BY DEF Holders, Busy
  <2> QED BY <1>1, <2>1 DEF CountsExact
<1>5. WaitersAsleep'
  BY <1>1 DEF WaitersAsleep, Busy
<1>6. WakersSuffice'
  <2>1. Wakers' = Wakers
    BY DEF Wakers, Busy
  <2> QED BY <1>1, <2>1 DEF WakersSuffice
<1> QED BY <1>2, <1>3, <1>4, <1>5, <1>6 DEF CacheInv

(***************************************************************************)
(* The queues of the mutexes when nobody on them moves.                    *)
(***************************************************************************)
LEMMA LockersFrame ==
  ASSUME LockersAsleep, UNCHANGED lockWaiters,
         \A s \in Tasks : pc[s] = "lock" /\ state[s] = "BLOCKED" =>
           pc'[s] = "lock" /\ state'[s] = "BLOCKED" /\ buf'[s] = buf[s]
  PROVE  LockersAsleep'
BY DEF LockersAsleep

(***************************************************************************)
(* The task at the head of a queue is woken by mutex_unlock, if there is   *)
(* one, and the others sleep on.                                           *)
(***************************************************************************)
LEMMA UnlockStep ==
  ASSUME TypeOK, CurrentAwake, LockersAsleep, NEW b \in Bufs,
         NEW t \in Tasks, t = current, NEW label \in Busy, Goto(t, label),
         IF lockWaiters[b] # << >>
         THEN /\ lockWaiters' = [lockWaiters EXCEPT ![b] = Tail(@)]
              /\ Reschedule([state EXCEPT ![Head(lockWaiters[b])] = "READY"])
         ELSE UNCHANGED <<lockWaiters, state, current>>,
         UNCHANGED buf
  PROVE  /\ lockWaiters' \in [Bufs -> Seq(Tasks)]
         /\ state' \in [Pid -> CacheStates] /\ current' \in Pid
         /\ pc' \in [Pid -> PC]
         /\ CurrentAwake' /\ LockersAsleep'
         /\ \A s \in Tasks : pc[s] # "lock" =>
              (state'[s] = "BLOCKED" <=> state[s] = "BLOCKED")
<1>1. /\ lockWaiters \in [Bufs -> Seq(Tasks)] /\ state \in [Pid -> CacheStates]
      /\ current \in Pid /\ pc \in [Pid -> PC] /\ lockWaiters[b] \in Seq(Tasks)
  BY DEF TypeOK, CacheStates
<1>2. /\ pc' \in [Pid -> PC] /\ pc'[Idle] = "user"
      /\ \A s \in Tasks \ {t} : pc'[s] = pc[s]
  BY <1>1, TasksFinite DEF Goto, PC, Busy, InIO, CurrentAwake, Tasks
<1>3. state[t] # "BLOCKED"
  BY DEF CurrentAwake
<1>4. CASE lockWaiters[b] = << >>
  <2>1. UNCHANGED <<lockWaiters, state, current>>
    BY <1>4
  <2>2. LockersAsleep'
    BY <1>2, <1>3, <2>1, LockersFrame
  <2> QED BY <1>1, <1>2, <2>1, <2>2 DEF CurrentAwake
<1>5. CASE lockWaiters[b] # << >>
  <2> DEFINE w == Head(lockWaiters[b])
             q == Tail(lockWaiters[b])
  <2>1. Distinct(lockWaiters[b])
    BY DEF LockersAsleep
  <2>2. /\ w \in Tasks /\ q \in Seq(Tasks)
        /\ \A s : Queued(q, s) <=> Queued(lockWaiters[b], s) /\ s # w
        /\ Distinct(q) /\ Queued(lockWaiters[b], w)
    BY <1>1, <1>5, <2>1, TailQueued DEF Distinct
  <2>3. /\ lockWaiters' = [lockWaiters EXCEPT ![b] = q]
        /\ Reschedule([state EXCEPT ![w] = "READY"])
    BY <1>5
  <2> HIDE DEF w, q
  <2>4. /\ state' \in [Pid -> CacheStates] /\ current' \in Pid
        /\ state'[current'] # "BLOCKED" /\ state'[Idle] # "BLOCKED"
        /\ \A n \in Tasks : state'[n] = "BLOCKED" <=> state[n] = "BLOCKED" /\ n # w
    BY <1>1, <2>2, <2>3, WakeEffect DEF CurrentAwake
  <2>5. /\ pc[w] = "lock" /\ buf[w] = b
    BY <2>2 DEF LockersAsleep
  <2>6. lockWaiters' \in [Bufs -> Seq(Tasks)]
    BY <1>1, <2>2, <2>3
  <2>7. ASSUME NEW c \in Bufs
        PROVE  /\ Distinct(lockWaiters'[c])
               /\ \A s \in Tasks : Queued(lockWaiters'[c], s) =>
                    pc'[s] = "lock" /\ state'[s] = "BLOCKED" /\ buf'[s] = c
    <3>1. \A s : Queued(lockWaiters'[c], s) => Queued(lockWaiters[c], s)
      BY <1>1, <2>2, <2>3
    <3>2. Distinct(lockWaiters'[c])
      BY <1>1, <2>2, <2>3 DEF LockersAsleep
    <3>3. ASSUME NEW s \in Tasks, Queued(lockWaiters'[c], s)
          PROVE  pc'[s] = "lock" /\ state'[s] = "BLOCKED" /\ buf'[s] = c
      <4>1. pc[s] = "lock" /\ state[s] = "BLOCKED" /\ buf[s] = c
        BY <3>1, <3>3 DEF LockersAsleep
      <4>2. s # w
        BY <1>1, <2>2, <2>3, <2>5, <3>3, <4>1
      <4> QED BY <1>2, <1>3, <2>4, <4>1, <4>2
    <3> QED BY <3>2, <3>3
  <2>8. LockersAsleep'
    BY <2>7 DEF LockersAsleep
  <2>9. CurrentAwake'
    BY <1>2, <2>4 DEF CurrentAwake
  <2> QED BY <1>2, <2>4, <2>5, <2>6, <2>8, <2>9
<1> QED BY <1>4, <1>5

(***************************************************************************)
(* The current task, with a buffer, starts to wait at a place of Busy.     *)
(***************************************************************************)
LEMMA SleepQuietly ==
  ASSUME TypeOK, CurrentAwake, NEW t \in Tasks, t = current,
         BlockSelf(t),
         pc' = pc \/ (\E label \in Busy : Goto(t, label))
  PROVE  /\ state' \in [Pid -> CacheStates] /\ current' \in Pid
         /\ pc' \in [Pid -> PC] /\ CurrentAwake'
         /\ \A s \in Tasks : s # t => pc'[s] = pc[s]
         /\ \A s \in Tasks : s # t => (state'[s] = "BLOCKED" <=> state[s] = "BLOCKED")
         /\ state'[t] = "BLOCKED"
<1>1. /\ state \in [Pid -> CacheStates] /\ current \in Pid /\ pc \in [Pid -> PC]
  BY DEF TypeOK, CacheStates
<1>2. /\ pc' \in [Pid -> PC] /\ pc'[Idle] = "user"
      /\ \A s \in Tasks \ {t} : pc'[s] = pc[s]
  BY <1>1, TasksFinite DEF Goto, PC, Busy, InIO, CurrentAwake, Tasks
<1>3. /\ state' \in [Pid -> CacheStates] /\ current' \in Pid
      /\ state'[current'] # "BLOCKED" /\ state'[Idle] # "BLOCKED"
      /\ \A n \in Tasks : state'[n] = "BLOCKED" <=> state[n] = "BLOCKED" \/ n = t
  BY <1>1, BlockEffect DEF CurrentAwake
<1> QED BY <1>2, <1>3 DEF CurrentAwake

(***************************************************************************)
(* bread: taking the mutex and reading.                                    *)
(***************************************************************************)
LEMMA LockAndReadStep ==
  ASSUME CacheInv, panic = "none", UNCHANGED room,
         NEW t \in Tasks, t = current, LockAndRead(t)
  PROVE  CacheInv'
<1>1. TypeOK /\ CurrentAwake /\ Locals /\ LockersAsleep
  BY DEF CacheInv
<1> DEFINE b == buf[t]
<1>2. /\ b \in Bufs /\ lockWaiters \in [Bufs -> Seq(Tasks)]
      /\ locked \in [Bufs -> BOOLEAN] /\ state[t] # "BLOCKED" /\ pc[t] = "lock"
      /\ pc \in [Pid -> PC] /\ t \in Pid
  <2>1. pc[t] = "lock" /\ t \in Pid
    BY TasksFinite DEF LockAndRead
  <2>2. b \in Bufs
    BY <1>1, <2>1, HasBuffer
  <2> QED BY <1>1, <2>1, <2>2 DEF TypeOK, CurrentAwake
<1>3. UNCHANGED <<buffers, lists, world, locals, panic>>
  BY DEF LockAndRead
<1> HIDE DEF b
<1>4. CASE locked[b]
  <2>1. /\ lockWaiters' = [lockWaiters EXCEPT ![b] = Append(@, t)]
        /\ BlockSelf(t) /\ UNCHANGED <<locked, pc>>
    BY <1>4 DEF LockAndRead, b
  <2>2. /\ state' \in [Pid -> CacheStates] /\ current' \in Pid
        /\ pc' \in [Pid -> PC] /\ CurrentAwake'
        /\ \A s \in Tasks : s # t => (state'[s] = "BLOCKED" <=> state[s] = "BLOCKED")
        /\ state'[t] = "BLOCKED"
    BY <1>1, <2>1, SleepQuietly
  <2>3. ~ Queued(lockWaiters[b], t) /\ Distinct(lockWaiters[b])
    BY <1>1, <1>2 DEF LockersAsleep
  <2> DEFINE q == Append(lockWaiters[b], t)
  <2>4. /\ q \in Seq(Tasks)
        /\ \A s : Queued(q, s) <=> Queued(lockWaiters[b], s) \/ s = t
        /\ Distinct(q)
    BY <1>2, <2>3, AppendQueued DEF Distinct
  <2>5. lockWaiters' = [lockWaiters EXCEPT ![b] = q]
    BY <2>1
  <2> HIDE DEF q
  <2>6. LockersAsleep'
    <3> SUFFICES ASSUME NEW c \in Bufs
                 PROVE  /\ Distinct(lockWaiters'[c])
                        /\ \A s \in Tasks : Queued(lockWaiters'[c], s) =>
                             pc'[s] = "lock" /\ state'[s] = "BLOCKED" /\ buf'[s] = c
      BY DEF LockersAsleep
    <3>1. CASE c # b
      <4>1. lockWaiters'[c] = lockWaiters[c]
        BY <1>2, <2>5, <3>1
      <4> QED BY <1>1, <1>2, <1>3, <2>1, <2>2, <4>1 DEF LockersAsleep, locals
    <3>2. CASE c = b
      <4>1. lockWaiters'[c] = q
        BY <1>2, <2>5, <3>2
      <4>2. buf'[t] = b
        BY <1>3 DEF b, locals
      <4> QED BY <1>1, <1>2, <1>3, <2>1, <2>2, <2>4, <3>2, <4>1, <4>2, ZenonT(60)
              DEF LockersAsleep, locals
    <3> QED BY <3>1, <3>2
  <2>7. TypeOK'
    <3>1. lockWaiters' \in [Bufs -> Seq(Tasks)]
      BY <1>2, <2>4, <2>5
    <3> QED BY <1>1, <1>3, <2>1, <2>2, <3>1
            DEF TypeOK, buffers, lists, world, locals, CacheStates
  <2> QED BY <1>2, <1>3, <2>1, <2>2, <2>6, <2>7, QuietStep
          DEF buffers, lists, locals
<1>5. CASE ~ locked[b] /\ MustRead(b)
  <2>1. /\ locked' = [locked EXCEPT ![b] = TRUE]
        /\ BlockSelf(t) /\ Goto(t, "read") /\ UNCHANGED lockWaiters
    BY <1>5 DEF LockAndRead, b
  <2>2. /\ state' \in [Pid -> CacheStates] /\ current' \in Pid
        /\ pc' \in [Pid -> PC] /\ CurrentAwake'
        /\ \A s \in Tasks : s # t => pc'[s] = pc[s]
        /\ \A s \in Tasks : s # t => (state'[s] = "BLOCKED" <=> state[s] = "BLOCKED")
        /\ state'[t] = "BLOCKED"
    BY <1>1, <2>1, SleepQuietly DEF Busy
  <2>3. LockersAsleep'
    BY <1>1, <1>2, <1>3, <2>1, <2>2, LockersFrame DEF locals
  <2>4. TypeOK'
    BY <1>1, <1>2, <1>3, <2>1, <2>2
       DEF TypeOK, buffers, lists, world, locals, CacheStates
  <2>5. pc'[t] = "read"
    BY <1>2, <2>1 DEF Goto
  <2> QED BY <1>2, <1>3, <2>2, <2>3, <2>4, <2>5, QuietStep
          DEF buffers, lists, locals, Busy
<1>6. CASE ~ locked[b] /\ ~ MustRead(b)
  <2>1. /\ IF lockWaiters[b] # << >>
           THEN /\ lockWaiters' = [lockWaiters EXCEPT ![b] = Tail(@)]
                /\ Reschedule([state EXCEPT ![Head(lockWaiters[b])] = "READY"])
           ELSE UNCHANGED <<lockWaiters, state, current>>
        /\ Goto(t, "hold") /\ UNCHANGED locked
    BY <1>6 DEF LockAndRead, b
  <2>2. "hold" \in Busy /\ UNCHANGED buf
    BY <1>3 DEF Busy, locals
  <2>3. /\ lockWaiters' \in [Bufs -> Seq(Tasks)]
        /\ state' \in [Pid -> CacheStates] /\ current' \in Pid
        /\ pc' \in [Pid -> PC]
        /\ CurrentAwake' /\ LockersAsleep'
        /\ \A s \in Tasks : pc[s] # "lock" =>
             (state'[s] = "BLOCKED" <=> state[s] = "BLOCKED")
    BY <1>1, <1>2, <2>1, <2>2, UnlockStep
  <2>4. TypeOK'
    BY <1>1, <1>3, <2>1, <2>3
       DEF TypeOK, buffers, lists, world, locals, CacheStates
  <2>5. \A s \in Tasks : pc'[s] = pc[s] \/ (pc[s] \in Busy /\ pc'[s] \in Busy)
    BY <1>2, <2>1 DEF Goto, Busy
  <2> QED BY <1>3, <2>3, <2>4, <2>5, QuietStep DEF buffers, lists, locals
<1> QED BY <1>4, <1>5, <1>6

(***************************************************************************)
(* bread: the end of the read.                                             *)
(***************************************************************************)
LEMMA ReadEndStep ==
  ASSUME CacheInv, panic = "none", UNCHANGED room,
         NEW t \in Tasks, t = current, ReadEnd(t)
  PROVE  CacheInv'
<1>1. TypeOK /\ CurrentAwake /\ Locals /\ LockersAsleep
  BY DEF CacheInv
<1> DEFINE b == buf[t]
<1>2. b \in Bufs /\ pc[t] = "read" /\ pc \in [Pid -> PC] /\ t \in Pid
  <2>1. pc[t] = "read" /\ t \in Pid
    BY TasksFinite DEF ReadEnd
  <2>2. b \in Bufs
    BY <1>1, <2>1, HasBuffer
  <2> QED BY <1>1, <2>1, <2>2 DEF TypeOK
<1>3. /\ dirty' = [dirty EXCEPT ![b] = FALSE]
      /\ valid' = [valid EXCEPT ![b] = TRUE]
      /\ locked' = [locked EXCEPT ![b] = FALSE]
      /\ IF lockWaiters[b] # << >>
         THEN /\ lockWaiters' = [lockWaiters EXCEPT ![b] = Tail(@)]
              /\ Reschedule([state EXCEPT ![Head(lockWaiters[b])] = "READY"])
         ELSE UNCHANGED <<lockWaiters, state, current>>
      /\ Goto(t, "hold")
      /\ UNCHANGED <<used, block, count, data, lists, world, locals, panic>>
  BY DEF ReadEnd
<1>4. "hold" \in Busy /\ UNCHANGED buf
  BY <1>3 DEF Busy, locals
<1> HIDE DEF b
<1>5. /\ lockWaiters' \in [Bufs -> Seq(Tasks)]
      /\ state' \in [Pid -> CacheStates] /\ current' \in Pid
      /\ pc' \in [Pid -> PC]
      /\ CurrentAwake' /\ LockersAsleep'
      /\ \A s \in Tasks : pc[s] # "lock" =>
           (state'[s] = "BLOCKED" <=> state[s] = "BLOCKED")
  BY <1>1, <1>2, <1>3, <1>4, UnlockStep
<1>6. TypeOK'
  BY <1>1, <1>2, <1>3, <1>5 DEF TypeOK, lists, world, locals, CacheStates
<1>7. \A s \in Tasks : pc'[s] = pc[s] \/ (pc[s] \in Busy /\ pc'[s] \in Busy)
  BY <1>2, <1>3 DEF Goto, Busy
<1> QED BY <1>3, <1>5, <1>6, <1>7, QuietStep DEF lists, locals

(***************************************************************************)
(* The number of a new modification is one more than all before.           *)
(***************************************************************************)
LEMMA NextVersion ==
  ASSUME TypeOK, Blocks # {}
  PROVE  Max({latest[k] : k \in Blocks}) \in Nat
<1> DEFINE S == {latest[k] : k \in Blocks}
<1>1. S \in SUBSET (0 .. MaxWrites) /\ S # {}
  BY DEF TypeOK, Version
<1>2. Max(S) \in S
  <2> HIDE DEF S
  <2> QED BY <1>1, MaxWritesAssumption, MaxExists
<1>3. \A n \in 0 .. MaxWrites : n \in Nat
  BY MaxWritesAssumption
<1> HIDE DEF S
<1>4. Max(S) \in Nat
  BY <1>1, <1>2, <1>3
<1> QED BY <1>4 DEF S

(***************************************************************************)
(* A modification of a buffer that a task holds.                           *)
(***************************************************************************)
LEMMA ModifyStep ==
  ASSUME CacheInv, panic = "none", UNCHANGED room,
         NEW t \in Tasks, t = current, Modify(t)
  PROVE  CacheInv'
<1>1. TypeOK /\ CurrentAwake /\ Locals /\ LockersAsleep
  BY DEF CacheInv
<1>2. pc[t] = "hold" /\ want[t] \in Blocks
  BY <1>1 DEF Modify, Locals
<1>3. PICK n : /\ n = 1 + Max({latest[k] : k \in Blocks}) /\ n <= MaxWrites
               /\ data' = [data EXCEPT ![buf[t]] = n]
               /\ dirty' = [dirty EXCEPT ![buf[t]] = TRUE]
               /\ latest' = [latest EXCEPT ![want[t]] = n]
  BY DEF Modify
<1>4. UNCHANGED <<used, block, count, valid, locks, lists, disk, locals, state,
                  current, pc, panic>>
  BY DEF Modify
<1>5. n \in Version
  BY <1>1, <1>2, <1>3, NextVersion, MaxWritesAssumption DEF Version
<1>6. TypeOK'
  BY <1>1, <1>3, <1>4, <1>5 DEF TypeOK, locks, lists, locals
<1>7. CurrentAwake' /\ LockersAsleep'
  BY <1>1, <1>4 DEF CurrentAwake, LockersAsleep, locks, locals
<1> QED BY <1>4, <1>6, <1>7, QuietStep DEF lists, locals

(***************************************************************************)
(* bwrite, and other I/O, with the buffer.                                 *)
(***************************************************************************)
LEMMA WaitStep ==
  ASSUME CacheInv, panic = "none", UNCHANGED room,
         NEW t \in Tasks, t = current, Bwrite(t) \/ OtherIO(t)
  PROVE  CacheInv'
<1>1. TypeOK /\ CurrentAwake /\ Locals /\ LockersAsleep
  BY DEF CacheInv
<1>2. PICK label \in {"bwrite", "other"} :
        /\ BlockSelf(t) /\ Goto(t, label)
        /\ UNCHANGED <<buffers, locks, lists, world, want, buf, panic>>
        /\ snap' \in {snap, [snap EXCEPT ![t] = data[buf[t]]]}
  BY DEF Bwrite, OtherIO, StartWrite, locals
<1>3. /\ pc[t] = "hold" /\ pc \in [Pid -> PC] /\ t \in Pid
      /\ state[t] # "BLOCKED" /\ buf[t] \in Bufs
  BY <1>1, TasksFinite, HasBuffer DEF Bwrite, OtherIO, TypeOK, CurrentAwake
<1>4. /\ state' \in [Pid -> CacheStates] /\ current' \in Pid
      /\ pc' \in [Pid -> PC] /\ CurrentAwake'
      /\ \A s \in Tasks : s # t => pc'[s] = pc[s]
      /\ \A s \in Tasks : s # t => (state'[s] = "BLOCKED" <=> state[s] = "BLOCKED")
      /\ state'[t] = "BLOCKED"
  BY <1>1, <1>2, SleepQuietly DEF Busy
<1>5. LockersAsleep'
  BY <1>1, <1>2, <1>3, <1>4, LockersFrame DEF locks
<1>6. TypeOK'
  <2>1. snap' \in [Pid -> Version]
    BY <1>1, <1>2, <1>3 DEF TypeOK
  <2> QED BY <1>1, <1>2, <1>4, <2>1
          DEF TypeOK, buffers, locks, lists, world, CacheStates
<1>7. pc'[t] \in Busy
  BY <1>2, <1>3 DEF Goto, Busy
<1> QED BY <1>2, <1>3, <1>4, <1>5, <1>6, <1>7, QuietStep
        DEF buffers, lists, Busy

(***************************************************************************)
(* The end of bwrite and of other I/O.                                     *)
(***************************************************************************)
LEMMA WaitEndStep ==
  ASSUME CacheInv, panic = "none", UNCHANGED room,
         NEW t \in Tasks, t = current, BwriteEnd(t) \/ OtherEnd(t)
  PROVE  CacheInv'
<1>1. TypeOK /\ CurrentAwake /\ Locals /\ LockersAsleep
  BY DEF CacheInv
<1>2. /\ Goto(t, "hold")
      /\ UNCHANGED <<used, block, count, data, locks, lists, world, locals, state,
                     current, panic>>
      /\ dirty' \in {dirty, [dirty EXCEPT ![buf[t]] = FALSE]}
      /\ valid' \in {valid, [valid EXCEPT ![buf[t]] = TRUE]}
  BY DEF BwriteEnd, OtherEnd, buffers
<1>3. /\ pc[t] \in Busy /\ pc \in [Pid -> PC] /\ t \in Pid /\ state[t] # "BLOCKED"
      /\ t # Idle
  BY <1>1, TasksFinite DEF BwriteEnd, OtherEnd, TypeOK, CurrentAwake, Busy, Tasks
<1>4. /\ pc' \in [Pid -> PC] /\ pc'[t] = "hold"
      /\ \A s \in Pid : s # t => pc'[s] = pc[s]
  BY <1>2, <1>3 DEF Goto, PC
<1>5. CurrentAwake'
  BY <1>1, <1>2, <1>3, <1>4, TasksFinite DEF CurrentAwake
<1>6. LockersAsleep'
  BY <1>1, <1>2, <1>3, <1>4, TasksFinite, LockersFrame DEF locks, locals
<1>7. TypeOK'
  <2>1. dirty' \in [Bufs -> BOOLEAN] /\ valid' \in [Bufs -> BOOLEAN]
    BY <1>1, <1>2 DEF TypeOK
  <2> QED BY <1>1, <1>2, <1>4, <2>1 DEF TypeOK, locks, lists, world, locals
<1>8. \A s \in Tasks : pc'[s] = pc[s] \/ (pc[s] \in Busy /\ pc'[s] \in Busy)
  BY <1>3, <1>4, TasksFinite DEF Busy
<1> QED BY <1>2, <1>5, <1>6, <1>7, <1>8, QuietStep DEF lists, locals

(***************************************************************************)
(* The device ends a request.                                              *)
(***************************************************************************)
LEMMA DeviceDoneStep ==
  ASSUME CacheInv, panic = "none", UNCHANGED room,
         NEW t \in Tasks, DeviceDone(t)
  PROVE  CacheInv'
<1>1. TypeOK /\ CurrentAwake /\ Locals /\ LockersAsleep
  BY DEF CacheInv
<1>2. /\ state' = [state EXCEPT ![t] = "READY"]
      /\ UNCHANGED <<used, block, count, dirty, valid, locks, lists, latest, locals,
                     current, pc, panic>>
      /\ pc[t] \in InIO
  BY DEF DeviceDone
<1>3. buf[t] \in 1 .. used /\ buf[t] \in Bufs /\ want[t] \in Blocks
  BY <1>1, <1>2, HasBuffer DEF Locals, InIO
<1>4. block[buf[t]] \in Blocks
  BY <1>1, <1>3 DEF Locals
<1>5. data' \in [Bufs -> Version] /\ disk' \in [Blocks -> Version]
  <2>1. CASE pc[t] = "read"
    BY <1>1, <1>3, <1>4, <2>1, ZenonT(60) DEF DeviceDone, TypeOK
  <2>2. CASE pc[t] \in {"bwrite", "release"}
    <3>1. PICK v \in {snap[t], data[buf[t]]} :
            disk' = [disk EXCEPT ![want[t]] = v] /\ UNCHANGED data
      BY <2>2 DEF DeviceDone
    <3>2. v \in Version
      BY <1>1, <1>3, <3>1, TasksFinite DEF TypeOK
    <3> QED BY <1>1, <3>1, <3>2 DEF TypeOK
  <2>3. CASE pc[t] \notin {"read", "bwrite", "release"}
    BY <1>1, <2>3 DEF DeviceDone, TypeOK
  <2> QED BY <2>1, <2>2, <2>3
<1>6. /\ state' \in [Pid -> CacheStates]
      /\ \A s \in Pid : s # t => state'[s] = state[s]
      /\ state'[t] = "READY"
  BY <1>1, <1>2, TasksFinite DEF TypeOK, CacheStates
<1>7. TypeOK'
  BY <1>1, <1>2, <1>5, <1>6 DEF TypeOK, locks, lists, locals, CacheStates
<1>8. CurrentAwake'
  <2>1. \A s \in Pid : state[s] # "BLOCKED" => state'[s] # "BLOCKED"
    BY <1>6
  <2>2. current \in Pid
    BY <1>1 DEF TypeOK
  <2> QED BY <1>1, <1>2, <2>1, <2>2, TasksFinite DEF CurrentAwake
<1>9. LockersAsleep'
  <2>1. pc[t] # "lock"
    BY <1>2 DEF InIO
  <2> QED BY <1>1, <1>2, <1>6, <2>1, TasksFinite, LockersFrame DEF locks, locals
<1>10. \A s \in Tasks : pc[s] = "free" =>
         (state'[s] = "BLOCKED" <=> state[s] = "BLOCKED")
  BY <1>2, <1>6, TasksFinite DEF InIO
<1> QED BY <1>2, <1>7, <1>8, <1>9, <1>10, QuietStep DEF lists, locals

(***************************************************************************)
(* The clock gives the processor to another task.                          *)
(***************************************************************************)
LEMMA ClockStep ==
  ASSUME CacheInv, panic = "none", UNCHANGED room, Clock
  PROVE  CacheInv'
<1>1. TypeOK /\ CurrentAwake /\ Locals /\ LockersAsleep
  BY DEF CacheInv
<1>2. /\ Reschedule(state)
      /\ UNCHANGED <<buffers, locks, lists, world, locals, pc, panic>>
  BY DEF Clock
<1>3. /\ state' \in [Pid -> CacheStates] /\ current' \in Pid
      /\ state'[current'] # "BLOCKED" /\ state'[Idle] # "BLOCKED"
      /\ \A n \in Tasks : state'[n] = "BLOCKED" <=> state[n] = "BLOCKED"
  BY <1>1, <1>2, RescheduleEffect DEF TypeOK, CacheStates, CurrentAwake
<1>4. TypeOK'
  BY <1>1, <1>2, <1>3
     DEF TypeOK, buffers, locks, lists, world, locals, CacheStates
<1>5. CurrentAwake'
  BY <1>1, <1>2, <1>3 DEF CurrentAwake
<1>6. LockersAsleep'
  BY <1>1, <1>2, <1>3, LockersFrame DEF locks, locals
<1> QED BY <1>2, <1>3, <1>4, <1>5, <1>6, QuietStep DEF buffers, lists, locals

-----------------------------------------------------------------------------
(* Steps that take a reference. *)

(***************************************************************************)
(* Who has no buffer holds none, and no buffer is called None.             *)
(***************************************************************************)
LEMMA NoneHolds ==
  ASSUME TypeOK
  PROVE  None \notin 1 .. used /\ None \notin Bufs
<1>1. None \notin Nat
  BY NoneAssumption
<1>2. used \in Nat /\ 1 .. used \subseteq Bufs
  BY HasBuffer
<1> QED BY <1>1, <1>2 DEF Bufs

(***************************************************************************)
(* The current task leaves for the place label with or without a buffer    *)
(* and nobody's state changes.                                             *)
(***************************************************************************)
LEMMA MoveOn ==
  ASSUME TypeOK, CurrentAwake, LockersAsleep, NEW t \in Tasks, t = current,
         NEW label \in PC, Goto(t, label), NEW x \in Bufs \cup {None},
         buf' = [buf EXCEPT ![t] = x], UNCHANGED <<lockWaiters, state, current>>
  PROVE  /\ pc' \in [Pid -> PC] /\ pc'[t] = label
         /\ \A s \in Pid : s # t => pc'[s] = pc[s] /\ buf'[s] = buf[s]
         /\ buf' \in [Pid -> Bufs \cup {None}] /\ buf'[t] = x
         /\ CurrentAwake' /\ LockersAsleep'
<1>1. pc \in [Pid -> PC] /\ buf \in [Pid -> Bufs \cup {None}] /\ t \in Pid /\ t # Idle
  BY TasksFinite DEF TypeOK, Tasks
<1>2. /\ pc' \in [Pid -> PC] /\ pc'[t] = label
      /\ \A s \in Pid : s # t => pc'[s] = pc[s] /\ buf'[s] = buf[s]
      /\ buf' \in [Pid -> Bufs \cup {None}] /\ buf'[t] = x
  BY <1>1 DEF Goto
<1>3. CurrentAwake'
  BY <1>1, <1>2, TasksFinite DEF CurrentAwake
<1>4. LockersAsleep'
  <2>1. state[t] # "BLOCKED"
    BY DEF CurrentAwake
  <2> QED BY <1>2, <2>1, TasksFinite, LockersFrame
<1> QED BY <1>2, <1>3, <1>4

(***************************************************************************)
(* A task without buffer that gets buffer b is a holder of b more.         *)
(***************************************************************************)
LEMMA HolderAdded ==
  ASSUME TypeOK, Locals, NEW t \in Tasks, pc[t] \in {"user", "free"},
         NEW b \in Bufs, buf'[t] = b, pc'[t] \in {"hold", "lock"},
         \A s \in Pid : s # t => pc'[s] = pc[s] /\ buf'[s] = buf[s]
  PROVE  /\ \A c \in Bufs \ {b} : Holders(c)' = Holders(c)
         /\ Holders(b)' = Holders(b) \cup {t}
         /\ Cardinality(Holders(b)') = Cardinality(Holders(b)) + 1
<1>1. buf[t] = None /\ None \notin Bufs
  BY NoneHolds DEF Locals
<1>2. ASSUME NEW c \in Bufs \ {b} PROVE Holders(c)' = Holders(c)
  BY <1>1, TasksFinite DEF Holders
<1>3. Holders(b)' = Holders(b) \cup {t}
  BY <1>1, TasksFinite DEF Holders
<1>4. t \notin Holders(b)
  BY <1>1 DEF Holders
<1>5. IsFiniteSet(Holders(b))
  BY HoldersFinite
<1>6. Cardinality(Holders(b) \cup {t}) = Cardinality(Holders(b)) + 1
  BY <1>4, <1>5, FS_AddElement
<1> QED BY <1>2, <1>3, <1>6

(***************************************************************************)
(* What get_from_hash_table finds is a buffer of the block.                *)
(***************************************************************************)
LEMMA LookupFinds ==
  ASSUME TypeOK, Locals, NEW k, Places(k) # {}
  PROVE  Lookup(k) \in 1 .. used /\ block[Lookup(k)] = k
<1>1. Places(k) \in SUBSET Nat
  BY DEF Places, TypeOK
<1>2. Min(Places(k)) \in Places(k)
  BY <1>1, MinExists
<1> QED BY <1>2 DEF Places, Lookup, Locals

(***************************************************************************)
(* getblk of a block that has a buffer.                                    *)
(***************************************************************************)
LEMMA BreadHitStep ==
  ASSUME CacheInv, panic = "none", UNCHANGED room,
         NEW t \in Tasks, t = current, NEW k \in Blocks, BreadHit(t, k)
  PROVE  CacheInv'
<1>1. /\ TypeOK /\ CurrentAwake /\ Locals /\ FreeExact /\ CountsExact
      /\ WaitersAsleep /\ LockersAsleep /\ WakersSuffice
  BY DEF CacheInv
<1>2. PICK b \in Bufs : b = Lookup(k) /\ b \in 1 .. used
  BY <1>1, LookupFinds, HasBuffer DEF BreadHit
<1>3. PICK label \in {"hold", "lock"} :
        /\ freeList' = Without(freeList, b)
        /\ count' = [count EXCEPT ![b] = count[b] + 1]
        /\ buf' = [buf EXCEPT ![t] = b]
        /\ Goto(t, label)
  BY <1>2 DEF BreadHit, HitFreeList, HitCount, Enter
<1>4. /\ pc[t] = "user" /\ want' = [want EXCEPT ![t] = k]
      /\ UNCHANGED <<used, block, dirty, valid, data, locks, chain, waitList, world,
                     snap, state, current, panic>>
  BY DEF BreadHit
<1>5. /\ pc' \in [Pid -> PC] /\ pc'[t] = label
      /\ \A s \in Pid : s # t => pc'[s] = pc[s] /\ buf'[s] = buf[s]
      /\ buf' \in [Pid -> Bufs \cup {None}] /\ buf'[t] = b
      /\ CurrentAwake' /\ LockersAsleep'
  BY <1>1, <1>2, <1>3, <1>4, MoveOn, ZenonT(60) DEF PC, locks
<1>6. /\ freeList' \in Seq(Bufs) /\ Len(freeList') <= Len(freeList)
      /\ Distinct(freeList')
      /\ \A s : Queued(freeList', s) <=> Queued(freeList, s) /\ s # b
  BY <1>1, <1>3, WithoutQueued DEF TypeOK, FreeExact
<1>7. count \in [Bufs -> Nat]
  BY <1>1 DEF TypeOK
<1>8. TypeOK'
  <2>1. count' \in [Bufs -> Nat]
    BY <1>2, <1>3, <1>7
  <2>2. want' \in [Pid -> Blocks \cup {None}]
    BY <1>1, <1>4 DEF TypeOK
  <2> QED BY <1>1, <1>4, <1>5, <1>6, <2>1, <2>2 DEF TypeOK, locks, world
<1>9. Locals'
  BY <1>1, <1>2, <1>4, <1>5, TasksFinite DEF Locals, TypeOK
<1>10. FreeExact'
  <2>1. ASSUME NEW c \in Bufs
        PROVE  Queued(freeList', c) <=> c \in 1 .. used' /\ count'[c] = 0
    <3>1. CASE c = b
      BY <1>2, <1>3, <1>6, <1>7, <3>1
    <3>2. CASE c # b
      BY <1>1, <1>3, <1>4, <1>6, <1>7, <3>2 DEF FreeExact
    <3> QED BY <3>1, <3>2
  <2> QED BY <1>6, <2>1 DEF FreeExact
<1>11. CountsExact'
  <2>1. /\ \A c \in Bufs \ {b} : Holders(c)' = Holders(c)
        /\ Cardinality(Holders(b)') = Cardinality(Holders(b)) + 1
    <3>1. pc[t] \in {"user", "free"} /\ pc'[t] \in {"hold", "lock"}
      BY <1>4, <1>5
    <3> QED BY <1>1, <1>2, <1>5, <3>1, HolderAdded
  <2>2. ASSUME NEW c \in 1 .. used' PROVE count'[c] = Cardinality(Holders(c)')
    <3>1. c \in 1 .. used /\ c \in Bufs
      BY <1>1, <1>4, HasBuffer
    <3>2. count[c] = Cardinality(Holders(c))
      BY <1>1, <3>1 DEF CountsExact
    <3>3. CASE c = b
      <4>1. count'[b] = Cardinality(Holders(b)) + 1
        BY <1>2, <1>3, <1>7, <3>2, <3>3
      <4> QED BY <2>1, <3>3, <4>1
    <3>4. CASE c # b
      <4>1. count'[c] = count[c] /\ Holders(c)' = Holders(c)
        BY <1>3, <1>7, <2>1, <3>1, <3>4
      <4> QED BY <3>2, <4>1
    <3> QED BY <3>3, <3>4
  <2> QED BY <2>2 DEF CountsExact
<1>12. WaitersAsleep'
  BY <1>1, <1>4, <1>5, TasksFinite DEF WaitersAsleep
<1>13. WakersSuffice'
  <2>1. Wakers' = Wakers
    BY <1>4, <1>5, TasksFinite DEF Wakers
  <2>2. Cardinality(Wakers) \in Nat
    BY HoldersFinite
  <2> QED BY <1>1, <1>4, <1>6, <2>1, <2>2 DEF WakersSuffice, TypeOK
<1> QED BY <1>5, <1>8, <1>9, <1>10, <1>11, <1>12, <1>13 DEF CacheInv

(***************************************************************************)
(* getblk of a block that has none: one more looks for a free buffer.      *)
(***************************************************************************)
LEMMA BreadMissStep ==
  ASSUME CacheInv, panic = "none", UNCHANGED room,
         NEW t \in Tasks, t = current, NEW k \in Blocks, BreadMiss(t, k)
  PROVE  CacheInv'
<1>1. /\ TypeOK /\ CurrentAwake /\ Locals /\ FreeExact /\ CountsExact
      /\ WaitersAsleep /\ LockersAsleep /\ WakersSuffice
  BY DEF CacheInv
<1>2. /\ pc[t] = "user" /\ want' = [want EXCEPT ![t] = k] /\ Goto(t, "free")
      /\ UNCHANGED <<buffers, locks, lists, world, buf, snap, state, current, panic>>
  BY DEF BreadMiss
<1>3. buf[t] = None /\ None \notin 1 .. used /\ t \in Pid
  BY <1>1, <1>2, NoneHolds, TasksFinite DEF Locals
<1>4. buf' = [buf EXCEPT ![t] = None]
  BY <1>1, <1>2, <1>3 DEF TypeOK
<1>5. /\ pc' \in [Pid -> PC] /\ pc'[t] = "free"
      /\ \A s \in Pid : s # t => pc'[s] = pc[s] /\ buf'[s] = buf[s]
      /\ CurrentAwake' /\ LockersAsleep'
  <2>1. PICK label \in PC, x \in Bufs \cup {None} : label = "free" /\ x = None
    BY DEF PC
  <2>2. UNCHANGED <<lockWaiters, state, current>>
    BY <1>2 DEF locks
  <2>3. Goto(t, label) /\ buf' = [buf EXCEPT ![t] = x]
    BY <1>2, <1>4, <2>1
  <2>4. /\ pc' \in [Pid -> PC] /\ pc'[t] = label
        /\ \A s \in Pid : s # t => pc'[s] = pc[s] /\ buf'[s] = buf[s]
        /\ CurrentAwake' /\ LockersAsleep'
    BY <1>1, <2>2, <2>3, MoveOn
  <2> QED BY <2>1, <2>4
<1>6. TypeOK'
  BY <1>1, <1>2, <1>5 DEF TypeOK, buffers, locks, lists, world
<1>7. Locals'
  BY <1>1, <1>2, <1>3, <1>5, TasksFinite DEF Locals, TypeOK, buffers, lists
<1>8. FreeExact'
  BY <1>1, <1>2 DEF FreeExact, buffers, lists
<1>9. CountsExact'
  <2>1. \A b \in 1 .. used : Holders(b)' = Holders(b)
    BY <1>2, <1>3, <1>5, TasksFinite DEF Holders
  <2> QED BY <1>1, <1>2, <2>1 DEF CountsExact, buffers
<1>10. WaitersAsleep'
  BY <1>1, <1>2, <1>5, TasksFinite DEF WaitersAsleep, buffers, lists
<1>11. WakersSuffice'
  <2>1. state[t] # "BLOCKED"
    BY <1>1 DEF CurrentAwake
  <2>2. Wakers' = Wakers \cup {t}
    BY <1>2, <1>5, <2>1, TasksFinite DEF Wakers
  <2>3. IsFiniteSet(Wakers) /\ Cardinality(Wakers) \in Nat
    BY HoldersFinite
  <2>4. Cardinality(Wakers \cup {t}) >= Cardinality(Wakers)
    BY <2>3, FS_AddElement
  <2>5. Cardinality(Wakers') \in Nat
    BY HoldersFiniteNext
  <2> QED BY <1>1, <1>2, <2>2, <2>3, <2>4, <2>5 DEF WakersSuffice, lists, TypeOK
<1> QED BY <1>5, <1>6, <1>7, <1>8, <1>9, <1>10, <1>11 DEF CacheInv

(***************************************************************************)
(* The end of getblk for a buffer b that nobody holds: t is its one        *)
(* holder.  used has become m.                                             *)
(***************************************************************************)
LEMMA AssignEffect ==
  ASSUME TypeOK, CurrentAwake, Locals, CountsExact, LockersAsleep,
         NEW t \in Tasks, t = current, pc[t] = "free",
         NEW b \in Bufs, Holders(b) = {}, NEW c \in Seq(Bufs), Assign(t, b, c),
         NEW m \in {used, used + 1}, used' = m, b \in 1 .. m,
         m = used + 1 => b = m,
         \A i \in DOMAIN c : c[i] \in 1 .. used,
         UNCHANGED <<lockWaiters, state, current, want>>
  PROVE  /\ block' \in [Bufs -> Blocks \cup {None}] /\ count' \in [Bufs -> Nat]
         /\ chain' \in Seq(Bufs) /\ buf' \in [Pid -> Bufs \cup {None}]
         /\ pc' \in [Pid -> PC] /\ pc'[t] = "lock"
         /\ \A s \in Pid : s # t => pc'[s] = pc[s] /\ buf'[s] = buf[s]
         /\ count'[b] = 1 /\ \A d \in Bufs : d # b => count'[d] = count[d]
         /\ CurrentAwake' /\ Locals' /\ CountsExact' /\ LockersAsleep'
<1>1. /\ block' = [block EXCEPT ![b] = want[t]]
      /\ count' = [count EXCEPT ![b] = 1]
      /\ chain' = << b >> \o c
      /\ buf' = [buf EXCEPT ![t] = b]
      /\ Goto(t, "lock")
  BY DEF Assign, Enter
<1>2. want[t] \in Blocks /\ t \in Pid
  BY TasksFinite DEF Locals
<1>3. /\ block' \in [Bufs -> Blocks \cup {None}] /\ count' \in [Bufs -> Nat]
      /\ count'[b] = 1 /\ \A d \in Bufs : d # b => count'[d] = count[d]
      /\ block'[b] = want[t] /\ \A d \in Bufs : d # b => block'[d] = block[d]
  BY <1>1, <1>2 DEF TypeOK
<1>4. /\ pc' \in [Pid -> PC] /\ pc'[t] = "lock"
      /\ \A s \in Pid : s # t => pc'[s] = pc[s] /\ buf'[s] = buf[s]
      /\ buf' \in [Pid -> Bufs \cup {None}] /\ buf'[t] = b
      /\ CurrentAwake' /\ LockersAsleep'
  <2>1. PICK label \in PC, x \in Bufs \cup {None} : label = "lock" /\ x = b
    BY DEF PC
  <2>2. Goto(t, label) /\ buf' = [buf EXCEPT ![t] = x]
    BY <1>1, <2>1
  <2>3. /\ pc' \in [Pid -> PC] /\ pc'[t] = label
        /\ \A s \in Pid : s # t => pc'[s] = pc[s] /\ buf'[s] = buf[s]
        /\ buf' \in [Pid -> Bufs \cup {None}] /\ buf'[t] = x
        /\ CurrentAwake' /\ LockersAsleep'
    BY <2>2, MoveOn
  <2> QED BY <2>1, <2>3
<1>5. /\ chain' \in Seq(Bufs)
      /\ \A s : Queued(chain', s) <=> Queued(c, s) \/ s = b
  BY <1>1, PushQueued
<1>6. used \in Nat /\ 1 .. used \subseteq 1 .. m /\ 1 .. m \subseteq (1 .. used) \cup {b}
      /\ 1 .. used \subseteq Bufs
  BY HasBuffer
<1>7. Locals'
  <2>1. \A i \in DOMAIN chain' : chain'[i] \in 1 .. m
    <3> SUFFICES ASSUME NEW i \in DOMAIN chain' PROVE chain'[i] \in 1 .. m
      OBVIOUS
    <3>1. Queued(c, chain'[i]) \/ chain'[i] = b
      BY <1>5 DEF Queued
    <3> QED BY <1>6, <3>1 DEF Queued
  <2>2. \A d \in 1 .. m : block'[d] \in Blocks
    BY <1>2, <1>3, <1>6 DEF Locals
  <2>3. \A s \in Tasks : pc'[s] \in {"user", "free"} => buf'[s] = None
    BY <1>4, TasksFinite DEF Locals
  <2>4. \A s \in Tasks : pc'[s] \notin {"user", "free"} => buf'[s] \in 1 .. m
    BY <1>4, <1>6, TasksFinite DEF Locals
  <2>5. \A s \in Tasks : pc'[s] # "user" => want'[s] \in Blocks
    BY <1>2, <1>4, TasksFinite DEF Locals
  <2> QED BY <2>1, <2>2, <2>3, <2>4, <2>5 DEF Locals
<1>8. CountsExact'
  <2>1. /\ \A d \in Bufs \ {b} : Holders(d)' = Holders(d)
        /\ Holders(b)' = Holders(b) \cup {t}
    <3>1. pc[t] \in {"user", "free"} /\ pc'[t] \in {"hold", "lock"}
      BY <1>4
    <3> QED BY <1>4, <3>1, HolderAdded
  <2>2. Holders(b)' = {t}
    BY <2>1
  <2>3. Cardinality(Holders(b)') = 1
    BY <2>2, FS_Singleton
  <2> SUFFICES ASSUME NEW d \in 1 .. m PROVE count'[d] = Cardinality(Holders(d)')
    BY DEF CountsExact
  <2>4. CASE d = b
    BY <1>3, <2>3, <2>4
  <2>5. CASE d # b
    <3>1. d \in 1 .. used /\ d \in Bufs
      BY <1>6, <2>5
    <3>2. count[d] = Cardinality(Holders(d))
      BY <3>1 DEF CountsExact
    <3> QED BY <1>3, <2>1, <2>5, <3>1, <3>2
  <2> QED BY <2>4, <2>5
<1> QED BY <1>3, <1>4, <1>5, <1>7, <1>8

(***************************************************************************)
(* get_new_cache.                                                          *)
(***************************************************************************)
LEMMA GetNewStep ==
  ASSUME CacheInv, panic = "none", UNCHANGED room,
         NEW t \in Tasks, t = current, GetNew(t)
  PROVE  CacheInv'
<1>1. /\ TypeOK /\ CurrentAwake /\ Locals /\ FreeExact /\ CountsExact
      /\ WaitersAsleep /\ LockersAsleep /\ WakersSuffice
  BY DEF CacheInv
<1>2. /\ pc[t] = "free" /\ used < room /\ used' = used + 1
      /\ Assign(t, used + 1, chain)
      /\ UNCHANGED <<dirty, valid, data, locks, freeList, waitList, world, want, snap,
                     state, current, panic>>
  BY DEF GetNew
<1>3. used \in Nat /\ room \in Nat /\ room <= NBuf /\ 1 .. used \subseteq Bufs
  BY <1>1, HasBuffer
<1>4. PICK b \in Bufs : b = used + 1 /\ b \notin 1 .. used /\ b \in 1 .. used + 1
  BY <1>2, <1>3, NBufAssumption DEF Bufs
<1>5. Holders(b) = {}
  <2>1. None \notin Bufs
    BY <1>1, NoneHolds
  <2> QED BY <1>1, <1>4, <2>1 DEF Holders, Locals
<1>6. PICK m \in {used, used + 1} : m = used + 1
  OBVIOUS
<1>7. /\ block' \in [Bufs -> Blocks \cup {None}] /\ count' \in [Bufs -> Nat]
      /\ chain' \in Seq(Bufs) /\ buf' \in [Pid -> Bufs \cup {None}]
      /\ pc' \in [Pid -> PC] /\ pc'[t] = "lock"
      /\ \A s \in Pid : s # t => pc'[s] = pc[s] /\ buf'[s] = buf[s]
      /\ count'[b] = 1 /\ \A d \in Bufs : d # b => count'[d] = count[d]
      /\ CurrentAwake' /\ Locals' /\ CountsExact' /\ LockersAsleep'
  <2>1. /\ chain \in Seq(Bufs) /\ Assign(t, b, chain) /\ used' = m /\ b \in 1 .. m
        /\ m = used + 1 => b = m
        /\ \A i \in DOMAIN chain : chain[i] \in 1 .. used
        /\ UNCHANGED <<lockWaiters, state, current, want>>
    BY <1>1, <1>2, <1>4, <1>6 DEF TypeOK, Locals, locks
  <2> QED BY <1>1, <1>2, <1>5, <2>1, AssignEffect
<1>8. TypeOK'
  <2>1. used' \in 0 .. room
    BY <1>2, <1>3
  <2> QED BY <1>1, <1>2, <1>7, <2>1 DEF TypeOK, locks, world
<1>9. FreeExact'
  <2> SUFFICES ASSUME NEW d \in Bufs
               PROVE  Queued(freeList', d) <=> d \in 1 .. used' /\ count'[d] = 0
    BY <1>1, <1>2 DEF FreeExact
  <2>1. CASE d = b
    BY <1>1, <1>2, <1>4, <1>7, <2>1 DEF FreeExact
  <2>2. CASE d # b
    <3>1. d \in 1 .. used' <=> d \in 1 .. used
      BY <1>2, <1>3, <1>4, <2>2
    <3> QED BY <1>1, <1>2, <1>7, <2>2, <3>1 DEF FreeExact
  <2> QED BY <2>1, <2>2
<1>10. waitList = << >> /\ waitList' = << >>
  BY <1>1, <1>2, <1>3 DEF WaitersAsleep
<1>11. WaitersAsleep' /\ WakersSuffice'
  BY <1>1, <1>2, <1>10 DEF WaitersAsleep, WakersSuffice, Queued
<1> QED BY <1>7, <1>8, <1>9, <1>11 DEF CacheInv

(***************************************************************************)
(* A free buffer is taken away from its block.                             *)
(***************************************************************************)
LEMMA RecycleStep ==
  ASSUME CacheInv, panic = "none", UNCHANGED room,
         NEW t \in Tasks, t = current, Recycle(t)
  PROVE  CacheInv'
<1>1. /\ TypeOK /\ CurrentAwake /\ Locals /\ FreeExact /\ CountsExact
      /\ WaitersAsleep /\ LockersAsleep /\ WakersSuffice
  BY DEF CacheInv
<1>2. /\ pc[t] = "free" /\ used = room /\ freeList # << >>
      /\ UNCHANGED <<used, dirty, data, locks, waitList, world, want, snap, state,
                     current>>
  BY DEF Recycle
<1>3. /\ Last(freeList) \in Bufs /\ Queued(freeList, Last(freeList))
      /\ Front(freeList) \in Seq(Bufs) /\ Distinct(Front(freeList))
      /\ Len(Front(freeList)) = Len(freeList) - 1
      /\ \A s : Queued(Front(freeList), s) <=> Queued(freeList, s) /\ s # Last(freeList)
  BY <1>1, <1>2, FrontQueued DEF TypeOK, FreeExact
<1>4. PICK b \in Bufs : b = Last(freeList)
  BY <1>3
<1> SUFFICES ASSUME panic' = "none" PROVE CacheInv'
  BY DEF CacheInv
<1>5. /\ freeList' = Front(freeList)
      /\ valid' = [valid EXCEPT ![b] = FALSE]
      /\ Assign(t, b, Without(chain, b))
  BY <1>4 DEF Recycle
<1>6. b \in 1 .. used /\ count[b] = 0
  BY <1>1, <1>3, <1>4 DEF FreeExact
<1>7. Holders(b) = {}
  <2>1. Cardinality(Holders(b)) = 0
    BY <1>1, <1>6 DEF CountsExact
  <2> QED BY <2>1, HoldersFinite, FS_EmptySet
<1>8. /\ Without(chain, b) \in Seq(Bufs)
      /\ \A i \in DOMAIN Without(chain, b) : Without(chain, b)[i] \in 1 .. used
  <2>1. /\ Without(chain, b) \in Seq(Bufs)
        /\ \A s : Queued(Without(chain, b), s) => Queued(chain, s)
    BY <1>1, WithoutQueued DEF TypeOK
  <2>2. \A s : Queued(chain, s) => s \in 1 .. used
    BY <1>1 DEF Locals, Queued
  <2> QED BY <2>1, <2>2 DEF Queued
<1>9. PICK c \in Seq(Bufs) : c = Without(chain, b)
  BY <1>8
<1>10. PICK m \in {used, used + 1} : m = used
  OBVIOUS
<1>11. /\ block' \in [Bufs -> Blocks \cup {None}] /\ count' \in [Bufs -> Nat]
       /\ chain' \in Seq(Bufs) /\ buf' \in [Pid -> Bufs \cup {None}]
       /\ pc' \in [Pid -> PC] /\ pc'[t] = "lock"
       /\ \A s \in Pid : s # t => pc'[s] = pc[s] /\ buf'[s] = buf[s]
       /\ count'[b] = 1 /\ \A d \in Bufs : d # b => count'[d] = count[d]
       /\ CurrentAwake' /\ Locals' /\ CountsExact' /\ LockersAsleep'
  <2>1. m # used + 1
    BY <1>1, <1>10, HasBuffer
  <2>2. /\ Assign(t, b, c) /\ used' = m /\ b \in 1 .. m
        /\ m = used + 1 => b = m
        /\ \A i \in DOMAIN c : c[i] \in 1 .. used
        /\ UNCHANGED <<lockWaiters, state, current, want>>
    BY <1>2, <1>5, <1>6, <1>8, <1>9, <1>10, <2>1 DEF locks
  <2> QED BY <1>1, <1>2, <1>7, <2>2, AssignEffect
<1>12. TypeOK'
  <2>1. freeList' \in Seq(Bufs) /\ valid' \in [Bufs -> BOOLEAN]
    BY <1>1, <1>3, <1>5 DEF TypeOK
  <2> QED BY <1>1, <1>2, <1>11, <2>1 DEF TypeOK, locks, world
<1>13. FreeExact'
  <2> SUFFICES ASSUME NEW d \in Bufs
               PROVE  Queued(freeList', d) <=> d \in 1 .. used' /\ count'[d] = 0
    BY <1>3, <1>5 DEF FreeExact
  <2>1. CASE d = b
    BY <1>3, <1>4, <1>5, <1>11, <2>1
  <2>2. CASE d # b
    BY <1>1, <1>2, <1>3, <1>4, <1>5, <1>11, <2>2 DEF FreeExact
  <2> QED BY <2>1, <2>2
<1>14. WaitersAsleep'
  <2>1. state[t] # "BLOCKED"
    BY <1>1 DEF CurrentAwake
  <2> QED BY <1>1, <1>2, <1>11, <2>1, TasksFinite DEF WaitersAsleep
<1>15. WakersSuffice'
  <2>1. state[t] # "BLOCKED"
    BY <1>1 DEF CurrentAwake
  <2>2. Wakers' = Wakers \ {t} /\ t \in Wakers
    BY <1>2, <1>11, <2>1, TasksFinite DEF Wakers
  <2>3. IsFiniteSet(Wakers) /\ Cardinality(Wakers) \in Nat
    BY HoldersFinite
  <2>4. Cardinality(Wakers') = Cardinality(Wakers) - 1
    BY <2>2, <2>3, FS_RemoveElement
  <2>5. Len(freeList) \in Nat
    BY <1>1 DEF TypeOK
  <2> QED BY <1>1, <1>2, <1>3, <1>5, <2>3, <2>4, <2>5 DEF WakersSuffice
<1> QED BY <1>11, <1>12, <1>13, <1>14, <1>15 DEF CacheInv

(***************************************************************************)
(* No buffer is free: the task queues for one.                             *)
(***************************************************************************)
LEMMA AwaitBufferStep ==
  ASSUME CacheInv, panic = "none", UNCHANGED room,
         NEW t \in Tasks, t = current, AwaitBuffer(t)
  PROVE  CacheInv'
<1>1. /\ TypeOK /\ CurrentAwake /\ Locals /\ FreeExact /\ CountsExact
      /\ WaitersAsleep /\ LockersAsleep /\ WakersSuffice
  BY DEF CacheInv
<1>2. /\ pc[t] = "free" /\ used = room /\ freeList = << >>
      /\ waitList' = Append(waitList, t) /\ BlockSelf(t)
      /\ UNCHANGED <<buffers, locks, chain, freeList, world, locals, pc, panic>>
  BY DEF AwaitBuffer
<1>3. /\ state' \in [Pid -> CacheStates] /\ current' \in Pid /\ CurrentAwake'
      /\ \A s \in Tasks : s # t => (state'[s] = "BLOCKED" <=> state[s] = "BLOCKED")
      /\ state'[t] = "BLOCKED"
  BY <1>1, <1>2, SleepQuietly
<1>4. state[t] # "BLOCKED"
  BY <1>1 DEF CurrentAwake
<1>5. /\ waitList' \in Seq(Tasks) /\ Distinct(waitList')
      /\ \A s : Queued(waitList', s) <=> Queued(waitList, s) \/ s = t
  <2>1. ~ Queued(waitList, t) /\ Distinct(waitList) /\ waitList \in Seq(Tasks)
    BY <1>1, <1>4 DEF WaitersAsleep, TypeOK
  <2> QED BY <1>2, <2>1, AppendQueued DEF Distinct
<1>6. TypeOK'
  BY <1>1, <1>2, <1>3, <1>5 DEF TypeOK, buffers, locks, world, locals, CacheStates
<1>7. Locals' /\ FreeExact'
  BY <1>1, <1>2 DEF Locals, FreeExact, buffers, locals
<1>8. CountsExact'
  BY <1>1, <1>2 DEF CountsExact, Holders, buffers, locals
<1>9. WaitersAsleep'
  BY <1>1, <1>2, <1>3, <1>5 DEF WaitersAsleep, buffers
<1>10. LockersAsleep'
  BY <1>1, <1>2, <1>3, LockersFrame DEF locks, locals
<1>11. WakersSuffice'
  <2>1. Cardinality(Wakers') \in Nat
    BY HoldersFiniteNext
  <2>2. Len(freeList') = 0
    BY <1>2
  <2> QED BY <2>1, <2>2 DEF WakersSuffice
<1> QED BY <1>3, <1>6, <1>7, <1>8, <1>9, <1>10, <1>11 DEF CacheInv

-----------------------------------------------------------------------------
(* Steps that give a reference back. *)

(***************************************************************************)
(* A task that held buffer b and is through with it is a holder less.      *)
(***************************************************************************)
LEMMA HolderRemoved ==
  ASSUME TypeOK, Locals, NEW t \in Tasks, pc[t] = "hold",
         NEW b \in Bufs, buf[t] = b, buf'[t] = None \/ pc'[t] = "release",
         buf'[t] \in {b, None},
         \A s \in Pid : s # t => pc'[s] = pc[s] /\ buf'[s] = buf[s]
  PROVE  /\ \A c \in Bufs \ {b} : Holders(c)' = Holders(c)
         /\ Cardinality(Holders(b)') = Cardinality(Holders(b)) - 1
         /\ Cardinality(Holders(b)) \in Nat \ {0}
<1>1. None \notin Bufs
  BY NoneHolds
<1>2. ASSUME NEW c \in Bufs \ {b} PROVE Holders(c)' = Holders(c)
  BY <1>1, TasksFinite DEF Holders
<1>3. Holders(b)' = Holders(b) \ {t} /\ t \in Holders(b)
  BY <1>1, TasksFinite DEF Holders
<1>4. IsFiniteSet(Holders(b)) /\ Cardinality(Holders(b)) \in Nat
  BY HoldersFinite
<1>5. Cardinality(Holders(b) \ {t}) = Cardinality(Holders(b)) - 1
  BY <1>3, <1>4, FS_RemoveElement
<1>6. Cardinality(Holders(b)) # 0
  BY <1>3, <1>4, FS_EmptySet
<1> QED BY <1>2, <1>3, <1>4, <1>5, <1>6

(***************************************************************************)
(* brelse of a buffer that others hold too.                                *)
(***************************************************************************)
LEMMA BrelseSharedStep ==
  ASSUME CacheInv, panic = "none", UNCHANGED room,
         NEW t \in Tasks, t = current, BrelseShared(t)
  PROVE  CacheInv'
<1>1. /\ TypeOK /\ CurrentAwake /\ Locals /\ FreeExact /\ CountsExact
      /\ WaitersAsleep /\ LockersAsleep /\ WakersSuffice
  BY DEF CacheInv
<1>2. pc[t] = "hold"
  BY DEF BrelseShared
<1>3. PICK b \in Bufs : b = buf[t] /\ b \in 1 .. used
  BY <1>1, <1>2, HasBuffer DEF Locals
<1>4. /\ count[b] > 1 /\ count' = [count EXCEPT ![b] = @ - 1]
      /\ buf' = [buf EXCEPT ![t] = None] /\ want' = [want EXCEPT ![t] = None]
      /\ Goto(t, "user")
      /\ UNCHANGED <<used, block, dirty, valid, data, locks, lists, world, snap,
                     state, current, panic>>
  BY <1>3 DEF BrelseShared
<1>5. /\ pc' \in [Pid -> PC] /\ pc'[t] = "user"
      /\ \A s \in Pid : s # t => pc'[s] = pc[s] /\ buf'[s] = buf[s]
      /\ buf' \in [Pid -> Bufs \cup {None}] /\ buf'[t] = None
      /\ CurrentAwake' /\ LockersAsleep'
  <2>1. PICK label \in PC, x \in Bufs \cup {None} : label = "user" /\ x = None
    BY DEF PC
  <2>2. /\ Goto(t, label) /\ buf' = [buf EXCEPT ![t] = x]
        /\ UNCHANGED <<lockWaiters, state, current>>
    BY <1>4, <2>1 DEF locks
  <2>3. /\ pc' \in [Pid -> PC] /\ pc'[t] = label
        /\ \A s \in Pid : s # t => pc'[s] = pc[s] /\ buf'[s] = buf[s]
        /\ buf' \in [Pid -> Bufs \cup {None}] /\ buf'[t] = x
        /\ CurrentAwake' /\ LockersAsleep'
    BY <1>1, <2>2, MoveOn
  <2> QED BY <2>1, <2>3
<1>6. /\ count \in [Bufs -> Nat] /\ count' \in [Bufs -> Nat]
      /\ count'[b] = count[b] - 1 /\ count'[b] # 0
      /\ \A d \in Bufs : d # b => count'[d] = count[d]
  BY <1>1, <1>4 DEF TypeOK
<1>7. TypeOK'
  <2>1. want' \in [Pid -> Blocks \cup {None}]
    BY <1>1, <1>4 DEF TypeOK
  <2> QED BY <1>1, <1>4, <1>5, <1>6, <2>1 DEF TypeOK, locks, lists, world
<1>8. Locals'
  BY <1>1, <1>4, <1>5, TasksFinite DEF Locals, TypeOK, lists
<1>9. FreeExact'
  <2> SUFFICES ASSUME NEW d \in Bufs
               PROVE  Queued(freeList', d) <=> d \in 1 .. used' /\ count'[d] = 0
    BY <1>1, <1>4 DEF FreeExact, lists
  <2>1. Queued(freeList', d) <=> d \in 1 .. used /\ count[d] = 0
    BY <1>1, <1>4 DEF FreeExact, lists
  <2>2. CASE d = b
    BY <1>4, <1>6, <2>1, <2>2
  <2>3. CASE d # b
    BY <1>4, <1>6, <2>1, <2>3
  <2> QED BY <2>2, <2>3
<1>10. CountsExact'
  <2>1. /\ \A c \in Bufs \ {b} : Holders(c)' = Holders(c)
        /\ Cardinality(Holders(b)') = Cardinality(Holders(b)) - 1
    BY <1>1, <1>2, <1>3, <1>5, HolderRemoved
  <2> SUFFICES ASSUME NEW d \in 1 .. used PROVE count'[d] = Cardinality(Holders(d)')
    BY <1>4 DEF CountsExact
  <2>2. d \in Bufs /\ count[d] = Cardinality(Holders(d))
    BY <1>1, HasBuffer DEF CountsExact
  <2>3. CASE d = b
    BY <1>6, <2>1, <2>2, <2>3
  <2>4. CASE d # b
    BY <1>6, <2>1, <2>2, <2>4
  <2> QED BY <2>3, <2>4
<1>11. WaitersAsleep'
  BY <1>1, <1>2, <1>4, <1>5, TasksFinite DEF WaitersAsleep, lists
<1>12. WakersSuffice'
  <2>1. Wakers' = Wakers
    BY <1>2, <1>4, <1>5, TasksFinite DEF Wakers
  <2> QED BY <1>1, <1>4, <2>1 DEF WakersSuffice, lists
<1> QED BY <1>5, <1>7, <1>8, <1>9, <1>10, <1>11, <1>12 DEF CacheInv

(***************************************************************************)
(* The end of brelse: t is outside again, and the last of those who wait   *)
(* for a buffer, if there is one, is woken and looks for it.               *)
(***************************************************************************)
LEMMA WakeOneEffect ==
  ASSUME TypeOK, CurrentAwake, WaitersAsleep, LockersAsleep,
         NEW t \in Tasks, t = current, pc[t] \in {"hold", "release"}, WakeOne(t),
         UNCHANGED <<room, used, lockWaiters, current>>
  PROVE  /\ waitList' \in Seq(Tasks) /\ state' \in [Pid -> CacheStates]
         /\ buf' \in [Pid -> Bufs \cup {None}] /\ want' \in [Pid -> Blocks \cup {None}]
         /\ pc' \in [Pid -> PC] /\ pc'[t] = "user" /\ buf'[t] = None
         /\ \A s \in Pid : s # t =>
              pc'[s] = pc[s] /\ buf'[s] = buf[s] /\ want'[s] = want[s]
         /\ CurrentAwake' /\ WaitersAsleep' /\ LockersAsleep'
         /\ waitList' # << >> =>
              /\ waitList # << >>
              /\ \E w \in Tasks \ Wakers : Wakers' = (Wakers \ {t}) \cup {w}
<1>1. /\ pc \in [Pid -> PC] /\ buf \in [Pid -> Bufs \cup {None}] /\ t \in Pid
      /\ t # Idle /\ want \in [Pid -> Blocks \cup {None}]
      /\ state \in [Pid -> CacheStates] /\ waitList \in Seq(Tasks)
  BY TasksFinite DEF TypeOK, Tasks, CacheStates
<1>2. /\ buf' = [buf EXCEPT ![t] = None] /\ want' = [want EXCEPT ![t] = None]
      /\ Goto(t, "user")
  BY DEF WakeOne
<1>3. /\ pc' \in [Pid -> PC] /\ pc'[t] = "user" /\ buf'[t] = None
      /\ buf' \in [Pid -> Bufs \cup {None}] /\ want' \in [Pid -> Blocks \cup {None}]
      /\ \A s \in Pid : s # t =>
           pc'[s] = pc[s] /\ buf'[s] = buf[s] /\ want'[s] = want[s]
  BY <1>1, <1>2 DEF Goto, PC
<1>4. state[t] # "BLOCKED"
  BY DEF CurrentAwake
<1>5. CASE waitList = << >>
  <2>1. UNCHANGED <<waitList, state>>
    BY <1>5 DEF WakeOne
  <2>2. CurrentAwake'
    BY <1>1, <1>3, <2>1, TasksFinite DEF CurrentAwake
  <2>3. WaitersAsleep'
    BY <1>5, <2>1 DEF WaitersAsleep, Queued
  <2>4. LockersAsleep'
    BY <1>3, <1>4, <2>1, TasksFinite, LockersFrame
  <2> QED BY <1>1, <1>3, <1>5, <2>1, <2>2, <2>3, <2>4
<1>6. CASE waitList # << >>
  <2>1. /\ Last(waitList) \in Tasks /\ Front(waitList) \in Seq(Tasks)
        /\ Queued(waitList, Last(waitList)) /\ Distinct(Front(waitList))
        /\ \A s : Queued(Front(waitList), s) <=> Queued(waitList, s) /\ s # Last(waitList)
    BY <1>1, <1>6, FrontQueued DEF WaitersAsleep
  <2>2. PICK w \in Tasks : w = Last(waitList)
    BY <2>1
  <2>3. waitList' = Front(waitList) /\ state' = [state EXCEPT ![w] = "READY"]
    BY <1>6, <2>2 DEF WakeOne
  <2>4. pc[w] = "free" /\ state[w] = "BLOCKED" /\ w # t /\ w \in Pid
    BY <1>4, <2>1, <2>2, TasksFinite DEF WaitersAsleep
  <2>5. /\ state' \in [Pid -> CacheStates] /\ state'[w] = "READY"
        /\ \A s \in Pid : s # w => state'[s] = state[s]
    BY <1>1, <2>3, <2>4 DEF CacheStates
  <2>6. CurrentAwake'
    <3>1. \A s \in Pid : state[s] # "BLOCKED" => state'[s] # "BLOCKED"
      BY <2>5
    <3> QED BY <1>1, <1>3, <3>1, TasksFinite DEF CurrentAwake
  <2>7. WaitersAsleep'
    <3>1. ASSUME NEW s \in Tasks, Queued(waitList', s)
          PROVE  pc'[s] = "free" /\ state'[s] = "BLOCKED"
      <4>1. Queued(waitList, s) /\ s # w
        BY <2>1, <2>2, <2>3, <3>1
      <4>2. pc[s] = "free" /\ state[s] = "BLOCKED"
        BY <4>1 DEF WaitersAsleep
      <4> QED BY <1>3, <1>4, <2>5, <4>1, <4>2, TasksFinite
    <3> QED BY <1>6, <2>1, <2>3, <3>1 DEF WaitersAsleep
  <2>8. LockersAsleep'
    BY <1>3, <1>4, <2>4, <2>5, TasksFinite, LockersFrame
  <2>9. w \in Tasks \ Wakers
    BY <2>4 DEF Wakers
  <2>10. Wakers' = (Wakers \ {t}) \cup {w}
    <3> SUFFICES ASSUME NEW s \in Tasks
                 PROVE  s \in Wakers' <=> s \in (Wakers \ {t}) \cup {w}
      BY DEF Wakers
    <3>1. CASE s = t
      BY <1>3, <2>4, <3>1 DEF Wakers
    <3>2. CASE s = w
      BY <1>3, <2>4, <2>5, <3>2 DEF Wakers
    <3>3. CASE s # t /\ s # w
      BY <1>3, <2>5, <3>3, TasksFinite DEF Wakers
    <3> QED BY <3>1, <3>2, <3>3
  <2> QED BY <1>3, <1>6, <2>1, <2>3, <2>5, <2>6, <2>7, <2>8, <2>9, <2>10
<1> QED BY <1>5, <1>6

(***************************************************************************)
(* brelse of the last reference.  The buffer is not on the free list yet,  *)
(* as the code asserts.                                                    *)
(***************************************************************************)
LEMMA BrelseStep ==
  ASSUME CacheInv, panic = "none", UNCHANGED room,
         NEW t \in Tasks, t = current, Brelse(t)
  PROVE  CacheInv' /\ UNCHANGED panic
<1>1. /\ TypeOK /\ CurrentAwake /\ Locals /\ FreeExact /\ CountsExact
      /\ WaitersAsleep /\ LockersAsleep /\ WakersSuffice
  BY DEF CacheInv
<1>2. pc[t] = "hold" /\ t \in Pid /\ state[t] # "BLOCKED"
  BY <1>1, TasksFinite DEF Brelse, CurrentAwake
<1>3. PICK b \in Bufs : b = buf[t] /\ b \in 1 .. used
  BY <1>1, <1>2, HasBuffer DEF Locals
<1>4. count[b] = Cardinality(Holders(b)) /\ t \in Holders(b)
  BY <1>1, <1>2, <1>3 DEF CountsExact, Holders
<1>5. count[b] = 1
  <2>1. IsFiniteSet(Holders(b)) /\ Cardinality(Holders(b)) \in Nat
    BY HoldersFinite
  <2>2. Cardinality(Holders(b)) # 0
    BY <1>4, <2>1, FS_EmptySet
  <2>3. count[b] <= 1
    BY <1>3 DEF Brelse
  <2> QED BY <1>4, <2>1, <2>2, <2>3
<1>6. ~ Queued(freeList, b)
  BY <1>1, <1>5 DEF FreeExact
<1>7. /\ count' = [count EXCEPT ![b] = @ - 1]
      /\ freeList' = << b >> \o freeList
      /\ \/ StartWrite(t, "release") /\ UNCHANGED <<waitList, want, buf>>
         \/ WakeOne(t) /\ UNCHANGED <<snap, current>>
      /\ UNCHANGED <<panic, used, block, dirty, valid, data, locks, chain, world>>
  BY <1>3, <1>6 DEF Brelse, Queued, Release
<1>8. /\ count' \in [Bufs -> Nat] /\ count'[b] = 0
      /\ \A d \in Bufs : d # b => count'[d] = count[d]
  BY <1>1, <1>5, <1>7 DEF TypeOK
<1>9. /\ freeList' \in Seq(Bufs) /\ Len(freeList') = Len(freeList) + 1
      /\ \A s : Queued(freeList', s) <=> Queued(freeList, s) \/ s = b
      /\ Distinct(freeList') /\ Len(freeList) \in Nat
  BY <1>1, <1>6, <1>7, PushQueued DEF TypeOK, FreeExact
<1>10. FreeExact'
  <2> SUFFICES ASSUME NEW d \in Bufs
               PROVE  Queued(freeList', d) <=> d \in 1 .. used' /\ count'[d] = 0
    BY <1>9 DEF FreeExact
  <2>1. CASE d = b
    BY <1>3, <1>7, <1>8, <1>9, <2>1
  <2>2. CASE d # b
    BY <1>1, <1>7, <1>8, <1>9, <2>2 DEF FreeExact
  <2> QED BY <2>1, <2>2
<1>11. ASSUME buf'[t] = None \/ pc'[t] = "release", buf'[t] \in {b, None},
              \A s \in Pid : s # t => pc'[s] = pc[s] /\ buf'[s] = buf[s]
       PROVE  CountsExact'
  <2>1. /\ \A c \in Bufs \ {b} : Holders(c)' = Holders(c)
        /\ Cardinality(Holders(b)') = Cardinality(Holders(b)) - 1
    BY <1>1, <1>2, <1>3, <1>11, HolderRemoved
  <2> SUFFICES ASSUME NEW d \in 1 .. used PROVE count'[d] = Cardinality(Holders(d)')
    BY <1>7 DEF CountsExact
  <2>2. d \in Bufs /\ count[d] = Cardinality(Holders(d))
    BY <1>1, HasBuffer DEF CountsExact
  <2>3. CASE d = b
    BY <1>5, <1>8, <2>1, <2>2, <2>3
  <2>4. CASE d # b
    BY <1>8, <2>1, <2>2, <2>4
  <2> QED BY <2>3, <2>4
<1>12. IsFiniteSet(Wakers) /\ Cardinality(Wakers) \in Nat /\ t \notin Wakers
  BY <1>2, HoldersFinite DEF Wakers
<1>13. CASE StartWrite(t, "release") /\ UNCHANGED <<waitList, want, buf>>
  <2>1. /\ snap' = [snap EXCEPT ![t] = data[buf[t]]] /\ BlockSelf(t)
        /\ Goto(t, "release")
    BY <1>13 DEF StartWrite
  <2>2. /\ state' \in [Pid -> CacheStates] /\ current' \in Pid
        /\ state'[current'] # "BLOCKED" /\ state'[Idle] # "BLOCKED"
        /\ \A n \in Tasks : state'[n] = "BLOCKED" <=> state[n] = "BLOCKED" \/ n = t
    BY <1>1, <2>1, BlockEffect DEF CurrentAwake, TypeOK, CacheStates
  <2>3. /\ pc' \in [Pid -> PC] /\ pc'[t] = "release"
        /\ \A s \in Pid : s # t => pc'[s] = pc[s]
    BY <1>1, <1>2, <2>1 DEF TypeOK, Goto, PC, InIO
  <2>4. CurrentAwake'
    BY <1>1, <2>2, <2>3, TasksFinite DEF CurrentAwake, Tasks
  <2>5. TypeOK'
    <3>1. snap' \in [Pid -> Version]
      BY <1>1, <1>3, <2>1 DEF TypeOK
    <3> QED BY <1>1, <1>7, <1>8, <1>9, <1>13, <2>2, <2>3, <3>1
            DEF TypeOK, locks, world, CacheStates
  <2>6. Locals'
    BY <1>1, <1>2, <1>7, <1>13, <2>3, TasksFinite DEF Locals
  <2>7. CountsExact'
    BY <1>3, <1>11, <1>13, <2>3
  <2>8. WaitersAsleep'
    BY <1>1, <1>2, <1>7, <1>13, <2>2, <2>3, TasksFinite DEF WaitersAsleep
  <2>9. LockersAsleep'
    BY <1>1, <1>2, <1>7, <1>13, <2>2, <2>3, TasksFinite, LockersFrame DEF locks
  <2>10. WakersSuffice'
    <3>1. Wakers' = Wakers \cup {t}
      BY <1>2, <2>2, <2>3, TasksFinite DEF Wakers
    <3>2. Cardinality(Wakers') = Cardinality(Wakers) + 1
      BY <1>12, <3>1, FS_AddElement
    <3> QED BY <1>1, <1>9, <1>12, <1>13, <3>2 DEF WakersSuffice
  <2> QED BY <1>7, <1>10, <2>4, <2>5, <2>6, <2>7, <2>8, <2>9, <2>10 DEF CacheInv
<1>14. CASE WakeOne(t) /\ UNCHANGED <<snap, current>>
  <2>1. /\ waitList' \in Seq(Tasks) /\ state' \in [Pid -> CacheStates]
        /\ buf' \in [Pid -> Bufs \cup {None}] /\ want' \in [Pid -> Blocks \cup {None}]
        /\ pc' \in [Pid -> PC] /\ pc'[t] = "user" /\ buf'[t] = None
        /\ \A s \in Pid : s # t =>
             pc'[s] = pc[s] /\ buf'[s] = buf[s] /\ want'[s] = want[s]
        /\ CurrentAwake' /\ WaitersAsleep' /\ LockersAsleep'
        /\ waitList' # << >> =>
             /\ waitList # << >>
             /\ \E w \in Tasks \ Wakers : Wakers' = (Wakers \ {t}) \cup {w}
    BY <1>1, <1>2, <1>7, <1>14, WakeOneEffect DEF locks
  <2>2. TypeOK'
    BY <1>1, <1>7, <1>8, <1>9, <1>14, <2>1 DEF TypeOK, locks, world, CacheStates
  <2>3. Locals'
    BY <1>1, <1>7, <2>1, TasksFinite DEF Locals
  <2>4. CountsExact'
    BY <1>11, <2>1
  <2>5. WakersSuffice'
    <3> SUFFICES ASSUME waitList' # << >>
                 PROVE  Len(freeList') <= Cardinality(Wakers')
      BY DEF WakersSuffice
    <3>1. PICK w \in Tasks \ Wakers : Wakers' = (Wakers \ {t}) \cup {w}
      BY <2>1
    <3>2. Wakers' = Wakers \cup {w} /\ w \notin Wakers
      BY <1>12, <3>1
    <3>3. Cardinality(Wakers') = Cardinality(Wakers) + 1
      BY <1>12, <3>2, FS_AddElement
    <3>4. Len(freeList) <= Cardinality(Wakers)
      BY <1>1, <2>1 DEF WakersSuffice
    <3> QED BY <1>9, <1>12, <3>3, <3>4
  <2> QED BY <1>7, <1>10, <2>1, <2>2, <2>3, <2>4, <2>5 DEF CacheInv
<1> QED BY <1>7, <1>13, <1>14

(***************************************************************************)
(* The rest of brelse after the write.                                     *)
(***************************************************************************)
LEMMA BrelseEndStep ==
  ASSUME CacheInv, panic = "none", UNCHANGED room,
         NEW t \in Tasks, t = current, BrelseEnd(t)
  PROVE  CacheInv'
<1>1. /\ TypeOK /\ CurrentAwake /\ Locals /\ FreeExact /\ CountsExact
      /\ WaitersAsleep /\ LockersAsleep /\ WakersSuffice
  BY DEF CacheInv
<1>2. /\ pc[t] = "release"
      /\ dirty' = [dirty EXCEPT ![buf[t]] = FALSE]
      /\ valid' = [valid EXCEPT ![buf[t]] = TRUE]
      /\ WakeOne(t)
      /\ UNCHANGED <<used, block, count, data, locks, chain, freeList, world, snap,
                     current, panic>>
  BY DEF BrelseEnd
<1>3. /\ waitList' \in Seq(Tasks) /\ state' \in [Pid -> CacheStates]
      /\ buf' \in [Pid -> Bufs \cup {None}] /\ want' \in [Pid -> Blocks \cup {None}]
      /\ pc' \in [Pid -> PC] /\ pc'[t] = "user" /\ buf'[t] = None
      /\ \A s \in Pid : s # t =>
           pc'[s] = pc[s] /\ buf'[s] = buf[s] /\ want'[s] = want[s]
      /\ CurrentAwake' /\ WaitersAsleep' /\ LockersAsleep'
      /\ waitList' # << >> =>
           /\ waitList # << >>
           /\ \E w \in Tasks \ Wakers : Wakers' = (Wakers \ {t}) \cup {w}
  BY <1>1, <1>2, WakeOneEffect DEF locks
<1>4. TypeOK'
  <2>1. dirty' \in [Bufs -> BOOLEAN] /\ valid' \in [Bufs -> BOOLEAN]
    BY <1>1, <1>2 DEF TypeOK
  <2> QED BY <1>1, <1>2, <1>3, <2>1 DEF TypeOK, locks, world, CacheStates
<1>5. Locals'
  BY <1>1, <1>2, <1>3, TasksFinite DEF Locals
<1>6. FreeExact'
  BY <1>1, <1>2 DEF FreeExact
<1>7. CountsExact'
  <2>1. None \notin 1 .. used
    BY <1>1, NoneHolds
  <2>2. \A b \in 1 .. used : Holders(b)' = Holders(b)
    BY <1>2, <1>3, <2>1, TasksFinite DEF Holders
  <2> QED BY <1>1, <1>2, <2>2 DEF CountsExact
<1>8. WakersSuffice'
  <2> SUFFICES ASSUME waitList' # << >>
               PROVE  Len(freeList') <= Cardinality(Wakers')
    BY DEF WakersSuffice
  <2>1. PICK w \in Tasks \ Wakers : Wakers' = (Wakers \ {t}) \cup {w}
    BY <1>3
  <2>2. IsFiniteSet(Wakers) /\ Cardinality(Wakers) \in Nat /\ t \in Wakers
    BY <1>2, HoldersFinite DEF Wakers
  <2>3. /\ IsFiniteSet(Wakers \ {t})
        /\ Cardinality(Wakers \ {t}) = Cardinality(Wakers) - 1
    BY <2>2, FS_RemoveElement
  <2>4. Cardinality((Wakers \ {t}) \cup {w}) = Cardinality(Wakers \ {t}) + 1
    BY <2>1, <2>3, FS_AddElement
  <2>5. Cardinality(Wakers') = Cardinality(Wakers)
    BY <2>1, <2>2, <2>3, <2>4
  <2> QED BY <1>1, <1>2, <1>3, <2>5 DEF WakersSuffice
<1> QED BY <1>2, <1>3, <1>4, <1>5, <1>6, <1>7, <1>8 DEF CacheInv

-----------------------------------------------------------------------------
(* The invariant, and the first two theorems. *)

(***************************************************************************)
(* The cache starts empty.                                                 *)
(***************************************************************************)
LEMMA CacheInit == Init => CacheInv
<1> SUFFICES ASSUME Init PROVE CacheInv
  OBVIOUS
<1>1. TypeOK
  BY TasksFinite, NBufAssumption, MaxWritesAssumption
     DEF Init, TypeOK, PC, InIO, Version
<1>2. CurrentAwake
  BY TasksFinite DEF Init, CurrentAwake
<1>3. used = 0 /\ 1 .. used = {}
  BY DEF Init
<1>4. Locals
  BY <1>3, TasksFinite DEF Init, Locals
<1>5. FreeExact
  BY <1>3 DEF Init, FreeExact, Distinct, Queued
<1>6. CountsExact
  BY <1>3 DEF CountsExact
<1>7. WaitersAsleep /\ WakersSuffice
  BY DEF Init, WaitersAsleep, WakersSuffice, Distinct, Queued
<1>8. LockersAsleep
  BY DEF Init, LockersAsleep, Distinct, Queued
<1> QED BY <1>1, <1>2, <1>4, <1>5, <1>6, <1>7, <1>8 DEF CacheInv

(***************************************************************************)
(* Every step keeps the invariant, action by action.                       *)
(***************************************************************************)
LEMMA CacheStep == CacheInv /\ [Next]_vars => CacheInv'
<1> SUFFICES ASSUME CacheInv, [Next]_vars PROVE CacheInv'
  OBVIOUS
<1>1. CASE UNCHANGED vars
  <2>1. /\ UNCHANGED <<room, used, block, count, dirty, valid, data, locked>>
        /\ UNCHANGED <<lockWaiters, chain, freeList, waitList, disk, latest>>
        /\ UNCHANGED <<want, buf, snap, state, current, pc, panic>>
    BY <1>1 DEF vars, buffers, locks, lists, world, locals
  <2>2. TypeOK => TypeOK'
    BY <2>1 DEF TypeOK
  <2>3. CurrentAwake /\ Locals => CurrentAwake' /\ Locals'
    BY <2>1 DEF CurrentAwake, Locals
  <2>4. FreeExact /\ CountsExact => FreeExact' /\ CountsExact'
    BY <2>1 DEF FreeExact, CountsExact, Holders
  <2>5. WaitersAsleep /\ LockersAsleep => WaitersAsleep' /\ LockersAsleep'
    BY <2>1 DEF WaitersAsleep, LockersAsleep
  <2>6. WakersSuffice => WakersSuffice'
    BY <2>1 DEF WakersSuffice, Wakers
  <2> QED BY <2>1, <2>2, <2>3, <2>4, <2>5, <2>6 DEF CacheInv
<1>2. ASSUME panic = "none", UNCHANGED room,
             NEW t \in Tasks, current = t, KernelStep(t)
      PROVE  CacheInv'
  <2>1. CASE GetNew(t)
    BY <1>2, <2>1, GetNewStep
  <2>2. CASE Recycle(t)
    BY <1>2, <2>2, RecycleStep
  <2>3. CASE AwaitBuffer(t)
    BY <1>2, <2>3, AwaitBufferStep
  <2>4. CASE LockAndRead(t)
    BY <1>2, <2>4, LockAndReadStep
  <2>5. CASE ReadEnd(t)
    BY <1>2, <2>5, ReadEndStep
  <2>6. CASE BwriteEnd(t) \/ OtherEnd(t)
    BY <1>2, <2>6, WaitEndStep
  <2>7. CASE BrelseEnd(t)
    BY <1>2, <2>7, BrelseEndStep
  <2> QED BY <1>2, <2>1, <2>2, <2>3, <2>4, <2>5, <2>6, <2>7 DEF KernelStep
<1>3. ASSUME panic = "none", UNCHANGED room,
             NEW t \in Tasks, current = t, FileSystem(t)
      PROVE  CacheInv'
  <2>1. ASSUME NEW k \in Blocks, BreadHit(t, k) PROVE CacheInv'
    BY <1>3, <2>1, BreadHitStep
  <2>2. ASSUME NEW k \in Blocks, BreadMiss(t, k) PROVE CacheInv'
    BY <1>3, <2>2, BreadMissStep
  <2>3. CASE Modify(t)
    BY <1>3, <2>3, ModifyStep
  <2>4. CASE Bwrite(t) \/ OtherIO(t)
    BY <1>3, <2>4, WaitStep
  <2> QED BY <1>3, <2>1, <2>2, <2>3, <2>4 DEF FileSystem
<1>4. ASSUME panic = "none", UNCHANGED room,
             NEW t \in Tasks, current = t, ReleaseStep(t)
      PROVE  CacheInv'
  BY <1>4, BrelseSharedStep, BrelseStep DEF ReleaseStep
<1>5. ASSUME panic = "none", UNCHANGED room, NEW t \in Tasks, DeviceDone(t)
      PROVE  CacheInv'
  BY <1>5, DeviceDoneStep
<1>6. ASSUME panic = "none", UNCHANGED room, Clock PROVE CacheInv'
  BY <1>6, ClockStep
<1> QED BY <1>1, <1>2, <1>3, <1>4, <1>5, <1>6 DEF Next

(***************************************************************************)
(* The exact free list, stated with positions as FreeIsUnused does.        *)
(***************************************************************************)
LEMMA ExactIsUnused == CacheInv => FreeIsUnused
<1> SUFFICES ASSUME CacheInv, panic = "none"
             PROVE  /\ \A b \in 1 .. used : count[b] = Cardinality(Holders(b))
                    /\ \A b \in 1 .. used :
                         Cardinality({i \in DOMAIN freeList : freeList[i] = b})
                           = (IF count[b] = 0 THEN 1 ELSE 0)
  BY DEF FreeIsUnused
<1>1. TypeOK /\ FreeExact /\ CountsExact
  BY DEF CacheInv
<1>2. ASSUME NEW b \in 1 .. used
      PROVE  Cardinality({i \in DOMAIN freeList : freeList[i] = b})
               = (IF count[b] = 0 THEN 1 ELSE 0)
  <2> DEFINE At == {i \in DOMAIN freeList : freeList[i] = b}
  <2>1. Queued(freeList, b) <=> count[b] = 0
    BY <1>1, HasBuffer DEF FreeExact
  <2>2. CASE count[b] = 0
    <3>1. PICK i \in DOMAIN freeList : freeList[i] = b
      BY <2>1, <2>2 DEF Queued
    <3>2. At = {i}
      BY <1>1, <3>1 DEF FreeExact, Distinct
    <3>3. Cardinality(At) = 1
      BY <3>2, FS_Singleton
    <3> QED BY <2>2, <3>3
  <2>3. CASE count[b] # 0
    <3>1. At = {}
      BY <2>1, <2>3 DEF Queued
    <3>2. Cardinality(At) = 0
      BY <3>1, FS_EmptySet
    <3> QED BY <2>3, <3>2
  <2> QED BY <2>2, <2>3
<1> QED BY <1>1, <1>2 DEF CountsExact

(***************************************************************************)
(* The reference counts of getblk and brelse are exact, and the free list  *)
(* has exactly the buffers that nobody uses: no buffer in use is given to  *)
(* another block and none is lost, for any tasks, blocks and buffers.      *)
(***************************************************************************)
THEOREM CacheFreeIsUnused == Spec => []FreeIsUnused
<1>1. Init => CacheInv
  BY CacheInit
<1>2. CacheInv /\ [Next]_vars => CacheInv'
  BY CacheStep
<1>3. CacheInv => FreeIsUnused
  BY ExactIsUnused
<1> QED BY <1>1, <1>2, <1>3, PTL DEF Spec

(***************************************************************************)
(* brelse never leaves a buffer unused while tasks sleep in                *)
(* get_free_cache: there is a waker for it.                                *)
(***************************************************************************)
THEOREM CacheNoBufferWasted == Spec => []NoBufferWasted
<1>1. Init => CacheInv
  BY CacheInit
<1>2. CacheInv /\ [Next]_vars => CacheInv'
  BY CacheStep
<1>3. CacheInv => NoBufferWasted
  <2> SUFFICES ASSUME CacheInv, panic = "none", waitList # << >>, freeList # << >>
               PROVE  Wakers # {}
    BY DEF NoBufferWasted, Wakers
  <2>1. Len(freeList) \in Nat \ {0}
    BY DEF CacheInv, TypeOK
  <2>2. Len(freeList) <= Cardinality(Wakers)
    BY DEF CacheInv, WakersSuffice
  <2>3. Cardinality(Wakers) # 0
    BY <2>1, <2>2, HoldersFinite
  <2> QED BY <2>3, FS_EmptySet
<1> QED BY <1>1, <1>2, <1>3, PTL DEF Spec

-----------------------------------------------------------------------------
(* With room for every block. *)

(***************************************************************************)
(* While some block has no buffer there is room for one more: buffers are  *)
(* counted against the blocks they are for.                                *)
(***************************************************************************)
LEMMA RoomForMiss ==
  ASSUME TypeOK, Locals, OnePerBlock, Roomy, NEW t \in Tasks, pc[t] = "free"
  PROVE  used < room
<1>1. want[t] \in Blocks /\ \A b \in 1 .. used : block[b] \in Blocks \ {want[t]}
  BY DEF Locals, OnePerBlock
<1>2. used \in Nat /\ room \in Nat
  BY HasBuffer
<1> DEFINE S == 1 .. used
           T == Blocks \ {want[t]}
           f == [b \in S |-> block[b]]
<1>3. IsFiniteSet(S) /\ Cardinality(S) = used
  BY <1>2, FS_Interval
<1>4. /\ IsFiniteSet(T) /\ Cardinality(T) = Cardinality(Blocks) - 1
      /\ Cardinality(Blocks) \in Nat
  BY <1>1, BlocksAssumption, FS_RemoveElement, FS_CardinalityType
<1>5. f \in [S -> T]
  BY <1>1
<1>6. \A x, y \in S : x # y => f[x] # f[y]
  BY DEF OnePerBlock
<1> HIDE DEF S, T, f
<1>7. ~ (Cardinality(T) < Cardinality(S))
  BY <1>3, <1>4, <1>5, <1>6, FS_PigeonHole
<1> QED BY <1>2, <1>3, <1>4, <1>7 DEF Roomy

(***************************************************************************)
(* The three parts, for the steps of a task that change nothing but its    *)
(* own place, its buffer and the lists of those who wait or are read.      *)
(***************************************************************************)
LEMMA FreshMove ==
  ASSUME TypeOK, Locals, OnePerBlock, ReadOnce, LatestKept,
         NEW t \in Tasks, t = current, pc[t] # "free",
         UNCHANGED <<used, block, chain, disk, latest, data, valid>>,
         waitList' = << >>,
         \A s \in Tasks : pc[s] = "read" => locked'[buf[s]],
         \A s \in Pid : s # t =>
           pc'[s] = pc[s] /\ buf'[s] = buf[s] /\ want'[s] = want[s],
         \A s \in Tasks : s # t /\ pc[s] = "read" =>
           (state'[s] = "BLOCKED" <=> state[s] = "BLOCKED"),
         pc'[t] # "free",
         pc'[t] # "user" => buf'[t] \in 1 .. used /\ block[buf'[t]] = want'[t],
         pc'[t] \in {"hold", "bwrite", "other", "release"} => valid[buf'[t]],
         pc'[t] = "read" =>
           /\ locked'[buf'[t]] /\ ~ valid[buf'[t]] /\ state'[t] = "BLOCKED"
           /\ \A s \in Tasks : s # t /\ pc[s] = "read" => buf[s] # buf'[t]
  PROVE  OnePerBlock' /\ ReadOnce' /\ LatestKept'
<1>1. OnePerBlock'
  <2>1. \A s \in Tasks : pc'[s] # "free"
    BY TasksFinite DEF OnePerBlock
  <2>2. \A s \in Tasks : pc'[s] \notin {"user", "free"} => block[buf'[s]] = want'[s]
    BY TasksFinite DEF OnePerBlock
  <2> QED BY <2>1, <2>2 DEF OnePerBlock
<1>2. ReadOnce'
  <2>1. ASSUME NEW s \in Tasks, pc'[s] \in {"hold", "bwrite", "other", "release"}
        PROVE  valid[buf'[s]]
    BY <2>1, TasksFinite DEF ReadOnce
  <2>2. ASSUME NEW s \in Tasks, pc'[s] = "read"
        PROVE  /\ locked'[buf'[s]] /\ ~ valid[buf'[s]]
               /\ state'[s] # "BLOCKED" => data[buf'[s]] = latest[want'[s]]
    <3>1. CASE s = t
      BY <2>2, <3>1
    <3>2. CASE s # t
      BY <2>2, <3>2, TasksFinite DEF ReadOnce
    <3> QED BY <3>1, <3>2
  <2>3. ASSUME NEW r \in Tasks, NEW s \in Tasks,
               pc'[r] = "read", pc'[s] = "read", buf'[r] = buf'[s]
        PROVE  r = s
    <3>1. CASE r # t /\ s # t
      BY <2>3, <3>1, TasksFinite DEF ReadOnce
    <3>2. CASE r = t
      BY <2>3, <3>2, TasksFinite
    <3>3. CASE s = t
      BY <2>3, <3>3, TasksFinite
    <3> QED BY <3>1, <3>2, <3>3
  <2> QED BY <2>1, <2>2, <2>3 DEF ReadOnce
<1>3. LatestKept'
  BY DEF LatestKept
<1> QED BY <1>1, <1>2, <1>3

\* The three parts together.
Fresh == OnePerBlock /\ ReadOnce /\ LatestKept

(***************************************************************************)
(* getblk of a block with a buffer.                                        *)
(***************************************************************************)
LEMMA FreshHit ==
  ASSUME CacheInv, panic = "none", Fresh,
         NEW t \in Tasks, t = current, NEW k \in Blocks, BreadHit(t, k)
  PROVE  Fresh'
<1>1. TypeOK /\ Locals /\ OnePerBlock /\ ReadOnce /\ LatestKept
  BY DEF CacheInv, Fresh
<1>2. PICK b \in Bufs : b = Lookup(k) /\ b \in 1 .. used /\ block[b] = k
  BY <1>1, LookupFinds, HasBuffer DEF BreadHit
<1>3. /\ pc[t] = "user" /\ want' = [want EXCEPT ![t] = k]
      /\ buf' = [buf EXCEPT ![t] = b]
      /\ Goto(t, IF valid[b] THEN "hold" ELSE "lock")
      /\ UNCHANGED <<used, block, dirty, valid, data, locks, chain, waitList, world,
                     snap, state, current, panic>>
  BY <1>2 DEF BreadHit, Enter
<1>4. /\ pc'[t] = IF valid[b] THEN "hold" ELSE "lock"
      /\ buf'[t] = b /\ want'[t] = k
      /\ \A s \in Pid : s # t =>
           pc'[s] = pc[s] /\ buf'[s] = buf[s] /\ want'[s] = want[s]
  BY <1>1, <1>3, TasksFinite DEF TypeOK, Goto
<1>5. /\ waitList' = << >>
      /\ \A s \in Tasks : pc[s] = "read" => locked'[buf[s]]
  BY <1>1, <1>3 DEF OnePerBlock, ReadOnce, locks
<1> QED BY <1>1, <1>2, <1>3, <1>4, <1>5, FreshMove DEF Fresh, world

(***************************************************************************)
(* getblk of a block without: no buffer of the table is for it.            *)
(***************************************************************************)
LEMMA FreshMiss ==
  ASSUME CacheInv, panic = "none", Fresh,
         NEW t \in Tasks, t = current, NEW k \in Blocks, BreadMiss(t, k)
  PROVE  Fresh'
<1>1. TypeOK /\ Locals /\ OnePerBlock /\ ReadOnce /\ LatestKept
  BY DEF CacheInv, Fresh
<1>2. /\ pc[t] = "user" /\ want' = [want EXCEPT ![t] = k] /\ Goto(t, "free")
      /\ UNCHANGED <<buffers, locks, lists, world, buf, snap, state, current, panic>>
  BY DEF BreadMiss
<1>3. \A b \in 1 .. used : block[b] # k
  BY <1>1 DEF BreadMiss, Places, OnePerBlock, Queued
<1>4. /\ pc'[t] = "free" /\ want'[t] = k
      /\ \A s \in Pid : s # t => pc'[s] = pc[s] /\ want'[s] = want[s]
  BY <1>1, <1>2, TasksFinite DEF TypeOK, Goto
<1>5. OnePerBlock'
  BY <1>1, <1>2, <1>3, <1>4, TasksFinite DEF OnePerBlock, buffers, lists
<1>6. ReadOnce'
  BY <1>1, <1>2, <1>4, TasksFinite DEF ReadOnce, buffers, locks, world
<1>7. LatestKept'
  BY <1>1, <1>2 DEF LatestKept, buffers, world
<1> QED BY <1>5, <1>6, <1>7 DEF Fresh

(***************************************************************************)
(* A new buffer gets the block that had none.                              *)
(***************************************************************************)
LEMMA FreshNew ==
  ASSUME CacheInv, panic = "none", Fresh,
         NEW t \in Tasks, t = current, GetNew(t)
  PROVE  Fresh'
<1>1. TypeOK /\ Locals /\ OnePerBlock /\ ReadOnce /\ LatestKept
  BY DEF CacheInv, Fresh
<1>2. /\ pc[t] = "free" /\ used < room /\ used' = used + 1
      /\ Assign(t, used + 1, chain)
      /\ UNCHANGED <<dirty, valid, data, locks, freeList, waitList, world, want, snap,
                     state, current, panic>>
  BY DEF GetNew
<1>3. used \in Nat /\ room \in Nat /\ room <= NBuf /\ 1 .. used \subseteq Bufs
  BY <1>1, HasBuffer
<1>4. PICK b \in Bufs : b = used + 1 /\ b \notin 1 .. used
                        /\ 1 .. used' = (1 .. used) \cup {b}
  BY <1>2, <1>3, NBufAssumption DEF Bufs
<1>5. /\ block' = [block EXCEPT ![b] = want[t]] /\ chain' = << b >> \o chain
      /\ buf' = [buf EXCEPT ![t] = b] /\ Goto(t, "lock")
  BY <1>2, <1>4 DEF Assign, Enter
<1>6. /\ block'[b] = want[t] /\ \A d \in 1 .. used : block'[d] = block[d]
      /\ pc'[t] = "lock" /\ buf'[t] = b
      /\ \A s \in Pid : s # t => pc'[s] = pc[s] /\ buf'[s] = buf[s]
  BY <1>1, <1>3, <1>4, <1>5, TasksFinite DEF TypeOK, Goto
<1>7. \A s : Queued(chain', s) <=> Queued(chain, s) \/ s = b
  BY <1>1, <1>5, PushQueued DEF TypeOK
<1>8. \A d \in 1 .. used : block[d] # want[t]
  BY <1>1, <1>2 DEF OnePerBlock
<1>9. \A s \in Tasks : pc[s] \notin {"user", "free"} => buf[s] \in 1 .. used
  BY <1>1 DEF Locals
<1>10. OnePerBlock'
  <2>1. \A s \in Tasks : pc'[s] # "free"
    BY <1>1, <1>2, <1>6, TasksFinite DEF OnePerBlock
  <2>2. \A d \in 1 .. used' : Queued(chain', d)
    BY <1>1, <1>4, <1>7 DEF OnePerBlock
  <2>3. \A d, e \in 1 .. used' : block'[d] = block'[e] => d = e
    BY <1>1, <1>4, <1>6, <1>8 DEF OnePerBlock
  <2>4. \A s \in Tasks : pc'[s] \notin {"user", "free"} => block'[buf'[s]] = want[s]
    BY <1>1, <1>6, <1>9, TasksFinite DEF OnePerBlock
  <2>5. waitList' = << >> /\ want' = want
    BY <1>1, <1>2 DEF OnePerBlock
  <2> QED BY <2>1, <2>2, <2>3, <2>4, <2>5 DEF OnePerBlock
<1>11. ReadOnce'
  BY <1>1, <1>2, <1>6, TasksFinite DEF ReadOnce, locks, world
<1>12. LatestKept'
  <2>1. ~ valid[b] /\ \A d \in Bufs : d > used' => ~ valid[d]
    <3>1. b > used /\ \A d \in Bufs : d > used' => d > used
      BY <1>2, <1>3, <1>4 DEF Bufs
    <3> QED BY <1>1, <3>1 DEF LatestKept
  <2>2. \A d \in 1 .. used' : valid[d] => data[d] = latest[block'[d]]
    BY <1>1, <1>4, <1>6, <2>1 DEF LatestKept
  <2>3. ASSUME NEW k \in Blocks, \A d \in 1 .. used' : block'[d] = k => ~ valid[d]
        PROVE  disk[k] = latest[k]
    BY <1>1, <1>4, <1>6, <2>3 DEF LatestKept
  <2> QED BY <1>2, <2>1, <2>2, <2>3 DEF LatestKept, world
<1> QED BY <1>10, <1>11, <1>12 DEF Fresh

(***************************************************************************)
(* Locking a buffer: one task at a time reads it, and whoever finds it     *)
(* valid need not.                                                         *)
(***************************************************************************)
LEMMA FreshLock ==
  ASSUME CacheInv, panic = "none", Fresh,
         NEW t \in Tasks, t = current, LockAndRead(t)
  PROVE  Fresh'
<1>1. /\ TypeOK /\ CurrentAwake /\ Locals /\ LockersAsleep
      /\ OnePerBlock /\ ReadOnce /\ LatestKept
  BY DEF CacheInv, Fresh
<1>2. pc[t] = "lock" /\ t \in Pid /\ pc \in [Pid -> PC]
  BY <1>1, TasksFinite DEF LockAndRead, TypeOK
<1>3. PICK b \in Bufs : b = buf[t] /\ b \in 1 .. used /\ block[b] = want[t]
  BY <1>1, <1>2, HasBuffer DEF Locals, OnePerBlock
<1>4. UNCHANGED <<buffers, lists, world, locals, panic>>
  BY DEF LockAndRead
<1>5. waitList' = << >>
  BY <1>1, <1>4 DEF OnePerBlock, lists
<1>6. CASE locked[b]
  <2>1. BlockSelf(t) /\ UNCHANGED <<locked, pc>>
    BY <1>3, <1>6 DEF LockAndRead
  <2>2. \A s \in Tasks : s # t => (state'[s] = "BLOCKED" <=> state[s] = "BLOCKED")
    BY <1>1, <2>1, SleepQuietly
  <2> QED BY <1>1, <1>2, <1>3, <1>4, <1>5, <2>1, <2>2, FreshMove
          DEF Fresh, buffers, lists, world, locals, ReadOnce
<1>7. CASE ~ locked[b] /\ MustRead(b)
  <2>1. /\ locked' = [locked EXCEPT ![b] = TRUE]
        /\ BlockSelf(t) /\ Goto(t, "read")
    BY <1>3, <1>7 DEF LockAndRead
  <2>2. /\ \A s \in Tasks : s # t => (state'[s] = "BLOCKED" <=> state[s] = "BLOCKED")
        /\ state'[t] = "BLOCKED"
    BY <1>1, <2>1, SleepQuietly DEF Busy
  <2>3. pc'[t] = "read" /\ \A s \in Pid : s # t => pc'[s] = pc[s]
    BY <1>2, <2>1 DEF Goto
  <2>4. /\ locked'[b] /\ \A s \in Tasks : pc[s] = "read" => locked'[buf[s]]
        /\ \A s \in Tasks : pc[s] = "read" => buf[s] # b
    BY <1>1, <1>3, <1>7, <2>1 DEF ReadOnce, TypeOK
  <2>5. ~ valid[b]
    BY <1>7 DEF MustRead
  <2> QED BY <1>1, <1>2, <1>3, <1>4, <1>5, <2>2, <2>3, <2>4, <2>5, FreshMove
          DEF Fresh, buffers, lists, world, locals
<1>8. CASE ~ locked[b] /\ ~ MustRead(b)
  <2>1. /\ IF lockWaiters[b] # << >>
           THEN /\ lockWaiters' = [lockWaiters EXCEPT ![b] = Tail(@)]
                /\ Reschedule([state EXCEPT ![Head(lockWaiters[b])] = "READY"])
           ELSE UNCHANGED <<lockWaiters, state, current>>
        /\ Goto(t, "hold") /\ UNCHANGED locked
    BY <1>3, <1>8 DEF LockAndRead
  <2>2. "hold" \in Busy /\ UNCHANGED buf
    BY <1>4 DEF Busy, locals
  <2>3. \A s \in Tasks : pc[s] # "lock" =>
          (state'[s] = "BLOCKED" <=> state[s] = "BLOCKED")
    BY <1>1, <2>1, <2>2, UnlockStep
  <2>4. pc'[t] = "hold" /\ \A s \in Pid : s # t => pc'[s] = pc[s]
    BY <1>2, <2>1 DEF Goto
  <2>5. valid[b]
    BY <1>8 DEF MustRead
  <2>6. \A s \in Tasks : pc[s] = "read" => locked'[buf[s]]
    BY <1>1, <2>1 DEF ReadOnce
  <2> QED BY <1>1, <1>2, <1>3, <1>4, <1>5, <2>3, <2>4, <2>5, <2>6, FreshMove
          DEF Fresh, buffers, lists, world, locals
<1> QED BY <1>6, <1>7, <1>8

(***************************************************************************)
(* The end of the one read: the buffer has what the disk had, and that is  *)
(* the latest.                                                             *)
(***************************************************************************)
LEMMA FreshReadEnd ==
  ASSUME CacheInv, panic = "none", Fresh,
         NEW t \in Tasks, t = current, ReadEnd(t)
  PROVE  Fresh'
<1>1. /\ TypeOK /\ CurrentAwake /\ Locals /\ LockersAsleep
      /\ OnePerBlock /\ ReadOnce /\ LatestKept
  BY DEF CacheInv, Fresh
<1>2. pc[t] = "read" /\ t \in Pid /\ pc \in [Pid -> PC] /\ state[t] # "BLOCKED"
  BY <1>1, TasksFinite DEF ReadEnd, TypeOK, CurrentAwake
<1>3. PICK b \in Bufs : b = buf[t] /\ b \in 1 .. used /\ block[b] = want[t]
  BY <1>1, <1>2, HasBuffer DEF Locals, OnePerBlock
<1>4. /\ valid' = [valid EXCEPT ![b] = TRUE]
      /\ locked' = [locked EXCEPT ![b] = FALSE]
      /\ IF lockWaiters[b] # << >>
         THEN /\ lockWaiters' = [lockWaiters EXCEPT ![b] = Tail(@)]
              /\ Reschedule([state EXCEPT ![Head(lockWaiters[b])] = "READY"])
         ELSE UNCHANGED <<lockWaiters, state, current>>
      /\ Goto(t, "hold")
      /\ UNCHANGED <<used, block, count, data, lists, world, locals, panic>>
  BY <1>3 DEF ReadEnd
<1>5. \A s \in Tasks : pc[s] # "lock" =>
        (state'[s] = "BLOCKED" <=> state[s] = "BLOCKED")
  <2>1. "hold" \in Busy /\ UNCHANGED buf
    BY <1>4 DEF Busy, locals
  <2> QED BY <1>1, <1>4, <2>1, UnlockStep
<1>6. /\ pc'[t] = "hold" /\ \A s \in Pid : s # t => pc'[s] = pc[s]
      /\ valid'[b] /\ \A d \in Bufs : d # b => valid'[d] = valid[d]
      /\ \A d \in Bufs : d # b => locked'[d] = locked[d]
  BY <1>1, <1>2, <1>4 DEF Goto, TypeOK
<1>7. data[b] = latest[block[b]]
  BY <1>1, <1>2, <1>3 DEF ReadOnce
<1>8. \A s \in Tasks : s # t /\ pc[s] = "read" => buf[s] # b
  BY <1>1, <1>2, <1>3 DEF ReadOnce
<1>9. /\ \A s \in Tasks : pc[s] \notin {"user", "free"} => buf[s] \in Bufs
      /\ 1 .. used \subseteq Bufs /\ used \in Nat
  BY <1>1, HasBuffer
<1>10. OnePerBlock'
  BY <1>1, <1>2, <1>4, <1>6, TasksFinite, SMTT(30) DEF OnePerBlock, lists, locals
<1>11. ReadOnce'
  <2>1. ASSUME NEW s \in Tasks, pc'[s] \in {"hold", "bwrite", "other", "release"}
        PROVE  valid'[buf[s]]
    BY <1>1, <1>3, <1>6, <1>9, <2>1, TasksFinite DEF ReadOnce
  <2>2. ASSUME NEW s \in Tasks, pc'[s] = "read"
        PROVE  /\ locked'[buf[s]] /\ ~ valid'[buf[s]]
               /\ state'[s] # "BLOCKED" => data[buf[s]] = latest[want[s]]
    <3>1. s # t /\ pc[s] = "read" /\ buf[s] # b /\ buf[s] \in Bufs
      BY <1>6, <1>8, <1>9, <2>2, TasksFinite
    <3> QED BY <1>1, <1>5, <1>6, <3>1 DEF ReadOnce
  <2>3. \A r, s \in Tasks :
          pc'[r] = "read" /\ pc'[s] = "read" /\ buf[r] = buf[s] => r = s
    BY <1>1, <1>6, TasksFinite DEF ReadOnce
  <2> QED BY <1>4, <2>1, <2>2, <2>3 DEF ReadOnce, locals, world
<1>12. LatestKept'
  <2>1. \A d \in Bufs : d > used => ~ valid'[d]
    <3>1. \A d \in Bufs : d > used => d # b
      BY <1>3, <1>9 DEF Bufs
    <3> QED BY <1>1, <1>6, <3>1 DEF LatestKept
  <2>2. \A d \in 1 .. used : valid'[d] => data[d] = latest[block[d]]
    BY <1>1, <1>6, <1>7, <1>9 DEF LatestKept
  <2>3. \A d \in 1 .. used : ~ valid'[d] => ~ valid[d]
    BY <1>6, <1>9
  <2>4. \A k \in Blocks :
          (\A d \in 1 .. used : block[d] = k => ~ valid'[d]) => disk[k] = latest[k]
    BY <1>1, <2>3 DEF LatestKept
  <2> QED BY <1>4, <2>1, <2>2, <2>4 DEF LatestKept, world
<1> QED BY <1>10, <1>11, <1>12 DEF Fresh

(***************************************************************************)
(* A modification is in the one buffer of its block.                       *)
(***************************************************************************)
LEMMA FreshModify ==
  ASSUME CacheInv, panic = "none", Fresh,
         NEW t \in Tasks, t = current, Modify(t)
  PROVE  Fresh'
<1>1. /\ TypeOK /\ Locals /\ OnePerBlock /\ ReadOnce /\ LatestKept
  BY DEF CacheInv, Fresh
<1>2. pc[t] = "hold" /\ want[t] \in Blocks
  BY <1>1 DEF Modify, Locals
<1>3. PICK b \in Bufs : b = buf[t] /\ b \in 1 .. used /\ block[b] = want[t] /\ valid[b]
  BY <1>1, <1>2, HasBuffer DEF Locals, OnePerBlock, ReadOnce
<1>4. PICK n : /\ data' = [data EXCEPT ![b] = n]
               /\ latest' = [latest EXCEPT ![want[t]] = n]
  BY <1>3 DEF Modify
<1>5. UNCHANGED <<used, block, count, valid, locks, lists, disk, locals, state,
                  current, pc, panic>>
  BY DEF Modify
<1>6. /\ data'[b] = n /\ \A d \in Bufs : d # b => data'[d] = data[d]
      /\ latest'[want[t]] = n
      /\ \A k \in Blocks : k # want[t] => latest'[k] = latest[k]
  BY <1>1, <1>2, <1>4 DEF TypeOK
<1>7. /\ 1 .. used \subseteq Bufs
      /\ \A d \in 1 .. used : d # b => block[d] # want[t]
      /\ \A d \in 1 .. used : block[d] \in Blocks
  BY <1>1, <1>3, HasBuffer DEF OnePerBlock, Locals
<1>8. OnePerBlock'
  BY <1>1, <1>5 DEF OnePerBlock, lists, locals
<1>9. ReadOnce'
  <2>1. ASSUME NEW s \in Tasks, pc[s] = "read", state[s] # "BLOCKED"
        PROVE  data'[buf[s]] = latest'[want[s]]
    <3>1. /\ ~ valid[buf[s]] /\ data[buf[s]] = latest[want[s]]
          /\ buf[s] \in 1 .. used /\ block[buf[s]] = want[s]
      BY <1>1, <2>1 DEF ReadOnce, Locals, OnePerBlock
    <3>2. buf[s] # b
      BY <1>3, <3>1
    <3>3. want[s] # want[t] /\ want[s] \in Blocks
      BY <1>7, <3>1, <3>2
    <3> QED BY <1>6, <1>7, <3>1, <3>2, <3>3
  <2> QED BY <1>1, <1>5, <2>1 DEF ReadOnce, locks, locals
<1>10. LatestKept'
  <2>1. \A d \in 1 .. used : valid[d] => data'[d] = latest'[block[d]]
    BY <1>1, <1>3, <1>6, <1>7 DEF LatestKept
  <2>2. ASSUME NEW k \in Blocks, \A d \in 1 .. used : block[d] = k => ~ valid[d]
        PROVE  disk[k] = latest'[k]
    BY <1>1, <1>3, <1>6, <2>2 DEF LatestKept
  <2> QED BY <1>1, <1>5, <2>1, <2>2 DEF LatestKept
<1> QED BY <1>8, <1>9, <1>10 DEF Fresh

(***************************************************************************)
(* Waiting with a buffer.                                                  *)
(***************************************************************************)
LEMMA FreshWait ==
  ASSUME CacheInv, panic = "none", Fresh,
         NEW t \in Tasks, t = current, Bwrite(t) \/ OtherIO(t)
  PROVE  Fresh'
<1>1. /\ TypeOK /\ CurrentAwake /\ Locals /\ OnePerBlock /\ ReadOnce /\ LatestKept
  BY DEF CacheInv, Fresh
<1>2. PICK label \in {"bwrite", "other"} :
        /\ BlockSelf(t) /\ Goto(t, label)
        /\ UNCHANGED <<buffers, locks, lists, world, want, buf, panic>>
  BY DEF Bwrite, OtherIO, StartWrite, locals
<1>3. pc[t] = "hold" /\ pc \in [Pid -> PC] /\ t \in Pid
  BY <1>1, TasksFinite DEF Bwrite, OtherIO, TypeOK
<1>4. \A s \in Tasks : s # t => (state'[s] = "BLOCKED" <=> state[s] = "BLOCKED")
  BY <1>1, <1>2, SleepQuietly DEF Busy
<1>5. pc'[t] = label /\ \A s \in Pid : s # t => pc'[s] = pc[s]
  BY <1>2, <1>3 DEF Goto
<1>6. buf[t] \in 1 .. used /\ block[buf[t]] = want[t] /\ valid[buf[t]]
  BY <1>1, <1>3 DEF Locals, OnePerBlock, ReadOnce
<1>7. waitList' = << >> /\ \A s \in Tasks : pc[s] = "read" => locked'[buf[s]]
  BY <1>1, <1>2 DEF OnePerBlock, ReadOnce, lists, locks
<1> QED BY <1>1, <1>2, <1>3, <1>4, <1>5, <1>6, <1>7, FreshMove
        DEF Fresh, buffers, lists, world

(***************************************************************************)
(* The end of such a wait.                                                 *)
(***************************************************************************)
LEMMA FreshWaitEnd ==
  ASSUME CacheInv, panic = "none", Fresh,
         NEW t \in Tasks, t = current, BwriteEnd(t) \/ OtherEnd(t)
  PROVE  Fresh'
<1>1. /\ TypeOK /\ CurrentAwake /\ Locals /\ OnePerBlock /\ ReadOnce /\ LatestKept
  BY DEF CacheInv, Fresh
<1>2. /\ Goto(t, "hold")
      /\ UNCHANGED <<used, block, count, data, locks, lists, world, locals, state,
                     current, panic>>
      /\ valid' \in {valid, [valid EXCEPT ![buf[t]] = TRUE]}
      /\ pc[t] \in {"bwrite", "other"}
  BY DEF BwriteEnd, OtherEnd, buffers
<1>3. pc \in [Pid -> PC] /\ t \in Pid
  BY <1>1, TasksFinite DEF TypeOK
<1>4. buf[t] \in 1 .. used /\ block[buf[t]] = want[t] /\ valid[buf[t]]
      /\ buf[t] \in Bufs
  BY <1>1, <1>2, HasBuffer DEF Locals, OnePerBlock, ReadOnce
<1>5. valid' = valid
  <2>1. valid \in [Bufs -> BOOLEAN]
    BY <1>1 DEF TypeOK
  <2>2. valid[buf[t]] = TRUE
    BY <1>4, Zenon
  <2>3. [valid EXCEPT ![buf[t]] = TRUE] = valid
    BY <1>4, <2>1, <2>2
  <2> QED BY <1>2, <2>3
<1>6. pc'[t] = "hold" /\ \A s \in Pid : s # t => pc'[s] = pc[s]
  BY <1>2, <1>3 DEF Goto
<1>7. waitList' = << >> /\ \A s \in Tasks : pc[s] = "read" => locked'[buf[s]]
  BY <1>1, <1>2 DEF OnePerBlock, ReadOnce, lists, locks
<1> QED BY <1>1, <1>2, <1>4, <1>5, <1>6, <1>7, FreshMove
        DEF Fresh, lists, world, locals

(***************************************************************************)
(* brelse, its first part and all of it when there is nothing to write.    *)
(***************************************************************************)
LEMMA FreshRelease ==
  ASSUME CacheInv, panic = "none", UNCHANGED panic, Fresh,
         NEW t \in Tasks, t = current, ReleaseStep(t)
  PROVE  Fresh'
<1>1. /\ TypeOK /\ CurrentAwake /\ Locals /\ OnePerBlock /\ ReadOnce /\ LatestKept
  BY DEF CacheInv, Fresh
<1>2. pc[t] = "hold" /\ waitList = << >>
  BY <1>1 DEF ReleaseStep, BrelseShared, Brelse, OnePerBlock
<1>3. /\ pc \in [Pid -> PC] /\ t \in Pid /\ buf \in [Pid -> Bufs \cup {None}]
      /\ want \in [Pid -> Blocks \cup {None}]
  BY <1>1, TasksFinite DEF TypeOK
<1>4. UNCHANGED <<used, block, dirty, valid, data, locks, chain, world>>
  BY DEF ReleaseStep, BrelseShared, Brelse, lists
<1>5. \/ /\ StartWrite(t, "release") /\ UNCHANGED <<waitList, want, buf>>
      \/ /\ buf' = [buf EXCEPT ![t] = None] /\ want' = [want EXCEPT ![t] = None]
         /\ Goto(t, "user") /\ UNCHANGED <<waitList, state>>
  BY <1>2 DEF ReleaseStep, BrelseShared, Brelse, WakeOne, lists
<1>6. buf[t] \in 1 .. used /\ block[buf[t]] = want[t] /\ valid[buf[t]]
  BY <1>1, <1>2 DEF Locals, OnePerBlock, ReadOnce
<1>7. \A s \in Tasks : pc[s] = "read" => locked'[buf[s]]
  BY <1>1, <1>4 DEF ReadOnce, locks
<1>8. CASE StartWrite(t, "release") /\ UNCHANGED <<waitList, want, buf>>
  <2>1. BlockSelf(t) /\ Goto(t, "release")
    BY <1>8 DEF StartWrite
  <2>2. \A s \in Tasks : state'[s] = "BLOCKED" <=> state[s] = "BLOCKED" \/ s = t
    BY <1>1, <2>1, BlockEffect DEF CurrentAwake, TypeOK, CacheStates
  <2>3. pc'[t] = "release" /\ \A s \in Pid : s # t => pc'[s] = pc[s]
    BY <1>3, <2>1 DEF Goto
  <2> QED BY <1>1, <1>2, <1>4, <1>6, <1>7, <1>8, <2>2, <2>3, FreshMove
          DEF Fresh, world
<1>9. CASE /\ buf' = [buf EXCEPT ![t] = None] /\ want' = [want EXCEPT ![t] = None]
           /\ Goto(t, "user") /\ UNCHANGED <<waitList, state>>
  <2>1. /\ pc'[t] = "user"
        /\ \A s \in Pid : s # t =>
             pc'[s] = pc[s] /\ buf'[s] = buf[s] /\ want'[s] = want[s]
    BY <1>3, <1>9 DEF Goto
  <2> QED BY <1>1, <1>2, <1>4, <1>7, <1>9, <2>1, FreshMove DEF Fresh, world
<1> QED BY <1>5, <1>8, <1>9

(***************************************************************************)
(* The end of the write in brelse.                                         *)
(***************************************************************************)
LEMMA FreshReleaseEnd ==
  ASSUME CacheInv, panic = "none", Fresh,
         NEW t \in Tasks, t = current, BrelseEnd(t)
  PROVE  Fresh'
<1>1. /\ TypeOK /\ CurrentAwake /\ Locals /\ OnePerBlock /\ ReadOnce /\ LatestKept
  BY DEF CacheInv, Fresh
<1>2. /\ pc[t] = "release" /\ valid' = [valid EXCEPT ![buf[t]] = TRUE] /\ WakeOne(t)
      /\ UNCHANGED <<used, block, count, data, locks, chain, freeList, world, snap,
                     current, panic>>
  BY DEF BrelseEnd
<1>3. /\ pc \in [Pid -> PC] /\ t \in Pid /\ buf \in [Pid -> Bufs \cup {None}]
      /\ want \in [Pid -> Blocks \cup {None}]
  BY <1>1, TasksFinite DEF TypeOK
<1>4. /\ buf' = [buf EXCEPT ![t] = None] /\ want' = [want EXCEPT ![t] = None]
      /\ Goto(t, "user") /\ UNCHANGED <<waitList, state>> /\ waitList = << >>
  BY <1>1, <1>2 DEF WakeOne, OnePerBlock
<1>5. valid' = valid
  <2>1. valid \in [Bufs -> BOOLEAN] /\ buf[t] \in Bufs /\ valid[buf[t]]
    BY <1>1, <1>2, HasBuffer DEF TypeOK, ReadOnce
  <2>2. valid[buf[t]] = TRUE
    BY <2>1, Zenon
  <2> QED BY <1>2, <2>1, <2>2
<1>6. /\ pc'[t] = "user"
      /\ \A s \in Pid : s # t =>
           pc'[s] = pc[s] /\ buf'[s] = buf[s] /\ want'[s] = want[s]
  BY <1>3, <1>4 DEF Goto
<1>7. \A s \in Tasks : pc[s] = "read" => locked'[buf[s]]
  BY <1>1, <1>2 DEF ReadOnce, locks
<1> QED BY <1>1, <1>2, <1>4, <1>5, <1>6, <1>7, FreshMove DEF Fresh, world

(***************************************************************************)
(* The device reads what is the latest, and writes only blocks whose       *)
(* buffer is valid.                                                        *)
(***************************************************************************)
LEMMA FreshDevice ==
  ASSUME CacheInv, panic = "none", Fresh, NEW t \in Tasks, DeviceDone(t)
  PROVE  Fresh'
<1>1. /\ TypeOK /\ Locals /\ OnePerBlock /\ ReadOnce /\ LatestKept
  BY DEF CacheInv, Fresh
<1>2. /\ pc[t] \in InIO /\ state' = [state EXCEPT ![t] = "READY"]
      /\ UNCHANGED <<used, block, count, dirty, valid, locks, lists, latest, locals,
                     current, pc, panic>>
  BY DEF DeviceDone
<1>3. \A s \in Pid : s # t => state'[s] = state[s]
  BY <1>1, <1>2 DEF TypeOK
<1>4. PICK b \in Bufs : b = buf[t] /\ b \in 1 .. used /\ block[b] = want[t]
                        /\ want[t] \in Blocks
  BY <1>1, <1>2, HasBuffer DEF Locals, OnePerBlock, InIO
<1>5. OnePerBlock'
  BY <1>1, <1>2 DEF OnePerBlock, lists, locals
<1>6. CASE pc[t] = "read"
  <2>1. data' = [data EXCEPT ![b] = disk[want[t]]] /\ disk' = disk
    BY <1>4, <1>6 DEF DeviceDone
  <2>2. /\ data'[b] = disk[want[t]] /\ \A d \in Bufs : d # b => data'[d] = data[d]
    BY <1>1, <2>1 DEF TypeOK
  <2>3. ~ valid[b]
    BY <1>1, <1>4, <1>6 DEF ReadOnce
  <2>4. \A d \in 1 .. used : block[d] = want[t] => ~ valid[d]
    BY <1>1, <1>4, <2>3 DEF OnePerBlock
  <2>5. disk[want[t]] = latest[want[t]]
    BY <1>1, <1>4, <2>4 DEF LatestKept
  <2>6. ASSUME NEW s \in Tasks, pc[s] = "read", state'[s] # "BLOCKED"
        PROVE  data'[buf[s]] = latest[want[s]]
    <3>1. CASE s = t
      BY <1>4, <2>2, <2>5, <3>1
    <3>2. CASE s # t
      <4>1. buf[s] # b /\ buf[s] \in Bufs
        BY <1>1, <1>4, <1>6, <2>6, <3>2, HasBuffer DEF ReadOnce
      <4>2. state[s] # "BLOCKED"
        BY <1>3, <2>6, <3>2, TasksFinite
      <4> QED BY <1>1, <2>2, <2>6, <4>1, <4>2 DEF ReadOnce
    <3> QED BY <3>1, <3>2
  <2>7. ReadOnce'
    BY <1>1, <1>2, <2>6 DEF ReadOnce, locks, locals
  <2>8. \A d \in 1 .. used : valid[d] => data'[d] = latest[block[d]]
    BY <1>1, <2>2, <2>3, HasBuffer DEF LatestKept
  <2>9. LatestKept'
    BY <1>1, <1>2, <2>1, <2>8 DEF LatestKept
  <2> QED BY <1>5, <2>7, <2>9 DEF Fresh
<1>7. CASE pc[t] # "read"
  <2>1. ReadOnce' /\ data' = data
    <3>1. data' = data
      BY <1>7 DEF DeviceDone
    <3>2. ASSUME NEW s \in Tasks, pc[s] = "read", state'[s] # "BLOCKED"
          PROVE  data[buf[s]] = latest[want[s]]
      BY <1>1, <1>3, <1>7, <3>2, TasksFinite DEF ReadOnce
    <3> QED BY <1>1, <1>2, <3>1, <3>2 DEF ReadOnce, locks, locals
  <2>2. ASSUME NEW k \in Blocks, \A d \in 1 .. used : block[d] = k => ~ valid[d]
        PROVE  disk'[k] = latest[k]
    <3>1. disk[k] = latest[k]
      BY <1>1, <2>2 DEF LatestKept
    <3>2. CASE pc[t] \in {"bwrite", "release"}
      <4>1. valid[b]
        BY <1>1, <1>4, <3>2 DEF ReadOnce
      <4>2. k # want[t]
        BY <1>4, <2>2, <4>1
      <4>3. PICK v : disk' = [disk EXCEPT ![want[t]] = v]
        BY <3>2 DEF DeviceDone
      <4> QED BY <1>1, <3>1, <4>2, <4>3 DEF TypeOK
    <3>3. CASE pc[t] \notin {"bwrite", "release"}
      BY <1>7, <3>1, <3>3 DEF DeviceDone
    <3> QED BY <3>2, <3>3
  <2>3. LatestKept'
    BY <1>1, <1>2, <2>1, <2>2 DEF LatestKept
  <2> QED BY <1>5, <2>1, <2>3 DEF Fresh
<1> QED BY <1>6, <1>7

(***************************************************************************)
(* The clock interrupts nobody between a miss and the new buffer.          *)
(***************************************************************************)
LEMMA FreshClock ==
  ASSUME CacheInv, panic = "none", Fresh, Clock
  PROVE  Fresh'
<1>1. /\ TypeOK /\ CurrentAwake /\ Locals /\ OnePerBlock /\ ReadOnce /\ LatestKept
  BY DEF CacheInv, Fresh
<1>2. /\ pc[current] = "user" /\ Reschedule(state)
      /\ UNCHANGED <<buffers, locks, lists, world, locals, pc, panic>>
  BY DEF Clock, InterruptsOn
<1>3. \A n \in Tasks : state'[n] = "BLOCKED" <=> state[n] = "BLOCKED"
  BY <1>1, <1>2, RescheduleEffect DEF TypeOK, CacheStates, CurrentAwake
<1>4. \A s \in Tasks : pc[s] # "free"
  BY <1>1, <1>2 DEF OnePerBlock
<1>5. OnePerBlock'
  BY <1>1, <1>2, <1>4 DEF OnePerBlock, buffers, lists, locals
<1>6. ReadOnce'
  BY <1>1, <1>2, <1>3 DEF ReadOnce, buffers, locks, world, locals
<1>7. LatestKept'
  BY <1>1, <1>2 DEF LatestKept, buffers, world
<1> QED BY <1>5, <1>6, <1>7 DEF Fresh

(***************************************************************************)
(* At the start there are no buffers.                                      *)
(***************************************************************************)
LEMMA FreshInit == Init => FreshInv
<1> SUFFICES ASSUME Init PROVE panic = "none" /\ OnePerBlock /\ ReadOnce /\ LatestKept
  BY DEF FreshInv
<1>1. used = 0 /\ 1 .. used = {}
  BY DEF Init
<1>2. OnePerBlock
  BY <1>1, TasksFinite DEF Init, OnePerBlock
<1>3. ReadOnce
  BY TasksFinite DEF Init, ReadOnce
<1>4. LatestKept
  BY <1>1 DEF Init, LatestKept
<1> QED BY <1>2, <1>3, <1>4 DEF Init

(***************************************************************************)
(* Every step keeps FreshInv.  get_free_cache never comes to the free list *)
(* and never waits.                                                        *)
(***************************************************************************)
LEMMA FreshStep == CacheInv /\ FreshInv /\ [Next]_vars => FreshInv'
<1> SUFFICES ASSUME CacheInv, FreshInv, [Next]_vars, Roomy'
             PROVE  panic' = "none" /\ Fresh'
  BY DEF FreshInv, Fresh
<1>1. UNCHANGED room
  BY DEF Next, vars
<1>2. Roomy
  BY <1>1 DEF Roomy
<1>3. panic = "none" /\ Fresh /\ TypeOK /\ Locals
  BY <1>2 DEF FreshInv, Fresh, CacheInv
<1>4. CASE UNCHANGED vars
  <2>1. /\ UNCHANGED <<room, used, block, valid, data, locked, chain, waitList>>
        /\ UNCHANGED <<disk, latest, want, buf, state, current, pc, panic>>
    BY <1>4 DEF vars, buffers, locks, lists, world, locals
  <2>2. OnePerBlock => OnePerBlock'
    BY <2>1 DEF OnePerBlock
  <2>3. ReadOnce => ReadOnce'
    BY <2>1 DEF ReadOnce
  <2>4. LatestKept => LatestKept'
    BY <2>1 DEF LatestKept
  <2> QED BY <1>3, <2>1, <2>2, <2>3, <2>4 DEF Fresh
<1>5. ASSUME NEW t \in Tasks, current = t, KernelStep(t)
      PROVE  panic' = "none" /\ Fresh'
  <2>1. CASE GetNew(t)
    BY <1>3, <1>5, <2>1, FreshNew DEF GetNew
  <2>2. CASE Recycle(t) \/ AwaitBuffer(t)
    <3>1. pc[t] = "free" /\ used = room
      BY <2>2 DEF Recycle, AwaitBuffer
    <3>2. used < room
      BY <1>2, <1>3, <3>1, RoomForMiss DEF Fresh
    <3> QED BY <1>3, <3>1, <3>2, HasBuffer
  <2>3. CASE LockAndRead(t)
    BY <1>3, <1>5, <2>3, FreshLock DEF LockAndRead
  <2>4. CASE ReadEnd(t)
    BY <1>3, <1>5, <2>4, FreshReadEnd DEF ReadEnd
  <2>5. CASE BwriteEnd(t) \/ OtherEnd(t)
    BY <1>3, <1>5, <2>5, FreshWaitEnd DEF BwriteEnd, OtherEnd
  <2>6. CASE BrelseEnd(t)
    BY <1>3, <1>5, <2>6, FreshReleaseEnd DEF BrelseEnd
  <2> QED BY <1>5, <2>1, <2>2, <2>3, <2>4, <2>5, <2>6 DEF KernelStep
<1>6. ASSUME NEW t \in Tasks, current = t, FileSystem(t)
      PROVE  panic' = "none" /\ Fresh'
  <2>1. ASSUME NEW k \in Blocks, BreadHit(t, k) PROVE panic' = "none" /\ Fresh'
    BY <1>3, <1>6, <2>1, FreshHit DEF BreadHit
  <2>2. ASSUME NEW k \in Blocks, BreadMiss(t, k) PROVE panic' = "none" /\ Fresh'
    BY <1>3, <1>6, <2>2, FreshMiss DEF BreadMiss
  <2>3. CASE Modify(t)
    BY <1>3, <1>6, <2>3, FreshModify DEF Modify
  <2>4. CASE Bwrite(t) \/ OtherIO(t)
    BY <1>3, <1>6, <2>4, FreshWait DEF Bwrite, OtherIO
  <2> QED BY <1>6, <2>1, <2>2, <2>3, <2>4 DEF FileSystem
<1>7. ASSUME NEW t \in Tasks, current = t, ReleaseStep(t)
      PROVE  panic' = "none" /\ Fresh'
  <2>1. UNCHANGED panic
    BY <1>1, <1>3, <1>7, BrelseStep DEF ReleaseStep, BrelseShared
  <2> QED BY <1>3, <1>7, <2>1, FreshRelease
<1>8. ASSUME NEW t \in Tasks, DeviceDone(t) PROVE panic' = "none" /\ Fresh'
  BY <1>3, <1>8, FreshDevice DEF DeviceDone
<1>9. CASE Clock
  BY <1>3, <1>9, FreshClock DEF Clock
<1> QED BY <1>4, <1>5, <1>6, <1>7, <1>8, <1>9 DEF Next

(***************************************************************************)
(* With room for every block, a task that bread returned to always has the *)
(* valid buffer of its block with the latest contents, whoever else reads, *)
(* changes, writes or releases the block meanwhile.                        *)
(***************************************************************************)
THEOREM CacheHoldersSeeLatest == Spec => []HoldersSeeLatest
<1>1. Init => CacheInv /\ FreshInv
  BY CacheInit, FreshInit
<1>2. CacheInv /\ FreshInv /\ [Next]_vars => CacheInv' /\ FreshInv'
  BY CacheStep, FreshStep
<1>3. CacheInv /\ FreshInv => HoldersSeeLatest
  <2> SUFFICES ASSUME CacheInv, FreshInv, Roomy, NEW t \in Tasks,
                      pc[t] \in {"hold", "bwrite", "other"}
               PROVE  /\ block[buf[t]] = want[t] /\ valid[buf[t]]
                      /\ data[buf[t]] = latest[want[t]]
    BY DEF HoldersSeeLatest, Roomy
  <2>1. panic = "none" /\ OnePerBlock /\ ReadOnce /\ LatestKept /\ Locals
    BY DEF FreshInv, CacheInv
  <2> QED BY <2>1 DEF OnePerBlock, ReadOnce, LatestKept, Locals
<1> QED BY <1>1, <1>2, <1>3, PTL DEF Spec
=============================================================================
