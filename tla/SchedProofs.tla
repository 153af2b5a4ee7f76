----------------------------- MODULE SchedProofs -----------------------------
(***************************************************************************)
(* What schedule() and switch_to() guarantee, for every size of the task   *)
(* table: the lemmas that the proofs about modules with tasks rest on.     *)
(***************************************************************************)
EXTENDS Sched, TLAPS, NaturalsInduction, WellFoundedInduction,
        SequenceTheorems

(***************************************************************************)
(* A nonempty set of offsets has a least one: the scan of schedule() that  *)
(* finds some task stops at a first one.                                   *)
(***************************************************************************)
LEMMA MinExists ==
  ASSUME NEW S \in SUBSET Nat, S # {}
  PROVE  /\ Min(S) \in S
         /\ \A y \in S : Min(S) <= y
<1> DEFINE Less == {ss \in Nat \X Nat : ss[1] < ss[2]}
<1>1. IsWellFoundedOn(Less, Nat)
  BY NatLessThanWellFounded, Zenon DEF OpToRel
<1>2. \E x \in S : \A y \in S : ~ (<<y, x>> \in Less)
  <2> HIDE DEF Less
  <2> QED BY <1>1, WFMin, Zenon
<1>3. PICK x \in S : \A y \in S : ~ (<<y, x>> \in Less)
  BY <1>2
<1>4. \A y \in S : x <= y
  <2> SUFFICES ASSUME NEW y \in S PROVE x <= y
    OBVIOUS
  <2>1. x \in Nat /\ y \in Nat
    OBVIOUS
  <2>2. ~ (y < x)
    BY <1>3, <2>1
  <2> QED BY <2>1, <2>2
<1> QED BY <1>4 DEF Min

(***************************************************************************)
(* A nonempty set of numbers up to L has a greatest one: the loop of       *)
(* timer_wakeup that walks the list stops at some timer.                   *)
(***************************************************************************)
LEMMA MaxExists ==
  ASSUME NEW L \in Nat, NEW S \in SUBSET (0 .. L), S # {}
  PROVE  /\ Max(S) \in S
         /\ \A y \in S : y <= Max(S)
<1> DEFINE R == {L - k : k \in S}
<1>1. R \in SUBSET Nat /\ R # {}
  <2>1. \A k \in S : L - k \in Nat
    OBVIOUS
  <2>2. PICK k \in S : TRUE
    OBVIOUS
  <2>3. L - k \in R
    BY <2>2
  <2> QED BY <2>1, <2>3, Zenon
<1>2. Min(R) \in R /\ \A y \in R : Min(R) <= y
  BY <1>1, MinExists
<1>3. PICK m \in S : Min(R) = L - m
  BY <1>2
<1>4. \A y \in S : y <= m
  <2> SUFFICES ASSUME NEW y \in S PROVE y <= m
    OBVIOUS
  <2>1. L - m <= L - y
    BY <1>2, <1>3
  <2> QED BY <2>1
<1>5. \E x \in S : \A y \in S : x >= y
  BY <1>4
<1> QED BY <1>5 DEF Max

(***************************************************************************)
(* Induction over the places of a list of length L, as a fact about sets.  *)
(***************************************************************************)
LEMMA PlaceInduction ==
  ASSUME NEW L \in Nat, NEW S, 0 \in S,
         \A n \in 0 .. L - 1 : n \in S => n + 1 \in S
  PROVE  \A n \in 0 .. L : n \in S
<1> DEFINE Bad == {n \in 0 .. L : n \notin S}
<1> SUFFICES ASSUME Bad # {} PROVE FALSE
  OBVIOUS
<1>1. Min(Bad) \in Bad /\ \A y \in Bad : Min(Bad) <= y
  <2>1. Bad \in SUBSET Nat
    OBVIOUS
  <2> HIDE DEF Bad
  <2> QED BY <2>1, MinExists
<1> DEFINE m == Min(Bad)
<1>2. m \in 0 .. L /\ m \notin S /\ \A y \in Bad : m <= y
  BY <1>1
<1> HIDE DEF m
<1>3. m \in 1 .. L /\ m - 1 \in 0 .. L - 1 /\ (m - 1) + 1 = m
  BY <1>2
<1>4. m - 1 \notin Bad
  <2> HIDE DEF Bad
  <2> QED BY <1>2, <1>3
<1>5. m - 1 \in S
  BY <1>3, <1>4
<1> QED BY <1>2, <1>3, <1>5

(***************************************************************************)
(* schedule() chooses a slot of the table, and one that holds a READY task *)
(* unless it falls back to idle.                                           *)
(***************************************************************************)
LEMMA ScheduleReady ==
  ASSUME NEW st, NEW cur \in Pid
  PROVE  /\ Schedule(st, cur) \in Pid
         /\ Schedule(st, cur) = Idle \/ st[Schedule(st, cur)] = "READY"
<1> DEFINE R == ReadyOffsets(st, cur)
<1>1. CASE R = {}
  BY <1>1, TaskNrAssumption DEF Schedule, Pid, Idle
<1>2. CASE R # {}
  <2>1. Min(R) \in R
    BY <1>2, MinExists DEF ReadyOffsets
  <2>2. \A i \in Nat : (cur + i) % TASK_NR \in 0 .. TASK_NR - 1
    BY TaskNrAssumption DEF Pid
  <2> QED BY <1>2, <2>1, <2>2 DEF Schedule, ReadyOffsets, Pid
<1> QED BY <1>1, <1>2

(***************************************************************************)
(* schedule() changes task states only between READY and RUNNING: a task   *)
(* other than idle is in a state s of waiting, sleeping or death after it  *)
(* exactly if it was before.                                               *)
(***************************************************************************)
LEMMA ScheduleKeeps ==
  ASSUME NEW States, {"READY", "RUNNING"} \subseteq States,
         NEW st \in [Pid -> States], NEW cur \in Pid
  PROVE  /\ AfterSchedule(st, cur) \in [Pid -> States]
         /\ \A n \in Pid \ {Idle} :
              \A s \in States \ {"READY", "RUNNING"} :
                AfterSchedule(st, cur)[n] = s <=> st[n] = s
<1> DEFINE n == Schedule(st, cur)
<1>1. /\ n \in Pid
      /\ n = Idle \/ st[n] = "READY"
  BY ScheduleReady
<1> HIDE DEF n
<1>2. AfterSchedule(st, cur) = SwitchTo(st, cur, n)
  BY DEF AfterSchedule, n
<1>3. SwitchTo(st, cur, n) \in [Pid -> States]
  BY <1>1 DEF SwitchTo
<1>4. ASSUME NEW m \in Pid \ {Idle}, NEW s \in States \ {"READY", "RUNNING"}
      PROVE  SwitchTo(st, cur, n)[m] = s <=> st[m] = s
  BY <1>1, <1>4 DEF SwitchTo
<1> QED BY <1>2, <1>3, <1>4

(***************************************************************************)
(* The task that schedule() leaves running is not one in a state s of      *)
(* waiting, sleeping or death, provided that idle never is.                *)
(***************************************************************************)
LEMMA ScheduleRuns ==
  ASSUME NEW States, {"READY", "RUNNING"} \subseteq States,
         NEW st \in [Pid -> States], NEW cur \in Pid,
         NEW s \in States \ {"READY", "RUNNING"},
         st[Idle] # s
  PROVE  /\ AfterSchedule(st, cur)[Idle] # s
         /\ AfterSchedule(st, cur)[Schedule(st, cur)] # s
<1> DEFINE n == Schedule(st, cur)
<1>1. /\ n \in Pid
      /\ n = Idle \/ st[n] = "READY"
  BY ScheduleReady
<1> HIDE DEF n
<1>2. AfterSchedule(st, cur) = SwitchTo(st, cur, n)
  BY DEF AfterSchedule, n
<1>3. Idle \in Pid
  BY TaskNrAssumption DEF Idle, Pid
<1>4. /\ SwitchTo(st, cur, n)[Idle] # s
      /\ SwitchTo(st, cur, n)[n] # s
  BY <1>1, <1>3 DEF SwitchTo
<1> QED BY <1>2, <1>4 DEF n

-----------------------------------------------------------------------------

(***************************************************************************)
(* Whether task t is on the waiting list w.                                *)
(***************************************************************************)
Queued(w, t) == \E i \in DOMAIN w : w[i] = t

(***************************************************************************)
(* Appending a task that is not queued queues it, once.                    *)
(***************************************************************************)
LEMMA AppendQueued ==
  ASSUME NEW S, NEW w \in Seq(S), NEW t \in S, ~ Queued(w, t),
         \A i, j \in DOMAIN w : w[i] = w[j] => i = j
  PROVE  /\ Append(w, t) \in Seq(S)
         /\ \A s : Queued(Append(w, t), s) <=> Queued(w, s) \/ s = t
         /\ \A i, j \in DOMAIN Append(w, t) :
              Append(w, t)[i] = Append(w, t)[j] => i = j
<1>1. /\ DOMAIN w = 1 .. Len(w)
      /\ DOMAIN Append(w, t) = 1 .. Len(w) + 1
      /\ \A i \in 1 .. Len(w) : Append(w, t)[i] = w[i]
      /\ Append(w, t)[Len(w) + 1] = t
      /\ Len(w) \in Nat
  OBVIOUS
<1>2. ASSUME NEW s PROVE Queued(Append(w, t), s) <=> Queued(w, s) \/ s = t
  <2>1. ASSUME NEW i \in DOMAIN Append(w, t), Append(w, t)[i] = s
        PROVE  Queued(w, s) \/ s = t
    <3>1. i \in 1 .. Len(w) \/ i = Len(w) + 1
      BY <1>1
    <3> QED BY <1>1, <2>1, <3>1 DEF Queued
  <2>2. ASSUME NEW i \in DOMAIN w, w[i] = s
        PROVE  Queued(Append(w, t), s)
    BY <1>1, <2>2 DEF Queued
  <2>3. Queued(Append(w, t), t)
    BY <1>1 DEF Queued
  <2> QED BY <2>1, <2>2, <2>3 DEF Queued
<1>3. ASSUME NEW i \in DOMAIN Append(w, t), NEW j \in DOMAIN Append(w, t),
             Append(w, t)[i] = Append(w, t)[j]
      PROVE  i = j
  <2>1. /\ i \in 1 .. Len(w) \/ i = Len(w) + 1
        /\ j \in 1 .. Len(w) \/ j = Len(w) + 1
    BY <1>1
  <2> QED BY <1>1, <1>3, <2>1 DEF Queued
<1> QED BY <1>2, <1>3

(***************************************************************************)
(* Taking the head off a list without repetitions leaves the others.       *)
(***************************************************************************)
LEMMA TailQueued ==
  ASSUME NEW S, NEW w \in Seq(S), w # << >>,
         \A i, j \in DOMAIN w : w[i] = w[j] => i = j
  PROVE  /\ Head(w) \in S /\ Tail(w) \in Seq(S)
         /\ \A s : Queued(Tail(w), s) <=> Queued(w, s) /\ s # Head(w)
         /\ \A i, j \in DOMAIN Tail(w) : Tail(w)[i] = Tail(w)[j] => i = j
         /\ Queued(w, Head(w))
<1>1. /\ DOMAIN w = 1 .. Len(w)
      /\ Len(w) \in Nat \ {0}
      /\ DOMAIN Tail(w) = 1 .. Len(w) - 1
      /\ \A i \in 1 .. Len(w) - 1 : Tail(w)[i] = w[i + 1]
      /\ Head(w) = w[1]
  OBVIOUS
<1>2. ASSUME NEW s
      PROVE  Queued(Tail(w), s) <=> Queued(w, s) /\ s # Head(w)
  <2>1. ASSUME NEW i \in DOMAIN Tail(w), Tail(w)[i] = s
        PROVE  Queued(w, s) /\ s # Head(w)
    <3>1. i + 1 \in DOMAIN w /\ 1 \in DOMAIN w /\ i + 1 # 1
      BY <1>1
    <3> QED BY <1>1, <2>1, <3>1 DEF Queued
  <2>2. ASSUME NEW i \in DOMAIN w, w[i] = s, s # Head(w)
        PROVE  Queued(Tail(w), s)
    <3>1. i - 1 \in DOMAIN Tail(w) /\ (i - 1) + 1 = i
      BY <1>1, <2>2
    <3> QED BY <1>1, <2>2, <3>1 DEF Queued
  <2> QED BY <2>1, <2>2 DEF Queued
<1>3. ASSUME NEW i \in DOMAIN Tail(w), NEW j \in DOMAIN Tail(w),
             Tail(w)[i] = Tail(w)[j]
      PROVE  i = j
  <2>1. i + 1 \in DOMAIN w /\ j + 1 \in DOMAIN w
    BY <1>1
  <2>2. i + 1 = j + 1
    BY <1>1, <1>3, <2>1
  <2> QED BY <1>1, <2>2
<1>4. Queued(w, Head(w))
  BY <1>1 DEF Queued
<1> QED BY <1>2, <1>3, <1>4

(***************************************************************************)
(* The list that list_insert_before and list_remove make of a list.        *)
(***************************************************************************)
ListInsert(s, at, e) == SubSeq(s, 1, at - 1) \o << e >> \o SubSeq(s, at, Len(s))
ListRemove(s, at) == SubSeq(s, 1, at - 1) \o SubSeq(s, at + 1, Len(s))

(***************************************************************************)
(* Insertion puts the new node at its place and keeps the others in order. *)
(***************************************************************************)
LEMMA InsertElements ==
  ASSUME NEW S, NEW s \in Seq(S), NEW e \in S, NEW at \in 1 .. Len(s) + 1
  PROVE  /\ ListInsert(s, at, e) \in Seq(S)
         /\ Len(ListInsert(s, at, e)) = Len(s) + 1
         /\ \A i \in 1 .. Len(s) + 1 :
              ListInsert(s, at, e)[i] = IF i < at THEN s[i]
                                      ELSE IF i = at THEN e ELSE s[i - 1]
<1> DEFINE a == SubSeq(s, 1, at - 1)
           b == SubSeq(s, at, Len(s))
<1>1. /\ a \in Seq(S) /\ Len(a) = at - 1
      /\ \A i \in 1 .. at - 1 : a[i] = s[i]
  OBVIOUS
<1>2. /\ b \in Seq(S) /\ Len(b) = Len(s) + 1 - at
      /\ \A i \in 1 .. Len(b) : b[i] = s[at + i - 1]
  OBVIOUS
<1>3. ListInsert(s, at, e) = (a \o <<e>>) \o b
  BY DEF ListInsert
<1> HIDE DEF a, b
<1>4. /\ a \o <<e>> \in Seq(S) /\ Len(a \o <<e>>) = at
      /\ \A i \in 1 .. at : (a \o <<e>>)[i] = IF i < at THEN s[i] ELSE e
  BY <1>1
<1> DEFINE c == a \o <<e>>
<1> HIDE DEF c
<1>5. /\ c \in Seq(S) /\ Len(c) = at
      /\ \A i \in 1 .. at : c[i] = IF i < at THEN s[i] ELSE e
      /\ ListInsert(s, at, e) = c \o b
  BY <1>3, <1>4 DEF c
<1>6. /\ c \o b \in Seq(S) /\ Len(c \o b) = Len(s) + 1
      /\ \A i \in 1 .. Len(s) + 1 :
           (c \o b)[i] = IF i <= at THEN c[i] ELSE b[i - at]
  <2>1. Len(c) + Len(b) = Len(s) + 1
    BY <1>2, <1>5
  <2>2. /\ c \o b \in Seq(S) /\ Len(c \o b) = Len(c) + Len(b)
        /\ \A i \in 1 .. Len(c) + Len(b) :
             (c \o b)[i] = IF i <= Len(c) THEN c[i] ELSE b[i - Len(c)]
    BY <1>2, <1>5, ConcatProperties
  <2> QED BY <1>5, <2>1, <2>2
<1>7. ASSUME NEW i \in 1 .. Len(s) + 1
      PROVE  (c \o b)[i] = IF i < at THEN s[i]
                            ELSE IF i = at THEN e ELSE s[i - 1]
  <2>1. CASE i <= at
    BY <1>5, <1>6, <2>1
  <2>2. CASE i > at
    <3>1. (c \o b)[i] = b[i - at]
      BY <1>6, <2>2
    <3>2. i - at \in 1 .. Len(b)
      BY <1>2, <2>2
    <3>3. b[i - at] = s[at + (i - at) - 1]
      BY <1>2, <3>2
    <3>4. at + (i - at) - 1 = i - 1
      OBVIOUS
    <3>5. (c \o b)[i] = s[i - 1]
      BY <3>1, <3>3, <3>4
    <3>6. ~ (i < at) /\ i # at
      BY <2>2
    <3> QED BY <3>5, <3>6
  <2>3. i <= at \/ i > at
    OBVIOUS
  <2> QED BY <2>1, <2>2, <2>3, Zenon
<1> QED BY <1>5, <1>6, <1>7

(***************************************************************************)
(* Removal takes one node out and keeps the others in order.               *)
(***************************************************************************)
LEMMA RemoveElements ==
  ASSUME NEW S, NEW s \in Seq(S), NEW at \in 1 .. Len(s)
  PROVE  /\ ListRemove(s, at) \in Seq(S)
         /\ Len(ListRemove(s, at)) = Len(s) - 1
         /\ \A i \in 1 .. Len(s) - 1 :
              ListRemove(s, at)[i] = IF i < at THEN s[i] ELSE s[i + 1]
<1> DEFINE a == SubSeq(s, 1, at - 1)
           b == SubSeq(s, at + 1, Len(s))
<1>1. /\ a \in Seq(S) /\ Len(a) = at - 1
      /\ \A i \in 1 .. at - 1 : a[i] = s[i]
  OBVIOUS
<1>2. /\ b \in Seq(S) /\ Len(b) = Len(s) - at
      /\ \A i \in 1 .. Len(b) : b[i] = s[at + 1 + i - 1]
  OBVIOUS
<1>3. ListRemove(s, at) = a \o b
  BY DEF ListRemove
<1> HIDE DEF a, b
<1>4. Len(a) + Len(b) = Len(s) - 1
  BY <1>1, <1>2
<1>5. /\ a \o b \in Seq(S) /\ Len(a \o b) = Len(a) + Len(b)
      /\ \A i \in 1 .. Len(a) + Len(b) :
           (a \o b)[i] = IF i <= Len(a) THEN a[i] ELSE b[i - Len(a)]
  BY <1>1, <1>2, ConcatProperties
<1>6. ASSUME NEW i \in 1 .. Len(s) - 1
      PROVE  (a \o b)[i] = IF i < at THEN s[i] ELSE s[i + 1]
  <2>1. CASE i < at
    BY <1>1, <1>4, <1>5, <2>1
  <2>2. CASE i >= at
    <3>1. (a \o b)[i] = b[i - (at - 1)]
      BY <1>1, <1>4, <1>5, <2>2
    <3>2. i - (at - 1) \in 1 .. Len(b)
      BY <1>2, <2>2
    <3>3. b[i - (at - 1)] = s[at + 1 + (i - (at - 1)) - 1]
      BY <1>2, <3>2
    <3>4. at + 1 + (i - (at - 1)) - 1 = i + 1
      OBVIOUS
    <3>5. (a \o b)[i] = s[i + 1]
      BY <3>1, <3>3, <3>4
    <3>6. ~ (i < at)
      BY <2>2
    <3> QED BY <3>5, <3>6
  <2>3. i < at \/ i >= at
    OBVIOUS
  <2> QED BY <2>1, <2>2, <2>3, Zenon
<1> QED BY <1>3, <1>4, <1>5, <1>6
=============================================================================
