----------------------------- MODULE PipeProofs ------------------------------
(***************************************************************************)
(* Proofs about the ring buffer of lib/kfifo.c and the pipe of fs/pipe.c,  *)
(* for every size of the ring, every set of bytes and every number of      *)
(* readers and writers: no wakeup is lost, and the pipe implements the     *)
(* bounded queue of module Fifo.                                           *)
(***************************************************************************)
EXTENDS Pipe, SchedProofs

States == {"RUNNING", "READY", "BLOCKED"}

(***************************************************************************)
(* The modulo of an index that has passed the end of the ring at most once *)
(* takes the length off.                                                   *)
(***************************************************************************)
LEMMA WrapOnce ==
  ASSUME NEW a \in Nat, a < BufSize + BufSize
  PROVE  a % BufSize = IF a < BufSize THEN a ELSE a - BufSize
<1>1. CASE a < BufSize
  BY <1>1, BufSizeAssumption
<1>2. CASE a >= BufSize
  BY <1>2, BufSizeAssumption
<1> QED BY <1>1, <1>2, BufSizeAssumption

(***************************************************************************)
(* kfifo_next stays inside the ring.                                       *)
(***************************************************************************)
LEMMA NextInside ==
  ASSUME NEW p \in 0 .. BufSize - 1
  PROVE  /\ kfifo_next(p) \in 0 .. BufSize - 1
         /\ kfifo_next(p) = IF p = BufSize - 1 THEN 0 ELSE p + 1
<1>1. p + 1 \in Nat /\ p + 1 < BufSize + BufSize
  BY BufSizeAssumption
<1> QED BY <1>1, WrapOnce, BufSizeAssumption DEF kfifo_next

(***************************************************************************)
(* The number of bytes in a ring, without the modulo.                      *)
(***************************************************************************)
LEMMA UsedInside ==
  ASSUME NEW f \in Ring
  PROVE  /\ Used(f) \in 0 .. BufSize - 1
         /\ Used(f) = IF f.head >= f.tail THEN f.head - f.tail
                                          ELSE f.head + BufSize - f.tail
<1>1. f.head \in 0 .. BufSize - 1 /\ f.tail \in 0 .. BufSize - 1
  BY DEF Ring
<1>2. /\ f.head + BufSize - f.tail \in Nat
      /\ f.head + BufSize - f.tail < BufSize + BufSize
  BY <1>1, BufSizeAssumption
<1> QED BY <1>1, <1>2, WrapOnce, BufSizeAssumption DEF Used

(***************************************************************************)
(* The bytes of a ring are a sequence of that length.                      *)
(***************************************************************************)
LEMMA ContentsSeq ==
  ASSUME NEW f \in Ring
  PROVE  /\ Contents(f) \in Seq(Data)
         /\ Len(Contents(f)) = Used(f)
         /\ \A i \in 1 .. Used(f) :
              Contents(f)[i] = f.buf[(f.tail + i - 1) % BufSize]
<1>1. Used(f) \in Nat
  BY UsedInside
<1>2. \A i \in 1 .. Used(f) : f.buf[(f.tail + i - 1) % BufSize] \in Data
  <2> SUFFICES ASSUME NEW i \in 1 .. Used(f)
               PROVE  f.buf[(f.tail + i - 1) % BufSize] \in Data
    OBVIOUS
  <2>1. f.tail \in Nat /\ i \in Nat \ {0}
    BY <1>1 DEF Ring
  <2>2. (f.tail + i - 1) % BufSize \in 0 .. BufSize - 1
    BY <2>1, BufSizeAssumption
  <2> QED BY <2>2 DEF Ring
<1> QED BY <1>1, <1>2 DEF Contents

(***************************************************************************)
(* kfifo_init makes an empty ring.                                         *)
(***************************************************************************)
LEMMA InitContents ==
  ASSUME NEW b \in Data
  PROVE  /\ kfifo_init(b) \in Ring
         /\ Contents(kfifo_init(b)) = << >>
<1>1. kfifo_init(b) \in Ring
  BY BufSizeAssumption DEF kfifo_init, Ring
<1>2. Used(kfifo_init(b)) = 0
  BY <1>1, UsedInside DEF kfifo_init
<1> QED BY <1>1, <1>2, ContentsSeq

(***************************************************************************)
(* A ring is empty exactly if it holds no byte, and full exactly if it     *)
(* holds one less than its length.                                         *)
(***************************************************************************)
LEMMA EmptyFull ==
  ASSUME NEW f \in Ring
  PROVE  /\ kfifo_empty(f) <=> Used(f) = 0
         /\ kfifo_full(f) <=> Used(f) = BufSize - 1
<1>1. f.head \in 0 .. BufSize - 1 /\ f.tail \in 0 .. BufSize - 1
  BY DEF Ring
<1> QED
  BY <1>1, UsedInside, NextInside, BufSizeAssumption DEF kfifo_empty, kfifo_full

(***************************************************************************)
(* kfifo_get takes the oldest byte off.                                    *)
(***************************************************************************)
LEMMA GetContents ==
  ASSUME NEW f \in Ring, ~kfifo_empty(f)
  PROVE  /\ kfifo_get(f) \in Ring
         /\ Contents(f) # << >>
         /\ Front(f) = Head(Contents(f))
         /\ Contents(kfifo_get(f)) = Tail(Contents(f))
<1> DEFINE g == kfifo_get(f)
           n == kfifo_next(f.tail)
<1>1. f.head \in 0 .. BufSize - 1 /\ f.tail \in 0 .. BufSize - 1
  BY DEF Ring
<1>2. g = [f EXCEPT !.tail = n]
  BY DEF kfifo_get
<1>3. n \in 0 .. BufSize - 1 /\ n = IF f.tail = BufSize - 1 THEN 0 ELSE f.tail + 1
  BY <1>1, NextInside
<1> HIDE DEF n
<1>4. g \in Ring /\ g.buf = f.buf /\ g.head = f.head /\ g.tail = n
  BY <1>2, <1>3 DEF Ring
<1> HIDE DEF g
<1>5. f.head # f.tail
  BY DEF kfifo_empty
<1>6. Used(f) \in Nat /\ Used(f) # 0 /\ Used(g) = Used(f) - 1
  BY <1>1, <1>3, <1>4, <1>5, UsedInside, BufSizeAssumption
<1>7. /\ Contents(f) \in Seq(Data) /\ Contents(g) \in Seq(Data)
      /\ Len(Contents(f)) = Used(f) /\ Len(Contents(g)) = Used(f) - 1
  BY <1>4, <1>6, ContentsSeq
<1>8. Contents(f) # << >>
  BY <1>6, <1>7
<1>9. Front(f) = Head(Contents(f))
  <2>1. Contents(f)[1] = f.buf[(f.tail + 1 - 1) % BufSize]
    BY <1>6, ContentsSeq
  <2>2. (f.tail + 1 - 1) % BufSize = f.tail
    BY <1>1, WrapOnce, BufSizeAssumption
  <2> QED BY <1>7, <1>8, <2>1, <2>2 DEF Front
<1>10. ASSUME NEW i \in 1 .. Used(f) - 1
       PROVE  Contents(g)[i] = Contents(f)[i + 1]
  <2>1. i \in 1 .. Used(g) /\ i + 1 \in 1 .. Used(f)
    BY <1>6
  <2>2. /\ Contents(g)[i] = f.buf[(n + i - 1) % BufSize]
        /\ Contents(f)[i + 1] = f.buf[(f.tail + (i + 1) - 1) % BufSize]
    BY <1>4, <2>1, ContentsSeq
  <2>3. Used(f) \in 0 .. BufSize - 1
    BY UsedInside
  <2>4. (n + i - 1) % BufSize = (f.tail + (i + 1) - 1) % BufSize
    <3> DEFINE x == n + i - 1
               y == f.tail + (i + 1) - 1
    <3>1. /\ x \in Nat /\ x < BufSize + BufSize
          /\ y \in Nat /\ y < BufSize + BufSize
          /\ x = y \/ x = y - BufSize
      BY <1>1, <1>3, <1>6, <2>3, BufSizeAssumption
    <3> HIDE DEF x, y
    <3>2. x % BufSize = y % BufSize
      BY <3>1, WrapOnce, BufSizeAssumption
    <3> QED BY <3>2 DEF x, y
  <2> QED BY <2>2, <2>4
<1>11. Contents(g) = Tail(Contents(f))
  <2>1. /\ Tail(Contents(f)) \in Seq(Data)
        /\ Len(Tail(Contents(f))) = Used(f) - 1
        /\ \A i \in 1 .. Used(f) - 1 : Tail(Contents(f))[i] = Contents(f)[i + 1]
    BY <1>7, <1>8
  <2> QED BY <1>7, <1>10, <2>1, SeqEqual
<1> QED BY <1>4, <1>8, <1>9, <1>11 DEF g

(***************************************************************************)
(* kfifo_put into a ring that is not full puts the byte behind the others. *)
(***************************************************************************)
LEMMA PutContents ==
  ASSUME NEW f \in Ring, NEW b \in Data, ~kfifo_full(f)
  PROVE  /\ kfifo_put(f, b) \in Ring
         /\ Len(Contents(f)) < BufSize - 1
         /\ Contents(kfifo_put(f, b)) = Append(Contents(f), b)
         /\ ~kfifo_empty(kfifo_put(f, b))
<1> DEFINE g == kfifo_put(f, b)
           n == kfifo_next(f.head)
<1>1. f.head \in 0 .. BufSize - 1 /\ f.tail \in 0 .. BufSize - 1
  BY DEF Ring
<1>2. g = [f EXCEPT !.buf[f.head] = b, !.head = n]
  BY DEF kfifo_put
<1>3. n \in 0 .. BufSize - 1 /\ n = IF f.head = BufSize - 1 THEN 0 ELSE f.head + 1
  BY <1>1, NextInside
<1> HIDE DEF n
<1>4. /\ g \in Ring /\ g.head = n /\ g.tail = f.tail
      /\ g.buf = [f.buf EXCEPT ![f.head] = b]
  <2> HIDE DEF g
  <2>1. g \in Ring
    BY <1>1, <1>2, <1>3 DEF Ring
  <2>2. g.head = n /\ g.tail = f.tail
    BY <1>2 DEF Ring
  <2>3. g.buf = [f.buf EXCEPT ![f.head] = b]
    BY <1>2 DEF Ring
  <2> QED BY <2>1, <2>2, <2>3
<1>5. n # f.tail
  BY DEF kfifo_full, n
<1> HIDE DEF g
<1>6. Used(f) \in Nat /\ Used(g) = Used(f) + 1 /\ Used(f) < BufSize - 1
  BY <1>1, <1>3, <1>4, <1>5, UsedInside, BufSizeAssumption
<1>7. /\ Contents(f) \in Seq(Data) /\ Contents(g) \in Seq(Data)
      /\ Len(Contents(f)) = Used(f) /\ Len(Contents(g)) = Used(f) + 1
  BY <1>4, <1>6, ContentsSeq
<1>8. ASSUME NEW i \in 1 .. Used(f)
      PROVE  Contents(g)[i] = Contents(f)[i]
  <2> DEFINE a == f.tail + i - 1
             k == a % BufSize
  <2>1. i \in 1 .. Used(g)
    BY <1>6
  <2>2. /\ Contents(g)[i] = g.buf[k]
        /\ Contents(f)[i] = f.buf[k]
    BY <1>4, <2>1, ContentsSeq
  <2>3. a \in Nat /\ a < BufSize + BufSize
    BY <1>1, <1>6, BufSizeAssumption
  <2>4. k = IF a < BufSize THEN a ELSE a - BufSize
    <3> HIDE DEF a
    <3> QED BY <2>3, WrapOnce
  <2>5. k # f.head /\ k \in 0 .. BufSize - 1
    <3> HIDE DEF k
    <3> QED BY <1>1, <1>6, <2>3, <2>4, UsedInside, BufSizeAssumption
  <2> HIDE DEF k
  <2>6. f.buf \in [0 .. BufSize - 1 -> Data]
    BY DEF Ring
  <2> QED BY <1>4, <2>2, <2>5, <2>6
<1>9. Contents(g)[Used(f) + 1] = b
  <2> DEFINE k == (f.tail + (Used(f) + 1) - 1) % BufSize
  <2>1. Contents(g)[Used(f) + 1] = g.buf[k]
    <3>1. Used(f) + 1 \in 1 .. Used(g)
      BY <1>6
    <3> QED BY <1>4, <3>1, ContentsSeq
  <2>2. /\ f.tail + (Used(f) + 1) - 1 = f.tail + Used(f)
        /\ f.tail + Used(f) \in Nat /\ f.tail + Used(f) < BufSize + BufSize
    BY <1>1, <1>6, BufSizeAssumption
  <2>3. k = f.head
    BY <1>1, <2>2, WrapOnce, UsedInside, BufSizeAssumption
  <2> HIDE DEF k
  <2>4. f.buf \in [0 .. BufSize - 1 -> Data]
    BY DEF Ring
  <2> QED BY <1>1, <1>4, <2>1, <2>3, <2>4
<1>10. Contents(g) = Append(Contents(f), b)
  <2>1. /\ Append(Contents(f), b) \in Seq(Data)
        /\ Len(Append(Contents(f), b)) = Used(f) + 1
        /\ \A i \in 1 .. Used(f) : Append(Contents(f), b)[i] = Contents(f)[i]
        /\ Append(Contents(f), b)[Used(f) + 1] = b
    BY <1>7
  <2>2. \A i \in 1 .. Used(f) + 1 :
          Contents(g)[i] = Append(Contents(f), b)[i]
    BY <1>6, <1>8, <1>9, <2>1
  <2> QED BY <1>7, <2>1, <2>2, SeqEqual
<1>11. ~kfifo_empty(g)
  BY <1>4, <1>6, EmptyFull
<1> QED BY <1>4, <1>6, <1>7, <1>10, <1>11 DEF g

-----------------------------------------------------------------------------

(***************************************************************************)
(* What rescheduling preserves: types, and who is asleep.                  *)
(***************************************************************************)
LEMMA RescheduleKeeps ==
  ASSUME NEW st \in [Pid -> States], current \in Pid, Reschedule(st)
  PROVE  /\ state' \in [Pid -> States]
         /\ current' \in Pid
         /\ \A n \in Users : state'[n] = "BLOCKED" <=> st[n] = "BLOCKED"
         /\ st[Idle] # "BLOCKED" =>
              state'[Idle] # "BLOCKED" /\ state'[current'] # "BLOCKED"
<1>1. {"READY", "RUNNING"} \subseteq States
      /\ "BLOCKED" \in States \ {"READY", "RUNNING"}
  BY DEF States
<1>2. /\ state' = AfterSchedule(st, current)
      /\ current' = Schedule(st, current)
  BY DEF Reschedule
<1>3. /\ AfterSchedule(st, current) \in [Pid -> States]
      /\ \A n \in Pid \ {Idle} :
           AfterSchedule(st, current)[n] = "BLOCKED" <=> st[n] = "BLOCKED"
  BY <1>1, ScheduleKeeps
<1>4. current' \in Pid
  BY <1>2, ScheduleReady
<1>5. st[Idle] # "BLOCKED" =>
        /\ AfterSchedule(st, current)[Idle] # "BLOCKED"
        /\ AfterSchedule(st, current)[Schedule(st, current)] # "BLOCKED"
  BY <1>1, ScheduleRuns
<1> QED BY <1>2, <1>3, <1>4, <1>5, EndsAssumption DEF Users

(***************************************************************************)
(* The task that runs and the idle task are awake.                         *)
(***************************************************************************)
CurrentAwake == state[current] # "BLOCKED" /\ state[Idle] # "BLOCKED"

(***************************************************************************)
(* Only a reader is in pipe_read and only a writer in pipe_write, each     *)
(* with bytes left to move.                                                *)
(***************************************************************************)
CallsMatchEnds ==
  \A t \in Pid : /\ pc[t] = "read" => t \in Readers /\ left[t] > 0
                 /\ pc[t] = "write" => t \in Writers /\ left[t] > 0

(***************************************************************************)
(* The inode counts the ends that are open.                                *)
(***************************************************************************)
EndsCounted ==
  /\ open # {} => count >= 1
  /\ open \cap Readers # {} /\ open \cap Writers # {} => count = 2

PipeInv ==
  /\ TypeOK
  /\ CurrentAwake
  /\ CallsMatchEnds
  /\ EndsCounted
  /\ SleepersAreKnown

(***************************************************************************)
(* sys_pipe makes a pipe on which nobody sleeps.                           *)
(***************************************************************************)
LEMMA PipeInit == Init => PipeInv
<1> SUFFICES ASSUME Init PROVE PipeInv
  OBVIOUS
<1>1. Idle \in Pid
  BY TaskNrAssumption DEF Idle, Pid
<1>2. fifo \in Ring
  BY InitContents DEF Init
<1>3. TypeOK
  <2>1. left \in [Pid -> 0 .. MaxCount]
    BY MaxCountAssumption DEF Init
  <2>2. /\ state \in [Pid -> {"RUNNING", "READY", "BLOCKED"}]
        /\ pc \in [Pid -> {"user", "read", "write"}]
    BY DEF Init
  <2>3. count \in 0 .. 2
    BY DEF Init
  <2>4. open \subseteq Users /\ panic \in BOOLEAN
    BY Zenon DEF Init
  <2> QED BY <1>1, <1>2, <2>1, <2>2, <2>3, <2>4 DEF Init, TypeOK
<1>4. None \notin Pid
  BY NoneAssumption, TaskNrAssumption DEF Pid
<1>5. SleepersAreKnown
  BY <1>4, EndsAssumption DEF Init, SleepersAreKnown, Asleep
<1> QED
  BY <1>1, <1>3, <1>5
     DEF Init, PipeInv, CurrentAwake, CallsMatchEnds, EndsCounted

(***************************************************************************)
(* Every step keeps the invariant.  A task goes to sleep only after it has *)
(* seen the ring empty or full and written itself down; the byte that      *)
(* changes this wakes it and strikes it out in the same step.              *)
(***************************************************************************)
LEMMA PipeStep == PipeInv /\ [Next]_vars => PipeInv'
<1> SUFFICES ASSUME PipeInv, [Next]_vars PROVE PipeInv'
  OBVIOUS
<1> USE DEF PipeInv
<1>0. /\ Readers \subseteq Pid /\ Writers \subseteq Pid /\ Users \subseteq Pid
      /\ Idle \notin Users /\ Idle \in Pid /\ Readers \cap Writers = {}
      /\ None \notin Pid /\ Users = Readers \cup Writers
  BY EndsAssumption, NoneAssumption, TaskNrAssumption DEF Users, Pid, Idle
<1>1. ASSUME NEW t \in Users, current = t, NEW n \in 1 .. MaxCount, Call(t, n)
      PROVE  PipeInv'
  <2>1. n \in 0 .. MaxCount /\ n > 0
    BY MaxCountAssumption
  <2>2. TypeOK'
    BY <1>0, <1>1, <2>1 DEF Call, TypeOK, ends, cpu
  <2>3. CurrentAwake' /\ EndsCounted'
    BY <1>1 DEF Call, CurrentAwake, EndsCounted, ends, cpu
  <2>4. CallsMatchEnds'
    BY <1>0, <1>1, <2>1 DEF Call, CallsMatchEnds, TypeOK
  <2>5. SleepersAreKnown'
    BY <1>0, <1>1
       DEF Call, SleepersAreKnown, Asleep, TypeOK, CurrentAwake, CallsMatchEnds, cpu
  <2> QED BY <2>2, <2>3, <2>4, <2>5
<1>2. ASSUME NEW t \in Users, current = t, ReadBlock(t)
      PROVE  PipeInv'
  <2> DEFINE st == [state EXCEPT ![t] = "BLOCKED"]
  <2>0. t \in Readers /\ t \in Pid /\ t # Idle /\ st \in [Pid -> States]
    BY <1>0, <1>2 DEF ReadBlock, CallsMatchEnds, TypeOK, States
  <2>1. CASE rxwaiter # None
    BY <1>2, <2>1
       DEF ReadBlock, TypeOK, CurrentAwake, CallsMatchEnds, EndsCounted,
           SleepersAreKnown, Asleep, ends, cpu
  <2>2. CASE rxwaiter = None
    <3>1. /\ rxwaiter' = t /\ Reschedule(st)
          /\ UNCHANGED <<panic, fifo, txwaiter, ends, left, last, pc>>
      BY <1>2, <2>2 DEF ReadBlock
    <3>2. /\ state' \in [Pid -> States] /\ current' \in Pid
          /\ \A n \in Users : state'[n] = "BLOCKED" <=> st[n] = "BLOCKED"
          /\ state'[Idle] # "BLOCKED" /\ state'[current'] # "BLOCKED"
      <4>1. st[Idle] # "BLOCKED" /\ current \in Pid
        BY <1>0, <2>0 DEF TypeOK, CurrentAwake
      <4> HIDE DEF st
      <4> QED BY <2>0, <3>1, <4>1, RescheduleKeeps
    <3>3. TypeOK' /\ CurrentAwake' /\ CallsMatchEnds' /\ EndsCounted'
      BY <2>0, <3>1, <3>2
         DEF TypeOK, CurrentAwake, CallsMatchEnds, EndsCounted, States, ends
    <3>4. SleepersAreKnown'
      BY <1>0, <1>2, <2>0, <2>2, <3>1, <3>2
         DEF ReadBlock, SleepersAreKnown, Asleep, TypeOK
    <3> QED BY <3>3, <3>4
  <2> QED BY <2>1, <2>2
<1>3. ASSUME NEW t \in Users, current = t, ReadByte(t)
      PROVE  PipeInv'
  <2>0. t \in Readers /\ t \in Pid /\ left[t] > 0
    BY <1>0, <1>3 DEF ReadByte, CallsMatchEnds
  <2>1. fifo' \in Ring /\ last' \in Data
    <3>1. /\ kfifo_get(fifo) \in Ring
          /\ Contents(fifo) # << >>
          /\ Front(fifo) = Head(Contents(fifo))
      BY <1>3, GetContents DEF ReadByte, TypeOK
    <3>2. Contents(fifo) \in Seq(Data)
      BY ContentsSeq DEF TypeOK
    <3> QED BY <1>3, <3>1, <3>2 DEF ReadByte
  <2>2. /\ state' \in [Pid -> States]
        /\ \A n \in Pid : state'[n] = "BLOCKED" <=>
                            state[n] = "BLOCKED" /\ n # txwaiter
    BY <1>0, <1>3 DEF ReadByte, Wake, TypeOK, States
  <2>3. /\ left' \in [Pid -> 0 .. MaxCount] /\ pc' \in [Pid -> {"user", "read", "write"}]
        /\ pc'[t] # "user" => pc'[t] = "read" /\ left'[t] > 0
        /\ \A n \in Pid \ {t} : pc'[n] = pc[n] /\ left'[n] = left[n]
    <3>1. left[t] \in 0 .. MaxCount /\ left[t] - 1 \in 0 .. MaxCount
      BY <2>0, MaxCountAssumption DEF TypeOK
    <3> QED BY <1>3, <2>0, <3>1, MaxCountAssumption DEF ReadByte, AfterByte, TypeOK
  <2>4. TypeOK'
    BY <1>3, <2>1, <2>2, <2>3 DEF ReadByte, TypeOK, States, ends
  <2>5. CurrentAwake' /\ EndsCounted'
    BY <1>0, <1>3, <2>2 DEF ReadByte, CurrentAwake, EndsCounted, TypeOK, ends
  <2>6. CallsMatchEnds'
    BY <2>0, <2>3 DEF CallsMatchEnds, TypeOK
  <2>7. SleepersAreKnown'
    <3>1. rxwaiter = None /\ rxwaiter' = None /\ txwaiter' = None
      BY <1>3 DEF ReadByte, SleepersAreKnown
    <3>2. \A n \in Readers : ~ (pc'[n] = "read" /\ state'[n] = "BLOCKED")
      BY <1>0, <1>3, <2>2, <2>3, <3>1 DEF SleepersAreKnown, Asleep, CurrentAwake
    <3>3. \A n \in Writers : ~ (pc'[n] = "write" /\ state'[n] = "BLOCKED")
      BY <1>0, <2>0, <2>2, <2>3 DEF SleepersAreKnown, Asleep
    <3> QED BY <1>0, <3>1, <3>2, <3>3 DEF SleepersAreKnown, Asleep
  <2> QED BY <2>4, <2>5, <2>6, <2>7
<1>4. ASSUME NEW t \in Users, current = t, WriteBlock(t)
      PROVE  PipeInv'
  <2> DEFINE st == [state EXCEPT ![t] = "BLOCKED"]
  <2>0. t \in Writers /\ t \in Pid /\ t # Idle /\ st \in [Pid -> States]
    BY <1>0, <1>4 DEF WriteBlock, CallsMatchEnds, TypeOK, States
  <2>1. CASE txwaiter # None
    BY <1>4, <2>1
       DEF WriteBlock, TypeOK, CurrentAwake, CallsMatchEnds, EndsCounted,
           SleepersAreKnown, Asleep, ends, cpu
  <2>2. CASE txwaiter = None
    <3>1. /\ txwaiter' = t /\ Reschedule(st)
          /\ UNCHANGED <<panic, fifo, rxwaiter, ends, left, last, pc>>
      BY <1>4, <2>2 DEF WriteBlock
    <3>2. /\ state' \in [Pid -> States] /\ current' \in Pid
          /\ \A n \in Users : state'[n] = "BLOCKED" <=> st[n] = "BLOCKED"
          /\ state'[Idle] # "BLOCKED" /\ state'[current'] # "BLOCKED"
      <4>1. st[Idle] # "BLOCKED" /\ current \in Pid
        BY <1>0, <2>0 DEF TypeOK, CurrentAwake
      <4> HIDE DEF st
      <4> QED BY <2>0, <3>1, <4>1, RescheduleKeeps
    <3>3. TypeOK' /\ CurrentAwake' /\ CallsMatchEnds' /\ EndsCounted'
      BY <2>0, <3>1, <3>2
         DEF TypeOK, CurrentAwake, CallsMatchEnds, EndsCounted, States, ends
    <3>4. SleepersAreKnown'
      BY <1>0, <1>4, <2>0, <2>2, <3>1, <3>2
         DEF WriteBlock, SleepersAreKnown, Asleep, TypeOK
    <3> QED BY <3>3, <3>4
  <2> QED BY <2>1, <2>2
<1>5. ASSUME NEW t \in Users, current = t, NEW b \in Data, WriteByte(t, b)
      PROVE  PipeInv'
  <2>0. t \in Writers /\ t \in Pid /\ left[t] > 0
    BY <1>0, <1>5 DEF WriteByte, CallsMatchEnds
  <2>1. fifo' \in Ring
    BY <1>5, PutContents DEF WriteByte, TypeOK
  <2>2. /\ state' \in [Pid -> States]
        /\ \A n \in Pid : state'[n] = "BLOCKED" <=>
                            state[n] = "BLOCKED" /\ n # rxwaiter
    BY <1>0, <1>5 DEF WriteByte, Wake, TypeOK, States
  <2>3. /\ left' \in [Pid -> 0 .. MaxCount] /\ pc' \in [Pid -> {"user", "read", "write"}]
        /\ pc'[t] # "user" => pc'[t] = "write" /\ left'[t] > 0
        /\ \A n \in Pid \ {t} : pc'[n] = pc[n] /\ left'[n] = left[n]
    <3>1. left[t] \in 0 .. MaxCount /\ left[t] - 1 \in 0 .. MaxCount
      BY <2>0, MaxCountAssumption DEF TypeOK
    <3> QED BY <1>5, <2>0, <3>1, MaxCountAssumption DEF WriteByte, AfterByte, TypeOK
  <2>4. TypeOK'
    BY <1>5, <2>1, <2>2, <2>3 DEF WriteByte, TypeOK, States, ends
  <2>5. CurrentAwake' /\ EndsCounted'
    BY <1>0, <1>5, <2>2 DEF WriteByte, CurrentAwake, EndsCounted, TypeOK, ends
  <2>6. CallsMatchEnds'
    BY <2>0, <2>3 DEF CallsMatchEnds, TypeOK
  <2>7. SleepersAreKnown'
    <3>1. txwaiter = None /\ rxwaiter' = None /\ txwaiter' = None
      BY <1>5 DEF WriteByte, SleepersAreKnown
    <3>2. \A n \in Writers : ~ (pc'[n] = "write" /\ state'[n] = "BLOCKED")
      BY <1>0, <1>5, <2>2, <2>3, <3>1 DEF SleepersAreKnown, Asleep, CurrentAwake
    <3>3. \A n \in Readers : ~ (pc'[n] = "read" /\ state'[n] = "BLOCKED")
      BY <1>0, <2>0, <2>2, <2>3 DEF SleepersAreKnown, Asleep
    <3> QED BY <1>0, <3>1, <3>2, <3>3 DEF SleepersAreKnown, Asleep
  <2> QED BY <2>4, <2>5, <2>6, <2>7
<1>6. ASSUME NEW t \in Users, current = t, Close(t)
      PROVE  PipeInv'
  <2>1. CurrentAwake' /\ CallsMatchEnds' /\ SleepersAreKnown'
    BY <1>6 DEF Close, CurrentAwake, CallsMatchEnds, SleepersAreKnown, Asleep, cpu
  <2>2. count' \in 0 .. 2 /\ EndsCounted'
    <3>1. CASE t \in Readers
      BY <1>0, <1>6, <3>1 DEF Close, Put, EndsCounted, TypeOK
    <3>2. CASE t \in Writers
      BY <1>0, <1>6, <3>2 DEF Close, Put, EndsCounted, TypeOK
    <3> QED BY <1>0, <3>1, <3>2
  <2>3. TypeOK'
    BY <1>6, <2>2 DEF Close, TypeOK, cpu
  <2> QED BY <2>1, <2>2, <2>3
<1>7. ASSUME Clock
      PROVE  PipeInv'
  <2>1. /\ state' \in [Pid -> States] /\ current' \in Pid
        /\ \A n \in Users : state'[n] = "BLOCKED" <=> state[n] = "BLOCKED"
        /\ state'[Idle] # "BLOCKED" /\ state'[current'] # "BLOCKED"
    BY <1>7, RescheduleKeeps DEF Clock, TypeOK, CurrentAwake, States
  <2> QED
    BY <1>0, <1>7, <2>1
       DEF Clock, TypeOK, CurrentAwake, CallsMatchEnds, EndsCounted,
           SleepersAreKnown, Asleep, States, ends
<1>8. CASE UNCHANGED vars
  BY <1>8
     DEF vars, TypeOK, CurrentAwake, CallsMatchEnds, EndsCounted,
         SleepersAreKnown, Asleep, ends, cpu
<1> QED
  BY <1>1, <1>2, <1>3, <1>4, <1>5, <1>6, <1>7, <1>8 DEF Next, Step, Kernel

(***************************************************************************)
(* No wakeup of a pipe is lost, with any number of readers and writers:    *)
(* who sleeps in pipe_read is the reader that the inode remembers, and the *)
(* ring is empty; likewise the writer, and it is full.                     *)
(***************************************************************************)
THEOREM PipeLosesNoWakeup == Spec => [](TypeOK /\ SleepersAreKnown)
<1>1. Init => PipeInv
  BY PipeInit
<1>2. PipeInv /\ [Next]_vars => PipeInv'
  BY PipeStep
<1> QED BY <1>1, <1>2, PTL DEF Spec, PipeInv

-----------------------------------------------------------------------------

(***************************************************************************)
(* The pipe implements the bounded queue: what a reader gets is what       *)
(* writers put, in that order, nothing lost and nothing twice.  A byte is  *)
(* one step of the queue; every other step leaves the ring alone.          *)
(***************************************************************************)
THEOREM PipeIsFifo == Spec => IsFifo
<1>1. Init => Queue!Init
  BY InitContents DEF Init, Queue!Init
<1>2. PipeInv /\ [Next]_vars => [Queue!Next]_<<Contents(fifo), last>>
  <2> SUFFICES ASSUME PipeInv, [Next]_vars
               PROVE  [Queue!Next]_<<Contents(fifo), last>>
    OBVIOUS
  <2>0. fifo \in Ring
    BY DEF PipeInv, TypeOK
  <2>1. ASSUME NEW t \in Users, ReadByte(t)
        PROVE  Queue!Next
    <3>1. /\ Contents(fifo) # << >>
          /\ Front(fifo) = Head(Contents(fifo))
          /\ Contents(kfifo_get(fifo)) = Tail(Contents(fifo))
      BY <2>0, <2>1, GetContents DEF ReadByte
    <3>2. fifo' = kfifo_get(fifo) /\ last' = Front(fifo)
      BY <2>1 DEF ReadByte
    <3>3. Contents(fifo)' = Tail(Contents(fifo))
      BY <3>1, <3>2
    <3>4. Queue!Get
      BY <3>1, <3>2, <3>3 DEF Queue!Get
    <3> QED BY <3>4 DEF Queue!Next
  <2>2. ASSUME NEW t \in Users, NEW b \in Data, WriteByte(t, b)
        PROVE  Queue!Next
    <3>1. /\ Len(Contents(fifo)) < BufSize - 1
          /\ Contents(kfifo_put(fifo, b)) = Append(Contents(fifo), b)
      BY <2>0, <2>2, PutContents DEF WriteByte
    <3>2. fifo' = kfifo_put(fifo, b) /\ last' = last
      BY <2>2 DEF WriteByte
    <3>3. Contents(fifo)' = Append(Contents(fifo), b)
      BY <3>1, <3>2
    <3>4. Queue!Put(b)
      BY <3>1, <3>2, <3>3 DEF Queue!Put
    <3> QED BY <3>4 DEF Queue!Next
  <2>3. ASSUME UNCHANGED <<fifo, last>>
        PROVE  UNCHANGED <<Contents(fifo), last>>
    BY <2>3
  <2> QED
    BY <2>1, <2>2, <2>3
       DEF Next, Step, Kernel, Call, ReadBlock, WriteBlock, Close, Clock, vars
<1> QED
  BY <1>1, <1>2, PipeInit, PipeStep, PTL DEF Spec, IsFifo, Queue!Spec
=============================================================================
