-------------------------------- MODULE Fifo ---------------------------------
(***************************************************************************)
(* What a pipe promises its users: a bounded queue of bytes.  Bytes come   *)
(* out in the order in which they went in, none is lost, none comes twice, *)
(* and there are never more than Capacity of them under way.               *)
(***************************************************************************)
EXTENDS Naturals, Sequences

CONSTANTS Data, Capacity, None

VARIABLES
  queue,      \* the bytes that were written and not yet read
  last        \* the byte that was read last

Init == queue = << >> /\ last = None

Put(b) == /\ Len(queue) < Capacity
          /\ queue' = Append(queue, b)
          /\ UNCHANGED last

Get == /\ queue # << >>
       /\ last' = Head(queue)
       /\ queue' = Tail(queue)

Next == Get \/ \E b \in Data : Put(b)

Spec == Init /\ [][Next]_<<queue, last>>
=============================================================================
