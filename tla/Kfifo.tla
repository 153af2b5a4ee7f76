-------------------------------- MODULE Kfifo --------------------------------
(***************************************************************************)
(* The ring buffer of lib/kfifo.c, used by pipes, the keyboard and the     *)
(* serial ports.  A ring is a record of its bytes, the index head where    *)
(* the next byte goes in and the index tail where the next one comes out.  *)
(* One byte of the buffer is never used: head = tail means empty.          *)
(***************************************************************************)
EXTENDS Naturals, Sequences

CONSTANTS
  Data,         \* the bytes of this instance
  BufSize       \* fifo->buf_size

ASSUME BufSizeAssumption == BufSize \in Nat \ {0, 1}

Ring == [buf  : [0 .. BufSize - 1 -> Data],
         head : 0 .. BufSize - 1,
         tail : 0 .. BufSize - 1]

kfifo_next(pos) == (pos + 1) % BufSize

\* kfifo_init; what the buffer holds before the first byte is never read.
kfifo_init(b) == [buf |-> [i \in 0 .. BufSize - 1 |-> b], head |-> 0, tail |-> 0]

kfifo_fullNever(f) == FALSE

kfifo_full(f) == kfifo_next(f.head) = f.tail

kfifo_empty(f) == f.head = f.tail

\* kfifo_get takes the byte at tail.
Front(f) == f.buf[f.tail]

kfifo_get(f) ==
  IF kfifo_empty(f) THEN f ELSE [f EXCEPT !.tail = kfifo_next(f.tail)]

\* kfifo_put: when the ring is full the oldest byte makes room.
kfifo_put(f, b) ==
  LET room == IF kfifo_full(f) THEN kfifo_get(f) ELSE f
  IN  [room EXCEPT !.buf[room.head] = b, !.head = kfifo_next(room.head)]

-----------------------------------------------------------------------------

\* The bytes in the ring, oldest first.
Used(f) == (f.head + BufSize - f.tail) % BufSize

Contents(f) == [i \in 1 .. Used(f) |-> f.buf[(f.tail + i - 1) % BufSize]]
=============================================================================
