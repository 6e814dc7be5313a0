----------------------------- MODULE KbufByteFifo -----------------------------
(***************************************************************************)
(* What the mmap ring promises its two users: a bounded FIFO of bytes. A   *)
(* write adds some bytes of the producer's stream, at most as many as fit, *)
(* and a read takes some of the oldest.                                    *)
(***************************************************************************)
EXTENDS Integers, Sequences

CONSTANT Capacity

VARIABLES queue, written, taken

fifoVars == <<queue, written, taken>>

FifoInit == queue = <<>> /\ written = 0 /\ taken = <<>>

\* The stream is 1, 2, 3, ...: a byte is its position.
Put(n) ==
  /\ Len(queue) + n <= Capacity
  /\ queue' = queue \o [j \in 1..n |-> written + j]
  /\ written' = written + n
  /\ UNCHANGED taken

Get(n) ==
  /\ n <= Len(queue)
  /\ queue' = SubSeq(queue, n + 1, Len(queue))
  /\ taken' = taken \o SubSeq(queue, 1, n)
  /\ UNCHANGED written

FifoNext == \E n \in 1..Capacity : Put(n) \/ Get(n)

FifoSpec == FifoInit /\ [][FifoNext]_fifoVars
=============================================================================
