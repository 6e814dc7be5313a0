------------------------------- MODULE KbufFifo -------------------------------
(***************************************************************************)
(* What a kbuf device promises, whatever its discipline: a bounded FIFO of *)
(* datagrams. A write adds one message when there is room, a read removes  *)
(* the oldest one and hands out at most as much of it as the caller asked  *)
(* for, and the capacity changes only while the queue is empty.            *)
(***************************************************************************)
EXTENDS Integers, Sequences

CONSTANTS Msgs,        \* payloads
          Lens,        \* lengths
          Capacities

VARIABLES queue, capacity, in, out

fifoVars == <<queue, capacity, in, out>>

FifoInit ==
  /\ queue = <<>>
  /\ capacity \in Capacities
  /\ in = <<>>
  /\ out = <<>>

Put(m) ==
  /\ Len(queue) < capacity
  /\ queue' = Append(queue, m)
  /\ in' = Append(in, m)
  /\ UNCHANGED <<capacity, out>>

Get(n) ==
  /\ queue # <<>>
  /\ queue' = Tail(queue)
  /\ out' = Append(out, [Head(queue) EXCEPT !.len = IF n <= @ THEN n ELSE @])
  /\ UNCHANGED <<capacity, in>>

Resize(n) ==
  /\ queue = <<>>
  /\ capacity' = n
  /\ UNCHANGED <<queue, in, out>>

FifoNext ==
  \/ \E m \in Msgs, l \in Lens : Put([msg |-> m, len |-> l])
  \/ \E n \in Lens : Get(n)
  \/ \E n \in Capacities : Resize(n)

FifoSpec == FifoInit /\ [][FifoNext]_fifoVars
=============================================================================
