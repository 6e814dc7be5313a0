------------------------------- MODULE KbufMmap -------------------------------
(***************************************************************************)
(* The zero-copy ring: the kernel's two buffers and the layout in which    *)
(* mmap shows them (kbuf_mmap.c), the producer and the consumer that move  *)
(* bytes through them in user space (libkbuf.h), and the programs that     *)
(* start the two (kbuf_bench.c).                                           *)
(*                                                                         *)
(* One step per shared access: the load of each index, every byte of a     *)
(* memcpy, the store that publishes. Acquire and release are program       *)
(* order; the two relaxed stores of a reset may be seen in either order.   *)
(***************************************************************************)
EXTENDS Integers, Sequences

CONSTANTS
  KBUF_MMAP_CAPACITY,   \* 64 KiB in the code
  PAGE_SIZE,
  IdxMod,               \* indices are 64-bit: 2^64 in the code
  SizeSets,             \* the sizes the callers of one program ask for
  Total,                \* bytes a program moves
  ResetFirst            \* TRUE: map and reset, then fork, as latency() and
                        \* test_mmap.c do. FALSE: fork first, as run_once() does

data_pages == KBUF_MMAP_CAPACITY \div PAGE_SIZE

ASSUME MmapAssumption ==
  /\ KBUF_MMAP_CAPACITY \in Nat \ {0} /\ PAGE_SIZE \in Nat \ {0}
  /\ KBUF_MMAP_CAPACITY % PAGE_SIZE = 0
  /\ IdxMod \in Nat /\ IdxMod > KBUF_MMAP_CAPACITY
  /\ IdxMod % KBUF_MMAP_CAPACITY = 0
  /\ SizeSets \subseteq SUBSET (Nat \ {0}) /\ Total \in Nat /\ ResetFirst \in BOOLEAN

VARIABLES
  head, tail, data,     \* the control page and the data ring
  sizes,                \* the sizes asked for in this run
  prod, cons,           \* the two processes
  taken                 \* what the reads have returned so far

vars == <<head, tail, data, sizes, prod, cons, taken>>

-----------------------------------------------------------------------------
(* The mapping: [control page][data][data].                                *)

\* kbuf_mmap: the whole region, from its start.
kbuf_mmap(pgoff, size) == pgoff = 0 /\ size = PAGE_SIZE + 2 * KBUF_MMAP_CAPACITY

\* Mutant: the second copy starts a page early.
kbuf_vm_fault_short(pgoff) == (pgoff - 1) % (data_pages - 1)

\* Which data page a page of the mapping shows (offset 0 is the control page).
kbuf_vm_fault(pgoff) == (pgoff - 1) % data_pages

\* The byte of the ring that m->data[v] is: m->data is one page into the map.
Byte(v) == (kbuf_vm_fault(1 + (v \div PAGE_SIZE)) * PAGE_SIZE) + (v % PAGE_SIZE)

-----------------------------------------------------------------------------
(* The processes. own is the loaded value of a process's own index, n the  *)
(* clamped size, k the bytes copied, buf where the consumer copies to,     *)
(* done the bytes moved.                                                   *)

Idle == [pc |-> "start", own |-> 0, n |-> 0, k |-> 0, done |-> 0,
         buf |-> <<>>]

Init ==
  /\ head = 0 /\ tail = 0       \* kbuf_mmap_dev_alloc
  /\ data = [b \in 0..(KBUF_MMAP_CAPACITY - 1) |-> 0]
  /\ sizes \in SizeSets
  /\ prod = [Idle EXCEPT !.pc = IF ResetFirst THEN "unborn" ELSE "start"]
  /\ cons = Idle
  /\ taken = <<>>

Diff(a, b) == (a - b) % IdxMod
AtMost(a, b) == IF a <= b THEN a ELSE b
Offset(i) == i % KBUF_MMAP_CAPACITY        \* i & (cap - 1), cap a power of two

\* Mutant: one byte too many.
Space_plus(h, t) == (KBUF_MMAP_CAPACITY + 1 - Diff(h, t)) % IdxMod

\* size_t arithmetic.
Space(h, t) == (KBUF_MMAP_CAPACITY - Diff(h, t)) % IdxMod

\* The loops of both programs: call again until Total bytes are done.
Again(done) == [Idle EXCEPT !.pc = IF done < Total THEN "load" ELSE "done",
                            !.done = done]

kbuf_map_open(pc) == /\ pc = "start"
                     /\ kbuf_mmap(0, PAGE_SIZE + 2 * KBUF_MMAP_CAPACITY)

\* The producer maps the ring itself or has inherited the parent's mapping.
ProducerMap ==
  /\ kbuf_map_open(prod.pc)
  /\ prod' = Again(prod.done)
  /\ UNCHANGED <<head, tail, data, sizes, cons, taken>>

kbuf_map_write_load ==
  /\ prod.pc = "load"
  /\ prod' = [prod EXCEPT !.pc = "clamp", !.own = head]
  /\ UNCHANGED <<head, tail, data, sizes, cons, taken>>

\* Mutant: head is published before the bytes are there.
kbuf_map_write_clamp_early ==
  /\ prod.pc = "clamp"
  /\ \E s \in sizes :
       LET n == AtMost(s, Space(prod.own, tail))
       IN /\ prod' = IF n = 0 THEN Again(prod.done)
                     ELSE [prod EXCEPT !.pc = "copy", !.n = n]
          /\ head' = (prod.own + n) % IdxMod
  /\ UNCHANGED <<tail, data, sizes, cons, taken>>

\* Mutant: a write that does not fit whole writes nothing.
kbuf_map_write_clamp_whole ==
  /\ prod.pc = "clamp"
  /\ \E s \in sizes :
       prod' = IF s > Space(prod.own, tail) THEN Again(prod.done)
               ELSE [prod EXCEPT !.pc = "copy", !.n = s]
  /\ UNCHANGED <<head, tail, data, sizes, cons, taken>>

kbuf_map_write_clamp ==
  /\ prod.pc = "clamp"
  /\ \E s \in sizes :
       LET n == AtMost(s, Space(prod.own, tail))
       IN prod' = IF n = 0 THEN Again(prod.done)
                  ELSE [prod EXCEPT !.pc = "copy", !.n = n]
  /\ UNCHANGED <<head, tail, data, sizes, cons, taken>>

\* memcpy, a byte at a time: the producer sends its stream 1, 2, 3, ...
kbuf_map_write_copy ==
  /\ prod.pc = "copy" /\ prod.k < prod.n
  /\ data' = [data EXCEPT ![Byte(Offset(prod.own) + prod.k)] = prod.done + prod.k + 1]
  /\ prod' = [prod EXCEPT !.k = @ + 1]
  /\ UNCHANGED <<head, tail, sizes, cons, taken>>

kbuf_map_write_publish ==
  /\ prod.pc = "copy" /\ prod.k = prod.n
  /\ head' = (prod.own + prod.n) % IdxMod
  /\ prod' = Again(prod.done + prod.n)
  /\ UNCHANGED <<tail, data, sizes, cons, taken>>

-----------------------------------------------------------------------------
(* The consumer, the parent of the producer's process.                     *)

ConsumerMap ==
  /\ kbuf_map_open(cons.pc)
  /\ cons' = [cons EXCEPT !.pc = "reset"]
  /\ UNCHANGED <<head, tail, data, sizes, prod, taken>>

\* Two relaxed stores. With ResetFirst the fork comes after them.
kbuf_map_reset ==
  /\ \/ /\ cons.pc \in {"reset", "reset_head"} /\ head' = 0 /\ UNCHANGED tail
        /\ cons' = IF cons.pc = "reset" THEN [cons EXCEPT !.pc = "reset_tail"] ELSE Again(0)
     \/ /\ cons.pc \in {"reset", "reset_tail"} /\ tail' = 0 /\ UNCHANGED head
        /\ cons' = IF cons.pc = "reset" THEN [cons EXCEPT !.pc = "reset_head"] ELSE Again(0)
  /\ prod' = IF prod.pc = "unborn" /\ cons.pc # "reset" THEN Idle ELSE prod
  /\ UNCHANGED <<data, sizes, taken>>

kbuf_map_read_load ==
  /\ cons.pc = "load"
  /\ cons' = [cons EXCEPT !.pc = "clamp", !.own = tail]
  /\ UNCHANGED <<head, tail, data, sizes, prod, taken>>

kbuf_map_read_clamp ==
  /\ cons.pc = "clamp"
  /\ \E s \in sizes :
       LET n == AtMost(s, Diff(head, cons.own))
       IN cons' = IF n = 0 THEN Again(cons.done)
                  ELSE [cons EXCEPT !.pc = "copy", !.n = n]
  /\ UNCHANGED <<head, tail, data, sizes, prod, taken>>

kbuf_map_read_copy ==
  /\ cons.pc = "copy" /\ cons.k < cons.n
  /\ cons' = [cons EXCEPT !.k = @ + 1,
                          !.buf = Append(@, data[Byte(Offset(cons.own) + cons.k)])]
  /\ UNCHANGED <<head, tail, data, sizes, prod, taken>>

kbuf_map_read_publish ==
  /\ cons.pc = "copy" /\ cons.k = cons.n
  /\ tail' = (cons.own + cons.n) % IdxMod
  /\ taken' = taken \o cons.buf
  /\ cons' = Again(cons.done + cons.n)
  /\ UNCHANGED <<head, data, sizes, prod>>

Producer ==
  \/ ProducerMap \/ kbuf_map_write_load \/ kbuf_map_write_clamp
  \/ kbuf_map_write_copy \/ kbuf_map_write_publish
Consumer ==
  \/ ConsumerMap \/ kbuf_map_reset \/ kbuf_map_read_load \/ kbuf_map_read_clamp
  \/ kbuf_map_read_copy \/ kbuf_map_read_publish

\* Both programs end; the stopped system is not a deadlock.
Finished == prod.pc = "done" /\ cons.pc = "done" /\ UNCHANGED vars

Next == Producer \/ Consumer \/ Finished

Spec == Init /\ [][Next]_vars

\* Both processes spin until they are done, and both are scheduled.
FairSpec == Spec /\ WF_vars(Producer) /\ WF_vars(Consumer)

-----------------------------------------------------------------------------
(* What must hold.                                                         *)

\* The bytes of the ring a copy in progress still has to touch.
Pending(c) == {Byte(Offset(c.own) + j) : j \in c.k..(c.n - 1)}

\* The producer's memcpy touches only bytes that hold nothing unread and that
\* the consumer is not copying; the consumer's touches only published bytes
\* (libkbuf.h 70-80, 88-98).
CopiesApart ==
  LET unread == {Byte(Offset(tail) + j) : j \in 0..(Diff(head, tail) - 1)}
  IN /\ prod.pc = "copy" => Pending(prod) \cap unread = {}
     /\ cons.pc = "copy" => Pending(cons) \subseteq unread

\* The ring behaves as a bounded FIFO of bytes, across the wrap of the ring,
\* of the two mapped copies and of the indices: what is read is the
\* producer's stream, in order, without loss, at every moment.
Fifo == INSTANCE KbufByteFifo WITH
  Capacity <- KBUF_MMAP_CAPACITY,
  queue <- [j \in 1..Diff(head, tail) |-> data[Byte(Offset(tail) + j - 1)]],
  written <- prod.done,
  taken <- taken

ImplementsByteFifo == Fifo!FifoSpec

\* When everybody moves records of one size that divides the capacity, every
\* write and read moves a whole record or nothing; latency() relies on it and
\* looks only for zero (kbuf_bench.c 345-353).
WholeRecords ==
  \A c \in sizes : sizes = {c} /\ KBUF_MMAP_CAPACITY % c = 0 =>
    prod.n \in {0, c} /\ cons.n \in {0, c}

\* Inductive when the ring is reset before the producer starts. The indices
\* are the numbers of bytes moved so far, the two copies in progress stay
\* within one capacity of each other, and position s of the producer's stream
\* lies at s % KBUF_MMAP_CAPACITY from its copy in until its copy out.
StreamInv ==
  /\ head = prod.done % IdxMod /\ tail = cons.done % IdxMod
  /\ cons.done + cons.n <= prod.done
  /\ prod.done + prod.n <= cons.done + KBUF_MMAP_CAPACITY
  /\ prod.k <= prod.n /\ cons.k <= cons.n
  /\ prod.pc \in {"clamp", "copy"} => prod.own = head
  /\ cons.pc \in {"clamp", "copy"} => cons.own = tail
  /\ prod.pc # "copy" => prod.n = 0
  /\ cons.pc # "copy" => cons.n = 0
  /\ cons.pc \in {"start", "reset", "reset_head", "reset_tail"} =>
       prod.pc = "unborn" /\ prod.done = 0
  /\ \A s \in cons.done..(prod.done + prod.k - 1) : data[s % KBUF_MMAP_CAPACITY] = s + 1
  /\ cons.buf = [j \in 1..cons.k |-> cons.done + j]
  /\ taken = [j \in 1..cons.done |-> j]

\* A run moves its Total bytes and both processes end ("returns seconds to
\* move @total bytes", kbuf_bench.c 166).
RunMovesTotal == <>(prod.pc = "done" /\ cons.pc = "done")
=============================================================================
