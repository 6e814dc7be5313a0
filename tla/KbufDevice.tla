------------------------------ MODULE KbufDevice ------------------------------
(***************************************************************************)
(* The whole device: read and write dispatched to the discipline in force, *)
(* poll, and the ioctls, interleaved over any number of threads. The       *)
(* properties the two disciplines must keep are stated here.               *)
(***************************************************************************)
EXTENDS KbufBlocking, KbufSpsc, KbufPoll, KbufIoctl

\* READ_ONCE(dev->mode) picks the discipline for the whole call.
kbuf_read(r) ==
  /\ pc[r] = "idle"
  /\ IoAllowed
  /\ \E n \in ReadCounts, nb \in NonblockReqs :
       /\ cnt' = [cnt EXCEPT ![r] = n]
       /\ nonblock' = [nonblock EXCEPT ![r] = nb]
  /\ lmode' = [lmode EXCEPT ![r] = mode]
  /\ Goto(r, IF mode = "spsc" THEN "s_check" ELSE "b_lock")
  /\ UNCHANGED <<devVars, lock, waitVars, msg, idx, ptr, val, pollVars, ctlVars,
                 histVars>>

\* kbuf_write_spsc clamps the count on entry, kbuf_write_blocking under the
\* mutex.
kbuf_write(w) ==
  /\ pc[w] = "idle"
  /\ IoAllowed
  /\ nextMsg <= MaxMsgs
  /\ \E n \in WriteCounts, nb \in NonblockReqs :
       /\ cnt' = [cnt EXCEPT ![w] =
                    IF mode = "spsc" THEN AtMost(n, buffer_size) ELSE n]
       /\ nonblock' = [nonblock EXCEPT ![w] = nb]
  /\ lmode' = [lmode EXCEPT ![w] = mode]
  /\ msg' = [msg EXCEPT ![w] = nextMsg]
  /\ nextMsg' = nextMsg + 1
  /\ Goto(w, IF mode = "spsc" THEN "s_check" ELSE "b_lock")
  /\ UNCHANGED <<devVars, lock, waitVars, idx, ptr, val, pollVars, ctlVars, sent,
                 delivered, base>>

\* Mutant: wakes the queue of its own side.
kbuf_read_wake_own(r) ==
  /\ pc[r] = "wake"
  /\ wake_up_readers
  /\ Return(r)
  /\ UNCHANGED <<devVars, lock, pollVars, ctlVars, histVars>>

\* wake_up_interruptible(&dev->write_wq) after a read.
kbuf_read_wake(r) ==
  /\ pc[r] = "wake"
  /\ wake_up_writers
  /\ Return(r)
  /\ UNCHANGED <<devVars, lock, pollVars, ctlVars, histVars>>

\* Mutant: wakes the queue of its own side.
kbuf_write_wake_own(w) ==
  /\ pc[w] = "wake"
  /\ wake_up_writers
  /\ Return(w)
  /\ UNCHANGED <<devVars, lock, pollVars, ctlVars, histVars>>

\* wake_up_interruptible(&dev->read_wq) after a write.
kbuf_write_wake(w) ==
  /\ pc[w] = "wake"
  /\ wake_up_readers
  /\ Return(w)
  /\ UNCHANGED <<devVars, lock, pollVars, ctlVars, histVars>>

-----------------------------------------------------------------------------
\* What the kernel does to a call in progress that nobody may expect.
Interrupt(p) == kbuf_blocking_lock_signal(p) \/ wait_event_signal(p)
ReadFault(r) == kbuf_ring_consume_fault(r) \/ kbuf_spsc_consume_fault(r)
WriteFault(w) == kbuf_ring_produce_fault(w) \/ kbuf_spsc_produce_fault(w)

ReadLock(r) == kbuf_read_blocking_lock(r)
WriteLock(w) == kbuf_write_blocking_lock(w) \/ kbuf_write_blocking_relock(w)

WaitStep(p) == prepare_to_wait(p) \/ wait_event_test(p) \/ wait_event_woken(p)

ReadCopy(r) == kbuf_ring_consume_copy(r) \/ kbuf_spsc_consume_copy(r)
WriteCopy(w) == kbuf_ring_produce_copy(w) \/ kbuf_spsc_produce_copy(w)

ReadStep(r) ==
  \/ kbuf_read_blocking_check(r)
  \/ kbuf_ring_consume_commit(r)
  \/ kbuf_read_spsc_check(r)
  \/ kbuf_spsc_consume_slot(r)
  \/ kbuf_spsc_consume_publish(r)
  \/ kbuf_spsc_consume_count_load(r)
  \/ kbuf_spsc_consume_count_store(r)
  \/ kbuf_read_wake(r)
  \/ WaitStep(r)

WriteStep(w) ==
  \/ kbuf_write_blocking_check(w)
  \/ kbuf_ring_produce_commit(w)
  \/ kbuf_write_spsc_check(w)
  \/ kbuf_spsc_produce_slot(w)
  \/ kbuf_spsc_produce_publish(w)
  \/ kbuf_spsc_produce_count_load(w)
  \/ kbuf_spsc_produce_count_store(w)
  \/ kbuf_spsc_produce_peak(w)
  \/ kbuf_write_wake(w)
  \/ WaitStep(w)

PollLock(p) == kbuf_poll_blocking(p)

PollStep(p) ==
  \/ kbuf_poll_dispatch(p)
  \/ kbuf_poll_spsc_load(p)
  \/ kbuf_poll_spsc(p)
  \/ poll_woken(p)

CtlStep(c) ==
  \/ kbuf_occupancy_load(c)
  \/ kbuf_ioc_getstats(c)
  \/ kbuf_ioc_reset(c)
  \/ kbuf_ioc_refuse(c)
  \/ kbuf_ioc_resize(c)
  \/ kbuf_ioc_resize_wake(c)
  \/ kbuf_ioc_smode(c)

\* Which calls are made when is up to the callers (IoAllowed likewise, for
\* read, write and poll).
CtlCall(c) ==
  \/ kbuf_ioc_stats_call(c)
  \/ SwitchAllowed /\ kbuf_ioc_smode_call(c)
  \/ ResizeAllowed /\ kbuf_ioc_resize_call(c)

ReaderNext(r) == \/ kbuf_read(r) \/ ReadLock(r) \/ ReadCopy(r) \/ ReadStep(r)
                 \/ Interrupt(r) \/ ReadFault(r)
WriterNext(w) == \/ kbuf_write(w) \/ WriteLock(w) \/ WriteCopy(w) \/ WriteStep(w)
                 \/ Interrupt(w) \/ WriteFault(w)
PollerNext(p) == poll_call(p) \/ PollLock(p) \/ PollStep(p) \/ poll_timeout(p)
CtlNext(c) == CtlCall(c) \/ kbuf_ioctl_lock(c) \/ CtlStep(c)

Next == \/ \E r \in Readers : ReaderNext(r)
        \/ \E w \in Writers : WriterNext(w)
        \/ \E p \in Pollers : PollerNext(p)
        \/ \E c \in Ctls : CtlNext(c)

Spec == Init /\ [][Next]_vars

\* A thread inside a system call is scheduled whenever it can run, and the
\* kernel mutex hands over to its waiters instead of starving them. Nothing
\* makes a thread enter a call, a signal arrive or a copy fault.
Fairness ==
  /\ \A r \in Readers : /\ WF_vars(ReadStep(r)) /\ WF_vars(ReadCopy(r))
                        /\ SF_vars(ReadLock(r))
  /\ \A w \in Writers : /\ WF_vars(WriteStep(w)) /\ WF_vars(WriteCopy(w))
                        /\ SF_vars(WriteLock(w))
  /\ \A p \in Pollers : WF_vars(PollStep(p)) /\ SF_vars(PollLock(p))
  /\ \A c \in Ctls : WF_vars(CtlStep(c)) /\ SF_vars(kbuf_ioctl_lock(c))

LiveSpec == Spec /\ Fairness

\* Readers keep calling read, and not every copy of theirs faults.
Served == \A r \in Readers : SF_vars(kbuf_read(r)) /\ SF_vars(ReadCopy(r))

-----------------------------------------------------------------------------
(* Types.                                                                  *)

\* struct kbuf_dev (kbuf_internal.h 54-108): the slot array has exactly
\* num_buffers slots.
DevType ==
  /\ num_buffers \in 1..KBUF_MAX_NUM_BUFFERS
  /\ buffer_size \in 1..KBUF_MAX_BUFFER_SIZE
  /\ slots \in [0..(num_buffers - 1) -> Slot]
  /\ arr \in {0, 1}
  /\ mode \in Modes
  /\ read_pos \in 0..(num_buffers - 1) /\ write_pos \in 0..(num_buffers - 1)
  /\ count \in Int
  /\ prod_idx \in 0..(IdxMod - 1) /\ cons_idx \in 0..(IdxMod - 1)
  /\ peak_count \in Int /\ msgs_produced \in Nat /\ msgs_consumed \in Nat

SyncType ==
  /\ lock \in Threads \cup {NoThread}
  /\ read_wq \subseteq Readers /\ write_wq \subseteq Writers
  /\ triggered \subseteq Pollers

PcType ==
  /\ pc \in [Threads -> IoPc \cup PollPc \cup CtlPc]
  /\ \A p \in IoThreads : pc[p] \in IoPc
  /\ \A p \in Pollers : pc[p] \in PollPc
  /\ \A c \in Ctls : pc[c] \in CtlPc

LocType ==
  /\ nonblock \in [IoThreads -> BOOLEAN] /\ lmode \in [IoThreads -> Modes]
  /\ cnt \in [IoThreads -> Nat] /\ msg \in [IoThreads -> Nat]
  /\ idx \in [IoThreads -> Nat] /\ val \in [IoThreads -> Nat]
  /\ ptr \in [IoThreads -> Pointer]

CallType ==
  /\ want \in [Pollers -> {"in", "out"}] /\ pval \in [Pollers -> Nat]
  /\ arg \in [Ctls -> Arg] /\ occ \in [Ctls -> Int]
  /\ \A c \in Ctls : arg[c].op = "RESIZE" =>
       /\ arg[c].num_buffers \in 1..KBUF_MAX_NUM_BUFFERS
       /\ arg[c].buffer_size \in 1..KBUF_MAX_BUFFER_SIZE

HistType ==
  /\ sent \in Seq(Message) /\ delivered \in Seq(Message)
  /\ base \in [sent : Nat, delivered : Nat]
  /\ nextMsg \in Nat

\* Every field of the device and every local keeps its type, and positions,
\* indices and the slot array keep fitting the geometry, whatever the threads
\* do and whether or not callers keep the SPSC contract.
TypeOK == DevType /\ SyncType /\ PcType /\ LocType /\ CallType /\ HistType

-----------------------------------------------------------------------------
(* The mutex and the wait queues.                                          *)

\* The code between a mutex_lock and its mutex_unlock.
Holds(p) == pc[p] \in {"b_check", "b_copy", "b_commit", "c_occ", "c_body"}

\* The mutex is owned by p exactly while p is inside its locked section: two
\* threads are never inside together, and no path out of a section (-EAGAIN,
\* -EFAULT, -ERESTARTSYS, -EBUSY, going to sleep) keeps the mutex, the two
\* failures docs/DEBUGGING.md 1 and 2 record.
MutexDiscipline == \A p \in Threads : Holds(p) <=> lock = p

\* A call that has changed the ring and still owes the other side a wake-up.
WakePending(p) == pc[p] \in {"s_load", "s_store", "s_peak", "wake"}

Asleep(p) == pc[p] = "sleep" /\ Queued(p)

PollReady(p) ==
  IF want[p] = "in"
  THEN IF mode = "spsc" THEN ~kbuf_spsc_is_empty ELSE ~kbuf_ring_is_empty
  ELSE IF mode = "spsc" THEN ~kbuf_spsc_is_full ELSE ~kbuf_ring_is_full

\* No wake-up is lost: a thread sleeps with its condition true only while the
\* call that made it true is still on its way to the wake_up_interruptible
\* (check-sleep-recheck in kbuf_read_blocking, kbuf_write_blocking,
\* kbuf_read_spsc, kbuf_write_spsc; the wake-up of kbuf_ioc_resize).
NoLostWakeup ==
  /\ \A r \in Readers : Asleep(r) /\ Ready(r) => \E w \in Writers : WakePending(w)
  /\ \A w \in Writers : Asleep(w) /\ Ready(w) =>
       (\E r \in Readers : WakePending(r)) \/ (\E c \in Ctls : pc[c] = "c_wake")

\* The same for poll: a poller that sleeps untriggered although its event
\* holds is about to be triggered by the call that made it hold (kbuf_poll
\* hooks on both queues before it looks, also in SPSC mode, where it looks
\* through two separate loads).
NoLostPollWakeup ==
  \A p \in Pollers :
    pc[p] = "p_sleep" /\ p \notin triggered /\ PollReady(p) =>
      \/ \E q \in IoThreads : WakePending(q)
      \/ \E c \in Ctls : pc[c] = "c_wake"

-----------------------------------------------------------------------------
(* The queue of messages.                                                  *)

Contents == [i \in 1..Depth |-> [msg |-> slots[SlotAt(i - 1)].data,
                                 len |-> slots[SlotAt(i - 1)].len]]

\* Nothing is lost, duplicated, reordered or corrupted: what read handed out
\* is, message by message, what write accepted, cut to the reader's count,
\* and the ring holds exactly the rest in order. Both disciplines, across
\* RESIZE, SMODE, RESET, faults and signals (kbuf_ring.c).
FifoOrder ==
  /\ Depth \in 0..num_buffers
  /\ Len(sent) = Len(delivered) + Depth
  /\ \A i \in 1..Len(delivered) : /\ delivered[i].msg = sent[i].msg
                                  /\ delivered[i].len <= sent[i].len
  /\ \A i \in 1..Depth : Contents[i] = sent[Len(delivered) + i]

\* The device implements the bounded FIFO: every step of every thread is one
\* step of it or leaves it alone, with kbuf_ring_consume/produce and the two
\* index publications as the only places where the queue changes.
Fifo == INSTANCE KbufFifo WITH
  Msgs <- 1..MaxMsgs, Lens <- 0..KBUF_MAX_BUFFER_SIZE,
  Capacities <- 1..KBUF_MAX_NUM_BUFFERS,
  queue <- Contents, capacity <- num_buffers, in <- sent, out <- delivered

ImplementsFifo == Fifo!FifoSpec

\* "A slot is never overwritten while still being read" (docs/DESIGN.md
\* 165-167): the SPSC reader and writer are never inside a copy of one slot.
SlotExclusive ==
  \A r \in Readers, w \in Writers :
    pc[r] = "s_copy" /\ pc[w] = "s_copy" => ptr[r].slot # ptr[w].slot

\* SPSC masks indices with num_buffers - 1, so the capacity is a power of two
\* whenever that mode is on ("enforced by SMODE and RESIZE", docs/DESIGN.md
\* 159).
SpscPowerOfTwo == mode = "spsc" => is_power_of_2(num_buffers)

\* kbuf_ring_produce's contract (kbuf_ring.c 98-100): the caller "has clamped
\* @count to dev->buffer_size".
ProduceClamped ==
  \A w \in Writers : pc[w] \in {"b_copy", "b_commit"} => cnt[w] <= buffer_size

\* The same for kbuf_spsc_produce: the clamp that kbuf_write_spsc makes on
\* entry, on the ground that "buffer_size is stable in SPSC mode" (kbuf_main.c
\* 209), still holds at the copy.
SpscClamped ==
  \A w \in Writers : pc[w] = "s_copy" => cnt[w] <= buffer_size

\* "This is the only policy that never loses data the caller hasn't
\* acknowledged" (docs/DESIGN.md 91-92): RESIZE replaces the ring only when it
\* holds no message. In SPSC mode kbuf_occupancy finds out through two loads,
\* under a mutex that stops neither side (kbuf_ring.c 191-196, kbuf_ioctl.c 96).
ResizeKeepsMessages == [][arr' # arr => Depth = 0]_vars

-----------------------------------------------------------------------------
(* Statistics.                                                             *)

\* The high-water mark never exceeds the capacity, across RESIZE and SMODE,
\* and in blocking mode is never below the depth (struct kbuf_stats,
\* kbuf.h 31-47).
PeakBounds == /\ peak_count \in 0..num_buffers
              /\ mode = "blocking" => count <= peak_count

\* RESET "sets peak_count to the current depth" (docs/DESIGN.md 98-99,
\* kbuf_ioctl.c 8): on a device nobody else is using at that moment, the step
\* that zeroes the counters leaves the high-water mark at the number of
\* messages in the ring.
ResetPeakIsDepth ==
  [][\A c \in Ctls :
       /\ arg[c].op = "RESET" /\ pc[c] = "c_body" /\ pc'[c] = "idle"
       /\ ~IoInFlight
       => peak_count' = Depth]_vars

\* The message counters count every accepted write and every delivered read
\* since the last RESET exactly once; an SPSC call counts its message a little
\* after it published it (kbuf_ring.c 112-119, 155-165, 180-183).
StatsAccount ==
  LET late(S) == Cardinality({p \in S : pc[p] \in {"s_load", "s_store"}}) IN
  /\ msgs_produced + base.sent + late(Writers) = Len(sent)
  /\ msgs_consumed + base.delivered + late(Readers) = Len(delivered)

-----------------------------------------------------------------------------
(* Progress.                                                               *)

\* The only reader sleeping on a ring that holds a message leaves read()
\* (wake-up, mutex, recheck: kbuf_main.c 107-129, 140-155).
ReaderServed ==
  \A r \in Readers : (pc[r] = "sleep" /\ Ready(r)) ~> (pc[r] = "idle")

\* The only writer sleeping on a ring that has room leaves write().
WriterServed ==
  \A w \in Writers : (pc[w] = "sleep" /\ Ready(w)) ~> (pc[w] = "idle")

\* A poller whose event holds returns, or the event is taken away again.
PollerServed ==
  \A p \in Pollers :
    (pc[p] = "p_sleep" /\ PollReady(p)) ~> (pc[p] = "idle" \/ ~PollReady(p))

\* While readers keep calling, every message write() accepted is delivered,
\* whatever calls fault, time out or are interrupted: write wakes the reader
\* (kbuf_main.c 197-200, 222-225), who checks again (108-120, 139-148).
EveryMessageDelivered ==
  Served => \A k \in 1..MaxMsgs : (Len(sent) >= k) ~> (Len(delivered) >= k)

\* No thread waits for the mutex for ever: whoever holds it lets go.
MutexReleased == \A p \in Threads : (lock = p) ~> (lock # p)
=============================================================================
