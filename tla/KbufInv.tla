------------------------------- MODULE KbufInv -------------------------------
(***************************************************************************)
(* The strengthenings that make the invariants of KbufDevice inductive.    *)
(* They are checked by TLC; WakeupInv is proved in KbufDeviceProofs,       *)
(* QueueInv, StatsInv and ClampInv in KbufQueueProofs.                     *)
(***************************************************************************)
EXTENDS KbufDevice

\* The device runs, or may be switched to, the lock-free discipline.
SpscUsed == "spsc" \in InitModes \/ "SMODE" \in Ops

\* What the SPSC discipline asks of its callers: no I/O while SMODE switches
\* (kbuf_ioctl.c 133-137), a single producer and a single consumer (kbuf_ring.c
\* 124-133); and what the code asks of nobody but needs, no I/O beside a RESIZE
\* of an SPSC device (the run spsc_resize shows what happens otherwise).
Contract ==
  /\ Quiesce
  /\ SpscUsed => /\ \A r, s \in Readers : r = s
                 /\ \A w, v \in Writers : w = v
  /\ SpscUsed /\ "RESIZE" \in Ops => ResizeApart

BlockingPc == {"b_lock", "b_relock", "b_check", "b_copy", "b_commit"}
SpscPc == {"s_check", "s_slot", "s_copy", "s_publish", "s_load", "s_store", "s_peak"}

\* Under the contract the discipline that a call was dispatched to
\* (READ_ONCE(dev->mode) in kbuf_read, kbuf_write, kbuf_poll) is still in force
\* at every later step of the call, SMODE never meets a call in flight, and a
\* device that nobody may switch stays in blocking mode.
ContractInv ==
  /\ Switching => ~IoInFlight
  /\ \A c \in Ctls : arg[c].op = "SMODE" => arg[c].switching /\ "SMODE" \in Ops
  /\ mode = "spsc" => SpscUsed
  /\ \A p \in IoThreads :
       /\ pc[p] # "idle" => lmode[p] = mode
       /\ pc[p] \in BlockingPc => lmode[p] = "blocking"
       /\ pc[p] \in SpscPc => lmode[p] = "spsc"
  /\ \A p \in Pollers :
       /\ pc[p] = "p_lock" => mode = "blocking"
       /\ pc[p] \in {"p_load", "p_eval"} => mode = "spsc"

\* The result of the check in the while loop still holds when the ring is
\* changed: kbuf_ring_consume never runs on an empty ring, kbuf_ring_produce
\* never on a full one, and count stays within the capacity.
SectionInv ==
  /\ count \in 0..num_buffers
  /\ \A r \in Readers : pc[r] \in {"b_copy", "b_commit"} => count # 0
  /\ \A w \in Writers : pc[w] \in {"b_copy", "b_commit"} => count # num_buffers

\* A poller between its two loads, not triggered and with no wake-up on its
\* way, has loaded the producer index that is still current.
PollLoadInv ==
  \A p \in Pollers :
    pc[p] = "p_eval" /\ p \notin triggered =>
      \/ pval[p] = prod_idx
      \/ \E q \in IoThreads : WakePending(q)
      \/ \E c \in Ctls : pc[c] = "c_wake"

\* Inductive together with TypeOK and MutexDiscipline.
WakeupInv ==
  ContractInv /\ SectionInv /\ PollLoadInv /\ NoLostWakeup /\ NoLostPollWakeup

-----------------------------------------------------------------------------
(* The queue of messages.                                                  *)

\* Nobody may switch the discipline while another caller is inside RESIZE,
\* which has tested the geometry against the discipline before it takes the
\* lock (kbuf_ioctl.c 75-89).
SoleSwitcher == {"RESIZE", "SMODE"} \subseteq Ops => \A c, d \in Ctls : c = d

\* A RESIZE in progress was validated against the discipline still in force.
GeometryInv ==
  /\ SpscPowerOfTwo
  /\ \A c \in Ctls : arg[c].op = "RESIZE" =>
       /\ "RESIZE" \in Ops
       /\ arg[c].switching <=> mode = "spsc"
       /\ mode = "spsc" => is_power_of_2(arg[c].num_buffers)

\* What RESIZE and SMODE have loaded for their emptiness test is still current
\* when they test it, although kbuf_occupancy makes two separate loads.
OccupancyInv ==
  \A c \in Ctls :
    pc[c] = "c_body" /\ arg[c].op \in {"RESIZE", "SMODE"} =>
      occ[c] = IF mode = "spsc" THEN prod_idx ELSE count

\* The two positions and the two indices enclose at most a full ring.
RingInv ==
  /\ write_pos = (read_pos + count) % num_buffers
  /\ IdxDiff(prod_idx, cons_idx) <= num_buffers

\* From its copy to its update of the ring a reader works on the oldest
\* message.
Took(r, i) == msg[r] = slots[i].data /\ cnt[r] <= slots[i].len
ReadOk(r) ==
  /\ pc[r] = "b_commit" => Took(r, read_pos)
  /\ pc[r] \in {"s_slot", "s_copy", "s_publish"} => ~kbuf_spsc_is_empty
  /\ pc[r] \in {"s_copy", "s_publish"} =>
       /\ idx[r] = cons_idx
       /\ ptr[r] = [arr |-> arr, slot |-> Masked(cons_idx)]
  /\ pc[r] = "s_publish" => Took(r, Masked(cons_idx))

\* From its copy to its update of the ring a writer works on the first free
\* slot; an SPSC writer's count fits the slot from the clamp on.
WriteOk(w) ==
  /\ pc[w] = "b_commit" => slots[write_pos].data = msg[w]
  /\ pc[w] \in {"s_slot", "s_copy", "s_publish"} => ~kbuf_spsc_is_full
  /\ pc[w] \in {"s_copy", "s_publish"} =>
       /\ idx[w] = prod_idx
       /\ ptr[w] = [arr |-> arr, slot |-> Masked(prod_idx)]
  /\ pc[w] = "s_publish" =>
       slots[Masked(prod_idx)] = [data |-> msg[w], len |-> cnt[w]]
  /\ pc[w] \in {"s_load", "s_store", "s_peak"} => IdxNext(idx[w]) = prod_idx
  /\ pc[w] # "idle" => msg[w] \in 1..MaxMsgs
  /\ pc[w] # "idle" /\ lmode[w] = "spsc" => cnt[w] <= buffer_size
  /\ pc[w] \notin {"idle", "b_lock"} => cnt[w] <= KBUF_MAX_BUFFER_SIZE

CallInv == (\A r \in Readers : ReadOk(r)) /\ (\A w \in Writers : WriteOk(w))

\* Inductive together with TypeOK, MutexDiscipline and WakeupInv.
QueueInv ==
  /\ GeometryInv /\ OccupancyInv /\ RingInv /\ CallInv
  /\ FifoOrder /\ PeakBounds
  /\ \A i \in 1..Len(sent) : sent[i].len <= KBUF_MAX_BUFFER_SIZE
  /\ nextMsg > 0

\* RESET does not meet the unlocked counters of the SPSC discipline.
ResetsApart == "RESET" \in Ops => ~SpscUsed

\* The counter that an SPSC call is about to store over is the one it loaded.
StatsInv ==
  /\ StatsAccount
  /\ \A r \in Readers : pc[r] = "s_store" => val[r] = msgs_consumed
  /\ \A w \in Writers : pc[w] = "s_store" => val[w] = msgs_produced
  /\ \A c \in Ctls : arg[c].op = "RESET" => "RESET" \in Ops

\* RESIZE never makes the slots smaller: all requests are for one size, no
\* smaller than the default.
SlotsNeverShrink ==
  "RESIZE" \in Ops =>
    \A s \in BufferSizeReqs : \A t \in BufferSizeReqs \cup {KBUF_DEFAULT_BUFFER_SIZE} : t <= s

\* From the clamp on a writer's count fits the slots, and every RESIZE under
\* way makes slots that are no smaller.
ClampInv ==
  /\ \A w \in Writers : pc[w] \notin {"idle", "b_lock"} => cnt[w] <= buffer_size
  /\ "RESIZE" \in Ops => \A s \in BufferSizeReqs : buffer_size <= s
  /\ \A c \in Ctls : arg[c].op = "RESIZE" =>
       "RESIZE" \in Ops /\ arg[c].buffer_size \in BufferSizeReqs
=============================================================================
