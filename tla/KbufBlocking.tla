----------------------------- MODULE KbufBlocking -----------------------------
(***************************************************************************)
(* The blocking discipline: kbuf_read_blocking and kbuf_write_blocking     *)
(* with kbuf_ring_consume and kbuf_ring_produce. A call is split where     *)
(* other threads can come between: taking the mutex, the test of the ring, *)
(* the copy to or from user memory (which may fault), the update of the    *)
(* ring with the release of the mutex, and the wake-up after it.           *)
(***************************************************************************)
EXTENDS KbufDev

\* mutex_lock_interruptible gives up on a signal while it has to wait.
kbuf_blocking_lock_signal(p) ==
  /\ pc[p] \in {"b_lock", "b_relock"}
  /\ lock # NoThread
  /\ Return(p)
  /\ UNCHANGED <<devVars, lock, waitVars, pollVars, ctlVars, histVars>>

kbuf_read_blocking_lock(r) ==
  /\ pc[r] \in {"b_lock", "b_relock"}
  /\ mutex_lock(r)
  /\ Goto(r, "b_check")
  /\ UNCHANGED <<devVars, waitVars, locVars, pollVars, ctlVars, histVars>>

\* Mutant: sleeps with the mutex held.
kbuf_read_blocking_check_locked(r) ==
  /\ pc[r] = "b_check"
  /\ \/ /\ kbuf_ring_is_empty /\ nonblock[r]
        /\ mutex_unlock(r) /\ Return(r)
     \/ /\ kbuf_ring_is_empty /\ ~nonblock[r]
        /\ Goto(r, "wait")
        /\ UNCHANGED <<lock, locVars>>
     \/ /\ ~kbuf_ring_is_empty
        /\ Goto(r, "b_copy")
        /\ UNCHANGED <<lock, locVars>>
  /\ UNCHANGED <<devVars, waitVars, pollVars, ctlVars, histVars>>

\* The while loop: an empty ring means -EAGAIN or a sleep with the mutex
\* dropped, otherwise the message is taken.
kbuf_read_blocking_check(r) ==
  /\ pc[r] = "b_check"
  /\ \/ /\ kbuf_ring_is_empty
        /\ nonblock[r]
        /\ mutex_unlock(r)
        /\ Return(r)
     \/ /\ kbuf_ring_is_empty
        /\ ~nonblock[r]
        /\ mutex_unlock(r)
        /\ Goto(r, "wait")
        /\ UNCHANGED locVars
     \/ /\ ~kbuf_ring_is_empty
        /\ Goto(r, "b_copy")
        /\ UNCHANGED <<lock, locVars>>
  /\ UNCHANGED <<devVars, waitVars, pollVars, ctlVars, histVars>>

\* copy_to_user of at most the caller's count.
kbuf_ring_consume_copy(r) ==
  /\ pc[r] = "b_copy"
  /\ LET slot == slots[read_pos] IN
       /\ msg' = [msg EXCEPT ![r] = slot.data]
       /\ cnt' = [cnt EXCEPT ![r] = AtMost(cnt[r], slot.len)]
  /\ Goto(r, "b_commit")
  /\ UNCHANGED <<devVars, lock, waitVars, nonblock, lmode, idx, ptr, val,
                 pollVars, ctlVars, histVars>>

\* -EFAULT leaves the message in the ring, and nobody is woken.
kbuf_ring_consume_fault(r) ==
  /\ pc[r] = "b_copy"
  /\ mutex_unlock(r)
  /\ Return(r)
  /\ UNCHANGED <<devVars, waitVars, pollVars, ctlVars, histVars>>

\* Mutant: read_pos is not advanced.
kbuf_ring_consume_commit_stuck(r) ==
  /\ pc[r] = "b_commit"
  /\ count' = count - 1
  /\ msgs_consumed' = msgs_consumed + 1
  /\ delivered' = Append(delivered, [msg |-> msg[r], len |-> cnt[r]])
  /\ mutex_unlock(r)
  /\ Goto(r, "wake")
  /\ UNCHANGED <<shapeVars, read_pos, write_pos, idxVars, peak_count,
                 msgs_produced, waitVars, locVars, pollVars, ctlVars, sent, base,
                 nextMsg>>

kbuf_ring_consume_commit(r) ==
  /\ pc[r] = "b_commit"
  /\ read_pos' = (read_pos + 1) % num_buffers
  /\ count' = count - 1
  /\ msgs_consumed' = msgs_consumed + 1
  /\ delivered' = Append(delivered, [msg |-> msg[r], len |-> cnt[r]])
  /\ mutex_unlock(r)
  /\ Goto(r, "wake")
  /\ UNCHANGED <<shapeVars, write_pos, idxVars, peak_count, msgs_produced,
                 waitVars, locVars, pollVars, ctlVars, sent, base, nextMsg>>

-----------------------------------------------------------------------------
\* The count is clamped to buffer_size once, before the loop that may sleep.
kbuf_write_blocking_lock(w) ==
  /\ pc[w] = "b_lock"
  /\ mutex_lock(w)
  /\ cnt' = [cnt EXCEPT ![w] = AtMost(cnt[w], buffer_size)]
  /\ Goto(w, "b_check")
  /\ UNCHANGED <<devVars, waitVars, nonblock, lmode, msg, idx, ptr, val,
                 pollVars, ctlVars, histVars>>

\* Mutant: the ring is not checked again after the sleep (if instead of while).
kbuf_write_blocking_relock_unchecked(w) ==
  /\ pc[w] = "b_relock"
  /\ mutex_lock(w)
  /\ Goto(w, "b_copy")
  /\ UNCHANGED <<devVars, waitVars, locVars, pollVars, ctlVars, histVars>>

kbuf_write_blocking_relock(w) ==
  /\ pc[w] = "b_relock"
  /\ mutex_lock(w)
  /\ Goto(w, "b_check")
  /\ UNCHANGED <<devVars, waitVars, locVars, pollVars, ctlVars, histVars>>

kbuf_write_blocking_check(w) ==
  /\ pc[w] = "b_check"
  /\ \/ /\ kbuf_ring_is_full
        /\ nonblock[w]
        /\ mutex_unlock(w)
        /\ Return(w)
     \/ /\ kbuf_ring_is_full
        /\ ~nonblock[w]
        /\ mutex_unlock(w)
        /\ Goto(w, "wait")
        /\ UNCHANGED locVars
     \/ /\ ~kbuf_ring_is_full
        /\ Goto(w, "b_copy")
        /\ UNCHANGED <<lock, locVars>>
  /\ UNCHANGED <<devVars, waitVars, pollVars, ctlVars, histVars>>

kbuf_ring_produce_copy(w) ==
  /\ pc[w] = "b_copy"
  /\ slots' = [slots EXCEPT ![write_pos] =
                              [data |-> msg[w], len |-> slots[write_pos].len]]
  /\ Goto(w, "b_commit")
  /\ UNCHANGED <<arr, num_buffers, buffer_size, mode, posVars, idxVars,
                 statVars, lock, waitVars, locVars, pollVars, ctlVars, histVars>>

\* -EFAULT: part of the payload may have reached the slot, which stays free.
kbuf_ring_produce_fault(w) ==
  /\ pc[w] = "b_copy"
  /\ slots' = [slots EXCEPT ![write_pos] =
                              [data |-> Garbage, len |-> slots[write_pos].len]]
  /\ mutex_unlock(w)
  /\ Return(w)
  /\ UNCHANGED <<arr, num_buffers, buffer_size, mode, posVars, idxVars,
                 statVars, waitVars, pollVars, ctlVars, histVars>>

kbuf_ring_produce_commit(w) ==
  /\ pc[w] = "b_commit"
  /\ slots' = [slots EXCEPT ![write_pos] =
                              [data |-> slots[write_pos].data, len |-> cnt[w]]]
  /\ write_pos' = (write_pos + 1) % num_buffers
  /\ count' = count + 1
  /\ peak_count' = IF count' > peak_count THEN count' ELSE peak_count
  /\ msgs_produced' = msgs_produced + 1
  /\ sent' = Append(sent, [msg |-> msg[w], len |-> cnt[w]])
  /\ mutex_unlock(w)
  /\ Goto(w, "wake")
  /\ UNCHANGED <<arr, num_buffers, buffer_size, mode, read_pos, idxVars,
                 msgs_consumed, waitVars, locVars, pollVars, ctlVars, delivered, base,
                 nextMsg>>
=============================================================================
