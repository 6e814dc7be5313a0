------------------------------- MODULE KbufSpsc -------------------------------
(***************************************************************************)
(* The lock-free discipline: kbuf_read_spsc and kbuf_write_spsc with       *)
(* kbuf_spsc_consume and kbuf_spsc_produce. The reader alone stores        *)
(* cons_idx and the writer alone stores prod_idx, so a predicate of either *)
(* makes a single load of shared memory and is one step. The acquire and   *)
(* release accesses order the slot accesses around the index accesses: the *)
(* steps below become visible in the order they are written.               *)
(***************************************************************************)
EXTENDS KbufDev

kbuf_read_spsc_check(r) ==
  /\ pc[r] = "s_check"
  /\ \/ /\ kbuf_spsc_is_empty
        /\ nonblock[r]
        /\ Return(r)
     \/ /\ kbuf_spsc_is_empty
        /\ ~nonblock[r]
        /\ Goto(r, "wait")
        /\ UNCHANGED locVars
     \/ /\ ~kbuf_spsc_is_empty
        /\ Goto(r, "s_slot")
        /\ UNCHANGED locVars
  /\ UNCHANGED <<devVars, lock, waitVars, pollVars, ctlVars, histVars>>

\* Load the index and compute the slot pointer from it.
kbuf_spsc_consume_slot(r) ==
  /\ pc[r] = "s_slot"
  /\ idx' = [idx EXCEPT ![r] = cons_idx]
  /\ ptr' = [ptr EXCEPT ![r] = [arr |-> arr, slot |-> Masked(cons_idx)]]
  /\ Goto(r, "s_copy")
  /\ UNCHANGED <<devVars, lock, waitVars, nonblock, lmode, cnt, msg, val,
                 pollVars, ctlVars, histVars>>

\* A pointer into an array that RESIZE has replaced reaches freed memory: a
\* read finds garbage there, a write is lost.
Reachable(p) == ptr[p].arr = arr /\ ptr[p].slot < num_buffers

kbuf_spsc_consume_copy(r) ==
  /\ pc[r] = "s_copy"
  /\ LET slot == IF Reachable(r) THEN slots[ptr[r].slot]
                                 ELSE [data |-> Garbage, len |-> 0] IN
       /\ msg' = [msg EXCEPT ![r] = slot.data]
       /\ cnt' = [cnt EXCEPT ![r] = AtMost(cnt[r], slot.len)]
  /\ Goto(r, "s_publish")
  /\ UNCHANGED <<devVars, lock, waitVars, nonblock, lmode, idx, ptr, val,
                 pollVars, ctlVars, histVars>>

\* -EFAULT, from either side: no index moves.
kbuf_spsc_consume_fault(r) ==
  /\ pc[r] = "s_copy"
  /\ Return(r)
  /\ UNCHANGED <<devVars, lock, waitVars, pollVars, ctlVars, histVars>>

\* smp_store_release(&dev->cons_idx, cons + 1)
kbuf_spsc_consume_publish(r) ==
  /\ pc[r] = "s_publish"
  /\ cons_idx' = IdxNext(idx[r])
  /\ delivered' = Append(delivered, [msg |-> msg[r], len |-> cnt[r]])
  /\ Goto(r, "s_load")
  /\ UNCHANGED <<shapeVars, posVars, prod_idx, statVars, lock, waitVars, locVars,
                 pollVars, ctlVars, sent, base, nextMsg>>

\* The counter is a load and a later store, with no lock against RESET.
kbuf_spsc_consume_count_load(r) ==
  /\ pc[r] = "s_load"
  /\ val' = [val EXCEPT ![r] = msgs_consumed]
  /\ Goto(r, "s_store")
  /\ UNCHANGED <<devVars, lock, waitVars, nonblock, lmode, cnt, msg, idx, ptr,
                 pollVars, ctlVars, histVars>>

\* Mutant: the message is not counted.
kbuf_spsc_consume_count_store_same(r) ==
  /\ pc[r] = "s_store"
  /\ msgs_consumed' = val[r]
  /\ Goto(r, "wake")
  /\ UNCHANGED <<shapeVars, posVars, idxVars, peak_count, msgs_produced, lock,
                 waitVars, locVars, pollVars, ctlVars, histVars>>

kbuf_spsc_consume_count_store(r) ==
  /\ pc[r] = "s_store"
  /\ msgs_consumed' = val[r] + 1
  /\ Goto(r, "wake")
  /\ UNCHANGED <<shapeVars, posVars, idxVars, peak_count, msgs_produced, lock,
                 waitVars, locVars, pollVars, ctlVars, histVars>>

-----------------------------------------------------------------------------
kbuf_write_spsc_check(w) ==
  /\ pc[w] = "s_check"
  /\ \/ /\ kbuf_spsc_is_full
        /\ nonblock[w]
        /\ Return(w)
     \/ /\ kbuf_spsc_is_full
        /\ ~nonblock[w]
        /\ Goto(w, "wait")
        /\ UNCHANGED locVars
     \/ /\ ~kbuf_spsc_is_full
        /\ Goto(w, "s_slot")
        /\ UNCHANGED locVars
  /\ UNCHANGED <<devVars, lock, waitVars, pollVars, ctlVars, histVars>>

kbuf_spsc_produce_slot(w) ==
  /\ pc[w] = "s_slot"
  /\ idx' = [idx EXCEPT ![w] = prod_idx]
  /\ ptr' = [ptr EXCEPT ![w] = [arr |-> arr, slot |-> Masked(prod_idx)]]
  /\ Goto(w, "s_copy")
  /\ UNCHANGED <<devVars, lock, waitVars, nonblock, lmode, cnt, msg, val,
                 pollVars, ctlVars, histVars>>

kbuf_spsc_produce_copy(w) ==
  /\ pc[w] = "s_copy"
  /\ slots' = IF Reachable(w)
              THEN [slots EXCEPT ![ptr[w].slot] = [data |-> msg[w], len |-> cnt[w]]]
              ELSE slots
  /\ Goto(w, "s_publish")
  /\ UNCHANGED <<arr, num_buffers, buffer_size, mode, posVars, idxVars,
                 statVars, lock, waitVars, locVars, pollVars, ctlVars, histVars>>

kbuf_spsc_produce_fault(w) ==
  /\ pc[w] = "s_copy"
  /\ slots' = IF Reachable(w)
              THEN [slots EXCEPT ![ptr[w].slot] =
                      [data |-> Garbage, len |-> slots[ptr[w].slot].len]]
              ELSE slots
  /\ Return(w)
  /\ UNCHANGED <<arr, num_buffers, buffer_size, mode, posVars, idxVars,
                 statVars, lock, waitVars, pollVars, ctlVars, histVars>>

\* smp_store_release(&dev->prod_idx, prod + 1)
kbuf_spsc_produce_publish(w) ==
  /\ pc[w] = "s_publish"
  /\ prod_idx' = IdxNext(idx[w])
  /\ sent' = Append(sent, [msg |-> msg[w], len |-> cnt[w]])
  /\ Goto(w, "s_load")
  /\ UNCHANGED <<shapeVars, posVars, cons_idx, statVars, lock, waitVars, locVars,
                 pollVars, ctlVars, delivered, base, nextMsg>>

kbuf_spsc_produce_count_load(w) ==
  /\ pc[w] = "s_load"
  /\ val' = [val EXCEPT ![w] = msgs_produced]
  /\ Goto(w, "s_store")
  /\ UNCHANGED <<devVars, lock, waitVars, nonblock, lmode, cnt, msg, idx, ptr,
                 pollVars, ctlVars, histVars>>

kbuf_spsc_produce_count_store(w) ==
  /\ pc[w] = "s_store"
  /\ msgs_produced' = val[w] + 1
  /\ Goto(w, "s_peak")
  /\ UNCHANGED <<shapeVars, posVars, idxVars, peak_count, msgs_consumed, lock,
                 waitVars, locVars, pollVars, ctlVars, histVars>>

\* Mutant: operands swapped.
kbuf_spsc_produce_peak_swapped(w) ==
  /\ pc[w] = "s_peak"
  /\ LET depth == IdxDiff(cons_idx, IdxNext(idx[w])) IN
     peak_count' = IF depth > peak_count THEN depth ELSE peak_count
  /\ Goto(w, "wake")
  /\ UNCHANGED <<shapeVars, posVars, idxVars, msgs_produced, msgs_consumed,
                 lock, waitVars, locVars, pollVars, ctlVars, histVars>>

\* occ = prod + 1 - READ_ONCE(cons_idx): the reader may be ahead by now.
kbuf_spsc_produce_peak(w) ==
  /\ pc[w] = "s_peak"
  /\ LET depth == IdxDiff(IdxNext(idx[w]), cons_idx) IN
     peak_count' = IF depth > peak_count THEN depth ELSE peak_count
  /\ Goto(w, "wake")
  /\ UNCHANGED <<shapeVars, posVars, idxVars, msgs_produced, msgs_consumed,
                 lock, waitVars, locVars, pollVars, ctlVars, histVars>>
=============================================================================
