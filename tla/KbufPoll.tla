------------------------------- MODULE KbufPoll -------------------------------
(***************************************************************************)
(* kbuf_poll under the kernel's poll loop: hook on both wait queues,       *)
(* evaluate the mask, sleep until a queue is woken, evaluate again. A      *)
(* poller asks for one event, "in" (readable) or "out" (writable).         *)
(***************************************************************************)
EXTENDS KbufDev

\* poll_wait on read_wq and write_wq comes before any look at the ring.
poll_call(p) ==
  /\ pc[p] = "idle"
  /\ IoAllowed
  /\ \E e \in {"in", "out"} : want' = [want EXCEPT ![p] = e]
  /\ Goto(p, "p_mode")
  /\ UNCHANGED <<devVars, lock, waitVars, locVars, pval, ctlVars, histVars>>

kbuf_poll_dispatch(p) ==
  /\ pc[p] = "p_mode"
  /\ Goto(p, IF mode = "spsc" THEN "p_load" ELSE "p_lock")
  /\ UNCHANGED <<devVars, lock, waitVars, locVars, pollVars, ctlVars, histVars>>

\* The poll loop: report the event and unhook, or go to sleep.
PollAnswer(p, mask) ==
  \/ /\ mask
     /\ Goto(p, "idle")
     /\ triggered' = triggered \ {p}
     /\ want' = [want EXCEPT ![p] = "in"]
     /\ pval' = [pval EXCEPT ![p] = 0]
  \/ /\ ~mask
     /\ Goto(p, "p_sleep")
     /\ pval' = [pval EXCEPT ![p] = 0]
     /\ UNCHANGED <<triggered, want>>

\* Blocking mode: both predicates under one mutex_lock. The section only
\* reads, so taking and dropping the mutex is one step.
kbuf_poll_blocking(p) ==
  /\ pc[p] = "p_lock"
  /\ lock = NoThread
  /\ PollAnswer(p, IF want[p] = "in" THEN ~kbuf_ring_is_empty
                                     ELSE ~kbuf_ring_is_full)
  /\ UNCHANGED <<devVars, lock, read_wq, write_wq, locVars, ctlVars, histVars>>

\* SPSC mode: a poller owns neither index, so each predicate loads prod_idx
\* and then cons_idx, and the ring may move in between.
kbuf_poll_spsc_load(p) ==
  /\ pc[p] = "p_load"
  /\ pval' = [pval EXCEPT ![p] = prod_idx]
  /\ Goto(p, "p_eval")
  /\ UNCHANGED <<devVars, lock, waitVars, locVars, want, ctlVars, histVars>>

kbuf_poll_spsc(p) ==
  /\ pc[p] = "p_eval"
  /\ PollAnswer(p, IF want[p] = "in"
                   THEN pval[p] # cons_idx
                   ELSE IdxDiff(pval[p], cons_idx) < num_buffers)
  /\ UNCHANGED <<devVars, lock, read_wq, write_wq, locVars, ctlVars, histVars>>

\* poll_schedule_timeout returns when a queue was woken since the last pass.
poll_woken(p) ==
  /\ pc[p] = "p_sleep"
  /\ p \in triggered
  /\ triggered' = triggered \ {p}
  /\ Goto(p, "p_mode")
  /\ UNCHANGED <<devVars, lock, read_wq, write_wq, locVars, pollVars, ctlVars, histVars>>

\* The timeout, or a signal, ends the call.
poll_timeout(p) ==
  /\ pc[p] = "p_sleep"
  /\ Goto(p, "idle")
  /\ triggered' = triggered \ {p}
  /\ want' = [want EXCEPT ![p] = "in"]
  /\ UNCHANGED <<devVars, lock, read_wq, write_wq, locVars, pval, ctlVars, histVars>>
=============================================================================
