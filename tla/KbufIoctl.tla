------------------------------ MODULE KbufIoctl ------------------------------
(***************************************************************************)
(* The ioctls that look at or change the ring: GSTATS (/proc/kbuf_status   *)
(* takes the same snapshot), RESET, RESIZE and SMODE. Every one works      *)
(* under dev->lock; RESIZE validates its request and allocates the new     *)
(* slots before it takes the lock. A call that fails validation or         *)
(* allocation returns without touching the device, so it is simply not     *)
(* taken here.                                                             *)
(***************************************************************************)
EXTENDS KbufDev

CtlStart(c, a) ==
  /\ pc[c] = "idle"
  /\ a.op \in Ops
  /\ arg' = [arg EXCEPT ![c] = a]
  /\ Goto(c, "c_lock")
  /\ UNCHANGED <<devVars, lock, waitVars, locVars, pollVars, occ, histVars>>

CtlReturn(c) == /\ Goto(c, "idle")
                /\ arg' = [arg EXCEPT ![c] = NoArg]
                /\ occ' = [occ EXCEPT ![c] = 0]

kbuf_ioc_stats_call(c) ==
  \E op \in {"GSTATS", "RESET"} : CtlStart(c, [NoArg EXCEPT !.op = op])

kbuf_ioc_smode_call(c) ==
  \E m \in Modes :
    CtlStart(c, [NoArg EXCEPT !.op = "SMODE", !.mode = m, !.switching = TRUE])

\* Mutant: no power-of-two test.
ResizeValid_bounds(n, s) ==
  n \in 1..KBUF_MAX_NUM_BUFFERS /\ s \in 1..KBUF_MAX_BUFFER_SIZE

\* The bounds, and in SPSC mode the power-of-two test, on an unlocked read of
\* dev->mode.
ResizeValid(n, s) ==
  /\ n \in 1..KBUF_MAX_NUM_BUFFERS
  /\ s \in 1..KBUF_MAX_BUFFER_SIZE
  /\ mode = "spsc" => is_power_of_2(n)

\* RESIZE starts on a device in any state, in use or not.
kbuf_ioc_resize_call(c) ==
  \E n \in NumBuffersReqs, s \in BufferSizeReqs :
    /\ ResizeValid(n, s)
    /\ CtlStart(c, [op |-> "RESIZE", num_buffers |-> n, buffer_size |-> s,
                    mode |-> mode, switching |-> ResizeApart /\ mode = "spsc"])

kbuf_ioctl_lock(c) ==
  /\ pc[c] = "c_lock"
  /\ mutex_lock(c)
  /\ Goto(c, IF arg[c].op = "RESET" THEN "c_body" ELSE "c_occ")
  /\ UNCHANGED <<devVars, waitVars, locVars, pollVars, ctlVars, histVars>>

\* kbuf_occupancy: in SPSC mode prod_idx is loaded first and cons_idx later
\* (in the steps below, through Occupancy); the lock stops neither from moving.
kbuf_occupancy_load(c) ==
  /\ pc[c] = "c_occ"
  /\ occ' = [occ EXCEPT ![c] = IF mode = "spsc" THEN prod_idx ELSE count]
  /\ Goto(c, "c_body")
  /\ UNCHANGED <<devVars, lock, waitVars, locVars, pollVars, arg, histVars>>

Occupancy(c) == IF mode = "spsc" THEN IdxDiff(occ[c], cons_idx)
                                 ELSE occ[c]

\* The snapshot; the depth it reports is Occupancy(c).
kbuf_ioc_getstats(c) ==
  /\ pc[c] = "c_body" /\ arg[c].op = "GSTATS"
  /\ mutex_unlock(c)
  /\ CtlReturn(c)
  /\ UNCHANGED <<devVars, waitVars, locVars, pollVars, histVars>>

\* Mutant: the high-water mark is zeroed like the counters.
kbuf_ioc_reset_peak(c) ==
  /\ pc[c] = "c_body" /\ arg[c].op = "RESET"
  /\ msgs_produced' = 0 /\ msgs_consumed' = 0
  /\ peak_count' = 0
  /\ base' = [sent |-> Len(sent), delivered |-> Len(delivered)]
  /\ mutex_unlock(c)
  /\ CtlReturn(c)
  /\ UNCHANGED <<shapeVars, posVars, idxVars, waitVars, locVars, pollVars, sent,
                 delivered, nextMsg>>

\* Mutant: one counter is forgotten.
kbuf_ioc_reset_half(c) ==
  /\ pc[c] = "c_body" /\ arg[c].op = "RESET"
  /\ msgs_produced' = 0
  /\ peak_count' = count
  /\ base' = [sent |-> Len(sent), delivered |-> Len(delivered)]
  /\ mutex_unlock(c)
  /\ CtlReturn(c)
  /\ UNCHANGED <<shapeVars, posVars, idxVars, msgs_consumed, waitVars, locVars,
                 pollVars, sent, delivered, nextMsg>>

kbuf_ioc_reset(c) ==
  /\ pc[c] = "c_body" /\ arg[c].op = "RESET"
  /\ msgs_produced' = 0 /\ msgs_consumed' = 0
  /\ peak_count' = count
  /\ base' = [sent |-> Len(sent), delivered |-> Len(delivered)]
  /\ mutex_unlock(c)
  /\ CtlReturn(c)
  /\ UNCHANGED <<shapeVars, posVars, idxVars, waitVars, locVars, pollVars, sent,
                 delivered, nextMsg>>

\* -EBUSY from RESIZE and SMODE on a ring that is not empty, and -EINVAL from
\* SMODE when the geometry does not suit SPSC.
kbuf_ioc_refuse(c) ==
  /\ pc[c] = "c_body"
  /\ \/ arg[c].op \in {"RESIZE", "SMODE"} /\ Occupancy(c) # 0
     \/ /\ arg[c].op = "SMODE" /\ arg[c].mode = "spsc"
        /\ ~is_power_of_2(num_buffers)
  /\ mutex_unlock(c)
  /\ CtlReturn(c)
  /\ UNCHANGED <<devVars, waitVars, locVars, pollVars, histVars>>

\* Mutant: the positions are not reset.
kbuf_ioc_resize_positions(c) ==
  /\ pc[c] = "c_body" /\ arg[c].op = "RESIZE"
  /\ Occupancy(c) = 0
  /\ slots' = kbuf_alloc_slots(arg[c].num_buffers)
  /\ arr' = 1 - arr
  /\ num_buffers' = arg[c].num_buffers
  /\ buffer_size' = arg[c].buffer_size
  /\ peak_count' = 0
  /\ mutex_unlock(c)
  /\ Goto(c, "c_wake")
  /\ UNCHANGED <<posVars, idxVars, mode, msgs_produced, msgs_consumed, waitVars,
                 locVars, pollVars, ctlVars, histVars>>

\* Swap in the new slots; the old ones are freed after the unlock.
kbuf_ioc_resize(c) ==
  /\ pc[c] = "c_body" /\ arg[c].op = "RESIZE"
  /\ Occupancy(c) = 0
  /\ slots' = kbuf_alloc_slots(arg[c].num_buffers)
  /\ arr' = 1 - arr
  /\ num_buffers' = arg[c].num_buffers
  /\ buffer_size' = arg[c].buffer_size
  /\ read_pos' = 0 /\ write_pos' = 0 /\ count' = 0
  /\ prod_idx' = 0 /\ cons_idx' = 0
  /\ peak_count' = 0
  /\ mutex_unlock(c)
  /\ Goto(c, "c_wake")
  /\ UNCHANGED <<mode, msgs_produced, msgs_consumed, waitVars, locVars, pollVars,
                 ctlVars, histVars>>

\* A bigger ring may let blocked writers proceed.
kbuf_ioc_resize_wake(c) ==
  /\ pc[c] = "c_wake"
  /\ wake_up_writers
  /\ CtlReturn(c)
  /\ UNCHANGED <<devVars, lock, locVars, pollVars, histVars>>

\* Both disciplines start over from an empty ring; nobody is woken.
kbuf_ioc_smode(c) ==
  /\ pc[c] = "c_body" /\ arg[c].op = "SMODE"
  /\ Occupancy(c) = 0
  /\ arg[c].mode = "spsc" => is_power_of_2(num_buffers)
  /\ read_pos' = 0 /\ write_pos' = 0 /\ count' = 0
  /\ prod_idx' = 0 /\ cons_idx' = 0
  /\ mode' = arg[c].mode
  /\ mutex_unlock(c)
  /\ CtlReturn(c)
  /\ UNCHANGED <<slots, arr, num_buffers, buffer_size, statVars, waitVars, locVars,
                 pollVars, histVars>>
=============================================================================
