-------------------------- MODULE KbufQueueProofs --------------------------
(***************************************************************************)
(* The queue of messages, for any number of threads the discipline allows, *)
(* any geometry and any mix of calls: the steps of pollers and ioctls keep *)
(* the invariant too, and what follows from it.                            *)
(***************************************************************************)
EXTENDS KbufDeviceProofs, FiniteSetTheorems

\* The leaves that say nothing else are for Zenon.
USE Zenon

-----------------------------------------------------------------------------
(* The other calls.                                                        *)

\* A step that leaves the device, the history and the calls of readers and
\* writers alone keeps what concerns the ring.
LEMMA StillQueue ==
  ASSUME TypeOK, WakeupInv, QueueInv, UNCHANGED <<devVars, locVars, histVars>>,
         \A p \in IoThreads : pc'[p] = pc[p]
  PROVE  /\ KeepStep
         /\ RingInv' /\ FifoOrder' /\ CallInv' /\ PeakBounds' /\ SpscPowerOfTwo'
         /\ \A i \in 1..Len(sent') : sent'[i].len <= KBUF_MAX_BUFFER_SIZE
         /\ nextMsg' > 0
<1> USE DEF devVars, shapeVars, posVars, idxVars, statVars, locVars, histVars
<1>1. KeepStep
  BY SameRing
<1>2. RingInv' /\ FifoOrder' /\ PeakBounds' /\ SpscPowerOfTwo'
  BY DEF QueueInv, GeometryInv, RingInv, FifoOrder, PeakBounds, SpscPowerOfTwo, Contents,
         Depth, SlotAt, Masked, IdxDiff
<1>3. CallInv'
  <2>1. ASSUME NEW r \in Readers PROVE ReadOk(r)'
    <3>1. r \in IoThreads /\ ReadOk(r)
      BY DEF QueueInv, CallInv, IoThreads
    <3> QED BY <3>1 DEF ReadOk, Took, kbuf_spsc_is_empty, Masked, IdxDiff, IdxNext
  <2>2. ASSUME NEW w \in Writers PROVE WriteOk(w)'
    <3>1. w \in IoThreads /\ WriteOk(w)
      BY DEF QueueInv, CallInv, IoThreads
    <3> QED BY <3>1 DEF WriteOk, kbuf_spsc_is_full, Masked, IdxDiff, IdxNext
  <2> QED BY <2>1, <2>2 DEF CallInv
<1> QED BY <1>1, <1>2, <1>3 DEF QueueInv

\* A step of a poll call keeps the queue.
LEMMA PollerQueue ==
  ASSUME TypeOK, WakeupInv, QueueInv, NEW p \in Pollers, PollerNext(p)
  PROVE  QueueInv' /\ QueueStep
<1>1. /\ UNCHANGED <<devVars, locVars, ctlVars, histVars>>
      /\ \E l \in PollPc : Goto(p, l)
  BY PollerFrame
<1>2. \A q \in Threads \ {p} : pc'[q] = pc[q]
  BY <1>1 DEF TypeOK, PcType, Goto
<1>3. /\ \A q \in IoThreads : pc'[q] = pc[q]
      /\ \A c \in Ctls : pc'[c] = pc[c]
  BY <1>2, ThreadAssumption DEF Threads, IoThreads
<1>4. GeometryInv'
  BY <1>1 DEF QueueInv, GeometryInv, SpscPowerOfTwo, devVars, shapeVars, ctlVars
<1>5. OccupancyInv'
  BY <1>1, <1>3 DEF QueueInv, OccupancyInv, devVars, shapeVars, posVars, idxVars, ctlVars
<1> QED BY <1>1, <1>3, <1>4, <1>5, StillQueue DEF QueueInv, QueueStep

\* A step of an ioctl leaves every other call where it is.
LEMMA CtlOthers ==
  ASSUME TypeOK, NEW c \in Ctls, CtlNext(c)
  PROVE  /\ \A q \in Threads \ {c} : pc'[q] = pc[q]
         /\ \A q \in IoThreads : pc'[q] = pc[q]
         /\ \A d \in Ctls \ {c} : arg'[d] = arg[d] /\ occ'[d] = occ[d]
         /\ UNCHANGED locVars
<1>1. \A q \in Threads \ {c} : pc'[q] = pc[q]
  <2>1. PICK l \in CtlPc : Goto(c, l)
    BY CtlFrame
  <2> QED BY <2>1 DEF TypeOK, PcType, Goto
<1>2. \A q \in IoThreads : pc'[q] = pc[q]
  BY <1>1, ThreadAssumption DEF Threads, IoThreads
<1>3. \A d \in Ctls \ {c} : arg'[d] = arg[d] /\ occ'[d] = occ[d]
  <2>1. /\ \/ UNCHANGED arg
           \/ \E a : arg' = [arg EXCEPT ![c] = a]
        /\ \/ UNCHANGED occ
           \/ \E n : occ' = [occ EXCEPT ![c] = n]
    <3>1. UNCHANGED ctlVars \/ CtlCall(c) \/ CtlReturn(c) \/ kbuf_occupancy_load(c)
      BY CtlFrame
    <3>2. CASE UNCHANGED ctlVars
      BY <3>2 DEF ctlVars
    <3>3. CASE CtlCall(c)
      <4>1. \E a : CtlStart(c, a)
        BY <3>3 DEF CtlCall, kbuf_ioc_stats_call, kbuf_ioc_smode_call,
           kbuf_ioc_resize_call
      <4> QED BY <4>1 DEF CtlStart
    <3>4. CASE CtlReturn(c)
      BY <3>4 DEF CtlReturn
    <3>5. CASE kbuf_occupancy_load(c)
      BY <3>5 DEF kbuf_occupancy_load
    <3> QED BY <3>1, <3>2, <3>3, <3>4, <3>5
  <2>2. arg \in [Ctls -> Arg] /\ occ \in [Ctls -> Int]
    BY DEF TypeOK, CallType
  <2> QED BY <2>1, <2>2
<1> QED BY <1>1, <1>2, <1>3, CtlFrame

\* An ioctl that leaves the device alone: the calls, the mutex, the first load
\* of kbuf_occupancy, GSTATS, a refusal, the wake-up of RESIZE.
LEMMA CtlKeepsQueue ==
  ASSUME Contract, TypeOK, WakeupInv, QueueInv, NEW c \in Ctls, CtlNext(c),
         UNCHANGED devVars, UNCHANGED histVars
  PROVE  QueueInv' /\ QueueStep
<1>1. /\ \A q \in Threads \ {c} : pc'[q] = pc[q]
      /\ \A q \in IoThreads : pc'[q] = pc[q]
      /\ \A d \in Ctls \ {c} : arg'[d] = arg[d] /\ occ'[d] = occ[d]
      /\ UNCHANGED locVars
  BY CtlOthers
<1>2. /\ \/ UNCHANGED ctlVars \/ CtlCall(c) \/ CtlReturn(c)
         \/ kbuf_occupancy_load(c)
      /\ TypeOK'
  BY CtlFrame, CtlType
<1>3. mode' = mode /\ num_buffers' = num_buffers /\ prod_idx' = prod_idx /\ count' = count
  BY DEF devVars, shapeVars, posVars, idxVars
<1>4. GeometryInv'
  <2>1. ASSUME NEW d \in Ctls, arg'[d].op = "RESIZE"
        PROVE  /\ "RESIZE" \in Ops
               /\ arg'[d].switching <=> mode = "spsc"
               /\ mode = "spsc" => is_power_of_2(arg'[d].num_buffers)
    <3>1. CASE arg'[d] = arg[d]
      BY <2>1, <3>1 DEF QueueInv, GeometryInv
    <3>2. CASE d = c /\ CtlCall(c)
      <4>1. arg \in [Ctls -> Arg]
        BY DEF TypeOK, CallType
      <4>2. \/ \E op \in {"GSTATS", "RESET"} :
                 arg' = [arg EXCEPT ![c] = [NoArg EXCEPT !.op = op]]
            \/ \E m \in Modes :
                 arg' = [arg EXCEPT ![c] = [NoArg EXCEPT !.op = "SMODE", !.mode = m,
                                                         !.switching = TRUE]]
            \/ \E n, s \in Nat :
                 /\ arg' = [arg EXCEPT ![c] =
                             [op |-> "RESIZE", num_buffers |-> n, buffer_size |-> s,
                              mode |-> mode, switching |-> ResizeApart /\ mode = "spsc"]]
                 /\ "RESIZE" \in Ops /\ (mode = "spsc" => is_power_of_2(n))
        BY <3>2, RequestAssumption DEF CtlCall, CtlStart, ResizeValid,
           kbuf_ioc_stats_call, kbuf_ioc_smode_call, kbuf_ioc_resize_call
      <4>3. CASE \E op \in {"GSTATS", "RESET"} :
                   arg' = [arg EXCEPT ![c] = [NoArg EXCEPT !.op = op]]
        BY <2>1, <3>2, <4>1, <4>3 DEF NoArg
      <4>4. CASE \E m \in Modes :
                   arg' = [arg EXCEPT ![c] = [NoArg EXCEPT !.op = "SMODE", !.mode = m,
                                                           !.switching = TRUE]]
        BY <2>1, <3>2, <4>1, <4>4 DEF NoArg
      <4>5. ASSUME NEW n \in Nat, NEW s \in Nat,
                   arg' = [arg EXCEPT ![c] =
                            [op |-> "RESIZE", num_buffers |-> n, buffer_size |-> s,
                             mode |-> mode, switching |-> ResizeApart /\ mode = "spsc"]],
                   "RESIZE" \in Ops, mode = "spsc" => is_power_of_2(n)
            PROVE  /\ "RESIZE" \in Ops
                   /\ arg'[d].switching <=> mode = "spsc"
                   /\ mode = "spsc" => is_power_of_2(arg'[d].num_buffers)
        <5> DEFINE b == ResizeApart /\ mode = "spsc"
        <5>1. arg' = [arg EXCEPT ![c] =
                       [op |-> "RESIZE", num_buffers |-> n, buffer_size |-> s,
                        mode |-> mode, switching |-> b]]
          BY <4>5
        <5>2. b <=> mode = "spsc"
          BY <4>5 DEF Contract, WakeupInv, ContractInv
        <5> HIDE DEF b
        <5>3. arg'[d].num_buffers = n /\ arg'[d].switching = b
          BY <3>2, <4>1, <5>1
        <5> QED BY <4>5, <5>2, <5>3
      <4> QED BY <4>2, <4>3, <4>4, <4>5
    <3>3. CASE d = c /\ CtlReturn(c)
      BY <2>1, <3>3 DEF TypeOK, CallType, CtlReturn, NoArg
    <3> QED BY <1>1, <1>2, <3>1, <3>2, <3>3 DEF ctlVars, kbuf_occupancy_load
  <2> QED BY <1>3, <2>1 DEF QueueInv, GeometryInv, SpscPowerOfTwo
<1>5. OccupancyInv'
  <2>1. SUFFICES ASSUME NEW d \in Ctls, pc'[d] = "c_body", arg'[d].op \in {"RESIZE", "SMODE"}
                 PROVE  occ'[d] = IF mode = "spsc" THEN prod_idx ELSE count
    BY <1>3 DEF OccupancyInv
  <2>2. CASE d # c
    BY <1>1, <2>1, <2>2 DEF QueueInv, OccupancyInv, Threads
  <2>3. CASE d = c
    <3>1. c \in Threads
      BY DEF Threads
    <3>2. CASE kbuf_occupancy_load(c)
      BY <2>3, <3>2 DEF kbuf_occupancy_load, TypeOK, CallType
    <3>3. CASE kbuf_ioctl_lock(c)
      BY <2>1, <2>3, <3>1, <3>3 DEF kbuf_ioctl_lock, ctlVars, Goto, TypeOK, PcType
    <3>4. CASE CtlCall(c)
      BY <2>1, <2>3, <3>1, <3>4 DEF CtlCall, CtlStart, Goto, TypeOK, PcType,
         kbuf_ioc_stats_call, kbuf_ioc_smode_call, kbuf_ioc_resize_call
    <3>5. CASE kbuf_ioc_getstats(c) \/ kbuf_ioc_reset(c) \/ kbuf_ioc_refuse(c)
               \/ kbuf_ioc_resize_wake(c) \/ kbuf_ioc_smode(c)
      BY <2>1, <2>3, <3>1, <3>5 DEF kbuf_ioc_getstats, kbuf_ioc_reset, kbuf_ioc_refuse,
         kbuf_ioc_resize_wake, kbuf_ioc_smode, CtlReturn, Goto, TypeOK, PcType
    <3>6. CASE kbuf_ioc_resize(c)
      BY <2>1, <2>3, <3>1, <3>6 DEF kbuf_ioc_resize, Goto, TypeOK, PcType
    <3> QED BY <3>2, <3>3, <3>4, <3>5, <3>6 DEF CtlNext, CtlStep
  <2> QED BY <2>2, <2>3
<1> QED BY <1>1, <1>4, <1>5, StillQueue DEF QueueInv, QueueStep

\* RESET concerns the statistics only (kbuf_ioctl.c 53-60).
LEMMA ResetQueue ==
  ASSUME TypeOK, WakeupInv, QueueInv, NEW c \in Ctls, CtlNext(c), kbuf_ioc_reset(c)
  PROVE  QueueInv' /\ QueueStep
<1>1. /\ \A q \in Threads \ {c} : pc'[q] = pc[q]
      /\ \A q \in IoThreads : pc'[q] = pc[q]
      /\ \A d \in Ctls \ {c} : arg'[d] = arg[d] /\ occ'[d] = occ[d]
      /\ UNCHANGED locVars
  BY CtlOthers
<1>2. /\ UNCHANGED <<shapeVars, posVars, idxVars, sent, delivered, nextMsg>>
      /\ peak_count' = count
      /\ arg' = [arg EXCEPT ![c] = NoArg]
      /\ pc'[c] = "idle"
  BY DEF kbuf_ioc_reset, CtlReturn, Goto, TypeOK, PcType, Threads
<1>3. arg'[c].op = "GSTATS"
  BY <1>2 DEF TypeOK, CallType, NoArg
<1> USE DEF shapeVars, posVars, idxVars
<1>4. KeepStep
  BY <1>2, SameRing
<1>5. RingInv' /\ FifoOrder'
  BY <1>2 DEF QueueInv, RingInv, FifoOrder, Contents, Depth, SlotAt, Masked, IdxDiff
<1>6. CallInv'
  <2>1. ASSUME NEW r \in Readers PROVE ReadOk(r)'
    <3>1. r \in IoThreads /\ ReadOk(r)
      BY DEF QueueInv, CallInv, IoThreads
    <3> QED BY <1>1, <1>2, <3>1
            DEF ReadOk, Took, kbuf_spsc_is_empty, Masked, IdxDiff, IdxNext, locVars
  <2>2. ASSUME NEW w \in Writers PROVE WriteOk(w)'
    <3>1. w \in IoThreads /\ WriteOk(w)
      BY DEF QueueInv, CallInv, IoThreads
    <3> QED BY <1>1, <1>2, <3>1
            DEF WriteOk, kbuf_spsc_is_full, Masked, IdxDiff, IdxNext, locVars
  <2> QED BY <2>1, <2>2 DEF CallInv
<1>7. PeakBounds'
  BY <1>2, Geometry, SMT DEF PeakBounds, WakeupInv, SectionInv
<1>8. GeometryInv'
  <2>1. \A d \in Ctls : arg'[d].op = "RESIZE" => arg'[d] = arg[d]
    BY <1>1, <1>3
  <2> QED BY <1>2, <2>1 DEF QueueInv, GeometryInv, SpscPowerOfTwo
<1>9. OccupancyInv'
  <2>1. \A d \in Ctls : pc'[d] = "c_body" => /\ pc[d] = "c_body"
                                             /\ arg'[d] = arg[d] /\ occ'[d] = occ[d]
    BY <1>1, <1>2 DEF Threads
  <2> QED BY <1>2, <2>1 DEF QueueInv, OccupancyInv
<1> QED BY <1>2, <1>4, <1>5, <1>6, <1>7, <1>8, <1>9 DEF QueueInv, QueueStep

\* RESIZE and SMODE pass their emptiness test on an empty queue only, although
\* kbuf_occupancy makes two loads.
LEMMA EmptyTest ==
  ASSUME QueueInv, NEW c \in Ctls, pc[c] = "c_body", arg[c].op \in {"RESIZE", "SMODE"},
         Occupancy(c) = 0
  PROVE  Depth = 0
BY DEF QueueInv, OccupancyInv, Occupancy, Depth

\* A ring that starts over is an empty ring.
LEMMA FreshRing ==
  ASSUME TypeOK', read_pos' = 0, write_pos' = 0, count' = 0, prod_idx' = 0, cons_idx' = 0
  PROVE  RingInv' /\ Depth' = 0
<1>1. num_buffers' \in Nat \ {0} /\ IdxMod \in Nat \ {0}
  BY SizeFacts, SMT DEF TypeOK, DevType
<1>2. \A n \in Nat \ {0} : 0 % n = 0
  BY ModSmall, SMT
<1>3. 0 % num_buffers' = 0 /\ 0 % IdxMod = 0
  BY <1>1, <1>2
<1>4. IdxDiff(prod_idx, cons_idx)' = 0 /\ (read_pos + count)' = 0
  BY <1>3, SMT DEF IdxDiff
<1>5. write_pos' = (read_pos' + count') % num_buffers'
  BY <1>3, <1>4
<1>6. IdxDiff(prod_idx, cons_idx)' <= num_buffers'
  BY <1>1, <1>4, SMT
<1>7. Depth' = 0
  BY <1>4 DEF Depth
<1> QED BY <1>5, <1>6, <1>7 DEF RingInv

\* While the mutex is held by an ioctl, and nobody is in the lock-free part of
\* a call, no call is between its check and its update of the ring.
LEMMA NobodyInside ==
  ASSUME TypeOK, MutexDiscipline, NEW c \in Ctls, Holds(c),
         \A p \in IoThreads : pc[p] \notin SpscPc
  PROVE  \A p \in IoThreads : pc[p] \notin SpscPc \cup {"b_check", "b_copy", "b_commit"}
BY Alone, ThreadAssumption DEF Threads, IoThreads, Holds

\* RESIZE replaces an empty ring by an empty ring while no call is inside it
\* (kbuf_ioctl.c 91-117).
LEMMA ResizeQueue ==
  ASSUME TypeOK, MutexDiscipline, WakeupInv, QueueInv, NEW c \in Ctls, CtlNext(c),
         kbuf_ioc_resize(c)
  PROVE  QueueInv' /\ QueueStep
<1>1. /\ \A q \in Threads \ {c} : pc'[q] = pc[q]
      /\ \A q \in IoThreads : pc'[q] = pc[q]
      /\ UNCHANGED locVars /\ TypeOK'
  BY CtlOthers, CtlType
<1>2. /\ pc[c] = "c_body" /\ arg[c].op = "RESIZE" /\ Occupancy(c) = 0
      /\ num_buffers' = arg[c].num_buffers
      /\ read_pos' = 0 /\ write_pos' = 0 /\ count' = 0
      /\ prod_idx' = 0 /\ cons_idx' = 0 /\ peak_count' = 0
      /\ UNCHANGED <<mode, arg, occ, sent, delivered, nextMsg>>
      /\ pc'[c] = "c_wake" /\ c \in Threads
  BY DEF kbuf_ioc_resize, Goto, TypeOK, PcType, Threads, ctlVars, histVars
<1>3. RingInv' /\ Depth' = 0 /\ ClearStep
  BY <1>1, <1>2, FreshRing, EmptyTest DEF ClearStep
<1>4. FifoOrder'
  BY <1>1, <1>3, QueueStepOrder DEF QueueInv, QueueStep
<1>5. GeometryInv'
  BY <1>2 DEF QueueInv, GeometryInv, SpscPowerOfTwo
<1>6. OccupancyInv'
  <2>1. \A d \in Ctls : pc'[d] # "c_body"
    BY <1>1, <1>2, Alone DEF Threads, Holds
  <2> QED BY <2>1 DEF OccupancyInv
<1>7. PeakBounds'
  <2>1. num_buffers' \in 1..KBUF_MAX_NUM_BUFFERS
    BY <1>1 DEF TypeOK, DevType
  <2>2. num_buffers' \in Nat
    BY <2>1, SizeFacts, SMT
  <2>3. 0 \in 0..num_buffers' /\ 0 <= 0
    BY <2>2, SMT
  <2> QED BY <1>2, <2>3 DEF PeakBounds
<1>8. mode = "spsc" => \A p \in IoThreads : pc[p] = "idle"
  <2>1. mode = "spsc" => arg[c].switching
    BY <1>2 DEF QueueInv, GeometryInv
  <2> QED BY <1>2, <2>1 DEF WakeupInv, ContractInv, Switching, IoInFlight
<1>9. \A p \in IoThreads : pc[p] \notin SpscPc \cup {"b_check", "b_copy", "b_commit"}
  <2>1. \A p \in IoThreads : pc[p] \notin SpscPc
    BY <1>8, Dispatched DEF SpscPc
  <2> QED BY <1>2, <2>1, NobodyInside DEF Holds
<1>10. CallInv'
  <2>1. \A r \in Readers : ReadOk(r)'
    BY <1>1, <1>9 DEF ReadOk, SpscPc, IoThreads
  <2>2. ASSUME NEW w \in Writers PROVE WriteOk(w)'
    <3>1. w \in IoThreads /\ WriteOk(w) /\ pc'[w] = pc[w]
          /\ (pc[w] # "idle" => lmode[w] # "spsc")
          /\ msg'[w] = msg[w] /\ cnt'[w] = cnt[w] /\ lmode'[w] = lmode[w]
      BY <1>1, <1>8 DEF IoThreads, QueueInv, CallInv, WakeupInv, ContractInv, locVars
    <3> QED BY <1>9, <3>1 DEF WriteOk, SpscPc
  <2> QED BY <2>1, <2>2 DEF CallInv
<1> QED BY <1>2, <1>3, <1>4, <1>5, <1>6, <1>7, <1>10 DEF QueueInv, QueueStep

\* SMODE restarts an empty ring while nobody is in a call (kbuf_ioctl.c
\* 133-160).
LEMMA SmodeQueue ==
  ASSUME Contract, SoleSwitcher, TypeOK, MutexDiscipline, WakeupInv, QueueInv,
         NEW c \in Ctls, CtlNext(c), kbuf_ioc_smode(c)
  PROVE  QueueInv' /\ QueueStep
<1>1. /\ \A q \in Threads \ {c} : pc'[q] = pc[q]
      /\ \A q \in IoThreads : pc'[q] = pc[q]
      /\ \A d \in Ctls \ {c} : arg'[d] = arg[d] /\ occ'[d] = occ[d]
      /\ TypeOK'
  BY CtlOthers, CtlType
<1>2. /\ pc[c] = "c_body" /\ arg[c].op = "SMODE" /\ Occupancy(c) = 0
      /\ read_pos' = 0 /\ write_pos' = 0 /\ count' = 0
      /\ prod_idx' = 0 /\ cons_idx' = 0
      /\ mode' = "spsc" => is_power_of_2(num_buffers)
      /\ UNCHANGED <<num_buffers, peak_count, sent, delivered, nextMsg>>
      /\ arg' = [arg EXCEPT ![c] = NoArg]
      /\ pc'[c] = "idle" /\ c \in Threads
  BY DEF kbuf_ioc_smode, CtlReturn, Goto, TypeOK, PcType, Threads, statVars, histVars
<1>3. RingInv' /\ Depth' = 0 /\ ClearStep
  BY <1>1, <1>2, FreshRing, EmptyTest DEF ClearStep
<1>4. FifoOrder'
  BY <1>1, <1>3, QueueStepOrder DEF QueueInv, QueueStep
<1>5. GeometryInv'
  <2>1. arg'[c].op = "GSTATS"
    BY <1>2 DEF TypeOK, CallType, NoArg
  <2>2. "SMODE" \in Ops
    BY <1>2 DEF WakeupInv, ContractInv
  <2>3. \A d \in Ctls : arg'[d].op # "RESIZE"
    <3>1. SUFFICES ASSUME NEW d \in Ctls, arg'[d].op = "RESIZE" PROVE FALSE
      BY SMT
    <3>2. d # c /\ arg[d].op = "RESIZE"
      BY <1>1, <2>1, <3>1
    <3>3. "RESIZE" \in Ops
      BY <3>2 DEF QueueInv, GeometryInv
    <3> QED BY <2>2, <3>2, <3>3 DEF SoleSwitcher
  <2> QED BY <1>2, <2>3 DEF GeometryInv, SpscPowerOfTwo
<1>6. OccupancyInv'
  <2>1. \A d \in Ctls : pc'[d] # "c_body"
    BY <1>1, <1>2, Alone DEF Threads, Holds
  <2> QED BY <2>1 DEF OccupancyInv
<1>7. PeakBounds'
  <2>1. peak_count \in 0..num_buffers
    BY DEF QueueInv, PeakBounds
  <2> QED BY <1>2, <2>1, SMT DEF PeakBounds
<1>8. \A p \in IoThreads : pc'[p] = "idle"
  BY <1>1, <1>2 DEF WakeupInv, ContractInv, Switching, IoInFlight
<1>9. CallInv'
  BY <1>8 DEF CallInv, ReadOk, WriteOk, IoThreads
<1> QED BY <1>2, <1>3, <1>4, <1>5, <1>6, <1>7, <1>9 DEF QueueInv, QueueStep

\* A step of an ioctl keeps the queue invariant and changes the queue only
\* while it is empty.
LEMMA CtlQueue ==
  ASSUME Contract, SoleSwitcher, TypeOK, MutexDiscipline, WakeupInv, QueueInv,
         NEW c \in Ctls, CtlNext(c)
  PROVE  QueueInv' /\ QueueStep
<1>1. CASE kbuf_ioc_reset(c)
  BY <1>1, ResetQueue
<1>2. CASE kbuf_ioc_resize(c)
  BY <1>2, ResizeQueue
<1>3. CASE kbuf_ioc_smode(c)
  BY <1>3, SmodeQueue
<1>4. CASE UNCHANGED devVars /\ UNCHANGED histVars
  BY <1>4, CtlKeepsQueue
<1> QED BY <1>1, <1>2, <1>3, <1>4, CtlFrame

-----------------------------------------------------------------------------
\* A fresh device is empty.
LEMMA QueueInit == Init => QueueInv
<1> SUFFICES ASSUME Init PROVE QueueInv
  BY SMT
<1>1. /\ KBUF_DEFAULT_NUM_BUFFERS \in Nat \ {0} /\ IdxMod \in Nat \ {0}
      /\ KBUF_MAX_BUFFER_SIZE \in Nat
  BY SizeFacts, SMT
<1>2. \A n \in Nat \ {0} : 0 % n = 0
  BY ModSmall, SMT
<1>3. 0 % KBUF_DEFAULT_NUM_BUFFERS = 0 /\ 0 % IdxMod = 0
  BY <1>1, <1>2
<1>4. IdxDiff(prod_idx, cons_idx) = 0 /\ read_pos + count = 0 /\ write_pos = 0
      /\ num_buffers = KBUF_DEFAULT_NUM_BUFFERS /\ count = 0 /\ peak_count = 0
  BY <1>3, SMT DEF Init, IdxDiff
<1>5. RingInv /\ Depth = 0 /\ PeakBounds
  BY <1>1, <1>3, <1>4, SMT DEF RingInv, Depth, PeakBounds
<1>6. Len(sent) = 0 /\ Len(delivered) = 0
  BY DEF Init
<1>7. FifoOrder
  BY <1>1, <1>4, <1>5, <1>6, SMT DEF FifoOrder
<1>8. GeometryInv
  BY RequestAssumption DEF Init, GeometryInv, SpscPowerOfTwo, NoArg
<1>9. OccupancyInv
  BY DEF Init, OccupancyInv, NoArg
<1>10. CallInv
  BY DEF Init, CallInv, ReadOk, WriteOk, Threads, IoThreads
<1> QED BY <1>5, <1>6, <1>7, <1>8, <1>9, <1>10, SMT DEF QueueInv, Init

\* Every step of the device keeps the queue invariant and is one of the four
\* steps of the queue.
LEMMA QueueNext ==
  ASSUME Contract, SoleSwitcher, TypeOK, MutexDiscipline, WakeupInv, QueueInv, [Next]_vars
  PROVE  QueueInv' /\ QueueStep
<1>1. ASSUME NEW r \in Readers, ReaderNext(r) PROVE QueueInv' /\ QueueStep
  BY <1>1, ReaderQueue
<1>2. ASSUME NEW w \in Writers, WriterNext(w) PROVE QueueInv' /\ QueueStep
  BY <1>2, WriterQueue
<1>3. ASSUME NEW p \in Pollers, PollerNext(p) PROVE QueueInv' /\ QueueStep
  BY <1>3, PollerQueue
<1>4. ASSUME NEW c \in Ctls, CtlNext(c) PROVE QueueInv' /\ QueueStep
  BY <1>4, CtlQueue
<1>5. CASE UNCHANGED vars
  <2>1. UNCHANGED <<devVars, locVars, histVars, ctlVars, pc>>
    BY <1>5 DEF vars
  <2>2. GeometryInv' /\ OccupancyInv'
    BY <2>1 DEF QueueInv, GeometryInv, OccupancyInv, SpscPowerOfTwo, devVars, shapeVars,
       posVars, idxVars, ctlVars
  <2> QED BY <2>1, <2>2, StillQueue DEF QueueInv, QueueStep
<1> QED BY <1>1, <1>2, <1>3, <1>4, <1>5 DEF Next

\* The whole strengthening of the queue's properties is an invariant of the
\* device, for any number of threads the discipline allows, any geometry, any
\* index width and any mix of calls.
THEOREM QueueInvariant == ASSUME Contract, SoleSwitcher PROVE Spec => []QueueInv
<1>1. Init => QueueInv
  BY QueueInit
<1>2. TypeOK /\ MutexDiscipline /\ WakeupInv /\ QueueInv /\ [Next]_vars => QueueInv'
  BY QueueNext
<1> QED BY <1>1, <1>2, TypeCorrect, MutexCorrect, WakeupInvariant, PTL DEF Spec

\* Messages are delivered in order, whole up to the reader's count, each once
\* and none lost, in either discipline and across RESIZE, SMODE, RESET, faults
\* and signals (kbuf_ring.c 66-187). The model does not follow a copy past the
\* end of its slot; ClampSurvives says when there is none.
THEOREM MessagesInOrder == ASSUME Contract, SoleSwitcher PROVE Spec => []FifoOrder
<1>1. QueueInv => FifoOrder
  BY DEF QueueInv
<1> QED BY <1>1, QueueInvariant, PTL

\* The reader and the writer of an SPSC device never copy in one slot, for any
\* capacity and however often the indices have wrapped (kbuf_ring.c 138-187).
THEOREM SlotsNotShared == ASSUME Contract, SoleSwitcher PROVE Spec => []SlotExclusive
<1>1. TypeOK /\ WakeupInv /\ QueueInv => SlotExclusive
  <2>1. SUFFICES ASSUME TypeOK, WakeupInv, QueueInv, NEW r \in Readers, NEW w \in Writers,
                        pc[r] = "s_copy", pc[w] = "s_copy", ptr[r].slot = ptr[w].slot
                 PROVE  FALSE
    BY DEF SlotExclusive
  <2>2. ReadOk(r) /\ WriteOk(w) /\ r \in IoThreads
    BY <2>1 DEF QueueInv, CallInv, IoThreads
  <2>3. /\ ptr[r] = [arr |-> arr, slot |-> Masked(cons_idx)] /\ ~kbuf_spsc_is_empty
        /\ ptr[w] = [arr |-> arr, slot |-> Masked(prod_idx)]
    BY <2>1, <2>2 DEF ReadOk, WriteOk
  <2>4. mode = "spsc"
    BY <2>1, <2>2, Dispatched DEF SpscPc
  <2>5. Masked(cons_idx) = Masked(prod_idx)
    <3> DEFINE a == Masked(cons_idx)
               b == Masked(prod_idx)
    <3>0. ptr[r] = [arr |-> arr, slot |-> a] /\ ptr[w] = [arr |-> arr, slot |-> b]
      BY <2>3
    <3> HIDE DEF a, b
    <3>1. ptr[r].slot = a
      BY <3>0, SMT
    <3>2. ptr[w].slot = b
      BY <3>0, SMT
    <3>3. a = b
      BY <2>1, <3>1, <3>2
    <3> QED BY <3>3 DEF a, b
  <2>6. Depth \in Nat /\ Depth < num_buffers /\ SlotAt(Depth) = Masked(prod_idx)
    BY <2>1, WriterRoom
  <2>7. Depth # 0
    BY <2>1, <2>3, <2>4, DepthFacts DEF QueueInv, WakeupInv, SectionInv
  <2>8. SlotAt(0) = Masked(cons_idx)
    BY <2>1, <2>4, HeadSlot
  <2> QED BY <2>1, <2>5, <2>6, <2>7, <2>8, SlotsApart, Geometry, SMT
<1> QED BY <1>1, TypeCorrect, WakeupInvariant, QueueInvariant, PTL

\* The capacity is a power of two whenever the SPSC discipline is in force
\* (kbuf_ioctl.c 84-85, 151-154).
THEOREM CapacityMasks == ASSUME Contract, SoleSwitcher PROVE Spec => []SpscPowerOfTwo
<1>1. QueueInv => SpscPowerOfTwo
  BY DEF QueueInv, GeometryInv
<1> QED BY <1>1, QueueInvariant, PTL

\* The high-water mark stays within the capacity and, in blocking mode, at or
\* above the depth.
THEOREM PeakInBounds == ASSUME Contract, SoleSwitcher PROVE Spec => []PeakBounds
<1>1. QueueInv => PeakBounds
  BY DEF QueueInv
<1> QED BY <1>1, QueueInvariant, PTL

-----------------------------------------------------------------------------
(***************************************************************************)
(* The device implements the bounded FIFO of KbufFifo, its counters count  *)
(* the messages of that FIFO, and a writer's count fits its slot unless a  *)
(* RESIZE shrinks it.                                                      *)
(***************************************************************************)

-----------------------------------------------------------------------------
(* The refinement.                                                         *)

\* The messages in the ring form a sequence of as many messages as it is deep.
LEMMA ContentsSeq ==
  ASSUME TypeOK, Depth \in Nat
  PROVE  Contents \in Seq(Message) /\ Len(Contents) = Depth
<1>1. ASSUME NEW i \in 1..Depth
      PROVE  [msg |-> slots[SlotAt(i - 1)].data, len |-> slots[SlotAt(i - 1)].len]
               \in Message
  <2>1. SlotAt(i - 1) \in 0..(num_buffers - 1)
    BY SlotRange, SMT
  <2>2. slots[SlotAt(i - 1)] \in Slot
    BY <2>1, Geometry
  <2> QED BY <2>2 DEF Slot, Message
<1>2. Contents \in [1..Depth -> Message]
  BY <1>1 DEF Contents
<1> QED BY <1>2, SeqOf

\* A step that keeps the queue keeps its contents.
LEMMA KeepContents ==
  ASSUME TypeOK, Depth \in Nat, KeepStep
  PROVE  Contents' = Contents
<1>1. \A i \in 1..Depth : i - 1 \in 0..(Depth - 1)
  BY SMT
<1>2. \A i \in 1..Depth : slots'[SlotAt(i - 1)'] = slots[SlotAt(i - 1)]
  BY <1>1 DEF KeepStep
<1>3. Depth' = Depth
  BY DEF KeepStep
<1> QED BY <1>2, <1>3 DEF Contents

\* A step that adds a message appends it to the contents.
LEMMA PutContents ==
  ASSUME TypeOK, TypeOK', Depth \in Nat, NEW m \in Message, PutStep(m)
  PROVE  Contents' = Append(Contents, m)
<1>1. Contents \in Seq(Message) /\ Len(Contents) = Depth
  BY ContentsSeq
<1>2. Depth' = Depth + 1 /\ Depth' \in Nat
  BY SMT DEF PutStep
<1>3. Contents' = [i \in 1..(Depth + 1) |-> Contents'[i]]
  BY <1>2 DEF Contents
<1> DEFINE a == Append(Contents, m)
<1>4. /\ a \in [1..(Depth + 1) -> Message]
      /\ a[Depth + 1] = m
      /\ \A i \in 1..Depth : a[i] = Contents[i]
  <2>1. /\ a \in Seq(Message) /\ Len(a) = Len(Contents) + 1
        /\ a[Len(Contents) + 1] = m
        /\ \A i \in 1..Len(Contents) : a[i] = Contents[i]
    BY <1>1, AppendFacts, SMT
  <2>2. a \in [1..Len(a) -> Message]
    BY <2>1, LenFacts
  <2> HIDE DEF a
  <2> QED BY <1>1, <2>1, <2>2
<1> HIDE DEF a
<1>5. ASSUME NEW i \in 1..(Depth + 1) PROVE Contents'[i] = a[i]
  <2>1. /\ i - 1 \in 0..Depth
        /\ SlotAt(i - 1)' = SlotAt(i - 1)
    BY SMT DEF PutStep
  <2>2. Contents'[i] = [msg |-> slots'[SlotAt(i - 1)].data,
                        len |-> slots'[SlotAt(i - 1)].len]
    BY <1>2, <2>1 DEF Contents
  <2>3. CASE i \in 1..Depth
    <3>1. i - 1 \in 0..(Depth - 1)
      BY <2>3, SMT
    <3>2. slots'[SlotAt(i - 1)] = slots[SlotAt(i - 1)]
      BY <3>1 DEF PutStep
    <3> QED BY <1>4, <2>2, <2>3, <3>2, ContentsAt
  <2>4. CASE i = Depth + 1
    <3>1. i - 1 = Depth
      BY <2>4, SMT
    <3>2. slots'[SlotAt(i - 1)] = [data |-> m.msg, len |-> m.len]
      BY <3>1 DEF PutStep
    <3>3. Contents'[i] = [msg |-> m.msg, len |-> m.len]
      BY <2>2, <3>2, SMT
    <3>4. m = [msg |-> m.msg, len |-> m.len]
      BY DEF Message
    <3> QED BY <1>4, <2>4, <3>3, <3>4
  <2> QED BY <2>3, <2>4, SMT
<1>6. Contents' = a
  BY <1>3, <1>4, <1>5
<1> QED BY <1>6 DEF a

\* A step that takes a message takes the head of the contents.
LEMMA TakeContents ==
  ASSUME TypeOK, TypeOK', Depth \in Nat, NEW m \in Message, TakeStep(m)
  PROVE  /\ Contents # << >> /\ Contents' = Tail(Contents)
         /\ Head(Contents) = [msg |-> slots[SlotAt(0)].data, len |-> slots[SlotAt(0)].len]
<1>1. Contents \in Seq(Message) /\ Len(Contents) = Depth
  BY ContentsSeq
<1>2. Depth > 0 /\ Depth' = Depth - 1 /\ Depth' \in Nat
  BY SMT DEF TakeStep
<1>3. Contents' = [i \in 1..(Depth - 1) |-> Contents'[i]]
  BY <1>2 DEF Contents
<1>4. Contents # << >>
  BY <1>1, <1>2, SMT
<1>5. /\ Head(Contents) = Contents[1]
      /\ Tail(Contents) \in [1..(Depth - 1) -> Message]
      /\ \A i \in 1..(Depth - 1) : Tail(Contents)[i] = Contents[i + 1]
  <2>1. Tail(Contents) \in Seq(Message) /\ Len(Tail(Contents)) = Depth - 1
    BY <1>1, <1>4, HeadTailFacts
  <2>2. Head(Contents) = Contents[1]
    BY <1>1, <1>2, SMT
  <2> QED BY <1>1, <1>4, <2>1, <2>2, HeadTailFacts, LenFacts
<1>6. Head(Contents) = [msg |-> slots[SlotAt(0)].data, len |-> slots[SlotAt(0)].len]
  <2>1. 1 \in 1..Depth /\ 1 - 1 = 0
    BY <1>2, SMT
  <2> QED BY <1>5, <2>1, ContentsAt
<1>7. ASSUME NEW i \in 1..(Depth - 1) PROVE Contents'[i] = Tail(Contents)[i]
  <2>1. /\ i - 1 \in 0..(Depth - 2) /\ i + 1 \in 1..Depth /\ (i - 1) + 1 = i
        /\ (i + 1) - 1 = i
    BY SMT
  <2>2. SlotAt(i - 1)' = SlotAt(i) /\ slots' = slots
    BY <2>1 DEF TakeStep
  <2>3. Contents'[i] = [msg |-> slots[SlotAt(i)].data, len |-> slots[SlotAt(i)].len]
    BY <1>2, <2>2 DEF Contents
  <2> QED BY <1>5, <2>1, <2>3, ContentsAt
<1>8. Contents' = Tail(Contents)
  BY <1>3, <1>5, <1>7
<1> QED BY <1>4, <1>6, <1>8

\* Each step of the queue is a step of the bounded FIFO or leaves it alone.
LEMMA QueueStepFifo ==
  ASSUME TypeOK, TypeOK', QueueInv, QueueStep
  PROVE  [Fifo!FifoNext]_(Fifo!fifoVars)
<1>1. /\ Depth \in Nat /\ num_buffers \in Nat
      /\ Contents \in Seq(Message) /\ Len(Contents) = Depth
  <2>1. Depth \in Nat /\ num_buffers \in Nat
    BY Geometry, SMT DEF QueueInv, FifoOrder
  <2> QED BY <2>1, ContentsSeq
<1>2. CASE KeepStep
  <2>1. Contents' = Contents
    BY <1>1, <1>2, KeepContents
  <2> QED BY <1>2, <2>1 DEF KeepStep, Fifo!fifoVars
<1>3. ASSUME NEW m \in Message, PutStep(m) PROVE Fifo!FifoNext
  <2>1. Contents' = Append(Contents, m)
    BY <1>1, <1>3, PutContents
  <2>2. /\ Len(Contents) < num_buffers
        /\ sent' = Append(sent, m) /\ UNCHANGED <<num_buffers, delivered>>
        /\ m.msg \in 1..MaxMsgs /\ m.len \in 0..KBUF_MAX_BUFFER_SIZE
    BY <1>1, <1>3 DEF PutStep
  <2>3. m = [msg |-> m.msg, len |-> m.len]
    BY DEF Message
  <2>4. Fifo!Put([msg |-> m.msg, len |-> m.len])
    BY <2>1, <2>2, <2>3 DEF Fifo!Put
  <2> QED BY <2>2, <2>4 DEF Fifo!FifoNext
<1>4. ASSUME NEW m \in Message, TakeStep(m) PROVE Fifo!FifoNext
  <2> DEFINE h == Head(Contents)
  <2>1. /\ Contents # << >> /\ Contents' = Tail(Contents)
        /\ h = [msg |-> slots[SlotAt(0)].data, len |-> slots[SlotAt(0)].len]
    BY <1>1, <1>4, TakeContents
  <2>2. /\ delivered' = Append(delivered, m) /\ UNCHANGED <<num_buffers, sent>>
        /\ m.msg = h.msg /\ m.len <= h.len
    BY <1>4, <2>1, SMT DEF TakeStep
  <2>3. h = sent[Len(delivered) + 1] /\ Len(delivered) + 1 \in 1..Len(sent)
    <3>1. 1 \in 1..Depth
      BY <1>1, <1>4, SMT DEF TakeStep
    <3>2. Contents[1] = sent[Len(delivered) + 1] /\ Len(sent) = Len(delivered) + Depth
      BY <3>1 DEF QueueInv, FifoOrder
    <3>3. h = Contents[1]
      BY <1>1, <2>1, SMT
    <3>4. Len(delivered) \in Nat
      BY SMT DEF TypeOK, HistType
    <3> QED BY <1>1, <3>1, <3>2, <3>3, <3>4, SMT
  <2>4. h.len <= KBUF_MAX_BUFFER_SIZE /\ h \in Message
    BY <2>3, SMT DEF QueueInv, TypeOK, HistType
  <2> HIDE DEF h
  <2>5. m.len \in 0..KBUF_MAX_BUFFER_SIZE
    BY <2>2, <2>4, SizeFacts, SMT DEF Message
  <2>6. m = [h EXCEPT !.len = IF m.len <= @ THEN m.len ELSE @]
    BY <2>2, <2>4 DEF Message
  <2>7. Fifo!Get(m.len)
    BY <2>1, <2>2, <2>6 DEF Fifo!Get, h
  <2> QED BY <2>5, <2>7 DEF Fifo!FifoNext
<1>5. CASE ClearStep
  <2>1. Depth = 0 /\ Depth' = 0 /\ UNCHANGED <<sent, delivered>>
    BY <1>5 DEF ClearStep
  <2>2. Contents = << >> /\ Contents' = << >>
    BY <2>1, SMT DEF Contents
  <2>3. num_buffers' \in 1..KBUF_MAX_NUM_BUFFERS
    BY DEF TypeOK, DevType
  <2>4. Fifo!Resize(num_buffers')
    BY <2>1, <2>2 DEF Fifo!Resize
  <2> QED BY <2>3, <2>4 DEF Fifo!FifoNext
<1> QED BY <1>2, <1>3, <1>4, <1>5 DEF QueueStep

\* The device implements the bounded FIFO: a write that succeeds is a Put at
\* the step that updates the ring, a read that succeeds is a Get there, RESIZE
\* is a Resize of an empty queue, and nothing else is visible. For any number
\* of threads the discipline allows, any geometry and any index width, as long
\* as no copy runs past its slot (ClampSurvives).
THEOREM DeviceImplementsFifo ==
  ASSUME Contract, SoleSwitcher PROVE Spec => ImplementsFifo
<1>1. Init => Fifo!FifoInit
  <2>1. SUFFICES ASSUME Init PROVE Fifo!FifoInit
    BY SMT
  <2>2. Depth = 0
    <3>1. \A n \in Nat \ {0} : 0 % n = 0
      BY ModSmall, SMT
    <3>2. 0 % IdxMod = 0
      BY <3>1, SizeFacts, SMT
    <3>3. IdxDiff(prod_idx, cons_idx) = 0
      BY <2>1, <3>2, SMT DEF Init, IdxDiff
    <3> QED BY <2>1, <3>3 DEF Init, Depth
  <2>3. Contents = << >>
    BY <2>2, SMT DEF Contents
  <2> QED BY <2>1, <2>3, SizeAssumption DEF Init, Fifo!FifoInit
<1>2. /\ TypeOK /\ TypeOK' /\ MutexDiscipline /\ WakeupInv /\ QueueInv /\ [Next]_vars
      => [Fifo!FifoNext]_(Fifo!fifoVars)
  BY QueueNext, QueueStepFifo
<1> QED BY <1>1, <1>2, TypeCorrect, MutexCorrect, WakeupInvariant, QueueInvariant, PTL
        DEF Spec, ImplementsFifo, Fifo!FifoSpec

-----------------------------------------------------------------------------
(* The statistics.                                                         *)

\* A call that has published its message and not yet counted it.
Uncounted == {"s_load", "s_store"}
Late(f, S) == {p \in S : f[p] \in Uncounted}

\* StatsAccount, written out.
LEMMA Account ==
  StatsAccount <=> /\ msgs_produced + base.sent + Cardinality(Late(pc, Writers)) = Len(sent)
                   /\ msgs_consumed + base.delivered + Cardinality(Late(pc, Readers))
                        = Len(delivered)
BY DEF StatsAccount, Late, Uncounted

\* Nobody is late, or the only thread of its side is.
LEMMA LateCount ==
  ASSUME NEW f, NEW S
  PROVE  /\ (\A q \in S : f[q] \notin Uncounted) => Cardinality(Late(f, S)) = 0
         /\ \A p \in S : (\A q \in S : q = p) /\ f[p] \in Uncounted =>
                           Cardinality(Late(f, S)) = 1
<1>1. ASSUME \A q \in S : f[q] \notin Uncounted PROVE Cardinality(Late(f, S)) = 0
  <2>1. Late(f, S) = {}
    BY <1>1 DEF Late
  <2> QED BY <2>1, FS_EmptySet
<1>2. ASSUME NEW p \in S, \A q \in S : q = p, f[p] \in Uncounted
      PROVE  Cardinality(Late(f, S)) = 1
  <2>1. Late(f, S) = {p}
    BY <1>2 DEF Late
  <2> QED BY <2>1, FS_Singleton
<1> QED BY <1>1, <1>2

\* The steps of a reader that concern the counters.
LEMMA ReaderCounts ==
  ASSUME TypeOK, NEW r \in Readers, ReaderNext(r)
  PROVE  \/ kbuf_ring_consume_commit(r) \/ kbuf_spsc_consume_publish(r)
         \/ kbuf_spsc_consume_count_load(r) \/ kbuf_spsc_consume_count_store(r)
         \/ /\ pc[r] \notin Uncounted /\ pc'[r] \notin Uncounted
            /\ UNCHANGED <<msgs_produced, msgs_consumed, sent, delivered, base>>
<1>0. r \in Threads /\ pc \in [Threads -> IoPc \cup PollPc \cup CtlPc]
  BY DEF TypeOK, PcType, Threads
<1>1. \/ kbuf_ring_consume_commit(r) \/ kbuf_spsc_consume_publish(r)
      \/ kbuf_spsc_consume_count_store(r)
      \/ UNCHANGED <<msgs_produced, msgs_consumed, sent, delivered, base>>
  BY ReaderFrame DEF devVars, statVars, histVars
<1>2. \/ kbuf_ring_consume_commit(r) \/ kbuf_spsc_consume_publish(r)
      \/ kbuf_spsc_consume_count_load(r) \/ kbuf_spsc_consume_count_store(r)
      \/ pc[r] \notin Uncounted /\ pc'[r] \notin Uncounted
  <2>1. CASE kbuf_read(r) \/ ReadLock(r) \/ ReadCopy(r) \/ Interrupt(r) \/ ReadFault(r)
    BY <1>0, <2>1 DEF kbuf_read, ReadLock, kbuf_read_blocking_lock, ReadCopy,
       kbuf_ring_consume_copy, kbuf_spsc_consume_copy, Interrupt,
       kbuf_blocking_lock_signal, wait_event_signal, ReadFault, kbuf_ring_consume_fault,
       kbuf_spsc_consume_fault, Return, Goto, Uncounted
  <2>2. CASE WaitStep(r) \/ kbuf_read_blocking_check(r) \/ kbuf_read_spsc_check(r)
             \/ kbuf_spsc_consume_slot(r) \/ kbuf_read_wake(r)
    BY <1>0, <2>2 DEF WaitStep, prepare_to_wait, wait_event_test, wait_event_woken,
       kbuf_read_blocking_check, kbuf_read_spsc_check, kbuf_spsc_consume_slot,
       kbuf_read_wake, Return, Goto, Uncounted
  <2> QED BY <2>1, <2>2 DEF ReaderNext, ReadStep
<1> QED BY <1>1, <1>2

\* The steps of a writer that concern the counters.
LEMMA WriterCounts ==
  ASSUME TypeOK, NEW w \in Writers, WriterNext(w)
  PROVE  \/ kbuf_ring_produce_commit(w) \/ kbuf_spsc_produce_publish(w)
         \/ kbuf_spsc_produce_count_load(w) \/ kbuf_spsc_produce_count_store(w)
         \/ /\ pc[w] \notin Uncounted /\ pc'[w] \notin Uncounted
            /\ UNCHANGED <<msgs_produced, msgs_consumed, sent, delivered, base>>
<1>0. w \in Threads /\ pc \in [Threads -> IoPc \cup PollPc \cup CtlPc]
  BY DEF TypeOK, PcType, Threads
<1>1. \/ kbuf_ring_produce_commit(w) \/ kbuf_spsc_produce_publish(w)
      \/ kbuf_spsc_produce_count_store(w)
      \/ UNCHANGED <<msgs_produced, msgs_consumed, sent, delivered, base>>
  BY WriterFrame DEF devVars, statVars, histVars, WriteCopy, WriteFault, kbuf_write,
     kbuf_ring_produce_copy, kbuf_spsc_produce_copy, kbuf_ring_produce_fault,
     kbuf_spsc_produce_fault, kbuf_spsc_produce_peak
<1>2. \/ kbuf_ring_produce_commit(w) \/ kbuf_spsc_produce_publish(w)
      \/ kbuf_spsc_produce_count_load(w) \/ kbuf_spsc_produce_count_store(w)
      \/ pc[w] \notin Uncounted /\ pc'[w] \notin Uncounted
  <2>1. CASE kbuf_write(w) \/ WriteLock(w) \/ WriteCopy(w) \/ Interrupt(w) \/ WriteFault(w)
    BY <1>0, <2>1 DEF kbuf_write, WriteLock, kbuf_write_blocking_lock,
       kbuf_write_blocking_relock, WriteCopy, kbuf_ring_produce_copy,
       kbuf_spsc_produce_copy, Interrupt, kbuf_blocking_lock_signal, wait_event_signal,
       WriteFault, kbuf_ring_produce_fault, kbuf_spsc_produce_fault, Return, Goto, Uncounted
  <2>2. CASE WaitStep(w) \/ kbuf_write_blocking_check(w) \/ kbuf_write_spsc_check(w)
             \/ kbuf_spsc_produce_slot(w) \/ kbuf_spsc_produce_peak(w) \/ kbuf_write_wake(w)
    BY <1>0, <2>2 DEF WaitStep, prepare_to_wait, wait_event_test, wait_event_woken,
       kbuf_write_blocking_check, kbuf_write_spsc_check, kbuf_spsc_produce_slot,
       kbuf_spsc_produce_peak, kbuf_write_wake, Return, Goto, Uncounted
  <2> QED BY <2>1, <2>2 DEF WriterNext, WriteStep
<1> QED BY <1>1, <1>2

\* A step of a read call keeps the account: it counts the message it
\* took once, under the mutex or between its load and its store of the counter.
LEMMA ReaderStats ==
  ASSUME Contract, TypeOK, WakeupInv, StatsInv, NEW r \in Readers, ReaderNext(r)
  PROVE  StatsInv'
<1>0. /\ r \in IoThreads /\ r \in Threads /\ OthersKeep(r) /\ arg' = arg
      /\ pc \in [Threads -> IoPc \cup PollPc \cup CtlPc] /\ val \in [IoThreads -> Nat]
  BY ReaderOthers, ReaderFrame DEF Threads, IoThreads, ctlVars, TypeOK, PcType, LocType
<1>1. \A s \in Readers : pc[s] \in SpscPc => \A q \in Readers : q = s
  BY Dispatched DEF Contract, WakeupInv, ContractInv, IoThreads
<1>2. ASSUME NEW w \in Writers PROVE pc'[w] = pc[w] /\ val'[w] = val[w]
  BY <1>0, ThreadAssumption DEF OthersKeep, Threads, IoThreads
<1>3. ASSUME NEW s \in Readers, s # r PROVE pc'[s] = pc[s] /\ pc[s] \notin Uncounted
  <2>1. pc'[s] = pc[s] /\ s \in IoThreads
    BY <1>0, <1>3 DEF OthersKeep, Threads, IoThreads
  <2>2. CASE pc[s] \in Uncounted
    <3>1. pc[s] \in SpscPc
      BY <2>2 DEF Uncounted, SpscPc
    <3> QED BY <1>1, <1>3, <3>1
  <2> QED BY <2>1, <2>2
<1>4. Late(pc', Writers) = Late(pc, Writers)
  BY <1>2 DEF Late
<1>5. /\ pc[r] \in Uncounted => Cardinality(Late(pc, Readers)) = 1
      /\ pc[r] \notin Uncounted => Cardinality(Late(pc, Readers)) = 0
  <2>1. pc[r] \in Uncounted => \A q \in Readers : q = r
    BY <1>1 DEF Uncounted, SpscPc
  <2> QED BY <1>3, <2>1, LateCount
<1>6. \/ pc'[r] \in Uncounted /\ Cardinality(Late(pc', Readers)) = 1
      \/ pc'[r] \notin Uncounted /\ Cardinality(Late(pc', Readers)) = 0
  <2>1. CASE pc'[r] \notin Uncounted
    <3>1. \A s \in Readers : pc'[s] \notin Uncounted
      BY <1>3, <2>1
    <3> QED BY <2>1, <3>1, LateCount
  <2>2. CASE pc'[r] \in Uncounted
    <3>1. pc[r] \in SpscPc
      BY <1>0, <2>2, ReaderCounts
         DEF kbuf_ring_consume_commit, kbuf_spsc_consume_publish,
             kbuf_spsc_consume_count_load, kbuf_spsc_consume_count_store, Goto,
             Uncounted, SpscPc
    <3>2. \A q \in Readers : q = r
      BY <1>1, <3>1
    <3> QED BY <2>2, <3>2, LateCount
  <2> QED BY <2>1, <2>2
<1>7. /\ msgs_produced + base.sent + Cardinality(Late(pc, Writers)) = Len(sent)
      /\ msgs_consumed + base.delivered + Cardinality(Late(pc, Readers)) = Len(delivered)
  BY Account DEF StatsInv
<1>7a. msgs_consumed \in Nat /\ base.delivered \in Nat /\ delivered \in Seq(Message)
  BY DEF TypeOK, DevType, HistType
<1>7b. Len(delivered) \in Nat
  BY <1>7a, LenFacts
<1>8. \A m \in Message : Len(Append(delivered, m)) = Len(delivered) + 1
  BY <1>7a, AppendFacts
<1>9. [msg |-> msg[r], len |-> cnt[r]] \in Message
  BY <1>0 DEF TypeOK, LocType, Message
<1> DEFINE before == Cardinality(Late(pc, Readers))
           after == Cardinality(Late(pc', Readers))
           n == Len(delivered)
           m == base.delivered
<1>9a. /\ msgs_consumed \in Nat /\ n \in Nat /\ m \in Nat /\ msgs_consumed + m + before = n
       /\ pc[r] \in Uncounted => before = 1
       /\ pc[r] \notin Uncounted => before = 0
       /\ pc'[r] \in Uncounted => after = 1
       /\ pc'[r] \notin Uncounted => after = 0
  BY <1>5, <1>6, <1>7, <1>7a, <1>7b
<1> HIDE DEF before, after, n, m
<1>10. /\ UNCHANGED <<msgs_produced, sent, base>>
       /\ msgs_consumed' + m + after = Len(delivered')
       /\ pc'[r] = "s_store" => val'[r] = msgs_consumed'
  <2>1. CASE kbuf_ring_consume_commit(r)
    <3>1. /\ pc[r] \notin Uncounted /\ pc'[r] \notin Uncounted /\ pc'[r] # "s_store"
          /\ msgs_consumed' = msgs_consumed + 1 /\ Len(delivered') = n + 1
          /\ UNCHANGED <<msgs_produced, sent, base>>
      BY <1>0, <1>8, <1>9, <2>1 DEF kbuf_ring_consume_commit, Goto, Uncounted, n
    <3> QED BY <1>9a, <3>1, SMT
  <2>2. CASE kbuf_spsc_consume_publish(r)
    <3>1. /\ pc[r] \notin Uncounted /\ pc'[r] \in Uncounted /\ pc'[r] # "s_store"
          /\ msgs_consumed' = msgs_consumed /\ Len(delivered') = n + 1
          /\ UNCHANGED <<msgs_produced, sent, base>>
      BY <1>0, <1>8, <1>9, <2>2 DEF kbuf_spsc_consume_publish, Goto, Uncounted, statVars, n
    <3>2. before = 0 /\ after = 1
      BY <1>9a, <3>1
    <3>3. msgs_consumed + m + 1 = n + 1
      BY <1>9a, <3>2, SMT
    <3> QED BY <3>1, <3>2, <3>3
  <2>3. CASE kbuf_spsc_consume_count_load(r)
    <3>1. /\ pc[r] \in Uncounted /\ pc'[r] \in Uncounted
          /\ msgs_consumed' = msgs_consumed /\ Len(delivered') = n /\ val'[r] = msgs_consumed
          /\ UNCHANGED <<msgs_produced, sent, base>>
      BY <1>0, <2>3
         DEF kbuf_spsc_consume_count_load, Goto, Uncounted, devVars, statVars, histVars, n
    <3> QED BY <1>9a, <3>1
  <2>4. CASE kbuf_spsc_consume_count_store(r)
    <3>1. /\ pc[r] \in Uncounted /\ pc'[r] \notin Uncounted /\ pc'[r] # "s_store"
          /\ msgs_consumed' = msgs_consumed + 1 /\ Len(delivered') = n
          /\ UNCHANGED <<msgs_produced, sent, base>>
      BY <1>0, <2>4 DEF kbuf_spsc_consume_count_store, Goto, Uncounted, histVars, StatsInv, n
    <3> QED BY <1>9a, <3>1, SMT
  <2>5. CASE /\ pc[r] \notin Uncounted /\ pc'[r] \notin Uncounted
             /\ UNCHANGED <<msgs_produced, msgs_consumed, sent, delivered, base>>
    <3>1. Len(delivered') = n /\ pc'[r] # "s_store"
      BY <2>5 DEF n, Uncounted
    <3> QED BY <1>9a, <2>5, <3>1
  <2> QED BY <2>1, <2>2, <2>3, <2>4, <2>5, ReaderCounts
<1>11. StatsAccount'
  <2>1. msgs_produced' + base'.sent + Cardinality(Late(pc', Writers)) = Len(sent')
    BY <1>4, <1>7, <1>10
  <2>2. msgs_consumed' + base'.delivered + Cardinality(Late(pc', Readers)) = Len(delivered')
    BY <1>10 DEF m, after
  <2> QED BY <2>1, <2>2 DEF StatsAccount, Late, Uncounted
<1>12. \A s \in Readers : pc'[s] = "s_store" => val'[s] = msgs_consumed'
  BY <1>3, <1>10 DEF Uncounted
<1>13. \A w \in Writers : pc'[w] = "s_store" => val'[w] = msgs_produced'
  BY <1>2, <1>10 DEF StatsInv
<1> QED BY <1>0, <1>11, <1>12, <1>13 DEF StatsInv

\* A step of a write call keeps the account: it counts the message it
\* put once.
LEMMA WriterStats ==
  ASSUME Contract, TypeOK, WakeupInv, StatsInv, NEW w \in Writers, WriterNext(w)
  PROVE  StatsInv'
<1>0. /\ w \in IoThreads /\ w \in Threads /\ OthersKeep(w) /\ arg' = arg
      /\ pc \in [Threads -> IoPc \cup PollPc \cup CtlPc] /\ val \in [IoThreads -> Nat]
  BY WriterOthers, WriterFrame DEF Threads, IoThreads, ctlVars, TypeOK, PcType, LocType
<1>1. \A v \in Writers : pc[v] \in SpscPc => \A q \in Writers : q = v
  BY Dispatched DEF Contract, WakeupInv, ContractInv, IoThreads
<1>2. ASSUME NEW r \in Readers PROVE pc'[r] = pc[r] /\ val'[r] = val[r]
  BY <1>0, ThreadAssumption DEF OthersKeep, Threads, IoThreads
<1>3. ASSUME NEW v \in Writers, v # w PROVE pc'[v] = pc[v] /\ pc[v] \notin Uncounted
  <2>1. pc'[v] = pc[v] /\ v \in IoThreads
    BY <1>0, <1>3 DEF OthersKeep, Threads, IoThreads
  <2>2. CASE pc[v] \in Uncounted
    <3>1. pc[v] \in SpscPc
      BY <2>2 DEF Uncounted, SpscPc
    <3> QED BY <1>1, <1>3, <3>1
  <2> QED BY <2>1, <2>2
<1>4. Late(pc', Readers) = Late(pc, Readers)
  BY <1>2 DEF Late
<1>5. /\ pc[w] \in Uncounted => Cardinality(Late(pc, Writers)) = 1
      /\ pc[w] \notin Uncounted => Cardinality(Late(pc, Writers)) = 0
  <2>1. pc[w] \in Uncounted => \A q \in Writers : q = w
    BY <1>1 DEF Uncounted, SpscPc
  <2> QED BY <1>3, <2>1, LateCount
<1>6. \/ pc'[w] \in Uncounted /\ Cardinality(Late(pc', Writers)) = 1
      \/ pc'[w] \notin Uncounted /\ Cardinality(Late(pc', Writers)) = 0
  <2>1. CASE pc'[w] \notin Uncounted
    <3>1. \A v \in Writers : pc'[v] \notin Uncounted
      BY <1>3, <2>1
    <3> QED BY <2>1, <3>1, LateCount
  <2>2. CASE pc'[w] \in Uncounted
    <3>1. pc[w] \in SpscPc
      BY <1>0, <2>2, WriterCounts
         DEF kbuf_ring_produce_commit, kbuf_spsc_produce_publish,
             kbuf_spsc_produce_count_load, kbuf_spsc_produce_count_store, Goto,
             Uncounted, SpscPc
    <3>2. \A q \in Writers : q = w
      BY <1>1, <3>1
    <3> QED BY <2>2, <3>2, LateCount
  <2> QED BY <2>1, <2>2
<1>7. /\ msgs_consumed + base.delivered + Cardinality(Late(pc, Readers)) = Len(delivered)
      /\ msgs_produced + base.sent + Cardinality(Late(pc, Writers)) = Len(sent)
  BY Account DEF StatsInv
<1>7a. msgs_produced \in Nat /\ base.sent \in Nat /\ sent \in Seq(Message)
  BY DEF TypeOK, DevType, HistType
<1>7b. Len(sent) \in Nat
  BY <1>7a, LenFacts
<1>8. \A m \in Message : Len(Append(sent, m)) = Len(sent) + 1
  BY <1>7a, AppendFacts
<1>9. [msg |-> msg[w], len |-> cnt[w]] \in Message
  BY <1>0 DEF TypeOK, LocType, Message
<1> DEFINE before == Cardinality(Late(pc, Writers))
           after == Cardinality(Late(pc', Writers))
           n == Len(sent)
           m == base.sent
<1>9a. /\ msgs_produced \in Nat /\ n \in Nat /\ m \in Nat /\ msgs_produced + m + before = n
       /\ pc[w] \in Uncounted => before = 1
       /\ pc[w] \notin Uncounted => before = 0
       /\ pc'[w] \in Uncounted => after = 1
       /\ pc'[w] \notin Uncounted => after = 0
  BY <1>5, <1>6, <1>7, <1>7a, <1>7b
<1> HIDE DEF before, after, n, m
<1>10. /\ UNCHANGED <<msgs_consumed, delivered, base>>
       /\ msgs_produced' + m + after = Len(sent')
       /\ pc'[w] = "s_store" => val'[w] = msgs_produced'
  <2>1. CASE kbuf_ring_produce_commit(w)
    <3>1. /\ pc[w] \notin Uncounted /\ pc'[w] \notin Uncounted /\ pc'[w] # "s_store"
          /\ msgs_produced' = msgs_produced + 1 /\ Len(sent') = n + 1
          /\ UNCHANGED <<msgs_consumed, delivered, base>>
      BY <1>0, <1>8, <1>9, <2>1 DEF kbuf_ring_produce_commit, Goto, Uncounted, n
    <3> QED BY <1>9a, <3>1, SMT
  <2>2. CASE kbuf_spsc_produce_publish(w)
    <3>1. /\ pc[w] \notin Uncounted /\ pc'[w] \in Uncounted /\ pc'[w] # "s_store"
          /\ msgs_produced' = msgs_produced /\ Len(sent') = n + 1
          /\ UNCHANGED <<msgs_consumed, delivered, base>>
      BY <1>0, <1>8, <1>9, <2>2 DEF kbuf_spsc_produce_publish, Goto, Uncounted, statVars, n
    <3> QED BY <1>9a, <3>1, SMT
  <2>3. CASE kbuf_spsc_produce_count_load(w)
    <3>1. /\ pc[w] \in Uncounted /\ pc'[w] \in Uncounted
          /\ msgs_produced' = msgs_produced /\ Len(sent') = n /\ val'[w] = msgs_produced
          /\ UNCHANGED <<msgs_consumed, delivered, base>>
      BY <1>0, <2>3
         DEF kbuf_spsc_produce_count_load, Goto, Uncounted, devVars, statVars, histVars, n
    <3> QED BY <1>9a, <3>1
  <2>4. CASE kbuf_spsc_produce_count_store(w)
    <3>1. /\ pc[w] \in Uncounted /\ pc'[w] \notin Uncounted /\ pc'[w] # "s_store"
          /\ msgs_produced' = msgs_produced + 1 /\ Len(sent') = n
          /\ UNCHANGED <<msgs_consumed, delivered, base>>
      BY <1>0, <2>4 DEF kbuf_spsc_produce_count_store, Goto, Uncounted, histVars, StatsInv, n
    <3> QED BY <1>9a, <3>1, SMT
  <2>5. CASE /\ pc[w] \notin Uncounted /\ pc'[w] \notin Uncounted
             /\ UNCHANGED <<msgs_produced, msgs_consumed, sent, delivered, base>>
    <3>1. Len(sent') = n /\ pc'[w] # "s_store"
      BY <2>5 DEF n, Uncounted
    <3> QED BY <1>9a, <2>5, <3>1
  <2> QED BY <2>1, <2>2, <2>3, <2>4, <2>5, WriterCounts
<1>11. StatsAccount'
  <2>1. msgs_consumed' + base'.delivered + Cardinality(Late(pc', Readers)) = Len(delivered')
    BY <1>4, <1>7, <1>10
  <2>2. msgs_produced' + base'.sent + Cardinality(Late(pc', Writers)) = Len(sent')
    BY <1>10 DEF m, after
  <2> QED BY <2>1, <2>2 DEF StatsAccount, Late, Uncounted
<1>12. \A v \in Writers : pc'[v] = "s_store" => val'[v] = msgs_produced'
  BY <1>3, <1>10 DEF Uncounted
<1>13. \A r \in Readers : pc'[r] = "s_store" => val'[r] = msgs_consumed'
  BY <1>2, <1>10 DEF StatsInv
<1> QED BY <1>0, <1>11, <1>12, <1>13 DEF StatsInv

\* A step that leaves the counters, the history and the calls of readers and
\* writers alone keeps the account.
LEMMA StillStats ==
  ASSUME StatsInv, UNCHANGED <<msgs_produced, msgs_consumed, sent, delivered, base, val>>,
         \A p \in IoThreads : pc'[p] = pc[p]
  PROVE  /\ StatsAccount'
         /\ \A r \in Readers : pc'[r] = "s_store" => val'[r] = msgs_consumed'
         /\ \A w \in Writers : pc'[w] = "s_store" => val'[w] = msgs_produced'
<1>1. Late(pc', Readers) = Late(pc, Readers) /\ Late(pc', Writers) = Late(pc, Writers)
  BY SMT DEF Late, IoThreads
<1>2. StatsAccount'
  <2>1. /\ msgs_produced' + base'.sent + Cardinality(Late(pc', Writers)) = Len(sent')
        /\ msgs_consumed' + base'.delivered + Cardinality(Late(pc', Readers))
             = Len(delivered')
    BY <1>1, Account DEF StatsInv
  <2> QED BY <2>1 DEF StatsAccount, Late, Uncounted
<1> QED BY <1>2 DEF StatsInv, IoThreads

\* A step of an ioctl keeps the account: RESET zeroes the counters of a device
\* on which nobody counts without the mutex.
LEMMA CtlStats ==
  ASSUME Contract, ResetsApart, TypeOK, WakeupInv, StatsInv, NEW c \in Ctls, CtlNext(c)
  PROVE  StatsInv'
<1>0. /\ \A q \in IoThreads : pc'[q] = pc[q]
      /\ \A d \in Ctls \ {c} : arg'[d] = arg[d]
      /\ UNCHANGED locVars /\ val' = val
  BY CtlOthers DEF locVars
<1>1. \A d \in Ctls : arg'[d].op = "RESET" => "RESET" \in Ops
  <2>1. CASE arg'[c] = arg[c]
    BY <1>0, <2>1 DEF StatsInv
  <2>2. CASE CtlReturn(c)
    <3>1. arg'[c].op = "GSTATS"
      BY <2>2 DEF CtlReturn, TypeOK, CallType, NoArg
    <3> QED BY <1>0, <3>1 DEF StatsInv
  <2>3. CASE CtlCall(c)
    <3>1. arg'[c].op \in Ops
      BY <2>3 DEF CtlCall, CtlStart, TypeOK, CallType, kbuf_ioc_stats_call,
         kbuf_ioc_smode_call, kbuf_ioc_resize_call
    <3> QED BY <1>0, <3>1 DEF StatsInv
  <2> QED BY <2>1, <2>2, <2>3, CtlFrame DEF ctlVars, kbuf_occupancy_load
<1>2. CASE kbuf_ioc_reset(c)
  <2>1. /\ msgs_produced' = 0 /\ msgs_consumed' = 0
        /\ base' = [sent |-> Len(sent), delivered |-> Len(delivered)]
        /\ sent' = sent /\ delivered' = delivered
        /\ arg[c].op = "RESET"
    BY <1>2 DEF kbuf_ioc_reset
  <2>2. ~SpscUsed
    BY <2>1 DEF StatsInv, ResetsApart
  <2>3. \A p \in IoThreads : pc[p] \notin SpscPc
    BY <2>2, Dispatched DEF WakeupInv, ContractInv
  <2>4. \A p \in IoThreads : pc'[p] \notin Uncounted
    BY <1>0, <2>3 DEF Uncounted, SpscPc
  <2>5. Cardinality(Late(pc', Writers)) = 0 /\ Cardinality(Late(pc', Readers)) = 0
    BY <2>4, LateCount DEF IoThreads
  <2>6. Len(sent) \in Nat /\ Len(delivered) \in Nat
    BY SMT DEF TypeOK, HistType
  <2>7. /\ msgs_produced' + base'.sent + Cardinality(Late(pc', Writers)) = Len(sent')
        /\ msgs_consumed' + base'.delivered + Cardinality(Late(pc', Readers))
             = Len(delivered')
    BY <2>1, <2>5, <2>6, SMT
  <2>8. StatsAccount'
    BY <2>7 DEF StatsAccount, Late, Uncounted
  <2> QED BY <1>1, <2>4, <2>8 DEF StatsInv, Uncounted, IoThreads
<1>3. CASE UNCHANGED <<msgs_produced, msgs_consumed, sent, delivered, base>>
  BY <1>0, <1>1, <1>3, StillStats DEF StatsInv
<1> QED BY <1>2, <1>3, CtlFrame
        DEF devVars, statVars, histVars, kbuf_ioc_resize, kbuf_ioc_smode

\* The message counters account for every message since the last RESET, each
\* counted once (kbuf_ring.c 84-92, 112-119, 155-165, 180-183), when RESET is
\* kept off devices that use the SPSC discipline, whose counters are updated
\* outside the mutex.
THEOREM CountersAccount ==
  ASSUME Contract, ResetsApart PROVE Spec => []StatsAccount
<1>1. Init => StatsInv
  <2>1. SUFFICES ASSUME Init PROVE StatsInv
    BY SMT
  <2>2. \A p \in IoThreads : pc[p] \notin Uncounted
    BY <2>1 DEF Init, Threads, IoThreads, Uncounted
  <2>3. Cardinality(Late(pc, Writers)) = 0 /\ Cardinality(Late(pc, Readers)) = 0
    BY <2>2, LateCount DEF IoThreads
  <2>4. /\ msgs_produced = 0 /\ base.sent = 0 /\ Len(sent) = 0
        /\ msgs_consumed = 0 /\ base.delivered = 0 /\ Len(delivered) = 0
    BY <2>1 DEF Init
  <2>5. StatsAccount
    BY <2>3, <2>4, Account, SMT
  <2>6. \A c \in Ctls : arg[c].op # "RESET"
    BY <2>1 DEF Init, NoArg
  <2> QED BY <2>2, <2>5, <2>6 DEF StatsInv, Uncounted, IoThreads
<1>2. TypeOK /\ WakeupInv /\ StatsInv /\ [Next]_vars => StatsInv'
  <2>1. SUFFICES ASSUME TypeOK, WakeupInv, StatsInv, [Next]_vars PROVE StatsInv'
    BY SMT
  <2>2. ASSUME NEW r \in Readers, ReaderNext(r) PROVE StatsInv'
    BY <2>1, <2>2, ReaderStats
  <2>3. ASSUME NEW w \in Writers, WriterNext(w) PROVE StatsInv'
    BY <2>1, <2>3, WriterStats
  <2>4. ASSUME NEW c \in Ctls, CtlNext(c) PROVE StatsInv'
    BY <2>1, <2>4, CtlStats
  <2>5. ASSUME UNCHANGED <<devVars, locVars, ctlVars, histVars>>,
               \A q \in IoThreads : pc'[q] = pc[q]
        PROVE  StatsInv'
    <3>1. UNCHANGED <<msgs_produced, msgs_consumed, sent, delivered, base, val, arg>>
      BY <2>5 DEF devVars, statVars, histVars, locVars, ctlVars
    <3> QED BY <2>1, <2>5, <3>1, StillStats DEF StatsInv
  <2>6. ASSUME NEW p \in Pollers, PollerNext(p) PROVE StatsInv'
    <3>1. \A q \in IoThreads : pc'[q] = pc[q]
      BY <2>1, <2>6, PollerFrame, ThreadAssumption
         DEF TypeOK, PcType, Goto, Threads, IoThreads
    <3> QED BY <2>5, <2>6, <3>1, PollerFrame
  <2>7. CASE UNCHANGED vars
    BY <2>5, <2>7 DEF vars
  <2> QED BY <2>1, <2>2, <2>3, <2>4, <2>6, <2>7 DEF Next
<1>3. StatsInv => StatsAccount
  BY DEF StatsInv
<1> QED BY <1>1, <1>2, <1>3, TypeCorrect, WakeupInvariant, PTL DEF Spec

-----------------------------------------------------------------------------
(* The clamp of a write.                                                   *)

\* A write call gets past its clamp only by clamping.
LEMMA WriterClamp ==
  ASSUME TypeOK, NEW w \in Writers, WriterNext(w)
  PROVE  \/ kbuf_write(w) \/ kbuf_write_blocking_lock(w)
         \/ pc'[w] = "idle"
         \/ pc[w] \notin {"idle", "b_lock"} /\ cnt'[w] = cnt[w]
<1>0. w \in Threads /\ w \in IoThreads /\ pc \in [Threads -> IoPc \cup PollPc \cup CtlPc]
  BY DEF TypeOK, PcType, Threads, IoThreads
<1>1. \/ kbuf_write(w) \/ kbuf_write_blocking_lock(w) \/ pc'[w] = "idle"
      \/ cnt' = cnt
  BY <1>0, WriterFrame DEF locVars, Return, Goto, kbuf_spsc_produce_slot,
     kbuf_spsc_produce_count_load
<1>2. \/ kbuf_write(w) \/ kbuf_write_blocking_lock(w) \/ pc'[w] = "idle"
      \/ pc[w] \notin {"idle", "b_lock"}
  <2>1. CASE WriteLock(w) \/ WriteCopy(w) \/ Interrupt(w) \/ WriteFault(w)
    BY <1>0, <2>1 DEF WriteLock,
       kbuf_write_blocking_relock, WriteCopy, kbuf_ring_produce_copy,
       kbuf_spsc_produce_copy, Interrupt, kbuf_blocking_lock_signal, wait_event_signal,
       WriteFault, kbuf_ring_produce_fault, kbuf_spsc_produce_fault, Return, Goto
  <2>2. CASE WaitStep(w)
    BY <2>2 DEF WaitStep, prepare_to_wait, wait_event_test, wait_event_woken
  <2>3. CASE WriteStep(w)
    BY <2>2, <2>3 DEF WriteStep, kbuf_write_blocking_check, kbuf_write_spsc_check,
       kbuf_ring_produce_commit, kbuf_spsc_produce_publish, kbuf_spsc_produce_count_load,
       kbuf_spsc_produce_count_store, kbuf_spsc_produce_slot,
       kbuf_spsc_produce_peak, kbuf_write_wake
  <2> QED BY <2>1, <2>2, <2>3 DEF WriterNext
<1> QED BY <1>1, <1>2

\* A step of a write call keeps its count within the slots.
LEMMA WriterFits ==
  ASSUME TypeOK, ClampInv, NEW w \in Writers, WriterNext(w)
  PROVE  ClampInv'
<1>0. /\ w \in IoThreads /\ w \in Threads /\ OthersKeep(w) /\ arg' = arg
      /\ pc \in [Threads -> IoPc \cup PollPc \cup CtlPc] /\ cnt \in [IoThreads -> Nat]
      /\ buffer_size \in Nat
  <2>1. w \in IoThreads /\ w \in Threads
    BY DEF Threads, IoThreads
  <2>2. OthersKeep(w)
    BY WriterOthers
  <2>3. arg' = arg
    BY WriterFrame DEF ctlVars
  <2>4. pc \in [Threads -> IoPc \cup PollPc \cup CtlPc] /\ cnt \in [IoThreads -> Nat]
    BY DEF TypeOK, PcType, LocType
  <2>5. buffer_size \in Nat
    BY SMT DEF TypeOK, DevType
  <2> QED BY <2>1, <2>2, <2>3, <2>4, <2>5
<1>1. buffer_size' = buffer_size
  BY WriterFrame DEF devVars, shapeVars, WriteCopy, WriteFault, kbuf_ring_produce_copy,
     kbuf_spsc_produce_copy, kbuf_ring_produce_fault, kbuf_spsc_produce_fault,
     kbuf_ring_produce_commit, kbuf_spsc_produce_publish, kbuf_spsc_produce_count_store,
     kbuf_spsc_produce_peak
<1>2. \A v \in Writers \ {w} : pc'[v] = pc[v] /\ cnt'[v] = cnt[v]
  BY <1>0 DEF OthersKeep, Threads, IoThreads
<1>3. pc'[w] \notin {"idle", "b_lock"} => cnt'[w] <= buffer_size
  <2>1. CASE kbuf_write(w)
    <3>1. PICK n \in WriteCounts :
            cnt' = [cnt EXCEPT ![w] = IF mode = "spsc" THEN AtMost(n, buffer_size) ELSE n]
      BY <2>1 DEF kbuf_write
    <3>2. pc'[w] = IF mode = "spsc" THEN "s_check" ELSE "b_lock"
      BY <1>0, <2>1 DEF kbuf_write, Goto
    <3>3. n \in Nat
      BY RequestAssumption
    <3> QED BY <1>0, <3>1, <3>2, <3>3, SMT DEF AtMost
  <2>2. CASE kbuf_write_blocking_lock(w)
    <3>1. cnt'[w] = AtMost(cnt[w], buffer_size)
      BY <1>0, <2>2 DEF kbuf_write_blocking_lock
    <3> QED BY <1>0, <3>1, SMT DEF AtMost
  <2>3. CASE pc[w] \notin {"idle", "b_lock"} /\ cnt'[w] = cnt[w]
    BY <2>3 DEF ClampInv
  <2> QED BY <2>1, <2>2, <2>3, WriterClamp
<1> QED BY <1>0, <1>1, <1>2, <1>3 DEF ClampInv

\* RESIZE keeps every clamped count within the slots.
LEMMA CtlFits ==
  ASSUME SlotsNeverShrink, TypeOK, ClampInv, NEW c \in Ctls, CtlNext(c)
  PROVE  ClampInv'
<1>0. /\ \A q \in IoThreads : pc'[q] = pc[q]
      /\ \A d \in Ctls \ {c} : arg'[d] = arg[d]
      /\ cnt' = cnt /\ cnt \in [IoThreads -> Nat]
      /\ buffer_size \in Nat /\ BufferSizeReqs \subseteq Nat
  <2>1. /\ \A q \in IoThreads : pc'[q] = pc[q]
        /\ \A d \in Ctls \ {c} : arg'[d] = arg[d]
        /\ cnt' = cnt
    BY CtlOthers DEF locVars
  <2>2. cnt \in [IoThreads -> Nat]
    BY DEF TypeOK, LocType
  <2>3. buffer_size \in Nat /\ BufferSizeReqs \subseteq Nat
    BY RequestAssumption, SMT DEF TypeOK, DevType
  <2> QED BY <2>1, <2>2, <2>3
<1>1. \A d \in Ctls : arg'[d].op = "RESIZE" =>
        "RESIZE" \in Ops /\ arg'[d].buffer_size \in BufferSizeReqs
  <2>1. CASE arg'[c] = arg[c]
    BY <1>0, <2>1 DEF ClampInv
  <2>2. CASE CtlReturn(c)
    <3>1. arg'[c].op = "GSTATS"
      BY <2>2 DEF CtlReturn, TypeOK, CallType, NoArg
    <3> QED BY <1>0, <3>1 DEF ClampInv
  <2>3. CASE CtlCall(c)
    <3>1. \/ arg'[c].op # "RESIZE"
          \/ arg'[c].op \in Ops /\ arg'[c].buffer_size \in BufferSizeReqs
      <4>1. CASE kbuf_ioc_stats_call(c) \/ kbuf_ioc_smode_call(c)
        BY <4>1 DEF kbuf_ioc_stats_call, kbuf_ioc_smode_call, CtlStart, NoArg, TypeOK, CallType
      <4>2. CASE kbuf_ioc_resize_call(c)
        <5>1. PICK n \in NumBuffersReqs, s \in BufferSizeReqs :
                CtlStart(c, [op |-> "RESIZE", num_buffers |-> n, buffer_size |-> s,
                             mode |-> mode, switching |-> ResizeApart /\ mode = "spsc"])
          BY <4>2 DEF kbuf_ioc_resize_call
        <5> DEFINE b == ResizeApart /\ mode = "spsc"
        <5>2. /\ arg' = [arg EXCEPT ![c] = [op |-> "RESIZE", num_buffers |-> n,
                                            buffer_size |-> s, mode |-> mode,
                                            switching |-> b]]
              /\ "RESIZE" \in Ops
          BY <5>1 DEF CtlStart
        <5> HIDE DEF b
        <5> QED BY <5>2 DEF TypeOK, CallType
      <4> QED BY <2>3, <4>1, <4>2 DEF CtlCall
    <3> QED BY <1>0, <3>1 DEF ClampInv
  <2> QED BY <2>1, <2>2, <2>3, CtlFrame DEF ctlVars, kbuf_occupancy_load
<1>2. CASE kbuf_ioc_resize(c)
  <2>1. buffer_size' = arg[c].buffer_size /\ arg[c].op = "RESIZE"
    BY <1>2 DEF kbuf_ioc_resize
  <2>2. "RESIZE" \in Ops /\ buffer_size' \in BufferSizeReqs
    BY <2>1 DEF ClampInv
  <2>3. buffer_size <= buffer_size' /\ \A s \in BufferSizeReqs : buffer_size' <= s
    BY <2>2 DEF ClampInv, SlotsNeverShrink
  <2>4. \A w \in Writers : pc'[w] \notin {"idle", "b_lock"} => cnt'[w] <= buffer_size'
    <3> SUFFICES ASSUME NEW w \in Writers, pc'[w] \notin {"idle", "b_lock"}
                 PROVE  cnt'[w] <= buffer_size'
      BY SMT
    <3>1. w \in IoThreads /\ pc[w] \notin {"idle", "b_lock"}
      BY <1>0 DEF IoThreads
    <3>2. cnt[w] <= buffer_size /\ cnt[w] \in Nat /\ cnt'[w] = cnt[w]
      BY <1>0, <3>1 DEF ClampInv
    <3> QED BY <1>0, <2>2, <2>3, <3>2, SMT
  <2> QED BY <1>1, <2>3, <2>4 DEF ClampInv
<1>3. CASE UNCHANGED buffer_size
  BY <1>0, <1>1, <1>3 DEF ClampInv, IoThreads
<1> QED BY <1>2, <1>3, CtlFrame
        DEF devVars, shapeVars, kbuf_ioc_reset, kbuf_ioc_smode

\* The contract of kbuf_ring_produce and kbuf_spsc_produce, a count "clamped to
\* dev->buffer_size" (kbuf_ring.c 98-100, kbuf_main.c 209-211), is kept as long
\* as no RESIZE makes the slots smaller: in both disciplines, with any number of
\* threads, any interleaving of sleeps, RESIZE and SMODE, and callers that keep
\* to no contract. A RESIZE that makes them smaller is what breaks it
\* (stale_clamp).
THEOREM ClampSurvives ==
  ASSUME SlotsNeverShrink PROVE Spec => [](ProduceClamped /\ SpscClamped)
<1>1. Init => ClampInv
  <2>1. SUFFICES ASSUME Init PROVE ClampInv
    BY SMT
  <2>2. \A w \in Writers : pc[w] = "idle"
    BY <2>1 DEF Init, Threads, IoThreads
  <2>3. buffer_size = KBUF_DEFAULT_BUFFER_SIZE
    BY <2>1 DEF Init
  <2>4. \A c \in Ctls : arg[c].op # "RESIZE"
    BY <2>1 DEF Init, NoArg
  <2> QED BY <2>2, <2>3, <2>4 DEF ClampInv, SlotsNeverShrink
<1>2. TypeOK /\ ClampInv /\ [Next]_vars => ClampInv'
  <2>1. SUFFICES ASSUME TypeOK, ClampInv, [Next]_vars PROVE ClampInv'
    BY SMT
  <2>2. ASSUME UNCHANGED <<buffer_size, arg>>,
               \A w \in Writers : pc'[w] = pc[w] /\ cnt'[w] = cnt[w]
        PROVE  ClampInv'
    BY <2>1, <2>2 DEF ClampInv
  <2>3. ASSUME NEW r \in Readers, ReaderNext(r) PROVE ClampInv'
    <3>1. OthersKeep(r) /\ r \notin Writers
      BY <2>1, <2>3, ReaderOthers, ThreadAssumption
    <3>2. \A w \in Writers : pc'[w] = pc[w] /\ cnt'[w] = cnt[w]
      BY <3>1 DEF OthersKeep, Threads, IoThreads
    <3>3. UNCHANGED <<buffer_size, arg>>
      BY <2>3, ReaderFrame DEF devVars, shapeVars, ctlVars, kbuf_ring_consume_commit,
         kbuf_spsc_consume_publish, kbuf_spsc_consume_count_store
    <3> QED BY <2>2, <3>2, <3>3
  <2>4. ASSUME NEW w \in Writers, WriterNext(w) PROVE ClampInv'
    BY <2>1, <2>4, WriterFits
  <2>5. ASSUME NEW c \in Ctls, CtlNext(c) PROVE ClampInv'
    BY <2>1, <2>5, CtlFits
  <2>6. ASSUME NEW p \in Pollers, PollerNext(p) PROVE ClampInv'
    <3>1. \A q \in IoThreads : pc'[q] = pc[q]
      BY <2>1, <2>6, PollerFrame, ThreadAssumption
         DEF TypeOK, PcType, Goto, Threads, IoThreads
    <3>2. UNCHANGED <<buffer_size, arg, cnt>>
      BY <2>6, PollerFrame DEF devVars, shapeVars, ctlVars, locVars
    <3> QED BY <2>2, <3>1, <3>2 DEF IoThreads
  <2>7. CASE UNCHANGED vars
    BY <2>2, <2>7 DEF vars, devVars, shapeVars, ctlVars, locVars
  <2> QED BY <2>1, <2>3, <2>4, <2>5, <2>6, <2>7 DEF Next
<1>3. ClampInv => ProduceClamped /\ SpscClamped
  BY DEF ClampInv, ProduceClamped, SpscClamped
<1> QED BY <1>1, <1>2, <1>3, TypeCorrect, PTL DEF Spec
=============================================================================
