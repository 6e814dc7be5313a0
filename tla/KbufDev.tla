------------------------------- MODULE KbufDev -------------------------------
(***************************************************************************)
(* One kbuf device: the fields of struct kbuf_dev that the data path and   *)
(* the ioctls touch, the threads that are inside a system call on it, the  *)
(* ring predicates both disciplines are built from, and the two kernel     *)
(* primitives they rest on (the mutex and the wait queues).                *)
(*                                                                         *)
(* A thread is a system call in progress: pc says where it is, locVars    *)
(* (or pollVars, ctlVars) hold its local variables.                        *)
(***************************************************************************)
EXTENDS Integers, Sequences, FiniteSets

CONSTANTS
  Readers, Writers, Pollers, Ctls,  \* threads calling read, write, poll, ioctl
  NoThread,                         \* the mutex has no owner
  KBUF_MAX_NUM_BUFFERS,             \* 256 in the code
  KBUF_MAX_BUFFER_SIZE,             \* 64 KiB in the code
  KBUF_DEFAULT_NUM_BUFFERS,
  KBUF_DEFAULT_BUFFER_SIZE,
  IdxMod,                           \* indices are unsigned int: 2^32 in the code
  NumBuffersReqs, BufferSizeReqs,   \* what RESIZE callers ask for
  ReadCounts, WriteCounts,          \* count argument of read and of write
  NonblockReqs,                     \* whether O_NONBLOCK is set
  Ops,                              \* the ioctls the Ctls threads issue
  InitModes,                        \* disciplines an empty device is found in
  MaxMsgs,                          \* bound on the number of write calls
  Quiesce,                          \* callers keep I/O off the device while
                                    \* SMODE switches its discipline
  ResizeApart                       \* and while RESIZE works on an SPSC device

Threads == Readers \cup Writers \cup Pollers \cup Ctls
IoThreads == Readers \cup Writers
Modes == {"blocking", "spsc"}

is_power_of_2(n) == n \in {1, 2, 4, 8, 16, 32, 64, 128, 256}

ASSUME ThreadAssumption ==
  /\ NoThread \notin Threads
  /\ Readers \cap Writers = {} /\ Pollers \cap Ctls = {}
  /\ IoThreads \cap (Pollers \cup Ctls) = {}

ASSUME SizeAssumption ==
  /\ KBUF_MAX_NUM_BUFFERS \in Nat \ {0}
  /\ KBUF_MAX_BUFFER_SIZE \in Nat \ {0}
  /\ KBUF_DEFAULT_NUM_BUFFERS \in 1..KBUF_MAX_NUM_BUFFERS
  /\ KBUF_DEFAULT_BUFFER_SIZE \in 1..KBUF_MAX_BUFFER_SIZE
  /\ IdxMod \in Nat /\ IdxMod > KBUF_MAX_NUM_BUFFERS
  /\ \A n \in 1..KBUF_MAX_NUM_BUFFERS : is_power_of_2(n) => IdxMod % n = 0

ASSUME RequestAssumption ==
  /\ NumBuffersReqs \subseteq Nat /\ BufferSizeReqs \subseteq Nat
  /\ ReadCounts \subseteq Nat /\ WriteCounts \subseteq Nat
  /\ NonblockReqs \subseteq BOOLEAN
  /\ Ops \subseteq {"GSTATS", "RESET", "RESIZE", "SMODE"}
  /\ InitModes \subseteq Modes
  /\ "spsc" \in InitModes => is_power_of_2(KBUF_DEFAULT_NUM_BUFFERS)
  /\ MaxMsgs \in Nat
  /\ Quiesce \in BOOLEAN /\ ResizeApart \in BOOLEAN

VARIABLES
  \* struct kbuf_dev
  slots, arr,                     \* slot array, and which allocation it is
  num_buffers, buffer_size, mode,
  read_pos, write_pos, count,     \* blocking mode, under lock
  prod_idx, cons_idx,             \* SPSC mode, one writer each
  peak_count, msgs_produced, msgs_consumed,
  lock, read_wq, write_wq,
  \* threads
  pc,
  nonblock, lmode, cnt, msg, idx, ptr, val,  \* locals of read and write
  want, pval, triggered,          \* locals of poll, poll_wqueues.triggered
  arg, occ,                       \* locals of the ioctls
  \* history: what write accepted, what read handed out, where both stood at
  \* the last RESET, and the payload of the next write call
  sent, delivered, base, nextMsg

shapeVars == <<slots, arr, num_buffers, buffer_size, mode>>
posVars   == <<read_pos, write_pos, count>>
idxVars   == <<prod_idx, cons_idx>>
statVars  == <<peak_count, msgs_produced, msgs_consumed>>
waitVars  == <<read_wq, write_wq, triggered>>
histVars  == <<sent, delivered, base, nextMsg>>
devVars   == <<shapeVars, posVars, idxVars, statVars>>
locVars   == <<nonblock, lmode, cnt, msg, idx, ptr, val>>
pollVars  == <<want, pval>>
ctlVars   == <<arg, occ>>
vars == <<devVars, lock, waitVars, pc, locVars, pollVars, ctlVars, histVars>>

-----------------------------------------------------------------------------
(* Data. A payload is a number; 0 is the content of memory nobody wrote.   *)

Garbage == 0
Slot == [data : Nat, len : Nat]
Message == [msg : Nat, len : Nat]
AtMost(a, b) == IF a <= b THEN a ELSE b

\* kbuf_alloc_slots: kcalloc zeroes len, kmalloc leaves data uninitialised.
kbuf_alloc_slots(n) == [i \in 0..(n - 1) |-> [data |-> Garbage, len |-> 0]]

\* A struct kbuf_slot pointer: which allocation, which element. Two names for
\* allocations tell a pointer taken before a RESIZE from a current one until
\* the next RESIZE.
Pointer == [arr : {0, 1}, slot : Nat]
NoPointer == [arr |-> 0, slot |-> 0]

\* What an ioctl was asked for.
NoArg == [op |-> "GSTATS", num_buffers |-> 0, buffer_size |-> 0,
          mode |-> "blocking", switching |-> FALSE]
Arg == [op : {"GSTATS", "RESET", "RESIZE", "SMODE"}, num_buffers : Nat,
        buffer_size : Nat, mode : Modes, switching : BOOLEAN]

IoPc == {"idle", "b_lock", "b_relock", "b_check", "b_copy", "b_commit",
         "wait", "test", "sleep", "s_check", "s_slot", "s_copy", "s_publish",
         "s_load", "s_store", "s_peak", "wake"}
PollPc == {"idle", "p_mode", "p_lock", "p_load", "p_eval", "p_sleep"}
CtlPc == {"idle", "c_lock", "c_occ", "c_body", "c_wake"}

Init ==
  /\ slots = kbuf_alloc_slots(KBUF_DEFAULT_NUM_BUFFERS)
  /\ arr = 0
  /\ num_buffers = KBUF_DEFAULT_NUM_BUFFERS
  /\ buffer_size = KBUF_DEFAULT_BUFFER_SIZE
  /\ mode \in InitModes
  /\ read_pos = 0 /\ write_pos = 0 /\ count = 0
  /\ prod_idx = 0 /\ cons_idx = 0
  /\ peak_count = 0 /\ msgs_produced = 0 /\ msgs_consumed = 0
  /\ lock = NoThread
  /\ read_wq = {} /\ write_wq = {} /\ triggered = {}
  /\ pc = [p \in Threads |-> "idle"]
  /\ nonblock = [p \in IoThreads |-> FALSE]
  /\ lmode = [p \in IoThreads |-> "blocking"]
  /\ cnt = [p \in IoThreads |-> 0] /\ msg = [p \in IoThreads |-> Garbage]
  /\ idx = [p \in IoThreads |-> 0] /\ val = [p \in IoThreads |-> 0]
  /\ ptr = [p \in IoThreads |-> NoPointer]
  /\ want = [p \in Pollers |-> "in"] /\ pval = [p \in Pollers |-> 0]
  /\ arg = [c \in Ctls |-> NoArg] /\ occ = [c \in Ctls |-> 0]
  /\ sent = <<>> /\ delivered = <<>>
  /\ base = [sent |-> 0, delivered |-> 0]
  /\ nextMsg = 1

-----------------------------------------------------------------------------
(* Ring predicates (kbuf_ring.c).                                          *)

kbuf_ring_is_empty == count = 0
kbuf_ring_is_full  == count = num_buffers

\* Unsigned subtraction of two free-running indices.
IdxDiff(a, b) == (a - b) % IdxMod
IdxNext(a) == (a + 1) % IdxMod

kbuf_spsc_is_empty == prod_idx = cons_idx

\* Mutant: off by one.
kbuf_spsc_is_full_late == IdxDiff(prod_idx, cons_idx) > num_buffers

kbuf_spsc_is_full  == IdxDiff(prod_idx, cons_idx) >= num_buffers

\* i & (num_buffers - 1), for the power-of-two num_buffers of SPSC mode
\* (invariant SpscPowerOfTwo).
Masked(i) == i % num_buffers

\* The true depth of the ring.
Depth == IF mode = "spsc" THEN IdxDiff(prod_idx, cons_idx) ELSE count

\* Where the i-th oldest message lies, i counted from 0.
SlotAt(i) == IF mode = "spsc" THEN Masked(cons_idx + i)
                              ELSE (read_pos + i) % num_buffers

-----------------------------------------------------------------------------
(* Threads, the mutex and the wait queues.                                 *)

Goto(p, l) == pc' = [pc EXCEPT ![p] = l]

\* Leave the system call; its locals are gone.
Return(p) == /\ Goto(p, "idle")
             /\ nonblock' = [nonblock EXCEPT ![p] = FALSE]
             /\ lmode' = [lmode EXCEPT ![p] = "blocking"]
             /\ cnt' = [cnt EXCEPT ![p] = 0]
             /\ msg' = [msg EXCEPT ![p] = Garbage]
             /\ idx' = [idx EXCEPT ![p] = 0]
             /\ ptr' = [ptr EXCEPT ![p] = NoPointer]
             /\ val' = [val EXCEPT ![p] = 0]

mutex_lock(p) == lock = NoThread /\ lock' = p
mutex_unlock(p) == lock' = NoThread

\* Mutant: poll_wait only once the mask was found empty.
Polling_asleep == {p \in Pollers : pc[p] = "p_sleep"}

\* poll_wait hooks a poller on both queues until its poll call returns.
Polling == {p \in Pollers : pc[p] # "idle"}

\* The sleepers of wait_event_interruptible are non-exclusive and leave the
\* queue when woken; a poller stays hooked and is marked triggered.
wake_up_readers == /\ read_wq' = {}
                   /\ triggered' = triggered \cup Polling
                   /\ UNCHANGED write_wq
wake_up_writers == /\ write_wq' = {}
                   /\ triggered' = triggered \cup Polling
                   /\ UNCHANGED read_wq

\* The condition a sleeping read or write waits for, in the discipline that
\* its call was dispatched to.
Ready(p) ==
  IF p \in Readers
  THEN IF lmode[p] = "spsc" THEN ~kbuf_spsc_is_empty ELSE ~kbuf_ring_is_empty
  ELSE IF lmode[p] = "spsc" THEN ~kbuf_spsc_is_full ELSE ~kbuf_ring_is_full

Queued(p) == p \in read_wq \cup write_wq
Enqueue(p) == /\ read_wq' = IF p \in Readers THEN read_wq \cup {p} ELSE read_wq
              /\ write_wq' = IF p \in Writers THEN write_wq \cup {p} ELSE write_wq
              /\ UNCHANGED triggered
Dequeue(p) == /\ read_wq' = read_wq \ {p}
              /\ write_wq' = write_wq \ {p}
              /\ UNCHANGED triggered

\* ___wait_event: queue the thread first, then test the condition, then sleep.
prepare_to_wait(p) ==
  /\ pc[p] = "wait"
  /\ Enqueue(p)
  /\ Goto(p, "test")
  /\ UNCHANGED <<devVars, lock, locVars, pollVars, ctlVars, histVars>>

\* After the sleep the blocking paths take the mutex again; the SPSC paths go
\* straight back to their while condition.
wait_event_test(p) ==
  /\ pc[p] = "test"
  /\ \/ /\ Ready(p)
        /\ Dequeue(p)
        /\ Goto(p, IF lmode[p] = "spsc" THEN "s_check" ELSE "b_relock")
     \/ /\ ~Ready(p)
        /\ Goto(p, "sleep")
        /\ UNCHANGED waitVars
  /\ UNCHANGED <<devVars, lock, locVars, pollVars, ctlVars, histVars>>

\* schedule() returns once a wake_up has taken the thread off its queue.
wait_event_woken(p) ==
  /\ pc[p] = "sleep"
  /\ ~Queued(p)
  /\ Goto(p, "wait")
  /\ UNCHANGED <<devVars, lock, waitVars, locVars, pollVars, ctlVars, histVars>>

\* A signal ends the sleep; the condition is tested once more and, if it is
\* still false, the call returns -ERESTARTSYS.
wait_event_signal(p) ==
  /\ \/ /\ pc[p] = "sleep"
        /\ Goto(p, "test")
        /\ UNCHANGED <<waitVars, locVars>>
     \/ /\ pc[p] = "test"
        /\ ~Ready(p)
        /\ Dequeue(p)
        /\ Return(p)
  /\ UNCHANGED <<devVars, lock, pollVars, ctlVars, histVars>>

-----------------------------------------------------------------------------
(* What callers do, as opposed to what the driver does. SMODE is meant for *)
(* a device nobody is reading, writing or polling: "the caller must also   *)
(* ensure no I/O is in progress" (kbuf_ioctl.c 133-137). When Quiesce is   *)
(* TRUE callers keep to it. Nothing asks the same of RESIZE, which only    *)
(* looks for an empty ring (kbuf_ioctl.c 9-10, 96). ResizeApart says that  *)
(* the callers at hand keep I/O off an SPSC device all the same while they *)
(* resize it; with ResizeApart FALSE they do not.                          *)

IoInFlight == \E p \in IoThreads \cup Pollers : pc[p] # "idle"
Switching == \E c \in Ctls : pc[c] # "idle" /\ arg[c].switching
IoAllowed == Quiesce => ~Switching
SwitchAllowed == Quiesce => ~IoInFlight
ResizeAllowed == ResizeApart /\ mode = "spsc" => SwitchAllowed
=============================================================================
