-------------------------- MODULE KbufDeviceProofs --------------------------
(***************************************************************************)
(* Type correctness of KbufDevice, its mutex discipline and its wake-ups,  *)
(* for any number of threads, any geometry and any mix of calls; then the  *)
(* ring as a queue, and the steps of readers and writers. The frame lemmas *)
(* come first: for each kind of thread, which actions touch which part     *)
(* of the state. Proofs, here and in KbufQueueProofs, split on the few     *)
(* actions a frame lemma names and leave the rest to it.                   *)
(***************************************************************************)
EXTENDS KbufInv, TLAPS

\* The leaves that say nothing else are for Zenon.
USE Zenon

-----------------------------------------------------------------------------
(* Remainders, as the ring positions and the free-running indices use      *)
(* them. The solvers know little about products of variables, so every     *)
(* lemma reduces to the quotient: x = q * n + x % n.                       *)

\* Positions and indices are reduced modulo a positive number.
LEMMA ModRange ==
  ASSUME NEW x \in Int, NEW n \in Nat \ {0}
  PROVE  x % n \in 0..(n - 1)
BY SMT

\* Division with remainder.
LEMMA ModQuotient ==
  ASSUME NEW x \in Int, NEW n \in Nat \ {0}
  PROVE  \E q \in Int : x = q * n + (x % n)
<1>1. x = (x \div n) * n + (x % n) /\ x \div n \in Int
  BY SMT
<1> QED BY <1>1

\* The remainder is the only number between 0 and n - 1 that differs from x by
\* a multiple of n.
LEMMA ModUnique ==
  ASSUME NEW x \in Int, NEW n \in Nat \ {0}, NEW q \in Int, NEW r \in 0..(n - 1),
         x = q * n + r
  PROVE  x % n = r
<1>1. PICK p \in Int : x = p * n + (x % n)
  BY ModQuotient
<1>2. x % n \in 0..(n - 1)
  BY ModRange
<1> DEFINE s == x % n
<1> HIDE DEF s
<1>3. s \in 0..(n - 1) /\ x = p * n + s
  BY <1>1, <1>2 DEF s
<1>4. (p - q) * n = r - s
  BY <1>3, SMT
<1>5. p - q = 0
  BY <1>3, <1>4, SMT
<1> QED BY <1>3, <1>4, <1>5, SMT DEF s

\* Numbers that differ by a multiple of n have the same remainder.
LEMMA ModShift ==
  ASSUME NEW x \in Int, NEW n \in Nat \ {0}, NEW k \in Int
  PROVE  (x + k * n) % n = x % n
<1>1. PICK q \in Int : x = q * n + (x % n)
  BY ModQuotient
<1> DEFINE y == x + k * n
           s == x % n
<1>2. s \in 0..(n - 1)
  BY ModRange
<1>3. y = (q + k) * n + s
  <2>1. s \in Int /\ x = q * n + s
    BY <1>1, <1>2, SMT
  <2> HIDE DEF s
  <2> QED BY <2>1, SMT
<1>4. y \in Int /\ q + k \in Int
  BY SMT
<1> HIDE DEF y, s
<1>5. y % n = s
  BY <1>2, <1>3, <1>4, ModUnique
<1> QED BY <1>5 DEF y, s

\* Two numbers less than n apart with the same remainder are equal.
LEMMA ModApart ==
  ASSUME NEW x \in Int, NEW y \in Int, NEW n \in Nat \ {0},
         x <= y, y < x + n, x % n = y % n
  PROVE  x = y
<1>1. PICK q \in Int : x = q * n + (x % n)
  BY ModQuotient
<1>2. PICK p \in Int : y = p * n + (y % n)
  BY ModQuotient
<1> DEFINE s == x % n
<1>3. s \in 0..(n - 1)
  BY ModRange
<1>4. x = q * n + s /\ y = p * n + s
  BY <1>1, <1>2
<1> HIDE DEF s
<1>5. (p - q) * n = y - x
  BY <1>3, <1>4, SMT
<1>6. p - q = 0
  BY <1>5, SMT
<1> QED BY <1>5, <1>6, SMT

\* A number below n is its own remainder, and one below 2n is n above it.
LEMMA ModSmall ==
  ASSUME NEW n \in Nat \ {0}, NEW x \in 0..(2 * n - 1)
  PROVE  x % n = IF x < n THEN x ELSE x - n
<1>1. CASE x < n
  <2>1. x \in 0..(n - 1) /\ x = 0 * n + x
    BY <1>1, SMT
  <2> QED BY <2>1, <1>1, ModUnique, SMT
<1>2. CASE ~(x < n)
  <2>1. x - n \in 0..(n - 1) /\ x = 1 * n + (x - n)
    BY <1>2, SMT
  <2> QED BY <2>1, <1>2, ModUnique, SMT
<1> QED BY <1>1, <1>2

\* The difference of two numbers below n, reduced modulo n.
LEMMA ModDiff ==
  ASSUME NEW n \in Nat \ {0}, NEW x \in 0..(n - 1), NEW y \in 0..(n - 1)
  PROVE  (x - y) % n = IF x >= y THEN x - y ELSE x - y + n
<1> DEFINE d == x - y
<1>0. d \in Int
  BY SMT
<1>1. CASE x >= y
  <2>1. d \in 0..(n - 1) /\ d = 0 * n + d
    BY <1>1, SMT
  <2> HIDE DEF d
  <2> QED BY <2>1, <1>0, <1>1, ModUnique, SMT DEF d
<1>2. CASE ~(x >= y)
  <2>1. d + n \in 0..(n - 1) /\ d = (-1) * n + (d + n)
    BY <1>2, SMT
  <2> HIDE DEF d
  <2>2. d % n = d + n
    BY <2>1, <1>0, ModUnique, SMT
  <2> QED BY <2>2, <1>2 DEF d
<1> QED BY <1>1, <1>2

\* Reducing modulo a multiple of n first does not change the remainder by n.
LEMMA ModOfMod ==
  \A n, m \in Nat \ {0} :
    m % n = 0 => \A x, y \in Int : ((x % m) + y) % n = (x + y) % n
<1> SUFFICES ASSUME NEW n \in Nat \ {0}, NEW m \in Nat \ {0}, m % n = 0,
                    NEW x \in Int, NEW y \in Int
             PROVE  ((x % m) + y) % n = (x + y) % n
  OBVIOUS
<1>0. m \in Int
  BY SMT
<1>1. PICK k \in Int : m = k * n + (m % n)
  BY <1>0, ModQuotient
<1>2. PICK q \in Int : x = q * m + (x % m)
  BY ModQuotient
<1> DEFINE s == x % m
           j == q * k
           z == s + y
<1>3. s \in Int /\ j \in Int /\ z \in Int
  BY ModRange, SMT
<1>4. x = q * m + s
  BY <1>2
<1> HIDE DEF s
<1>5. x + y = z + j * n
  BY <1>1, <1>3, <1>4, SMT
<1> HIDE DEF j, z
<1>6. (z + j * n) % n = z % n
  <2>1. \A k1 \in Int : (z + k1 * n) % n = z % n
    BY <1>3, ModShift
  <2> QED BY <1>3, <2>1
<1> QED BY <1>5, <1>6 DEF z, s

-----------------------------------------------------------------------------
(* Distances on a circle of m points.                                      *)

\* One step of the front end adds one to the distance, as long as it does not
\* catch up with the back end.
LEMMA FrontStep ==
  ASSUME NEW m \in Nat \ {0}, NEW x \in 0..(m - 1), NEW y \in 0..(m - 1),
         (x - y) % m < m - 1
  PROVE  (((x + 1) % m) - y) % m = ((x - y) % m) + 1
<1> DEFINE z == (x + 1) % m
<1>1. z = IF x + 1 < m THEN x + 1 ELSE x + 1 - m
  <2> DEFINE u == x + 1
  <2>1. u \in 0..(2 * m - 1)
    BY SMT
  <2> HIDE DEF u
  <2>2. u % m = IF u < m THEN u ELSE u - m
    BY <2>1, ModSmall
  <2> QED BY <2>2, SMT DEF u
<1>2. z \in 0..(m - 1)
  BY <1>1, SMT
<1> HIDE DEF z
<1>3. (z - y) % m = IF z >= y THEN z - y ELSE z - y + m
  BY <1>2, ModDiff
<1>4. (x - y) % m = IF x >= y THEN x - y ELSE x - y + m
  BY ModDiff
<1>5. (z - y) % m = ((x - y) % m) + 1
  BY <1>1, <1>2, <1>3, <1>4, SMT
<1> QED BY <1>5 DEF z

\* One step of the back end takes one from a distance other than 0.
LEMMA BackStep ==
  ASSUME NEW m \in Nat \ {0}, NEW x \in 0..(m - 1), NEW y \in 0..(m - 1), x # y
  PROVE  (x - ((y + 1) % m)) % m = ((x - y) % m) - 1
<1> DEFINE z == (y + 1) % m
<1>1. z = IF y + 1 < m THEN y + 1 ELSE y + 1 - m
  <2> DEFINE u == y + 1
  <2>1. u \in 0..(2 * m - 1)
    BY SMT
  <2> HIDE DEF u
  <2>2. u % m = IF u < m THEN u ELSE u - m
    BY <2>1, ModSmall
  <2> QED BY <2>2, SMT DEF u
<1>2. z \in 0..(m - 1)
  BY <1>1, SMT
<1> HIDE DEF z
<1>3. (x - z) % m = IF x >= z THEN x - z ELSE x - z + m
  BY <1>2, ModDiff
<1>4. (x - y) % m = IF x >= y THEN x - y ELSE x - y + m
  BY ModDiff
<1>5. (x - z) % m = ((x - y) % m) - 1
  BY <1>1, <1>2, <1>3, <1>4, SMT
<1> QED BY <1>5 DEF z

\* The distance is 0 exactly when the ends meet.
LEMMA NoDistance ==
  ASSUME NEW m \in Nat \ {0}, NEW x \in 0..(m - 1), NEW y \in 0..(m - 1)
  PROVE  (x - y) % m = 0 <=> x = y
<1>1. (x - y) % m = IF x >= y THEN x - y ELSE x - y + m
  BY ModDiff
<1> QED BY <1>1, SMT

\* Walking the distance from the back end leads to the front end, also on a
\* smaller circle whose length divides m.
LEMMA WalkDistance ==
  ASSUME NEW m \in Nat \ {0}, NEW n \in Nat \ {0}, m % n = 0,
         NEW x \in Int, NEW y \in Int
  PROVE  (y + ((x - y) % m)) % n = x % n
<1> DEFINE d == x - y
           e == d % m
<1>1. d \in Int /\ d + y = x
  BY SMT
<1> HIDE DEF d
<1>0. \A a, b \in Int : ((a % m) + b) % n = (a + b) % n
  BY ModOfMod
<1>2. (e + y) % n = (d + y) % n
  BY <1>0, <1>1
<1>3. e \in Int
  BY <1>1, ModRange, SMT
<1> HIDE DEF e
<1>4. e + y = y + e
  BY <1>3, SMT
<1> QED BY <1>1, <1>2, <1>4 DEF d, e

\* The same, for one step modulo m and any further walk.
LEMMA StepThenWalk ==
  \A n, m \in Nat \ {0} :
    m % n = 0 => \A x, i \in Int : (((x + 1) % m) + i) % n = (x + (i + 1)) % n
<1> SUFFICES ASSUME NEW n \in Nat \ {0}, NEW m \in Nat \ {0}, m % n = 0,
                    NEW x \in Int, NEW i \in Int
             PROVE  (((x + 1) % m) + i) % n = (x + (i + 1)) % n
  OBVIOUS
<1> DEFINE z == x + 1
<1>1. z \in Int /\ z + i = x + (i + 1)
  BY SMT
<1> HIDE DEF z
<1>0. \A a, b \in Int : ((a % m) + b) % n = (a + b) % n
  BY ModOfMod
<1>2. ((z % m) + i) % n = (z + i) % n
  BY <1>0, <1>1
<1> QED BY <1>1, <1>2 DEF z

\* A number is a multiple of itself.
LEMMA ModSelf ==
  ASSUME NEW n \in Nat \ {0}
  PROVE  n % n = 0
<1>1. n \in 0..(2 * n - 1)
  BY SMT
<1> QED BY <1>1, ModSmall, SMT

\* A number up to a bound.
LEMMA UpTo == ASSUME NEW n \in Nat, NEW m \in Nat, n <= m PROVE n \in 0..m
BY SMT

\* A number below a bound.
LEMMA BelowBound == ASSUME NEW n \in Nat \ {0}, NEW i \in 0..(n - 1) PROVE i < n
BY SMT

\* A positive number up to a bound.
LEMMA FromOne ==
  ASSUME NEW n \in Nat, NEW m \in Nat, NEW d \in 0..(m - 1), d # 0, d <= n
  PROVE  d \in 1..n
BY SMT

-----------------------------------------------------------------------------
(* Types and the mutex.                                                    *)

\* What a step of a reader can change, and by which of its actions.
LEMMA ReaderFrame ==
  ASSUME NEW r \in Readers, ReaderNext(r)
  PROVE  /\ \/ UNCHANGED devVars
            \/ kbuf_ring_consume_commit(r)
            \/ kbuf_spsc_consume_publish(r)
            \/ kbuf_spsc_consume_count_store(r)
         /\ \/ UNCHANGED locVars
            \/ Return(r)
            \/ kbuf_read(r)
            \/ ReadCopy(r)
            \/ kbuf_spsc_consume_slot(r)
            \/ kbuf_spsc_consume_count_load(r)
         /\ \/ UNCHANGED histVars
            \/ kbuf_ring_consume_commit(r)
            \/ kbuf_spsc_consume_publish(r)
         /\ UNCHANGED <<pollVars, ctlVars>>
         /\ \/ UNCHANGED waitVars
            \/ Enqueue(r) \/ Dequeue(r) \/ kbuf_read_wake(r)
         /\ UNCHANGED lock \/ mutex_lock(r) \/ mutex_unlock(r)
         /\ \E l \in IoPc : Goto(r, l)
<1> USE DEF ReaderNext, ReadLock, ReadCopy, ReadStep, Interrupt, ReadFault,
            WaitStep, kbuf_read_blocking_lock, kbuf_read_blocking_check,
            kbuf_read_spsc_check, prepare_to_wait, wait_event_test,
            wait_event_woken, wait_event_signal, kbuf_blocking_lock_signal,
            kbuf_ring_consume_fault, kbuf_spsc_consume_fault
<1>1. \/ UNCHANGED devVars
      \/ kbuf_ring_consume_commit(r)
      \/ kbuf_spsc_consume_publish(r)
      \/ kbuf_spsc_consume_count_store(r)
  BY DEF kbuf_read, kbuf_ring_consume_copy, kbuf_spsc_consume_copy,
         kbuf_spsc_consume_slot, kbuf_spsc_consume_count_load, kbuf_read_wake
<1>2. \/ UNCHANGED locVars
      \/ Return(r)
      \/ kbuf_read(r)
      \/ ReadCopy(r)
      \/ kbuf_spsc_consume_slot(r)
      \/ kbuf_spsc_consume_count_load(r)
  BY DEF kbuf_ring_consume_commit, kbuf_spsc_consume_publish,
         kbuf_spsc_consume_count_store, kbuf_read_wake
<1> USE DEF kbuf_read, kbuf_ring_consume_copy, kbuf_spsc_consume_copy,
            kbuf_spsc_consume_slot, kbuf_spsc_consume_count_load,
            kbuf_spsc_consume_count_store
<1>3. \/ UNCHANGED histVars
      \/ kbuf_ring_consume_commit(r)
      \/ kbuf_spsc_consume_publish(r)
  BY DEF kbuf_read_wake
<1>4. \/ UNCHANGED waitVars
      \/ Enqueue(r) \/ Dequeue(r) \/ kbuf_read_wake(r)
  BY DEF kbuf_ring_consume_commit, kbuf_spsc_consume_publish
<1> USE DEF kbuf_ring_consume_commit, kbuf_spsc_consume_publish, kbuf_read_wake
<1>5. UNCHANGED <<pollVars, ctlVars>>
  OBVIOUS
<1>6. UNCHANGED lock \/ mutex_lock(r) \/ mutex_unlock(r)
  OBVIOUS
<1>7. \E l \in IoPc : Goto(r, l)
  BY DEF Return, IoPc
<1> QED BY <1>1, <1>2, <1>3, <1>4, <1>5, <1>6, <1>7

\* The same for a writer.
LEMMA WriterFrame ==
  ASSUME NEW w \in Writers, WriterNext(w)
  PROVE  /\ \/ UNCHANGED devVars
            \/ WriteCopy(w) \/ WriteFault(w)
            \/ kbuf_ring_produce_commit(w)
            \/ kbuf_spsc_produce_publish(w)
            \/ kbuf_spsc_produce_count_store(w)
            \/ kbuf_spsc_produce_peak(w)
         /\ \/ UNCHANGED locVars
            \/ Return(w)
            \/ kbuf_write(w)
            \/ kbuf_write_blocking_lock(w)
            \/ kbuf_spsc_produce_slot(w)
            \/ kbuf_spsc_produce_count_load(w)
         /\ \/ UNCHANGED histVars
            \/ kbuf_write(w)
            \/ kbuf_ring_produce_commit(w)
            \/ kbuf_spsc_produce_publish(w)
         /\ UNCHANGED <<pollVars, ctlVars>>
         /\ \/ UNCHANGED waitVars
            \/ Enqueue(w) \/ Dequeue(w) \/ kbuf_write_wake(w)
         /\ UNCHANGED lock \/ mutex_lock(w) \/ mutex_unlock(w)
         /\ \E l \in IoPc : Goto(w, l)
<1> USE DEF WriterNext, WriteLock, WriteStep, Interrupt,
            WaitStep, kbuf_write_blocking_relock, kbuf_write_blocking_check,
            kbuf_write_spsc_check, prepare_to_wait, wait_event_test,
            wait_event_woken, wait_event_signal, kbuf_blocking_lock_signal
<1>1. \/ UNCHANGED devVars
      \/ WriteCopy(w) \/ WriteFault(w)
      \/ kbuf_ring_produce_commit(w)
      \/ kbuf_spsc_produce_publish(w)
      \/ kbuf_spsc_produce_count_store(w)
      \/ kbuf_spsc_produce_peak(w)
  BY DEF kbuf_write, kbuf_write_blocking_lock, kbuf_spsc_produce_slot,
         kbuf_spsc_produce_count_load, kbuf_write_wake
<1> USE DEF WriteCopy, WriteFault, kbuf_ring_produce_copy,
            kbuf_ring_produce_fault, kbuf_spsc_produce_copy,
            kbuf_spsc_produce_fault, kbuf_spsc_produce_count_store,
            kbuf_spsc_produce_peak
<1>2. \/ UNCHANGED locVars
      \/ Return(w)
      \/ kbuf_write(w)
      \/ kbuf_write_blocking_lock(w)
      \/ kbuf_spsc_produce_slot(w)
      \/ kbuf_spsc_produce_count_load(w)
  BY DEF kbuf_ring_produce_commit, kbuf_spsc_produce_publish, kbuf_write_wake
<1> USE DEF kbuf_write_blocking_lock, kbuf_spsc_produce_slot,
            kbuf_spsc_produce_count_load
<1>3. \/ UNCHANGED histVars
      \/ kbuf_write(w)
      \/ kbuf_ring_produce_commit(w)
      \/ kbuf_spsc_produce_publish(w)
  BY DEF kbuf_write_wake
<1> USE DEF kbuf_write, kbuf_ring_produce_commit, kbuf_spsc_produce_publish
<1>4. \/ UNCHANGED waitVars
      \/ Enqueue(w) \/ Dequeue(w) \/ kbuf_write_wake(w)
  OBVIOUS
<1> USE DEF kbuf_write_wake
<1>5. UNCHANGED <<pollVars, ctlVars>>
  OBVIOUS
<1>6. UNCHANGED lock \/ mutex_lock(w) \/ mutex_unlock(w)
  OBVIOUS
<1>7. \E l \in IoPc : Goto(w, l)
  BY DEF Return, IoPc
<1> QED BY <1>1, <1>2, <1>3, <1>4, <1>5, <1>6, <1>7

\* A poller changes nothing but its own locals and its own trigger.
LEMMA PollerFrame ==
  ASSUME NEW p \in Pollers, PollerNext(p)
  PROVE  /\ UNCHANGED <<devVars, lock, read_wq, write_wq, locVars, ctlVars, histVars>>
         /\ UNCHANGED triggered \/ triggered' = triggered \ {p}
         /\ UNCHANGED pval \/ pval' = [pval EXCEPT ![p] = 0] \/ kbuf_poll_spsc_load(p)
         /\ UNCHANGED want \/ \E e \in {"in", "out"} : want' = [want EXCEPT ![p] = e]
         /\ \E l \in PollPc : Goto(p, l)
<1> USE DEF PollerNext, PollLock, PollStep, poll_call, kbuf_poll_dispatch,
            kbuf_poll_blocking, kbuf_poll_spsc, poll_woken, poll_timeout,
            PollAnswer, waitVars, pollVars
<1>1. UNCHANGED pval \/ pval' = [pval EXCEPT ![p] = 0] \/ kbuf_poll_spsc_load(p)
  OBVIOUS
<1> USE DEF kbuf_poll_spsc_load
<1>2. UNCHANGED <<devVars, lock, read_wq, write_wq, locVars, ctlVars, histVars>>
  OBVIOUS
<1>3. UNCHANGED triggered \/ triggered' = triggered \ {p}
  OBVIOUS
<1>4. UNCHANGED want \/ \E e \in {"in", "out"} : want' = [want EXCEPT ![p] = e]
  OBVIOUS
<1>5. \E l \in PollPc : Goto(p, l)
  BY DEF PollPc
<1> QED BY <1>1, <1>2, <1>3, <1>4, <1>5

\* An ioctl changes the device in RESET, RESIZE and SMODE only.
LEMMA CtlFrame ==
  ASSUME NEW c \in Ctls, CtlNext(c)
  PROVE  /\ \/ UNCHANGED devVars
            \/ kbuf_ioc_reset(c) \/ kbuf_ioc_resize(c) \/ kbuf_ioc_smode(c)
         /\ UNCHANGED histVars \/ kbuf_ioc_reset(c)
         /\ UNCHANGED ctlVars \/ CtlCall(c) \/ CtlReturn(c) \/ kbuf_occupancy_load(c)
         /\ UNCHANGED <<locVars, pollVars>>
         /\ UNCHANGED waitVars \/ kbuf_ioc_resize_wake(c)
         /\ UNCHANGED lock \/ mutex_lock(c) \/ mutex_unlock(c)
         /\ \E l \in CtlPc : Goto(c, l)
<1> USE DEF CtlNext, CtlCall, CtlStep, kbuf_ioc_stats_call,
            kbuf_ioc_smode_call, kbuf_ioc_resize_call, CtlStart,
            kbuf_ioctl_lock, kbuf_ioc_getstats, kbuf_ioc_refuse
<1>1. \/ UNCHANGED devVars
      \/ kbuf_ioc_reset(c) \/ kbuf_ioc_resize(c) \/ kbuf_ioc_smode(c)
  BY DEF kbuf_occupancy_load, kbuf_ioc_resize_wake
<1>2. UNCHANGED histVars \/ kbuf_ioc_reset(c)
  BY DEF kbuf_occupancy_load, kbuf_ioc_resize, kbuf_ioc_smode, kbuf_ioc_resize_wake
<1>3. UNCHANGED waitVars \/ kbuf_ioc_resize_wake(c)
  BY DEF kbuf_occupancy_load, kbuf_ioc_reset, kbuf_ioc_resize, kbuf_ioc_smode
<1> USE DEF kbuf_ioc_reset, kbuf_ioc_resize, kbuf_ioc_smode, kbuf_ioc_resize_wake
<1>4. UNCHANGED ctlVars \/ CtlCall(c) \/ CtlReturn(c) \/ kbuf_occupancy_load(c)
  OBVIOUS
<1> USE DEF kbuf_occupancy_load
<1>5. UNCHANGED <<locVars, pollVars>>
  OBVIOUS
<1>6. UNCHANGED lock \/ mutex_lock(c) \/ mutex_unlock(c)
  OBVIOUS
<1>7. \E l \in CtlPc : Goto(c, l)
  BY DEF CtlReturn, CtlPc
<1> QED BY <1>1, <1>2, <1>3, <1>4, <1>5, <1>6, <1>7

\* What the bounds of kbuf_internal.h say about the constants used below.
LEMMA SizeFacts ==
  /\ IdxMod \in Nat /\ IdxMod > 0
  /\ KBUF_DEFAULT_NUM_BUFFERS \in Nat /\ KBUF_DEFAULT_NUM_BUFFERS > 0
  /\ KBUF_MAX_NUM_BUFFERS \in Nat /\ KBUF_MAX_BUFFER_SIZE \in Nat
BY SizeAssumption, SMT

\* The clamp of a count to the slot size.
LEMMA Clamped ==
  ASSUME NEW a \in Nat, NEW b \in Nat, NEW c \in Nat, b <= c
  PROVE  AtMost(a, b) <= b /\ AtMost(a, b) <= c
BY SMT DEF AtMost

\* Unsigned index arithmetic (kbuf_ring.c 144, 159) stays in range.
LEMMA IdxRange ==
  ASSUME NEW x \in Int, NEW y \in Int
  PROVE  /\ IdxNext(x) \in 0..(IdxMod - 1)
         /\ IdxDiff(x, y) \in 0..(IdxMod - 1)
BY ModRange, SizeFacts, SMT DEF IdxNext, IdxDiff

\* min() of the caller's count and a length is a length.
LEMMA AtMostType ==
  ASSUME NEW a \in Nat, NEW b \in Nat
  PROVE  AtMost(a, b) \in Nat
BY DEF AtMost

\* A thread only moves to a program point of its own kind of call.
LEMMA GotoType ==
  ASSUME PcType, NEW p \in Threads, NEW l, Goto(p, l),
         p \in IoThreads => l \in IoPc,
         p \in Pollers => l \in PollPc,
         p \in Ctls => l \in CtlPc
  PROVE  PcType'
BY DEF PcType, Goto, Threads, IoThreads

\* Leaving read or write resets the locals to values of their types.
LEMMA ReturnType ==
  ASSUME LocType, NEW p \in IoThreads, Return(p)
  PROVE  LocType'
BY DEF LocType, Return, Garbage, NoPointer, Pointer, Modes

\* Queueing, dequeueing and waking keep the queues typed.
LEMMA WaitType ==
  ASSUME SyncType, NEW p \in IoThreads,
         \/ UNCHANGED waitVars
         \/ Enqueue(p) \/ Dequeue(p)
         \/ wake_up_readers \/ wake_up_writers
  PROVE  /\ read_wq' \subseteq Readers /\ write_wq' \subseteq Writers
         /\ triggered' \subseteq Pollers
BY DEF SyncType, waitVars, Enqueue, Dequeue, wake_up_readers, wake_up_writers,
       Polling

\* The mutex is owned by a thread or by nobody.
LEMMA LockType ==
  ASSUME SyncType, NEW p \in Threads,
         UNCHANGED lock \/ mutex_lock(p) \/ mutex_unlock(p)
  PROVE  lock' \in Threads \cup {NoThread}
BY DEF SyncType, mutex_lock, mutex_unlock

\* The freshly initialised device (kbuf_main.c 334-346) is well typed.
LEMMA TypeInit == Init => TypeOK
<1> SUFFICES ASSUME Init PROVE TypeOK
  OBVIOUS
<1> USE SizeAssumption, RequestAssumption DEF Init
<1>1. DevType
  BY SMT DEF DevType, kbuf_alloc_slots, Slot, Garbage
<1>2. SyncType
  BY DEF SyncType
<1>3. PcType
  BY DEF PcType, IoPc, PollPc, CtlPc, Threads, IoThreads
<1>4. LocType
  BY DEF LocType, Garbage, NoPointer, Pointer, Modes
<1>5. CallType
  BY SMT DEF CallType, NoArg, Arg, Modes
<1>6. HistType
  BY SMT DEF HistType
<1> QED BY <1>1, <1>2, <1>3, <1>4, <1>5, <1>6 DEF TypeOK

\* Every step of a read call keeps the types.
LEMMA ReaderType ==
  ASSUME TypeOK, NEW r \in Readers, ReaderNext(r)
  PROVE  TypeOK'
<1> USE DEF TypeOK
<1>0. r \in IoThreads /\ r \in Threads /\ r \notin Pollers /\ r \notin Ctls
  BY ThreadAssumption DEF Threads, IoThreads
<1>1. DevType'
  <2>1. CASE UNCHANGED devVars
    BY <2>1 DEF DevType, devVars, shapeVars, posVars, idxVars, statVars
  <2>2. CASE kbuf_ring_consume_commit(r)
    <3>0. num_buffers \in Nat \ {0} /\ read_pos + 1 \in Int
      BY SizeFacts, SMT DEF DevType
    <3>1. (read_pos + 1) % num_buffers \in 0..(num_buffers - 1)
      BY <3>0, ModRange
    <3> QED BY <2>2, <3>1, SMT DEF DevType, kbuf_ring_consume_commit, shapeVars, idxVars
  <2>3. CASE kbuf_spsc_consume_publish(r)
    <3>1. IdxNext(idx[r]) \in 0..(IdxMod - 1)
      BY <1>0, IdxRange, SMT DEF LocType
    <3> QED BY <2>3, <3>1 DEF DevType, kbuf_spsc_consume_publish, shapeVars,
                              posVars, statVars
  <2>4. CASE kbuf_spsc_consume_count_store(r)
    <3>1. val[r] + 1 \in Nat
      BY <1>0, SMT DEF LocType
    <3> QED BY <2>4, <3>1 DEF DevType, kbuf_spsc_consume_count_store, shapeVars,
                              posVars, idxVars
  <2> QED BY <2>1, <2>2, <2>3, <2>4, ReaderFrame
<1>2. SyncType'
  BY <1>0, ReaderFrame, WaitType, LockType DEF SyncType, kbuf_read_wake
<1>3. PcType'
  BY <1>0, ReaderFrame, GotoType
<1>4. LocType'
  <2>1. CASE UNCHANGED locVars
    BY <2>1 DEF LocType, locVars
  <2>2. CASE Return(r)
    BY <2>2, <1>0, ReturnType
  <2>3. CASE kbuf_read(r)
    BY <2>3, <1>0, RequestAssumption, SMT DEF LocType, DevType, kbuf_read
  <2>4. CASE kbuf_ring_consume_copy(r)
    <3>1. slots[read_pos].data \in Nat /\ slots[read_pos].len \in Nat
      BY DEF DevType, Slot
    <3>2. AtMost(cnt[r], slots[read_pos].len) \in Nat
      BY <3>1, <1>0, AtMostType DEF LocType
    <3> QED BY <2>4, <1>0, <3>1, <3>2 DEF LocType, kbuf_ring_consume_copy
  <2>5. CASE kbuf_spsc_consume_copy(r)
    <3> DEFINE slot == IF Reachable(r) THEN slots[ptr[r].slot]
                                       ELSE [data |-> Garbage, len |-> 0]
    <3>1. slot.data \in Nat /\ slot.len \in Nat
      <4>1. CASE Reachable(r)
        <5>1. ptr[r].slot \in 0..(num_buffers - 1)
          BY <4>1, <1>0, SizeFacts, SMT DEF DevType, LocType, Pointer, Reachable
        <5> QED BY <4>1, <5>1 DEF DevType, Slot
      <4>2. CASE ~Reachable(r)
        BY <4>2 DEF Garbage
      <4> QED BY <4>1, <4>2
    <3>2. AtMost(cnt[r], slot.len) \in Nat
      BY <3>1, <1>0, AtMostType DEF LocType
    <3>3. /\ msg' = [msg EXCEPT ![r] = slot.data]
          /\ cnt' = [cnt EXCEPT ![r] = AtMost(cnt[r], slot.len)]
          /\ UNCHANGED <<nonblock, lmode, idx, ptr, val>>
      BY <2>5 DEF kbuf_spsc_consume_copy
    <3> HIDE DEF slot
    <3> QED BY <1>0, <3>1, <3>2, <3>3 DEF LocType
  <2>6. CASE kbuf_spsc_consume_slot(r)
    <3>1. Masked(cons_idx) \in Nat
      BY ModRange, SizeFacts, SMT DEF DevType, Masked
    <3>2. [arr |-> arr, slot |-> Masked(cons_idx)] \in Pointer
      BY <3>1 DEF DevType, Pointer
    <3>3. cons_idx \in Nat
      BY SizeFacts, SMT DEF DevType
    <3> QED BY <2>6, <1>0, <3>2, <3>3 DEF LocType, kbuf_spsc_consume_slot
  <2>7. CASE kbuf_spsc_consume_count_load(r)
    BY <2>7, <1>0 DEF LocType, DevType, kbuf_spsc_consume_count_load
  <2> QED BY <2>1, <2>2, <2>3, <2>4, <2>5, <2>6, <2>7, ReaderFrame DEF ReadCopy
<1>5. CallType'
  BY ReaderFrame DEF CallType, pollVars, ctlVars
<1>6. HistType'
  <2>1. CASE UNCHANGED histVars
    BY <2>1 DEF HistType, histVars
  <2>2. CASE \/ kbuf_ring_consume_commit(r)
             \/ kbuf_spsc_consume_publish(r)
    <3> DEFINE m == [msg |-> msg[r], len |-> cnt[r]]
    <3>1. m \in Message
      BY <1>0 DEF LocType, Message
    <3>2. delivered' = Append(delivered, m) /\ UNCHANGED <<sent, base, nextMsg>>
      BY <2>2 DEF kbuf_ring_consume_commit, kbuf_spsc_consume_publish
    <3> HIDE DEF m
    <3> QED BY <3>1, <3>2, SMT DEF HistType
  <2> QED BY <2>1, <2>2, ReaderFrame
<1> QED BY <1>1, <1>2, <1>3, <1>4, <1>5, <1>6

\* Every step of a write call keeps the types.
LEMMA WriterType ==
  ASSUME TypeOK, NEW w \in Writers, WriterNext(w)
  PROVE  TypeOK'
<1> USE DEF TypeOK
<1>0. w \in IoThreads /\ w \in Threads /\ w \notin Pollers /\ w \notin Ctls
  BY ThreadAssumption DEF Threads, IoThreads
<1>7. buffer_size \in Nat
  BY SizeFacts, SMT DEF DevType
<1>1. DevType'
  <2>0. num_buffers \in Nat \ {0} /\ write_pos + 1 \in Int
    BY SizeFacts, SMT DEF DevType
  <2>1. CASE UNCHANGED devVars
    BY <2>1 DEF DevType, devVars, shapeVars, posVars, idxVars, statVars
  <2>2. CASE WriteCopy(w) \/ WriteFault(w)
    <3>1. UNCHANGED <<arr, num_buffers, buffer_size, mode, posVars, idxVars, statVars>>
      BY <2>2 DEF WriteCopy, WriteFault, kbuf_ring_produce_copy,
                  kbuf_ring_produce_fault, kbuf_spsc_produce_copy,
                  kbuf_spsc_produce_fault
    <3>2. \/ slots' = slots
          \/ \E i \in 0..(num_buffers - 1), s \in Slot :
               slots' = [slots EXCEPT ![i] = s]
      <4>1. CASE kbuf_ring_produce_copy(w) \/ kbuf_ring_produce_fault(w)
        <5>1. \A d \in Nat : [data |-> d, len |-> slots[write_pos].len] \in Slot
          BY DEF DevType, Slot
        <5>2. msg[w] \in Nat /\ Garbage \in Nat
          BY <1>0 DEF LocType, Garbage
        <5> QED BY <4>1, <5>1, <5>2 DEF DevType, kbuf_ring_produce_copy,
                                        kbuf_ring_produce_fault
      <4>2. CASE kbuf_spsc_produce_copy(w) \/ kbuf_spsc_produce_fault(w)
        <5>1. CASE ~Reachable(w)
          BY <4>2, <5>1 DEF kbuf_spsc_produce_copy, kbuf_spsc_produce_fault
        <5>2. CASE Reachable(w)
          <6>1. ptr[w].slot \in 0..(num_buffers - 1)
            BY <5>2, <2>0, <1>0, SMT DEF LocType, Pointer, Reachable
          <6>2. /\ [data |-> msg[w], len |-> cnt[w]] \in Slot
                /\ [data |-> Garbage, len |-> slots[ptr[w].slot].len] \in Slot
            BY <6>1, <1>0 DEF DevType, LocType, Slot, Garbage
          <6> QED BY <4>2, <5>2, <6>1, <6>2 DEF kbuf_spsc_produce_copy,
                                                kbuf_spsc_produce_fault
        <5> QED BY <5>1, <5>2
      <4> QED BY <2>2, <4>1, <4>2 DEF WriteCopy, WriteFault
    <3> QED BY <3>1, <3>2 DEF DevType, posVars, idxVars, statVars
  <2>3. CASE kbuf_ring_produce_commit(w)
    <3>1. (write_pos + 1) % num_buffers \in 0..(num_buffers - 1)
      BY <2>0, ModRange
    <3>2. [data |-> slots[write_pos].data, len |-> cnt[w]] \in Slot
      BY <1>0 DEF DevType, LocType, Slot
    <3>3. slots' \in [0..(num_buffers - 1) -> Slot]
      BY <2>3, <3>2 DEF DevType, kbuf_ring_produce_commit
    <3>4. count' \in Int /\ peak_count' \in Int /\ msgs_produced' \in Nat
      <4>1. /\ count' = count + 1
            /\ peak_count' = count' \/ peak_count' = peak_count
            /\ msgs_produced' = msgs_produced + 1
        BY <2>3 DEF kbuf_ring_produce_commit
      <4>2. count \in Int /\ peak_count \in Int /\ msgs_produced \in Nat
        BY <1>0 DEF DevType
      <4> QED BY <4>1, <4>2, SMT
    <3> QED BY <2>3, <3>1, <3>3, <3>4 DEF DevType, kbuf_ring_produce_commit, idxVars
  <2>4. CASE kbuf_spsc_produce_publish(w)
    <3>1. IdxNext(idx[w]) \in 0..(IdxMod - 1)
      BY <1>0, IdxRange, SMT DEF LocType
    <3> QED BY <2>4, <3>1 DEF DevType, kbuf_spsc_produce_publish, shapeVars,
                              posVars, statVars
  <2>5. CASE kbuf_spsc_produce_count_store(w)
    <3>1. val[w] + 1 \in Nat
      BY <1>0, SMT DEF LocType
    <3> QED BY <2>5, <3>1 DEF DevType, kbuf_spsc_produce_count_store, shapeVars,
                              posVars, idxVars
  <2>6. CASE kbuf_spsc_produce_peak(w)
    <3>1. IdxNext(idx[w]) \in Int /\ cons_idx \in Int
      BY <1>0, IdxRange, SizeFacts, SMT DEF LocType, DevType
    <3>2. IdxDiff(IdxNext(idx[w]), cons_idx) \in Int
      BY <3>1, IdxRange, SizeFacts, SMT
    <3> QED BY <2>6, <3>2 DEF DevType, kbuf_spsc_produce_peak, shapeVars,
                              posVars, idxVars
  <2> QED BY <2>1, <2>2, <2>3, <2>4, <2>5, <2>6, WriterFrame
<1>2. SyncType'
  BY <1>0, WriterFrame, WaitType, LockType DEF SyncType, kbuf_write_wake
<1>3. PcType'
  BY <1>0, WriterFrame, GotoType
<1>4. LocType'
  <2>1. CASE UNCHANGED locVars
    BY <2>1 DEF LocType, locVars
  <2>2. CASE Return(w)
    BY <2>2, <1>0, ReturnType
  <2>3. CASE kbuf_write(w)
    <3>1. PICK n \in WriteCounts, nb \in NonblockReqs :
            /\ cnt' = [cnt EXCEPT ![w] =
                         IF mode = "spsc" THEN AtMost(n, buffer_size) ELSE n]
            /\ nonblock' = [nonblock EXCEPT ![w] = nb]
      BY <2>3 DEF kbuf_write
    <3>2. AtMost(n, buffer_size) \in Nat /\ n \in Nat /\ nb \in BOOLEAN
      BY <1>7, RequestAssumption, AtMostType
    <3>3. /\ lmode' = [lmode EXCEPT ![w] = mode]
          /\ msg' = [msg EXCEPT ![w] = nextMsg]
          /\ UNCHANGED <<idx, ptr, val>>
      BY <2>3 DEF kbuf_write
    <3> QED BY <1>0, <3>1, <3>2, <3>3 DEF LocType, DevType, HistType
  <2>4. CASE kbuf_write_blocking_lock(w)
    <3>1. AtMost(cnt[w], buffer_size) \in Nat
      BY <1>0, <1>7, AtMostType DEF LocType
    <3> QED BY <2>4, <3>1, <1>0 DEF LocType, kbuf_write_blocking_lock
  <2>5. CASE kbuf_spsc_produce_slot(w)
    <3>1. Masked(prod_idx) \in Nat
      BY ModRange, SizeFacts, SMT DEF DevType, Masked
    <3>2. [arr |-> arr, slot |-> Masked(prod_idx)] \in Pointer
      BY <3>1 DEF DevType, Pointer
    <3>3. prod_idx \in Nat
      BY SizeFacts, SMT DEF DevType
    <3> QED BY <2>5, <1>0, <3>2, <3>3 DEF LocType, kbuf_spsc_produce_slot
  <2>6. CASE kbuf_spsc_produce_count_load(w)
    BY <2>6, <1>0 DEF LocType, DevType, kbuf_spsc_produce_count_load
  <2> QED BY <2>1, <2>2, <2>3, <2>4, <2>5, <2>6, WriterFrame
<1>5. CallType'
  BY WriterFrame DEF CallType, pollVars, ctlVars
<1>6. HistType'
  <2>1. CASE UNCHANGED histVars
    BY <2>1 DEF HistType, histVars
  <2>2. CASE kbuf_write(w)
    BY <2>2, SMT DEF HistType, kbuf_write
  <2>3. CASE kbuf_ring_produce_commit(w) \/ kbuf_spsc_produce_publish(w)
    <3> DEFINE m == [msg |-> msg[w], len |-> cnt[w]]
    <3>1. m \in Message
      BY <1>0 DEF LocType, Message
    <3>2. sent' = Append(sent, m) /\ UNCHANGED <<delivered, base, nextMsg>>
      BY <2>3 DEF kbuf_ring_produce_commit, kbuf_spsc_produce_publish
    <3> HIDE DEF m
    <3> QED BY <3>1, <3>2, SMT DEF HistType
  <2> QED BY <2>1, <2>2, <2>3, WriterFrame
<1> QED BY <1>1, <1>2, <1>3, <1>4, <1>5, <1>6

\* Every step of a poll call keeps the types.
LEMMA PollerType ==
  ASSUME TypeOK, NEW p \in Pollers, PollerNext(p)
  PROVE  TypeOK'
<1> USE DEF TypeOK
<1>0. p \in Threads /\ p \notin IoThreads /\ p \notin Ctls
  BY ThreadAssumption DEF Threads, IoThreads
<1>1. DevType' /\ LocType' /\ HistType'
  BY PollerFrame DEF DevType, LocType, HistType, devVars, shapeVars, posVars,
                     idxVars, statVars, locVars, histVars
<1>2. SyncType'
  BY PollerFrame DEF SyncType
<1>3. PcType'
  BY <1>0, PollerFrame, GotoType
<1>4. CallType'
  <2>1. want' \in [Pollers -> {"in", "out"}]
    BY PollerFrame DEF CallType
  <2>2. pval' \in [Pollers -> Nat]
    <3>1. CASE kbuf_poll_spsc_load(p)
      BY <3>1, SizeFacts, SMT DEF CallType, DevType, kbuf_poll_spsc_load
    <3> QED BY <3>1, PollerFrame, SMT DEF CallType
  <2> QED BY <2>1, <2>2, PollerFrame DEF CallType, ctlVars
<1> QED BY <1>1, <1>2, <1>3, <1>4

\* Every step of an ioctl keeps the types; RESIZE and SMODE restart the positions
\* and indices inside the new geometry.
LEMMA CtlType ==
  ASSUME TypeOK, NEW c \in Ctls, CtlNext(c)
  PROVE  TypeOK'
<1> USE DEF TypeOK
<1>0. c \in Threads /\ c \notin IoThreads /\ c \notin Pollers
  BY ThreadAssumption DEF Threads, IoThreads
<1>1. DevType'
  <2>1. CASE UNCHANGED devVars
    BY <2>1 DEF DevType, devVars, shapeVars, posVars, idxVars, statVars
  <2>2. CASE kbuf_ioc_reset(c)
    BY <2>2 DEF DevType, kbuf_ioc_reset, shapeVars, posVars, idxVars
  <2>3. CASE kbuf_ioc_resize(c)
    <3>1. /\ arg[c].num_buffers \in 1..KBUF_MAX_NUM_BUFFERS
          /\ arg[c].buffer_size \in 1..KBUF_MAX_BUFFER_SIZE
      BY <2>3 DEF CallType, kbuf_ioc_resize
    <3>2. kbuf_alloc_slots(arg[c].num_buffers) \in
            [0..(arg[c].num_buffers - 1) -> Slot]
      BY DEF kbuf_alloc_slots, Slot, Garbage
    <3>3. 0 \in 0..(arg[c].num_buffers - 1)
      <4>1. arg[c].num_buffers \in 1..KBUF_MAX_NUM_BUFFERS
        BY <3>1
      <4> QED BY <4>1, SizeFacts, SMT
    <3>4. 1 - arr \in {0, 1}
      BY SMT DEF DevType
    <3>5. /\ slots' = kbuf_alloc_slots(arg[c].num_buffers) /\ arr' = 1 - arr
          /\ num_buffers' = arg[c].num_buffers /\ buffer_size' = arg[c].buffer_size
          /\ read_pos' = 0 /\ write_pos' = 0 /\ count' = 0
          /\ prod_idx' = 0 /\ cons_idx' = 0 /\ peak_count' = 0
          /\ UNCHANGED <<mode, msgs_produced, msgs_consumed>>
      BY <2>3 DEF kbuf_ioc_resize
    <3>6. slots' \in [0..(num_buffers' - 1) -> Slot]
      BY <3>2, <3>5
    <3>7. /\ num_buffers' \in 1..KBUF_MAX_NUM_BUFFERS
          /\ buffer_size' \in 1..KBUF_MAX_BUFFER_SIZE
          /\ read_pos' \in 0..(num_buffers' - 1) /\ write_pos' \in 0..(num_buffers' - 1)
      BY <3>1, <3>3, <3>5
    <3>8. prod_idx' \in 0..(IdxMod - 1) /\ cons_idx' \in 0..(IdxMod - 1)
      BY <3>5, SizeFacts, SMT
    <3>9. /\ arr' \in {0, 1} /\ mode' \in Modes
          /\ count' \in Int /\ peak_count' \in Int
          /\ msgs_produced' \in Nat /\ msgs_consumed' \in Nat
      BY <3>4, <3>5, SMT DEF DevType
    <3> QED BY <3>6, <3>7, <3>8, <3>9 DEF DevType
  <2>4. CASE kbuf_ioc_smode(c)
    <3>1. arg[c].mode \in Modes
      BY DEF CallType, Arg
    <3>2. 0 \in 0..(num_buffers - 1)
      BY SizeFacts, SMT DEF DevType
    <3>3. /\ read_pos' = 0 /\ write_pos' = 0 /\ count' = 0
          /\ prod_idx' = 0 /\ cons_idx' = 0 /\ mode' = arg[c].mode
          /\ UNCHANGED <<slots, arr, num_buffers, buffer_size, peak_count,
                        msgs_produced, msgs_consumed>>
      BY <2>4 DEF kbuf_ioc_smode, statVars
    <3> QED BY <3>1, <3>2, <3>3, SizeFacts, SMT DEF DevType
  <2> QED BY <2>1, <2>2, <2>3, <2>4, CtlFrame
<1>2. SyncType'
  BY <1>0, CtlFrame, LockType DEF SyncType, waitVars, kbuf_ioc_resize_wake,
                                  wake_up_writers, Polling
<1>3. PcType'
  BY <1>0, CtlFrame, GotoType
<1>4. LocType' /\ want' = want /\ pval' = pval
  BY CtlFrame DEF LocType, locVars, pollVars
<1>5. CallType'
  <2>0. NoArg \in Arg /\ NoArg.op # "RESIZE"
    BY DEF NoArg, Arg, Modes
  <2>1. CASE UNCHANGED ctlVars
    BY <2>1, <1>4 DEF CallType, ctlVars
  <2>2. CASE CtlReturn(c)
    BY <2>2, <1>4, <2>0, SMT DEF CallType, CtlReturn
  <2>3. CASE kbuf_occupancy_load(c)
    <3>1. occ' = [occ EXCEPT ![c] = IF mode = "spsc" THEN prod_idx ELSE count]
          /\ arg' = arg
      BY <2>3 DEF kbuf_occupancy_load
    <3>2. prod_idx \in Int /\ count \in Int
      BY SizeFacts, SMT DEF DevType
    <3> QED BY <1>4, <3>1, <3>2 DEF CallType
  <2>4. CASE CtlCall(c)
    <3>1. \E a \in Arg :
            /\ a.op = "RESIZE" => /\ a.num_buffers \in 1..KBUF_MAX_NUM_BUFFERS
                                  /\ a.buffer_size \in 1..KBUF_MAX_BUFFER_SIZE
            /\ CtlStart(c, a)
      <4>1. CASE kbuf_ioc_stats_call(c)
        BY <4>1 DEF kbuf_ioc_stats_call, NoArg, Arg, Modes
      <4>2. CASE kbuf_ioc_smode_call(c)
        BY <4>2 DEF kbuf_ioc_smode_call, NoArg, Arg, Modes
      <4>3. CASE kbuf_ioc_resize_call(c)
        <5>1. PICK n \in NumBuffersReqs, s \in BufferSizeReqs :
                /\ ResizeValid(n, s)
                /\ CtlStart(c, [op |-> "RESIZE", num_buffers |-> n,
                                buffer_size |-> s, mode |-> mode,
                                switching |-> ResizeApart /\ mode = "spsc"])
          BY <4>3 DEF kbuf_ioc_resize_call
        <5>2. n \in Nat /\ s \in Nat
          BY RequestAssumption
        <5> DEFINE sw == (ResizeApart /\ mode = "spsc")
                   a == [op |-> "RESIZE", num_buffers |-> n, buffer_size |-> s,
                         mode |-> mode, switching |-> sw]
        <5>3. CtlStart(c, a)
          BY <5>1
        <5>4. a \in Arg
          <6>1. sw \in BOOLEAN
            BY RequestAssumption
          <6> HIDE DEF sw
          <6> QED BY <5>2, <6>1 DEF Arg, DevType
        <5> QED BY <5>1, <5>3, <5>4 DEF ResizeValid
      <4> QED BY <2>4, <4>1, <4>2, <4>3 DEF CtlCall
    <3> QED BY <3>1, <1>4, SMT DEF CallType, CtlStart
  <2> QED BY <2>1, <2>2, <2>3, <2>4, CtlFrame
<1>6. HistType'
  <2>1. CASE UNCHANGED histVars
    BY <2>1 DEF HistType, histVars
  <2>2. CASE kbuf_ioc_reset(c)
    <3>1. /\ base' = [sent |-> Len(sent), delivered |-> Len(delivered)]
          /\ UNCHANGED <<sent, delivered, nextMsg>>
      BY <2>2 DEF kbuf_ioc_reset
    <3>2. Len(sent) \in Nat /\ Len(delivered) \in Nat
      BY SMT DEF HistType
    <3> QED BY <3>1, <3>2 DEF HistType
  <2> QED BY <2>1, <2>2, CtlFrame
<1> QED BY <1>1, <1>2, <1>3, <1>4, <1>5, <1>6

\* Every field and every local keeps its type, and the positions, the indices
\* and the slot array keep fitting the geometry, whatever the threads do
\* (RESIZE swaps the array and the geometry together, kbuf_ioctl.c 103-113).
THEOREM TypeCorrect == Spec => []TypeOK
<1>1. TypeOK /\ [Next]_vars => TypeOK'
  <2> SUFFICES ASSUME TypeOK, [Next]_vars PROVE TypeOK'
    OBVIOUS
  <2>1. CASE Next
    BY <2>1, ReaderType, WriterType, PollerType, CtlType DEF Next
  <2>2. CASE UNCHANGED vars
    <3> USE <2>2 DEF vars, TypeOK
    <3>1. DevType' BY DEF DevType, devVars, shapeVars, posVars, idxVars, statVars
    <3>2. SyncType' BY DEF SyncType, waitVars
    <3>3. PcType' BY DEF PcType
    <3>4. LocType' BY DEF LocType, locVars
    <3>5. CallType' BY DEF CallType, pollVars, ctlVars
    <3>6. HistType' BY DEF HistType, histVars
    <3> QED BY <3>1, <3>2, <3>3, <3>4, <3>5, <3>6
  <2> QED BY <2>1, <2>2
<1> QED BY <1>1, TypeInit, PTL DEF Spec

\* How one step of p moves the mutex and p's locked section together.
LockStep(p) ==
  \/ lock' = lock /\ (Holds(p)' <=> Holds(p))
  \/ lock = NoThread /\ lock' = p /\ Holds(p)'
  \/ Holds(p) /\ ~Holds(p)' /\ lock' = NoThread

\* Every step of a read call enters and leaves the mutex as LockStep says.
LEMMA ReaderLockStep ==
  ASSUME PcType, NEW r \in Readers, ReaderNext(r)
  PROVE  LockStep(r)
<1>0. pc \in [Threads -> IoPc \cup PollPc \cup CtlPc] /\ r \in Threads
  BY DEF PcType, Threads
<1> USE <1>0 DEF LockStep, Holds, Goto, Return
<1>1. CASE kbuf_read(r)
  BY <1>1 DEF kbuf_read
<1>2. CASE ReadLock(r)
  BY <1>2 DEF ReadLock, kbuf_read_blocking_lock, mutex_lock
<1>3. CASE ReadCopy(r)
  BY <1>3 DEF ReadCopy, kbuf_ring_consume_copy, kbuf_spsc_consume_copy
<1>4. CASE kbuf_read_blocking_check(r)
  BY <1>4 DEF kbuf_read_blocking_check, mutex_unlock
<1>5. CASE kbuf_ring_consume_commit(r)
  BY <1>5 DEF kbuf_ring_consume_commit, mutex_unlock
<1>6. CASE \/ kbuf_read_spsc_check(r) \/ kbuf_spsc_consume_slot(r)
           \/ kbuf_spsc_consume_publish(r) \/ kbuf_spsc_consume_count_load(r)
           \/ kbuf_spsc_consume_count_store(r) \/ kbuf_read_wake(r)
  <2>1. CASE kbuf_read_spsc_check(r)
    BY <2>1 DEF kbuf_read_spsc_check
  <2>2. CASE kbuf_spsc_consume_slot(r) \/ kbuf_spsc_consume_publish(r)
    BY <2>2 DEF kbuf_spsc_consume_slot, kbuf_spsc_consume_publish
  <2>3. CASE kbuf_spsc_consume_count_load(r) \/ kbuf_spsc_consume_count_store(r)
    BY <2>3 DEF kbuf_spsc_consume_count_load, kbuf_spsc_consume_count_store
  <2>4. CASE kbuf_read_wake(r)
    BY <2>4 DEF kbuf_read_wake
  <2> QED BY <1>6, <2>1, <2>2, <2>3, <2>4
<1>7. CASE WaitStep(r) \/ Interrupt(r)
  BY <1>7, SMT DEF WaitStep, Interrupt, prepare_to_wait, wait_event_test,
              wait_event_woken, wait_event_signal, kbuf_blocking_lock_signal
<1>8. CASE ReadFault(r)
  BY <1>8 DEF ReadFault, kbuf_ring_consume_fault, kbuf_spsc_consume_fault, mutex_unlock
<1> QED BY <1>1, <1>2, <1>3, <1>4, <1>5, <1>6, <1>7, <1>8 DEF ReaderNext, ReadStep

\* The same for a write call.
LEMMA WriterLockStep ==
  ASSUME PcType, NEW w \in Writers, WriterNext(w)
  PROVE  LockStep(w)
<1>0. pc \in [Threads -> IoPc \cup PollPc \cup CtlPc] /\ w \in Threads
  BY DEF PcType, Threads
<1> USE <1>0 DEF LockStep, Holds, Goto, Return
<1>1. CASE kbuf_write(w)
  BY <1>1 DEF kbuf_write
<1>2. CASE WriteLock(w)
  BY <1>2 DEF WriteLock, kbuf_write_blocking_lock, kbuf_write_blocking_relock,
              mutex_lock
<1>3. CASE WriteCopy(w)
  BY <1>3 DEF WriteCopy, kbuf_ring_produce_copy, kbuf_spsc_produce_copy
<1>4. CASE kbuf_write_blocking_check(w)
  BY <1>4 DEF kbuf_write_blocking_check, mutex_unlock
<1>5. CASE kbuf_ring_produce_commit(w)
  BY <1>5 DEF kbuf_ring_produce_commit, mutex_unlock
<1>6. CASE \/ kbuf_write_spsc_check(w) \/ kbuf_spsc_produce_slot(w)
           \/ kbuf_spsc_produce_publish(w) \/ kbuf_spsc_produce_count_load(w)
           \/ kbuf_spsc_produce_count_store(w) \/ kbuf_spsc_produce_peak(w)
           \/ kbuf_write_wake(w)
  BY <1>6 DEF kbuf_write_spsc_check, kbuf_spsc_produce_slot,
              kbuf_spsc_produce_publish, kbuf_spsc_produce_count_load,
              kbuf_spsc_produce_count_store, kbuf_spsc_produce_peak, kbuf_write_wake
<1>7. CASE WaitStep(w) \/ Interrupt(w)
  BY <1>7, SMT DEF WaitStep, Interrupt, prepare_to_wait, wait_event_test,
              wait_event_woken, wait_event_signal, kbuf_blocking_lock_signal
<1>8. CASE WriteFault(w)
  BY <1>8 DEF WriteFault, kbuf_ring_produce_fault, kbuf_spsc_produce_fault, mutex_unlock
<1> QED BY <1>1, <1>2, <1>3, <1>4, <1>5, <1>6, <1>7, <1>8 DEF WriterNext, WriteStep

\* The same for a poll call, which takes and drops the mutex in one step.
LEMMA PollerLockStep ==
  ASSUME PcType, NEW p \in Pollers, PollerNext(p)
  PROVE  LockStep(p)
<1>1. p \in Threads /\ pc \in [Threads -> IoPc \cup PollPc \cup CtlPc]
  BY DEF PcType, Threads
<1>2. lock' = lock /\ \E l \in PollPc : pc' = [pc EXCEPT ![p] = l]
  BY PollerFrame DEF Goto
<1> QED BY <1>1, <1>2 DEF PcType, LockStep, Holds, PollPc

\* The same for an ioctl.
LEMMA CtlLockStep ==
  ASSUME PcType, NEW c \in Ctls, CtlNext(c)
  PROVE  LockStep(c)
<1>0. pc \in [Threads -> IoPc \cup PollPc \cup CtlPc] /\ c \in Threads
  BY DEF PcType, Threads
<1> USE <1>0 DEF LockStep, Holds, Goto, CtlReturn
<1>1. CASE CtlCall(c)
  BY <1>1 DEF CtlCall, kbuf_ioc_stats_call, kbuf_ioc_smode_call,
              kbuf_ioc_resize_call, CtlStart
<1>2. CASE kbuf_ioctl_lock(c)
  BY <1>2 DEF kbuf_ioctl_lock, mutex_lock
<1>3. CASE kbuf_occupancy_load(c) \/ kbuf_ioc_resize_wake(c)
  BY <1>3 DEF kbuf_occupancy_load, kbuf_ioc_resize_wake
<1>4. CASE kbuf_ioc_getstats(c) \/ kbuf_ioc_reset(c) \/ kbuf_ioc_refuse(c)
  BY <1>4 DEF kbuf_ioc_getstats, kbuf_ioc_reset, kbuf_ioc_refuse, mutex_unlock
<1>5. CASE kbuf_ioc_resize(c) \/ kbuf_ioc_smode(c)
  BY <1>5 DEF kbuf_ioc_resize, kbuf_ioc_smode, mutex_unlock
<1> QED BY <1>1, <1>2, <1>3, <1>4, <1>5 DEF CtlNext, CtlStep

\* One step of one thread keeps the discipline of all.
LEMMA LockStepKeeps ==
  ASSUME TypeOK, MutexDiscipline, NEW p \in Threads, NEW l, Goto(p, l), LockStep(p)
  PROVE  MutexDiscipline'
<1>1. \A q \in Threads \ {p} : Holds(q)' <=> Holds(q)
  BY DEF TypeOK, PcType, Goto, Holds
<1>2. p # NoThread /\ \A q \in Threads : q # NoThread
  BY ThreadAssumption
<1>3. \A q \in Threads : Holds(q) <=> lock = q
  BY DEF MutexDiscipline
<1> SUFFICES ASSUME NEW q \in Threads PROVE Holds(q)' <=> lock' = q
  BY DEF MutexDiscipline
<1>4. CASE lock' = lock /\ (Holds(p)' <=> Holds(p))
  BY <1>1, <1>3, <1>4
<1>5. CASE lock = NoThread /\ lock' = p /\ Holds(p)'
  BY <1>1, <1>2, <1>3, <1>5
<1>6. CASE Holds(p) /\ ~Holds(p)' /\ lock' = NoThread
  BY <1>1, <1>2, <1>3, <1>6
<1> QED BY <1>4, <1>5, <1>6 DEF LockStep

\* The mutex is owned by a thread exactly while the thread is between its
\* mutex_lock and its mutex_unlock, on every path of kbuf_main.c and
\* kbuf_ioctl.c, for any number of threads.
THEOREM MutexCorrect == Spec => []MutexDiscipline
<1>1. Init => MutexDiscipline
  <2> SUFFICES ASSUME Init, NEW p \in Threads PROVE Holds(p) <=> lock = p
    BY DEF MutexDiscipline
  <2>1. pc[p] = "idle" /\ lock = NoThread
    BY DEF Init
  <2>2. p # NoThread
    BY ThreadAssumption
  <2> QED BY <2>1, <2>2 DEF Holds
<1>2. TypeOK /\ MutexDiscipline /\ [Next]_vars => MutexDiscipline'
  <2> SUFFICES ASSUME TypeOK, MutexDiscipline, [Next]_vars PROVE MutexDiscipline'
    OBVIOUS
  <2>1. CASE Next
    <3>1. ASSUME NEW r \in Readers, ReaderNext(r) PROVE MutexDiscipline'
      BY <3>1, ReaderFrame, ReaderLockStep, LockStepKeeps DEF TypeOK, Threads
    <3>2. ASSUME NEW w \in Writers, WriterNext(w) PROVE MutexDiscipline'
      BY <3>2, WriterFrame, WriterLockStep, LockStepKeeps DEF TypeOK, Threads
    <3>3. ASSUME NEW p \in Pollers, PollerNext(p) PROVE MutexDiscipline'
      BY <3>3, PollerFrame, PollerLockStep, LockStepKeeps DEF TypeOK, Threads
    <3>4. ASSUME NEW c \in Ctls, CtlNext(c) PROVE MutexDiscipline'
      BY <3>4, CtlFrame, CtlLockStep, LockStepKeeps DEF TypeOK, Threads
    <3> QED BY <2>1, <3>1, <3>2, <3>3, <3>4 DEF Next
  <2>2. CASE UNCHANGED vars
    BY <2>2 DEF vars, MutexDiscipline, Holds
  <2> QED BY <2>1, <2>2
<1> QED BY <1>1, <1>2, TypeCorrect, PTL DEF Spec

-----------------------------------------------------------------------------
(* No wake-up is lost, for any number of threads, under the contract that  *)
(* the SPSC discipline puts on its callers. WakeupInv is inductive:        *)
(* ReadSummary, WriteSummary and CtlSummary say what a step of one thread  *)
(* does to the few variables the invariant reads, and the invariant is     *)
(* shown to survive any step that satisfies its summary.                   *)

\* How a step moves a read or write call p through its discipline.
IoMove(p) ==
  \/ /\ pc[p] = "idle" /\ IoAllowed
     /\ lmode' = [lmode EXCEPT ![p] = mode]
     /\ Goto(p, IF mode = "spsc" THEN "s_check" ELSE "b_lock")
  \/ pc[p] # "idle" /\ Return(p)
  \/ /\ pc[p] # "idle" /\ lmode' = lmode
     /\ \E l \in IoPc \ {"idle"} :
          /\ Goto(p, l)
          /\ l \in BlockingPc => pc[p] \in BlockingPc \/ lmode[p] = "blocking"
          /\ l \in SpscPc => pc[p] \in SpscPc \/ lmode[p] = "spsc"

Critical(p) == pc[p] \in {"b_copy", "b_commit"}

ReadSummary(r) ==
  /\ UNCHANGED <<mode, num_buffers, arg>>
  /\ \/ UNCHANGED <<count, prod_idx, cons_idx>>
     \/ /\ pc[r] = "b_commit" /\ Goto(r, "wake")
        /\ count' = count - 1 /\ UNCHANGED <<prod_idx, cons_idx>>
     \/ /\ pc[r] = "s_publish" /\ Goto(r, "s_load")
        /\ UNCHANGED <<count, prod_idx>>
  /\ pc'[r] = "sleep" => /\ ~Ready(r)
                         /\ UNCHANGED <<count, prod_idx, cons_idx, lmode>>
  /\ Critical(r)' => UNCHANGED count /\ (Critical(r) \/ count # 0)
  /\ WakePending(r) => \/ WakePending(r)'
                       \/ write_wq' = {} /\ triggered' = triggered \cup Polling
  /\ read_wq' \subseteq read_wq \cup {r} /\ write_wq' \subseteq write_wq
  /\ triggered \subseteq triggered'

WriteSummary(w) ==
  /\ UNCHANGED <<mode, num_buffers, arg>>
  /\ \/ UNCHANGED <<count, prod_idx, cons_idx>>
     \/ /\ pc[w] = "b_commit" /\ Goto(w, "wake")
        /\ count' = count + 1 /\ UNCHANGED <<prod_idx, cons_idx>>
     \/ /\ pc[w] = "s_publish" /\ Goto(w, "s_load")
        /\ UNCHANGED <<count, cons_idx>>
  /\ pc'[w] = "sleep" => /\ ~Ready(w)
                         /\ UNCHANGED <<count, prod_idx, cons_idx, lmode>>
  /\ Critical(w)' => UNCHANGED count /\ (Critical(w) \/ count # num_buffers)
  /\ WakePending(w) => \/ WakePending(w)'
                       \/ read_wq' = {} /\ triggered' = triggered \cup Polling
  /\ read_wq' \subseteq read_wq /\ write_wq' \subseteq write_wq \cup {w}
  /\ triggered \subseteq triggered'

\* RESIZE empties the ring for good measure and owes a wake-up, its wake-up
\* reaches writers and pollers, SMODE runs while nobody is in a call, and no
\* other step of an ioctl concerns the ring.
CtlSummary(c) ==
  \/ /\ Holds(c) /\ Goto(c, "c_wake")
     /\ count' = 0 /\ prod_idx' = 0 /\ cons_idx' = 0
     /\ UNCHANGED <<mode, waitVars, ctlVars>>
  \/ /\ ~IoInFlight /\ Holds(c) /\ Goto(c, "idle")
     /\ "SMODE" \in Ops
     /\ count' = 0 /\ UNCHANGED <<num_buffers, waitVars>>
     /\ arg' = [arg EXCEPT ![c] = NoArg]
  \/ /\ Goto(c, "idle") /\ arg' = [arg EXCEPT ![c] = NoArg]
     /\ write_wq' = {} /\ read_wq' = read_wq
     /\ triggered' = triggered \cup Polling
     /\ UNCHANGED <<count, num_buffers, prod_idx, cons_idx, mode>>
  \/ /\ pc[c] # "c_wake"
     /\ \E l \in CtlPc \ {"c_wake"} : Goto(c, l)
     /\ UNCHANGED <<count, num_buffers, prod_idx, cons_idx, mode, waitVars>>
     /\ \/ arg' = arg /\ pc[c] # "idle"
        \/ arg' = [arg EXCEPT ![c] = NoArg]
        \/ \E a \in Arg : /\ arg' = [arg EXCEPT ![c] = a] /\ a.op \in Ops
                          /\ a.op = "SMODE" => a.switching
                          /\ a.switching => ~IoInFlight

\* Two threads are never inside the mutex together.
LEMMA Alone ==
  ASSUME MutexDiscipline, NEW p \in Threads, NEW q \in Threads, Holds(p), Holds(q)
  PROVE  p = q
BY DEF MutexDiscipline

-----------------------------------------------------------------------------
\* Nobody sleeps on a fresh device.
LEMMA WakeupInit == Init => WakeupInv
<1> SUFFICES ASSUME Init PROVE WakeupInv
  OBVIOUS
<1>1. \A p \in Threads : pc[p] = "idle"
  BY DEF Init
<1>2. ContractInv
  BY <1>1 DEF Init, ContractInv, Switching, Threads, IoThreads, SpscUsed, NoArg,
              BlockingPc, SpscPc
<1>3. SectionInv
  <2>1. count = 0 /\ num_buffers = KBUF_DEFAULT_NUM_BUFFERS
    BY DEF Init
  <2> QED BY <1>1, <2>1, SizeFacts, SMT DEF SectionInv, Threads
<1>4. PollLoadInv /\ NoLostWakeup /\ NoLostPollWakeup
  BY <1>1 DEF PollLoadInv, NoLostWakeup, NoLostPollWakeup, Asleep, Threads
<1> QED BY <1>2, <1>3, <1>4 DEF WakeupInv

\* Every step keeps the invariant. First the moves of a call and the summaries,
\* then one step of the proof for each kind of thread.
LEMMA WakeupNext ==
  Contract /\ TypeOK /\ MutexDiscipline /\ WakeupInv /\ [Next]_vars => WakeupInv'
\* The moves of a read call.
<1>ReaderMove.
      ASSUME TypeOK, NEW r \in Readers, ReaderNext(r)
      PROVE  IoMove(r)
  <2> USE <1>ReaderMove
  <2>0. lmode[r] \in {"blocking", "spsc"}
    BY DEF TypeOK, LocType, IoThreads, Modes
  <2> USE DEF IoMove, BlockingPc, SpscPc, IoPc
  <2>1. CASE kbuf_read(r)
    BY <2>1, SMTT(30) DEF kbuf_read
  <2>2. CASE ReadLock(r)
    BY <2>2, SMTT(30) DEF ReadLock, kbuf_read_blocking_lock, locVars
  <2>3. CASE ReadCopy(r)
    <3>1. /\ lmode' = lmode
          /\ \/ pc[r] = "b_copy" /\ Goto(r, "b_commit")
             \/ pc[r] = "s_copy" /\ Goto(r, "s_publish")
      BY <2>3 DEF ReadCopy, kbuf_ring_consume_copy, kbuf_spsc_consume_copy
    <3> QED BY <3>1, SMT
  <2>4. CASE kbuf_read_blocking_check(r) \/ kbuf_read_spsc_check(r)
    <3>1. \/ pc[r] \in {"b_check", "s_check"} /\ Return(r)
          \/ /\ lmode' = lmode
             /\ \/ pc[r] \in {"b_check", "s_check"} /\ Goto(r, "wait")
                \/ pc[r] = "b_check" /\ Goto(r, "b_copy")
                \/ pc[r] = "s_check" /\ Goto(r, "s_slot")
      BY <2>4 DEF kbuf_read_blocking_check, kbuf_read_spsc_check, locVars
    <3> QED BY <3>1, SMT
  <2>5. CASE kbuf_ring_consume_commit(r) \/ kbuf_spsc_consume_publish(r)
    BY <2>5, SMTT(30) DEF kbuf_ring_consume_commit, kbuf_spsc_consume_publish, locVars
  <2>6. CASE \/ kbuf_spsc_consume_slot(r) \/ kbuf_spsc_consume_count_load(r)
             \/ kbuf_spsc_consume_count_store(r) \/ kbuf_read_wake(r)
    BY <2>6 DEF kbuf_spsc_consume_slot, kbuf_spsc_consume_count_load,
                kbuf_spsc_consume_count_store, kbuf_read_wake, locVars
  <2>7. CASE WaitStep(r) \/ Interrupt(r)
    <3>1. CASE WaitStep(r)
      <4>1. /\ lmode' = lmode
            /\ \/ pc[r] = "wait" /\ Goto(r, "test")
               \/ pc[r] = "test" /\ lmode[r] = "spsc" /\ Goto(r, "s_check")
               \/ pc[r] = "test" /\ lmode[r] # "spsc" /\ Goto(r, "b_relock")
               \/ pc[r] = "test" /\ Goto(r, "sleep")
               \/ pc[r] = "sleep" /\ Goto(r, "wait")
        BY <3>1 DEF WaitStep, prepare_to_wait, wait_event_test, wait_event_woken, locVars
      <4> QED BY <2>0, <4>1, SMT
    <3>2. CASE Interrupt(r)
      <4>1. \/ pc[r] \in {"b_lock", "b_relock", "test"} /\ Return(r)
            \/ lmode' = lmode /\ pc[r] = "sleep" /\ Goto(r, "test")
        BY <3>2 DEF Interrupt, wait_event_signal, kbuf_blocking_lock_signal, locVars
      <4> QED BY <4>1, SMT
    <3> QED BY <2>7, <3>1, <3>2
  <2>8. CASE ReadFault(r)
    BY <2>8, SMTT(30) DEF ReadFault, kbuf_ring_consume_fault, kbuf_spsc_consume_fault
  <2> QED BY <2>1, <2>2, <2>3, <2>4, <2>5, <2>6, <2>7, <2>8 DEF ReaderNext, ReadStep

\* The moves of a write call.
<1>WriterMove.
      ASSUME TypeOK, NEW w \in Writers, WriterNext(w)
      PROVE  IoMove(w)
  <2> USE <1>WriterMove
  <2>0. lmode[w] \in {"blocking", "spsc"}
    BY DEF TypeOK, LocType, IoThreads, Modes
  <2> USE DEF IoMove, BlockingPc, SpscPc, IoPc
  <2>1. CASE kbuf_write(w)
    BY <2>1, SMTT(30) DEF kbuf_write
  <2>2. CASE WriteLock(w)
    <3>1. CASE kbuf_write_blocking_lock(w)
      BY <3>1, SMTT(30) DEF kbuf_write_blocking_lock, locVars
    <3>2. CASE kbuf_write_blocking_relock(w)
      BY <3>2, SMTT(30) DEF kbuf_write_blocking_relock, locVars
    <3> QED BY <2>2, <3>1, <3>2 DEF WriteLock
  <2>3. CASE WriteCopy(w)
    BY <2>3, SMTT(30) DEF WriteCopy, kbuf_ring_produce_copy, kbuf_spsc_produce_copy, locVars
  <2>4. CASE kbuf_write_blocking_check(w) \/ kbuf_write_spsc_check(w)
    BY <2>4, SMTT(30) DEF kbuf_write_blocking_check, kbuf_write_spsc_check, locVars
  <2>5. CASE kbuf_ring_produce_commit(w) \/ kbuf_spsc_produce_publish(w)
    BY <2>5, SMTT(30) DEF kbuf_ring_produce_commit, kbuf_spsc_produce_publish, locVars
  <2>6. CASE \/ kbuf_spsc_produce_slot(w) \/ kbuf_spsc_produce_count_load(w)
             \/ kbuf_spsc_produce_count_store(w) \/ kbuf_spsc_produce_peak(w)
             \/ kbuf_write_wake(w)
    <3>1. CASE kbuf_spsc_produce_slot(w)
      BY <3>1, SMTT(30) DEF kbuf_spsc_produce_slot, locVars
    <3>2. CASE kbuf_spsc_produce_count_load(w) \/ kbuf_spsc_produce_count_store(w)
      BY <3>2, SMTT(30) DEF kbuf_spsc_produce_count_load, kbuf_spsc_produce_count_store,
                            locVars
    <3>3. CASE kbuf_spsc_produce_peak(w)
      BY <3>3, SMTT(30) DEF kbuf_spsc_produce_peak, locVars
    <3>4. CASE kbuf_write_wake(w)
      BY <3>4, SMTT(30) DEF kbuf_write_wake, locVars
    <3> QED BY <2>6, <3>1, <3>2, <3>3, <3>4
  <2>7. CASE WaitStep(w) \/ Interrupt(w)
    <3>1. CASE WaitStep(w)
      <4>1. /\ lmode' = lmode
            /\ \/ pc[w] = "wait" /\ Goto(w, "test")
               \/ pc[w] = "test" /\ lmode[w] = "spsc" /\ Goto(w, "s_check")
               \/ pc[w] = "test" /\ lmode[w] # "spsc" /\ Goto(w, "b_relock")
               \/ pc[w] = "test" /\ Goto(w, "sleep")
               \/ pc[w] = "sleep" /\ Goto(w, "wait")
        BY <3>1 DEF WaitStep, prepare_to_wait, wait_event_test, wait_event_woken, locVars
      <4> QED BY <2>0, <4>1, SMT
    <3>2. CASE Interrupt(w)
      <4>1. \/ pc[w] \in {"b_lock", "b_relock", "test"} /\ Return(w)
            \/ lmode' = lmode /\ pc[w] = "sleep" /\ Goto(w, "test")
        BY <3>2 DEF Interrupt, wait_event_signal, kbuf_blocking_lock_signal, locVars
      <4> QED BY <4>1, SMT
    <3> QED BY <2>7, <3>1, <3>2
  <2>8. CASE WriteFault(w)
    BY <2>8, SMTT(30) DEF WriteFault, kbuf_ring_produce_fault, kbuf_spsc_produce_fault
  <2> QED BY <2>1, <2>2, <2>3, <2>4, <2>5, <2>6, <2>7, <2>8 DEF WriterNext, WriteStep

\* A step of a read or write call keeps the contract's consequences.
<1>IoContract.
      ASSUME Quiesce, TypeOK, ContractInv, NEW p \in IoThreads, IoMove(p),
             UNCHANGED <<mode, arg>>
      PROVE  ContractInv'
  <2> USE <1>IoContract
  <2>0. p \in Threads /\ p \notin Pollers /\ p \notin Ctls
    BY ThreadAssumption DEF Threads, IoThreads
  <2>1. /\ pc \in [Threads -> IoPc \cup PollPc \cup CtlPc]
        /\ lmode \in [IoThreads -> Modes] /\ mode \in Modes
    BY DEF TypeOK, PcType, LocType, DevType
  <2>2. \A q \in Threads : q # p => pc'[q] = pc[q]
    BY <2>0, <2>1 DEF IoMove, Goto, Return
  <2>3. \A q \in IoThreads : q # p => lmode'[q] = lmode[q]
    BY <2>1 DEF IoMove, Goto, Return
  <2>4. Switching' <=> Switching
    BY <2>0, <2>2 DEF Switching, Threads
  <2>5. Switching' => ~IoInFlight'
    <3>1. ASSUME Switching PROVE ~IoInFlight'
      <4>1. pc[p] = "idle" /\ ~IoAllowed
        BY <3>1 DEF ContractInv, IoInFlight, IoAllowed
      <4> QED BY <4>1 DEF IoMove
    <3> QED BY <2>4, <3>1
  <2>6. /\ pc'[p] # "idle" => lmode'[p] = mode
        /\ pc'[p] \in BlockingPc => lmode'[p] = "blocking"
        /\ pc'[p] \in SpscPc => lmode'[p] = "spsc"
    <3>1. CASE pc[p] = "idle"
      BY <3>1, <2>0, <2>1 DEF IoMove, Goto, BlockingPc, SpscPc, Modes
    <3>2. CASE Return(p)
      BY <3>2, <2>0, <2>1 DEF Return, Goto, BlockingPc, SpscPc
    <3>3. CASE pc[p] # "idle" /\ ~Return(p)
      BY <3>3, <2>0, <2>1 DEF IoMove, Goto, ContractInv
    <3> QED BY <3>1, <3>2, <3>3
  <2>7. \A q \in Pollers : pc'[q] = pc[q]
    BY <2>0, <2>2 DEF Threads
  <2>8. \A q \in IoThreads : q # p => pc'[q] = pc[q]
    BY <2>2 DEF Threads, IoThreads
  <2> QED BY <2>3, <2>5, <2>6, <2>7, <2>8 DEF ContractInv

\* What a step of a read call does to the ring and the queues.
<1>ReaderSummary.
      ASSUME TypeOK, NEW r \in Readers, ReaderNext(r)
      PROVE  ReadSummary(r)
  <2> USE <1>ReaderSummary
  <2>0. /\ r \in Threads /\ r \in IoThreads /\ r \notin Writers
        /\ pc \in [Threads -> IoPc \cup PollPc \cup CtlPc]
    BY ThreadAssumption DEF TypeOK, PcType, Threads, IoThreads
  <2>1. UNCHANGED <<mode, num_buffers, arg>>
    <3>1. UNCHANGED <<mode, num_buffers>>
      BY ReaderFrame DEF devVars, shapeVars, kbuf_ring_consume_commit,
                         kbuf_spsc_consume_publish, kbuf_spsc_consume_count_store
    <3> QED BY <3>1, ReaderFrame DEF ctlVars
  <2>2. \/ UNCHANGED <<count, prod_idx, cons_idx>>
        \/ /\ pc[r] = "b_commit" /\ Goto(r, "wake")
           /\ count' = count - 1 /\ UNCHANGED <<prod_idx, cons_idx>>
        \/ /\ pc[r] = "s_publish" /\ Goto(r, "s_load")
           /\ UNCHANGED <<count, prod_idx>>
    BY ReaderFrame DEF devVars, posVars, idxVars, kbuf_ring_consume_commit,
                       kbuf_spsc_consume_publish, kbuf_spsc_consume_count_store
  <2>3. /\ read_wq' \subseteq read_wq \cup {r} /\ write_wq' \subseteq write_wq
        /\ triggered \subseteq triggered'
    BY <2>0, ReaderFrame DEF waitVars, Enqueue, Dequeue, kbuf_read_wake, wake_up_writers
  <2> DEFINE Rest ==
        /\ pc'[r] = "sleep" => /\ ~Ready(r)
                               /\ UNCHANGED <<count, prod_idx, cons_idx, lmode>>
        /\ Critical(r)' => UNCHANGED count /\ (Critical(r) \/ count # 0)
        /\ WakePending(r) => \/ WakePending(r)'
                             \/ write_wq' = {} /\ triggered' = triggered \cup Polling
  <2>4. Rest
    <3> USE <2>0 DEF Goto, Return, Critical, WakePending, devVars, posVars, idxVars, locVars
    <3>1. CASE kbuf_read(r) \/ ReadLock(r)
      BY <3>1 DEF kbuf_read, ReadLock, kbuf_read_blocking_lock
    <3>2. CASE ReadCopy(r) \/ ReadFault(r)
      BY <3>2 DEF ReadCopy, kbuf_ring_consume_copy, kbuf_spsc_consume_copy,
                  ReadFault, kbuf_ring_consume_fault, kbuf_spsc_consume_fault
    <3>3. CASE kbuf_read_blocking_check(r) \/ kbuf_read_spsc_check(r)
      BY <3>3 DEF kbuf_read_blocking_check, kbuf_read_spsc_check, kbuf_ring_is_empty
    <3>4. CASE kbuf_ring_consume_commit(r) \/ kbuf_spsc_consume_publish(r)
      BY <3>4 DEF kbuf_ring_consume_commit, kbuf_spsc_consume_publish
    <3>5. CASE \/ kbuf_spsc_consume_slot(r) \/ kbuf_spsc_consume_count_load(r)
               \/ kbuf_spsc_consume_count_store(r)
      BY <3>5 DEF kbuf_spsc_consume_slot, kbuf_spsc_consume_count_load,
                  kbuf_spsc_consume_count_store
    <3>6. CASE kbuf_read_wake(r)
      BY <3>6 DEF kbuf_read_wake, wake_up_writers
    <3>7. CASE WaitStep(r) \/ Interrupt(r)
      BY <3>7 DEF WaitStep, Interrupt, prepare_to_wait, wait_event_test,
                  wait_event_woken, wait_event_signal, kbuf_blocking_lock_signal
    <3> QED BY <3>1, <3>2, <3>3, <3>4, <3>5, <3>6, <3>7 DEF ReaderNext, ReadStep
  <2> QED BY <2>1, <2>2, <2>3, <2>4 DEF ReadSummary

\* What a step of a write call does to the ring and the queues.
<1>WriterSummary.
      ASSUME TypeOK, NEW w \in Writers, WriterNext(w)
      PROVE  WriteSummary(w)
  <2> USE <1>WriterSummary
  <2>0. /\ w \in Threads /\ w \in IoThreads /\ w \notin Readers
        /\ pc \in [Threads -> IoPc \cup PollPc \cup CtlPc]
    BY ThreadAssumption DEF TypeOK, PcType, Threads, IoThreads
  <2> USE DEF WriteCopy, WriteFault, kbuf_ring_produce_copy, kbuf_ring_produce_fault,
              kbuf_spsc_produce_copy, kbuf_spsc_produce_fault,
              kbuf_ring_produce_commit, kbuf_spsc_produce_publish,
              kbuf_spsc_produce_count_store, kbuf_spsc_produce_peak
  <2>1. UNCHANGED <<mode, num_buffers, arg>>
    <3>1. UNCHANGED <<mode, num_buffers>>
      BY WriterFrame DEF devVars, shapeVars
    <3> QED BY <3>1, WriterFrame DEF ctlVars
  <2>2. \/ UNCHANGED <<count, prod_idx, cons_idx>>
        \/ /\ pc[w] = "b_commit" /\ Goto(w, "wake")
           /\ count' = count + 1 /\ UNCHANGED <<prod_idx, cons_idx>>
        \/ /\ pc[w] = "s_publish" /\ Goto(w, "s_load")
           /\ UNCHANGED <<count, cons_idx>>
    BY WriterFrame DEF devVars, posVars, idxVars
  <2>3. /\ read_wq' \subseteq read_wq /\ write_wq' \subseteq write_wq \cup {w}
        /\ triggered \subseteq triggered'
    BY <2>0, WriterFrame DEF waitVars, Enqueue, Dequeue, kbuf_write_wake, wake_up_readers
  <2> DEFINE Rest ==
        /\ pc'[w] = "sleep" => /\ ~Ready(w)
                               /\ UNCHANGED <<count, prod_idx, cons_idx, lmode>>
        /\ Critical(w)' => UNCHANGED count /\ (Critical(w) \/ count # num_buffers)
        /\ WakePending(w) => \/ WakePending(w)'
                             \/ read_wq' = {} /\ triggered' = triggered \cup Polling
  <2>4. Rest
    <3> USE <2>0 DEF Goto, Return, Critical, WakePending, devVars, posVars, idxVars, locVars
    <3>1. CASE kbuf_write(w) \/ WriteLock(w)
      BY <3>1 DEF kbuf_write, WriteLock, kbuf_write_blocking_lock,
                  kbuf_write_blocking_relock
    <3>2. CASE WriteCopy(w) \/ WriteFault(w)
      BY <3>2
    <3>3. CASE kbuf_write_blocking_check(w) \/ kbuf_write_spsc_check(w)
      BY <3>3 DEF kbuf_write_blocking_check, kbuf_write_spsc_check, kbuf_ring_is_full
    <3>4. CASE kbuf_ring_produce_commit(w) \/ kbuf_spsc_produce_publish(w)
      BY <3>4
    <3>5. CASE \/ kbuf_spsc_produce_slot(w) \/ kbuf_spsc_produce_count_load(w)
               \/ kbuf_spsc_produce_count_store(w) \/ kbuf_spsc_produce_peak(w)
      BY <3>5 DEF kbuf_spsc_produce_slot, kbuf_spsc_produce_count_load
    <3>6. CASE kbuf_write_wake(w)
      BY <3>6 DEF kbuf_write_wake, wake_up_readers
    <3>7. CASE WaitStep(w) \/ Interrupt(w)
      BY <3>7 DEF WaitStep, Interrupt, prepare_to_wait, wait_event_test,
                  wait_event_woken, wait_event_signal, kbuf_blocking_lock_signal
    <3> QED BY <3>1, <3>2, <3>3, <3>4, <3>5, <3>6, <3>7 DEF WriterNext, WriteStep
  <2> QED BY <2>1, <2>2, <2>3, <2>4 DEF WriteSummary

\* A step of a read call keeps the wake-up invariant: it makes room for
\* writers only on its way to waking them.
<1>ReaderWakeup.
      ASSUME Contract, TypeOK, MutexDiscipline, WakeupInv,
             NEW r \in Readers, ReaderNext(r)
      PROVE  WakeupInv'
  <2> USE <1>ReaderWakeup
  <2>0. /\ r \in Threads /\ r \in IoThreads
        /\ r \notin Writers /\ r \notin Pollers /\ r \notin Ctls
        /\ pc \in [Threads -> IoPc \cup PollPc \cup CtlPc]
        /\ lmode \in [IoThreads -> Modes]
        /\ num_buffers \in Nat
    <3>1. /\ r \in Threads /\ r \in IoThreads
          /\ r \notin Writers /\ r \notin Pollers /\ r \notin Ctls
      BY ThreadAssumption DEF Threads, IoThreads
    <3>2. num_buffers \in Nat
      BY SizeFacts, SMT DEF TypeOK, DevType
    <3> QED BY <3>1, <3>2 DEF TypeOK, PcType, LocType
  <2>1. ReadSummary(r) /\ IoMove(r)
    BY <1>ReaderSummary, <1>ReaderMove
  <2>2. \A q \in Threads : q # r => pc'[q] = pc[q]
    BY <2>0, <2>1 DEF IoMove, Goto, Return
  <2>3. \A q \in IoThreads : q # r => lmode'[q] = lmode[q]
    BY <2>0, <2>1 DEF IoMove, Return
  <2>4. UNCHANGED <<want, pval>>
    BY ReaderFrame DEF pollVars
  <2>5. ContractInv'
    BY <2>0, <2>1, <1>IoContract DEF Contract, WakeupInv, ReadSummary
  <2>6. /\ \A q \in Readers : q \in Threads /\ q \in IoThreads
        /\ \A q \in Writers : q \in Threads /\ q \in IoThreads /\ q # r
        /\ \A q \in Pollers : q \in Threads /\ q # r
        /\ \A q \in Ctls : q \in Threads /\ q # r
    BY <2>0 DEF Threads, IoThreads
  <2>7. SectionInv'
    <3>1. CASE UNCHANGED count
      BY <3>1, <2>0, <2>1, <2>2, <2>6
         DEF WakeupInv, SectionInv, ReadSummary, Critical
    <3>2. CASE pc[r] = "b_commit" /\ Goto(r, "wake") /\ count' = count - 1
      <4>1. \A q \in Threads : Critical(q) => q = r
        BY <3>2, <2>0, Alone DEF Critical, Holds
      <4>2. ~Critical(r)'
        BY <3>2, <2>0 DEF Goto, Critical
      <4>3. \A q \in Threads : ~Critical(q)'
        BY <4>1, <4>2, <2>2 DEF Critical
      <4>4. count # 0 /\ count \in 0..num_buffers
        BY <3>2 DEF WakeupInv, SectionInv
      <4>5. count' \in 0..num_buffers /\ num_buffers' = num_buffers
        BY <3>2, <4>4, <2>0, <2>1, SMT DEF ReadSummary
      <4> QED BY <4>3, <4>5, <2>6 DEF SectionInv, Critical
    <3> QED BY <3>1, <3>2, <2>1 DEF ReadSummary
  <2>8. ASSUME NEW s \in Readers, Asleep(s)', Ready(s)'
        PROVE  \E w \in Writers : WakePending(w)'
    <3>1. s # r
      <4>1. SUFFICES ASSUME s = r PROVE FALSE
        OBVIOUS
      <4>2. pc'[r] = "sleep"
        BY <2>8, <4>1 DEF Asleep
      <4> QED BY <2>8, <4>1, <4>2, <2>1
              DEF ReadSummary, Ready, kbuf_spsc_is_empty, kbuf_ring_is_empty
    <3>2. Asleep(s)
      <4>1. s \notin write_wq'
        BY <2>1, <2>8, ThreadAssumption DEF ReadSummary, TypeOK, SyncType, IoThreads
      <4> QED BY <3>1, <4>1, <2>1, <2>2, <2>6, <2>8 DEF Asleep, Queued, ReadSummary
    <3>3. Ready(s)
      <4>1. CASE UNCHANGED <<count, prod_idx, cons_idx>>
        BY <4>1, <3>1, <2>3, <2>6, <2>8
           DEF Ready, kbuf_spsc_is_empty, kbuf_ring_is_empty
      <4>2. CASE pc[r] = "b_commit" /\ UNCHANGED <<prod_idx, cons_idx>>
        BY <4>2, <3>1, <2>3, <2>6, <2>8
           DEF Ready, kbuf_spsc_is_empty, kbuf_ring_is_empty, WakeupInv, SectionInv
      <4>3. CASE pc[r] = "s_publish"
        BY <4>3, <3>1, <2>0 DEF Contract, WakeupInv, ContractInv, SpscPc
      <4> QED BY <4>1, <4>2, <4>3, <2>1 DEF ReadSummary
    <3> QED BY <3>2, <3>3, <2>2, <2>6 DEF WakeupInv, NoLostWakeup, WakePending
  <2>9. ASSUME NEW w \in Writers, Asleep(w)', Ready(w)'
        PROVE  \/ \E s \in Readers : WakePending(s)'
               \/ \E c \in Ctls : pc'[c] = "c_wake"
    <3>1. CASE WakePending(r)'
      BY <3>1
    <3>2. CASE ~WakePending(r)'
      <4>1. UNCHANGED <<count, prod_idx, cons_idx, num_buffers>>
        BY <3>2, <2>0, <2>1 DEF ReadSummary, Goto, WakePending
      <4>2. w \notin read_wq' /\ w \in write_wq'
        BY <2>1, <2>6, <2>9, ThreadAssumption
           DEF ReadSummary, TypeOK, SyncType, Asleep, Queued, IoThreads
      <4>3. Asleep(w) /\ ~WakePending(r)
        BY <3>2, <4>2, <2>1, <2>2, <2>6, <2>9 DEF Asleep, Queued, ReadSummary
      <4>4. Ready(w)
        BY <4>1, <2>3, <2>6, <2>9
           DEF Ready, kbuf_spsc_is_full, kbuf_ring_is_full, kbuf_spsc_is_empty,
               kbuf_ring_is_empty
      <4>5. \/ \E s \in Readers : WakePending(s)
            \/ \E c \in Ctls : pc[c] = "c_wake"
        BY <4>3, <4>4 DEF WakeupInv, NoLostWakeup
      <4> QED BY <4>3, <4>5, <2>2, <2>6 DEF WakePending
    <3> QED BY <3>1, <3>2
  <2>10. NoLostWakeup'
    BY <2>8, <2>9 DEF NoLostWakeup
  <2>11. CASE WakePending(r)'
    BY <2>5, <2>7, <2>10, <2>11, <2>0 DEF WakeupInv, PollLoadInv, NoLostPollWakeup
  <2>12. CASE ~WakePending(r)'
    <3>1. UNCHANGED <<count, prod_idx, cons_idx, num_buffers, mode>>
      BY <2>12, <2>0, <2>1 DEF ReadSummary, Goto, WakePending
    <3>2. CASE WakePending(r)
      <4>1. \A p \in Pollers : pc'[p] # "idle" => p \in triggered'
        BY <2>12, <3>2, <2>1, <2>2, <2>6 DEF ReadSummary, Polling
      <4> QED BY <4>1, <2>5, <2>7, <2>10 DEF WakeupInv, PollLoadInv, NoLostPollWakeup
    <3>3. CASE ~WakePending(r)
      <4>1. \A q \in IoThreads : WakePending(q) => WakePending(q)'
        BY <3>3, <2>2 DEF WakePending, Threads, IoThreads
      <4>2. \A c \in Ctls : pc'[c] = pc[c]
        BY <2>2, <2>6
      <4>3. \A p \in Pollers : pc'[p] = pc[p] /\ (PollReady(p)' <=> PollReady(p))
        BY <3>1, <2>2, <2>4, <2>6 DEF PollReady, kbuf_spsc_is_full,
           kbuf_ring_is_full, kbuf_spsc_is_empty, kbuf_ring_is_empty
      <4>4. triggered \subseteq triggered'
        BY <2>1 DEF ReadSummary
      <4>5. PollLoadInv'
        BY <4>1, <4>2, <4>3, <4>4, <3>1, <2>4 DEF WakeupInv, PollLoadInv
      <4>6. NoLostPollWakeup'
        BY <4>1, <4>2, <4>3, <4>4 DEF WakeupInv, NoLostPollWakeup
      <4> QED BY <4>5, <4>6, <2>5, <2>7, <2>10 DEF WakeupInv
    <3> QED BY <3>2, <3>3
  <2> QED BY <2>11, <2>12

\* A step of a write call keeps it: it makes the ring non-empty only on its
\* way to waking the readers.
<1>WriterWakeup.
      ASSUME Contract, TypeOK, MutexDiscipline, WakeupInv,
             NEW w \in Writers, WriterNext(w)
      PROVE  WakeupInv'
  <2> USE <1>WriterWakeup
  <2>0. /\ w \in Threads /\ w \in IoThreads
        /\ w \notin Readers /\ w \notin Pollers /\ w \notin Ctls
        /\ pc \in [Threads -> IoPc \cup PollPc \cup CtlPc]
        /\ lmode \in [IoThreads -> Modes]
        /\ num_buffers \in Nat
    <3>1. /\ w \in Threads /\ w \in IoThreads
          /\ w \notin Readers /\ w \notin Pollers /\ w \notin Ctls
      BY ThreadAssumption DEF Threads, IoThreads
    <3>2. num_buffers \in Nat
      BY SizeFacts, SMT DEF TypeOK, DevType
    <3> QED BY <3>1, <3>2 DEF TypeOK, PcType, LocType
  <2>1. WriteSummary(w) /\ IoMove(w)
    BY <1>WriterSummary, <1>WriterMove
  <2>2. \A q \in Threads : q # w => pc'[q] = pc[q]
    BY <2>0, <2>1 DEF IoMove, Goto, Return
  <2>3. \A q \in IoThreads : q # w => lmode'[q] = lmode[q]
    BY <2>0, <2>1 DEF IoMove, Return
  <2>4. UNCHANGED <<want, pval>>
    BY WriterFrame DEF pollVars
  <2>5. ContractInv'
    BY <2>0, <2>1, <1>IoContract DEF Contract, WakeupInv, WriteSummary
  <2>6. /\ \A q \in Writers : q \in Threads /\ q \in IoThreads /\ q \notin Readers
        /\ \A q \in Readers : q \in Threads /\ q \in IoThreads /\ q # w
        /\ \A q \in Pollers : q \in Threads /\ q # w
        /\ \A q \in Ctls : q \in Threads /\ q # w
    BY <2>0, ThreadAssumption DEF Threads, IoThreads
  <2>7. SectionInv'
    <3>1. CASE UNCHANGED count
      BY <3>1, <2>0, <2>1, <2>2, <2>6
         DEF WakeupInv, SectionInv, WriteSummary, Critical
    <3>2. CASE pc[w] = "b_commit" /\ Goto(w, "wake") /\ count' = count + 1
      <4>1. \A q \in Threads : Critical(q) => q = w
        BY <3>2, <2>0, Alone DEF Critical, Holds
      <4>2. ~Critical(w)'
        BY <3>2, <2>0 DEF Goto, Critical
      <4>3. \A q \in Threads : ~Critical(q)'
        BY <4>1, <4>2, <2>2 DEF Critical
      <4>4. count # num_buffers /\ count \in 0..num_buffers
        BY <3>2 DEF WakeupInv, SectionInv
      <4>5. count' \in 0..num_buffers /\ num_buffers' = num_buffers
        BY <3>2, <4>4, <2>0, <2>1, SMT DEF WriteSummary
      <4> QED BY <4>3, <4>5, <2>6 DEF SectionInv, Critical
    <3> QED BY <3>1, <3>2, <2>1 DEF WriteSummary
  <2>8. ASSUME NEW v \in Writers, Asleep(v)', Ready(v)'
        PROVE  \/ \E r \in Readers : WakePending(r)'
               \/ \E c \in Ctls : pc'[c] = "c_wake"
    <3>0. num_buffers' = num_buffers
      BY <2>1 DEF WriteSummary
    <3>1. v # w
      <4>1. SUFFICES ASSUME v = w PROVE FALSE
        OBVIOUS
      <4>2. pc'[w] = "sleep"
        BY <2>8, <4>1 DEF Asleep
      <4> QED BY <2>8, <3>0, <4>1, <4>2, <2>1, <2>6
              DEF WriteSummary, Ready, kbuf_spsc_is_full, kbuf_ring_is_full
    <3>2. Asleep(v)
      <4>1. v \notin read_wq'
        BY <2>1, <2>6, <2>8 DEF WriteSummary, TypeOK, SyncType
      <4> QED BY <3>1, <4>1, <2>1, <2>2, <2>6, <2>8 DEF Asleep, Queued, WriteSummary
    <3>3. Ready(v)
      <4>1. CASE UNCHANGED <<count, prod_idx, cons_idx>>
        BY <4>1, <3>0, <3>1, <2>3, <2>6, <2>8
           DEF Ready, kbuf_spsc_is_full, kbuf_ring_is_full
      <4>2. CASE pc[w] = "b_commit" /\ UNCHANGED <<prod_idx, cons_idx>>
        BY <4>2, <3>0, <3>1, <2>3, <2>6, <2>8
           DEF Ready, kbuf_spsc_is_full, kbuf_ring_is_full, WakeupInv, SectionInv
      <4>3. CASE pc[w] = "s_publish"
        BY <4>3, <3>1, <2>0 DEF Contract, WakeupInv, ContractInv, SpscPc
      <4> QED BY <4>1, <4>2, <4>3, <2>1 DEF WriteSummary
    <3> QED BY <3>2, <3>3, <2>2, <2>6 DEF WakeupInv, NoLostWakeup, WakePending
  <2>9. ASSUME NEW r \in Readers, Asleep(r)', Ready(r)'
        PROVE  \E v \in Writers : WakePending(v)'
    <3>1. CASE WakePending(w)'
      BY <3>1
    <3>2. CASE ~WakePending(w)'
      <4>1. UNCHANGED <<count, prod_idx, cons_idx>>
        BY <3>2, <2>0, <2>1 DEF WriteSummary, Goto, WakePending
      <4>2. r \notin write_wq' /\ r \in read_wq'
        BY <2>1, <2>6, <2>9, ThreadAssumption
           DEF WriteSummary, TypeOK, SyncType, Asleep, Queued, IoThreads
      <4>3. Asleep(r) /\ ~WakePending(w)
        BY <3>2, <4>2, <2>1, <2>2, <2>6, <2>9 DEF Asleep, Queued, WriteSummary
      <4>4. Ready(r)
        BY <4>1, <2>3, <2>6, <2>9 DEF Ready, kbuf_spsc_is_empty, kbuf_ring_is_empty
      <4>5. \E v \in Writers : WakePending(v)
        BY <4>3, <4>4 DEF WakeupInv, NoLostWakeup
      <4> QED BY <4>3, <4>5, <2>2, <2>6 DEF WakePending
    <3> QED BY <3>1, <3>2
  <2>10. NoLostWakeup'
    BY <2>8, <2>9 DEF NoLostWakeup
  <2>11. CASE WakePending(w)'
    BY <2>5, <2>7, <2>10, <2>11, <2>0 DEF WakeupInv, PollLoadInv, NoLostPollWakeup
  <2>12. CASE ~WakePending(w)'
    <3>1. UNCHANGED <<count, prod_idx, cons_idx, num_buffers, mode>>
      BY <2>12, <2>0, <2>1 DEF WriteSummary, Goto, WakePending
    <3>2. CASE WakePending(w)
      <4>1. \A p \in Pollers : pc'[p] # "idle" => p \in triggered'
        BY <2>12, <3>2, <2>1, <2>2, <2>6 DEF WriteSummary, Polling
      <4> QED BY <4>1, <2>5, <2>7, <2>10 DEF WakeupInv, PollLoadInv, NoLostPollWakeup
    <3>3. CASE ~WakePending(w)
      <4>1. \A q \in IoThreads : WakePending(q) => WakePending(q)'
        BY <3>3, <2>2 DEF WakePending, Threads, IoThreads
      <4>2. \A c \in Ctls : pc'[c] = pc[c]
        BY <2>2, <2>6
      <4>3. \A p \in Pollers : pc'[p] = pc[p] /\ (PollReady(p)' <=> PollReady(p))
        BY <3>1, <2>2, <2>4, <2>6 DEF PollReady, kbuf_spsc_is_full,
           kbuf_ring_is_full, kbuf_spsc_is_empty, kbuf_ring_is_empty
      <4>4. triggered \subseteq triggered'
        BY <2>1 DEF WriteSummary
      <4>5. PollLoadInv'
        BY <4>1, <4>2, <4>3, <4>4, <3>1, <2>4 DEF WakeupInv, PollLoadInv
      <4>6. NoLostPollWakeup'
        BY <4>1, <4>2, <4>3, <4>4 DEF WakeupInv, NoLostPollWakeup
      <4> QED BY <4>5, <4>6, <2>5, <2>7, <2>10 DEF WakeupInv
    <3> QED BY <3>2, <3>3
  <2> QED BY <2>11, <2>12

\* A step of a poll call keeps it: the poller sleeps only after it has seen
\* its event false with the hooks already in place.
<1>PollerWakeup.
      ASSUME Contract, TypeOK, WakeupInv, NEW p \in Pollers, PollerNext(p)
      PROVE  WakeupInv'
  <2> USE <1>PollerWakeup
  <2>0. /\ p \in Threads /\ p \notin IoThreads /\ p \notin Ctls
        /\ pc \in [Threads -> IoPc \cup PollPc \cup CtlPc]
        /\ want \in [Pollers -> {"in", "out"}] /\ pval \in [Pollers -> Nat]
        /\ mode \in {"blocking", "spsc"}
        /\ p \notin Readers /\ p \notin Writers
    BY ThreadAssumption DEF TypeOK, PcType, CallType, DevType, Modes, Threads, IoThreads
  <2>1. \A q \in Threads : q # p => pc'[q] = pc[q]
    BY <2>0, PollerFrame DEF Goto
  <2>2. /\ \A q \in IoThreads : q # p /\ pc'[q] = pc[q]
        /\ \A q \in Ctls : q # p /\ pc'[q] = pc[q]
        /\ \A q \in Pollers : q # p => pc'[q] = pc[q]
    BY <2>0, <2>1 DEF Threads, IoThreads
  <2>3. UNCHANGED <<count, num_buffers, mode, prod_idx, cons_idx, read_wq, write_wq,
                    lmode, arg>>
    BY PollerFrame DEF devVars, shapeVars, posVars, idxVars, locVars, ctlVars
  <2>4. /\ \A q \in Pollers : q # p => want'[q] = want[q] /\ pval'[q] = pval[q]
        /\ \A q \in Pollers : q # p => (q \in triggered' <=> q \in triggered)
    <3>1. \A q \in Pollers : q # p => want'[q] = want[q]
      BY <2>0, PollerFrame
    <3>2. \A q \in Pollers : q # p => pval'[q] = pval[q]
      BY <2>0, PollerFrame DEF kbuf_poll_spsc_load
    <3> QED BY <3>1, <3>2, PollerFrame
  <2> USE DEF Goto
  <2>5. /\ pc'[p] = "p_lock" => mode = "blocking"
        /\ pc'[p] \in {"p_load", "p_eval"} => mode = "spsc"
    BY <2>0 DEF PollerNext, PollLock, PollStep, poll_call, kbuf_poll_dispatch,
       kbuf_poll_blocking, kbuf_poll_spsc, kbuf_poll_spsc_load, poll_woken,
       poll_timeout, PollAnswer, WakeupInv, ContractInv
  <2>6. pc[p] # "idle" \/ IoAllowed
    BY DEF PollerNext, PollLock, PollStep, poll_call, kbuf_poll_dispatch,
       kbuf_poll_blocking, kbuf_poll_spsc, kbuf_poll_spsc_load, poll_woken, poll_timeout
  <2>7. ContractInv'
    <3>1. Switching' <=> Switching
      BY <2>2, <2>3 DEF Switching
    <3>2. ~Switching \/ ~IoInFlight'
      BY <2>6 DEF WakeupInv, ContractInv, IoInFlight, IoAllowed, Contract
    <3>3. \A q \in IoThreads :
            /\ pc'[q] # "idle" => lmode'[q] = mode'
            /\ pc'[q] \in BlockingPc => lmode'[q] = "blocking"
            /\ pc'[q] \in SpscPc => lmode'[q] = "spsc"
      BY <2>2, <2>3 DEF WakeupInv, ContractInv
    <3>4. \A q \in Pollers :
            /\ pc'[q] = "p_lock" => mode' = "blocking"
            /\ pc'[q] \in {"p_load", "p_eval"} => mode' = "spsc"
      BY <2>2, <2>3, <2>5 DEF WakeupInv, ContractInv
    <3> QED BY <3>1, <3>2, <3>3, <3>4, <2>3 DEF WakeupInv, ContractInv
  <2>8. SectionInv'
    BY <2>2, <2>3 DEF WakeupInv, SectionInv, IoThreads
  <2>9. NoLostWakeup'
    BY <2>2, <2>3 DEF WakeupInv, NoLostWakeup, Asleep, Queued, Ready, WakePending,
       IoThreads, kbuf_spsc_is_full, kbuf_ring_is_full, kbuf_spsc_is_empty,
       kbuf_ring_is_empty
  <2> DEFINE Pending == \/ \E q \in IoThreads : WakePending(q)
                        \/ \E c \in Ctls : pc[c] = "c_wake"
  <2>10. Pending' <=> Pending
    BY <2>2 DEF WakePending
  <2>11. pc'[p] = "p_eval" => pval'[p] = prod_idx'
    BY <2>0, <2>3 DEF PollerNext, PollLock, PollStep, poll_call, kbuf_poll_dispatch,
       kbuf_poll_blocking, kbuf_poll_spsc, kbuf_poll_spsc_load, poll_woken,
       poll_timeout, PollAnswer
  <2>12. pc'[p] = "p_sleep" /\ p \notin triggered' /\ PollReady(p)' => Pending'
    <3>1. SUFFICES ASSUME pc'[p] = "p_sleep", p \notin triggered', PollReady(p)', ~Pending
                   PROVE  FALSE
      BY <2>10
    <3>2. PollReady(p)' <=> IF want'[p] = "in"
            THEN IF mode = "spsc" THEN ~kbuf_spsc_is_empty ELSE ~kbuf_ring_is_empty
            ELSE IF mode = "spsc" THEN ~kbuf_spsc_is_full ELSE ~kbuf_ring_is_full
      BY <2>3 DEF PollReady, kbuf_spsc_is_full, kbuf_ring_is_full,
                  kbuf_spsc_is_empty, kbuf_ring_is_empty
    <3>3. kbuf_poll_blocking(p) \/ kbuf_poll_spsc(p)
      BY <3>1, <2>0 DEF PollerNext, PollLock, PollStep, poll_call,
         kbuf_poll_dispatch, kbuf_poll_spsc_load, poll_woken, poll_timeout
    <3>4. CASE kbuf_poll_blocking(p)
      <4>1. mode = "blocking"
        BY <3>4 DEF kbuf_poll_blocking, WakeupInv, ContractInv
      <4> QED BY <3>1, <3>2, <3>4, <4>1, <2>0 DEF kbuf_poll_blocking, PollAnswer
    <3>5. CASE kbuf_poll_spsc(p)
      <4>1. mode = "spsc" /\ pc[p] = "p_eval"
        BY <3>5 DEF kbuf_poll_spsc, WakeupInv, ContractInv
      <4>2. want' = want /\ triggered' = triggered
        BY <3>1, <3>5, <2>0 DEF kbuf_poll_spsc, PollAnswer
      <4>3. pval[p] = prod_idx
        BY <3>1, <4>1, <4>2 DEF WakeupInv, PollLoadInv
      <4>4. IF want[p] = "in" THEN kbuf_spsc_is_empty
                              ELSE ~(IdxDiff(prod_idx, cons_idx) < num_buffers)
        BY <3>1, <3>5, <4>3, <2>0 DEF kbuf_poll_spsc, PollAnswer, kbuf_spsc_is_empty
      <4>5. IdxDiff(prod_idx, cons_idx) \in Int /\ num_buffers \in Int
        BY IdxRange, SizeFacts, SMT DEF TypeOK, DevType
      <4>6. CASE want[p] = "in"
        <5>1. ~kbuf_spsc_is_empty
          BY <3>1, <3>2, <4>1, <4>2, <4>6
        <5> QED BY <4>4, <4>6, <5>1
      <4>7. CASE want[p] # "in"
        <5>1. ~kbuf_spsc_is_full
          BY <3>1, <3>2, <4>1, <4>2, <4>7
        <5>2. ~(IdxDiff(prod_idx, cons_idx) < num_buffers)
          BY <4>4, <4>7
        <5> QED BY <4>5, <5>1, <5>2, SMT DEF kbuf_spsc_is_full
      <4> QED BY <4>6, <4>7
    <3> QED BY <3>3, <3>4, <3>5
  <2>13. ASSUME NEW q \in Pollers, q # p PROVE PollReady(q)' <=> PollReady(q)
    BY <2>13, <2>3, <2>4 DEF PollReady, kbuf_spsc_is_full, kbuf_ring_is_full,
       kbuf_spsc_is_empty, kbuf_ring_is_empty
  <2>14. PollLoadInv'
    BY <2>2, <2>3, <2>4, <2>10, <2>11 DEF WakeupInv, PollLoadInv
  <2>15. NoLostPollWakeup'
    BY <2>2, <2>4, <2>10, <2>12, <2>13 DEF WakeupInv, NoLostPollWakeup
  <2> QED BY <2>7, <2>8, <2>9, <2>14, <2>15 DEF WakeupInv

\* What a step of an ioctl does to the ring and the queues.
<1>CtlStepSummary.
      ASSUME Contract, TypeOK, WakeupInv, NEW c \in Ctls, CtlNext(c)
      PROVE  CtlSummary(c)
  <2> USE <1>CtlStepSummary
  <2> USE DEF CtlSummary, CtlPc, devVars, shapeVars, posVars, idxVars, statVars, ctlVars
  <2>1. CASE kbuf_ioc_resize(c)
    BY <2>1 DEF kbuf_ioc_resize, Holds
  <2>2. CASE kbuf_ioc_smode(c)
    <3>1. ~IoInFlight /\ "SMODE" \in Ops
      BY <2>2 DEF kbuf_ioc_smode, WakeupInv, ContractInv, Switching
    <3> QED BY <2>2, <3>1 DEF kbuf_ioc_smode, CtlReturn, Holds
  <2>3. CASE kbuf_ioc_resize_wake(c)
    BY <2>3 DEF kbuf_ioc_resize_wake, CtlReturn, wake_up_writers
  <2>4. CASE kbuf_ioctl_lock(c) \/ kbuf_occupancy_load(c)
    BY <2>4 DEF kbuf_ioctl_lock, kbuf_occupancy_load
  <2>5. CASE kbuf_ioc_getstats(c) \/ kbuf_ioc_reset(c) \/ kbuf_ioc_refuse(c)
    BY <2>5 DEF kbuf_ioc_getstats, kbuf_ioc_reset, kbuf_ioc_refuse, CtlReturn
  <2>6. CASE CtlCall(c)
    <3>1. \E a \in Arg : /\ CtlStart(c, a)
                         /\ a.op = "SMODE" => a.switching
                         /\ a.switching => ~IoInFlight
      <4>1. CASE kbuf_ioc_stats_call(c)
        <5>1. PICK op \in {"GSTATS", "RESET"} : CtlStart(c, [NoArg EXCEPT !.op = op])
          BY <4>1 DEF kbuf_ioc_stats_call
        <5> DEFINE a == [NoArg EXCEPT !.op = op]
        <5>2. a \in Arg /\ a.op = op /\ a.switching = FALSE
          BY DEF NoArg, Arg, Modes
        <5>3. CtlStart(c, a)
          BY <5>1
        <5> HIDE DEF a
        <5> QED BY <5>2, <5>3
      <4>2. CASE SwitchAllowed /\ kbuf_ioc_smode_call(c)
        BY <4>2 DEF kbuf_ioc_smode_call, NoArg, Arg, Modes, SwitchAllowed, Contract
      <4>3. CASE ResizeAllowed /\ kbuf_ioc_resize_call(c)
        <5>1. PICK n \in NumBuffersReqs, s \in BufferSizeReqs :
                   CtlStart(c, [op |-> "RESIZE", num_buffers |-> n,
                                buffer_size |-> s, mode |-> mode,
                                switching |-> ResizeApart /\ mode = "spsc"])
          BY <4>3 DEF kbuf_ioc_resize_call
        <5>2. n \in Nat /\ s \in Nat
          BY RequestAssumption
        <5> DEFINE sw == (ResizeApart /\ mode = "spsc")
                   a == [op |-> "RESIZE", num_buffers |-> n, buffer_size |-> s,
                         mode |-> mode, switching |-> sw]
        <5>3. CtlStart(c, a)
          BY <5>1
        <5>4. sw \in BOOLEAN /\ (sw => ~IoInFlight)
          BY <4>3, RequestAssumption DEF ResizeAllowed, SwitchAllowed, Contract
        <5> HIDE DEF sw
        <5>5. a \in Arg
          BY <5>2, <5>4 DEF Arg, TypeOK, DevType
        <5> QED BY <5>3, <5>4, <5>5
      <4> QED BY <2>6, <4>1, <4>2, <4>3 DEF CtlCall
    <3> QED BY <3>1 DEF CtlStart
  <2> QED BY <2>1, <2>2, <2>3, <2>4, <2>5, <2>6 DEF CtlNext, CtlStep

\* A step of an ioctl keeps it: RESIZE owes the writers a wake-up, SMODE meets
\* no call in flight.
<1>CtlWakeup.
      ASSUME Contract, TypeOK, MutexDiscipline, WakeupInv, NEW c \in Ctls, CtlNext(c)
      PROVE  WakeupInv'
  <2> USE <1>CtlWakeup
  <2>0. /\ c \in Threads /\ c \notin IoThreads /\ c \notin Pollers
        /\ c \notin Readers /\ c \notin Writers
        /\ pc \in [Threads -> IoPc \cup PollPc \cup CtlPc]
        /\ arg \in [Ctls -> Arg] /\ num_buffers \in Nat
        /\ num_buffers' \in Nat
        /\ read_wq \subseteq Readers /\ write_wq \subseteq Writers
    <3>1. TypeOK'
      BY CtlType
    <3>2. num_buffers \in Nat /\ num_buffers' \in Nat
      <4>1. /\ num_buffers \in 1..KBUF_MAX_NUM_BUFFERS
            /\ num_buffers' \in 1..KBUF_MAX_NUM_BUFFERS
        BY <3>1 DEF TypeOK, DevType
      <4> QED BY <4>1, SizeFacts, SMT
    <3>3. /\ c \in Threads /\ c \notin IoThreads /\ c \notin Pollers
          /\ c \notin Readers /\ c \notin Writers
      BY ThreadAssumption DEF Threads, IoThreads
    <3> QED BY <3>2, <3>3 DEF TypeOK, PcType, CallType, SyncType
  <2>1. CtlSummary(c)
    BY <1>CtlStepSummary
  <2>2. UNCHANGED <<lmode, want, pval>>
    BY CtlFrame DEF locVars, pollVars
  <2>3. /\ \A q \in IoThreads : q # c /\ pc'[q] = pc[q]
        /\ \A q \in Pollers : q # c /\ pc'[q] = pc[q]
        /\ \A q \in Ctls : q # c => pc'[q] = pc[q]
    <3>1. \A q \in Threads : q # c => pc'[q] = pc[q]
      BY <2>0, CtlFrame DEF Goto
    <3> QED BY <2>0, <3>1 DEF Threads, IoThreads
  <2>4. IoInFlight' <=> IoInFlight
    BY <2>3 DEF IoInFlight
  <2>5. ContractInv'
    <3>1. \A q \in Ctls : q # c => arg'[q] = arg[q]
      BY <2>0, <2>1 DEF CtlSummary, ctlVars
    <3>2. /\ Switching' => ~IoInFlight
          /\ arg'[c].op = "SMODE" => arg'[c].switching /\ "SMODE" \in Ops
      <4>0. /\ Switching => ~IoInFlight
            /\ arg[c].op = "SMODE" => arg[c].switching /\ "SMODE" \in Ops
            /\ \A q \in Ctls : (q # c /\ pc'[q] # "idle" /\ arg'[q].switching) => Switching
        BY <2>3, <3>1 DEF Switching, WakeupInv, ContractInv
      <4>1. CASE arg' = arg /\ pc[c] # "idle"
        <5>1. arg'[c].switching => Switching
          BY <4>1 DEF Switching
        <5> QED BY <4>0, <4>1, <5>1 DEF Switching
      <4>2. CASE arg' = [arg EXCEPT ![c] = NoArg]
        <5>1. arg'[c].op # "SMODE" /\ ~arg'[c].switching
          BY <4>2, <2>0 DEF NoArg
        <5> QED BY <4>0, <5>1 DEF Switching
      <4>3. CASE \E a \in Arg : /\ arg' = [arg EXCEPT ![c] = a] /\ a.op \in Ops
                                /\ a.op = "SMODE" => a.switching
                                /\ a.switching => ~IoInFlight
        <5>1. /\ arg'[c].op \in Ops
              /\ arg'[c].op = "SMODE" => arg'[c].switching
              /\ arg'[c].switching => ~IoInFlight
          BY <4>3, <2>0
        <5> QED BY <4>0, <5>1 DEF Switching
      <4> QED BY <4>1, <4>2, <4>3, <2>1 DEF CtlSummary, ctlVars, Holds
    <3>3. mode' = mode \/ (~IoInFlight /\ "SMODE" \in Ops)
      BY <2>1 DEF CtlSummary
    <3>4. mode' = "spsc" => SpscUsed
      BY <3>3 DEF WakeupInv, ContractInv, SpscUsed
    <3>5. CASE mode' = mode
      BY <3>1, <3>2, <3>4, <3>5, <2>2, <2>3, <2>4 DEF WakeupInv, ContractInv
    <3>6. CASE ~IoInFlight
      <4>1. \A q \in IoThreads \cup Pollers : pc'[q] = "idle"
        BY <3>6, <2>3 DEF IoInFlight
      <4> QED BY <3>1, <3>2, <3>4, <4>1, <2>4
              DEF WakeupInv, ContractInv, BlockingPc, SpscPc
    <3> QED BY <3>3, <3>5, <3>6
  <2>6. SectionInv'
    <3>1. CASE UNCHANGED <<count, num_buffers>>
      BY <3>1, <2>3 DEF WakeupInv, SectionInv, IoThreads
    <3>2. CASE Holds(c) /\ count' = 0
      <4>1. \A q \in IoThreads : ~Critical(q)'
        BY <3>2, <2>0, <2>3, Alone DEF Critical, Holds, Threads, IoThreads
      <4> QED BY <3>2, <4>1, <2>0, SMT DEF SectionInv, Critical, IoThreads
    <3> QED BY <3>1, <3>2, <2>1 DEF CtlSummary
  <2> USE DEF IoThreads
  <2>7. CASE /\ Goto(c, "c_wake") /\ count' = 0 /\ prod_idx' = 0 /\ cons_idx' = 0
    <3>1. pc'[c] = "c_wake"
      BY <2>7, <2>0 DEF Goto
    <3>2. \A r \in Readers : ~Ready(r)'
      BY <2>7 DEF Ready, kbuf_spsc_is_empty, kbuf_ring_is_empty
    <3> QED BY <3>1, <3>2, <2>5, <2>6
            DEF WakeupInv, NoLostWakeup, PollLoadInv, NoLostPollWakeup
  <2>8. CASE ~IoInFlight
    <3>1. \A q \in IoThreads \cup Pollers : pc'[q] = "idle"
      BY <2>8, <2>3 DEF IoInFlight
    <3> QED BY <3>1, <2>5, <2>6
            DEF WakeupInv, NoLostWakeup, PollLoadInv, NoLostPollWakeup, Asleep
  <2>9. CASE /\ write_wq' = {} /\ read_wq' = read_wq
             /\ triggered' = triggered \cup Polling
             /\ UNCHANGED <<count, num_buffers, prod_idx, cons_idx, mode>>
    <3>1. \A w \in Writers : ~Asleep(w)'
      BY <2>9, <2>0, ThreadAssumption DEF Asleep, Queued
    <3>2. \A p \in Pollers : pc'[p] # "idle" => p \in triggered'
      BY <2>9, <2>3 DEF Polling
    <3>3. ASSUME NEW r \in Readers, Asleep(r)', Ready(r)'
          PROVE  \E w \in Writers : WakePending(w)'
      <4>1. Asleep(r) /\ Ready(r)
        BY <3>3, <2>9, <2>2, <2>3
           DEF Asleep, Queued, Ready, kbuf_spsc_is_empty, kbuf_ring_is_empty
      <4> QED BY <4>1, <2>3 DEF WakeupInv, NoLostWakeup, WakePending
    <3> QED BY <3>1, <3>2, <3>3, <2>5, <2>6
            DEF WakeupInv, NoLostWakeup, PollLoadInv, NoLostPollWakeup
  <2>10. CASE /\ pc[c] # "c_wake"
              /\ UNCHANGED <<count, num_buffers, prod_idx, cons_idx, mode, waitVars>>
    <3>1. /\ \A q \in IoThreads : WakePending(q)' <=> WakePending(q)
          /\ \A d \in Ctls : pc[d] = "c_wake" => pc'[d] = "c_wake"
      BY <2>10, <2>3 DEF WakePending
    <3>2. \A q \in IoThreads : (Asleep(q)' <=> Asleep(q)) /\ (Ready(q)' <=> Ready(q))
      BY <2>10, <2>2, <2>3 DEF Asleep, Queued, waitVars, Ready, kbuf_spsc_is_empty,
         kbuf_ring_is_empty, kbuf_spsc_is_full, kbuf_ring_is_full
    <3>3. \A p \in Pollers : PollReady(p)' <=> PollReady(p)
      BY <2>10, <2>2 DEF PollReady, kbuf_spsc_is_empty, kbuf_ring_is_empty,
         kbuf_spsc_is_full, kbuf_ring_is_full
    <3>4. NoLostWakeup'
      BY <3>1, <3>2 DEF WakeupInv, NoLostWakeup
    <3>5. PollLoadInv' /\ NoLostPollWakeup'
      BY <3>1, <3>3, <2>2, <2>3, <2>10
         DEF WakeupInv, PollLoadInv, NoLostPollWakeup, waitVars
    <3> QED BY <3>4, <3>5, <2>5, <2>6 DEF WakeupInv
  <2> QED BY <2>1, <2>7, <2>8, <2>9, <2>10 DEF CtlSummary

<1> SUFFICES ASSUME Contract, TypeOK, MutexDiscipline, WakeupInv, [Next]_vars
             PROVE  WakeupInv'
  OBVIOUS
<1>1. CASE Next
  BY <1>1, <1>ReaderWakeup, <1>WriterWakeup, <1>PollerWakeup, <1>CtlWakeup DEF Next
<1>2. CASE UNCHANGED vars
  <2> USE <1>2 DEF vars, devVars, shapeVars, posVars, idxVars, locVars, waitVars,
                   pollVars, ctlVars, WakeupInv
  <2>1. ContractInv'
    BY DEF ContractInv, Switching, IoInFlight
  <2>2. SectionInv'
    BY DEF SectionInv
  <2>3. PollLoadInv'
    BY DEF PollLoadInv, WakePending
  <2>4. NoLostWakeup'
    BY DEF NoLostWakeup, WakePending, Asleep, Queued, Ready, kbuf_spsc_is_empty,
           kbuf_ring_is_empty, kbuf_spsc_is_full, kbuf_ring_is_full
  <2>5. NoLostPollWakeup'
    BY DEF NoLostPollWakeup, WakePending, PollReady, kbuf_spsc_is_empty,
           kbuf_ring_is_empty, kbuf_spsc_is_full, kbuf_ring_is_full
  <2> QED BY <2>1, <2>2, <2>3, <2>4, <2>5
<1> QED BY <1>1, <1>2

\* Under the SPSC contract the whole strengthening is an invariant: the call a
\* thread was dispatched to stays the right one, kbuf_ring_consume and
\* kbuf_ring_produce find the ring as their caller checked it, and no sleeper
\* is left behind.
THEOREM WakeupInvariant == ASSUME Contract PROVE Spec => []WakeupInv
<1>1. TypeOK /\ MutexDiscipline /\ WakeupInv /\ [Next]_vars => WakeupInv'
  BY WakeupNext
<1> QED BY <1>1, WakeupInit, TypeCorrect, MutexCorrect, PTL DEF Spec

\* No wake-up is lost between the check of the ring and the sleep, in read and
\* write, in either discipline, across RESIZE and SMODE (kbuf_main.c 100-227,
\* kbuf_ioctl.c 117), for any number of threads the discipline allows.
THEOREM WakeupsNotLost == ASSUME Contract PROVE Spec => []NoLostWakeup
<1>1. WakeupInv => NoLostWakeup
  BY DEF WakeupInv
<1> QED BY <1>1, Contract, WakeupInvariant, PTL

\* The same for poll, which hooks on both queues before it looks at the ring
\* (kbuf_main.c 247-270).
THEOREM PollWakeupsNotLost == ASSUME Contract PROVE Spec => []NoLostPollWakeup
<1>1. WakeupInv => NoLostPollWakeup
  BY DEF WakeupInv
<1> QED BY <1>1, Contract, WakeupInvariant, PTL

\* A poller that has read the producer index of the lock-free ring and not yet
\* the consumer index decides on a current value or is woken again
\* (kbuf_main.c 247-270).
THEOREM PollLoadsCurrent == ASSUME Contract PROVE Spec => []PollLoadInv
<1>1. WakeupInv => PollLoadInv
  BY DEF WakeupInv
<1> QED BY <1>1, Contract, WakeupInvariant, PTL

-----------------------------------------------------------------------------
(* Sequences.                                                              *)

\* A sequence is a function on 1..Len.
LEMMA LenFacts ==
  ASSUME NEW S, NEW s \in Seq(S)
  PROVE  Len(s) \in Nat /\ s \in [1..Len(s) -> S] /\ DOMAIN s = 1..Len(s)
BY SMT

\* And a function on 1..n is a sequence.
LEMMA SeqOf ==
  ASSUME NEW S, NEW n \in Nat, NEW s \in [1..n -> S]
  PROVE  s \in Seq(S) /\ Len(s) = n
BY SMT

\* One more element.
LEMMA AppendFacts ==
  ASSUME NEW S, NEW s \in Seq(S), NEW e \in S
  PROVE  /\ Append(s, e) \in Seq(S) /\ Len(Append(s, e)) = Len(s) + 1
         /\ \A i \in 1..Len(s) : Append(s, e)[i] = s[i]
         /\ Append(s, e)[Len(s) + 1] = e
BY SMT

\* One less.
LEMMA HeadTailFacts ==
  ASSUME NEW S, NEW s \in Seq(S), s # <<>>
  PROVE  /\ Head(s) \in S /\ Tail(s) \in Seq(S) /\ Len(Tail(s)) = Len(s) - 1
         /\ \A i \in 1..Len(Tail(s)) : Tail(s)[i] = s[i + 1]
BY SMT

-----------------------------------------------------------------------------
(* The ring as a queue of messages: what a step of the device does to it   *)
(* is one of four things (QueueStep), and each keeps the order of the      *)
(* messages. Then the steps of a reader: they keep the invariant of the    *)
(* queue.                                                                  *)

\* What the proofs need to know of the geometry: IdxMod is a multiple of an
\* SPSC capacity.
LEMMA Geometry ==
  ASSUME TypeOK
  PROVE  /\ num_buffers \in Nat \ {0} /\ num_buffers < IdxMod
         /\ IdxMod \in Nat \ {0}
         /\ is_power_of_2(num_buffers) => IdxMod % num_buffers = 0
         /\ read_pos \in 0..(num_buffers - 1) /\ write_pos \in 0..(num_buffers - 1)
         /\ prod_idx \in 0..(IdxMod - 1) /\ cons_idx \in 0..(IdxMod - 1)
         /\ count \in Int /\ mode \in {"blocking", "spsc"}
         /\ slots \in [0..(num_buffers - 1) -> Slot]
<1>1. num_buffers \in 1..KBUF_MAX_NUM_BUFFERS
  BY DEF TypeOK, DevType
<1>2. num_buffers \in Nat \ {0} /\ num_buffers < IdxMod /\ IdxMod \in Nat \ {0}
  BY <1>1, SizeAssumption, SMT
<1>3. is_power_of_2(num_buffers) => IdxMod % num_buffers = 0
  BY <1>1, SizeAssumption
<1> QED BY <1>2, <1>3 DEF TypeOK, DevType, Modes

\* Every message lies in a slot of the array.
LEMMA SlotRange ==
  ASSUME TypeOK, NEW i \in Int
  PROVE  SlotAt(i) \in 0..(num_buffers - 1)
<1>1. cons_idx + i \in Int /\ read_pos + i \in Int
  BY Geometry, SMT
<1> QED BY <1>1, Geometry, ModRange DEF SlotAt, Masked

\* Two messages never share a slot, in either discipline.
LEMMA SlotsApart ==
  ASSUME TypeOK, NEW i \in Nat, NEW j \in Nat, i < num_buffers, j < num_buffers,
         SlotAt(i) = SlotAt(j)
  PROVE  i = j
<1> DEFINE b == IF mode = "spsc" THEN cons_idx ELSE read_pos
<1>1. b \in Int /\ num_buffers \in Nat \ {0}
  BY Geometry, SMT
<1>2. SlotAt(i) = (b + i) % num_buffers /\ SlotAt(j) = (b + j) % num_buffers
  BY DEF SlotAt, Masked
<1> HIDE DEF b
<1> DEFINE x == b + i
           y == b + j
<1>3. x \in Int /\ y \in Int /\ x % num_buffers = y % num_buffers
  <2>1. x % num_buffers = y % num_buffers
    BY <1>2
  <2> QED BY <1>1, <2>1, SMT
<1>4. /\ x <= y => y < x + num_buffers
      /\ y <= x => x < y + num_buffers
  BY <1>1, SMT
<1>5. x <= y \/ y <= x
  BY <1>3, SMT
<1>6. x = y
  <2> HIDE DEF x, y
  <2> QED BY <1>1, <1>3, <1>4, <1>5, ModApart
<1> QED BY <1>1, <1>6, SMT

\* The oldest message lies where the reader looks.
LEMMA HeadSlot ==
  ASSUME TypeOK
  PROVE  SlotAt(0) = IF mode = "spsc" THEN Masked(cons_idx) ELSE read_pos
<1>1. read_pos + 0 = read_pos /\ cons_idx + 0 = cons_idx
  BY Geometry, SMT
<1>2. read_pos % num_buffers = read_pos
  <2>1. read_pos \in 0..(2 * num_buffers - 1) /\ read_pos < num_buffers
    BY Geometry, SMT
  <2> QED BY <2>1, Geometry, ModSmall
<1> QED BY <1>1, <1>2 DEF SlotAt, Masked

\* The first free slot lies where the writer looks.
LEMMA TailSlot ==
  ASSUME TypeOK, RingInv, SpscPowerOfTwo
  PROVE  SlotAt(Depth) = IF mode = "spsc" THEN Masked(prod_idx) ELSE write_pos
<1>1. CASE mode = "spsc"
  <2>1. IdxMod % num_buffers = 0
    BY <1>1, Geometry DEF SpscPowerOfTwo
  <2>2. prod_idx \in Int /\ cons_idx \in Int
    BY Geometry, SMT
  <2>3. (cons_idx + IdxDiff(prod_idx, cons_idx)) % num_buffers
          = prod_idx % num_buffers
    <3>1. num_buffers \in Nat \ {0} /\ IdxMod \in Nat \ {0}
      BY Geometry
    <3>2. \A x, y \in Int : (y + ((x - y) % IdxMod)) % num_buffers = x % num_buffers
      BY <2>1, <3>1, WalkDistance
    <3> QED BY <2>2, <3>2 DEF IdxDiff
  <2> QED BY <1>1, <2>3 DEF SlotAt, Depth, Masked
<1>2. CASE mode # "spsc"
  BY <1>2 DEF SlotAt, Depth, RingInv
<1> QED BY <1>1, <1>2

\* A ring that is empty or full to its reader or writer is so by its depth.
LEMMA DepthFacts ==
  ASSUME TypeOK, RingInv, count \in 0..num_buffers
  PROVE  /\ Depth \in 0..num_buffers
         /\ mode = "spsc" => /\ Depth = IdxDiff(prod_idx, cons_idx)
                             /\ Depth = 0 <=> kbuf_spsc_is_empty
                             /\ Depth = num_buffers <=> kbuf_spsc_is_full
         /\ mode = "blocking" => Depth = count
<1>1. IdxDiff(prod_idx, cons_idx) \in 0..(IdxMod - 1)
  BY IdxRange, Geometry, SMT
<1>2. IdxDiff(prod_idx, cons_idx) = 0 <=> prod_idx = cons_idx
  BY Geometry, NoDistance DEF IdxDiff
<1>3. IdxDiff(prod_idx, cons_idx) \in 0..num_buffers
  BY <1>1, Geometry, SMT DEF RingInv
<1>4. CASE mode = "spsc"
  <2>1. Depth = IdxDiff(prod_idx, cons_idx)
    BY <1>4 DEF Depth
  <2>2. Depth = 0 <=> kbuf_spsc_is_empty
    BY <1>2, <2>1 DEF kbuf_spsc_is_empty
  <2>3. Depth = num_buffers <=> kbuf_spsc_is_full
    BY <1>3, <2>1, Geometry, SMT DEF kbuf_spsc_is_full
  <2> QED BY <1>3, <1>4, <2>1, <2>2, <2>3
<1>5. CASE mode = "blocking"
  BY <1>5 DEF Depth
<1> QED BY <1>4, <1>5, Geometry

\* Nothing that can be seen in the queue.
KeepStep ==
  /\ Depth' = Depth /\ UNCHANGED <<num_buffers, sent, delivered>>
  /\ \A i \in 0..(Depth - 1) : /\ SlotAt(i)' = SlotAt(i)
                               /\ slots'[SlotAt(i)] = slots[SlotAt(i)]

\* A message joins at the end.
PutStep(m) ==
  /\ m.msg \in 1..MaxMsgs /\ m.len \in 0..KBUF_MAX_BUFFER_SIZE
  /\ Depth < num_buffers
  /\ Depth' = Depth + 1 /\ UNCHANGED <<num_buffers, delivered>>
  /\ sent' = Append(sent, m)
  /\ \A i \in 0..Depth : SlotAt(i)' = SlotAt(i)
  /\ \A i \in 0..(Depth - 1) : slots'[SlotAt(i)] = slots[SlotAt(i)]
  /\ slots'[SlotAt(Depth)] = [data |-> m.msg, len |-> m.len]

\* The oldest message leaves, cut to what the reader asked for.
TakeStep(m) ==
  /\ Depth > 0
  /\ Depth' = Depth - 1 /\ UNCHANGED <<num_buffers, slots, sent>>
  /\ delivered' = Append(delivered, m)
  /\ m.msg = slots[SlotAt(0)].data /\ m.len <= slots[SlotAt(0)].len
  /\ \A i \in 0..(Depth - 2) : SlotAt(i)' = SlotAt(i + 1)

\* An empty queue is given another capacity or another discipline.
ClearStep == Depth = 0 /\ Depth' = 0 /\ UNCHANGED <<sent, delivered>>

QueueStep ==
  \/ KeepStep
  \/ \E m \in Message : PutStep(m)
  \/ \E m \in Message : TakeStep(m)
  \/ ClearStep

\* What appending a message to a history does to it.
LEMMA AppendMessage ==
  ASSUME NEW s \in Seq(Message), NEW m \in Message, NEW t, t = Append(s, m)
  PROVE  /\ Len(t) = Len(s) + 1 /\ t[Len(s) + 1] = m
         /\ \A i \in 1..Len(s) : t[i] = s[i]
<1>1. /\ Len(Append(s, m)) = Len(s) + 1 /\ Append(s, m)[Len(s) + 1] = m
      /\ \A i \in 1..Len(s) : Append(s, m)[i] = s[i]
  BY AppendFacts, SMT
<1> QED BY <1>1

\* min() is at most its second argument.
LEMMA AtMostSecond ==
  ASSUME NEW a \in Nat, NEW b \in Nat
  PROVE  AtMost(a, b) <= b
BY SMT DEF AtMost

\* Contents, written out.
LEMMA ContentsAt ==
  ASSUME NEW i \in 1..Depth
  PROVE  Contents[i] = [msg |-> slots[SlotAt(i - 1)].data,
                        len |-> slots[SlotAt(i - 1)].len]
BY DEF Contents

\* Each of the four keeps the order of the messages.
LEMMA QueueStepOrder ==
  ASSUME TypeOK, TypeOK', FifoOrder, QueueStep
  PROVE  FifoOrder'
<1>0. /\ sent \in Seq(Message) /\ delivered \in Seq(Message)
      /\ num_buffers \in Nat /\ num_buffers' \in Nat
      /\ Depth \in 0..num_buffers /\ Len(sent) = Len(delivered) + Depth
      /\ Len(delivered) \in Nat /\ Len(sent) \in Nat
  <2>1. sent \in Seq(Message) /\ delivered \in Seq(Message)
    BY DEF TypeOK, HistType
  <2>2. num_buffers \in Nat /\ num_buffers' \in Nat
    BY SizeFacts, SMT DEF TypeOK, DevType
  <2> QED BY <2>1, <2>2, SMT DEF FifoOrder
<1>1. CASE KeepStep
  <2>1. ASSUME NEW i \in 1..Depth PROVE Contents'[i] = sent[Len(delivered) + i]
    <3>1. i - 1 \in 0..(Depth - 1) /\ i \in 1..Depth'
      BY <1>0, <1>1, SMT DEF KeepStep
    <3>2. Contents'[i] = [msg |-> slots'[SlotAt(i - 1)'].data,
                          len |-> slots'[SlotAt(i - 1)'].len]
      BY <3>1 DEF Contents
    <3>3. slots'[SlotAt(i - 1)'] = slots[SlotAt(i - 1)]
      BY <1>1, <3>1 DEF KeepStep
    <3> QED BY <3>2, <3>3, ContentsAt DEF FifoOrder
  <2> QED BY <1>0, <1>1, <2>1 DEF KeepStep, FifoOrder
<1>2. ASSUME NEW m \in Message, PutStep(m) PROVE FifoOrder'
  <2>1. /\ Len(sent') = Len(sent) + 1
        /\ \A i \in 1..Len(sent) : sent'[i] = sent[i]
        /\ sent'[Len(sent) + 1] = m
    <3>1. sent' = Append(sent, m)
      BY <1>2 DEF PutStep
    <3> DEFINE t == sent'
    <3>2. t = Append(sent, m)
      BY <3>1
    <3> HIDE DEF t
    <3>3. /\ Len(t) = Len(sent) + 1 /\ t[Len(sent) + 1] = m
          /\ \A i \in 1..Len(sent) : t[i] = sent[i]
      BY <1>0, <3>2, SMT
    <3> QED BY <3>3 DEF t
  <2>2. Depth' = Depth + 1 /\ delivered' = delivered /\ Depth' \in 0..num_buffers'
    <3>1. /\ Depth' = Depth + 1 /\ delivered' = delivered /\ num_buffers' = num_buffers
          /\ Depth < num_buffers
      BY <1>2 DEF PutStep
    <3>2. Depth' \in 0..num_buffers'
      BY <1>0, <3>1, SMT
    <3> QED BY <3>1, <3>2
  <2>3. ASSUME NEW i \in 1..Depth' PROVE Contents'[i] = sent'[Len(delivered) + i]
    <3>1. Contents'[i] = [msg |-> slots'[SlotAt(i - 1)'].data,
                          len |-> slots'[SlotAt(i - 1)'].len]
      BY DEF Contents
    <3>2. CASE i \in 1..Depth
      <4>1. /\ i - 1 \in 0..(Depth - 1) /\ i - 1 \in 0..Depth
            /\ Len(delivered) + i \in 1..Len(sent)
        BY <1>0, <3>2, SMT
      <4>2. slots'[SlotAt(i - 1)'] = slots[SlotAt(i - 1)]
        BY <1>2, <4>1 DEF PutStep
      <4>3. Contents'[i] = Contents[i]
        BY <3>1, <3>2, <4>2, ContentsAt
      <4>4. Contents[i] = sent[Len(delivered) + i]
        BY <3>2 DEF FifoOrder
      <4>5. sent'[Len(delivered) + i] = sent[Len(delivered) + i]
        BY <2>1, <4>1
      <4> QED BY <4>3, <4>4, <4>5
    <3>3. CASE i = Depth + 1
      <4>1. /\ i - 1 = Depth /\ i - 1 \in 0..Depth
            /\ Len(delivered) + i = Len(sent) + 1
        BY <1>0, <3>3, SMT
      <4>2. slots'[SlotAt(i - 1)'] = [data |-> m.msg, len |-> m.len]
        BY <1>2, <4>1 DEF PutStep
      <4>3. Contents'[i] = [msg |-> m.msg, len |-> m.len]
        BY <3>1, <4>2, SMT
      <4>4. m = [msg |-> m.msg, len |-> m.len]
        BY DEF Message
      <4> QED BY <2>1, <4>1, <4>3, <4>4
    <3> QED BY <1>0, <2>2, <3>2, <3>3, SMT
  <2>4. \A i \in 1..Len(delivered) : sent'[i] = sent[i]
    BY <1>0, <2>1, SMT
  <2>5. Len(sent') = Len(delivered') + Depth'
    BY <1>0, <2>1, <2>2, SMT
  <2>6. \A i \in 1..Len(delivered') : /\ delivered'[i].msg = sent'[i].msg
                                      /\ delivered'[i].len <= sent'[i].len
    BY <2>2, <2>4 DEF FifoOrder
  <2> QED BY <2>2, <2>3, <2>5, <2>6 DEF FifoOrder
<1>3. ASSUME NEW m \in Message, TakeStep(m) PROVE FifoOrder'
  <2>1. /\ Len(delivered') = Len(delivered) + 1
        /\ \A i \in 1..Len(delivered) : delivered'[i] = delivered[i]
        /\ delivered'[Len(delivered) + 1] = m
    <3>1. delivered' = Append(delivered, m)
      BY <1>3 DEF TakeStep
    <3> QED BY <1>0, <3>1, AppendMessage, SMT
  <2>2. /\ Depth' = Depth - 1 /\ Depth > 0 /\ sent' = sent
        /\ Depth' \in 0..num_buffers'
    BY <1>0, <1>3, SMT DEF TakeStep
  <2>3. ASSUME NEW i \in 1..Depth' PROVE Contents'[i] = sent'[Len(delivered') + i]
    <3>1. i - 1 \in 0..(Depth - 2) /\ i + 1 \in 1..Depth /\ (i - 1) + 1 = (i + 1) - 1
      BY <1>0, <2>2, SMT
    <3>2. Contents'[i] = [msg |-> slots'[SlotAt(i - 1)'].data,
                          len |-> slots'[SlotAt(i - 1)'].len]
      BY DEF Contents
    <3>3. slots'[SlotAt(i - 1)'] = slots[SlotAt((i + 1) - 1)]
      BY <1>3, <3>1 DEF TakeStep
    <3>4. Contents'[i] = Contents[i + 1]
      BY <3>1, <3>2, <3>3, ContentsAt
    <3>5. Contents[i + 1] = sent[Len(delivered) + (i + 1)]
      BY <3>1 DEF FifoOrder
    <3>6. Len(delivered) + (i + 1) = Len(delivered') + i
      BY <1>0, <2>1, <2>2, SMT
    <3> QED BY <2>2, <3>4, <3>5, <3>6
  <2>4. m.msg = sent[Len(delivered) + 1].msg /\ m.len <= sent[Len(delivered) + 1].len
    <3>1. 1 \in 1..Depth /\ 1 - 1 = 0
      BY <1>0, <2>2, SMT
    <3>2. Contents[1] = [msg |-> slots[SlotAt(0)].data, len |-> slots[SlotAt(0)].len]
      BY <3>1, ContentsAt
    <3>3. Contents[1] = sent[Len(delivered) + 1]
      BY <3>1 DEF FifoOrder
    <3> QED BY <1>3, <3>2, <3>3, SMT DEF TakeStep
  <2>5. ASSUME NEW i \in 1..Len(delivered')
        PROVE  delivered'[i].msg = sent'[i].msg /\ delivered'[i].len <= sent'[i].len
    <3>1. CASE i \in 1..Len(delivered)
      BY <3>1, <2>1, <2>2 DEF FifoOrder
    <3>2. CASE i = Len(delivered) + 1
      BY <3>2, <2>1, <2>2, <2>4
    <3> QED BY <1>0, <2>1, <3>1, <3>2, SMT
  <2>6. Len(sent') = Len(delivered') + Depth'
    BY <1>0, <2>1, <2>2, SMT
  <2> QED BY <2>2, <2>3, <2>5, <2>6 DEF FifoOrder
<1>4. CASE ClearStep
  <2>1. Depth = 0 /\ Depth' = 0 /\ sent' = sent /\ delivered' = delivered
    BY <1>4 DEF ClearStep
  <2>2. 1..0 = {}
    BY SMT
  <2>3. \A i \in 1..Depth' : FALSE
    BY <2>1, <2>2
  <2>4. 0 \in 0..num_buffers'
    BY <1>0, SMT
  <2> QED BY <2>1, <2>3, <2>4 DEF FifoOrder
<1> QED BY <1>1, <1>2, <1>3, <1>4 DEF QueueStep

\* The discipline of a call in progress is the one in force.
LEMMA Dispatched ==
  ASSUME WakeupInv, NEW p \in IoThreads
  PROVE  /\ pc[p] \in BlockingPc => mode = "blocking"
         /\ pc[p] \in SpscPc => mode = "spsc"
BY DEF WakeupInv, ContractInv, BlockingPc, SpscPc

\* What a reader leaves alone in the ring, and the two steps that take a
\* message from it.
LEMMA ReaderRing ==
  ASSUME NEW r \in Readers, ReaderNext(r)
  PROVE  /\ UNCHANGED <<slots, arr, num_buffers, buffer_size, mode, write_pos,
                        prod_idx, peak_count, sent, nextMsg>>
         /\ \/ UNCHANGED <<read_pos, count, cons_idx, delivered>>
            \/ kbuf_ring_consume_commit(r)
            \/ kbuf_spsc_consume_publish(r)
<1> USE DEF devVars, shapeVars, posVars, idxVars, statVars, histVars
<1>1. /\ \/ UNCHANGED devVars
         \/ kbuf_ring_consume_commit(r)
         \/ kbuf_spsc_consume_publish(r)
         \/ kbuf_spsc_consume_count_store(r)
      /\ \/ UNCHANGED histVars
         \/ kbuf_ring_consume_commit(r)
         \/ kbuf_spsc_consume_publish(r)
  BY ReaderFrame
<1>2. CASE UNCHANGED devVars /\ UNCHANGED histVars
  BY <1>2
<1>3. CASE kbuf_ring_consume_commit(r)
  BY <1>3 DEF kbuf_ring_consume_commit
<1>4. CASE kbuf_spsc_consume_publish(r)
  BY <1>4 DEF kbuf_spsc_consume_publish
<1>5. CASE kbuf_spsc_consume_count_store(r)
  BY <1>5 DEF kbuf_spsc_consume_count_store
<1> QED BY <1>1, <1>2, <1>3, <1>4, <1>5

\* kbuf_ring_consume takes the oldest message (kbuf_ring.c 66-95).
LEMMA CommitTakes ==
  ASSUME TypeOK, WakeupInv, QueueInv, NEW r \in Readers, kbuf_ring_consume_commit(r)
  PROVE  TakeStep([msg |-> msg[r], len |-> cnt[r]]) /\ RingInv'
<1>0. /\ r \in IoThreads /\ pc[r] = "b_commit" /\ mode = "blocking"
      /\ count \in 1..num_buffers
  <2>1. r \in IoThreads /\ pc[r] = "b_commit"
    BY DEF IoThreads, kbuf_ring_consume_commit
  <2>2. mode = "blocking"
    BY <2>1, Dispatched DEF BlockingPc
  <2>3. count \in 0..num_buffers /\ count # 0
    BY <2>1 DEF WakeupInv, SectionInv
  <2> QED BY <2>1, <2>2, <2>3, Geometry, SMT
<1>1. /\ read_pos' = (read_pos + 1) % num_buffers /\ count' = count - 1
      /\ UNCHANGED <<slots, num_buffers, mode, write_pos, prod_idx, cons_idx, sent>>
      /\ delivered' = Append(delivered, [msg |-> msg[r], len |-> cnt[r]])
  BY DEF kbuf_ring_consume_commit, shapeVars, idxVars
<1>2. ASSUME NEW i \in Int
      PROVE  (read_pos' + i) % num_buffers = (read_pos + (i + 1)) % num_buffers
  <2>1. num_buffers \in Nat \ {0} /\ num_buffers % num_buffers = 0 /\ read_pos \in Int
    BY Geometry, ModSelf, SMT
  <2> QED BY <1>1, <2>1, StepThenWalk
<1>3. \A i \in Int : SlotAt(i)' = SlotAt(i + 1)
  BY <1>0, <1>1, <1>2 DEF SlotAt
<1>4. Depth = count /\ Depth' = count - 1
  BY <1>0, <1>1 DEF Depth
<1>5. Took(r, SlotAt(0))
  BY <1>0, HeadSlot DEF QueueInv, CallInv, ReadOk
<1>6. TakeStep([msg |-> msg[r], len |-> cnt[r]])
  <2>1. Depth > 0 /\ Depth' = Depth - 1
    BY <1>0, <1>4, Geometry, SMT
  <2>2. \A i \in 0..(Depth - 2) : SlotAt(i)' = SlotAt(i + 1)
    BY <1>0, <1>3, <1>4, Geometry, SMT
  <2> QED BY <1>1, <1>5, <2>1, <2>2 DEF TakeStep, Took
<1>7. RingInv'
  <2>1. count - 1 \in Int /\ (count - 1) + 1 = count
    BY <1>0, SMT
  <2>2. (read_pos' + (count - 1)) % num_buffers = (read_pos + count) % num_buffers
    BY <2>1, <1>2
  <2> QED BY <1>1, <2>2 DEF QueueInv, RingInv, IdxDiff
<1> QED BY <1>6, <1>7

\* The release of cons_idx takes the oldest message (kbuf_ring.c 169-187).
LEMMA PublishTakes ==
  ASSUME TypeOK, WakeupInv, QueueInv, NEW r \in Readers, kbuf_spsc_consume_publish(r)
  PROVE  TakeStep([msg |-> msg[r], len |-> cnt[r]]) /\ RingInv'
<1>0. /\ r \in IoThreads /\ pc[r] = "s_publish" /\ mode = "spsc"
      /\ prod_idx # cons_idx /\ idx[r] = cons_idx
  <2>1. r \in IoThreads /\ pc[r] = "s_publish"
    BY DEF IoThreads, kbuf_spsc_consume_publish
  <2>2. mode = "spsc"
    BY <2>1, Dispatched DEF SpscPc
  <2> QED BY <2>1, <2>2 DEF QueueInv, CallInv, ReadOk, kbuf_spsc_is_empty
<1>1. /\ cons_idx' = (cons_idx + 1) % IdxMod
      /\ UNCHANGED <<slots, num_buffers, mode, read_pos, write_pos, count, prod_idx, sent>>
      /\ delivered' = Append(delivered, [msg |-> msg[r], len |-> cnt[r]])
  BY <1>0 DEF kbuf_spsc_consume_publish, shapeVars, posVars, IdxNext
<1>2. ASSUME NEW i \in Int
      PROVE  (cons_idx' + i) % num_buffers = (cons_idx + (i + 1)) % num_buffers
  <2>1. /\ num_buffers \in Nat \ {0} /\ IdxMod \in Nat \ {0} /\ cons_idx \in Int
        /\ IdxMod % num_buffers = 0
    <3>1. is_power_of_2(num_buffers)
      BY <1>0 DEF QueueInv, GeometryInv, SpscPowerOfTwo
    <3>2. cons_idx \in 0..(IdxMod - 1) /\ IdxMod \in Nat \ {0}
      BY Geometry
    <3>3. cons_idx \in Int
      BY <3>2, SMT
    <3> QED BY <3>1, <3>2, <3>3, Geometry
  <2>2. (((cons_idx + 1) % IdxMod) + i) % num_buffers = (cons_idx + (i + 1)) % num_buffers
    <3>1. \A x, j \in Int :
            (((x + 1) % IdxMod) + j) % num_buffers = (x + (j + 1)) % num_buffers
      BY <2>1, StepThenWalk
    <3> QED BY <2>1, <3>1
  <2> QED BY <1>1, <2>2
<1>3. \A i \in Int : SlotAt(i)' = SlotAt(i + 1)
  BY <1>0, <1>1, <1>2 DEF SlotAt, Masked
<1> DEFINE d == IdxDiff(prod_idx, cons_idx)
<1>4. d \in 1..num_buffers
  <2>1. d \in 0..(IdxMod - 1) /\ (d = 0 <=> prod_idx = cons_idx)
    <3>1. /\ IdxMod \in Nat \ {0}
          /\ prod_idx \in 0..(IdxMod - 1) /\ cons_idx \in 0..(IdxMod - 1)
      BY Geometry
    <3>2. prod_idx \in Int /\ cons_idx \in Int
      BY <3>1, SMT
    <3>3. d \in 0..(IdxMod - 1)
      BY <3>2, IdxRange
    <3>4. (prod_idx - cons_idx) % IdxMod = 0 <=> prod_idx = cons_idx
      BY <3>1, NoDistance
    <3> QED BY <3>3, <3>4 DEF IdxDiff
  <2>2. d <= num_buffers
    BY DEF QueueInv, RingInv
  <2> HIDE DEF d
  <2>3. d # 0 /\ num_buffers \in Nat /\ IdxMod \in Nat
    BY <1>0, <2>1, Geometry
  <2> QED BY <2>1, <2>2, <2>3, FromOne
<1>5. Depth = d /\ Depth' = d - 1 /\ IdxDiff(prod_idx, cons_idx)' = d - 1
  <2>1. (prod_idx - cons_idx') % IdxMod = d - 1
    BY <1>0, <1>1, Geometry, BackStep DEF IdxDiff
  <2> QED BY <1>0, <1>1, <2>1 DEF Depth, IdxDiff
<1> HIDE DEF d
<1>6. Took(r, SlotAt(0))
  BY <1>0, HeadSlot DEF QueueInv, CallInv, ReadOk
<1>7. TakeStep([msg |-> msg[r], len |-> cnt[r]])
  <2>1. Depth > 0 /\ Depth' = Depth - 1
    BY <1>4, <1>5, Geometry, SMT
  <2>2. \A i \in 0..(Depth - 2) : SlotAt(i)' = SlotAt(i + 1)
    BY <1>3, <1>4, <1>5, Geometry, SMT
  <2> QED BY <1>1, <1>6, <2>1, <2>2 DEF TakeStep, Took
<1>8. RingInv'
  <2>1. d - 1 <= num_buffers
    BY <1>4, Geometry, SMT
  <2> QED BY <1>1, <1>5, <2>1 DEF QueueInv, RingInv
<1> QED BY <1>7, <1>8

\* A step of p leaves every other call where it is.
OthersKeep(p) ==
  /\ \A q \in Threads \ {p} : pc'[q] = pc[q]
  /\ \A q \in IoThreads \ {p} :
       /\ lmode'[q] = lmode[q] /\ cnt'[q] = cnt[q] /\ msg'[q] = msg[q]
       /\ idx'[q] = idx[q] /\ ptr'[q] = ptr[q] /\ val'[q] = val[q]

\* Returning clears the locals of the call that returns only.
LEMMA ReturnOthers ==
  ASSUME TypeOK, NEW p \in IoThreads, Return(p) \/ UNCHANGED locVars
  PROVE  \A q \in IoThreads \ {p} :
           /\ lmode'[q] = lmode[q] /\ cnt'[q] = cnt[q] /\ msg'[q] = msg[q]
           /\ idx'[q] = idx[q] /\ ptr'[q] = ptr[q] /\ val'[q] = val[q]
BY SMT DEF TypeOK, LocType, Return, locVars

\* A step of a reader concerns no other call.
LEMMA ReaderOthers ==
  ASSUME TypeOK, NEW r \in Readers, ReaderNext(r)
  PROVE  OthersKeep(r)
<1>0. r \in IoThreads
  BY DEF IoThreads
<1>1. \A q \in Threads \ {r} : pc'[q] = pc[q]
  BY ReaderFrame DEF TypeOK, PcType, Goto
<1>2. \/ UNCHANGED locVars \/ Return(r) \/ kbuf_read(r) \/ ReadCopy(r)
      \/ kbuf_spsc_consume_slot(r) \/ kbuf_spsc_consume_count_load(r)
  BY ReaderFrame
<1> SUFFICES \A q \in IoThreads \ {r} :
               /\ lmode'[q] = lmode[q] /\ cnt'[q] = cnt[q] /\ msg'[q] = msg[q]
               /\ idx'[q] = idx[q] /\ ptr'[q] = ptr[q] /\ val'[q] = val[q]
  BY <1>1 DEF OthersKeep
<1>3. CASE UNCHANGED locVars \/ Return(r)
  BY <1>0, <1>3, ReturnOthers
<1>4. CASE kbuf_read(r)
  BY <1>4 DEF kbuf_read, TypeOK, LocType
<1>5. CASE ReadCopy(r)
  BY <1>5 DEF ReadCopy, kbuf_ring_consume_copy, kbuf_spsc_consume_copy, TypeOK, LocType
<1>6. CASE kbuf_spsc_consume_slot(r) \/ kbuf_spsc_consume_count_load(r)
  BY <1>6 DEF kbuf_spsc_consume_slot, kbuf_spsc_consume_count_load, TypeOK, LocType
<1> QED BY <1>2, <1>3, <1>4, <1>5, <1>6

\* A step of a writer concerns no other call.
LEMMA WriterOthers ==
  ASSUME TypeOK, NEW w \in Writers, WriterNext(w)
  PROVE  OthersKeep(w)
<1>0. w \in IoThreads
  BY DEF IoThreads
<1>1. \A q \in Threads \ {w} : pc'[q] = pc[q]
  BY WriterFrame DEF TypeOK, PcType, Goto
<1>2. \/ UNCHANGED locVars \/ Return(w) \/ kbuf_write(w) \/ kbuf_write_blocking_lock(w)
      \/ kbuf_spsc_produce_slot(w) \/ kbuf_spsc_produce_count_load(w)
  BY WriterFrame
<1> SUFFICES \A q \in IoThreads \ {w} :
               /\ lmode'[q] = lmode[q] /\ cnt'[q] = cnt[q] /\ msg'[q] = msg[q]
               /\ idx'[q] = idx[q] /\ ptr'[q] = ptr[q] /\ val'[q] = val[q]
  BY <1>1 DEF OthersKeep
<1>3. CASE UNCHANGED locVars \/ Return(w)
  BY <1>0, <1>3, ReturnOthers
<1>4. CASE kbuf_write(w)
  BY <1>4 DEF kbuf_write, TypeOK, LocType
<1>5. CASE kbuf_write_blocking_lock(w)
  BY <1>5 DEF kbuf_write_blocking_lock, TypeOK, LocType
<1>6. CASE kbuf_spsc_produce_slot(w) \/ kbuf_spsc_produce_count_load(w)
  BY <1>6 DEF kbuf_spsc_produce_slot, kbuf_spsc_produce_count_load, TypeOK, LocType
<1> QED BY <1>2, <1>3, <1>4, <1>5, <1>6

\* The step a reader takes keeps what is known of its own call: the check
\* finds a message, the slot is computed from the reader's own index, and the
\* copy reads that slot.
LEMMA ReaderOwn ==
  ASSUME TypeOK, QueueInv, NEW r \in Readers, ReaderNext(r)
  PROVE  ReadOk(r)'
<1>0. /\ r \in IoThreads /\ r \in Threads
      /\ pc \in [Threads -> IoPc \cup PollPc \cup CtlPc]
      /\ msg \in [IoThreads -> Nat] /\ cnt \in [IoThreads -> Nat]
      /\ idx \in [IoThreads -> Nat] /\ ptr \in [IoThreads -> Pointer]
      /\ ReadOk(r)
  BY DEF TypeOK, PcType, LocType, Threads, IoThreads, QueueInv, CallInv
<1>1. CASE pc'[r] \notin {"b_commit", "s_slot", "s_copy", "s_publish"}
  BY <1>1 DEF ReadOk
<1>2. CASE kbuf_ring_consume_copy(r)
  <2>1. /\ UNCHANGED <<slots, read_pos>> /\ pc'[r] = "b_commit"
        /\ msg'[r] = slots[read_pos].data
        /\ cnt'[r] = AtMost(cnt[r], slots[read_pos].len)
    BY <1>0, <1>2 DEF kbuf_ring_consume_copy, devVars, shapeVars, posVars, Goto
  <2>2. cnt[r] \in Nat /\ slots[read_pos].len \in Nat
    BY <1>0, Geometry DEF Slot
  <2>3. cnt'[r] <= slots[read_pos].len
    BY <2>1, <2>2, AtMostSecond
  <2> QED BY <2>1, <2>3 DEF ReadOk, Took
<1>3. CASE kbuf_read_spsc_check(r)
  <2>1. pc'[r] = "s_slot" => ~kbuf_spsc_is_empty
    BY <1>0, <1>3 DEF kbuf_read_spsc_check, Goto, Return
  <2>2. pc'[r] \in {"idle", "wait", "s_slot"} /\ UNCHANGED <<prod_idx, cons_idx>>
    BY <1>0, <1>3 DEF kbuf_read_spsc_check, Goto, Return, devVars, idxVars
  <2> QED BY <2>1, <2>2 DEF ReadOk, kbuf_spsc_is_empty
<1>4. CASE kbuf_spsc_consume_slot(r)
  <2>1. /\ UNCHANGED <<prod_idx, cons_idx, arr, num_buffers>>
        /\ pc'[r] = "s_copy" /\ pc[r] = "s_slot"
        /\ idx'[r] = cons_idx
        /\ ptr'[r] = [arr |-> arr, slot |-> Masked(cons_idx)]
    BY <1>0, <1>4 DEF kbuf_spsc_consume_slot, devVars, shapeVars, idxVars, Goto
  <2> QED BY <1>0, <2>1 DEF ReadOk, Masked, kbuf_spsc_is_empty
<1>5. CASE kbuf_spsc_consume_copy(r)
  <2>1. /\ UNCHANGED <<prod_idx, cons_idx, arr, num_buffers, slots, idx, ptr>>
        /\ pc'[r] = "s_publish" /\ pc[r] = "s_copy"
    BY <1>0, <1>5 DEF kbuf_spsc_consume_copy, devVars, shapeVars, idxVars, Goto
  <2>2. /\ ptr[r] = [arr |-> arr, slot |-> Masked(cons_idx)]
        /\ Masked(cons_idx) \in 0..(num_buffers - 1)
    <3>1. cons_idx \in Int
      BY Geometry, SMT
    <3> QED BY <1>0, <2>1, <3>1, Geometry, ModRange DEF ReadOk, Masked
  <2>3. Reachable(r) /\ ptr[r].slot = Masked(cons_idx)
    BY <2>2, Geometry, SMT DEF Reachable
  <2>4. /\ msg'[r] = slots[Masked(cons_idx)].data
        /\ cnt'[r] = AtMost(cnt[r], slots[Masked(cons_idx)].len)
    BY <1>0, <1>5, <2>3 DEF kbuf_spsc_consume_copy
  <2>5. cnt[r] \in Nat /\ slots[Masked(cons_idx)].len \in Nat
    BY <1>0, <2>2, Geometry DEF Slot
  <2>6. cnt'[r] <= slots[Masked(cons_idx)].len
    <3> DEFINE n == slots[Masked(cons_idx)].len
               c == cnt[r]
    <3>1. c \in Nat /\ n \in Nat /\ cnt'[r] = AtMost(c, n)
      BY <2>4, <2>5
    <3> HIDE DEF c, n
    <3>2. cnt'[r] <= n
      BY <3>1, SMT DEF AtMost
    <3> QED BY <3>2 DEF n
  <2> QED BY <1>0, <2>1, <2>4, <2>6 DEF ReadOk, Took, Masked, kbuf_spsc_is_empty
<1>6. \/ kbuf_ring_consume_copy(r) \/ kbuf_read_spsc_check(r)
      \/ kbuf_spsc_consume_slot(r) \/ kbuf_spsc_consume_copy(r)
      \/ pc'[r] \notin {"b_commit", "s_slot", "s_copy", "s_publish"}
  <2> USE <1>0 DEF Goto, Return
  <2>1. CASE kbuf_read(r) \/ ReadLock(r) \/ ReadFault(r)
    BY <2>1 DEF kbuf_read, ReadLock, kbuf_read_blocking_lock, ReadFault,
                kbuf_ring_consume_fault, kbuf_spsc_consume_fault
  <2>2. CASE WaitStep(r) \/ Interrupt(r)
    BY <2>2 DEF WaitStep, Interrupt, prepare_to_wait, wait_event_test,
                wait_event_woken, wait_event_signal, kbuf_blocking_lock_signal
  <2>3. CASE \/ kbuf_read_blocking_check(r) \/ kbuf_ring_consume_commit(r)
             \/ kbuf_spsc_consume_publish(r)
    BY <2>3 DEF kbuf_read_blocking_check, kbuf_ring_consume_commit,
                kbuf_spsc_consume_publish
  <2>4. CASE \/ kbuf_spsc_consume_count_load(r) \/ kbuf_spsc_consume_count_store(r)
             \/ kbuf_read_wake(r)
    BY <2>4 DEF kbuf_spsc_consume_count_load, kbuf_spsc_consume_count_store,
                kbuf_read_wake
  <2> QED BY <2>1, <2>2, <2>3, <2>4 DEF ReaderNext, ReadStep, ReadCopy
<1> QED BY <1>1, <1>2, <1>3, <1>4, <1>5, <1>6

\* A step that leaves the ring alone leaves the queue alone.
LEMMA SameRing ==
  ASSUME UNCHANGED <<slots, num_buffers, mode, read_pos, count, prod_idx, cons_idx,
                     sent, delivered>>
  PROVE  KeepStep
<1>1. Depth' = Depth
  BY DEF Depth, IdxDiff
<1>2. \A i : SlotAt(i)' = SlotAt(i)
  BY DEF SlotAt, Masked
<1> QED BY <1>1, <1>2 DEF KeepStep

\* A step of a read call keeps the queue invariant and takes at most the
\* oldest message from the queue.
LEMMA ReaderQueue ==
  ASSUME Contract, TypeOK, MutexDiscipline, WakeupInv, QueueInv,
         NEW r \in Readers, ReaderNext(r)
  PROVE  QueueInv' /\ QueueStep
<1>0. /\ r \in IoThreads /\ r \in Threads /\ TypeOK'
      /\ OthersKeep(r)
      /\ UNCHANGED <<slots, arr, num_buffers, buffer_size, mode, write_pos,
                     prod_idx, peak_count, sent, nextMsg>>
      /\ UNCHANGED <<arg, occ>>
  BY ReaderType, ReaderOthers, ReaderRing, ReaderFrame DEF Threads, IoThreads, ctlVars
<1>1. \/ UNCHANGED <<read_pos, count, cons_idx, delivered>>
      \/ kbuf_ring_consume_commit(r)
      \/ kbuf_spsc_consume_publish(r)
  BY ReaderRing
<1>2. QueueStep /\ RingInv'
  <2>1. CASE UNCHANGED <<read_pos, count, cons_idx, delivered>>
    BY <2>1, <1>0, SameRing DEF QueueStep, QueueInv, RingInv, IdxDiff
  <2>2. [msg |-> msg[r], len |-> cnt[r]] \in Message
    BY <1>0 DEF TypeOK, LocType, Message
  <2>3. CASE kbuf_ring_consume_commit(r)
    BY <2>2, <2>3, CommitTakes DEF QueueStep
  <2>4. CASE kbuf_spsc_consume_publish(r)
    BY <2>2, <2>4, PublishTakes DEF QueueStep
  <2> QED BY <1>1, <2>1, <2>3, <2>4
<1>3. FifoOrder'
  BY <1>0, <1>2, QueueStepOrder DEF QueueInv
<1>4. GeometryInv'
  BY <1>0 DEF QueueInv, GeometryInv, SpscPowerOfTwo
<1>5. OccupancyInv'
  <2>1. SUFFICES ASSUME NEW c \in Ctls, pc'[c] = "c_body", arg[c].op \in {"RESIZE", "SMODE"}
                 PROVE  occ[c] = IF mode = "spsc" THEN prod_idx ELSE count'
    BY <1>0 DEF OccupancyInv
  <2>2. c \in Threads /\ c # r /\ pc[c] = "c_body"
    BY <1>0, <2>1, ThreadAssumption DEF OthersKeep, Threads, IoThreads
  <2>3. ~kbuf_ring_consume_commit(r)
    BY <1>0, <2>2, Alone DEF kbuf_ring_consume_commit, Holds
  <2>4. count' = count
    BY <1>1, <2>3 DEF kbuf_spsc_consume_publish, posVars
  <2> QED BY <2>1, <2>2, <2>4 DEF QueueInv, OccupancyInv
<1>6. PeakBounds'
  <2>1. count' = count \/ count' = count - 1
    BY <1>1 DEF kbuf_ring_consume_commit, kbuf_spsc_consume_publish, posVars
  <2>2. peak_count \in 0..num_buffers /\ (mode = "blocking" => count <= peak_count)
    BY DEF QueueInv, PeakBounds
  <2> QED BY <1>0, <2>1, <2>2, Geometry, SMT DEF PeakBounds
<1>7. ASSUME NEW s \in Readers PROVE ReadOk(s)'
  <2>1. CASE s = r
    BY <2>1, ReaderOwn
  <2>2. CASE s # r
    <3>1. /\ s \in IoThreads /\ s \in Threads /\ pc'[s] = pc[s]
          /\ msg'[s] = msg[s] /\ cnt'[s] = cnt[s]
      BY <1>0, <2>2 DEF OthersKeep, Threads, IoThreads
    <3>2. pc[s] \notin SpscPc
      BY <2>2, <3>1, Dispatched DEF Contract, WakeupInv, ContractInv
    <3>3. pc[s] = "b_commit" => read_pos' = read_pos
      BY <1>0, <1>1, <2>2, <3>1, Alone
         DEF Holds, kbuf_ring_consume_commit, kbuf_spsc_consume_publish, posVars
    <3>4. ReadOk(s)
      BY DEF QueueInv, CallInv
    <3> QED BY <1>0, <3>1, <3>2, <3>3, <3>4 DEF ReadOk, Took, SpscPc
  <2> QED BY <2>1, <2>2
<1>8. ASSUME NEW w \in Writers PROVE WriteOk(w)'
  <2>1. /\ w \in IoThreads /\ w \in Threads /\ w # r /\ pc'[w] = pc[w]
        /\ msg'[w] = msg[w] /\ cnt'[w] = cnt[w] /\ idx'[w] = idx[w] /\ ptr'[w] = ptr[w]
        /\ lmode'[w] = lmode[w]
    BY <1>0, ThreadAssumption DEF OthersKeep, Threads, IoThreads
  <2>2. WriteOk(w)
    BY DEF QueueInv, CallInv
  <2>3. pc[w] \in {"s_slot", "s_copy", "s_publish"} => ~kbuf_spsc_is_full'
    <3>1. SUFFICES ASSUME pc[w] \in {"s_slot", "s_copy", "s_publish"}
                   PROVE  ~kbuf_spsc_is_full'
      BY SMT
    <3>2. ~kbuf_spsc_is_full
      BY <2>2, <3>1 DEF WriteOk
    <3>3. CASE UNCHANGED cons_idx
      BY <1>0, <3>2, <3>3 DEF kbuf_spsc_is_full, IdxDiff
    <3>4. CASE kbuf_spsc_consume_publish(r)
      <4>1. mode = "spsc"
        BY <1>0, <3>4, Dispatched DEF SpscPc, kbuf_spsc_consume_publish
      <4>2. Depth' = Depth - 1
        BY <3>4, PublishTakes DEF TakeStep
      <4>3. /\ Depth = IdxDiff(prod_idx, cons_idx)
            /\ Depth' = IdxDiff(prod_idx, cons_idx)'
            /\ Depth \in 0..num_buffers
        BY <1>0, <4>1 DEF Depth, QueueInv, FifoOrder
      <4> QED BY <1>0, <3>2, <4>2, <4>3, Geometry, SMT DEF kbuf_spsc_is_full
    <3> QED BY <1>1, <3>3, <3>4 DEF kbuf_ring_consume_commit, idxVars
  <2> QED BY <1>0, <2>1, <2>2, <2>3 DEF WriteOk, Masked
<1> QED BY <1>0, <1>2, <1>3, <1>4, <1>5, <1>6, <1>7, <1>8 DEF QueueInv, CallInv

-----------------------------------------------------------------------------
(* The steps of a writer keep the invariant of the queue too.              *)

\* A position that steps on after it was reduced.
LEMMA ModThenStep ==
  ASSUME NEW n \in Nat \ {0}, NEW x \in Int
  PROVE  ((x % n) + 1) % n = (x + 1) % n
<1>1. n % n = 0
  BY ModSelf
<1>2. \A y \in Int : ((x % n) + y) % n = (x + y) % n
  BY <1>1, ModOfMod
<1> QED BY <1>2, SMT

\* What a writer leaves alone in the ring, and the steps that change the rest.
LEMMA WriterRing ==
  ASSUME NEW w \in Writers, WriterNext(w)
  PROVE  /\ UNCHANGED <<arr, num_buffers, buffer_size, mode, read_pos, cons_idx,
                        delivered>>
         /\ \/ UNCHANGED <<slots, write_pos, count, prod_idx, sent>>
            \/ WriteCopy(w) \/ WriteFault(w)
            \/ kbuf_ring_produce_commit(w)
            \/ kbuf_spsc_produce_publish(w)
         /\ \/ UNCHANGED <<count, peak_count>>
            \/ kbuf_ring_produce_commit(w)
            \/ kbuf_spsc_produce_peak(w)
         /\ UNCHANGED nextMsg \/ kbuf_write(w)
<1> USE DEF devVars, shapeVars, posVars, idxVars, statVars, histVars
<1>1. /\ \/ UNCHANGED devVars
         \/ WriteCopy(w) \/ WriteFault(w)
         \/ kbuf_ring_produce_commit(w)
         \/ kbuf_spsc_produce_publish(w)
         \/ kbuf_spsc_produce_count_store(w)
         \/ kbuf_spsc_produce_peak(w)
      /\ \/ UNCHANGED histVars
         \/ kbuf_write(w)
         \/ kbuf_ring_produce_commit(w)
         \/ kbuf_spsc_produce_publish(w)
  BY WriterFrame
<1>2. CASE UNCHANGED devVars /\ UNCHANGED histVars
  BY <1>2
<1>3. CASE kbuf_write(w)
  BY <1>3 DEF kbuf_write
<1>4. CASE kbuf_ring_produce_commit(w)
  BY <1>4 DEF kbuf_ring_produce_commit
<1>5. CASE kbuf_spsc_produce_publish(w)
  BY <1>5 DEF kbuf_spsc_produce_publish
<1>6. CASE kbuf_spsc_produce_count_store(w)
  BY <1>6 DEF kbuf_spsc_produce_count_store
<1>7. CASE kbuf_spsc_produce_peak(w)
  BY <1>7 DEF kbuf_spsc_produce_peak
<1>8. CASE WriteCopy(w)
  BY <1>8 DEF WriteCopy, kbuf_ring_produce_copy, kbuf_spsc_produce_copy
<1>9. CASE WriteFault(w)
  BY <1>9 DEF WriteFault, kbuf_ring_produce_fault, kbuf_spsc_produce_fault
<1> QED BY <1>1, <1>2, <1>3, <1>4, <1>5, <1>6, <1>7, <1>8, <1>9

\* Writing to the first free slot touches no message of the queue.
LEMMA TailWrite ==
  ASSUME TypeOK, Depth \in Nat, Depth < num_buffers, NEW v \in Slot,
         slots' = [slots EXCEPT ![SlotAt(Depth)] = v]
  PROVE  /\ \A i \in 0..(Depth - 1) : slots'[SlotAt(i)] = slots[SlotAt(i)]
         /\ slots'[SlotAt(Depth)] = v
<1>1. SlotAt(Depth) \in DOMAIN slots
  BY SlotRange, Geometry, SMT
<1>2. ASSUME NEW i \in 0..(Depth - 1) PROVE slots'[SlotAt(i)] = slots[SlotAt(i)]
  <2>1. i \in Nat /\ i < num_buffers /\ i # Depth
    BY Geometry, SMT
  <2>2. SlotAt(i) # SlotAt(Depth)
    BY <2>1, SlotsApart
  <2>3. SlotAt(i) \in DOMAIN slots
    BY <2>1, SlotRange, Geometry, SMT
  <2> QED BY <2>2, <2>3, Geometry
<1> QED BY <1>1, <1>2, Geometry

\* The writer in its copy has room in front of it.
LEMMA WriterRoom ==
  ASSUME TypeOK, WakeupInv, QueueInv, NEW w \in Writers,
         pc[w] \in {"b_copy", "b_commit", "s_copy", "s_publish"}
  PROVE  /\ Depth \in Nat /\ Depth < num_buffers
         /\ pc[w] \in {"b_copy", "b_commit"} =>
              mode = "blocking" /\ Depth = count /\ SlotAt(Depth) = write_pos
         /\ pc[w] \in {"s_copy", "s_publish"} =>
              /\ mode = "spsc" /\ Depth = IdxDiff(prod_idx, cons_idx)
              /\ SlotAt(Depth) = Masked(prod_idx)
<1>0. w \in IoThreads
  BY DEF IoThreads
<1>1. /\ Depth \in 0..num_buffers /\ count \in 0..num_buffers
      /\ RingInv /\ SpscPowerOfTwo /\ WriteOk(w)
  BY DEF QueueInv, FifoOrder, WakeupInv, SectionInv, GeometryInv, CallInv
<1>2. CASE pc[w] \in {"b_copy", "b_commit"}
  <2>1. mode = "blocking" /\ count # num_buffers
    BY <1>0, <1>2, Dispatched DEF BlockingPc, WakeupInv, SectionInv
  <2>2. Depth = count
    BY <2>1 DEF Depth
  <2> QED BY <1>1, <1>2, <2>1, <2>2, TailSlot, Geometry, SMT
<1>3. CASE pc[w] \in {"s_copy", "s_publish"}
  <2>1. mode = "spsc" /\ ~kbuf_spsc_is_full
    BY <1>0, <1>1, <1>3, Dispatched DEF SpscPc, WriteOk
  <2>2. Depth = IdxDiff(prod_idx, cons_idx)
    BY <2>1 DEF Depth
  <2>3. Depth < num_buffers
    BY <1>1, <2>1, <2>2, Geometry, SMT DEF kbuf_spsc_is_full
  <2> QED BY <1>1, <1>3, <2>1, <2>2, <2>3, TailSlot, Geometry, SMT
<1> QED BY <1>2, <1>3

\* The copy of a write call, whole or cut short by a fault, fills the first
\* free slot (kbuf_ring.c 103-110, 146-153).
LEMMA WriterCopies ==
  ASSUME TypeOK, WakeupInv, QueueInv, NEW w \in Writers, WriteCopy(w) \/ WriteFault(w)
  PROVE  /\ KeepStep
         /\ \E v \in Slot : slots' = [slots EXCEPT ![SlotAt(Depth)] = v]
<1>0. w \in IoThreads /\ msg[w] \in Nat /\ cnt[w] \in Nat
  BY DEF IoThreads, TypeOK, LocType
<1>1. /\ UNCHANGED <<num_buffers, mode, read_pos, count, prod_idx, cons_idx, sent,
                     delivered>>
  BY DEF WriteCopy, WriteFault, kbuf_ring_produce_copy, kbuf_spsc_produce_copy,
         kbuf_ring_produce_fault, kbuf_spsc_produce_fault, posVars, idxVars, histVars
<1>2. pc[w] \in {"b_copy", "s_copy"}
  BY DEF WriteCopy, WriteFault, kbuf_ring_produce_copy, kbuf_spsc_produce_copy,
         kbuf_ring_produce_fault, kbuf_spsc_produce_fault
<1>3. \E v \in Slot : slots' = [slots EXCEPT ![SlotAt(Depth)] = v]
  <2>1. SlotAt(Depth) \in 0..(num_buffers - 1)
    BY <1>2, WriterRoom, SlotRange, SMT
  <2>2. slots[SlotAt(Depth)] \in Slot
    BY <2>1, Geometry
  <2> DEFINE l == slots[SlotAt(Depth)].len
  <2>3. l \in Nat /\ Garbage \in Nat
    BY <2>2 DEF Slot, Garbage
  <2>4. \A d, n \in Nat : [data |-> d, len |-> n] \in Slot
    BY DEF Slot
  <2>5. CASE pc[w] = "b_copy"
    <3>1. SlotAt(Depth) = write_pos
      BY <2>5, WriterRoom
    <3>2. \/ slots' = [slots EXCEPT ![SlotAt(Depth)] = [data |-> msg[w], len |-> l]]
          \/ slots' = [slots EXCEPT ![SlotAt(Depth)] = [data |-> Garbage, len |-> l]]
      BY <2>5, <3>1 DEF WriteCopy, WriteFault, kbuf_ring_produce_copy,
         kbuf_ring_produce_fault, kbuf_spsc_produce_copy, kbuf_spsc_produce_fault
    <3> HIDE DEF l
    <3> QED BY <1>0, <2>3, <2>4, <3>2
  <2>6. CASE pc[w] = "s_copy"
    <3>1. SlotAt(Depth) = Masked(prod_idx)
      BY <2>6, WriterRoom
    <3>2. ptr[w] = [arr |-> arr, slot |-> Masked(prod_idx)]
      BY <2>6 DEF QueueInv, CallInv, WriteOk
    <3>3. Reachable(w) /\ ptr[w].slot = SlotAt(Depth)
      <4>1. SlotAt(Depth) < num_buffers
        BY <2>1, Geometry, BelowBound
      <4>2. ptr[w].arr = arr /\ ptr[w].slot = Masked(prod_idx)
        BY <3>2, SMT
      <4> QED BY <3>1, <4>1, <4>2 DEF Reachable
    <3>4. \/ slots' = [slots EXCEPT ![SlotAt(Depth)] = [data |-> msg[w], len |-> cnt[w]]]
          \/ slots' = [slots EXCEPT ![SlotAt(Depth)] = [data |-> Garbage, len |-> l]]
      BY <2>6, <3>3 DEF WriteCopy, WriteFault, kbuf_ring_produce_copy,
         kbuf_ring_produce_fault, kbuf_spsc_produce_copy, kbuf_spsc_produce_fault
    <3> HIDE DEF l
    <3> QED BY <1>0, <2>3, <2>4, <3>4
  <2> QED BY <1>2, <2>5, <2>6
<1>4. KeepStep
  <2>1. Depth \in Nat /\ Depth < num_buffers
    BY <1>2, WriterRoom
  <2>2. \A i \in 0..(Depth - 1) : slots'[SlotAt(i)] = slots[SlotAt(i)]
    BY <1>3, <2>1, TailWrite
  <2>3. Depth' = Depth
    BY <1>1 DEF Depth, IdxDiff
  <2>4. \A i : SlotAt(i)' = SlotAt(i)
    BY <1>1 DEF SlotAt, Masked
  <2> QED BY <1>1, <2>2, <2>3, <2>4 DEF KeepStep
<1> QED BY <1>3, <1>4

\* kbuf_ring_produce adds the message at the end (kbuf_ring.c 103-122).
LEMMA CommitPuts ==
  ASSUME TypeOK, WakeupInv, QueueInv, NEW w \in Writers, kbuf_ring_produce_commit(w)
  PROVE  PutStep([msg |-> msg[w], len |-> cnt[w]]) /\ RingInv'
<1>0. /\ w \in IoThreads /\ msg[w] \in Nat /\ cnt[w] \in Nat /\ pc[w] = "b_commit"
      /\ WriteOk(w)
  BY DEF IoThreads, TypeOK, LocType, QueueInv, CallInv, kbuf_ring_produce_commit
<1>1. /\ mode = "blocking" /\ Depth = count /\ SlotAt(Depth) = write_pos
      /\ Depth \in Nat /\ Depth < num_buffers
  BY <1>0, WriterRoom
<1>2. /\ slots' = [slots EXCEPT ![write_pos] =
                     [data |-> slots[write_pos].data, len |-> cnt[w]]]
      /\ write_pos' = (write_pos + 1) % num_buffers /\ count' = count + 1
      /\ UNCHANGED <<num_buffers, mode, read_pos, prod_idx, cons_idx, delivered>>
      /\ sent' = Append(sent, [msg |-> msg[w], len |-> cnt[w]])
  BY DEF kbuf_ring_produce_commit, shapeVars, idxVars
<1>3. slots[write_pos].data = msg[w]
  BY <1>0 DEF WriteOk
<1> DEFINE v == [data |-> msg[w], len |-> cnt[w]]
<1>4. v \in Slot
  BY <1>0 DEF Slot
<1>5. slots' = [slots EXCEPT ![SlotAt(Depth)] = v]
  BY <1>1, <1>2, <1>3
<1> HIDE DEF v
<1>6. /\ \A i \in 0..(Depth - 1) : slots'[SlotAt(i)] = slots[SlotAt(i)]
      /\ slots'[SlotAt(Depth)] = v
  BY <1>1, <1>4, <1>5, TailWrite
<1>7. Depth' = Depth + 1 /\ \A i : SlotAt(i)' = SlotAt(i)
  BY <1>1, <1>2 DEF Depth, SlotAt
<1>8. msg[w] \in 1..MaxMsgs /\ cnt[w] \in 0..KBUF_MAX_BUFFER_SIZE
  <2>1. msg[w] \in 1..MaxMsgs /\ cnt[w] <= KBUF_MAX_BUFFER_SIZE
    BY <1>0 DEF WriteOk
  <2> QED BY <1>0, <2>1, SizeFacts, UpTo
<1>9. PutStep([msg |-> msg[w], len |-> cnt[w]])
  BY <1>1, <1>2, <1>6, <1>7, <1>8 DEF PutStep, v
<1>10. RingInv'
  <2> DEFINE x == read_pos + count
  <2>1. /\ num_buffers \in Nat \ {0} /\ num_buffers % num_buffers = 0
        /\ read_pos \in Int /\ count \in Int /\ x \in Int /\ 1 \in Int
    BY Geometry, ModSelf, SMT
  <2>2. write_pos = x % num_buffers
    BY DEF QueueInv, RingInv
  <2>3. x + 1 = read_pos + (count + 1)
    BY <2>1, SMT
  <2> HIDE DEF x
  <2>4. ((x % num_buffers) + 1) % num_buffers = (x + 1) % num_buffers
    BY <2>1, ModThenStep
  <2> QED BY <1>2, <2>2, <2>3, <2>4 DEF QueueInv, RingInv, IdxDiff
<1> QED BY <1>9, <1>10

\* The release of prod_idx adds the message at the end (kbuf_ring.c 138-167).
LEMMA PublishPuts ==
  ASSUME TypeOK, WakeupInv, QueueInv, NEW w \in Writers, kbuf_spsc_produce_publish(w)
  PROVE  /\ PutStep([msg |-> msg[w], len |-> cnt[w]]) /\ RingInv'
         /\ IdxDiff(prod_idx, cons_idx)' = Depth + 1
<1>0. /\ w \in IoThreads /\ msg[w] \in Nat /\ cnt[w] \in Nat /\ pc[w] = "s_publish"
      /\ WriteOk(w)
  BY DEF IoThreads, TypeOK, LocType, QueueInv, CallInv, kbuf_spsc_produce_publish
<1>1. /\ mode = "spsc" /\ Depth = IdxDiff(prod_idx, cons_idx)
      /\ SlotAt(Depth) = Masked(prod_idx) /\ Depth \in Nat /\ Depth < num_buffers
  BY <1>0, WriterRoom
<1>2. /\ prod_idx' = (prod_idx + 1) % IdxMod
      /\ UNCHANGED <<slots, num_buffers, mode, read_pos, write_pos, count, cons_idx,
                     delivered>>
      /\ sent' = Append(sent, [msg |-> msg[w], len |-> cnt[w]])
  BY <1>0 DEF kbuf_spsc_produce_publish, shapeVars, posVars, IdxNext, WriteOk
<1>3. slots'[SlotAt(Depth)] = [data |-> msg[w], len |-> cnt[w]]
  BY <1>0, <1>1, <1>2 DEF WriteOk
<1>4. IdxDiff(prod_idx, cons_idx)' = Depth + 1
  <2>1. (prod_idx - cons_idx) % IdxMod < IdxMod - 1
    BY <1>1, Geometry, SMT DEF IdxDiff
  <2>2. (((prod_idx + 1) % IdxMod) - cons_idx) % IdxMod
          = ((prod_idx - cons_idx) % IdxMod) + 1
    BY <2>1, Geometry, FrontStep
  <2> QED BY <1>1, <1>2, <2>2 DEF IdxDiff
<1>5. Depth' = Depth + 1
  BY <1>1, <1>2, <1>4 DEF Depth
<1>6. \A i : SlotAt(i)' = SlotAt(i)
  BY <1>2 DEF SlotAt, Masked
<1>7. msg[w] \in 1..MaxMsgs /\ cnt[w] \in 0..KBUF_MAX_BUFFER_SIZE
  <2>1. msg[w] \in 1..MaxMsgs /\ cnt[w] <= KBUF_MAX_BUFFER_SIZE
    BY <1>0 DEF WriteOk
  <2> QED BY <1>0, <2>1, SizeFacts, UpTo
<1>8. PutStep([msg |-> msg[w], len |-> cnt[w]])
  BY <1>1, <1>2, <1>3, <1>5, <1>6, <1>7 DEF PutStep
<1>9. RingInv'
  <2>1. Depth + 1 <= num_buffers
    BY <1>1, Geometry, SMT
  <2> QED BY <1>2, <1>4, <2>1 DEF QueueInv, RingInv
<1> QED BY <1>4, <1>8, <1>9

\* The step a writer takes keeps what is known of its own call: the clamp, the
\* room found by the check, the slot computed from the writer's own index and
\* what the copy put there.
LEMMA WriterOwn ==
  ASSUME TypeOK, WakeupInv, QueueInv, NEW w \in Writers, WriterNext(w)
  PROVE  WriteOk(w)'
<1>0. /\ w \in IoThreads /\ w \in Threads
      /\ pc \in [Threads -> IoPc \cup PollPc \cup CtlPc]
      /\ lmode \in [IoThreads -> Modes]
      /\ msg \in [IoThreads -> Nat] /\ cnt \in [IoThreads -> Nat]
      /\ idx \in [IoThreads -> Nat] /\ ptr \in [IoThreads -> Pointer]
      /\ buffer_size \in Nat /\ buffer_size <= KBUF_MAX_BUFFER_SIZE
      /\ WriteOk(w)
  <2>1. buffer_size \in Nat /\ buffer_size <= KBUF_MAX_BUFFER_SIZE
    BY SizeFacts, SMT DEF TypeOK, DevType
  <2> QED BY <2>1 DEF TypeOK, PcType, LocType, Threads, IoThreads, QueueInv, CallInv
<1>1. CASE pc'[w] = "idle"
  BY <1>1 DEF WriteOk
<1>2. CASE kbuf_write(w)
  <2>1. PICK n \in WriteCounts :
          cnt' = [cnt EXCEPT ![w] = IF mode = "spsc" THEN AtMost(n, buffer_size) ELSE n]
    BY <1>2 DEF kbuf_write
  <2>2. /\ pc'[w] = IF mode = "spsc" THEN "s_check" ELSE "b_lock"
        /\ lmode'[w] = mode /\ msg'[w] = nextMsg /\ nextMsg <= MaxMsgs
        /\ buffer_size' = buffer_size
    BY <1>0, <1>2 DEF kbuf_write, Goto, devVars, shapeVars
  <2>3. n \in Nat /\ nextMsg \in 1..MaxMsgs
    BY <2>2, RequestAssumption, SMT DEF QueueInv, TypeOK, HistType
  <2>4. mode = "spsc" => cnt'[w] <= buffer_size /\ cnt'[w] <= KBUF_MAX_BUFFER_SIZE
    <3>1. AtMost(n, buffer_size) <= buffer_size /\ AtMost(n, buffer_size) <= KBUF_MAX_BUFFER_SIZE
      BY <1>0, <2>3, SizeFacts, Clamped
    <3> QED BY <1>0, <2>1, <3>1
  <2> QED BY <2>2, <2>3, <2>4 DEF WriteOk
<1>3. CASE kbuf_write_blocking_lock(w)
  <2>1. /\ pc'[w] = "b_check" /\ pc[w] = "b_lock"
        /\ lmode'[w] = lmode[w] /\ msg'[w] = msg[w]
        /\ cnt'[w] = AtMost(cnt[w], buffer_size) /\ buffer_size' = buffer_size
    BY <1>0, <1>3 DEF kbuf_write_blocking_lock, Goto, devVars, shapeVars
  <2>2. cnt'[w] <= KBUF_MAX_BUFFER_SIZE /\ cnt'[w] <= buffer_size
    <3>1. cnt[w] \in Nat
      BY <1>0
    <3>2. /\ AtMost(cnt[w], buffer_size) <= KBUF_MAX_BUFFER_SIZE
          /\ AtMost(cnt[w], buffer_size) <= buffer_size
      BY <1>0, <3>1, SizeFacts, Clamped
    <3> QED BY <2>1, <3>2
  <2> QED BY <1>0, <2>1, <2>2 DEF WriteOk
<1>4. CASE WriteCopy(w)
  <2>1. /\ pc'[w] = IF pc[w] = "b_copy" THEN "b_commit" ELSE "s_publish"
        /\ pc[w] \in {"b_copy", "s_copy"}
        /\ UNCHANGED <<arr, num_buffers, buffer_size, write_pos, prod_idx, cons_idx,
                       lmode, msg, cnt, idx, ptr>>
    BY <1>0, <1>4 DEF WriteCopy, kbuf_ring_produce_copy, kbuf_spsc_produce_copy, Goto,
                      posVars, idxVars, locVars
  <2>2. CASE pc[w] = "b_copy"
    <3>1. slots'[write_pos].data = msg[w]
      BY <1>4, <2>2, Geometry, SMT DEF WriteCopy, kbuf_ring_produce_copy, kbuf_spsc_produce_copy
    <3> QED BY <1>0, <2>1, <2>2, <3>1 DEF WriteOk
  <2>3. CASE pc[w] = "s_copy"
    <3>1. /\ ptr[w] = [arr |-> arr, slot |-> Masked(prod_idx)]
          /\ Masked(prod_idx) \in 0..(num_buffers - 1)
      <4>1. prod_idx \in Int
        BY Geometry, SMT
      <4> QED BY <1>0, <2>3, <4>1, Geometry, ModRange DEF WriteOk, Masked
    <3>2. Reachable(w) /\ ptr[w].slot = Masked(prod_idx)
      BY <3>1, Geometry, SMT DEF Reachable
    <3>3. slots'[Masked(prod_idx)] = [data |-> msg[w], len |-> cnt[w]]
      BY <1>4, <2>3, <3>1, <3>2, Geometry
         DEF WriteCopy, kbuf_ring_produce_copy, kbuf_spsc_produce_copy
    <3> QED BY <1>0, <2>1, <2>3, <3>3 DEF WriteOk, Masked, kbuf_spsc_is_full, IdxDiff
  <2> QED BY <2>1, <2>2, <2>3
<1>5. CASE kbuf_spsc_produce_slot(w)
  <2>1. /\ UNCHANGED <<prod_idx, cons_idx, arr, num_buffers, buffer_size, lmode, msg, cnt>>
        /\ pc'[w] = "s_copy" /\ pc[w] = "s_slot"
        /\ idx'[w] = prod_idx
        /\ ptr'[w] = [arr |-> arr, slot |-> Masked(prod_idx)]
    BY <1>0, <1>5 DEF kbuf_spsc_produce_slot, devVars, shapeVars, idxVars, Goto
  <2> QED BY <1>0, <2>1 DEF WriteOk, Masked, kbuf_spsc_is_full, IdxDiff
<1>6. CASE kbuf_spsc_produce_publish(w)
  <2>1. /\ prod_idx' = IdxNext(idx[w]) /\ pc'[w] = "s_load" /\ pc[w] = "s_publish"
        /\ UNCHANGED <<buffer_size, lmode, msg, cnt, idx>>
    BY <1>0, <1>6 DEF kbuf_spsc_produce_publish, shapeVars, locVars, Goto
  <2> QED BY <1>0, <2>1 DEF WriteOk, IdxNext
<1>7. CASE kbuf_write_spsc_check(w) /\ pc'[w] # "idle"
  <2>1. /\ pc'[w] = "s_slot" => ~kbuf_spsc_is_full
        /\ pc'[w] \in {"wait", "s_slot"} /\ pc[w] = "s_check"
        /\ UNCHANGED <<num_buffers, buffer_size, prod_idx, cons_idx, lmode, msg, cnt>>
    BY <1>0, <1>7 DEF kbuf_write_spsc_check, Goto, Return, devVars, shapeVars, idxVars,
                      locVars
  <2> QED BY <1>0, <2>1 DEF WriteOk, kbuf_spsc_is_full, IdxDiff
<1> DEFINE Aside == /\ pc'[w] \in {"b_check", "b_copy", "wait", "wake", "test", "sleep",
                                   "b_relock", "s_check"}
                    /\ pc[w] \notin {"idle", "b_lock"}
                    /\ UNCHANGED <<buffer_size, lmode, msg, cnt>>
           Count == /\ pc[w] \in {"s_load", "s_store", "s_peak"}
                    /\ pc'[w] \in {"s_store", "s_peak", "wake"}
                    /\ UNCHANGED <<buffer_size, prod_idx, lmode, msg, cnt, idx>>
<1>8. CASE Aside
  BY <1>0, <1>8 DEF WriteOk
<1>9. CASE Count
  BY <1>0, <1>9 DEF WriteOk, IdxNext
<1>10. \/ pc'[w] = "idle" \/ kbuf_write(w) \/ kbuf_write_blocking_lock(w)
       \/ WriteCopy(w) \/ kbuf_spsc_produce_slot(w) \/ kbuf_spsc_produce_publish(w)
       \/ kbuf_write_spsc_check(w) \/ Aside \/ Count
  <2> USE <1>0 DEF Goto, Return, devVars, shapeVars, locVars
  <2>1. CASE kbuf_write_blocking_relock(w) \/ kbuf_write_blocking_check(w)
    BY <2>1 DEF kbuf_write_blocking_relock, kbuf_write_blocking_check
  <2>2. CASE WaitStep(w) \/ Interrupt(w)
    BY <2>2 DEF WaitStep, Interrupt, prepare_to_wait, wait_event_test,
                wait_event_woken, wait_event_signal, kbuf_blocking_lock_signal
  <2>3. CASE kbuf_ring_produce_commit(w)
    BY <2>3 DEF kbuf_ring_produce_commit
  <2>4. CASE \/ kbuf_spsc_produce_count_load(w) \/ kbuf_spsc_produce_count_store(w)
             \/ kbuf_spsc_produce_peak(w)
    BY <2>4 DEF kbuf_spsc_produce_count_load, kbuf_spsc_produce_count_store,
                kbuf_spsc_produce_peak, idxVars
  <2>5. CASE kbuf_write_wake(w) \/ WriteFault(w)
    BY <2>5 DEF kbuf_write_wake, WriteFault, kbuf_ring_produce_fault,
                kbuf_spsc_produce_fault
  <2> QED BY <2>1, <2>2, <2>3, <2>4, <2>5 DEF WriterNext, WriteStep, WriteLock
<1> QED BY <1>1, <1>2, <1>3, <1>4, <1>5, <1>6, <1>7, <1>8, <1>9, <1>10

\* A step of a write call keeps the queue invariant and adds at most its own
\* message at the end of the queue.
LEMMA WriterQueue ==
  ASSUME Contract, TypeOK, MutexDiscipline, WakeupInv, QueueInv,
         NEW w \in Writers, WriterNext(w)
  PROVE  QueueInv' /\ QueueStep
<1>0. /\ w \in IoThreads /\ w \in Threads /\ TypeOK'
      /\ OthersKeep(w)
      /\ UNCHANGED <<arr, num_buffers, buffer_size, mode, read_pos, cons_idx, delivered>>
      /\ UNCHANGED <<arg, occ>>
  BY WriterType, WriterOthers, WriterRing, WriterFrame DEF Threads, IoThreads, ctlVars
<1> DEFINE m == [msg |-> msg[w], len |-> cnt[w]]
<1>1. \/ UNCHANGED <<slots, write_pos, count, prod_idx, sent>>
      \/ WriteCopy(w) \/ WriteFault(w)
      \/ kbuf_ring_produce_commit(w)
      \/ kbuf_spsc_produce_publish(w)
  BY WriterRing
<1>2. m \in Message
  BY <1>0 DEF TypeOK, LocType, Message
<1>3. (KeepStep \/ PutStep(m)) /\ RingInv'
  <2>1. CASE UNCHANGED <<slots, write_pos, count, prod_idx, sent>>
    BY <2>1, <1>0, SameRing DEF QueueInv, RingInv, IdxDiff
  <2>2. CASE WriteCopy(w) \/ WriteFault(w)
    <3>1. UNCHANGED <<write_pos, count, prod_idx>>
      BY <2>2 DEF WriteCopy, WriteFault, kbuf_ring_produce_copy, kbuf_spsc_produce_copy,
                  kbuf_ring_produce_fault, kbuf_spsc_produce_fault, posVars, idxVars
    <3> QED BY <1>0, <2>2, <3>1, WriterCopies DEF QueueInv, RingInv, IdxDiff
  <2>3. CASE kbuf_ring_produce_commit(w)
    BY <2>3, CommitPuts
  <2>4. CASE kbuf_spsc_produce_publish(w)
    BY <2>4, PublishPuts
  <2> QED BY <1>1, <2>1, <2>2, <2>3, <2>4
<1>4. QueueStep
  BY <1>2, <1>3 DEF QueueStep
<1> HIDE DEF m
<1>5. FifoOrder'
  BY <1>0, <1>4, QueueStepOrder DEF QueueInv
<1>6. GeometryInv'
  BY <1>0 DEF QueueInv, GeometryInv, SpscPowerOfTwo
<1>7. OccupancyInv'
  <2>1. SUFFICES ASSUME NEW c \in Ctls, pc'[c] = "c_body", arg[c].op \in {"RESIZE", "SMODE"}
                 PROVE  occ[c] = IF mode = "spsc" THEN prod_idx' ELSE count'
    BY <1>0 DEF OccupancyInv
  <2>2. c \in Threads /\ c # w /\ pc[c] = "c_body"
    BY <1>0, <2>1, ThreadAssumption DEF OthersKeep, Threads, IoThreads
  <2>3. ~kbuf_ring_produce_commit(w)
    BY <1>0, <2>2, Alone DEF kbuf_ring_produce_commit, Holds
  <2>4. ~kbuf_spsc_produce_publish(w)
    <3>1. SUFFICES ASSUME kbuf_spsc_produce_publish(w) PROVE FALSE
      BY SMT
    <3>2. pc[w] = "s_publish" /\ mode = "spsc"
      BY <1>0, <3>1, Dispatched DEF kbuf_spsc_produce_publish, SpscPc
    <3>3. ~Switching
      BY <1>0, <3>2 DEF WakeupInv, ContractInv, IoInFlight
    <3>4. arg[c].switching
      BY <2>1, <3>2 DEF QueueInv, GeometryInv, WakeupInv, ContractInv
    <3> QED BY <2>2, <3>3, <3>4 DEF Switching
  <2>5. count' = count /\ prod_idx' = prod_idx
    BY <1>1, <2>3, <2>4
       DEF WriteCopy, WriteFault, kbuf_ring_produce_copy, kbuf_spsc_produce_copy,
           kbuf_ring_produce_fault, kbuf_spsc_produce_fault, posVars, idxVars
  <2> QED BY <2>1, <2>2, <2>5 DEF QueueInv, OccupancyInv
<1>8. PeakBounds'
  <2>0. /\ peak_count \in 0..num_buffers /\ (mode = "blocking" => count <= peak_count)
        /\ count \in Int /\ num_buffers \in Nat
    BY Geometry DEF QueueInv, PeakBounds
  <2>1. CASE UNCHANGED <<count, peak_count>>
    BY <1>0, <2>0, <2>1 DEF PeakBounds
  <2>2. CASE kbuf_ring_produce_commit(w)
    <3>1. /\ count' = count + 1
          /\ peak_count' = IF count' > peak_count THEN count' ELSE peak_count
      BY <2>2 DEF kbuf_ring_produce_commit
    <3>2. count \in 0..num_buffers /\ count # num_buffers
      BY <2>2 DEF WakeupInv, SectionInv, kbuf_ring_produce_commit
    <3> QED BY <1>0, <2>0, <3>1, <3>2, SMT DEF PeakBounds
  <2>3. CASE kbuf_spsc_produce_peak(w)
    <3>1. IdxNext(idx[w]) = prod_idx
      BY <2>3 DEF kbuf_spsc_produce_peak, QueueInv, CallInv, WriteOk
    <3> DEFINE d == IdxDiff(prod_idx, cons_idx)
    <3>2. /\ peak_count' = IF d > peak_count THEN d ELSE peak_count
          /\ count' = count
      BY <2>3, <3>1 DEF kbuf_spsc_produce_peak, posVars
    <3>3. d \in 0..num_buffers
      <4>1. d \in 0..(IdxMod - 1)
        BY IdxRange, Geometry, SMT
      <4>2. d <= num_buffers
        BY DEF QueueInv, RingInv
      <4> HIDE DEF d
      <4> QED BY <4>1, <4>2, Geometry, SMT
    <3> HIDE DEF d
    <3> QED BY <1>0, <2>0, <3>2, <3>3, SMT DEF PeakBounds
  <2> QED BY <2>1, <2>2, <2>3, WriterRing
<1>9. ASSUME NEW r \in Readers PROVE ReadOk(r)'
  <2>1. /\ r \in IoThreads /\ r \in Threads /\ r # w /\ pc'[r] = pc[r]
        /\ msg'[r] = msg[r] /\ cnt'[r] = cnt[r] /\ idx'[r] = idx[r] /\ ptr'[r] = ptr[r]
    BY <1>0, ThreadAssumption DEF OthersKeep, Threads, IoThreads
  <2>2. ReadOk(r) /\ Depth \in 0..num_buffers
    BY DEF QueueInv, CallInv, FifoOrder
  <2>3. Depth # 0 => slots'[SlotAt(0)] = slots[SlotAt(0)]
    <3>1. Depth # 0 => 0 \in 0..(Depth - 1)
      BY <2>2, Geometry, SMT
    <3> QED BY <1>3, <3>1 DEF KeepStep, PutStep
  <2>4. pc[r] = "b_commit" => Depth # 0 /\ SlotAt(0) = read_pos
    <3>1. SUFFICES ASSUME pc[r] = "b_commit" PROVE Depth # 0 /\ SlotAt(0) = read_pos
      BY SMT
    <3>2. mode = "blocking" /\ count # 0
      BY <2>1, <3>1, Dispatched DEF BlockingPc, WakeupInv, SectionInv
    <3> QED BY <3>2, HeadSlot DEF Depth
  <2>5. pc[r] \in {"s_slot", "s_copy", "s_publish"} =>
          mode = "spsc" /\ Depth # 0 /\ SlotAt(0) = Masked(cons_idx)
    <3>1. SUFFICES ASSUME pc[r] \in {"s_slot", "s_copy", "s_publish"}
                   PROVE  mode = "spsc" /\ Depth # 0 /\ SlotAt(0) = Masked(cons_idx)
      BY SMT
    <3>2. mode = "spsc" /\ ~kbuf_spsc_is_empty
      BY <2>1, <2>2, <3>1, Dispatched DEF SpscPc, ReadOk
    <3>3. Depth # 0
      BY <3>2, DepthFacts DEF QueueInv, WakeupInv, SectionInv
    <3> QED BY <3>2, <3>3, HeadSlot
  <2>6. pc[r] \in {"s_slot", "s_copy", "s_publish"} => ~kbuf_spsc_is_empty'
    <3>1. CASE kbuf_spsc_produce_publish(w)
      <4>1. IdxDiff(prod_idx, cons_idx)' = Depth + 1
        BY <3>1, PublishPuts
      <4>2. IdxDiff(prod_idx, cons_idx)' # 0
        BY <2>2, <4>1, Geometry, SMT
      <4>3. /\ prod_idx' \in 0..(IdxMod - 1) /\ cons_idx' \in 0..(IdxMod - 1)
            /\ IdxMod \in Nat \ {0}
        BY <1>0, Geometry DEF TypeOK, DevType
      <4>4. prod_idx' # cons_idx'
        BY <4>2, <4>3, NoDistance DEF IdxDiff
      <4> QED BY <4>4 DEF kbuf_spsc_is_empty
    <3>2. CASE prod_idx' = prod_idx
      BY <1>0, <2>2, <3>2 DEF ReadOk, kbuf_spsc_is_empty
    <3> QED BY <1>1, <3>1, <3>2
            DEF WriteCopy, WriteFault, kbuf_ring_produce_copy, kbuf_spsc_produce_copy,
                kbuf_ring_produce_fault, kbuf_spsc_produce_fault,
                kbuf_ring_produce_commit, idxVars
  <2> QED BY <1>0, <2>1, <2>2, <2>3, <2>4, <2>5, <2>6 DEF ReadOk, Took, Masked
<1>10. ASSUME NEW v \in Writers PROVE WriteOk(v)'
  <2>1. CASE v = w
    BY <2>1, WriterOwn
  <2>2. CASE v # w
    <3>1. /\ v \in IoThreads /\ v \in Threads /\ pc'[v] = pc[v]
          /\ msg'[v] = msg[v] /\ cnt'[v] = cnt[v] /\ lmode'[v] = lmode[v]
      BY <1>0, <2>2 DEF OthersKeep, Threads, IoThreads
    <3>2. pc[v] \notin SpscPc
      BY <2>2, <3>1, Dispatched DEF Contract, WakeupInv, ContractInv
    <3>3. pc[v] = "b_commit" => UNCHANGED <<slots, write_pos>>
      <4>1. SUFFICES ASSUME pc[v] = "b_commit" PROVE UNCHANGED <<slots, write_pos>>
        BY SMT
      <4>2. pc[w] \notin {"b_copy", "b_commit"}
        BY <1>0, <2>2, <3>1, <4>1, Alone DEF Holds
      <4>3. pc[w] # "s_copy"
        BY <1>0, <3>1, <4>1, Dispatched DEF BlockingPc, SpscPc
      <4> QED BY <1>1, <4>2, <4>3
              DEF WriteCopy, WriteFault, kbuf_ring_produce_copy, kbuf_spsc_produce_copy,
                  kbuf_ring_produce_fault, kbuf_spsc_produce_fault,
                  kbuf_ring_produce_commit, kbuf_spsc_produce_publish, shapeVars, posVars
    <3>4. WriteOk(v)
      BY DEF QueueInv, CallInv
    <3> QED BY <1>0, <3>1, <3>2, <3>3, <3>4 DEF WriteOk, SpscPc
  <2> QED BY <2>1, <2>2
<1>11. \A i \in 1..Len(sent') : sent'[i].len <= KBUF_MAX_BUFFER_SIZE
  <2>0. \A i \in 1..Len(sent) : sent[i].len <= KBUF_MAX_BUFFER_SIZE
    BY DEF QueueInv
  <2>1. CASE KeepStep
    BY <2>0, <2>1 DEF KeepStep
  <2>2. CASE PutStep(m)
    <3>1. /\ sent' = Append(sent, m) /\ m.len <= KBUF_MAX_BUFFER_SIZE
          /\ sent \in Seq(Message) /\ Len(sent) \in Nat
      <4>0. sent' = Append(sent, m) /\ m.len \in 0..KBUF_MAX_BUFFER_SIZE
        BY <2>2 DEF PutStep
      <4>1. m.len <= KBUF_MAX_BUFFER_SIZE
        BY <4>0, SizeFacts, SMT
      <4>2. sent \in Seq(Message)
        BY DEF TypeOK, HistType
      <4>3. Len(sent) \in Nat
        BY <4>2, SMT
      <4> QED BY <4>0, <4>1, <4>2, <4>3
    <3>2. /\ Len(sent') = Len(sent) + 1 /\ sent'[Len(sent) + 1] = m
          /\ \A i \in 1..Len(sent) : sent'[i] = sent[i]
      BY <1>2, <3>1, AppendMessage, SMT
    <3>3. \A i \in 1..Len(sent') : i \in 1..Len(sent) \/ i = Len(sent) + 1
      BY <3>1, <3>2, SMT
    <3> QED BY <2>0, <3>1, <3>2, <3>3
  <2> QED BY <1>3, <2>1, <2>2
<1>12. nextMsg' > 0
  <2>1. nextMsg > 0
    BY DEF QueueInv
  <2>2. nextMsg \in Nat
    BY DEF TypeOK, HistType
  <2>3. UNCHANGED nextMsg \/ kbuf_write(w)
    BY WriterRing
  <2>4. nextMsg' = nextMsg \/ nextMsg' = nextMsg + 1
    BY <2>3 DEF kbuf_write
  <2> QED BY <2>1, <2>2, <2>4, SMT
<1> QED BY <1>3, <1>4, <1>5, <1>6, <1>7, <1>8, <1>9, <1>10, <1>11, <1>12
        DEF QueueInv, CallInv
=============================================================================
