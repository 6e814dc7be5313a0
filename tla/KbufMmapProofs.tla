--------------------------- MODULE KbufMmapProofs ---------------------------
(***************************************************************************)
(* The zero-copy ring for every capacity, page size and index width: the   *)
(* doubly mapped data pages form one circle, the two indices are the       *)
(* stream positions of producer and consumer, and so the copies never meet *)
(* and the ring is a FIFO of bytes.                                        *)
(***************************************************************************)
EXTENDS KbufMmap, SequenceTheorems, TLAPS

\* The leaves that say nothing else are for Zenon.
USE Zenon

-----------------------------------------------------------------------------
(* Remainders, as for the ring positions of KbufDeviceProofs.              *)

\* Positions and indices are reduced modulo a positive number.
LEMMA ModRange ==
  ASSUME NEW x \in Int, NEW n \in Nat \ {0}
  PROVE  x % n \in 0..(n - 1)
BY SMT

\* Division with remainder.
LEMMA ModQuotient ==
  ASSUME NEW x \in Int, NEW n \in Nat \ {0}
  PROVE  \E q \in Int : x = q * n + (x % n)
<1>1. x = (x \div n) * n + (x % n) /\ x \div n \in Int
  BY SMT
<1> QED BY <1>1

\* a multiple of n.
LEMMA ModUnique ==
  ASSUME NEW x \in Int, NEW n \in Nat \ {0}, NEW q \in Int, NEW r \in 0..(n - 1),
         x = q * n + r
  PROVE  x % n = r
<1>1. PICK p \in Int : x = p * n + (x % n)
  BY ModQuotient
<1>2. x % n \in 0..(n - 1)
  BY ModRange
<1> DEFINE s == x % n
<1> HIDE DEF s
<1>3. s \in 0..(n - 1) /\ x = p * n + s
  BY <1>1, <1>2 DEF s
<1>4. (p - q) * n = r - s
  BY <1>3, SMT
<1>5. p - q = 0
  BY <1>3, <1>4, SMT
<1> QED BY <1>3, <1>4, <1>5, SMT DEF s

\* Numbers that differ by a multiple of n have the same remainder.
LEMMA ModShift ==
  ASSUME NEW x \in Int, NEW n \in Nat \ {0}, NEW k \in Int
  PROVE  (x + k * n) % n = x % n
<1>1. PICK q \in Int : x = q * n + (x % n)
  BY ModQuotient
<1> DEFINE y == x + k * n
           s == x % n
<1>2. s \in 0..(n - 1)
  BY ModRange
<1>3. y = (q + k) * n + s
  <2>1. s \in Int /\ x = q * n + s
    BY <1>1, <1>2, SMT
  <2> HIDE DEF s
  <2> QED BY <2>1, SMT
<1>4. y \in Int /\ q + k \in Int
  BY SMT
<1> HIDE DEF y, s
<1>5. y % n = s
  BY <1>2, <1>3, <1>4, ModUnique
<1> QED BY <1>5 DEF y, s

\* Two numbers less than n apart with the same remainder are equal.
LEMMA ModApart ==
  ASSUME NEW x \in Int, NEW y \in Int, NEW n \in Nat \ {0},
         x <= y, y < x + n, x % n = y % n
  PROVE  x = y
<1>1. PICK q \in Int : x = q * n + (x % n)
  BY ModQuotient
<1>2. PICK p \in Int : y = p * n + (y % n)
  BY ModQuotient
<1> DEFINE s == x % n
<1>3. s \in 0..(n - 1)
  BY ModRange
<1>4. x = q * n + s /\ y = p * n + s
  BY <1>1, <1>2
<1> HIDE DEF s
<1>5. (p - q) * n = y - x
  BY <1>3, <1>4, SMT
<1>6. p - q = 0
  BY <1>5, SMT
<1> QED BY <1>5, <1>6, SMT

\* A number below n is its own remainder, and one below 2n is n above it.
LEMMA ModSmall ==
  ASSUME NEW n \in Nat \ {0}, NEW x \in 0..(2 * n - 1)
  PROVE  x % n = IF x < n THEN x ELSE x - n
<1>1. CASE x < n
  <2>1. x \in 0..(n - 1) /\ x = 0 * n + x
    BY <1>1, SMT
  <2> QED BY <2>1, <1>1, ModUnique, SMT
<1>2. CASE ~(x < n)
  <2>1. x - n \in 0..(n - 1) /\ x = 1 * n + (x - n)
    BY <1>2, SMT
  <2> QED BY <2>1, <1>2, ModUnique, SMT
<1> QED BY <1>1, <1>2

\* Reducing modulo a multiple of n first does not change the remainder by n.
LEMMA ModOfMod ==
  \A n, m \in Nat \ {0} :
    m % n = 0 => \A x, y \in Int : ((x % m) + y) % n = (x + y) % n
<1> SUFFICES ASSUME NEW n \in Nat \ {0}, NEW m \in Nat \ {0}, m % n = 0,
                    NEW x \in Int, NEW y \in Int
             PROVE  ((x % m) + y) % n = (x + y) % n
  OBVIOUS
<1>0. m \in Int
  BY SMT
<1>1. PICK k \in Int : m = k * n + (m % n)
  BY <1>0, ModQuotient
<1>2. PICK q \in Int : x = q * m + (x % m)
  BY ModQuotient
<1> DEFINE s == x % m
           j == q * k
           z == s + y
<1>3. s \in Int /\ j \in Int /\ z \in Int
  BY ModRange, SMT
<1>4. x = q * m + s
  BY <1>2
<1> HIDE DEF s
<1>5. x + y = z + j * n
  BY <1>1, <1>3, <1>4, SMT
<1> HIDE DEF j, z
<1>6. (z + j * n) % n = z % n
  <2>1. \A k1 \in Int : (z + k1 * n) % n = z % n
    BY <1>3, ModShift
  <2> QED BY <1>3, <2>1
<1> QED BY <1>5, <1>6 DEF z, s

\* A number is a multiple of itself.
LEMMA ModSelf ==
  ASSUME NEW n \in Nat \ {0}
  PROVE  n % n = 0
<1>1. n \in 0..(2 * n - 1)
  BY SMT
<1> QED BY <1>1, ModSmall, SMT

-----------------------------------------------------------------------------
(* The mapping.                                                            *)

Cap == KBUF_MMAP_CAPACITY

\* What the proofs use of the sizes.
LEMMA MmapSizes ==
  /\ Cap \in Nat \ {0} /\ PAGE_SIZE \in Nat \ {0} /\ IdxMod \in Nat \ {0}
  /\ Cap % PAGE_SIZE = 0 /\ IdxMod % Cap = 0 /\ Cap < IdxMod
BY MmapAssumption, SMT DEF Cap

\* The data pages appear twice in a row in the mapping, so that any run of
\* bytes that starts in the first copy continues around the ring
\* (kbuf_vm_fault, kbuf_mmap.c).
LEMMA ByteWraps == \A v \in Nat : Byte(v) = v % Cap
<1> SUFFICES ASSUME NEW v \in Nat PROVE Byte(v) = v % Cap
  BY SMT
<1> DEFINE p == PAGE_SIZE
           d == Cap \div p
           a == v \div p
           b == v % p
           e == a % d
<1>1. p \in Nat \ {0} /\ Cap \in Nat \ {0} /\ Cap % p = 0
  BY MmapSizes
<1> HIDE DEF p
<1>2. d \in Int /\ Cap = d * p
  BY <1>1, SMT
<1>3. a \in Nat /\ b \in 0..(p - 1) /\ v = a * p + b
  BY <1>1, SMT
<1> HIDE DEF d, a, b
<1>4. d \in Nat \ {0}
  BY <1>1, <1>2, SMT
<1>5. e \in 0..(d - 1)
  BY <1>3, <1>4, ModRange, SMT
<1>6. PICK q \in Int : a = q * d + (a % d)
  <2>1. a \in Int
    BY <1>3, SMT
  <2> QED BY <1>4, <2>1, ModQuotient
<1>7. a = q * d + e
  BY <1>6
<1> HIDE DEF e
<1> DEFINE r == e * p + b
<1>8. r \in 0..(Cap - 1)
  <2>1. e * p <= (d - 1) * p
    BY <1>1, <1>4, <1>5, SMT
  <2>2. (d - 1) * p = d * p - p
    BY <1>1, <1>4, SMT
  <2>3. e * p \in Nat
    BY <1>1, <1>5, SMT
  <2> QED BY <1>1, <1>2, <1>3, <2>1, <2>2, <2>3, SMT
<1>9. v = q * Cap + r
  <2>1. a * p = (q * d + e) * p
    BY <1>7
  <2>2. (q * d + e) * p = q * (d * p) + e * p
    BY <1>1, <1>4, <1>5, <1>6, SMT
  <2>3. q * (d * p) = q * Cap
    BY <1>2
  <2>4. q * Cap \in Int /\ e * p \in Int /\ b \in Int
    BY <1>1, <1>3, <1>5, <1>6, SMT
  <2> QED BY <1>3, <2>1, <2>2, <2>3, <2>4, SMT
<1> HIDE DEF r
<1>10. v % Cap = r
  BY <1>1, <1>6, <1>8, <1>9, ModUnique, SMT
<1>11. Byte(v) = r
  <2>1. Byte(v) = (kbuf_vm_fault(1 + a) * p) + b
    BY DEF Byte, a, b, p
  <2>2. kbuf_vm_fault(1 + a) = ((1 + a) - 1) % d
    BY DEF kbuf_vm_fault, data_pages, d, p, Cap
  <2>3. (1 + a) - 1 = a
    BY <1>3, SMT
  <2>4. kbuf_vm_fault(1 + a) = e
    BY <2>2, <2>3 DEF e
  <2> QED BY <2>1, <2>4 DEF r
<1> QED BY <1>10, <1>11

\* Position s + j of the stream lies at the same byte whether it is reached
\* from the index that stands for s or counted from the start.
LEMMA StreamByte ==
  \A s, j \in Nat : Byte(Offset(s % IdxMod) + j) = (s + j) % Cap
<1> SUFFICES ASSUME NEW s \in Nat, NEW j \in Nat
             PROVE  Byte(Offset(s % IdxMod) + j) = (s + j) % Cap
  BY SMT
<1> DEFINE x == s % IdxMod
           o == x % Cap
           v == o + j
<1>0. Cap \in Nat \ {0} /\ IdxMod \in Nat \ {0} /\ IdxMod % Cap = 0 /\ Cap % Cap = 0
  BY MmapSizes, ModSelf
<1>1. x \in Int
  BY <1>0, ModRange, SMT
<1>2. \A y, i \in Int : ((y % IdxMod) + i) % Cap = (y + i) % Cap
  BY <1>0, ModOfMod
<1>3. \A y, i \in Int : ((y % Cap) + i) % Cap = (y + i) % Cap
  BY <1>0, ModOfMod
<1>4. (x + j) % Cap = (s + j) % Cap
  BY <1>2, SMT
<1> HIDE DEF x
<1>5. (o + j) % Cap = (x + j) % Cap
  BY <1>1, <1>3, SMT
<1>6. o \in 0..(Cap - 1)
  BY <1>0, <1>1, ModRange
<1>7. Offset(x) = o
  BY DEF Offset, Cap
<1> HIDE DEF o
<1>8. v \in Nat
  BY <1>0, <1>6, SMT
<1>9. Byte(v) = v % Cap
  BY <1>8, ByteWraps
<1> QED BY <1>4, <1>5, <1>7, <1>9 DEF x

\* The difference of the two indices is the distance of the stream positions
\* they stand for, however often they have wrapped.
LEMMA StreamDiff ==
  \A s, t \in Nat : t <= s /\ s <= t + Cap => Diff(s % IdxMod, t % IdxMod) = s - t
<1> SUFFICES ASSUME NEW s \in Nat, NEW t \in Nat, t <= s, s <= t + Cap
             PROVE  Diff(s % IdxMod, t % IdxMod) = s - t
  BY SMT
<1> DEFINE m == IdxMod
           y == t % m
           z == s - y
           d == s - t
<1>0. m \in Nat \ {0} /\ Cap \in Nat /\ Cap < m /\ m % m = 0
  BY MmapSizes, ModSelf
<1> HIDE DEF m
<1>1. PICK q \in Int : t = q * m + (t % m)
  <2>1. t \in Int
    BY SMT
  <2> QED BY <1>0, <2>1, ModQuotient
<1>2. y \in Int /\ t = q * m + y
  BY <1>0, <1>1, ModRange, SMT
<1>3. \A x, i \in Int : ((x % m) + i) % m = (x + i) % m
  BY <1>0, ModOfMod
<1>4. Diff(s % m, y) = ((s % m) + (-y)) % m
  <2>1. s % m \in Int
    BY <1>0, ModRange, SMT
  <2>2. (s % m) - y = (s % m) + (-y)
    BY <1>2, <2>1
  <2> QED BY <2>2 DEF Diff, m
<1> HIDE DEF y
<1>5. ((s % m) + (-y)) % m = (s + (-y)) % m
  BY <1>2, <1>3, SMT
<1>6. s + (-y) = d + q * m
  BY <1>0, <1>1, <1>2, SMT
<1>7. d \in 0..(m - 1)
  BY <1>0, SMT
<1> HIDE DEF d
<1>8. (d + q * m) % m = d % m
  <2>1. d \in Int /\ m \in Nat \ {0}
    BY <1>0, <1>7, SMT
  <2> QED BY <1>1, <2>1, ModShift
<1>9. d % m = d
  <2>1. d \in 0..(2 * m - 1) /\ d < m
    BY <1>0, <1>7, SMT
  <2> QED BY <1>0, <2>1, ModSmall
<1>10. Diff(s % m, y) = d
  BY <1>4, <1>5, <1>6, <1>8, <1>9
<1> QED BY <1>10 DEF m, y, d

-----------------------------------------------------------------------------
(* The stream, as sequences.                                               *)

\* The k numbers after a.
Run(a, k) == [j \in 1..k |-> a + j]

\* A run is a sequence of its length.
LEMMA RunSeq ==
  ASSUME NEW a \in Nat, NEW k \in Nat
  PROVE  Run(a, k) \in Seq(Nat) /\ Len(Run(a, k)) = k
<1>1. Run(a, k) \in [1..k -> Nat]
  BY SMT DEF Run
<1> QED BY <1>1, LenProperties, SMT

\* One more byte copied continues the run.
LEMMA RunAppend ==
  ASSUME NEW a \in Nat, NEW k \in Nat
  PROVE  Append(Run(a, k), a + k + 1) = Run(a, k + 1)
<1> DEFINE s == Run(a, k)
           t == Append(s, a + k + 1)
<1>1. s \in Seq(Nat) /\ Len(s) = k /\ a + k + 1 \in Nat
  BY RunSeq, SMT
<1>2. /\ t \in Seq(Nat) /\ Len(t) = Len(s) + 1 /\ t[Len(s) + 1] = a + k + 1
      /\ \A i \in 1..Len(s) : t[i] = s[i]
  BY <1>1, AppendProperties, SMT
<1>3. t \in [1..Len(t) -> Nat]
  BY <1>2, LenProperties
<1>4. \A i \in 1..k : s[i] = a + i
  BY DEF Run
<1> HIDE DEF s, t
<1>5. t \in [1..(k + 1) -> Nat]
  BY <1>1, <1>2, <1>3
<1>6. \A i \in 1..(k + 1) : t[i] = a + i
  <2>1. \A i \in 1..(k + 1) : i \in 1..k \/ i = k + 1
    BY SMT
  <2> QED BY <1>1, <1>2, <1>4, <2>1, SMT
<1> QED BY <1>5, <1>6 DEF Run, t, s

\* A run followed by the run that starts where it ends is one run.
LEMMA RunConcat ==
  ASSUME NEW a \in Nat, NEW m \in Nat, NEW n \in Nat
  PROVE  Run(a, m) \o Run(a + m, n) = Run(a, m + n)
<1> DEFINE s == Run(a, m)
           u == Run(a + m, n)
           t == s \o u
<1>1. s \in Seq(Nat) /\ Len(s) = m
  BY RunSeq
<1>2. u \in Seq(Nat) /\ Len(u) = n
  <2>1. a + m \in Nat
    BY SMT
  <2> QED BY <2>1, RunSeq
<1>3. /\ t \in Seq(Nat) /\ Len(t) = Len(s) + Len(u)
      /\ \A i \in 1..(Len(s) + Len(u)) : t[i] = IF i <= Len(s) THEN s[i] ELSE u[i - Len(s)]
  BY <1>1, <1>2, ConcatProperties
<1>4. t \in [1..Len(t) -> Nat]
  BY <1>3, LenProperties
<1>5. (\A i \in 1..m : s[i] = a + i) /\ (\A i \in 1..n : u[i] = (a + m) + i)
  BY DEF Run
<1> HIDE DEF s, t, u
<1>6. t \in [1..(m + n) -> Nat]
  BY <1>1, <1>2, <1>3, <1>4
<1>7. ASSUME NEW i \in 1..(m + n) PROVE t[i] = a + i
  <2>1. CASE i <= m
    <3>1. i \in 1..m
      BY <2>1, SMT
    <3> QED BY <1>1, <1>2, <1>3, <1>5, <2>1, <3>1
  <2>2. CASE ~(i <= m)
    <3>1. i - m \in 1..n /\ (a + m) + (i - m) = a + i
      BY <2>2, SMT
    <3> QED BY <1>1, <1>2, <1>3, <1>5, <2>2, <3>1
  <2> QED BY <2>1, <2>2
<1> QED BY <1>6, <1>7 DEF Run, t, s, u

-----------------------------------------------------------------------------
(* StreamInv is inductive.                                                 *)

Process ==
  [pc : {"unborn", "start", "reset", "reset_head", "reset_tail", "load", "clamp",
         "copy", "done"},
   own : Nat, n : Nat, k : Nat, done : Nat, buf : Seq(Nat)]

MmapType ==
  /\ head \in Nat /\ tail \in Nat /\ data \in [0..(Cap - 1) -> Nat]
  /\ sizes \subseteq Nat \ {0}
  /\ prod \in Process /\ cons \in Process

MmapInv == MmapType /\ StreamInv

\* A process that starts its next call.
LEMMA AgainAt ==
  ASSUME NEW d \in Nat
  PROVE  /\ Again(d) \in Process
         /\ Again(d).pc \in {"load", "done"} /\ Again(d).done = d
         /\ Again(d).own = 0 /\ Again(d).n = 0 /\ Again(d).k = 0 /\ Again(d).buf = << >>
<1>1. << >> \in Seq(Nat)
  BY EmptySeq
<1> QED BY <1>1 DEF Again, Idle, Process

\* An empty run is the empty sequence.
LEMMA RunNone ==
  ASSUME NEW a
  PROVE  [j \in 1..0 |-> a + j] = << >> /\ [j \in 1..0 |-> j] = << >>
BY SMT

\* Before the first byte.
LEMMA StreamInit == ASSUME ResetFirst, Init PROVE MmapInv
<1>1. << >> \in Seq(Nat)
  BY EmptySeq
<1>2. /\ prod \in Process /\ prod.pc = "unborn" /\ prod.n = 0 /\ prod.k = 0 /\ prod.done = 0
      /\ cons \in Process /\ cons.pc = "start" /\ cons.n = 0 /\ cons.k = 0 /\ cons.done = 0
      /\ cons.buf = << >>
  BY <1>1 DEF Init, Idle, Process
<1>3. 0 % IdxMod = 0
  BY MmapSizes, ModSmall, SMT
<1>4. MmapType
  BY <1>2, MmapAssumption DEF Init, MmapType, Cap
<1>5. StreamInv
  BY <1>2, <1>3, MmapSizes, RunNone, SMT DEF Init, StreamInv, Cap
<1> QED BY <1>4, <1>5 DEF MmapInv

\* The producer starts after the reset.
LEMMA ProducerMapInv ==
  ASSUME MmapInv, ProducerMap
  PROVE  MmapInv'
<1>1. prod.done \in Nat /\ prod.k = 0
  BY SMT DEF MmapInv, MmapType, StreamInv, Process, ProducerMap, kbuf_map_open
<1>2. /\ prod' \in Process /\ prod'.pc \in {"load", "done"} /\ prod'.done = prod.done
      /\ prod'.n = 0 /\ prod'.k = 0
  BY <1>1, AgainAt DEF ProducerMap
<1>3. /\ prod.pc = "start" /\ UNCHANGED <<head, tail, data, sizes, cons, taken>>
  BY DEF ProducerMap, kbuf_map_open
<1>4. MmapType'
  BY <1>2, <1>3 DEF MmapInv, MmapType
<1>5. StreamInv'
  BY <1>1, <1>2, <1>3, MmapSizes DEF MmapInv, MmapType, StreamInv, Process, Cap
<1> QED BY <1>4, <1>5 DEF MmapInv

\* The producer loads its own index, which nobody else stores.
LEMMA WriteLoadInv ==
  ASSUME MmapInv, kbuf_map_write_load
  PROVE  MmapInv'
<1>1. /\ prod.pc = "load" /\ prod' = [prod EXCEPT !.pc = "clamp", !.own = head]
      /\ UNCHANGED <<head, tail, data, sizes, cons, taken>>
  BY DEF kbuf_map_write_load
<1>2. /\ prod' \in Process /\ prod'.pc = "clamp" /\ prod'.own = head
      /\ prod'.done = prod.done /\ prod'.n = prod.n /\ prod'.k = prod.k
  BY <1>1 DEF MmapInv, MmapType, Process
<1>3. MmapType'
  BY <1>1, <1>2 DEF MmapInv, MmapType
<1>4. StreamInv'
  BY <1>1, <1>2 DEF MmapInv, StreamInv
<1> QED BY <1>3, <1>4 DEF MmapInv

\* The room the producer computes is the room there is.
LEMMA RoomIs ==
  ASSUME MmapInv
  PROVE  /\ Diff(head, tail) = prod.done - cons.done
         /\ Space(head, tail) = Cap - (prod.done - cons.done)
         /\ prod.done - cons.done \in 0..Cap
<1>1. /\ prod.done \in Nat /\ cons.done \in Nat /\ Cap \in Nat /\ IdxMod \in Nat \ {0}
      /\ Cap < IdxMod
      /\ cons.done <= prod.done /\ prod.done <= cons.done + Cap
      /\ head = prod.done % IdxMod /\ tail = cons.done % IdxMod
  <2>1. /\ prod.done \in Nat /\ cons.done \in Nat /\ prod.n \in Nat /\ cons.n \in Nat
    BY DEF MmapInv, MmapType, Process
  <2>2. /\ cons.done + cons.n <= prod.done /\ prod.done + prod.n <= cons.done + Cap
        /\ head = prod.done % IdxMod /\ tail = cons.done % IdxMod
    BY DEF MmapInv, StreamInv, Cap
  <2> HIDE DEF Cap
  <2> QED BY <2>1, <2>2, MmapSizes, SMT
<1>2. Diff(head, tail) = prod.done - cons.done
  BY <1>1, StreamDiff
<1> DEFINE r == Cap - (prod.done - cons.done)
<1>3. r \in 0..(2 * IdxMod - 1) /\ r < IdxMod
  BY <1>1, SMT
<1>4. Space(head, tail) = r % IdxMod
  BY <1>2 DEF Space, Cap
<1> HIDE DEF r
<1>5. r % IdxMod = r
  BY <1>1, <1>3, ModSmall
<1> QED BY <1>1, <1>2, <1>4, <1>5, SMT DEF r

\* The producer takes no more than the room there is; the consumer can only
\* make more of it later.
LEMMA WriteClampInv ==
  ASSUME MmapInv, kbuf_map_write_clamp
  PROVE  MmapInv'
<1>1. PICK s \in sizes :
        prod' = IF AtMost(s, Space(prod.own, tail)) = 0 THEN Again(prod.done)
                ELSE [prod EXCEPT !.pc = "copy", !.n = AtMost(s, Space(prod.own, tail))]
  BY DEF kbuf_map_write_clamp
<1>2. /\ prod.pc = "clamp" /\ UNCHANGED <<head, tail, data, sizes, cons, taken>>
  BY DEF kbuf_map_write_clamp
<1>3. /\ prod \in Process /\ prod.own = head /\ prod.done \in Nat /\ prod.n = 0
      /\ prod.k = 0 /\ s \in Nat /\ cons.done \in Nat
  BY <1>2, SMT DEF MmapInv, MmapType, StreamInv, Process
<1> DEFINE n == AtMost(s, Space(prod.own, tail))
<1>4. n \in Nat /\ n <= Cap - (prod.done - cons.done)
  BY <1>3, RoomIs, MmapSizes, SMT DEF AtMost
<1>5. prod' = IF n = 0 THEN Again(prod.done) ELSE [prod EXCEPT !.pc = "copy", !.n = n]
  BY <1>1
<1> HIDE DEF n
<1>6. CASE n = 0
  <2>1. /\ prod' \in Process /\ prod'.pc \in {"load", "done"} /\ prod'.done = prod.done
        /\ prod'.n = 0 /\ prod'.k = 0
    BY <1>3, <1>5, <1>6, AgainAt
  <2>2. MmapType'
    BY <1>2, <2>1 DEF MmapInv, MmapType
  <2>3. StreamInv'
    BY <1>2, <1>3, <2>1 DEF MmapInv, StreamInv
  <2> QED BY <2>2, <2>3 DEF MmapInv
<1>7. CASE n # 0
  <2>1. /\ prod' \in Process /\ prod'.pc = "copy" /\ prod'.done = prod.done
        /\ prod'.n = n /\ prod'.k = 0 /\ prod'.own = head
    BY <1>3, <1>4, <1>5, <1>7 DEF Process
  <2>2. MmapType'
    BY <1>2, <2>1 DEF MmapInv, MmapType
  <2>3. prod.done + n <= cons.done + Cap
    BY <1>3, <1>4, MmapSizes, SMT
  <2>4. StreamInv'
    <3>1. 0 <= n
      BY <1>4, SMT
    <3> QED BY <1>2, <1>3, <2>1, <2>3, <3>1 DEF MmapInv, StreamInv, Cap
  <2> QED BY <2>2, <2>4 DEF MmapInv
<1> QED BY <1>6, <1>7

\* The numbers the invariant relates, with their types.
LEMMA StreamNumbers ==
  ASSUME MmapInv
  PROVE  /\ prod.done \in Nat /\ prod.n \in Nat /\ prod.k \in Nat /\ prod.k <= prod.n
         /\ cons.done \in Nat /\ cons.n \in Nat /\ cons.k \in Nat /\ cons.k <= cons.n
         /\ cons.done + cons.n <= prod.done /\ prod.done + prod.n <= cons.done + Cap
BY DEF MmapInv, MmapType, StreamInv, Process, Cap

\* Advancing an index by what was moved.
LEMMA IndexMoves ==
  ASSUME NEW s \in Nat, NEW n \in Nat
  PROVE  ((s % IdxMod) + n) % IdxMod = (s + n) % IdxMod
<1>1. IdxMod \in Nat \ {0} /\ IdxMod % IdxMod = 0
  BY MmapSizes, ModSelf
<1>2. \A x, y \in Int : ((x % IdxMod) + y) % IdxMod = (x + y) % IdxMod
  BY <1>1, ModOfMod
<1> QED BY <1>2, SMT

\* The byte written now is the next position of the stream, and no byte that
\* is still to be read lies in the same place.
LEMMA WriteCopyInv ==
  ASSUME MmapInv, kbuf_map_write_copy
  PROVE  MmapInv'
<1> DEFINE p == prod.done + prod.k
<1>1. /\ prod.pc = "copy" /\ prod.k < prod.n
      /\ data' = [data EXCEPT ![Byte(Offset(prod.own) + prod.k)] = p + 1]
      /\ prod' = [prod EXCEPT !.k = @ + 1]
      /\ UNCHANGED <<head, tail, sizes, cons, taken>>
  BY DEF kbuf_map_write_copy
<1>2. prod.own = prod.done % IdxMod
  BY <1>1 DEF MmapInv, StreamInv
<1>3. Byte(Offset(prod.own) + prod.k) = p % Cap
  <2>1. prod.done \in Nat /\ prod.k \in Nat
    BY StreamNumbers
  <2> QED BY <1>2, <2>1, StreamByte
<1>4. /\ prod' \in Process /\ prod'.pc = "copy" /\ prod'.own = prod.own
      /\ prod'.n = prod.n /\ prod'.k = prod.k + 1 /\ prod'.done = prod.done
  <2>1. prod \in Process /\ prod.pc = "copy" /\ prod' = [prod EXCEPT !.k = @ + 1]
    BY <1>1 DEF MmapInv, MmapType
  <2> QED BY <2>1, SMT DEF Process
<1>5. p \in Nat /\ p < cons.done + Cap /\ Cap \in Nat \ {0}
  BY <1>1, StreamNumbers, MmapSizes, SMT
<1>6. data \in [0..(Cap - 1) -> Nat] /\ data' = [data EXCEPT ![p % Cap] = p + 1]
  BY <1>1, <1>3 DEF MmapInv, MmapType
<1>0. p = prod.done + prod.k
  BY SMT
<1> HIDE DEF p
<1>7. data' \in [0..(Cap - 1) -> Nat]
  BY <1>5, <1>6, SMT
<1>8. ASSUME NEW s \in cons.done..p
      PROVE  data'[s % Cap] = s + 1
  <2>1. s \in Nat /\ s <= p /\ p < s + Cap
    BY <1>5, StreamNumbers, SMT
  <2>2. s % Cap \in 0..(Cap - 1) /\ p % Cap \in 0..(Cap - 1)
    BY <1>5, <2>1, ModRange, SMT
  <2>3. CASE s = p
    BY <1>6, <2>2, <2>3
  <2>4. CASE s # p
    <3>1. s % Cap # p % Cap
      <4> SUFFICES ASSUME s % Cap = p % Cap PROVE s = p
        BY <2>4
      <4>1. s \in Int /\ p \in Int /\ Cap \in Nat \ {0} /\ s <= p /\ p < s + Cap
        BY <1>5, <2>1, SMT
      <4> QED BY <4>1, ModApart
    <3>2. s \in cons.done..(prod.done + prod.k - 1)
      BY <1>0, <2>1, <2>4, StreamNumbers, SMT
    <3>3. data[s % Cap] = s + 1
      BY <3>2 DEF MmapInv, StreamInv, Cap
    <3> QED BY <1>6, <2>2, <3>1, <3>3
  <2> QED BY <2>3, <2>4
<1>9. MmapType'
  BY <1>1, <1>4, <1>7 DEF MmapInv, MmapType
<1>10. prod'.done + prod'.k - 1 = p
  BY <1>0, <1>4, StreamNumbers, SMT
<1>11. \A s \in cons.done..(prod'.done + prod'.k - 1) : data'[s % KBUF_MMAP_CAPACITY] = s + 1
  BY <1>8, <1>10 DEF Cap
<1>12. prod'.k <= prod'.n
  BY <1>1, <1>4, StreamNumbers, SMT
<1>13. StreamInv'
  BY <1>1, <1>4, <1>11, <1>12 DEF MmapInv, StreamInv
<1> QED BY <1>9, <1>13 DEF MmapInv

\* Publishing head hands the copied bytes over to the consumer.
LEMMA WritePublishInv ==
  ASSUME MmapInv, kbuf_map_write_publish
  PROVE  MmapInv'
<1> DEFINE d == prod.done + prod.n
<1>1. /\ prod.pc = "copy" /\ prod.k = prod.n /\ head' = (prod.own + prod.n) % IdxMod
      /\ prod' = Again(d) /\ UNCHANGED <<tail, data, sizes, cons, taken>>
  BY DEF kbuf_map_write_publish
<1>2. d \in Nat /\ cons.done + cons.n <= d /\ d <= cons.done + Cap
  BY StreamNumbers, MmapSizes, SMT
<1>3. prod.own = prod.done % IdxMod
  BY <1>1 DEF MmapInv, StreamInv
<1>4. head' = d % IdxMod
  <2>1. prod.done \in Nat /\ prod.n \in Nat
    BY StreamNumbers
  <2>2. ((prod.done % IdxMod) + prod.n) % IdxMod = d % IdxMod
    BY <2>1, IndexMoves
  <2> QED BY <1>1, <1>3, <2>2
<1>6. \A s \in cons.done..(d - 1) : data[s % KBUF_MMAP_CAPACITY] = s + 1
  <2>1. \A s \in cons.done..(prod.done + prod.k - 1) : data[s % KBUF_MMAP_CAPACITY] = s + 1
    BY DEF MmapInv, StreamInv
  <2>2. prod.k = prod.n
    BY <1>1
  <2>3. d - 1 = prod.done + prod.k - 1
    BY <2>2, StreamNumbers, SMT
  <2> QED BY <2>1, <2>3
<1> HIDE DEF d
<1>5. head' \in Nat
  BY <1>2, <1>4, MmapSizes, ModRange, SMT
<1>7. /\ prod' \in Process /\ prod'.pc \in {"load", "done"} /\ prod'.done = d
      /\ prod'.n = 0 /\ prod'.k = 0
  BY <1>1, <1>2, AgainAt
<1>8. MmapType'
  BY <1>1, <1>5, <1>7 DEF MmapInv, MmapType
<1>9. prod'.done + prod'.k - 1 = d - 1 /\ prod'.done + prod'.n = d
  BY <1>2, <1>7, SMT
<1>10. StreamInv'
  BY <1>1, <1>2, <1>4, <1>6, <1>7, <1>9, SMT DEF MmapInv, StreamInv, Cap
<1> QED BY <1>8, <1>10 DEF MmapInv

\* The consumer maps the ring.
LEMMA ConsumerMapInv ==
  ASSUME MmapInv, ConsumerMap
  PROVE  MmapInv'
<1>1. /\ cons.pc = "start" /\ cons' = [cons EXCEPT !.pc = "reset"]
      /\ UNCHANGED <<head, tail, data, sizes, prod, taken>>
  BY DEF ConsumerMap, kbuf_map_open
<1>2. /\ cons' \in Process /\ cons'.pc = "reset" /\ cons'.own = cons.own /\ cons'.n = cons.n
      /\ cons'.k = cons.k /\ cons'.done = cons.done /\ cons'.buf = cons.buf
  BY <1>1 DEF MmapInv, MmapType, Process
<1>3. MmapType'
  BY <1>1, <1>2 DEF MmapInv, MmapType
<1>4. StreamInv'
  BY <1>1, <1>2 DEF MmapInv, StreamInv
<1> QED BY <1>3, <1>4 DEF MmapInv

\* The reset stores zero into indices that are zero: nothing has been written
\* before the producer is forked.
LEMMA ResetInv ==
  ASSUME MmapInv, kbuf_map_reset
  PROVE  MmapInv'
<1>1. cons.pc \in {"reset", "reset_head", "reset_tail"} /\ UNCHANGED <<data, sizes, taken>>
  BY DEF kbuf_map_reset
<1>2. /\ prod.pc = "unborn" /\ prod.done = 0 /\ prod.n = 0 /\ prod.k = 0
      /\ cons.done = 0 /\ cons.n = 0 /\ cons.k = 0
  <2>1. /\ prod.pc = "unborn" /\ prod.done = 0 /\ prod.n = 0 /\ cons.n = 0
    BY <1>1 DEF MmapInv, StreamInv
  <2> QED BY <2>1, StreamNumbers, SMT
<1>3. head = 0 /\ tail = 0 /\ 0 % IdxMod = 0
  BY <1>2, MmapSizes, ModSmall, SMT DEF MmapInv, StreamInv
<1>4. head' = 0 /\ tail' = 0
  BY <1>3 DEF kbuf_map_reset
<1>5. cons.buf = << >> /\ cons \in Process /\ prod \in Process
  BY <1>2, RunNone, SMT DEF MmapInv, MmapType, StreamInv
<1>6. /\ prod' \in Process /\ prod'.pc # "copy" /\ prod'.pc # "clamp" /\ prod'.done = 0
      /\ prod'.n = 0 /\ prod'.k = 0 /\ (cons.pc = "reset" => prod'.pc = "unborn")
  <2>1. prod' = IF prod.pc = "unborn" /\ cons.pc # "reset" THEN Idle ELSE prod
    BY DEF kbuf_map_reset
  <2>2. << >> \in Seq(Nat)
    BY EmptySeq
  <2>3. Idle \in Process /\ Idle.pc = "start" /\ Idle.done = 0 /\ Idle.n = 0 /\ Idle.k = 0
    BY <2>2 DEF Idle, Process
  <2> QED BY <1>2, <1>5, <2>1, <2>3
<1>7. /\ cons' \in Process /\ cons'.pc \in {"reset_head", "reset_tail", "load", "done"}
      /\ cons'.done = 0 /\ cons'.n = 0 /\ cons'.k = 0 /\ cons'.buf = << >>
      /\ cons'.pc \in {"reset_head", "reset_tail"} => cons.pc = "reset"
  <2>1. \/ cons.pc = "reset" /\ cons' = [cons EXCEPT !.pc = "reset_tail"]
        \/ cons.pc = "reset" /\ cons' = [cons EXCEPT !.pc = "reset_head"]
        \/ cons' = Again(0)
    BY DEF kbuf_map_reset
  <2>2. CASE cons.pc = "reset" /\ cons' = [cons EXCEPT !.pc = "reset_tail"]
    BY <1>2, <1>5, <2>2 DEF Process
  <2>3. CASE cons.pc = "reset" /\ cons' = [cons EXCEPT !.pc = "reset_head"]
    BY <1>2, <1>5, <2>3 DEF Process
  <2>4. CASE cons' = Again(0)
    <3>1. 0 \in Nat
      BY SMT
    <3> QED BY <2>4, <3>1, AgainAt
  <2> QED BY <2>1, <2>2, <2>3, <2>4
<1>8. MmapType'
  BY <1>1, <1>4, <1>6, <1>7 DEF MmapInv, MmapType
<1>9. taken' = [j \in 1..0 |-> j] /\ cons'.buf = [j \in 1..0 |-> 0 + j]
  BY <1>1, <1>2, <1>7, RunNone DEF MmapInv, StreamInv
<1>10. StreamInv'
  BY <1>1, <1>3, <1>4, <1>6, <1>7, <1>9, MmapSizes, SMT DEF StreamInv, Cap
<1> QED BY <1>8, <1>10 DEF MmapInv

\* The consumer loads its own index, which nobody else stores.
LEMMA ReadLoadInv ==
  ASSUME MmapInv, kbuf_map_read_load
  PROVE  MmapInv'
<1>1. /\ cons.pc = "load" /\ cons' = [cons EXCEPT !.pc = "clamp", !.own = tail]
      /\ UNCHANGED <<head, tail, data, sizes, prod, taken>>
  BY DEF kbuf_map_read_load
<1>2. /\ cons' \in Process /\ cons'.pc = "clamp" /\ cons'.own = tail
      /\ cons'.done = cons.done /\ cons'.n = cons.n /\ cons'.k = cons.k
      /\ cons'.buf = cons.buf
  BY <1>1 DEF MmapInv, MmapType, Process
<1>3. MmapType'
  BY <1>1, <1>2 DEF MmapInv, MmapType
<1>4. StreamInv'
  BY <1>1, <1>2, SMT DEF MmapInv, StreamInv
<1> QED BY <1>3, <1>4 DEF MmapInv

\* The consumer takes no more than what is published; the producer can only
\* publish more later.
LEMMA ReadClampInv ==
  ASSUME MmapInv, kbuf_map_read_clamp
  PROVE  MmapInv'
<1>1. PICK s \in sizes :
        cons' = IF AtMost(s, Diff(head, cons.own)) = 0 THEN Again(cons.done)
                ELSE [cons EXCEPT !.pc = "copy", !.n = AtMost(s, Diff(head, cons.own))]
  BY DEF kbuf_map_read_clamp
<1>2. /\ cons.pc = "clamp" /\ UNCHANGED <<head, tail, data, sizes, prod, taken>>
  BY DEF kbuf_map_read_clamp
<1>3. /\ cons \in Process /\ cons.own = tail /\ cons.n = 0 /\ s \in Nat
  BY <1>2 DEF MmapInv, MmapType, StreamInv
<1>4. cons.done \in Nat /\ cons.k = 0
  BY <1>3, StreamNumbers, SMT
<1> DEFINE n == AtMost(s, Diff(head, cons.own))
<1>5. n \in Nat /\ n <= prod.done - cons.done
  BY <1>3, RoomIs, MmapSizes, SMT DEF AtMost
<1>6. cons' = IF n = 0 THEN Again(cons.done) ELSE [cons EXCEPT !.pc = "copy", !.n = n]
  BY <1>1
<1> HIDE DEF n
<1>7. cons.buf = << >>
  BY <1>4, RunNone DEF MmapInv, StreamInv
<1>8. CASE n = 0
  <2>1. /\ cons' \in Process /\ cons'.pc \in {"load", "done"} /\ cons'.done = cons.done
        /\ cons'.n = 0 /\ cons'.k = 0 /\ cons'.buf = cons.buf
    BY <1>4, <1>6, <1>7, <1>8, AgainAt
  <2>2. MmapType'
    BY <1>2, <2>1 DEF MmapInv, MmapType
  <2>3. StreamInv'
    BY <1>2, <1>3, <1>4, <2>1 DEF MmapInv, StreamInv
  <2> QED BY <2>2, <2>3 DEF MmapInv
<1>9. CASE n # 0
  <2>1. /\ cons' \in Process /\ cons'.pc = "copy" /\ cons'.done = cons.done
        /\ cons'.n = n /\ cons'.k = 0 /\ cons'.own = tail /\ cons'.buf = cons.buf
    BY <1>3, <1>4, <1>5, <1>6, <1>9 DEF Process
  <2>2. MmapType'
    BY <1>2, <2>1 DEF MmapInv, MmapType
  <2>3. cons.done + n <= prod.done
    BY <1>5, StreamNumbers, SMT
  <2>4. StreamInv'
    BY <1>2, <1>4, <1>5, <2>1, <2>3, SMT DEF MmapInv, StreamInv
  <2> QED BY <2>2, <2>4 DEF MmapInv
<1> QED BY <1>8, <1>9

\* The byte copied out is the next one of the stream.
LEMMA ReadCopyInv ==
  ASSUME MmapInv, kbuf_map_read_copy
  PROVE  MmapInv'
<1> DEFINE q == cons.done + cons.k
           b == data[Byte(Offset(cons.own) + cons.k)]
<1>1. /\ cons.pc = "copy" /\ cons.k < cons.n
      /\ cons' = [cons EXCEPT !.k = @ + 1, !.buf = Append(@, b)]
      /\ UNCHANGED <<head, tail, data, sizes, prod, taken>>
  BY DEF kbuf_map_read_copy
<1>2. cons.own = cons.done % IdxMod /\ cons \in Process
  BY <1>1 DEF MmapInv, MmapType, StreamInv
<1>3. b = q + 1
  <2>1. cons.done \in Nat /\ cons.k \in Nat
    BY StreamNumbers
  <2>2. Byte(Offset(cons.own) + cons.k) = q % Cap
    BY <1>2, <2>1, StreamByte
  <2>3. q \in cons.done..(prod.done + prod.k - 1)
    BY <1>1, StreamNumbers, SMT
  <2>4. data[q % Cap] = q + 1
    BY <2>3 DEF MmapInv, StreamInv, Cap
  <2> QED BY <2>2, <2>4
<1> DEFINE a == Append(cons.buf, b)
<1>4. a = Run(cons.done, cons.k + 1) /\ a \in Seq(Nat)
  <2>1. cons.buf = Run(cons.done, cons.k) /\ cons.done \in Nat /\ cons.k \in Nat
    BY StreamNumbers DEF MmapInv, StreamInv, Run
  <2>2. a = Append(Run(cons.done, cons.k), cons.done + cons.k + 1)
    BY <1>3, <2>1
  <2>3. a = Run(cons.done, cons.k + 1)
    BY <2>1, <2>2, RunAppend
  <2>4. Run(cons.done, cons.k + 1) \in Seq(Nat)
    <3>1. cons.k + 1 \in Nat
      BY <2>1, SMT
    <3> QED BY <2>1, <3>1, RunSeq
  <2> QED BY <2>3, <2>4
<1>5. cons' = [cons EXCEPT !.k = @ + 1, !.buf = a]
  BY <1>1
<1> HIDE DEF a, b, q
<1>6. /\ cons' \in Process /\ cons'.pc = "copy" /\ cons'.own = cons.own
      /\ cons'.n = cons.n /\ cons'.k = cons.k + 1 /\ cons'.done = cons.done
      /\ cons'.buf = a
  <2>1. cons.pc = "copy"
    BY <1>1
  <2>2. a \in Seq(Nat) /\ cons \in Process
    BY <1>2, <1>4
  <2> DEFINE j == cons.k + 1
  <2>3. j \in Nat /\ cons' = [cons EXCEPT !.k = j, !.buf = a]
    BY <1>5, StreamNumbers, SMT
  <2> HIDE DEF j
  <2>4. /\ cons' \in Process /\ cons'.pc = "copy" /\ cons'.own = cons.own
        /\ cons'.n = cons.n /\ cons'.k = j /\ cons'.done = cons.done
        /\ cons'.buf = a
    BY <2>1, <2>2, <2>3 DEF Process
  <2> QED BY <2>4 DEF j
<1>7. MmapType'
  BY <1>1, <1>6 DEF MmapInv, MmapType
<1>8. cons'.buf = [j \in 1..cons'.k |-> cons'.done + j]
  BY <1>4, <1>6 DEF Run
<1>9. cons'.k <= cons'.n
  BY <1>1, <1>6, StreamNumbers, SMT
<1>10. UNCHANGED <<head, tail, data, sizes, prod, taken>> /\ cons.pc = "copy"
  BY <1>1
<1>11. StreamInv'
  BY <1>6, <1>8, <1>9, <1>10 DEF MmapInv, StreamInv
<1> QED BY <1>7, <1>11 DEF MmapInv

\* What one read returns continues what the reads before it returned.
LEMMA ReadPublishInv ==
  ASSUME MmapInv, kbuf_map_read_publish
  PROVE  MmapInv'
<1> DEFINE d == cons.done + cons.n
<1>1. /\ cons.pc = "copy" /\ cons.k = cons.n /\ tail' = (cons.own + cons.n) % IdxMod
      /\ taken' = taken \o cons.buf
      /\ cons' = Again(d) /\ UNCHANGED <<head, data, sizes, prod>>
  BY DEF kbuf_map_read_publish
<1>2. d \in Nat /\ d <= prod.done /\ prod.done + prod.n <= d + Cap
  BY StreamNumbers, MmapSizes, SMT
<1>3. cons.own = cons.done % IdxMod
  BY <1>1 DEF MmapInv, StreamInv
<1>4. tail' = d % IdxMod
  <2>1. cons.done \in Nat /\ cons.n \in Nat
    BY StreamNumbers
  <2>2. ((cons.done % IdxMod) + cons.n) % IdxMod = d % IdxMod
    BY <2>1, IndexMoves
  <2> QED BY <1>1, <1>3, <2>2
<1>5. taken' = [j \in 1..d |-> j]
  <2>0. cons.done \in Nat /\ cons.n \in Nat /\ 0 \in Nat
    BY StreamNumbers
  <2>1. cons.buf = Run(cons.done, cons.n)
    BY <1>1 DEF MmapInv, StreamInv, Run
  <2>2. taken = Run(0, cons.done)
    BY <2>0, SMT DEF MmapInv, StreamInv, Run
  <2>3. Run(0, cons.done) \o Run(0 + cons.done, cons.n) = Run(0, d)
    BY <2>0, RunConcat
  <2>4. 0 + cons.done = cons.done
    BY <2>0, SMT
  <2>5. taken' = Run(0, d)
    BY <1>1, <2>1, <2>2, <2>3, <2>4
  <2> QED BY <1>2, <2>5, SMT DEF Run
<1>6. \A s \in d..(prod.done + prod.k - 1) : data[s % KBUF_MMAP_CAPACITY] = s + 1
  <2>1. \A s \in cons.done..(prod.done + prod.k - 1) : data[s % KBUF_MMAP_CAPACITY] = s + 1
    BY DEF MmapInv, StreamInv
  <2>2. d..(prod.done + prod.k - 1) \subseteq cons.done..(prod.done + prod.k - 1)
    BY StreamNumbers, SMT
  <2> QED BY <2>1, <2>2
<1> HIDE DEF d
<1>7. tail' \in Nat
  BY <1>2, <1>4, MmapSizes, ModRange, SMT
<1>8. /\ cons' \in Process /\ cons'.pc \in {"load", "done"} /\ cons'.done = d
      /\ cons'.n = 0 /\ cons'.k = 0 /\ cons'.buf = << >>
  BY <1>1, <1>2, AgainAt
<1>9. cons'.buf = [j \in 1..cons'.k |-> cons'.done + j]
  BY <1>8, RunNone, SMT
<1>10. UNCHANGED <<head, data, sizes, prod>>
  BY <1>1
<1>11. MmapType'
  BY <1>7, <1>8, <1>10 DEF MmapInv, MmapType
<1>12. StreamInv'
  BY <1>2, <1>4, <1>5, <1>6, <1>8, <1>9, <1>10, SMT DEF MmapInv, StreamInv, Cap
<1> QED BY <1>11, <1>12 DEF MmapInv

\* Every step of the two programs.
LEMMA StreamStep ==
  ASSUME MmapInv, [Next]_vars
  PROVE  MmapInv'
<1>1. CASE UNCHANGED vars
  BY <1>1 DEF vars, MmapInv, MmapType, StreamInv
<1>2. CASE Producer
  BY <1>2, ProducerMapInv, WriteLoadInv, WriteClampInv, WriteCopyInv, WritePublishInv
     DEF Producer
<1>3. CASE Consumer
  BY <1>3, ConsumerMapInv, ResetInv, ReadLoadInv, ReadClampInv, ReadCopyInv, ReadPublishInv
     DEF Consumer
<1>4. CASE Finished
  BY <1>1, <1>4 DEF Finished
<1> QED BY <1>1, <1>2, <1>3, <1>4 DEF Next

\* In a program that resets the ring before it forks the producer, the
\* free-running indices of the control page are at every moment the numbers
\* of bytes written and read, whatever the capacity, the page size, the index
\* width and the sizes asked for (kbuf_map_write, kbuf_map_read).
THEOREM StreamInvariant ==
  ASSUME ResetFirst
  PROVE  Spec => []StreamInv
<1>1. Init => MmapInv
  BY StreamInit
<1>2. MmapInv /\ [Next]_vars => MmapInv'
  BY StreamStep
<1>3. MmapInv => StreamInv
  BY DEF MmapInv
<1> QED BY <1>1, <1>2, <1>3, PTL DEF Spec

-----------------------------------------------------------------------------
(* The copies stay apart.                                                  *)

\* The bytes that a memcpy in progress still has to touch, as positions of
\* the stream.
LEMMA PendingIs ==
  ASSUME NEW c \in Process, c.own = c.done % IdxMod
  PROVE  Pending(c) = {(c.done + j) % Cap : j \in c.k..(c.n - 1)}
<1>1. c.done \in Nat /\ c.k \in Nat /\ c.n \in Nat
  BY DEF Process
<1>2. \A j \in c.k..(c.n - 1) : j \in Nat
  BY <1>1, SMT
<1>3. \A j \in c.k..(c.n - 1) : Byte(Offset(c.own) + j) = (c.done + j) % Cap
  BY <1>1, <1>2, StreamByte
<1> QED BY <1>3 DEF Pending

\* The unread bytes, likewise.
LEMMA UnreadIs ==
  ASSUME MmapInv
  PROVE  {Byte(Offset(tail) + j) : j \in 0..(Diff(head, tail) - 1)}
           = {(cons.done + j) % Cap : j \in 0..(prod.done - cons.done - 1)}
<1>1. /\ Diff(head, tail) = prod.done - cons.done /\ tail = cons.done % IdxMod
      /\ cons.done \in Nat /\ prod.done \in Nat
  BY RoomIs, StreamNumbers DEF MmapInv, StreamInv
<1>2. \A j \in 0..(prod.done - cons.done - 1) : j \in Nat
  BY <1>1, SMT
<1>3. \A j \in 0..(prod.done - cons.done - 1) :
        Byte(Offset(tail) + j) = (cons.done + j) % Cap
  BY <1>1, <1>2, StreamByte
<1> QED BY <1>1, <1>3

\* The producer copies into free bytes only and the consumer out of published
\* ones only, so the two memcpys of concurrent calls never touch the same
\* byte, for every capacity and across every wrap.
THEOREM CopiesNeverMeet ==
  ASSUME ResetFirst
  PROVE  Spec => []CopiesApart
<1>1. Init => MmapInv
  BY StreamInit
<1>2. MmapInv /\ [Next]_vars => MmapInv'
  BY StreamStep
<1>3. MmapInv => CopiesApart
  <2> SUFFICES ASSUME MmapInv PROVE CopiesApart
    BY SMT
  <2> DEFINE unread == {(cons.done + j) % Cap : j \in 0..(prod.done - cons.done - 1)}
  <2>1. ASSUME prod.pc = "copy" PROVE Pending(prod) \cap unread = {}
    <3>1. prod \in Process /\ prod.own = prod.done % IdxMod
      BY <2>1 DEF MmapInv, MmapType, StreamInv
    <3>2. Pending(prod) = {(prod.done + j) % Cap : j \in prod.k..(prod.n - 1)}
      BY <3>1, PendingIs
    <3>3. ASSUME NEW i \in 0..(prod.done - cons.done - 1), NEW j \in prod.k..(prod.n - 1)
          PROVE  (cons.done + i) % Cap # (prod.done + j) % Cap
      <4> DEFINE x == cons.done + i
                 y == prod.done + j
      <4>1. /\ x \in Int /\ y \in Int /\ Cap \in Nat \ {0} /\ x <= y /\ y < x + Cap /\ x # y
        BY StreamNumbers, MmapSizes, SMT
      <4> HIDE DEF x, y
      <4>2. SUFFICES ASSUME x % Cap = y % Cap PROVE x = y
        BY <4>1 DEF x, y
      <4> QED BY <4>1, <4>2, ModApart
    <3> QED BY <3>2, <3>3
  <2>2. ASSUME cons.pc = "copy" PROVE Pending(cons) \subseteq unread
    <3>1. cons \in Process /\ cons.own = cons.done % IdxMod
      BY <2>2 DEF MmapInv, MmapType, StreamInv
    <3>2. Pending(cons) = {(cons.done + j) % Cap : j \in cons.k..(cons.n - 1)}
      BY <3>1, PendingIs
    <3>3. cons.k..(cons.n - 1) \subseteq 0..(prod.done - cons.done - 1)
      BY StreamNumbers, SMT
    <3> QED BY <3>2, <3>3
  <2> QED BY <2>1, <2>2, UnreadIs DEF CopiesApart
<1> QED BY <1>1, <1>2, <1>3, PTL DEF Spec

\* The last byte of a memcpy lies inside the second copy of the data pages.
InsideMapping ==
  \A c \in {prod, cons} :
    c.pc = "copy" => Offset(c.own) + c.n < 2 * KBUF_MMAP_CAPACITY

\* A memcpy never runs past the mapping that kbuf_mmap accepts and
\* kbuf_vm_fault fills: two copies of the data pages are enough for every
\* size asked for, because the clamp bounds it by the capacity.
THEOREM CopiesInsideMapping ==
  ASSUME ResetFirst
  PROVE  Spec => []InsideMapping
<1>1. Init => MmapInv
  BY StreamInit
<1>2. MmapInv /\ [Next]_vars => MmapInv'
  BY StreamStep
<1>3. MmapInv => InsideMapping
  <2> SUFFICES ASSUME MmapInv, NEW c \in {prod, cons}, c.pc = "copy"
               PROVE  Offset(c.own) + c.n < 2 * KBUF_MMAP_CAPACITY
    BY DEF InsideMapping
  <2>1. c.own \in Nat /\ c.n \in Nat
    BY DEF MmapInv, MmapType, Process
  <2>2. Cap \in Nat \ {0}
    BY MmapSizes
  <2>3. c.n <= Cap
    BY <2>2, StreamNumbers, SMT
  <2> DEFINE o == c.own % Cap
  <2>4. o \in 0..(Cap - 1)
    <3>1. c.own \in Int
      BY <2>1, SMT
    <3> QED BY <2>2, <3>1, ModRange
  <2> HIDE DEF o
  <2>5. o + c.n < 2 * Cap
    BY <2>1, <2>2, <2>3, <2>4, SMT
  <2> QED BY <2>5 DEF o, Offset, Cap
<1> QED BY <1>1, <1>2, <1>3, PTL DEF Spec

-----------------------------------------------------------------------------
(* The ring is a FIFO of bytes.                                            *)

\* The part of a run after its first n numbers, and those n.
LEMMA RunCut ==
  ASSUME NEW a \in Nat, NEW m \in Nat, NEW n \in 0..m
  PROVE  /\ SubSeq(Run(a, m), n + 1, m) = Run(a + n, m - n)
         /\ SubSeq(Run(a, m), 1, n) = Run(a, n)
<1>1. SubSeq(Run(a, m), n + 1, m) = [i \in 1..(m - n) |-> Run(a, m)[i + n]]
  BY SMT DEF Run
<1>2. \A i \in 1..(m - n) : Run(a, m)[i + n] = (a + n) + i
  BY SMT DEF Run
<1>3. SubSeq(Run(a, m), 1, n) = [i \in 1..n |-> Run(a, m)[i]]
  BY SMT DEF Run
<1>4. \A i \in 1..n : Run(a, m)[i] = a + i
  BY SMT DEF Run
<1> QED BY <1>1, <1>2, <1>3, <1>4 DEF Run

\* What lies between the two indices is the stream between the positions they
\* stand for.
LEMMA HeldRun ==
  ASSUME NEW w \in Nat, NEW r \in Nat, r <= w, w <= r + Cap, NEW d,
         \A s \in r..(w - 1) : d[s % Cap] = s + 1
  PROVE  [j \in 1..Diff(w % IdxMod, r % IdxMod) |-> d[Byte(Offset(r % IdxMod) + j - 1)]]
           = Run(r, w - r)
<1>1. Diff(w % IdxMod, r % IdxMod) = w - r
  BY StreamDiff
<1>2. ASSUME NEW j \in 1..(w - r)
      PROVE  d[Byte(Offset(r % IdxMod) + j - 1)] = r + j
  <2> DEFINE i == j - 1
  <2>1. i \in Nat /\ r + i \in r..(w - 1) /\ r + i + 1 = r + j
    BY SMT
  <2>2. Offset(r % IdxMod) + j - 1 = Offset(r % IdxMod) + i
    <3>1. r % IdxMod \in Int /\ Cap \in Nat \ {0}
      BY MmapSizes, ModRange, SMT
    <3> DEFINE x == r % IdxMod
    <3> HIDE DEF x
    <3>2. x % Cap \in Int
      BY <3>1, ModRange, SMT DEF x
    <3>3. Offset(x) \in Int
      BY <3>2 DEF Offset, Cap
    <3> QED BY <3>3 DEF x
  <2> HIDE DEF i
  <2>3. Byte(Offset(r % IdxMod) + i) = (r + i) % Cap
    BY <2>1, StreamByte
  <2>4. d[(r + i) % Cap] = r + i + 1
    BY <2>1
  <2> QED BY <2>1, <2>2, <2>3, <2>4
<1> QED BY <1>1, <1>2 DEF Run

\* How one step moves the two stream positions: only the publishing stores
\* do, one by what was written and the other by what was read.
LEMMA StreamMoves ==
  ASSUME MmapInv, [Next]_vars
  PROVE  \/ /\ prod'.done = prod.done /\ cons'.done = cons.done /\ taken' = taken
         \/ /\ prod'.done = prod.done + prod.n
            /\ cons'.done = cons.done /\ taken' = taken
         \/ /\ cons'.done = cons.done + cons.n
            /\ prod'.done = prod.done /\ taken' = taken \o Run(cons.done, cons.n)
<1>0. prod \in Process /\ cons \in Process /\ prod.done \in Nat /\ cons.done \in Nat
  BY StreamNumbers DEF MmapInv, MmapType
<1>1. CASE UNCHANGED vars
  BY <1>1 DEF vars
<1>2. CASE ProducerMap
  BY <1>0, <1>2, AgainAt DEF ProducerMap
<1>3. CASE kbuf_map_write_load
  BY <1>0, <1>3 DEF kbuf_map_write_load, Process
<1>4. CASE kbuf_map_write_clamp
  <2>1. /\ prod' = Again(prod.done) \/ \E n : prod' = [prod EXCEPT !.pc = "copy", !.n = n]
        /\ UNCHANGED <<cons, taken>>
    BY <1>4 DEF kbuf_map_write_clamp
  <2> QED BY <1>0, <2>1, AgainAt DEF Process
<1>5. CASE kbuf_map_write_copy
  <2>1. prod' = [prod EXCEPT !.k = @ + 1] /\ UNCHANGED <<cons, taken>>
    BY <1>5 DEF kbuf_map_write_copy
  <2> QED BY <1>0, <2>1 DEF Process
<1>6. CASE kbuf_map_write_publish
  <2>1. prod.done + prod.n \in Nat
    BY StreamNumbers, SMT
  <2>2. prod' = Again(prod.done + prod.n) /\ UNCHANGED <<cons, taken>>
    BY <1>6 DEF kbuf_map_write_publish
  <2> QED BY <2>1, <2>2, AgainAt
<1>7. CASE ConsumerMap
  BY <1>0, <1>7 DEF ConsumerMap, Process
<1>8. CASE kbuf_map_reset
  <2>1. cons.done = 0 /\ prod.done = 0 /\ UNCHANGED taken
    BY <1>8, StreamNumbers, SMT DEF kbuf_map_reset, MmapInv, StreamInv
  <2>2. prod' = prod \/ prod' = Idle
    BY <1>8 DEF kbuf_map_reset
  <2>3. prod'.done = 0
    BY <2>1, <2>2, SMT DEF Idle
  <2>4. \/ cons' = Again(0) \/ cons' = [cons EXCEPT !.pc = "reset_tail"]
        \/ cons' = [cons EXCEPT !.pc = "reset_head"]
    BY <1>8 DEF kbuf_map_reset
  <2>5. Again(0).done = 0
    <3>1. 0 \in Nat
      BY SMT
    <3> QED BY <3>1, AgainAt
  <2>6. cons'.done = 0
    BY <1>0, <2>1, <2>4, <2>5 DEF Process
  <2> QED BY <2>1, <2>3, <2>6
<1>9. CASE kbuf_map_read_load
  BY <1>0, <1>9 DEF kbuf_map_read_load, Process
<1>10. CASE kbuf_map_read_clamp
  <2>1. /\ cons' = Again(cons.done) \/ \E n : cons' = [cons EXCEPT !.pc = "copy", !.n = n]
        /\ UNCHANGED <<prod, taken>>
    BY <1>10 DEF kbuf_map_read_clamp
  <2>2. CASE cons' = Again(cons.done)
    <3>1. Again(cons.done).done = cons.done
      BY <1>0, AgainAt DEF Process
    <3> QED BY <2>1, <2>2, <3>1
  <2>3. CASE \E n : cons' = [cons EXCEPT !.pc = "copy", !.n = n]
    BY <1>0, <2>1, <2>3 DEF Process
  <2> QED BY <2>1, <2>2, <2>3
<1>11. CASE kbuf_map_read_copy
  <2>1. /\ \E k, b : cons' = [cons EXCEPT !.k = k, !.buf = b]
        /\ UNCHANGED <<prod, taken>>
    BY <1>11 DEF kbuf_map_read_copy
  <2> QED BY <1>0, <2>1 DEF Process
<1>12. CASE kbuf_map_read_publish
  <2>1. cons.done + cons.n \in Nat
    BY StreamNumbers, SMT
  <2>2. /\ cons' = Again(cons.done + cons.n) /\ taken' = taken \o cons.buf
        /\ cons.k = cons.n /\ UNCHANGED prod
    BY <1>12 DEF kbuf_map_read_publish
  <2>3. cons.buf = Run(cons.done, cons.n)
    BY <2>2 DEF MmapInv, StreamInv, Run
  <2> QED BY <2>1, <2>2, <2>3, AgainAt
<1> QED BY <1>1, <1>2, <1>3, <1>4, <1>5, <1>6, <1>7, <1>8, <1>9, <1>10, <1>11, <1>12
        DEF Next, Producer, Consumer, Finished

\* One step of the programs is a write, a read or nothing in the byte FIFO.
LEMMA StreamStepFifo ==
  ASSUME MmapInv, [Next]_vars
  PROVE  [Fifo!FifoNext]_(Fifo!fifoVars)
<1> DEFINE q == [j \in 1..Diff(head, tail) |-> data[Byte(Offset(tail) + j - 1)]]
           w == prod.done
           r == cons.done
           n == prod.n
           m == cons.n
<1>0. /\ w \in Nat /\ r \in Nat /\ n \in Nat /\ m \in Nat /\ r + m <= w /\ w + n <= r + Cap
      /\ Cap \in Nat \ {0}
  BY StreamNumbers, MmapSizes
<1>1. q = Run(r, w - r)
  <2>1. head = w % IdxMod /\ tail = r % IdxMod
    BY DEF MmapInv, StreamInv
  <2>2. \A s \in r..(w - 1) : data[s % Cap] = s + 1
    <3>1. r..(w - 1) \subseteq r..(w + prod.k - 1)
      BY StreamNumbers, SMT
    <3>2. \A s \in r..(w + prod.k - 1) : data[s % Cap] = s + 1
      BY DEF MmapInv, StreamInv, Cap
    <3> QED BY <3>1, <3>2
  <2>3. r <= w /\ w <= r + Cap
    BY <1>0, SMT
  <2> HIDE DEF w, r
  <2>4. [j \in 1..Diff(w % IdxMod, r % IdxMod) |-> data[Byte(Offset(r % IdxMod) + j - 1)]]
          = Run(r, w - r)
    BY <1>0, <2>2, <2>3, HeldRun
  <2> QED BY <2>1, <2>4
<1>2. MmapInv'
  BY StreamStep
<1>3. w' \in Nat /\ r' \in Nat /\ q' = Run(r', w' - r')
  <2>1. head' = w' % IdxMod /\ tail' = r' % IdxMod
    BY <1>2 DEF MmapInv, StreamInv
  <2>0. /\ prod'.k \in Nat /\ w' \in Nat /\ r' \in Nat /\ prod'.n \in Nat /\ cons'.n \in Nat
        /\ r' + cons'.n <= w' /\ w' + prod'.n <= r' + Cap
    BY <1>2 DEF MmapInv, MmapType, StreamInv, Process, Cap
  <2>2. \A s \in (r')..(w' - 1) : data'[s % Cap] = s + 1
    <3>1. (r')..(w' - 1) \subseteq (r')..(w' + prod'.k - 1)
      BY <2>0, SMT
    <3>2. \A s \in (r')..(w' + prod'.k - 1) : data'[s % Cap] = s + 1
      BY <1>2 DEF MmapInv, StreamInv, Cap
    <3> QED BY <3>1, <3>2
  <2>3. r' <= w' /\ w' <= r' + Cap
    BY <1>0, <2>0, SMT
  <2>4. q' = [j \in 1..Diff(head', tail') |-> data'[Byte(Offset(tail') + j - 1)]]
    BY SMT
  <2> HIDE DEF w, r
  <2>5. [j \in 1..Diff(w' % IdxMod, r' % IdxMod) |-> data'[Byte(Offset(r' % IdxMod) + j - 1)]]
          = Run(r', w' - r')
    BY <2>0, <2>2, <2>3, HeldRun
  <2>6. q' = Run(r', w' - r')
    BY <2>1, <2>4, <2>5
  <2> QED BY <2>0, <2>6
<1>4. Len(q) = w - r
  <2>1. w - r \in Nat /\ r \in Nat
    BY <1>0, SMT
  <2>2. Len(Run(r, w - r)) = w - r
    BY <2>1, RunSeq
  <2> QED BY <1>1, <2>2
<1>5. \/ w' = w /\ r' = r /\ taken' = taken
      \/ w' = w + n /\ r' = r /\ taken' = taken
      \/ r' = r + m /\ w' = w /\ taken' = taken \o Run(r, m)
  BY StreamMoves
<1> DEFINE Put(k) == /\ Len(q) + k <= Cap /\ q' = q \o [j \in 1..k |-> w + j]
                     /\ w' = w + k /\ taken' = taken
           Get(k) == /\ k <= Len(q) /\ q' = SubSeq(q, k + 1, Len(q))
                     /\ taken' = taken \o SubSeq(q, 1, k) /\ w' = w
<1>6. SUFFICES \/ UNCHANGED <<q, w, taken>>
               \/ \E k \in 1..Cap : Put(k) \/ Get(k)
  BY DEF Fifo!FifoNext, Fifo!fifoVars, Fifo!Put, Fifo!Get, Cap
<1> HIDE DEF q, w, r, n, m
<1>7. CASE w' = w /\ r' = r /\ taken' = taken
  BY <1>1, <1>3, <1>7
<1>8. CASE w' = w + n /\ r' = r /\ taken' = taken
  <2>1. CASE n = 0
    <3>1. w' = w
      BY <1>0, <1>8, <2>1, SMT
    <3> QED BY <1>7, <1>8, <3>1
  <2>2. CASE n # 0
    <3>1. n \in 1..Cap /\ w - r \in Nat /\ r + (w - r) = w /\ (w - r) + n = (w + n) - r
      BY <1>0, <2>2, SMT
    <3>2. Run(r, w - r) \o Run(r + (w - r), n) = Run(r, (w - r) + n)
      <4>1. r \in Nat /\ n \in Nat
        BY <1>0
      <4> QED BY <3>1, <4>1, RunConcat
    <3>3. q' = q \o Run(w, n)
      BY <1>1, <1>3, <1>8, <3>1, <3>2
    <3>4. Len(q) + n <= Cap
      BY <1>0, <1>4, SMT
    <3>5. Put(n)
      BY <1>8, <3>3, <3>4 DEF Run
    <3> QED BY <3>1, <3>5
  <2> QED BY <2>1, <2>2
<1>9. CASE r' = r + m /\ w' = w /\ taken' = taken \o Run(r, m)
  <2>1. CASE m = 0
    <3>1. r' = r
      BY <1>0, <1>9, <2>1, SMT
    <3>2. Run(r, m) = << >>
      BY <2>1, RunNone DEF Run
    <3>3. taken' = taken
      BY <1>9, <3>2, SMT DEF MmapInv, StreamInv
    <3> QED BY <1>7, <1>9, <3>1, <3>3
  <2>2. CASE m # 0
    <3>1. m \in 1..Cap /\ m \in 0..(w - r) /\ w - r \in Nat /\ w - (r + m) = (w - r) - m
      BY <1>0, <2>2, SMT
    <3>2. /\ SubSeq(Run(r, w - r), m + 1, w - r) = Run(r + m, (w - r) - m)
          /\ SubSeq(Run(r, w - r), 1, m) = Run(r, m)
      BY <1>0, <3>1, RunCut
    <3>3. q' = SubSeq(q, m + 1, Len(q))
      BY <1>1, <1>3, <1>4, <1>9, <3>1, <3>2
    <3>4. taken' = taken \o SubSeq(q, 1, m)
      BY <1>1, <1>9, <3>2
    <3>5. Get(m)
      BY <1>0, <1>4, <1>9, <3>1, <3>3, <3>4, SMT
    <3> QED BY <3>1, <3>5
  <2> QED BY <2>1, <2>2
<1> QED BY <1>5, <1>7, <1>8, <1>9

\* The mapped ring implements a bounded FIFO of bytes, for every capacity,
\* page size and index width: the reads return the producer's stream, in
\* order and without loss, and no write overtakes the reader.
THEOREM RingImplementsByteFifo ==
  ASSUME ResetFirst
  PROVE  Spec => ImplementsByteFifo
<1>1. Init => MmapInv
  BY StreamInit
<1>2. MmapInv /\ [Next]_vars => MmapInv'
  BY StreamStep
<1>3. Init => Fifo!FifoInit
  <2> SUFFICES ASSUME Init PROVE Fifo!FifoInit
    BY SMT
  <2>1. head = 0 /\ tail = 0 /\ prod.done = 0 /\ taken = << >>
    BY DEF Init, Idle
  <2>2. Diff(head, tail) = 0
    <3>1. 0 \in 0..(2 * IdxMod - 1) /\ IdxMod \in Nat \ {0} /\ 0 - 0 = 0
      BY MmapSizes, SMT
    <3>2. 0 % IdxMod = 0
      BY <3>1, ModSmall, SMT
    <3> QED BY <2>1, <3>1, <3>2 DEF Diff
  <2>3. [j \in 1..Diff(head, tail) |-> data[Byte(Offset(tail) + j - 1)]] = << >>
    BY <2>2, SMT
  <2> QED BY <2>1, <2>3 DEF Fifo!FifoInit
<1>4. MmapInv /\ [Next]_vars => [Fifo!FifoNext]_(Fifo!fifoVars)
  BY StreamStepFifo
<1> QED BY <1>1, <1>2, <1>3, <1>4, PTL DEF Spec, ImplementsByteFifo, Fifo!FifoSpec

-----------------------------------------------------------------------------
(* Records of one size that divides the capacity.                          *)

\* Sums and differences of multiples, and the only multiple below c.
LEMMA Multiples ==
  \A c \in Nat \ {0} : \A x, y \in Int :
    x % c = 0 /\ y % c = 0 =>
      /\ (x + y) % c = 0 /\ (x - y) % c = 0
      /\ x \in 0..(c - 1) => x = 0
<1> SUFFICES ASSUME NEW c \in Nat \ {0}, NEW x \in Int, NEW y \in Int,
                    x % c = 0, y % c = 0
             PROVE  /\ (x + y) % c = 0 /\ (x - y) % c = 0
                    /\ x \in 0..(c - 1) => x = 0
  OBVIOUS
<1>1. PICK p \in Int : x = p * c + (x % c)
  BY ModQuotient
<1>2. PICK q \in Int : y = q * c + (y % c)
  BY ModQuotient
<1> DEFINE s == x + y
           d == x - y
<1>3. /\ s \in Int /\ d \in Int /\ p + q \in Int /\ p - q \in Int /\ 0 \in 0..(c - 1)
      /\ s = (p + q) * c + 0 /\ d = (p - q) * c + 0
  BY <1>1, <1>2, SMT
<1> HIDE DEF s, d
<1>4. s % c = 0
  BY <1>3, ModUnique
<1>5. d % c = 0
  BY <1>3, ModUnique
<1>6. x \in 0..(c - 1) => x = 0
  <2> SUFFICES ASSUME x \in 0..(c - 1) PROVE x = 0
    BY SMT
  <2>1. x \in 0..(2 * c - 1) /\ x < c
    BY SMT
  <2> QED BY <2>1, ModSmall
<1> QED BY <1>4, <1>5, <1>6 DEF s, d

\* Everything moves in whole records of c bytes.
Recorded(c) ==
  /\ prod.done % c = 0 /\ cons.done % c = 0
  /\ prod.n \in {0, c} /\ cons.n \in {0, c}

RecordInv ==
  \A c \in sizes : sizes = {c} /\ Cap % c = 0 => Recorded(c)

\* The clamp to what there is leaves a whole record or nothing.
LEMMA ClampWhole ==
  \A c \in Nat \ {0} : \A x \in Nat : x % c = 0 => AtMost(c, x) \in {0, c}
<1> SUFFICES ASSUME NEW c \in Nat \ {0}, NEW x \in Nat, x % c = 0
             PROVE  AtMost(c, x) \in {0, c}
  BY SMT
<1>1. CASE c <= x
  BY <1>1 DEF AtMost
<1>2. CASE ~(c <= x)
  <2>1. x \in 0..(c - 1) /\ x \in Int
    BY <1>2, SMT
  <2>2. x = 0
    BY <2>1, Multiples
  <2> QED BY <1>2, <2>2 DEF AtMost
<1> QED BY <1>1, <1>2

\* Whole records go in and out, so that what is held and what is free are
\* whole records.
LEMMA RecordStep ==
  ASSUME MmapInv, RecordInv, [Next]_vars
  PROVE  RecordInv'
<1>1. sizes' = sizes
  BY DEF Next, vars, Producer, Consumer, Finished, ProducerMap, kbuf_map_write_load,
         kbuf_map_write_clamp, kbuf_map_write_copy, kbuf_map_write_publish, ConsumerMap,
         kbuf_map_reset, kbuf_map_read_load, kbuf_map_read_clamp, kbuf_map_read_copy,
         kbuf_map_read_publish
<1> SUFFICES ASSUME NEW c \in sizes, sizes = {c}, Cap % c = 0
             PROVE  Recorded(c)'
  BY <1>1 DEF RecordInv
<1>2. Recorded(c)
  BY DEF RecordInv
<1>3. c \in Nat \ {0} /\ Cap \in Nat \ {0}
  BY MmapSizes DEF MmapInv, MmapType
<1>4. /\ prod \in Process /\ cons \in Process
      /\ prod.done \in Nat /\ cons.done \in Nat /\ prod.n \in Nat /\ cons.n \in Nat
      /\ prod.done % c = 0 /\ cons.done % c = 0 /\ prod.n \in {0, c} /\ cons.n \in {0, c}
  BY <1>2, StreamNumbers DEF MmapInv, MmapType, Recorded
<1>5. (/\ prod'.done = prod.done /\ cons'.done = cons.done
       /\ prod'.n \in {0, c} /\ cons'.n \in {0, c}) => Recorded(c)'
  BY <1>4 DEF Recorded
<1>6. c % c = 0 /\ 0 % c = 0
  BY <1>3, ModSelf, ModSmall, SMT
<1>7. \A x \in Nat, n \in {0, c} : x % c = 0 => (x + n) % c = 0
  <2> SUFFICES ASSUME NEW x \in Nat, NEW n \in {0, c}, x % c = 0
               PROVE  (x + n) % c = 0
    BY SMT
  <2>1. x \in Int /\ n \in Int /\ n % c = 0
    BY <1>3, <1>6, SMT
  <2> QED BY <1>3, <2>1, Multiples
<1>8. \A x \in Nat : x % c = 0 => AtMost(c, x) \in {0, c}
  BY <1>3, ClampWhole
<1> DEFINE u == prod.done - cons.done
           f == Cap - u
<1>9. u \in Nat /\ u % c = 0
  <2>1. u \in Nat /\ prod.done \in Int /\ cons.done \in Int
    BY <1>4, StreamNumbers, SMT
  <2> QED BY <1>3, <1>4, <2>1, Multiples
<1>10. f \in Nat /\ f % c = 0
  <2>1. f \in Nat
    BY <1>3, RoomIs, SMT
  <2> HIDE DEF u
  <2>2. u \in Int /\ Cap \in Int /\ Cap % c = 0
    BY <1>3, <1>9, SMT
  <2> QED BY <1>3, <1>9, <2>1, <2>2, Multiples
<1> HIDE DEF u, f, Recorded
<1>11. CASE UNCHANGED vars
  BY <1>4, <1>5, <1>11 DEF vars
<1>12. CASE ProducerMap
  BY <1>4, <1>5, <1>12, AgainAt DEF ProducerMap
<1>13. CASE kbuf_map_write_load
  BY <1>4, <1>5, <1>13 DEF kbuf_map_write_load, Process
<1>14. CASE kbuf_map_write_clamp
  <2>1. prod.own = head /\ Space(head, tail) = f /\ UNCHANGED cons
    BY <1>14, RoomIs DEF kbuf_map_write_clamp, MmapInv, StreamInv, u, f
  <2> DEFINE n == AtMost(c, f)
  <2>2. prod' = Again(prod.done) \/ prod' = [prod EXCEPT !.pc = "copy", !.n = n]
    <3>1. PICK s \in sizes :
            prod' = IF AtMost(s, Space(prod.own, tail)) = 0 THEN Again(prod.done)
                    ELSE [prod EXCEPT !.pc = "copy", !.n = AtMost(s, Space(prod.own, tail))]
      BY <1>14 DEF kbuf_map_write_clamp
    <3>2. s = c
      BY SMT
    <3> QED BY <2>1, <3>1, <3>2
  <2>3. n \in {0, c}
    BY <1>8, <1>10
  <2> HIDE DEF n
  <2>4. prod'.done = prod.done /\ prod'.n \in {0, c}
    <3>1. CASE prod' = Again(prod.done)
      BY <1>4, <3>1, AgainAt
    <3>2. CASE prod' = [prod EXCEPT !.pc = "copy", !.n = n]
      BY <1>4, <2>3, <3>2 DEF Process
    <3> QED BY <2>2, <3>1, <3>2
  <2> QED BY <1>4, <1>5, <2>1, <2>4
<1>15. CASE kbuf_map_write_copy
  <2>1. prod' = [prod EXCEPT !.k = @ + 1] /\ UNCHANGED cons
    BY <1>15 DEF kbuf_map_write_copy
  <2> QED BY <1>4, <1>5, <2>1 DEF Process
<1>16. CASE kbuf_map_write_publish
  <2> DEFINE d == prod.done + prod.n
  <2>1. prod' = Again(d) /\ UNCHANGED cons
    BY <1>16 DEF kbuf_map_write_publish
  <2>2. d \in Nat /\ d % c = 0
    BY <1>4, <1>7, SMT
  <2> HIDE DEF d
  <2>3. prod'.done = d /\ prod'.n = 0
    BY <2>1, <2>2, AgainAt
  <2> QED BY <1>4, <2>1, <2>2, <2>3 DEF Recorded
<1>17. CASE ConsumerMap
  BY <1>4, <1>5, <1>17 DEF ConsumerMap, Process
<1>18. CASE kbuf_map_reset
  <2>1. cons.done = 0 /\ prod.done = 0
    BY <1>18, StreamNumbers, SMT DEF kbuf_map_reset, MmapInv, StreamInv
  <2>2. prod' = prod \/ prod' = Idle
    BY <1>18 DEF kbuf_map_reset
  <2>3. prod'.done = prod.done /\ prod'.n \in {0, c}
    BY <1>4, <2>1, <2>2, SMT DEF Idle
  <2>4. \/ cons' = Again(cons.done) \/ cons' = [cons EXCEPT !.pc = "reset_tail"]
        \/ cons' = [cons EXCEPT !.pc = "reset_head"]
    BY <1>18, <2>1 DEF kbuf_map_reset
  <2>5. cons'.done = cons.done /\ cons'.n \in {0, c}
    BY <1>4, <2>4, AgainAt, SMT DEF Process
  <2> QED BY <1>5, <2>3, <2>5
<1>19. CASE kbuf_map_read_load
  BY <1>4, <1>5, <1>19 DEF kbuf_map_read_load, Process
<1>20. CASE kbuf_map_read_clamp
  <2>1. cons.own = tail /\ Diff(head, tail) = u /\ UNCHANGED prod
    BY <1>20, RoomIs DEF kbuf_map_read_clamp, MmapInv, StreamInv, u
  <2> DEFINE n == AtMost(c, u)
  <2>2. cons' = Again(cons.done) \/ cons' = [cons EXCEPT !.pc = "copy", !.n = n]
    <3>1. PICK s \in sizes :
            cons' = IF AtMost(s, Diff(head, cons.own)) = 0 THEN Again(cons.done)
                    ELSE [cons EXCEPT !.pc = "copy", !.n = AtMost(s, Diff(head, cons.own))]
      BY <1>20 DEF kbuf_map_read_clamp
    <3>2. s = c
      BY SMT
    <3> QED BY <2>1, <3>1, <3>2
  <2>3. n \in {0, c}
    BY <1>8, <1>9
  <2> HIDE DEF n
  <2>4. cons'.done = cons.done /\ cons'.n \in {0, c}
    <3>1. CASE cons' = Again(cons.done)
      BY <1>4, <3>1, AgainAt
    <3>2. CASE cons' = [cons EXCEPT !.pc = "copy", !.n = n]
      BY <1>4, <2>3, <3>2 DEF Process
    <3> QED BY <2>2, <3>1, <3>2
  <2> QED BY <1>4, <1>5, <2>1, <2>4
<1>21. CASE kbuf_map_read_copy
  <2>1. /\ \E k, b : cons' = [cons EXCEPT !.k = k, !.buf = b]
        /\ UNCHANGED prod
    BY <1>21 DEF kbuf_map_read_copy
  <2> QED BY <1>4, <1>5, <2>1 DEF Process
<1>22. CASE kbuf_map_read_publish
  <2> DEFINE d == cons.done + cons.n
  <2>1. cons' = Again(d) /\ UNCHANGED prod
    BY <1>22 DEF kbuf_map_read_publish
  <2>2. d \in Nat /\ d % c = 0
    BY <1>4, <1>7, SMT
  <2> HIDE DEF d
  <2>3. cons'.done = d /\ cons'.n = 0
    BY <2>1, <2>2, AgainAt
  <2> QED BY <1>4, <2>1, <2>2, <2>3 DEF Recorded
<1> QED BY <1>11, <1>12, <1>13, <1>14, <1>15, <1>16, <1>17, <1>18, <1>19, <1>20, <1>21, <1>22
        DEF Next, Producer, Consumer, Finished

\* Where everybody moves records of one size that divides the capacity, no
\* write and no read moves part of a record, which the latency benchmark
\* relies on when it tests only for zero (kbuf_bench.c latency).
THEOREM RecordsStayWhole ==
  ASSUME ResetFirst
  PROVE  Spec => []WholeRecords
<1>1. Init => MmapInv
  BY StreamInit
<1>2. MmapInv /\ [Next]_vars => MmapInv'
  BY StreamStep
<1>3. Init => RecordInv
  <2> SUFFICES ASSUME Init, NEW c \in sizes, Cap % c = 0 PROVE Recorded(c)
    BY DEF RecordInv
  <2>1. prod.done = 0 /\ cons.done = 0 /\ prod.n = 0 /\ cons.n = 0
    BY DEF Init, Idle
  <2>2. c \in Nat \ {0}
    BY MmapAssumption DEF Init
  <2>3. 0 % c = 0
    BY <2>2, ModSmall, SMT
  <2> QED BY <2>1, <2>3 DEF Recorded
<1>4. MmapInv /\ RecordInv /\ [Next]_vars => RecordInv'
  BY RecordStep
<1>5. RecordInv => WholeRecords
  BY DEF RecordInv, Recorded, WholeRecords, Cap
<1> QED BY <1>1, <1>2, <1>3, <1>4, <1>5, PTL DEF Spec
=============================================================================
