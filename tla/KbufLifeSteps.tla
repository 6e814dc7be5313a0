--------------------------- MODULE KbufLifeSteps ---------------------------
(***************************************************************************)
(* LifeInv through insmod and rmmod, and what the steps of the other       *)
(* threads do, field by field, and leave alone: the facts on which the     *)
(* proof that LifeInv is inductive rests.                                  *)
(***************************************************************************)
EXTENDS KbufLifeInv, FiniteSetTheorems, TLAPS

\* The leaves that say nothing else are for Zenon.
USE Zenon

-----------------------------------------------------------------------------
(* Lists and finite sets.                                                  *)

\* A nonempty set of natural numbers has a least element.
LEMMA MinExists ==
  ASSUME NEW S \in SUBSET Nat, S # {}
  PROVE  Min(S) \in S /\ \A y \in S : Min(S) <= y
<1> DEFINE R == OpToRel(<, Nat)
<1>1. IsWellFoundedOn(R, Nat)
  BY NatLessThanWellFounded
<1>2. \A y, x \in Nat : <<y, x>> \in R <=> y < x
  BY DEF OpToRel
<1> HIDE DEF R
<1>3. \E x \in S : \A y \in S : ~(<<y, x>> \in R)
  BY <1>1, WFMin
<1>4. PICK x \in S : \A y \in S : ~(<<y, x>> \in R)
  BY <1>3
<1>5. ASSUME NEW y \in S PROVE x <= y
  <2>1. x \in Nat /\ y \in Nat
    BY SMT
  <2>2. ~(y < x)
    BY <1>2, <1>4, <2>1
  <2> QED BY <2>1, <2>2, SMT
<1> QED BY <1>4, <1>5 DEF Min

\* Sums of counts.
LEMMA Sums ==
  /\ \A n \in Nat : n + 1 > 0 /\ n + 0 = n /\ 0 + n = n
  /\ 1 + 0 + 0 + 0 = 1 /\ 0 + 0 + 0 + 0 = 0
BY SMT

\* A count with one part that moves.
LEMMA MovedCount ==
  ASSUME NEW o \in Nat, NEW i \in Nat, NEW j \in Nat, NEW c \in Nat, NEW r \in Nat,
         r = o + i, c - j = r - i
  PROVE  c = o + j
BY SMT

\* Sets of threads can be counted.
LEMMA Count ==
  ASSUME NEW S \in SUBSET Procs
  PROVE  /\ Cardinality(S) \in Nat
         /\ Cardinality(S) = 0 <=> S = {}
<1>1. IsFiniteSet(S)
  BY LifeAssumption, FS_Subset
<1> QED BY <1>1, FS_CardinalityType, FS_EmptySet

\* One thread more.
LEMMA CountIn ==
  ASSUME NEW S \in SUBSET Procs, NEW p \in Procs \ S
  PROVE  Cardinality(S \cup {p}) = Cardinality(S) + 1
<1>1. IsFiniteSet(S)
  BY LifeAssumption, FS_Subset
<1> QED BY <1>1, FS_AddElement

\* One thread less.
LEMMA CountOut ==
  ASSUME NEW S \in SUBSET Procs, NEW p \in S
  PROVE  Cardinality(S \ {p}) = Cardinality(S) - 1
<1>1. IsFiniteSet(S)
  BY LifeAssumption, FS_Subset
<1> QED BY <1>1, FS_RemoveElement

\* No count for an empty set.
LEMMA CountNone == Cardinality({}) = 0
BY FS_EmptySet

\* The numbers of no device.
LEMMA NoDevNumber == NoDev \notin Devs /\ NoDev \notin Dynamic /\ NoDev \notin Static
BY LifeAssumption, SMT DEF NoDev, Static, Dynamic, Devs

-----------------------------------------------------------------------------
(* What a step does to a device, field by field.                           *)

\* d comes to have these fields, and no other device changes.
Becomes(d, mem, cdevRef, added, device, ref, minor_off) ==
  /\ obj'[d].mem = mem /\ obj'[d].cdevRef = cdevRef
  /\ obj'[d].added = added /\ obj'[d].device = device
  /\ obj'[d].ref = ref /\ obj'[d].minor_off = minor_off
  /\ \A e \in Devs \ {d} : obj'[e] = obj[e]
  /\ /\ mem \subseteq Parts /\ cdevRef \in Nat /\ added \in BOOLEAN /\ device \in BOOLEAN
     /\ ref \in Nat /\ minor_off \in Ids
     => obj' \in [Devs -> Object]

\* A device has the fields of its type.
LEMMA ObjRecord ==
  ASSUME LifeType, NEW d \in Devs
  PROVE  /\ obj[d] \in Object
         /\ obj[d].mem \subseteq Parts /\ obj[d].cdevRef \in Nat
         /\ obj[d].added \in BOOLEAN /\ obj[d].device \in BOOLEAN
         /\ obj[d].ref \in Nat /\ obj[d].minor_off \in Ids
         /\ obj \in [Devs -> Object] /\ DOMAIN obj = Devs
BY DEF LifeType, Object

\* One device gets a new record.
LEMMA BecomesRecord ==
  ASSUME LifeType, NEW d \in Devs, NEW o, obj' = [obj EXCEPT ![d] = o],
         NEW mem, NEW cdevRef, NEW added, NEW device, NEW ref, NEW minor_off,
         o = [mem |-> mem, cdevRef |-> cdevRef, added |-> added, device |-> device,
              ref |-> ref, minor_off |-> minor_off]
  PROVE  Becomes(d, mem, cdevRef, added, device, ref, minor_off)
<1>1. obj'[d] = o /\ \A e \in Devs \ {d} : obj'[e] = obj[e]
  BY ObjRecord
<1>2. ASSUME mem \subseteq Parts, cdevRef \in Nat, added \in BOOLEAN, device \in BOOLEAN,
             ref \in Nat, minor_off \in Ids
      PROVE  obj' \in [Devs -> Object]
  <2>1. o \in Object
    BY <1>2 DEF Object
  <2> QED BY <2>1, ObjRecord
<1> QED BY <1>1, <1>2, SMT DEF Becomes

\* kobject_put on a record.
LEMMA CdevPutRecord ==
  ASSUME NEW o \in Object
  PROVE  CdevPut(o) = [mem |-> IF o.cdevRef = 1 THEN o.mem \ {"cdev"} ELSE o.mem,
                       cdevRef |-> o.cdevRef - 1, added |-> o.added,
                       device |-> o.device, ref |-> o.ref, minor_off |-> o.minor_off]
<1> DEFINE u == CdevPut(o)
<1>1. /\ u.mem = IF o.cdevRef = 1 THEN o.mem \ {"cdev"} ELSE o.mem
      /\ u.cdevRef = o.cdevRef - 1 /\ u.added = o.added /\ u.device = o.device
      /\ u.ref = o.ref /\ u.minor_off = o.minor_off
  BY DEF CdevPut, Object
<1>2. /\ DOMAIN u = {"mem", "cdevRef", "added", "device", "ref", "minor_off"}
      /\ u = [f \in DOMAIN u |-> u[f]]
  BY DEF CdevPut, Object
<1> HIDE DEF u
<1>3. u = [mem |-> u.mem, cdevRef |-> u.cdevRef, added |-> u.added,
           device |-> u.device, ref |-> u.ref, minor_off |-> u.minor_off]
  BY <1>2
<1> QED BY <1>1, <1>3 DEF u

\* cdev_del takes the device out of the map as well.
LEMMA CdevDelRecord ==
  ASSUME NEW o \in Object
  PROVE  CdevDel(o) = [mem |-> IF o.cdevRef = 1 THEN o.mem \ {"cdev"} ELSE o.mem,
                       cdevRef |-> o.cdevRef - 1, added |-> FALSE,
                       device |-> o.device, ref |-> o.ref, minor_off |-> o.minor_off]
<1> DEFINE c == CdevPut(o)
           u == [c EXCEPT !.added = FALSE]
<1>0. c = [mem |-> IF o.cdevRef = 1 THEN o.mem \ {"cdev"} ELSE o.mem,
           cdevRef |-> o.cdevRef - 1, added |-> o.added,
           device |-> o.device, ref |-> o.ref, minor_off |-> o.minor_off]
  BY CdevPutRecord
<1> HIDE DEF c
<1>1. /\ u.mem = IF o.cdevRef = 1 THEN o.mem \ {"cdev"} ELSE o.mem
      /\ u.cdevRef = o.cdevRef - 1 /\ u.added = FALSE /\ u.device = o.device
      /\ u.ref = o.ref /\ u.minor_off = o.minor_off
  BY <1>0
<1>2. /\ DOMAIN u = {"mem", "cdevRef", "added", "device", "ref", "minor_off"}
      /\ u = [f \in DOMAIN u |-> u[f]]
  BY <1>0
<1>4. CdevDel(o) = u
  BY DEF CdevDel, c
<1> HIDE DEF u
<1>3. u = [mem |-> u.mem, cdevRef |-> u.cdevRef, added |-> u.added,
           device |-> u.device, ref |-> u.ref, minor_off |-> u.minor_off]
  BY <1>2
<1> QED BY <1>1, <1>3, <1>4

\* kbuf_dev_release leaves at most the cdev.
LEMMA ReleaseRecord ==
  ASSUME NEW o \in Object
  PROVE  kbuf_dev_release(o) =
           [mem |-> o.mem \ (Ring \cup {"struct"}), cdevRef |-> o.cdevRef,
            added |-> o.added, device |-> o.device, ref |-> 0, minor_off |-> o.minor_off]
<1> DEFINE u == kbuf_dev_release(o)
<1>1. /\ u.mem = o.mem \ (Ring \cup {"struct"})
      /\ u.cdevRef = o.cdevRef /\ u.added = o.added /\ u.device = o.device
      /\ u.ref = 0 /\ u.minor_off = o.minor_off
  BY DEF kbuf_dev_release, Object
<1>2. /\ DOMAIN u = {"mem", "cdevRef", "added", "device", "ref", "minor_off"}
      /\ u = [f \in DOMAIN u |-> u[f]]
  BY DEF kbuf_dev_release, Object
<1> HIDE DEF u
<1>3. u = [mem |-> u.mem, cdevRef |-> u.cdevRef, added |-> u.added,
           device |-> u.device, ref |-> u.ref, minor_off |-> u.minor_off]
  BY <1>2
<1> QED BY <1>1, <1>3 DEF u

\* kref_get, kref_put.
LEMMA RefEffect ==
  ASSUME LifeType, NEW d \in Devs, NEW r,
         obj' = [obj EXCEPT ![d].ref = r]
  PROVE  Becomes(d, obj[d].mem, obj[d].cdevRef, obj[d].added, obj[d].device, r,
                 obj[d].minor_off)
<1> DEFINE o == [obj[d] EXCEPT !.ref = r]
<1>1. obj' = [obj EXCEPT ![d] = o]
  BY ObjRecord
<1>2. /\ o.mem = obj[d].mem /\ o.cdevRef = obj[d].cdevRef
      /\ o.added = obj[d].added /\ o.device = obj[d].device
      /\ o.ref = r /\ o.minor_off = obj[d].minor_off
  BY ObjRecord DEF Object
<1>3. /\ DOMAIN o = {"mem", "cdevRef", "added", "device", "ref", "minor_off"}
      /\ o = [f \in DOMAIN o |-> o[f]]
  BY ObjRecord DEF Object
<1> HIDE DEF o
<1>4. o = [mem |-> obj[d].mem, cdevRef |-> obj[d].cdevRef,
           added |-> obj[d].added, device |-> obj[d].device, ref |-> r,
           minor_off |-> obj[d].minor_off]
  BY <1>2, <1>3
<1> QED BY <1>1, <1>4, BecomesRecord

\* device_create, device_destroy.
LEMMA DeviceEffect ==
  ASSUME LifeType, NEW d \in Devs, NEW b,
         obj' = [obj EXCEPT ![d].device = b]
  PROVE  Becomes(d, obj[d].mem, obj[d].cdevRef, obj[d].added, b, obj[d].ref,
                 obj[d].minor_off)
<1> DEFINE o == [obj[d] EXCEPT !.device = b]
<1>1. obj' = [obj EXCEPT ![d] = o]
  BY ObjRecord
<1>2. /\ o.mem = obj[d].mem /\ o.cdevRef = obj[d].cdevRef
      /\ o.added = obj[d].added /\ o.device = b
      /\ o.ref = obj[d].ref /\ o.minor_off = obj[d].minor_off
  BY ObjRecord DEF Object
<1>3. /\ DOMAIN o = {"mem", "cdevRef", "added", "device", "ref", "minor_off"}
      /\ o = [f \in DOMAIN o |-> o[f]]
  BY ObjRecord DEF Object
<1> HIDE DEF o
<1>4. o = [mem |-> obj[d].mem, cdevRef |-> obj[d].cdevRef,
           added |-> obj[d].added, device |-> b, ref |-> obj[d].ref,
           minor_off |-> obj[d].minor_off]
  BY <1>2, <1>3
<1> QED BY <1>1, <1>4, BecomesRecord

-----------------------------------------------------------------------------
(* kbuf_init and kbuf_exit, beside which nothing else runs.                *)

\* Nobody is in the module or holds on to it.
Alone == \A p \in Procs : proc[p] = NoCall /\ buf[p] = NoBuf

\* A thread has the fields of its type.
LEMMA ProcRecord ==
  ASSUME LifeType, NEW p \in Procs
  PROVE  /\ proc[p] \in Thread
         /\ proc[p].pc \in ProcPc /\ proc[p].id \in Nat
         /\ proc[p].dev \in Devs \cup {NoDev}
         /\ proc[p].file \in Devs \cup {NoDev} /\ proc[p].icdev \in Devs \cup {NoDev}
         /\ proc[p].import \in Procs \cup {NoProc} /\ proc[p].held \subseteq Steps
         /\ proc \in [Procs -> Thread] /\ DOMAIN proc = Procs
BY DEF LifeType, Thread

\* What the module holds by step.
LEMMA ResAtIs ==
  /\ ResAt["out"] = {} /\ ResAt["array"] = {} /\ ResAt["region"] = {"array"}
  /\ ResAt["class"] = {"array", "region"}
  /\ \A l \in DevicePc \cup {"proc", "teardown"} : ResAt[l] = Globals
  /\ ResAt["pdev"] = Globals \cup Reports
  /\ \A l \in {"mask", "ctl", "drain", "reports"} : ResAt[l] = Globals \cup Reports \cup {"pdev"}
  /\ ResAt["live"] = ResType
<1>1. "out" \in LoadPc /\ ResAt["out"] = {} /\ "array" \in LoadPc /\ ResAt["array"] = {}
  BY DEF ResAt, LoadPc, InitPc
<1>2. ResAt["region"] = {"array"}
  BY DEF ResAt, LoadPc, InitPc
<1>3. ResAt["class"] = {"array", "region"}
  BY DEF ResAt, LoadPc, InitPc
<1>4. \A l \in DevicePc \cup {"proc", "teardown"} : ResAt[l] = Globals
  BY DEF ResAt, LoadPc, InitPc, DevicePc
<1>5. ResAt["pdev"] = Globals \cup Reports
  BY DEF ResAt, LoadPc, InitPc
<1>6. \A l \in {"mask", "ctl", "drain", "reports"} : ResAt[l] = Globals \cup Reports \cup {"pdev"}
  BY DEF ResAt, LoadPc, InitPc
<1>7. ResAt["live"] = ResType
  BY DEF ResAt, LoadPc, InitPc
<1> QED BY <1>1, <1>2, <1>3, <1>4, <1>5, <1>6, <1>7

\* A number is that of a static or of a dynamic device.
LEMMA TwoKinds == \A d \in Dynamic : d \in Devs /\ d \notin Static
BY LifeAssumption, SMT DEF Dynamic, Static, Devs

\* With no thread in a call and no dma-buf, only the list holds devices.
LEMMA ListedHolds ==
  ASSUME LifeInv, Alone, NEW d \in Dynamic
  PROVE  /\ Opened(d) = {} /\ Exported(d) = {} /\ Exporting(d) = {} /\ Inodes(d) = {}
         /\ Creating(d) = {} /\ Destroying(d) = {}
         /\ Registered(d) <=> d \in Listed
         /\ obj[d].ref = One(d \in Listed) /\ obj[d].cdevRef = One(obj[d].added)
<1>0. NoDev # d /\ d \in Devs
  BY NoDevNumber, TwoKinds
<1>1. /\ NoCall.pc = "idle" /\ NoCall.dev = NoDev /\ NoCall.file = NoDev
      /\ NoCall.icdev = NoDev /\ NoBuf.ref = 0 /\ NoBuf.dev = NoDev
  BY DEF NoCall, NoBuf
<1>2. /\ Opened(d) = {} /\ Exported(d) = {} /\ Exporting(d) = {} /\ Inodes(d) = {}
      /\ Creating(d) = {} /\ Destroying(d) = {}
  BY <1>0, <1>1 DEF Alone, Opened, Exported, Exporting, Inodes, Creating, Destroying
<1>3. Registered(d) <=> d \in Listed
  BY <1>2 DEF Registered
<1>4. obj[d].ref = One(d \in Listed)
  <2>1. obj[d].ref = One(Registered(d)) + Cardinality({}) + Cardinality({}) + Cardinality({})
    BY <1>2 DEF LifeInv, DynInv, Holders
  <2> QED BY <1>3, <2>1, CountNone, SMT DEF One
<1>5. obj[d].cdevRef = One(obj[d].added)
  <2>1. CdevOwned(d) <=> obj[d].added
    BY <1>2 DEF CdevOwned
  <2>2. obj[d].cdevRef = One(CdevOwned(d)) + Cardinality({})
    BY <1>2 DEF LifeInv, DynInv, CdevInv
  <2> QED BY <2>1, <2>2, CountNone, SMT DEF One
<1> QED BY <1>2, <1>3, <1>4, <1>5

\* A device no list, thread or dma-buf refers to fits when it holds nothing.
LEMMA EmptyDevice ==
  ASSUME NEW d \in Dynamic, ~Registered(d), Opened(d) = {}, Exported(d) = {}, Exporting(d) = {},
         Inodes(d) = {}, Creating(d) = {}, Destroying(d) = {}, d \notin Listed,
         obj[d].mem = {}, obj[d].cdevRef = 0, obj[d].added = FALSE, obj[d].device = FALSE,
         obj[d].ref = 0, d >= KBUF_MAX_NDEVICES + created => obj[d] = NoObj
  PROVE  DynInv(d)
<1>1. obj[d].ref = Holders(d)
  BY CountNone, SMT DEF Holders, One
<1>2. CdevInv(d)
  <2>1. ~CdevOwned(d)
    BY DEF CdevOwned
  <2> QED BY <2>1, CountNone, SMT DEF CdevInv, One
<1>3. OneOwner(d) /\ StageInv(d)
  BY DEF OneOwner, StageInv
<1>4. MemInv(d)
  BY SMT DEF MemInv
<1> QED BY <1>1, <1>2, <1>3, <1>4 DEF DynInv

\* Before the module is loaded.
LEMMA InitLife ==
  ASSUME Init
  PROVE  LifeInv
<1>0. /\ obj = [d \in Devs |-> NoObj]
      /\ kbuf_dyn_list = <<>> /\ kbuf_dyn_ida = {} /\ created = 0
      /\ proc = [p \in Procs |-> NoCall]
      /\ buf = [p \in Procs |-> NoBuf]
      /\ kbuf_ndevices = 0 /\ res = {}
      /\ load = [pc |-> "out", i |-> 0, n |-> 0]
  BY DEF Init
<1>1. /\ NoCall.pc = "idle" /\ NoCall.dev = NoDev /\ NoCall.file = NoDev /\ NoCall.id = 0
      /\ NoCall.icdev = NoDev /\ NoBuf.ref = 0 /\ NoBuf.dev = NoDev
      /\ NoCall.import = NoProc /\ NoCall.held = {} /\ NoBuf.fd = FALSE
  BY DEF NoCall, NoBuf
<1>2. /\ NoObj.mem = {} /\ NoObj.cdevRef = 0 /\ NoObj.added = FALSE /\ NoObj.device = FALSE
      /\ NoObj.ref = 0
  BY DEF NoObj
<1>3. Alone /\ \A d \in Devs : obj[d] = NoObj
  BY <1>0 DEF Alone
<1>4. LifeType
  <2>1. NoObj \in Object
    BY LifeAssumption, SMT DEF NoObj, Object, Ids
  <2>2. NoCall \in Thread
    BY DEF NoCall, Thread, ProcPc
  <2>3. NoBuf \in DmaBuf
    BY DEF NoBuf, DmaBuf
  <2>4. created \in 0..MaxCreates /\ kbuf_ndevices \in 0..KBUF_MAX_NDEVICES
    BY <1>0, LifeAssumption, SMT
  <2>5. load \in [pc : LoadPc, i : Nat, n : Nat]
    BY <1>0 DEF LoadPc
  <2>6. kbuf_dyn_list \in Seq(Dynamic) /\ kbuf_dyn_ida \subseteq Ids /\ res \subseteq ResType
    BY <1>0, SMT
  <2> QED BY <1>0, <2>1, <2>2, <2>3, <2>4, <2>5, <2>6 DEF LifeType
<1>5. Listed = {}
  BY <1>0, SMT DEF Listed, Range
<1>6. ASSUME NEW p \in Procs PROVE ProcInv(p) /\ BufInv(p)
  <2>1. proc[p] = NoCall /\ buf[p] = NoBuf
    BY <1>0
  <2>2. ProcInv(p)
    BY <1>1, <2>1, NoDevNumber DEF ProcInv, CtlPc, ImportPc, ExportPc, CreatePc, DestroyPc
  <2>3. Importing(p) = {}
    <3>1. \A q \in Procs : proc[q].import # p
      BY <1>0, <1>1, LifeAssumption
    <3> QED BY <3>1 DEF Importing
  <2>4. BufInv(p)
    BY <1>1, <2>1, <2>3, CountNone, SMT DEF BufInv, One
  <2> QED BY <2>2, <2>4
<1>7. ASSUME NEW d \in Devs
      PROVE  /\ Opened(d) = {} /\ Exported(d) = {} /\ Exporting(d) = {} /\ Inodes(d) = {}
             /\ Creating(d) = {} /\ Destroying(d) = {}
  <2>1. NoDev # d
    BY NoDevNumber
  <2> QED BY <1>1, <1>3, <2>1 DEF Alone, Opened, Exported, Exporting, Inodes, Creating, Destroying
<1>8. ASSUME NEW d \in Dynamic PROVE DynInv(d)
  <2>1. d \in Devs /\ obj[d] = NoObj
    BY <1>3, TwoKinds
  <2>2. d \notin Listed /\ ~Registered(d)
    BY <1>5, <1>7, <2>1 DEF Registered
  <2> QED BY <1>2, <1>7, <2>1, <2>2, EmptyDevice
<1>9. ASSUME NEW d \in Static PROVE StaticInv(d)
  <2>1. d \in Devs
    BY DEF Devs
  <2>2. None(d)
    BY <1>2, <1>3, <2>1 DEF None
  <2>3. obj[d].cdevRef = One(obj[d].added) + Cardinality(Inodes(d)) /\ obj[d].ref = 0
    BY <1>2, <1>3, <1>7, <2>1, CountNone, SMT DEF One
  <2>4. ~(d < kbuf_ndevices)
    BY <1>0, SMT DEF Static
  <2> QED BY <2>2, <2>3, <2>4 DEF StaticInv
<1>10. ASSUME NEW m \in Ids PROVE MinorInv(m)
  <2>1. \A d \in Dynamic : ~MinorOf(d, m)
    BY <1>2, <1>3, TwoKinds DEF MinorOf
  <2>2. \A p \in Procs : ~Pending(p, m)
    BY <1>0, <1>1 DEF Pending
  <2>3. m \notin kbuf_dyn_ida
    BY <1>0
  <2> QED BY <2>1, <2>2, <2>3 DEF MinorInv
<1>11. ListInv
  BY <1>0, SMT DEF ListInv
<1>12. LoadInv
  <2>1. load.pc = "out" /\ load.i = 0
    BY <1>0
  <2>2. "out" \notin DevicePc \cup {"teardown"} /\ res = ResAt["out"]
    BY <1>0, ResAtIs DEF DevicePc
  <2> QED BY <1>0, <1>3, <2>1, <2>2 DEF LoadInv, Alone
<1> QED BY <1>4, <1>6, <1>8, <1>9, <1>10, <1>11, <1>12 DEF LifeInv

\* The loop goes on or ends.
NextDevice ==
  load' = IF load.i + 1 < kbuf_ndevices
          THEN [load EXCEPT !.pc = "slots", !.i = @ + 1]
          ELSE [load EXCEPT !.pc = "proc"]

\* A device record, by its fields.
Record(mem, cdevRef, added, device, ref, minor_off) ==
  [mem |-> mem, cdevRef |-> cdevRef, added |-> added, device |-> device, ref |-> ref,
   minor_off |-> minor_off]

\* A device record with a part of its memory freed.
Undone(c, u) == [c EXCEPT !.mem = c.mem \ u]

\* A device record after kbuf_teardown_devices.
Torn(c) == [c EXCEPT !.device = FALSE, !.mem = @ \ Ring]

\* A device whose memory is m and that is otherwise as it was.
MemOnly(d, m) ==
  /\ obj'[d].mem = m /\ obj'[d].cdevRef = obj[d].cdevRef /\ obj'[d].added = obj[d].added
  /\ obj'[d].device = obj[d].device /\ obj'[d].ref = obj[d].ref
  /\ obj'[d].minor_off = obj[d].minor_off /\ obj'[d] \in Object

\* The struct device goes and with it the driver's reference to the cdev; the
\* last reference frees ring and struct.
Freed(c) == kbuf_dev_release(CdevDel([c EXCEPT !.device = FALSE]))

\* Every step of insmod and rmmod keeps LifeInv: kbuf_init, its error paths,
\* kbuf_exit and the drain of kbuf_ctl_unregister. First what the steps have in
\* common, then one step of the proof for each action.
LEMMA LoadSteps ==
  LifeInv /\ (LoadStep \/ (\E n \in NdevicesReqs : kbuf_init(n)) \/ kbuf_exit) => LifeInv'
\* kbuf_ctl_unregister takes the first element off.
<1>TailList.
      ASSUME NEW D, NEW s \in Seq(D), s # <<>>,
             \A j, k \in DOMAIN s : s[j] = s[k] => j = k
      PROVE  /\ Head(s) \in D /\ Head(s) \in Range(s)
             /\ Tail(s) \in Seq(D)
             /\ Range(Tail(s)) = Range(s) \ {Head(s)}
             /\ \A j, k \in DOMAIN Tail(s) : Tail(s)[j] = Tail(s)[k] => j = k
  <2> USE <1>TailList
  <2> DEFINE t == Tail(s)
  <2>1. /\ t \in Seq(D) /\ Len(t) = Len(s) - 1
        /\ \A j \in 1..Len(t) : t[j] = s[j + 1]
        /\ Head(s) = s[1] /\ Len(s) \in Nat /\ Len(s) > 0 /\ 1 \in DOMAIN s
    BY SMT
  <2> HIDE DEF t
  <2>2. Range(t) = Range(s) \ {s[1]}
    <3>1. ASSUME NEW j \in DOMAIN t PROVE t[j] \in Range(s) \ {s[1]}
      <4>1. j + 1 \in DOMAIN s /\ j + 1 # 1 /\ t[j] = s[j + 1]
        BY <2>1, SMT
      <4> QED BY <2>1, <4>1 DEF Range
    <3>2. ASSUME NEW j \in DOMAIN s, j # 1 PROVE s[j] \in Range(t)
      <4>1. j - 1 \in DOMAIN t /\ t[j - 1] = s[j]
        BY <2>1, <3>2, SMT
      <4> QED BY <4>1 DEF Range
    <3> QED BY <3>1, <3>2, SMT DEF Range
  <2>3. ASSUME NEW j \in DOMAIN t, NEW k \in DOMAIN t, t[j] = t[k] PROVE j = k
    <3>1. j + 1 \in DOMAIN s /\ k + 1 \in DOMAIN s /\ t[j] = s[j + 1] /\ t[k] = s[k + 1]
      BY <2>1, SMT
    <3>2. j + 1 = k + 1
      BY <2>3, <3>1
    <3> QED BY <2>1, <3>2, SMT
  <2>4. Head(s) \in D /\ Head(s) \in Range(s)
    BY <2>1, SMT DEF Range
  <2> QED BY <2>1, <2>2, <2>3, <2>4 DEF t

\* An allocation of kbuf_init.
<1>MemEffect.
      ASSUME LifeType, NEW d \in Devs, NEW m,
             obj' = [obj EXCEPT ![d].mem = m]
      PROVE  Becomes(d, m, obj[d].cdevRef, obj[d].added, obj[d].device, obj[d].ref,
                     obj[d].minor_off)
  <2> USE <1>MemEffect
  <2> DEFINE o == [obj[d] EXCEPT !.mem = m]
  <2>1. obj' = [obj EXCEPT ![d] = o]
    BY ObjRecord
  <2>2. /\ o.mem = m /\ o.cdevRef = obj[d].cdevRef
        /\ o.added = obj[d].added /\ o.device = obj[d].device
        /\ o.ref = obj[d].ref /\ o.minor_off = obj[d].minor_off
    BY ObjRecord DEF Object
  <2>3. /\ DOMAIN o = {"mem", "cdevRef", "added", "device", "ref", "minor_off"}
        /\ o = [f \in DOMAIN o |-> o[f]]
    BY ObjRecord DEF Object
  <2> HIDE DEF o
  <2>4. o = [mem |-> m, cdevRef |-> obj[d].cdevRef, added |-> obj[d].added,
             device |-> obj[d].device, ref |-> obj[d].ref,
             minor_off |-> obj[d].minor_off]
    BY <2>2, <2>3
  <2> QED BY <2>1, <2>4, BecomesRecord

\* cdev_add of a static device.
<1>AddEffect.
      ASSUME LifeType, NEW d \in Devs, NEW b, NEW r,
             obj' = [obj EXCEPT ![d].added = b, ![d].cdevRef = r]
      PROVE  Becomes(d, obj[d].mem, r, b, obj[d].device, obj[d].ref,
                     obj[d].minor_off)
  <2> USE <1>AddEffect
  <2> DEFINE o == [obj[d] EXCEPT !.added = b, !.cdevRef = r]
  <2>1. obj' = [obj EXCEPT ![d] = o]
    BY ObjRecord
  <2>2. /\ o.mem = obj[d].mem /\ o.cdevRef = r
        /\ o.added = b /\ o.device = obj[d].device
        /\ o.ref = obj[d].ref /\ o.minor_off = obj[d].minor_off
    BY ObjRecord DEF Object
  <2>3. /\ DOMAIN o = {"mem", "cdevRef", "added", "device", "ref", "minor_off"}
        /\ o = [f \in DOMAIN o |-> o[f]]
    BY ObjRecord DEF Object
  <2> HIDE DEF o
  <2>4. o = [mem |-> obj[d].mem, cdevRef |-> r, added |-> b,
             device |-> obj[d].device, ref |-> obj[d].ref,
             minor_off |-> obj[d].minor_off]
    BY <2>2, <2>3
  <2> QED BY <2>1, <2>4, BecomesRecord

\* A step of the loading thread that leaves the dynamic devices alone.
<1>LoadKeeps.
      ASSUME LifeInv, Alone, UNCHANGED <<dynVars, proc, buf>>,
             obj' \in [Devs -> Object], \A d \in Dynamic : obj'[d] = obj[d],
             kbuf_ndevices' \in 0..KBUF_MAX_NDEVICES, res' \subseteq ResType,
             load' \in [pc : LoadPc, i : Nat, n : Nat],
             \A d \in Static : StaticInv(d)', LoadInv'
      PROVE  LifeInv'
  <2> USE <1>LoadKeeps
  <2>0. LifeType /\ ListInv
    BY DEF LifeInv
  <2>1. LifeType' /\ ListInv'
    BY <2>0 DEF LifeType, ListInv, dynVars
  <2>2. ASSUME NEW p \in Procs PROVE ProcInv(p)' /\ BufInv(p)'
    <3>1. /\ proc'[p] = NoCall /\ buf'[p] = NoBuf /\ BufInv(p) /\ NoDev \notin Static
          /\ Importing(p)' = Importing(p) /\ proc' = proc /\ buf' = buf
      BY NoDevNumber DEF Alone, LifeInv, Importing
    <3>2. ProcInv(p)'
      BY <3>1, SMT DEF ProcInv, NoCall, CtlPc, ImportPc, ExportPc, CreatePc, DestroyPc
    <3>3. BufInv(p)'
      <4>1. buf[p] = NoBuf /\ NoBuf.ref = 0
        BY DEF Alone, NoBuf
      <4> QED BY <3>1, <4>1 DEF BufInv
    <3> QED BY <3>2, <3>3
  <2>3. ASSUME NEW d \in Dynamic PROVE DynInv(d)'
    <3>1. /\ Opened(d)' = Opened(d) /\ Exported(d)' = Exported(d) /\ Exporting(d)' = Exporting(d)
          /\ Inodes(d)' = Inodes(d) /\ Creating(d)' = Creating(d)
          /\ Destroying(d)' = Destroying(d) /\ Listed' = Listed
      BY DEF Opened, Exported, Exporting, Inodes, Creating, Destroying, Listed, dynVars
    <3>2. (Registered(d)' <=> Registered(d)) /\ obj'[d] = obj[d] /\ DynInv(d) /\ created' = created
      BY <3>1 DEF Registered, LifeInv, dynVars
    <3>3. (obj[d].ref = Holders(d))'
      <4>1. One(Registered(d))' = One(Registered(d))
        BY <3>2 DEF One
      <4> QED BY <3>1, <3>2, <4>1 DEF DynInv, Holders
    <3>4. CdevInv(d)'
      <4>1. CdevOwned(d)' <=> CdevOwned(d)
        BY <3>1, <3>2 DEF CdevOwned
      <4>2. One(CdevOwned(d))' = One(CdevOwned(d))
        BY <4>1 DEF One
      <4> QED BY <3>1, <3>2, <4>2 DEF DynInv, CdevInv
    <3>5. OneOwner(d)' /\ MemInv(d)'
      BY <3>1, <3>2 DEF DynInv, OneOwner, MemInv
    <3>6. StageInv(d)'
      BY <3>1, <3>2 DEF DynInv, StageInv
    <3> QED BY <3>2, <3>3, <3>4, <3>5, <3>6 DEF DynInv
  <2>4. ASSUME NEW m \in Ids PROVE MinorInv(m)'
    <3>1. MinorInv(m) /\ kbuf_dyn_ida' = kbuf_dyn_ida
      BY DEF LifeInv, dynVars
    <3>2. \A d \in Dynamic : MinorOf(d, m)' <=> MinorOf(d, m)
      BY DEF MinorOf
    <3>3. \A p \in Procs : Pending(p, m)' <=> Pending(p, m)
      BY DEF Pending
    <3> QED BY <3>1, <3>2, <3>3 DEF MinorInv
  <2> QED BY <2>1, <2>2, <2>3, <2>4 DEF LifeInv

\* Beside the loading thread there is nobody until the module is live.
<1>LoadAlone.
      ASSUME LifeInv, load.pc # "live"
      PROVE  Alone /\ LifeType /\ LoadInv
  BY <1>LoadAlone DEF LifeInv, LoadInv, Alone

\* The record of the loading thread.
<1>LoadRecord.
      ASSUME LifeType
      PROVE  /\ load.pc \in LoadPc /\ load.i \in Nat /\ load.n \in Nat
             /\ \A l \in LoadPc : /\ [load EXCEPT !.pc = l] \in [pc : LoadPc, i : Nat, n : Nat]
                                  /\ [load EXCEPT !.pc = l].pc = l
                                  /\ [load EXCEPT !.pc = l].i = load.i
                                  /\ [load EXCEPT !.pc = l].n = load.n
  BY <1>LoadRecord DEF LifeType

\* All static devices are complete and stay so.
<1>ReadyMoves.
      ASSUME LifeInv, Alone, UNCHANGED <<obj, dynVars, proc, buf, kbuf_ndevices>>,
             load.pc \in ReadyPc, NEW l \in ReadyPc, load' = [load EXCEPT !.pc = l],
             res' = ResAt[l], l \notin {"live", "drain"} => kbuf_dyn_list = <<>>
      PROVE  LifeInv'
  <2> USE <1>ReadyMoves
  <2>0. LifeType /\ LoadInv
    BY DEF LifeInv
  <2>1. l \in LoadPc /\ load.pc # "out"
    BY DEF ReadyPc, LoadPc, InitPc
  <2>2. load' \in [pc : LoadPc, i : Nat, n : Nat] /\ load'.pc = l
    BY <2>0, <2>1, <1>LoadRecord
  <2>3. res' \subseteq ResType
    BY ResAtIs, SMT DEF ReadyPc, Globals, Reports, ResType
  <2>4. LoadInv'
    <3>1. /\ load'.pc \notin {"out", "array", "region", "class", "teardown"} /\ load'.pc \notin DevicePc
      BY <2>2 DEF ReadyPc, DevicePc
    <3>2. kbuf_ndevices > 0
      BY <2>0, <2>1 DEF LoadInv
    <3>3. kbuf_dyn_list' = kbuf_dyn_list
      BY DEF dynVars
    <3> QED BY <2>2, <3>1, <3>2, <3>3 DEF LoadInv, Alone
  <2>5. ASSUME NEW d \in Static PROVE StaticInv(d)'
    <3>1. StaticInv(d) /\ Inodes(d)' = Inodes(d)
      BY DEF LifeInv, Inodes
    <3>2. load.pc \notin {"out", "array"} /\ load'.pc \notin {"out", "array"}
      BY <2>2 DEF ReadyPc
    <3>3. load'.pc \notin {"region", "class", "teardown"} /\ load'.pc \notin DevicePc
      BY <2>2 DEF ReadyPc, DevicePc
    <3>4. /\ d >= kbuf_ndevices => None(d)'
          /\ d < kbuf_ndevices => Full(d)'
      BY <3>1 DEF StaticInv, None, Full
    <3>5. (obj[d].cdevRef = One(obj[d].added) + Cardinality(Inodes(d)) /\ obj[d].ref = 0)'
      BY <3>1 DEF StaticInv
    <3> QED BY <3>2, <3>3, <3>4, <3>5 DEF StaticInv
  <2>6. obj' \in [Devs -> Object] /\ kbuf_ndevices' \in 0..KBUF_MAX_NDEVICES
    BY <2>0 DEF LifeType
  <2> QED BY <2>2, <2>3, <2>4, <2>5, <2>6, <1>LoadKeeps

\* All of them are to be torn down.
<1>ReadyDown.
      ASSUME LifeInv, Alone, UNCHANGED <<obj, dynVars, proc, buf, kbuf_ndevices>>,
             load.pc \in ReadyPc, kbuf_dyn_list = <<>>, res' = Globals,
             load' = [pc |-> "teardown", i |-> 0, n |-> kbuf_ndevices]
      PROVE  LifeInv'
  <2> USE <1>ReadyDown
  <2>0. LifeType /\ LoadInv /\ kbuf_ndevices \in 0..KBUF_MAX_NDEVICES
    BY DEF LifeInv, LifeType
  <2>1. /\ load' \in [pc : LoadPc, i : Nat, n : Nat] /\ load'.pc = "teardown"
        /\ load'.i = 0 /\ load'.n = kbuf_ndevices
    BY <2>0, LifeAssumption, SMT DEF LoadPc
  <2>2. res' \subseteq ResType /\ res' = ResAt["teardown"]
    BY ResAtIs DEF Globals, ResType
  <2>3. LoadInv'
    <3>1. kbuf_ndevices > 0
      BY <2>0 DEF LoadInv, ReadyPc
    <3>2. kbuf_dyn_list' = kbuf_dyn_list
      BY DEF dynVars
    <3>3. load'.i <= load'.n /\ load'.n <= kbuf_ndevices'
      BY <2>0, <2>1, LifeAssumption, SMT
    <3>4. load'.pc \notin {"out", "array", "region", "class", "live"} /\ load'.pc \notin DevicePc
      BY <2>1 DEF DevicePc
    <3> QED BY <2>1, <2>2, <3>1, <3>2, <3>3, <3>4 DEF LoadInv, Alone
  <2>4. ASSUME NEW d \in Static PROVE StaticInv(d)'
    <3>1. StaticInv(d) /\ Inodes(d)' = Inodes(d)
      BY DEF LifeInv, Inodes
    <3>2. load.pc \notin {"out", "array"} /\ load'.pc \notin {"out", "array", "region", "class"}
      BY <2>1 DEF ReadyPc
    <3>3. load'.pc \notin ReadyPc /\ load'.pc \notin DevicePc
      BY <2>1 DEF ReadyPc, DevicePc
    <3>4. /\ d >= kbuf_ndevices => None(d)'
          /\ d < kbuf_ndevices => Full(d)'
      BY <3>1 DEF StaticInv, None, Full
    <3>5. (obj[d].cdevRef = One(obj[d].added) + Cardinality(Inodes(d)) /\ obj[d].ref = 0)'
      BY <3>1 DEF StaticInv
    <3>6. d < kbuf_ndevices => d \in load'.i..(load'.n - 1)
      BY <2>0, <2>1, LifeAssumption, SMT DEF Static
    <3> QED BY <3>2, <3>3, <3>4, <3>5, <3>6 DEF StaticInv
  <2>5. obj' \in [Devs -> Object] /\ kbuf_ndevices' \in 0..KBUF_MAX_NDEVICES
    BY <2>0 DEF LifeType
  <2> QED BY <2>1, <2>2, <2>3, <2>4, <2>5, <1>LoadKeeps

\* insmod.
<1>KbufInit.
      ASSUME LifeInv, NEW n, kbuf_init(n)
      PROVE  LifeInv'
  <2> USE <1>KbufInit
  <2>0. /\ load.pc = "out" /\ n \in 1..KBUF_MAX_NDEVICES /\ kbuf_ndevices' = n
        /\ load' = [load EXCEPT !.pc = "array"] /\ UNCHANGED <<obj, dynVars, proc, buf, res>>
    BY DEF kbuf_init, At, Goto
  <2>1. Alone /\ LifeType /\ LoadInv
    BY <2>0, <1>LoadAlone
  <2>2. "array" \in LoadPc
    BY DEF LoadPc, InitPc
  <2>3. load' \in [pc : LoadPc, i : Nat, n : Nat] /\ load'.pc = "array" /\ load'.i = load.i
    BY <2>0, <2>1, <2>2, <1>LoadRecord
  <2>4. kbuf_ndevices' \in 0..KBUF_MAX_NDEVICES /\ kbuf_ndevices' > 0
    BY <2>0, LifeAssumption, SMT
  <2>5. res' \subseteq ResType /\ obj' \in [Devs -> Object]
    BY <2>0, <2>1 DEF LifeType
  <2>6. LoadInv'
    <3>1. res' = ResAt["array"]
      BY <2>0, <2>1, ResAtIs DEF LoadInv
    <3>2. kbuf_dyn_list' = <<>> /\ load'.i = 0
      BY <2>0, <2>1, <2>3 DEF LoadInv, dynVars
    <3>3. load'.pc # "teardown" /\ load'.pc \notin DevicePc
      BY <2>3 DEF DevicePc
    <3> QED BY <2>0, <2>1, <2>3, <2>4, <3>1, <3>2, <3>3 DEF LoadInv, Alone
  <2>7. ASSUME NEW d \in Static PROVE StaticInv(d)'
    <3>1. StaticInv(d) /\ Inodes(d)' = Inodes(d)
      BY <2>0 DEF LifeInv, Inodes
    <3>2. None(d)' /\ load'.pc \notin {"region", "class", "teardown"} \cup DevicePc \cup ReadyPc
      BY <2>0, <2>3, <3>1 DEF StaticInv, None, DevicePc, ReadyPc
    <3>3. (obj[d].cdevRef = One(obj[d].added) + Cardinality(Inodes(d)) /\ obj[d].ref = 0)'
      BY <2>0, <3>1 DEF StaticInv
    <3> QED BY <3>2, <3>3 DEF StaticInv
  <2> QED BY <2>0, <2>1, <2>3, <2>4, <2>5, <2>6, <2>7, <1>LoadKeeps

\* /proc, debugfs and the importer's platform device.
<1>InitReports.
      ASSUME LifeInv, kbuf_init_reports
      PROVE  LifeInv'
  <2> USE <1>InitReports
  <2>0. /\ load.pc = "proc" /\ res' = res \cup {"proc", "debugfs"}
        /\ load' = [load EXCEPT !.pc = "pdev"]
        /\ UNCHANGED <<obj, dynVars, proc, buf, kbuf_ndevices>>
    BY DEF kbuf_init_reports, At, Goto
  <2>1. Alone /\ LoadInv
    BY <2>0, <1>LoadAlone
  <2>2. load.pc \in ReadyPc /\ "pdev" \in ReadyPc
    BY <2>0 DEF ReadyPc
  <2>3. res = Globals /\ kbuf_dyn_list = <<>>
    BY <2>0, <2>1, ResAtIs DEF LoadInv
  <2>4. res' = ResAt["pdev"]
    BY <2>0, <2>3, ResAtIs DEF Reports
  <2> QED BY <2>0, <2>1, <2>2, <2>3, <2>4, <1>ReadyMoves

\* err_dmabuf and err_ctl, and the same in kbuf_exit: devices and globals are
\* all that is left.
<1>GivesUp.
      ASSUME LifeInv, load.pc \in {"pdev", "mask", "ctl", "reports"},
             DropReports(kbuf_dmabuf_exit(res)),
             UNCHANGED <<obj, dynVars, proc, buf, kbuf_ndevices>>
      PROVE  LifeInv'
  <2> USE <1>GivesUp
  <2>1. Alone /\ LoadInv /\ kbuf_dyn_list = <<>> /\ load.pc \in ReadyPc
    BY <1>LoadAlone DEF LoadInv, ReadyPc
  <2>2. res = Globals \cup Reports \/ res = Globals \cup Reports \cup {"pdev"}
    BY <2>1, ResAtIs DEF LoadInv
  <2>3. res' = Globals
    BY <2>2 DEF DropReports, kbuf_dmabuf_exit, Globals, Reports
  <2>4. load' = [pc |-> "teardown", i |-> 0, n |-> kbuf_ndevices]
    BY DEF DropReports
  <2> QED BY <2>1, <2>3, <2>4, <1>ReadyDown

\* kbuf_dmabuf_init registers the importer's device, or fails.
<1>DmabufInit.
      ASSUME LifeInv, kbuf_dmabuf_init
      PROVE  LifeInv'
  <2> USE <1>DmabufInit
  <2>0. UNCHANGED <<obj, dynVars, proc, buf, kbuf_ndevices>>
    BY DEF kbuf_dmabuf_init
  <2>1. CASE load.pc = "pdev" /\ res' = res \cup {"pdev"} /\ load' = [load EXCEPT !.pc = "mask"]
    <3>1. Alone /\ LoadInv
      BY <2>1, <1>LoadAlone
    <3>2. load.pc \in ReadyPc /\ "mask" \in ReadyPc
      BY <2>1 DEF ReadyPc
    <3>3. res = Globals \cup Reports /\ kbuf_dyn_list = <<>>
      BY <2>1, <3>1, ResAtIs DEF LoadInv
    <3>4. res' = ResAt["mask"]
      BY <2>1, <3>3, ResAtIs
    <3> QED BY <2>0, <2>1, <3>1, <3>2, <3>3, <3>4, <1>ReadyMoves
  <2>2. CASE load.pc = "mask" /\ res' = res /\ load' = [load EXCEPT !.pc = "ctl"]
    <3>1. Alone /\ LoadInv
      BY <2>2, <1>LoadAlone
    <3>2. load.pc \in ReadyPc /\ "ctl" \in ReadyPc
      BY <2>2 DEF ReadyPc
    <3>3. res = ResAt["ctl"] /\ kbuf_dyn_list = <<>>
      BY <2>2, <3>1, ResAtIs DEF LoadInv
    <3> QED BY <2>0, <2>2, <3>1, <3>2, <3>3, <1>ReadyMoves
  <2>3. CASE load.pc \in {"pdev", "mask"} /\ DropReports(kbuf_dmabuf_exit(res))
    <3>1. load.pc \in {"pdev", "mask", "ctl", "reports"}
      BY <2>3
    <3> QED BY <2>0, <2>3, <3>1, <1>GivesUp
  <2> QED BY <2>1, <2>2, <2>3 DEF kbuf_dmabuf_init, At, Goto

\* The control device, with which the module is live.
<1>CtlRegister.
      ASSUME LifeInv, kbuf_ctl_register
      PROVE  LifeInv'
  <2> USE <1>CtlRegister
  <2>0. UNCHANGED <<obj, dynVars, proc, buf, kbuf_ndevices>> /\ load.pc = "ctl"
    BY DEF kbuf_ctl_register, At
  <2>1. CASE res' = res \cup {"ctl"} /\ load' = [load EXCEPT !.pc = "live"]
    <3>1. Alone /\ LoadInv
      BY <2>0, <1>LoadAlone
    <3>2. load.pc \in ReadyPc /\ "live" \in ReadyPc
      BY <2>0 DEF ReadyPc
    <3>3. res = Globals \cup Reports \cup {"pdev"} /\ kbuf_dyn_list = <<>>
      BY <2>0, <3>1, ResAtIs DEF LoadInv
    <3>4. res' = ResType
      BY <2>1, <3>3 DEF Globals, Reports, ResType
    <3>5. res' = ResAt["live"]
      BY <3>4, ResAtIs
    <3> QED BY <2>0, <2>1, <3>1, <3>2, <3>3, <3>5, <1>ReadyMoves
  <2>2. CASE DropReports(kbuf_dmabuf_exit(res))
    <3>1. load.pc \in {"pdev", "mask", "ctl", "reports"}
      BY <2>0
    <3> QED BY <2>0, <2>2, <3>1, <1>GivesUp
  <2> QED BY <2>1, <2>2 DEF kbuf_ctl_register, Goto

\* A thread that the module does not count is outside of it.
<1>Uncounted.
      ASSUME LifeInv, ModuleRefs = {}
      PROVE  Alone
  <2> USE <1>Uncounted
  <2> SUFFICES ASSUME NEW p \in Procs PROVE proc[p] = NoCall /\ buf[p] = NoBuf
    BY DEF Alone
  <2>0. LifeType /\ ProcInv(p) /\ BufInv(p)
    BY DEF LifeInv
  <2>1. proc[p].icdev = NoDev /\ proc[p].pc \notin CtlPc /\ ~(buf[p].ref > 0)
    BY DEF ModuleRefs
  <2>2. proc[p] \in Thread /\ proc[p].pc \in ProcPc
    BY <2>0, ProcRecord
  <2>3. proc[p].pc \notin {"opened", "release"} \cup ImportPc \cup ExportPc
    BY <2>0, <2>1 DEF ProcInv
  <2>4. proc[p].pc \notin {"open", "cdev_put"}
    BY <2>0, <2>1 DEF ProcInv
  <2>5. proc[p].pc = "idle"
    BY <2>1, <2>2, <2>3, <2>4 DEF ProcPc
  <2>6. /\ proc[p].dev = NoDev /\ proc[p].id = 0 /\ proc[p].file = NoDev
        /\ proc[p].import = NoProc /\ proc[p].held = {}
    <3>1. "idle" \in {"idle"} \cup CtlPc /\ "idle" \notin ImportPc
      BY DEF ImportPc
    <3> QED BY <2>0, <2>1, <2>5, <3>1 DEF ProcInv
  <2>7. proc[p] = NoCall
    BY <2>1, <2>2, <2>5, <2>6 DEF Thread, NoCall
  <2>8. buf[p] = NoBuf
    <3>1. buf[p].ref \in Nat
      BY <2>0 DEF LifeType, DmaBuf
    <3>2. buf[p].ref = 0
      BY <2>1, <3>1, SMT
    <3> QED BY <2>0, <3>2 DEF BufInv
  <2> QED BY <2>7, <2>8

\* rmmod.
<1>KbufExit.
      ASSUME LifeInv, kbuf_exit
      PROVE  LifeInv'
  <2> USE <1>KbufExit
  <2>0. /\ load.pc = "live" /\ ModuleRefs = {} /\ res' = res \ {"ctl"}
        /\ load' = [load EXCEPT !.pc = "drain"]
        /\ UNCHANGED <<obj, dynVars, proc, buf, kbuf_ndevices>>
    BY DEF kbuf_exit, At, Goto
  <2>1. Alone /\ LoadInv
    BY <2>0, <1>Uncounted DEF LifeInv
  <2>2. load.pc \in ReadyPc /\ "drain" \in ReadyPc
    BY <2>0 DEF ReadyPc
  <2>3. res = ResType
    BY <2>0, <2>1, ResAtIs DEF LoadInv
  <2>4. res' = Globals \cup Reports \cup {"pdev"}
    BY <2>0, <2>3 DEF Globals, Reports, ResType
  <2>5. res' = ResAt["drain"]
    BY <2>4, ResAtIs
  <2> QED BY <2>0, <2>1, <2>2, <2>5, <1>ReadyMoves

\* kbuf_exit removes the reports and the importer's device.
<1>ExitReports.
      ASSUME LifeInv, kbuf_exit_reports
      PROVE  LifeInv'
  <2> USE <1>ExitReports
  <2>1. /\ load.pc \in {"pdev", "mask", "ctl", "reports"}
        /\ DropReports(kbuf_dmabuf_exit(res))
        /\ UNCHANGED <<obj, dynVars, proc, buf, kbuf_ndevices>>
    BY DEF kbuf_exit_reports, At
  <2> QED BY <2>1, <1>GivesUp

\* A device number below kbuf_ndevices is that of a static device.
<1>StaticNumber.
      ASSUME LifeType, NEW i \in Nat, i < kbuf_ndevices
      PROVE  i \in Static /\ i \in Devs /\ i \notin Dynamic
  BY <1>StaticNumber, LifeAssumption, SMT DEF LifeType, Static, Dynamic, Devs

\* No inode refers to a cdev when nobody is there.
<1>NoInodes.
      ASSUME Alone, NEW d \in Devs
      PROVE  Inodes(d) = {} /\ Cardinality(Inodes(d)) = 0
  <2> USE <1>NoInodes
  <2>1. \A p \in Procs : proc[p].icdev = NoDev
    <3>1. NoCall.icdev = NoDev
      BY DEF NoCall
    <3> QED BY <3>1 DEF Alone
  <2>2. d # NoDev
    BY NoDevNumber
  <2>3. Inodes(d) = {}
    BY <2>1, <2>2 DEF Inodes
  <2> QED BY <2>3, CountNone

\* The loading thread works on one static device: no other changes, and the
\* cdevs are counted.
<1>OneDevice.
      ASSUME LifeInv, Alone, NEW i \in Static, i \in Devs, i \notin Dynamic,
             NEW mem, mem \subseteq Parts, NEW c, NEW a \in BOOLEAN, NEW v \in BOOLEAN, c = One(a),
             Becomes(i, mem, c, a, v, obj[i].ref, obj[i].minor_off), proc' = proc
      PROVE  /\ obj' \in [Devs -> Object] /\ \A d \in Devs \ {i} : obj'[d] = obj[d]
             /\ \A d \in Dynamic : obj'[d] = obj[d]
             /\ obj'[i].mem = mem /\ obj'[i].added = a /\ obj'[i].device = v
             /\ \A d \in Static : (/\ obj[d].cdevRef = One(obj[d].added) + Cardinality(Inodes(d))
                                   /\ obj[d].ref = 0)'
  <2> USE <1>OneDevice
  <2>0. LifeType /\ \A d \in Static : StaticInv(d)
    BY DEF LifeInv
  <2>1. obj[i].ref \in Nat /\ obj[i].minor_off \in Ids
    BY <2>0, ObjRecord
  <2>2. c \in Nat
    BY DEF One
  <2>3. obj' \in [Devs -> Object] /\ \A d \in Devs \ {i} : obj'[d] = obj[d]
    BY <2>1, <2>2 DEF Becomes
  <2>4. /\ obj'[i].mem = mem /\ obj'[i].cdevRef = c /\ obj'[i].added = a
        /\ obj'[i].device = v /\ obj'[i].ref = obj[i].ref
    BY DEF Becomes
  <2>5. \A d \in Dynamic : obj'[d] = obj[d]
    BY <2>3 DEF Devs
  <2>6. ASSUME NEW d \in Static
        PROVE  (/\ obj[d].cdevRef = One(obj[d].added) + Cardinality(Inodes(d))
                /\ obj[d].ref = 0)'
    <3>1. Inodes(d)' = Inodes(d) /\ StaticInv(d)
      BY <2>0 DEF Inodes
    <3>2. CASE d = i
      <4>1. Cardinality(Inodes(d)) = 0
        BY <3>2, <1>NoInodes
      <4>2. Cardinality(Inodes(d)') = 0
        BY <3>1, <4>1
      <4>3. obj'[d].ref = 0 /\ obj'[d].cdevRef = One(a) /\ obj'[d].added = a
        BY <2>4, <3>1, <3>2 DEF StaticInv
      <4> QED BY <4>2, <4>3, SMT DEF One
    <3>3. CASE d # i
      <4>1. obj'[d] = obj[d]
        BY <2>3, <3>3 DEF Devs
      <4> QED BY <3>1, <4>1 DEF StaticInv
    <3> QED BY <3>2, <3>3
  <2> QED BY <2>3, <2>4, <2>5, <2>6

\* The next stage of the device that kbuf_init is making.
<1>DeviceGoes.
      ASSUME LifeInv, load.pc \in DevicePc, NEW i, i = load.i, NEW l \in DevicePc,
             load' = [load EXCEPT !.pc = l],
             NEW a \in BOOLEAN, NEW c, c = One(a), a <=> l = "device",
             Becomes(i, InitMem[l], c, a, FALSE, obj[i].ref, obj[i].minor_off),
             UNCHANGED <<dynVars, proc, buf, kbuf_ndevices, res>>
      PROVE  LifeInv'
  <2> USE <1>DeviceGoes
  <2>0. load.pc \notin {"live", "drain", "out", "array", "region", "class", "teardown"}
    BY DEF DevicePc
  <2>1. Alone /\ LifeType /\ LoadInv
    BY <2>0, <1>LoadAlone
  <2>2. l \in LoadPc /\ l \notin {"live", "drain", "out", "array", "region", "class", "teardown"}
        /\ l \notin ReadyPc
    BY DEF DevicePc, LoadPc, InitPc, ReadyPc
  <2>3. load' \in [pc : LoadPc, i : Nat, n : Nat] /\ load'.pc = l /\ load'.i = i /\ i \in Nat
    BY <2>1, <2>2, <1>LoadRecord
  <2>4. i < kbuf_ndevices /\ kbuf_ndevices > 0 /\ kbuf_dyn_list = <<>> /\ res = Globals
    BY <2>0, <2>1, ResAtIs DEF LoadInv
  <2>5. i \in Static /\ i \in Devs /\ i \notin Dynamic
    BY <2>1, <2>3, <2>4, <1>StaticNumber
  <2>6. InitMem[l] \subseteq Parts
    BY SMT DEF InitMem, DevicePc, Parts, Ring
  <2>7. /\ obj' \in [Devs -> Object] /\ \A d \in Devs \ {i} : obj'[d] = obj[d]
        /\ \A d \in Dynamic : obj'[d] = obj[d]
        /\ obj'[i].mem = InitMem[l] /\ obj'[i].added = a /\ obj'[i].device = FALSE
        /\ \A d \in Static : (/\ obj[d].cdevRef = One(obj[d].added) + Cardinality(Inodes(d))
                              /\ obj[d].ref = 0)'
    BY <2>1, <2>5, <2>6, <1>OneDevice
  <2>8. ASSUME NEW d \in Static PROVE StaticInv(d)'
    <3>1. StaticInv(d) /\ d \in Int /\ kbuf_ndevices \in Int
      BY <2>1, SMT DEF LifeInv, Static, LifeType
    <3>2. CASE d = i
      <4>1. Half(d)'
        BY <2>3, <2>7, <3>2 DEF Half
      <4>2. ~(d >= kbuf_ndevices) /\ ~(d < i)
        BY <2>3, <2>4, <3>1, <3>2, SMT
      <4> QED BY <2>2, <2>3, <2>7, <3>2, <4>1, <4>2 DEF StaticInv
    <3>3. CASE d # i
      <4>1. obj'[d] = obj[d]
        BY <2>7, <3>3 DEF Devs
      <4>2. /\ d >= kbuf_ndevices => None(d)'
            /\ d < kbuf_ndevices => IF d < i THEN Full(d)' ELSE Bare(d)'
        BY <3>1, <3>3, <4>1 DEF StaticInv, None, Full, Bare
      <4> QED BY <2>2, <2>3, <2>7, <3>3, <4>2 DEF StaticInv
    <3> QED BY <3>2, <3>3
  <2>9. LoadInv'
    <3>1. res' = ResAt[l] /\ kbuf_dyn_list' = <<>>
      BY <2>4, ResAtIs DEF dynVars
    <3> QED BY <2>1, <2>2, <2>3, <2>4, <3>1 DEF LoadInv, Alone
  <2>10. kbuf_ndevices' \in 0..KBUF_MAX_NDEVICES /\ res' \subseteq ResType
    BY <2>1 DEF LifeType
  <2> QED BY <2>1, <2>3, <2>7, <2>8, <2>9, <2>10, <1>LoadKeeps

\* The loading thread comes to step l of device k.
<1>LoadStepRecord.
      ASSUME LifeType, NEW l \in LoadPc, NEW k \in Nat, load' = [load EXCEPT !.pc = l, !.i = k]
      PROVE  /\ load' \in [pc : LoadPc, i : Nat, n : Nat]
             /\ load'.pc = l /\ load'.i = k /\ load'.n = load.n
  <2> USE <1>LoadStepRecord
  <2> DEFINE x == [load EXCEPT !.pc = l, !.i = k]
  <2>1. load \in [pc : LoadPc, i : Nat, n : Nat]
    BY DEF LifeType
  <2>2. x \in [pc : LoadPc, i : Nat, n : Nat] /\ x.pc = l /\ x.i = k /\ x.n = load.n
    BY <2>1
  <2>3. load' = x
    OBVIOUS
  <2> HIDE DEF x
  <2> QED BY <2>2, <2>3

\* It is complete; the next one, or /proc.
<1>DeviceDone.
      ASSUME LifeInv, load.pc = "device", NEW i, i = load.i,
             NextDevice,
             Becomes(i, obj[i].mem, obj[i].cdevRef, obj[i].added, TRUE, obj[i].ref, obj[i].minor_off),
             UNCHANGED <<dynVars, proc, buf, kbuf_ndevices, res>>
      PROVE  LifeInv'
  <2> USE <1>DeviceDone
  <2>1. Alone /\ LifeType /\ LoadInv
    BY <1>LoadAlone
  <2>2. i < kbuf_ndevices /\ kbuf_ndevices > 0 /\ kbuf_dyn_list = <<>> /\ res = Globals
    BY <2>1, ResAtIs DEF LoadInv, DevicePc
  <2>3. i \in Nat /\ kbuf_ndevices \in Nat
    BY <2>1, <1>LoadRecord, SMT DEF LifeType
  <2>4. i \in Static /\ i \in Devs /\ i \notin Dynamic
    BY <2>1, <2>2, <2>3, <1>StaticNumber
  <2>5. obj[i].mem = Ring \cup {"struct"} /\ obj[i].added /\ obj[i].mem \subseteq Parts
    <3>1. ~(i < i) /\ StaticInv(i)
      BY <2>3, <2>4, SMT DEF LifeInv
    <3>2. Half(i)
      BY <2>2, <3>1 DEF StaticInv, DevicePc
    <3>3. InitMem["device"] = Ring \cup {"struct"}
      BY DEF InitMem
    <3> QED BY <3>2, <3>3 DEF Half, Parts
  <2>6. obj[i].added = TRUE /\ obj[i].cdevRef = One(TRUE)
    <3>1. obj[i].added \in BOOLEAN /\ obj[i].cdevRef = One(obj[i].added) + Cardinality(Inodes(i))
      BY <2>1, <2>4, ObjRecord DEF LifeInv, StaticInv
    <3>2. Cardinality(Inodes(i)) = 0
      BY <2>1, <2>4, <1>NoInodes
    <3> QED BY <2>5, <3>1, <3>2, SMT DEF One
  <2>7. /\ obj' \in [Devs -> Object] /\ \A d \in Devs \ {i} : obj'[d] = obj[d]
        /\ \A d \in Dynamic : obj'[d] = obj[d]
        /\ obj'[i].mem = obj[i].mem /\ obj'[i].added = TRUE /\ obj'[i].device = TRUE
        /\ \A d \in Static : (/\ obj[d].cdevRef = One(obj[d].added) + Cardinality(Inodes(d))
                              /\ obj[d].ref = 0)'
    <3>1. Becomes(i, obj[i].mem, One(TRUE), TRUE, TRUE, obj[i].ref, obj[i].minor_off)
      BY <2>6
    <3> QED BY <2>1, <2>4, <2>5, <3>1, <1>OneDevice
  <2>8. Full(i)'
    BY <2>5, <2>7 DEF Full
  <2>9. ASSUME NEW d \in Static, d # i
        PROVE  /\ d >= kbuf_ndevices => None(d)'
               /\ d < kbuf_ndevices => IF d < i THEN Full(d)' ELSE Bare(d)'
    <3>1. obj'[d] = obj[d] /\ StaticInv(d)
      BY <2>7, <2>9 DEF Devs, LifeInv
    <3> QED BY <2>9, <3>1 DEF StaticInv, None, Full, Bare, DevicePc
  <2>10. kbuf_ndevices' \in 0..KBUF_MAX_NDEVICES /\ res' \subseteq ResType
    BY <2>1 DEF LifeType
  <2>11. CASE i + 1 < kbuf_ndevices
    <3>1. load'.pc = "slots" /\ load'.i = i + 1 /\ load' \in [pc : LoadPc, i : Nat, n : Nat]
      <4>1. "slots" \in LoadPc /\ i + 1 \in Nat
        BY <2>3, SMT DEF LoadPc, InitPc
      <4>2. load' = [load EXCEPT !.pc = "slots", !.i = i + 1]
        BY <2>11 DEF NextDevice
      <4> QED BY <2>1, <4>1, <4>2, <1>LoadStepRecord
    <3>2. ASSUME NEW d \in Static PROVE StaticInv(d)'
      <4>1. InitMem["slots"] = {"struct"}
        BY DEF InitMem
      <4>2. Bare(d)' <=> Half(d)'
        BY <3>1, <4>1 DEF Bare, Half
      <4>3. d \in Int
        BY SMT DEF Static
      <4>4. /\ d >= kbuf_ndevices => None(d)'
            /\ d < kbuf_ndevices => IF d < i + 1 THEN Full(d)'
                                    ELSE IF d = i + 1 THEN Half(d)' ELSE Bare(d)'
        <5>1. CASE d = i
          BY <2>2, <2>3, <2>8, <5>1, SMT
        <5>2. CASE d # i
          <6>1. d < i + 1 <=> d < i
            BY <2>3, <4>3, <5>2, SMT
          <6> QED BY <2>9, <4>2, <5>2, <6>1
        <5> QED BY <5>1, <5>2
      <4> QED BY <2>7, <3>1, <4>4 DEF StaticInv, DevicePc, ReadyPc
    <3>3. LoadInv'
      <4>1. res' = ResAt["slots"] /\ kbuf_dyn_list' = <<>>
        BY <2>2, ResAtIs DEF dynVars, DevicePc
      <4> QED BY <2>1, <2>2, <2>11, <3>1, <4>1 DEF LoadInv, Alone, DevicePc
    <3> QED BY <2>1, <2>7, <2>10, <3>1, <3>2, <3>3, <1>LoadKeeps
  <2>12. CASE ~(i + 1 < kbuf_ndevices)
    <3>1. load'.pc = "proc" /\ load' \in [pc : LoadPc, i : Nat, n : Nat]
      <4>1. "proc" \in LoadPc
        BY DEF LoadPc, InitPc
      <4>2. load' = [load EXCEPT !.pc = "proc"]
        BY <2>12 DEF NextDevice
      <4> QED BY <2>1, <4>1, <4>2, <1>LoadRecord
    <3>2. ASSUME NEW d \in Static PROVE StaticInv(d)'
      <4>1. d \in Int
        BY SMT DEF Static
      <4>2. /\ d >= kbuf_ndevices => None(d)'
            /\ d < kbuf_ndevices => Full(d)'
        <5>1. CASE d = i
          BY <2>2, <2>3, <2>8, <5>1, SMT
        <5>2. CASE d # i
          <6>1. d < kbuf_ndevices => d < i
            BY <2>3, <2>12, <4>1, <5>2, SMT
          <6> QED BY <2>9, <5>2, <6>1
        <5> QED BY <5>1, <5>2
      <4> QED BY <2>7, <3>1, <4>2 DEF StaticInv, DevicePc, ReadyPc
    <3>3. LoadInv'
      <4>1. res' = ResAt["proc"] /\ kbuf_dyn_list' = <<>>
        BY <2>2, ResAtIs DEF dynVars
      <4> QED BY <2>1, <2>2, <3>1, <4>1 DEF LoadInv, Alone, DevicePc
    <3> QED BY <2>1, <2>7, <2>10, <3>1, <3>2, <3>3, <1>LoadKeeps
  <2> QED BY <2>11, <2>12

\* The device that kbuf_init is making.
<1>Underway.
      ASSUME LifeInv, load.pc \in DevicePc, NEW i, i = load.i
      PROVE  /\ Alone /\ LifeType /\ LoadInv /\ i \in Static /\ i \in Devs /\ i \notin Dynamic
             /\ i \in Nat /\ i < kbuf_ndevices /\ obj[i] \in Object
             /\ obj[i].mem = InitMem[load.pc] /\ obj[i].device = FALSE
             /\ obj[i].added = (load.pc = "device") /\ obj[i].cdevRef = One(load.pc = "device")
  <2> USE <1>Underway
  <2>0. load.pc \notin {"live", "out"}
    BY DEF DevicePc
  <2>1. Alone /\ LifeType /\ LoadInv
    BY <2>0, <1>LoadAlone
  <2>2. i \in Nat /\ i < kbuf_ndevices
    BY <2>1, <1>LoadRecord DEF LoadInv
  <2>3. i \in Static /\ i \in Devs /\ i \notin Dynamic
    BY <2>1, <2>2, <1>StaticNumber
  <2>4. ~(i < i) /\ StaticInv(i)
    BY <2>2, <2>3, SMT DEF LifeInv
  <2>5. Half(i)
    BY <2>2, <2>4 DEF StaticInv
  <2>6. obj[i] \in Object /\ obj[i].device \in BOOLEAN /\ obj[i].added \in BOOLEAN
    BY <2>1, <2>3, ObjRecord
  <2>7. obj[i].cdevRef = One(obj[i].added) + Cardinality(Inodes(i)) /\ Cardinality(Inodes(i)) = 0
    BY <2>1, <2>3, <2>4, <1>NoInodes DEF StaticInv
  <2>8. obj[i].mem = InitMem[load.pc] /\ ~obj[i].device /\ (obj[i].added <=> load.pc = "device")
    BY <2>5 DEF Half
  <2>9. obj[i].device = FALSE /\ obj[i].added = (load.pc = "device")
    BY <2>6, <2>8
  <2>10. obj[i].cdevRef = One(load.pc = "device")
    BY <2>7, <2>8, SMT DEF One
  <2> QED BY <2>1, <2>2, <2>3, <2>6, <2>8, <2>9, <2>10

\* The loop body of kbuf_init.
<1>InitDevice.
      ASSUME LifeInv, kbuf_init_device
      PROVE  LifeInv'
  <2> USE <1>InitDevice
  <2> DEFINE i == load.i
  <2>0. UNCHANGED <<dynVars, proc, buf, kbuf_ndevices, res>> /\ i = load.i
    BY DEF kbuf_init_device
  <2>1. CASE /\ load.pc \in DOMAIN Stage
             /\ obj' = [obj EXCEPT ![load.i].mem = @ \cup {load.pc}]
             /\ load' = [load EXCEPT !.pc = Stage[load.pc]]
    <3> DEFINE l == Stage[load.pc]
               m == obj[i].mem \cup {load.pc}
    <3>1. load.pc \in {"slots", "ctrl", "data"} /\ load.pc \in DevicePc
      BY <2>1 DEF Stage, DevicePc
    <3>2. l \in DevicePc /\ l # "device"
      BY <3>1, SMT DEF Stage, DevicePc
    <3>3. /\ LifeType /\ i \in Devs /\ obj[i].mem = InitMem[load.pc] /\ obj[i].device = FALSE
          /\ obj[i].added = (load.pc = "device") /\ obj[i].cdevRef = One(load.pc = "device")
      BY <2>0, <3>1, <1>Underway
    <3>4. m = InitMem[l]
      BY <3>1, <3>3, SMT DEF InitMem, Stage, Ring
    <3>5. obj[i].added = FALSE /\ obj[i].cdevRef = One(FALSE)
      BY <3>1, <3>3 DEF One
    <3>6. obj' = [obj EXCEPT ![i].mem = m] /\ load' = [load EXCEPT !.pc = l]
      BY <2>1
    <3> HIDE DEF i, l, m
    <3>7. Becomes(i, m, obj[i].cdevRef, obj[i].added, obj[i].device, obj[i].ref, obj[i].minor_off)
      BY <3>3, <3>6, <1>MemEffect
    <3>8. Becomes(i, InitMem[l], One(FALSE), FALSE, FALSE, obj[i].ref, obj[i].minor_off)
      BY <3>3, <3>4, <3>5, <3>7
    <3> QED BY <2>0, <3>1, <3>2, <3>6, <3>8, <1>DeviceGoes
  <2>2. CASE /\ load.pc = "add"
             /\ obj' = [obj EXCEPT ![load.i].added = TRUE, ![load.i].cdevRef = 1]
             /\ load' = [load EXCEPT !.pc = "device"]
    <3>1. load.pc \in DevicePc /\ "device" \in DevicePc
      BY <2>2 DEF DevicePc
    <3>2. LifeType /\ i \in Devs /\ obj[i].mem = InitMem[load.pc] /\ obj[i].device = FALSE
      BY <2>0, <3>1, <1>Underway
    <3>3. InitMem["add"] = InitMem["device"] /\ One(TRUE) = 1
      BY DEF InitMem, One
    <3>4. obj' = [obj EXCEPT ![i].added = TRUE, ![i].cdevRef = 1]
      BY <2>2
    <3> HIDE DEF i
    <3>5. Becomes(i, obj[i].mem, 1, TRUE, obj[i].device, obj[i].ref, obj[i].minor_off)
      BY <3>2, <3>4, <1>AddEffect
    <3>6. Becomes(i, InitMem["device"], One(TRUE), TRUE, FALSE, obj[i].ref, obj[i].minor_off)
      BY <2>2, <3>2, <3>3, <3>5
    <3> QED BY <2>0, <2>2, <3>1, <3>6, <1>DeviceGoes
  <2>3. CASE /\ load.pc = "device"
             /\ obj' = [obj EXCEPT ![load.i].device = TRUE]
             /\ NextDevice
    <3>1. load.pc \in DevicePc
      BY <2>3 DEF DevicePc
    <3>2. LifeType /\ i \in Devs
      BY <2>0, <3>1, <1>Underway
    <3>3. obj' = [obj EXCEPT ![i].device = TRUE] /\ load.pc = "device" /\ NextDevice
      BY <2>3
    <3> HIDE DEF i
    <3>4. Becomes(i, obj[i].mem, obj[i].cdevRef, obj[i].added, TRUE, obj[i].ref, obj[i].minor_off)
      BY <3>2, <3>3, DeviceEffect
    <3> QED BY <2>0, <3>3, <3>4, <1>DeviceDone
  <2> QED BY <2>1, <2>2, <2>3 DEF kbuf_init_device, At, Goto, NextDevice

\* A device is bare again: the one that kbuf_init gives up, or the next one
\* that is torn down. Those from k to n - 1 are complete.
<1>DeviceUndone.
      ASSUME LifeInv, load.pc \in DevicePc \cup {"teardown"}, NEW i, i = load.i,
             NEW k \in Nat, NEW n \in Nat, i \in Static, i \in Devs, i \notin Dynamic,
             load' \in [pc : LoadPc, i : Nat, n : Nat],
             load'.pc = "teardown", load'.i = k, load'.n = n, k <= n, n <= kbuf_ndevices,
             i < kbuf_ndevices, i \notin k..(n - 1),
             \A d \in Static \ {i} : d < kbuf_ndevices =>
                                       IF d \in k..(n - 1) THEN Full(d) ELSE Bare(d),
             Becomes(i, {"struct"}, 0, FALSE, FALSE, obj[i].ref, obj[i].minor_off),
             UNCHANGED <<dynVars, proc, buf, kbuf_ndevices, res>>
      PROVE  LifeInv'
  <2> USE <1>DeviceUndone
  <2>0. load.pc \notin {"live", "drain", "out", "array", "region", "class"}
    BY DEF DevicePc
  <2>1. Alone /\ LifeType /\ LoadInv
    BY <2>0, <1>LoadAlone
  <2>2. kbuf_ndevices > 0 /\ kbuf_dyn_list = <<>> /\ res = Globals
    BY <2>0, <2>1, ResAtIs DEF LoadInv
  <2>3. {"struct"} \subseteq Parts /\ One(FALSE) = 0
    BY DEF Parts, One
  <2>4. /\ obj' \in [Devs -> Object] /\ \A d \in Devs \ {i} : obj'[d] = obj[d]
        /\ \A d \in Dynamic : obj'[d] = obj[d]
        /\ obj'[i].mem = {"struct"} /\ obj'[i].added = FALSE /\ obj'[i].device = FALSE
        /\ \A d \in Static : (/\ obj[d].cdevRef = One(obj[d].added) + Cardinality(Inodes(d))
                              /\ obj[d].ref = 0)'
    <3>1. Becomes(i, {"struct"}, One(FALSE), FALSE, FALSE, obj[i].ref, obj[i].minor_off)
      BY <2>3
    <3> QED BY <2>1, <2>3, <3>1, <1>OneDevice
  <2>5. "teardown" \notin {"out", "array", "region", "class"} \cup DevicePc \cup ReadyPc
    BY DEF DevicePc, ReadyPc
  <2>6. ASSUME NEW d \in Static PROVE StaticInv(d)'
    <3>1. /\ d >= kbuf_ndevices => None(d)'
          /\ d < kbuf_ndevices => IF d \in k..(n - 1) THEN Full(d)' ELSE Bare(d)'
      <4>1. CASE d = i
        <5>1. Bare(d)'
          BY <2>4, <4>1 DEF Bare
        <5>2. ~(d >= kbuf_ndevices)
          BY <2>1, <4>1, SMT DEF Static, LifeType
        <5> QED BY <4>1, <5>1, <5>2
      <4>2. CASE d # i
        <5>1. obj'[d] = obj[d] /\ StaticInv(d)
          BY <2>4, <4>2 DEF Devs, LifeInv
        <5>2. d >= kbuf_ndevices => None(d)
          BY <5>1 DEF StaticInv
        <5>3. d < kbuf_ndevices => IF d \in k..(n - 1) THEN Full(d) ELSE Bare(d)
          BY <4>2
        <5> QED BY <5>1, <5>2, <5>3 DEF None, Full, Bare
      <4> QED BY <4>1, <4>2
    <3> QED BY <2>4, <2>5, <3>1 DEF StaticInv
  <2>7. LoadInv'
    <3>1. res' = ResAt["teardown"] /\ kbuf_dyn_list' = <<>>
      BY <2>2, ResAtIs DEF dynVars
    <3> QED BY <2>1, <2>2, <2>5, <3>1 DEF LoadInv, Alone
  <2>8. kbuf_ndevices' \in 0..KBUF_MAX_NDEVICES /\ res' \subseteq ResType
    BY <2>1 DEF LifeType
  <2> QED BY <2>1, <2>4, <2>6, <2>7, <2>8, <1>LoadKeeps

\* A device record, by its fields.
<1>ObjectFields.
      ASSUME NEW c \in Object
      PROVE  c = Record(c.mem, c.cdevRef, c.added, c.device, c.ref, c.minor_off)
  BY <1>ObjectFields DEF Object, Record

\* cdev_del of a device that no inode holds.
<1>CdevDelLast.
      ASSUME NEW c \in Object, c.cdevRef = 1
      PROVE  CdevDel(c) = Record(c.mem \ {"cdev"}, 0, FALSE, c.device, c.ref, c.minor_off)
  <2> USE <1>CdevDelLast
  <2>1. CdevDel(c) = [mem |-> IF c.cdevRef = 1 THEN c.mem \ {"cdev"} ELSE c.mem,
                      cdevRef |-> c.cdevRef - 1, added |-> FALSE,
                      device |-> c.device, ref |-> c.ref, minor_off |-> c.minor_off]
    BY CdevDelRecord
  <2> QED BY <2>1, SMT DEF Record

\* A device loses a part of its memory.
<1>BecomesUndone.
      ASSUME LifeType, NEW d \in Devs, NEW c, NEW u, obj' = [obj EXCEPT ![d] = Undone(c, u)],
             NEW mem, NEW cdevRef, NEW added, NEW device, NEW ref, NEW minor_off,
             c = Record(mem, cdevRef, added, device, ref, minor_off)
      PROVE  Becomes(d, mem \ u, cdevRef, added, device, ref, minor_off)
  <2> USE <1>BecomesUndone
  <2> DEFINE o == Undone(c, u)
             m == mem \ u
  <2>1. o = [mem |-> m, cdevRef |-> cdevRef, added |-> added, device |-> device,
             ref |-> ref, minor_off |-> minor_off]
    BY SMT DEF Undone, Record
  <2>2. obj' = [obj EXCEPT ![d] = o]
    BY SMT
  <2> HIDE DEF o, m
  <2>3. Becomes(d, m, cdevRef, added, device, ref, minor_off)
    BY <2>1, <2>2, BecomesRecord
  <2> QED BY <2>3 DEF m

\* A failing step of kbuf_init undoes its own device.
<1>InitDeviceFail.
      ASSUME LifeInv, kbuf_init_device_fail
      PROVE  LifeInv'
  <2> USE <1>InitDeviceFail
  <2> DEFINE i == load.i
             c == IF load.pc = "device" THEN CdevDel(obj[i]) ELSE obj[i]
             u == InitUndo[load.pc]
  <2>0. /\ load.pc \in DevicePc /\ obj' = [obj EXCEPT ![i] = Undone(c, u)]
        /\ load' = [pc |-> "teardown", i |-> 0, n |-> i] /\ i = load.i
        /\ UNCHANGED <<dynVars, proc, buf, kbuf_ndevices, res>>
    BY DEF kbuf_init_device_fail, At, InitUndo, DevicePc, Undone
  <2>1. /\ Alone /\ LifeType /\ LoadInv /\ i \in Static /\ i \in Devs /\ i \notin Dynamic
        /\ i \in Nat /\ i < kbuf_ndevices /\ obj[i] \in Object
        /\ obj[i].mem = InitMem[load.pc] /\ obj[i].device = FALSE
        /\ obj[i].added = (load.pc = "device") /\ obj[i].cdevRef = One(load.pc = "device")
    BY <2>0, <1>Underway
  <2>2. c = Record(obj[i].mem \ {"cdev"}, 0, FALSE, FALSE, obj[i].ref, obj[i].minor_off)
    <3>0. c = IF load.pc = "device" THEN CdevDel(obj[i]) ELSE obj[i]
      BY SMT
    <3> HIDE DEF c, u
    <3>1. CASE load.pc = "device"
      <4>1. obj[i].cdevRef = 1
        BY <2>1, <3>1 DEF One
      <4>2. c = Record(obj[i].mem \ {"cdev"}, 0, FALSE, obj[i].device, obj[i].ref,
                       obj[i].minor_off)
        BY <2>1, <3>0, <3>1, <4>1, <1>CdevDelLast
      <4> QED BY <2>1, <4>2
    <3>2. CASE load.pc # "device"
      <4>1. c = obj[i]
        BY <3>0, <3>2
      <4>2. obj[i].added = FALSE /\ obj[i].cdevRef = 0
        BY <2>1, <3>2 DEF One
      <4>3. obj[i].mem \ {"cdev"} = obj[i].mem
        BY <2>0, <2>1, <3>2, SMT DEF InitMem, DevicePc, Ring
      <4>4. c = Record(obj[i].mem, 0, FALSE, FALSE, obj[i].ref, obj[i].minor_off)
        BY <2>1, <4>1, <4>2, <1>ObjectFields
      <4> QED BY <4>3, <4>4
    <3> QED BY <3>1, <3>2
  <2>8. (obj[i].mem \ {"cdev"}) \ u = {"struct"}
    BY <2>0, <2>1, SMT DEF InitUndo, InitMem, DevicePc, Ring
  <2> HIDE DEF c, u, i
  <2>3. Becomes(i, {"struct"}, 0, FALSE, FALSE, obj[i].ref, obj[i].minor_off)
    <3>1. Becomes(i, (obj[i].mem \ {"cdev"}) \ u, 0, FALSE, FALSE, obj[i].ref, obj[i].minor_off)
      BY <2>0, <2>1, <2>2, <1>BecomesUndone
    <3> QED BY <2>8, <3>1
  <2>4. ASSUME NEW d \in Static \ {i}, d < kbuf_ndevices
        PROVE  IF d \in 0..(i - 1) THEN Full(d) ELSE Bare(d)
    <3>1. IF d < i THEN Full(d) ELSE Bare(d)
      BY <2>0, <2>4 DEF LifeInv, StaticInv
    <3>2. d \in 0..(i - 1) <=> d < i
      BY <2>1, SMT DEF Static
    <3> QED BY <3>1, <3>2
  <2>5. /\ load' \in [pc : LoadPc, i : Nat, n : Nat]
        /\ load'.pc = "teardown" /\ load'.i = 0 /\ load'.n = i
    BY <2>0, <2>1 DEF LoadPc
  <2>6. 0 <= i /\ i <= kbuf_ndevices /\ i \notin 0..(i - 1) /\ 0 \in Nat
    BY <2>1, SMT DEF LifeType
  <2>7. load.pc \in DevicePc \cup {"teardown"}
    BY <2>0
  <2> QED BY <2>0, <2>1, <2>3, <2>4, <2>5, <2>6, <2>7, <1>DeviceUndone

\* A device loses its device node and its ring.
<1>BecomesTorn.
      ASSUME LifeType, NEW d \in Devs, NEW c, obj' = [obj EXCEPT ![d] = Torn(c)],
             NEW mem, NEW cdevRef, NEW added, NEW device, NEW ref, NEW minor_off,
             c = Record(mem, cdevRef, added, device, ref, minor_off)
      PROVE  Becomes(d, mem \ Ring, cdevRef, added, FALSE, ref, minor_off)
  <2> USE <1>BecomesTorn
  <2> DEFINE o == Torn(c)
             m == mem \ Ring
             f == FALSE
  <2>1. o = [c EXCEPT !.device = f, !.mem = c.mem \ Ring] /\ obj' = [obj EXCEPT ![d] = o]
    BY DEF Torn
  <2> HIDE DEF o, f
  <2>2. o = [mem |-> m, cdevRef |-> cdevRef, added |-> added, device |-> f,
             ref |-> ref, minor_off |-> minor_off]
    BY <2>1 DEF Record
  <2> HIDE DEF m
  <2>3. Becomes(d, m, cdevRef, added, f, ref, minor_off)
    BY <2>1, <2>2, BecomesRecord
  <2> QED BY <2>3 DEF m, f

\* kbuf_teardown_devices takes the next device down.
<1>TeardownDevice.
      ASSUME LifeInv, kbuf_teardown_devices
      PROVE  LifeInv'
  <2> USE <1>TeardownDevice
  <2> DEFINE i == load.i
             n == load.n
             c == CdevDel(obj[i])
             k == load.i + 1
  <2>0. /\ load.pc = "teardown" /\ i < n /\ obj' = [obj EXCEPT ![i] = Torn(c)]
        /\ load' = [load EXCEPT !.pc = "teardown", !.i = k] /\ i = load.i /\ n = load.n
        /\ UNCHANGED <<dynVars, proc, buf, kbuf_ndevices, res>>
    <3>1. /\ load.pc = "teardown" /\ i < n /\ obj' = [obj EXCEPT ![i] = Torn(c)]
          /\ load' = [load EXCEPT !.i = @ + 1]
          /\ UNCHANGED <<dynVars, proc, buf, kbuf_ndevices, res>>
      BY DEF kbuf_teardown_devices, At, Torn
    <3>2. load \in [pc : LoadPc, i : Nat, n : Nat]
      BY DEF LifeInv, LifeType
    <3>3. load' = [load EXCEPT !.pc = "teardown", !.i = k]
      BY <3>1, <3>2
    <3> QED BY <3>1, <3>3
  <2>1. Alone /\ LifeType /\ LoadInv
    <3>1. load.pc # "live"
      BY <2>0
    <3> QED BY <3>1, <1>LoadAlone
  <2>2. /\ i \in Nat /\ n \in Nat /\ k \in Nat /\ n <= kbuf_ndevices /\ i < kbuf_ndevices
        /\ k <= n /\ i \notin k..(n - 1) /\ i \in i..(n - 1)
    <3>1. n <= kbuf_ndevices
      BY <2>0, <2>1 DEF LoadInv
    <3> QED BY <2>0, <2>1, <3>1, SMT DEF LifeType
  <2>3. i \in Static /\ i \in Devs /\ i \notin Dynamic
    BY <2>1, <2>2, <1>StaticNumber
  <2>4. Full(i) /\ StaticInv(i)
    <3>1. StaticInv(i)
      BY <2>3 DEF LifeInv
    <3> QED BY <2>0, <2>2, <3>1 DEF StaticInv
  <2>5. obj[i] \in Object /\ obj[i].cdevRef = 1
    <3>1. obj[i].cdevRef = One(obj[i].added) + Cardinality(Inodes(i)) /\ obj[i].added
      BY <2>4 DEF StaticInv, Full
    <3>2. Cardinality(Inodes(i)) = 0 /\ obj[i] \in Object
      BY <2>1, <2>3, <1>NoInodes DEF LifeType
    <3> QED BY <3>1, <3>2, SMT DEF One
  <2>6. c = Record(obj[i].mem \ {"cdev"}, 0, FALSE, obj[i].device, obj[i].ref, obj[i].minor_off)
    BY <2>5, <1>CdevDelLast
  <2>7. (obj[i].mem \ {"cdev"}) \ Ring = {"struct"}
    BY <2>4 DEF Full, Ring
  <2>a. /\ load' \in [pc : LoadPc, i : Nat, n : Nat]
        /\ load'.pc = "teardown" /\ load'.i = k /\ load'.n = load.n
    <3>1. "teardown" \in LoadPc
      BY DEF LoadPc
    <3> HIDE DEF k
    <3> QED BY <2>0, <2>1, <2>2, <3>1, <1>LoadStepRecord
  <2>9. ASSUME NEW d \in Static \ {i}, d < kbuf_ndevices
        PROVE  IF d \in k..(n - 1) THEN Full(d) ELSE Bare(d)
    <3>1. IF d \in i..(n - 1) THEN Full(d) ELSE Bare(d)
      BY <2>0, <2>9 DEF LifeInv, StaticInv
    <3>2. d \in k..(n - 1) <=> d \in i..(n - 1)
      BY <2>2, <2>9, SMT DEF Static
    <3> QED BY <3>1, <3>2
  <2> HIDE DEF c, i, n, k
  <2>8. Becomes(i, {"struct"}, 0, FALSE, FALSE, obj[i].ref, obj[i].minor_off)
    <3>1. Becomes(i, (obj[i].mem \ {"cdev"}) \ Ring, 0, FALSE, FALSE, obj[i].ref, obj[i].minor_off)
      BY <2>0, <2>1, <2>3, <2>6, <1>BecomesTorn
    <3> QED BY <2>7, <3>1
  <2>b. load'.n = n
    BY <2>0, <2>a
  <2>c. load.pc \in DevicePc \cup {"teardown"}
    BY <2>0
  <2> QED BY <2>0, <2>1, <2>2, <2>3, <2>8, <2>9, <2>a, <2>b, <2>c, <1>DeviceUndone

\* A device record with other memory.
<1>MemRecord.
      ASSUME NEW d, NEW c \in Object, c = obj[d], NEW m \in SUBSET Parts,
             obj'[d] = [c EXCEPT !.mem = m]
      PROVE  MemOnly(d, m)
  <2> USE <1>MemRecord
  <2> DEFINE o == obj'[d]
  <2>0. o = [c EXCEPT !.mem = m]
    BY SMT
  <2> HIDE DEF o
  <2>1. /\ o \in Object /\ o.mem = m /\ o.cdevRef = c.cdevRef /\ o.added = c.added
        /\ o.device = c.device /\ o.ref = c.ref /\ o.minor_off = c.minor_off
    BY <2>0 DEF Object
  <2> QED BY <2>1 DEF MemOnly, o

\* ReleaseGlobals frees the struct of every static device.
<1>StructsGo.
      ASSUME LifeType, ReleaseGlobals
      PROVE  /\ obj' \in [Devs -> Object] /\ \A d \in Dynamic : obj'[d] = obj[d]
             /\ \A d \in Static : MemOnly(d, obj[d].mem \ {"struct"})
  <2> USE <1>StructsGo
  <2>1. obj' = [d \in Devs |-> IF d \in Static THEN [obj[d] EXCEPT !.mem = obj[d].mem \ {"struct"}]
                                               ELSE obj[d]]
    BY DEF ReleaseGlobals
  <2>2. ASSUME NEW d \in Static PROVE MemOnly(d, obj[d].mem \ {"struct"})
    <3>1. d \in Devs
      BY DEF Devs
    <3> DEFINE c == obj[d]
               m == obj[d].mem \ {"struct"}
    <3>2. obj'[d] = [c EXCEPT !.mem = m]
      BY <2>1, <3>1
    <3>3. c \in Object /\ c = obj[d] /\ m \in SUBSET Parts
      BY <3>1 DEF LifeType, Object
    <3> HIDE DEF c, m
    <3>4. MemOnly(d, m)
      BY <3>2, <3>3, <1>MemRecord
    <3> QED BY <3>4 DEF m
  <2>3. \A d \in Dynamic : obj'[d] = obj[d]
    BY <2>1, TwoKinds
  <2>4. \A d \in Devs : obj'[d] \in Object
    BY <2>2, <2>3 DEF LifeType, Devs, MemOnly
  <2>5. obj' \in [Devs -> Object]
    <3>1. obj' = [d \in Devs |-> obj'[d]]
      BY <2>1
    <3> QED BY <2>4, <3>1
  <2> QED BY <2>2, <2>3, <2>5

\* The end of kbuf_exit, and of a kbuf_init that failed.
<1>GlobalsGo.
      ASSUME LifeInv, load.pc \in {"array", "region", "class", "teardown"},
             load.pc = "teardown" => load.i = load.n, ReleaseGlobals,
             UNCHANGED <<dynVars, proc, buf, kbuf_ndevices>>
      PROVE  LifeInv'
  <2> USE <1>GlobalsGo
  <2>1. Alone /\ LifeType /\ LoadInv
    <3>1. load.pc # "live"
      BY SMT
    <3> QED BY <3>1, <1>LoadAlone
  <2>2. /\ obj' \in [Devs -> Object] /\ \A d \in Dynamic : obj'[d] = obj[d]
        /\ \A d \in Static : MemOnly(d, obj[d].mem \ {"struct"})
    BY <2>1, <1>StructsGo
  <2>3. /\ load' \in [pc : LoadPc, i : Nat, n : Nat]
        /\ load'.pc = "out" /\ load'.i = 0
    <3>1. load' = [pc |-> "out", i |-> 0, n |-> 0]
      BY DEF ReleaseGlobals
    <3> QED BY <3>1 DEF LoadPc
  <2>4. ASSUME NEW d \in Static PROVE obj[d].mem \subseteq {"struct"} /\ ~obj[d].added /\ ~obj[d].device
    <3>1. StaticInv(d)
      BY DEF LifeInv
    <3>2. load.pc = "teardown" => ~(d \in load.i..(load.n - 1))
      BY <2>1, SMT DEF LifeType, Static
    <3>3. d < kbuf_ndevices \/ d >= kbuf_ndevices
      BY <2>1, SMT DEF LifeType, Static
    <3>4. None(d) \/ Bare(d)
      BY <3>1, <3>2, <3>3 DEF StaticInv
    <3> QED BY <3>4 DEF None, Bare
  <2>5. "out" \notin {"region", "class", "teardown"} \cup DevicePc \cup ReadyPc
    BY DEF DevicePc, ReadyPc
  <2>6. ASSUME NEW d \in Static PROVE StaticInv(d)'
    <3>1. None(d)'
      BY <2>2, <2>4 DEF None, MemOnly
    <3>2. (obj[d].cdevRef = One(obj[d].added) + Cardinality(Inodes(d)) /\ obj[d].ref = 0)'
      <4>1. obj[d].cdevRef = One(obj[d].added) + Cardinality(Inodes(d)) /\ obj[d].ref = 0
        BY DEF LifeInv, StaticInv
      <4>2. Inodes(d)' = Inodes(d)
        BY DEF Inodes
      <4> QED BY <2>2, <4>1, <4>2 DEF MemOnly
    <3> QED BY <2>3, <2>5, <3>1, <3>2 DEF StaticInv
  <2>7. LoadInv'
    <3>1. res' = {}
      <4>1. res = ResAt[load.pc] /\ res' = res \ GlobalUndo[load.pc]
        BY <2>1 DEF LoadInv, ReleaseGlobals
      <4>2. ResAt["teardown"] = Globals
        BY ResAtIs
      <4>3. CASE load.pc = "array"
        BY <4>1, <4>3, ResAtIs DEF GlobalUndo
      <4>4. CASE load.pc = "region"
        BY <4>1, <4>4, ResAtIs, SMT DEF GlobalUndo
      <4>5. CASE load.pc = "class"
        BY <4>1, <4>5, ResAtIs, SMT DEF GlobalUndo
      <4>6. CASE load.pc = "teardown"
        BY <4>1, <4>2, <4>6, SMT DEF GlobalUndo, Globals
      <4> QED BY <4>3, <4>4, <4>5, <4>6
    <3>2. res' = ResAt["out"] /\ kbuf_dyn_list' = <<>>
      BY <2>1, <3>1, ResAtIs DEF dynVars, LoadInv
    <3> QED BY <2>1, <2>3, <2>5, <3>2 DEF LoadInv, Alone
  <2>8. kbuf_ndevices' \in 0..KBUF_MAX_NDEVICES /\ res' \subseteq ResType
    BY <2>1 DEF LifeType, ReleaseGlobals
  <2> QED BY <2>1, <2>2, <2>3, <2>6, <2>7, <2>8, <1>LoadKeeps

\* kcalloc: the structs of the first kbuf_ndevices devices.
<1>StructsCome.
      ASSUME LifeType,
             obj' = [d \in Devs |-> IF d < kbuf_ndevices THEN [obj[d] EXCEPT !.mem = {"struct"}]
                                                         ELSE obj[d]]
      PROVE  /\ obj' \in [Devs -> Object] /\ \A d \in Dynamic : obj'[d] = obj[d]
             /\ \A d \in Static : IF d < kbuf_ndevices THEN MemOnly(d, {"struct"})
                                                       ELSE obj'[d] = obj[d]
  <2> USE <1>StructsCome
  <2>2. ASSUME NEW d \in Static, d < kbuf_ndevices PROVE MemOnly(d, {"struct"})
    <3>1. d \in Devs /\ {"struct"} \in SUBSET Parts
      BY DEF Devs, Parts
    <3> DEFINE c == obj[d]
    <3>2. obj'[d] = [c EXCEPT !.mem = {"struct"}]
      BY <2>2, <3>1
    <3>3. c \in Object /\ c = obj[d]
      BY <3>1 DEF LifeType
    <3> HIDE DEF c
    <3> QED BY <3>1, <3>2, <3>3, <1>MemRecord
  <2>3. \A d \in Dynamic : obj'[d] = obj[d]
    <3>1. \A d \in Dynamic : ~(d < kbuf_ndevices)
      BY LifeAssumption, SMT DEF LifeType, Dynamic
    <3> QED BY <3>1, TwoKinds
  <2>4. \A d \in Static : IF d < kbuf_ndevices THEN MemOnly(d, {"struct"})
                                               ELSE obj'[d] = obj[d]
    BY <2>2 DEF Devs
  <2>5. \A d \in Devs : obj'[d] \in Object
    BY <2>3, <2>4 DEF LifeType, Devs, MemOnly
  <2>6. obj' \in [Devs -> Object]
    <3>1. obj' = [d \in Devs |-> obj'[d]]
      OBVIOUS
    <3> QED BY <2>5, <3>1
  <2> QED BY <2>3, <2>4, <2>6

\* kcalloc succeeds.
<1>ArrayMade.
      ASSUME LifeInv, load.pc = "array", load' = [load EXCEPT !.pc = "region"],
             res' = res \cup {"array"},
             obj' = [d \in Devs |-> IF d < kbuf_ndevices THEN [obj[d] EXCEPT !.mem = {"struct"}]
                                                         ELSE obj[d]],
             UNCHANGED <<dynVars, proc, buf, kbuf_ndevices>>
      PROVE  LifeInv'
  <2> USE <1>ArrayMade
  <2>0. load.pc \notin {"live", "drain", "out"}
    BY SMT
  <2>1. Alone /\ LifeType /\ LoadInv
    BY <2>0, <1>LoadAlone
  <2>2. /\ obj' \in [Devs -> Object] /\ \A d \in Dynamic : obj'[d] = obj[d]
        /\ \A d \in Static : IF d < kbuf_ndevices THEN MemOnly(d, {"struct"})
                                                  ELSE obj'[d] = obj[d]
    BY <2>1, <1>StructsCome
  <2>3. /\ load' \in [pc : LoadPc, i : Nat, n : Nat]
        /\ load'.pc = "region" /\ load'.i = load.i
    BY <2>1 DEF LoadPc, InitPc, LifeType
  <2>4. ASSUME NEW d \in Static PROVE None(d) /\ Inodes(d)' = Inodes(d) /\ StaticInv(d)
    BY DEF LifeInv, StaticInv, Inodes
  <2>5. "region" \notin {"out", "array", "class", "teardown", "live", "drain"} \cup DevicePc \cup ReadyPc
    BY DEF DevicePc, ReadyPc
  <2>6. ASSUME NEW d \in Static PROVE StaticInv(d)'
    <3>1. CASE d < kbuf_ndevices
      <4>1. MemOnly(d, {"struct"}) /\ None(d)
        BY <2>2, <2>4, <3>1
      <4>2. Bare(d)'
        BY <4>1 DEF MemOnly, Bare, None
      <4>3. (obj[d].cdevRef = One(obj[d].added) + Cardinality(Inodes(d)) /\ obj[d].ref = 0)'
        BY <2>4, <4>1 DEF MemOnly, StaticInv
      <4>4. ~(d >= kbuf_ndevices)
        BY <2>1, <3>1, SMT DEF LifeType, Static
      <4> QED BY <2>3, <2>5, <4>2, <4>3, <4>4 DEF StaticInv
    <3>2. CASE ~(d < kbuf_ndevices)
      <4>1. obj'[d] = obj[d] /\ None(d) /\ StaticInv(d) /\ Inodes(d)' = Inodes(d)
        BY <2>2, <2>4, <3>2
      <4>2. None(d)'
        BY <4>1 DEF None
      <4>3. (obj[d].cdevRef = One(obj[d].added) + Cardinality(Inodes(d)) /\ obj[d].ref = 0)'
        BY <4>1 DEF StaticInv
      <4> QED BY <3>2, <4>2, <4>3 DEF StaticInv
    <3> QED BY <3>1, <3>2
  <2>7. LoadInv'
    <3>1. res' = ResAt["region"] /\ kbuf_dyn_list' = <<>> /\ kbuf_ndevices > 0 /\ load.i = 0
      <4>1. res = ResAt["array"]
        BY <2>1 DEF LoadInv
      <4>2. res' = {"array"}
        BY <4>1, ResAtIs
      <4> QED BY <2>0, <2>1, <4>2, ResAtIs DEF dynVars, LoadInv
    <3> QED BY <2>1, <2>3, <2>5, <3>1 DEF LoadInv, Alone
  <2>8. kbuf_ndevices' \in 0..KBUF_MAX_NDEVICES /\ res' \subseteq ResType
    BY <2>1 DEF LifeType, ResType
  <2> QED BY <2>1, <2>2, <2>3, <2>6, <2>7, <2>8, <1>LoadKeeps

\* alloc_chrdev_region and class_create succeed.
<1>GlobalMade.
      ASSUME LifeInv, load.pc \in {"region", "class"}, NEW l,
             l = IF load.pc = "region" THEN "class" ELSE "slots",
             load' = [load EXCEPT !.pc = l],
             res' = res \cup {load.pc}, UNCHANGED <<obj, dynVars, proc, buf, kbuf_ndevices>>
      PROVE  LifeInv'
  <2> USE <1>GlobalMade
  <2>0. load.pc \notin {"live", "drain", "out"}
    BY SMT
  <2>1. Alone /\ LifeType /\ LoadInv
    BY <2>0, <1>LoadAlone
  <2>2. l \in {"class", "slots"} /\ (l = "slots" <=> load.pc = "class")
    BY SMT
  <2>3. /\ load' \in [pc : LoadPc, i : Nat, n : Nat]
        /\ load'.pc = l /\ load'.i = load.i
    BY <2>1, <2>2 DEF LoadPc, InitPc, LifeType
  <2>4. /\ l \notin {"out", "array", "region", "teardown", "live", "drain"} \cup ReadyPc
        /\ l \in DevicePc => l = "slots"
    BY <2>2 DEF DevicePc, ReadyPc
  <2>5. load.i = 0 /\ kbuf_ndevices > 0 /\ kbuf_dyn_list = <<>> /\ res = ResAt[load.pc]
    BY <2>0, <2>1 DEF LoadInv
  <2>6. ASSUME NEW d \in Static PROVE StaticInv(d)'
    <3>1. /\ StaticInv(d) /\ (d < kbuf_ndevices => Bare(d)) /\ (d >= kbuf_ndevices => None(d))
          /\ Inodes(d)' = Inodes(d)
      BY DEF LifeInv, StaticInv, Inodes
    <3>2. (obj[d].cdevRef = One(obj[d].added) + Cardinality(Inodes(d)) /\ obj[d].ref = 0)'
      BY <3>1 DEF StaticInv
    <3>3. (d < kbuf_ndevices => Bare(d))' /\ (d >= kbuf_ndevices => None(d))'
      BY <3>1 DEF Bare, None
    <3>4. l = "slots" /\ Bare(d)' => Half(d)'
      BY <2>3 DEF Bare, Half, InitMem
    <3>5. ~(d < load'.i)
      BY <2>3, <2>5, SMT DEF Static
    <3> QED BY <2>3, <2>4, <3>2, <3>3, <3>4, <3>5 DEF StaticInv
  <2>7. LoadInv'
    <3>1. res' = ResAt[l]
      <4>1. CASE load.pc = "region"
        <5>1. l = "class"
          BY <4>1
        <5> QED BY <2>5, <4>1, <5>1, ResAtIs
      <4>2. CASE load.pc = "class"
        <5>1. l = "slots" /\ l \in DevicePc
          BY <4>2 DEF DevicePc
        <5>2. ResAt[l] = Globals /\ ResAt["class"] = {"array", "region"}
          BY <5>1, ResAtIs
        <5> QED BY <2>5, <4>2, <5>2 DEF Globals
      <4> QED BY <4>1, <4>2
    <3> QED BY <2>1, <2>3, <2>4, <2>5, <3>1 DEF LoadInv, Alone, dynVars
  <2>8. kbuf_ndevices' \in 0..KBUF_MAX_NDEVICES /\ res' \subseteq ResType
    <3>1. load.pc \in ResType
      BY DEF ResType
    <3> QED BY <2>1, <3>1 DEF LifeType
  <2>9. obj' \in [Devs -> Object] /\ \A d \in Dynamic : obj'[d] = obj[d]
    BY <2>1 DEF LifeType
  <2> QED BY <2>1, <2>3, <2>6, <2>7, <2>8, <2>9, <1>LoadKeeps

\* kcalloc, alloc_chrdev_region or class_create succeeds or fails.
<1>InitGlobal.
      ASSUME LifeInv, kbuf_init_global
      PROVE  LifeInv'
  <2> USE <1>InitGlobal
  <2>0. /\ load.pc \in {"array", "region", "class"}
        /\ UNCHANGED <<dynVars, proc, buf, kbuf_ndevices>>
    BY DEF kbuf_init_global
  <2>1. CASE ReleaseGlobals
    BY <2>0, <2>1, <1>GlobalsGo
  <2>2. CASE /\ res' = res \cup {load.pc}
             /\ obj' = [d \in Devs |-> IF At("array") /\ d < kbuf_ndevices
                                       THEN [obj[d] EXCEPT !.mem = {"struct"}] ELSE obj[d]]
             /\ Goto(CASE At("array") -> "region" [] At("region") -> "class" [] OTHER -> "slots")
    <3>1. CASE load.pc = "array"
      <4>1. load' = [load EXCEPT !.pc = "region"]
        BY <2>2, <3>1 DEF At, Goto
      <4>2. obj' = [d \in Devs |-> IF d < kbuf_ndevices THEN [obj[d] EXCEPT !.mem = {"struct"}]
                                                        ELSE obj[d]]
        BY <2>2, <3>1 DEF At
      <4> QED BY <2>0, <2>2, <3>1, <4>1, <4>2, <1>ArrayMade
    <3>2. CASE load.pc # "array"
      <4>1. obj' = obj
        <5>1. obj' = [d \in Devs |-> obj[d]]
          BY <2>2, <3>2 DEF At
        <5> QED BY <5>1 DEF LifeInv, LifeType
      <4> DEFINE l == IF load.pc = "region" THEN "class" ELSE "slots"
      <4>2. load' = [load EXCEPT !.pc = l]
        BY <2>0, <2>2, <3>2 DEF At, Goto
      <4>3. load.pc \in {"region", "class"}
        BY <2>0, <3>2
      <4>4. l = IF load.pc = "region" THEN "class" ELSE "slots"
        BY SMT
      <4> HIDE DEF l
      <4> QED BY <2>0, <2>2, <4>1, <4>2, <4>3, <4>4, <1>GlobalMade
    <3> QED BY <3>1, <3>2
  <2> QED BY <2>1, <2>2 DEF kbuf_init_global

\* class_destroy, unregister_chrdev_region, kfree.
<1>ExitFinish.
      ASSUME LifeInv, kbuf_exit_finish
      PROVE  LifeInv'
  BY <1>ExitFinish, <1>GlobalsGo DEF kbuf_exit_finish, At

\* The device that kbuf_ctl_unregister takes down holds nothing afterwards.
<1>BecomesFreed.
      ASSUME LifeType, NEW d \in Devs, obj' = [obj EXCEPT ![d] = Freed(obj[d])],
             obj[d].cdevRef = 1
      PROVE  Becomes(d, {}, 0, FALSE, FALSE, 0, obj[d].minor_off)
  <2> USE <1>BecomesFreed
  <2> DEFINE c == obj[d]
             f == FALSE
             g == [c EXCEPT !.device = f]
             o == Freed(c)
  <2>1. c \in Object /\ c.cdevRef = 1
    BY DEF LifeType
  <2>2. o = kbuf_dev_release(CdevDel(g)) /\ obj' = [obj EXCEPT ![d] = o]
    BY DEF Freed
  <2>3. f \in BOOLEAN
    BY SMT
  <2> HIDE DEF c, f, o
  <2>4. g \in Object /\ g.cdevRef = 1 /\ g.mem = c.mem /\ g.device = f
        /\ g.minor_off = c.minor_off
    BY <2>1, <2>3 DEF Object
  <2> HIDE DEF g
  <2>5. CdevDel(g) = Record(g.mem \ {"cdev"}, 0, FALSE, g.device, g.ref, g.minor_off)
    BY <2>4, <1>CdevDelLast
  <2> DEFINE h == CdevDel(g)
             e == FALSE
             m == c.mem \ {"cdev"}
             r == g.ref
             mo == c.minor_off
  <2>6. h = [mem |-> m, cdevRef |-> 0, added |-> e, device |-> f, ref |-> r, minor_off |-> mo]
    BY <2>4, <2>5 DEF Record
  <2>7. o = [h EXCEPT !.ref = 0, !.mem = h.mem \ (Ring \cup {"struct"})]
    BY <2>2 DEF kbuf_dev_release
  <2>8. m \ (Ring \cup {"struct"}) = {}
    BY <2>1 DEF Object, Parts
  <2> HIDE DEF h, e, m, r, mo
  <2>9. o = [mem |-> m \ (Ring \cup {"struct"}), cdevRef |-> 0, added |-> e, device |-> f, ref |-> 0,
             minor_off |-> mo]
    BY <2>6, <2>7
  <2>a. o = [mem |-> {}, cdevRef |-> 0, added |-> e, device |-> f, ref |-> 0, minor_off |-> mo]
    BY <2>8, <2>9
  <2>b. Becomes(d, {}, 0, e, f, 0, mo)
    BY <2>2, <2>a, BecomesRecord
  <2> QED BY <2>b DEF e, f, mo, c

\* kbuf_ctl_unregister takes the first device off the list and frees it.
<1>Drained.
      ASSUME LifeInv, load.pc = "drain", Alone, NEW d \in Dynamic, d \in Listed, obj[d].ref = 1,
             Becomes(d, {}, 0, FALSE, FALSE, 0, obj[d].minor_off),
             kbuf_dyn_ida' = kbuf_dyn_ida \ {obj[d].minor_off},
             kbuf_dyn_list' \in Seq(Dynamic), Listed' = Listed \ {d}, ListInv',
             UNCHANGED <<load, created, proc, buf, kbuf_ndevices, res>>
      PROVE  LifeInv'
  <2> USE <1>Drained
  <2>0. LifeType /\ DynInv(d) /\ LoadInv /\ d \in Devs /\ d \notin Static
    BY TwoKinds DEF LifeInv
  <2>1. /\ obj'[d].mem = {} /\ obj'[d].cdevRef = 0 /\ obj'[d].ref = 0
        /\ obj'[d].added = FALSE /\ obj'[d].device = FALSE /\ obj'[d].minor_off = obj[d].minor_off
        /\ \A e \in Devs \ {d} : obj'[e] = obj[e]
    BY DEF Becomes
  <2>2. LifeType'
    <3>1. obj' \in [Devs -> Object]
      <4>1. obj[d].minor_off \in Ids
        BY <2>0 DEF LifeType, Object
      <4> QED BY <4>1 DEF Becomes
    <3>2. kbuf_dyn_ida' \subseteq Ids
      BY <2>0 DEF LifeType
    <3> QED BY <2>0, <3>1, <3>2 DEF LifeType
  <2>3. ASSUME NEW p \in Procs PROVE ProcInv(p)' /\ BufInv(p)'
    <3>1. /\ proc'[p] = NoCall /\ buf'[p] = NoBuf /\ BufInv(p) /\ NoDev \notin Static
          /\ Importing(p)' = Importing(p) /\ proc' = proc /\ buf' = buf
      BY NoDevNumber DEF Alone, LifeInv, Importing
    <3>2. ProcInv(p)'
      BY <3>1, SMT DEF ProcInv, NoCall, CtlPc, ImportPc, ExportPc, CreatePc, DestroyPc
    <3>3. BufInv(p)'
      <4>1. buf[p] = NoBuf /\ NoBuf.ref = 0
        BY DEF Alone, NoBuf
      <4> QED BY <3>1, <4>1 DEF BufInv
    <3> QED BY <3>2, <3>3
  <2>4. ASSUME NEW e
        PROVE  /\ Opened(e)' = Opened(e) /\ Exported(e)' = Exported(e)
               /\ Exporting(e)' = Exporting(e)
               /\ Inodes(e)' = Inodes(e) /\ Creating(e)' = Creating(e)
               /\ Destroying(e)' = Destroying(e)
    BY DEF Opened, Exported, Exporting, Inodes, Creating, Destroying
  <2>5. ASSUME NEW e \in Dynamic \ {d} PROVE DynInv(e)'
    <3>1. (e \in Listed' <=> e \in Listed) /\ obj'[e] = obj[e] /\ DynInv(e)
      BY <2>1, TwoKinds DEF LifeInv
    <3>2. Registered(e)' <=> Registered(e)
      BY <2>4, <3>1 DEF Registered
    <3>3. (obj[e].ref = Holders(e))'
      <4>1. One(Registered(e))' = One(Registered(e))
        BY <3>2 DEF One
      <4> QED BY <2>4, <3>1, <4>1 DEF DynInv, Holders
    <3>4. CdevInv(e)'
      <4>1. CdevOwned(e)' <=> CdevOwned(e)
        BY <2>4, <3>1 DEF CdevOwned
      <4>2. One(CdevOwned(e))' = One(CdevOwned(e))
        BY <4>1 DEF One
      <4> QED BY <2>4, <3>1, <4>2 DEF DynInv, CdevInv
    <3>5. OneOwner(e)' /\ MemInv(e)'
      BY <2>4, <3>1 DEF DynInv, OneOwner, MemInv
    <3>6. StageInv(e)'
      BY <2>4, <3>1, <3>2 DEF DynInv, StageInv
    <3> QED BY <3>1, <3>3, <3>4, <3>5, <3>6 DEF DynInv
  <2>6. DynInv(d)'
    <3>1. /\ Opened(d) = {} /\ Exported(d) = {} /\ Exporting(d) = {} /\ Inodes(d) = {}
          /\ Creating(d) = {} /\ Destroying(d) = {}
      BY ListedHolds
    <3>2. d \notin Listed' /\ ~Registered(d)'
      BY <2>4, <3>1 DEF Registered
    <3>3. ~(d >= KBUF_MAX_NDEVICES + created')
      <4>1. d >= KBUF_MAX_NDEVICES + created => obj[d] = NoObj
        BY <2>0 DEF DynInv
      <4>2. obj[d] # NoObj
        BY SMT DEF NoObj
      <4> QED BY <4>1, <4>2
    <3>8. Opened(d)' = {} /\ Exported(d)' = {} /\ Exporting(d)' = {} /\ Inodes(d)' = {}
      BY <2>4, <3>1
    <3>4. (obj[d].ref = Holders(d))'
      BY <2>1, <3>2, <3>8, CountNone, SMT DEF Holders, One
    <3>5. CdevInv(d)'
      <4>1. ~CdevOwned(d)'
        BY <2>1, <2>4, <3>1 DEF CdevOwned
      <4> QED BY <2>1, <3>8, <4>1, CountNone, SMT DEF CdevInv, One
    <3>6. OneOwner(d)' /\ StageInv(d)'
      BY <2>1, <2>4, <3>1, <3>2 DEF OneOwner, StageInv
    <3>7. MemInv(d)'
      BY <2>1, SMT DEF MemInv
    <3> QED BY <3>3, <3>4, <3>5, <3>6, <3>7 DEF DynInv
  <2>7. ASSUME NEW s \in Static PROVE StaticInv(s)'
    <3>1. obj'[s] = obj[s] /\ StaticInv(s) /\ Inodes(s)' = Inodes(s) /\ load' = load
          /\ kbuf_ndevices' = kbuf_ndevices
      BY <2>0, <2>1, <2>4 DEF LifeInv, Devs
    <3> QED BY <3>1 DEF StaticInv, None, Bare, Full, Half
  <2>8. ASSUME NEW m \in Ids PROVE MinorInv(m)'
    <3>1. "struct" \in obj[d].mem
      <4>1. MemInv(d)
        BY <2>0 DEF DynInv
      <4> QED BY <4>1, SMT DEF MemInv
    <3>2. \A e \in Dynamic : MinorOf(e, m)' <=> MinorOf(e, m) /\ e # d
      BY <2>1 DEF MinorOf, Devs
    <3>3. \A q \in Procs : Pending(q, m)' <=> Pending(q, m)
      BY DEF Pending
    <3>4. MinorOf(d, m) <=> m = obj[d].minor_off
      BY <3>1 DEF MinorOf
    <3>5. m \in kbuf_dyn_ida' <=> m \in kbuf_dyn_ida /\ ~MinorOf(d, m)
      BY <3>4
    <3>6. MinorInv(m)
      BY DEF LifeInv
    <3> QED BY <3>2, <3>3, <3>5, <3>6 DEF MinorInv
  <2>9. LoadInv'
    BY <2>0 DEF LoadInv
  <2> QED BY <2>2, <2>3, <2>5, <2>6, <2>7, <2>8, <2>9 DEF LifeInv

\* kbuf_ctl_unregister: one device, or the end of the list.
<1>CtlUnregister.
      ASSUME LifeInv, kbuf_ctl_unregister
      PROVE  LifeInv'
  <2> USE <1>CtlUnregister
  <2>0. load.pc = "drain" /\ UNCHANGED <<created, proc, buf, kbuf_ndevices, res>>
    BY DEF kbuf_ctl_unregister, At
  <2>1. Alone /\ LifeType /\ LoadInv /\ ListInv
    <3>1. load.pc # "live"
      BY <2>0
    <3> QED BY <3>1, <1>LoadAlone DEF LifeInv
  <2>2. CASE kbuf_dyn_list = <<>>
    <3>1. load' = [load EXCEPT !.pc = "reports"] /\ UNCHANGED <<obj, dynVars>>
      BY <2>0, <2>2 DEF kbuf_ctl_unregister, Goto, dynVars
    <3>2. load.pc \in ReadyPc /\ "reports" \in ReadyPc
      BY <2>0 DEF ReadyPc
    <3>3. res' = ResAt["reports"]
      BY <2>0, <2>1, ResAtIs DEF LoadInv
    <3> QED BY <2>0, <2>1, <2>2, <3>1, <3>2, <3>3, <1>ReadyMoves
  <2>3. CASE kbuf_dyn_list # <<>>
    <3> DEFINE d == Head(kbuf_dyn_list)
               o == CdevDel([obj[d] EXCEPT !.device = FALSE])
               left == [o EXCEPT !.ref = o.ref - 1]
    <3>1. /\ d \in Dynamic /\ d \in Listed /\ Tail(kbuf_dyn_list) \in Seq(Dynamic)
          /\ Range(Tail(kbuf_dyn_list)) = Listed \ {d}
          /\ \A j, k \in DOMAIN Tail(kbuf_dyn_list) :
               Tail(kbuf_dyn_list)[j] = Tail(kbuf_dyn_list)[k] => j = k
      BY <2>1, <2>3, <1>TailList DEF LifeType, ListInv, Listed
    <3>2. /\ obj' = [obj EXCEPT ![d] = IF o.ref > 1 THEN left ELSE kbuf_dev_release(o)]
          /\ kbuf_dyn_ida' = IF o.ref > 1 THEN kbuf_dyn_ida ELSE kbuf_dyn_ida \ {o.minor_off}
          /\ kbuf_dyn_list' = Tail(kbuf_dyn_list) /\ load' = load
      BY <2>3 DEF kbuf_ctl_unregister
    <3>3. /\ kbuf_dyn_list' \in Seq(Dynamic) /\ Listed' = Listed \ {d} /\ ListInv'
      BY <3>1, <3>2 DEF Listed, ListInv
    <3>4. /\ obj[d].ref = 1 /\ obj[d].cdevRef = 1 /\ obj[d] \in Object /\ d \in Devs
      <4>1. /\ obj[d].ref = One(d \in Listed) /\ obj[d].cdevRef = One(obj[d].added)
            /\ DynInv(d) /\ d \in Devs
        BY <2>1, <3>1, ListedHolds, TwoKinds DEF LifeInv
      <4>2. obj[d].added
        BY <3>1, <4>1 DEF DynInv, StageInv
      <4>3. obj[d] \in Object
        BY <2>1, <4>1 DEF LifeType
      <4> QED BY <3>1, <4>1, <4>2, <4>3 DEF One
    <3>5. o.ref = 1 /\ o.minor_off = obj[d].minor_off
      <4> DEFINE f == FALSE
                 c == obj[d]
                 g == [c EXCEPT !.device = f]
      <4>1. f \in BOOLEAN /\ c \in Object /\ c.cdevRef = 1 /\ c.ref = 1
        BY <3>4
      <4> HIDE DEF f, c
      <4>2. g \in Object /\ g.cdevRef = 1 /\ g.ref = 1 /\ g.minor_off = c.minor_off
        BY <4>1 DEF Object
      <4> HIDE DEF g
      <4>3. CdevDel(g) = Record(g.mem \ {"cdev"}, 0, FALSE, g.device, g.ref, g.minor_off)
        BY <4>2, <1>CdevDelLast
      <4>4. CdevDel(g).ref = g.ref /\ CdevDel(g).minor_off = g.minor_off
        BY <4>3, SMT DEF Record
      <4> QED BY <4>2, <4>4 DEF g, f, c
    <3>6. obj' = [obj EXCEPT ![d] = Freed(obj[d])] /\ kbuf_dyn_ida' = kbuf_dyn_ida \ {obj[d].minor_off}
      <4>1. ~(o.ref > 1)
        BY <3>5, SMT
      <4> HIDE DEF left
      <4>2. obj' = [obj EXCEPT ![d] = kbuf_dev_release(o)] /\ kbuf_dyn_ida' = kbuf_dyn_ida \ {o.minor_off}
        BY <3>2, <4>1
      <4> QED BY <3>5, <4>2 DEF Freed
    <3> HIDE DEF d, o, left
    <3>7. Becomes(d, {}, 0, FALSE, FALSE, 0, obj[d].minor_off)
      BY <2>1, <3>4, <3>6, <1>BecomesFreed
    <3> QED BY <2>0, <2>1, <3>1, <3>2, <3>3, <3>4, <3>6, <3>7, <1>Drained
  <2> QED BY <2>2, <2>3

<1>1. ASSUME LifeInv, LoadStep PROVE LifeInv'
  BY <1>1, <1>InitGlobal, <1>InitDevice, <1>InitDeviceFail, <1>InitReports, <1>DmabufInit,
     <1>CtlRegister, <1>CtlUnregister, <1>ExitReports, <1>TeardownDevice, <1>ExitFinish
     DEF LoadStep
<1> QED BY <1>1, <1>KbufInit, <1>KbufExit

-----------------------------------------------------------------------------
(* What a step does to its thread, field by field.                         *)

\* p comes to step l with these locals, and no other thread moves.
Now(p, l, dev, id, file, icdev, import, held) ==
  /\ proc'[p].pc = l /\ proc'[p].dev = dev /\ proc'[p].id = id
  /\ proc'[p].file = file /\ proc'[p].icdev = icdev
  /\ proc'[p].import = import /\ proc'[p].held = held
  /\ \A q \in Procs \ {p} : proc'[q] = proc[q]
  /\ /\ l \in ProcPc /\ id \in Nat /\ {dev, file, icdev} \subseteq Devs \cup {NoDev}
     /\ import \in Procs \cup {NoProc} /\ held \subseteq Steps
     => proc' \in [Procs -> Thread]

\* p comes to step l and keeps its locals.
Goes(p, l) == Now(p, l, proc[p].dev, proc[p].id, proc[p].file, proc[p].icdev,
                  proc[p].import, proc[p].held)

\* p returns to user space.
Returns(p) == Now(p, "idle", NoDev, 0, proc[p].file, proc[p].icdev, NoProc, {})

\* One thread gets a new record.
LEMMA NowRecord ==
  ASSUME LifeType, NEW p \in Procs, NEW t, proc' = [proc EXCEPT ![p] = t],
         NEW l, NEW dev, NEW id, NEW file, NEW icdev, NEW import, NEW held,
         t = [pc |-> l, dev |-> dev, id |-> id, file |-> file, icdev |-> icdev,
              import |-> import, held |-> held]
  PROVE  Now(p, l, dev, id, file, icdev, import, held)
<1>1. proc'[p] = t /\ \A q \in Procs \ {p} : proc'[q] = proc[q]
  BY ProcRecord
<1>2. ASSUME l \in ProcPc, id \in Nat, {dev, file, icdev} \subseteq Devs \cup {NoDev},
             import \in Procs \cup {NoProc}, held \subseteq Steps
      PROVE  proc' \in [Procs -> Thread]
  <2>1. t \in Thread
    BY <1>2 DEF Thread
  <2> QED BY <2>1, ProcRecord
<1> QED BY <1>1, <1>2, SMT DEF Now

\* A step that changes pc only.
LEMMA GoesEffect ==
  ASSUME LifeType, NEW p \in Procs, NEW l,
         proc' = [proc EXCEPT ![p].pc = l]
  PROVE  Goes(p, l)
<1> DEFINE t == [proc[p] EXCEPT !.pc = l]
<1>1. proc' = [proc EXCEPT ![p] = t]
  BY ProcRecord
<1>2. /\ t.pc = l /\ t.dev = proc[p].dev /\ t.id = proc[p].id
      /\ t.file = proc[p].file /\ t.icdev = proc[p].icdev
      /\ t.import = proc[p].import /\ t.held = proc[p].held
  BY ProcRecord, SMT DEF Thread
<1>3. /\ DOMAIN t = {"pc", "dev", "id", "file", "icdev", "import", "held"}
      /\ t = [f \in DOMAIN t |-> t[f]]
  BY ProcRecord DEF Thread
<1> HIDE DEF t
<1>4. t = [pc |-> l, dev |-> proc[p].dev, id |-> proc[p].id,
           file |-> proc[p].file, icdev |-> proc[p].icdev,
           import |-> proc[p].import, held |-> proc[p].held]
  BY <1>2, <1>3
<1> QED BY <1>1, <1>4, NowRecord DEF Goes

\* pc and file.
LEMMA FileEffect ==
  ASSUME LifeType, NEW p \in Procs, NEW l, NEW d,
         proc' = [proc EXCEPT ![p].pc = l, ![p].file = d]
  PROVE  Now(p, l, proc[p].dev, proc[p].id, d, proc[p].icdev, proc[p].import,
             proc[p].held)
<1> DEFINE t == [proc[p] EXCEPT !.pc = l, !.file = d]
<1>1. proc' = [proc EXCEPT ![p] = t]
  BY ProcRecord
<1>2. /\ t.pc = l /\ t.dev = proc[p].dev /\ t.id = proc[p].id
      /\ t.file = d /\ t.icdev = proc[p].icdev
      /\ t.import = proc[p].import /\ t.held = proc[p].held
  BY ProcRecord, SMT DEF Thread
<1>3. /\ DOMAIN t = {"pc", "dev", "id", "file", "icdev", "import", "held"}
      /\ t = [f \in DOMAIN t |-> t[f]]
  BY ProcRecord DEF Thread
<1> HIDE DEF t
<1>4. t = [pc |-> l, dev |-> proc[p].dev, id |-> proc[p].id, file |-> d,
           icdev |-> proc[p].icdev, import |-> proc[p].import,
           held |-> proc[p].held]
  BY <1>2, <1>3
<1> QED BY <1>1, <1>4, NowRecord

\* A call that ends.
LEMMA ReturnRecord ==
  ASSUME NEW p \in Procs
  PROVE  Return(p) = [proc EXCEPT ![p] =
                        [pc |-> "idle", dev |-> NoDev, id |-> 0, file |-> proc[p].file,
                         icdev |-> proc[p].icdev, import |-> NoProc, held |-> {}]]
<1> DEFINE u == [NoCall EXCEPT !.file = proc[p].file, !.icdev = proc[p].icdev]
<1>1. /\ u.pc = "idle" /\ u.dev = NoDev /\ u.id = 0 /\ u.file = proc[p].file
      /\ u.icdev = proc[p].icdev /\ u.import = NoProc /\ u.held = {}
  BY DEF NoCall
<1>2. /\ DOMAIN u = {"pc", "dev", "id", "file", "icdev", "import", "held"}
      /\ u = [f \in DOMAIN u |-> u[f]]
  BY DEF NoCall
<1>3. Return(p) = [proc EXCEPT ![p] = u]
  BY DEF Return
<1> HIDE DEF u
<1>4. u = [pc |-> "idle", dev |-> NoDev, id |-> 0, file |-> proc[p].file,
           icdev |-> proc[p].icdev, import |-> NoProc, held |-> {}]
  BY <1>1, <1>2
<1> QED BY <1>3, <1>4

\* The thread is idle and keeps its open file.
LEMMA ReturnEffect ==
  ASSUME LifeType, NEW p \in Procs, proc' = Return(p)
  PROVE  Returns(p)
BY ReturnRecord, NowRecord DEF Returns

-----------------------------------------------------------------------------
(* Steps of one thread. p is the thread, b the only buffer and d the only  *)
(* device it may touch.                                                    *)

\* The part p has in device e is the same after the step.
SamePart(p, e) ==
  /\ proc'[p].icdev = e <=> proc[p].icdev = e
  /\ proc'[p].file = e <=> proc[p].file = e
  /\ p \in Exporting(e)' <=> p \in Exporting(e)
  /\ \/ proc'[p].pc = proc[p].pc /\ proc'[p].dev = proc[p].dev
     \/ p \notin Creating(e) \cup Destroying(e) \cup Creating(e)' \cup Destroying(e)'

\* A step of p that touches no other buffer than b and no other device than d.
Local(p, b, d) ==
  /\ \A q \in Procs \ {p} : proc'[q] = proc[q]
  /\ \A q \in Procs \ {b} : buf'[q] = buf[q]
  /\ \A e \in Dynamic \ {d} :
       /\ obj'[e] = obj[e] /\ SamePart(p, e)
       /\ e \in Listed' <=> e \in Listed
       /\ b \in Exported(e)' <=> b \in Exported(e)
  /\ \A e \in Static \ {d} : obj'[e] = obj[e] /\ (proc'[p].icdev = e <=> proc[p].icdev = e)
  /\ created <= created' /\ UNCHANGED modVars

\* Another device has the same users.
LEMMA SetsKeep ==
  ASSUME LifeType, LifeType', NEW p \in Procs, NEW b \in Procs, NEW d, Local(p, b, d),
         NEW e \in Dynamic \ {d}
  PROVE  /\ Creating(e)' = Creating(e) /\ Destroying(e)' = Destroying(e)
         /\ Opened(e)' = Opened(e) /\ Exported(e)' = Exported(e)
         /\ Exporting(e)' = Exporting(e) /\ Inodes(e)' = Inodes(e)
         /\ \A q \in Creating(e) \cup Destroying(e) : proc'[q].pc = proc[q].pc
<1>1. /\ SamePart(p, e) /\ (b \in Exported(e)' <=> b \in Exported(e))
      /\ \A q \in Procs \ {p} : proc'[q] = proc[q]
      /\ \A q \in Procs \ {b} : buf'[q] = buf[q]
  BY DEF Local
<1>2. Creating(e)' = Creating(e) /\ Destroying(e)' = Destroying(e)
  <2>1. /\ p \in Creating(e)' <=> p \in Creating(e)
        /\ p \in Destroying(e)' <=> p \in Destroying(e)
    BY <1>1 DEF SamePart, Creating, Destroying
  <2>2. ASSUME NEW q \in Procs \ {p}
        PROVE  /\ q \in Creating(e)' <=> q \in Creating(e)
               /\ q \in Destroying(e)' <=> q \in Destroying(e)
    BY <1>1 DEF Creating, Destroying
  <2>3. \A q : q \in Creating(e) \cup Creating(e)' \cup Destroying(e) \cup Destroying(e)' => q \in Procs
    BY DEF Creating, Destroying
  <2>4. /\ \A q : q \in Creating(e)' <=> q \in Creating(e)
        /\ \A q : q \in Destroying(e)' <=> q \in Destroying(e)
    BY <2>1, <2>2, <2>3
  <2> QED BY <2>4
<1>3. Opened(e)' = Opened(e) /\ Inodes(e)' = Inodes(e)
  BY <1>1, SMT DEF SamePart, Opened, Inodes
<1>4. Exporting(e)' = Exporting(e)
  BY <1>1 DEF SamePart, Exporting
<1>5. Exported(e)' = Exported(e)
  BY <1>1 DEF Exported
<1>6. ASSUME NEW q \in Creating(e) \cup Destroying(e)
      PROVE  proc'[q].pc = proc[q].pc
  <2>1. q \in Procs
    BY <1>6 DEF Creating, Destroying
  <2> QED BY <1>1, <1>6, <2>1 DEF SamePart
<1> QED BY <1>2, <1>3, <1>4, <1>5, <1>6

\* So it is as it was.
LEMMA DynKeep ==
  ASSUME LifeType, LifeType', NEW p \in Procs, NEW b \in Procs, NEW d, Local(p, b, d),
         NEW e \in Dynamic \ {d}, DynInv(e)
  PROVE  DynInv(e)'
<1>1. /\ obj'[e] = obj[e] /\ (e \in Listed' <=> e \in Listed) /\ created <= created'
  BY DEF Local
<1>2. /\ Creating(e)' = Creating(e) /\ Destroying(e)' = Destroying(e)
      /\ Opened(e)' = Opened(e) /\ Exported(e)' = Exported(e)
      /\ Exporting(e)' = Exporting(e) /\ Inodes(e)' = Inodes(e)
      /\ \A q \in Creating(e) \cup Destroying(e) : proc'[q].pc = proc[q].pc
  BY SetsKeep
<1>3. Registered(e)' <=> Registered(e)
  BY <1>1, <1>2 DEF Registered
<1>4. (obj[e].ref = Holders(e))'
  BY <1>1, <1>2, <1>3 DEF DynInv, Holders, One
<1>5. CdevOwned(e)' <=> CdevOwned(e)
  BY <1>1, <1>2 DEF CdevOwned
<1>6. CdevInv(e)'
  BY <1>1, <1>2, <1>5 DEF DynInv, CdevInv, One
<1>7. OneOwner(e)'
  BY <1>1, <1>2 DEF DynInv, OneOwner
<1>8. StageInv(e)'
  <2>1. StageInv(e)
    BY DEF DynInv
  <2> QED BY <1>1, <1>2, <1>3, <2>1 DEF StageInv
<1>9. MemInv(e)'
  BY <1>1, <1>2 DEF DynInv, MemInv
<1>10. (e >= KBUF_MAX_NDEVICES + created => obj[e] = NoObj)'
  <2>1. created \in Nat /\ created' \in Nat /\ KBUF_MAX_NDEVICES \in Nat /\ e \in Int
    BY LifeAssumption, SMT DEF LifeType, Dynamic
  <2>2. e >= KBUF_MAX_NDEVICES + created' => e >= KBUF_MAX_NDEVICES + created
    BY <1>1, <2>1, SMT
  <2> QED BY <1>1, <2>2 DEF DynInv
<1> QED BY <1>4, <1>6, <1>7, <1>8, <1>9, <1>10 DEF DynInv

\* The same for a static device.
LEMMA StaticKeep ==
  ASSUME LifeType, LifeType', NEW p \in Procs, NEW b \in Procs, NEW d, Local(p, b, d),
         NEW e \in Static \ {d}, StaticInv(e)
  PROVE  StaticInv(e)'
<1>1. /\ obj'[e] = obj[e] /\ (proc'[p].icdev = e <=> proc[p].icdev = e)
      /\ \A q \in Procs \ {p} : proc'[q] = proc[q]
      /\ kbuf_ndevices' = kbuf_ndevices /\ load' = load
  BY DEF Local, modVars
<1>2. Inodes(e)' = Inodes(e)
  BY <1>1 DEF Inodes
<1> QED BY <1>1, <1>2 DEF StaticInv, None, Bare, Full, Half

\* Another thread is as it was.
LEMMA ThreadKeep ==
  ASSUME LifeType, LifeType', NEW p \in Procs, NEW b \in Procs, NEW d, Local(p, b, d),
         NEW q \in Procs \ {p}, ProcInv(q),
         proc[q].pc \in {"e_get", "e_export"} => buf'[q] = buf[q],
         proc[q].pc \in CreatePc =>
           obj'[proc[q].dev].minor_off = obj[proc[q].dev].minor_off
  PROVE  ProcInv(q)'
<1>1. proc'[q] = proc[q] /\ kbuf_ndevices' = kbuf_ndevices
  BY DEF Local, modVars
<1> QED BY <1>1 DEF ProcInv

\* Another buffer is counted as before.
LEMMA BufKeep ==
  ASSUME LifeType, LifeType', NEW p \in Procs, NEW b \in Procs, NEW d, Local(p, b, d),
         NEW c \in Procs \ {b}, BufInv(c),
         c = p => (proc'[p].pc = "e_fd" <=> proc[p].pc = "e_fd"),
         proc'[p].import = c <=> proc[p].import = c
  PROVE  BufInv(c)'
<1>1. /\ buf'[c] = buf[c] /\ kbuf_ndevices' = kbuf_ndevices
      /\ \A q \in Procs \ {p} : proc'[q] = proc[q]
  BY DEF Local, modVars
<1>2. Importing(c)' = Importing(c)
  BY <1>1 DEF Importing
<1>3. proc'[c].pc = "e_fd" <=> proc[c].pc = "e_fd"
  BY <1>1
<1> QED BY <1>1, <1>2, <1>3 DEF BufInv, One

\* The minors are owned as before.
LEMMA MinorKeep ==
  ASSUME LifeType, LifeType', NEW p \in Procs, NEW b \in Procs, NEW d, Local(p, b, d),
         NEW m, MinorInv(m), kbuf_dyn_ida' = kbuf_dyn_ida,
         d \in Dynamic => (MinorOf(d, m)' <=> MinorOf(d, m)),
         Pending(p, m)' <=> Pending(p, m)
  PROVE  MinorInv(m)'
<1>1. \A e \in Dynamic : MinorOf(e, m)' <=> MinorOf(e, m)
  BY DEF Local, MinorOf
<1>2. \A q \in Procs : Pending(q, m)' <=> Pending(q, m)
  BY DEF Local, Pending
<1> QED BY <1>1, <1>2 DEF MinorInv

\* All together: what a step of one thread has to show.
LEMMA LocalStep ==
  ASSUME LifeInv, LifeType', NEW p \in Procs, NEW b \in Procs, NEW d, Local(p, b, d),
         load.pc = "live",
         \A q \in Procs : proc[q].pc \in {"e_get", "e_export"} => buf'[q] = buf[q] \/ q = p,
         \A q \in Procs \ {p} : proc[q].pc \in CreatePc =>
           obj'[proc[q].dev].minor_off = obj[proc[q].dev].minor_off,
         ProcInv(p)', BufInv(b)',
         p # b => (proc'[p].pc = "e_fd" <=> proc[p].pc = "e_fd"),
         \A c \in Procs \ {b} : proc'[p].import = c <=> proc[p].import = c,
         d \in Dynamic => DynInv(d)', d \in Static => StaticInv(d)',
         \A m \in Ids : MinorInv(m)', ListInv'
  PROVE  LifeInv'
<1>1. \A q \in Procs : ProcInv(q)'
  BY ThreadKeep DEF LifeInv
<1>2. \A c \in Procs : BufInv(c)'
  BY BufKeep DEF LifeInv
<1>3. \A e \in Dynamic : DynInv(e)'
  BY DynKeep DEF LifeInv
<1>4. \A e \in Static : StaticInv(e)'
  BY StaticKeep DEF LifeInv
<1>5. LoadInv'
  BY DEF LifeInv, LoadInv, Local, modVars, DevicePc
<1> QED BY <1>1, <1>2, <1>3, <1>4, <1>5 DEF LifeInv

-----------------------------------------------------------------------------
(* Steps that touch neither a device nor a buffer.                         *)

\* A thread that is in a call, or has a file or a buffer, runs beside a module
\* that is loaded.
LEMMA Live ==
  ASSUME LifeInv, NEW p \in Procs,
         \/ proc[p].pc # "idle" \/ proc[p].file # NoDev \/ proc[p].icdev # NoDev
         \/ buf[p].fd \/ buf[p].ref # 0 \/ load.pc = "live"
  PROVE  load.pc = "live" /\ kbuf_ndevices > 0
<1>1. load.pc # "live" => proc[p] = NoCall /\ buf[p] = NoBuf
  BY DEF LifeInv, LoadInv
<1>2. load.pc = "live"
  <2>1. /\ NoCall.pc = "idle" /\ NoCall.file = NoDev /\ NoCall.icdev = NoDev
        /\ NoBuf.fd = FALSE /\ NoBuf.ref = 0
    BY SMT DEF NoCall, NoBuf
  <2> QED BY <1>1, <2>1
<1> QED BY <1>2 DEF LifeInv, LoadInv

\* Nor does an open, an ioctl or a CREATE or DESTROY begin before.
LEMMA LiveGet ==
  ASSUME LoadedFirst, try_module_get
  PROVE  load.pc = "live"
BY DEF LoadedFirst, try_module_get

\* Steps at which a thread plays no part in a device.
OutsidePc == ProcPc \ (CreatePc \cup DestroyPc \cup {"struct", "e_export", "e_fd"})

\* A step of a thread that plays no part in a device, before or after.
LEMMA Quiet ==
  ASSUME LifeInv, NEW p \in Procs, load.pc = "live",
         proc' \in [Procs -> Thread], \A q \in Procs \ {p} : proc'[q] = proc[q],
         UNCHANGED <<obj, dynVars, buf, modVars>>, ProcInv(p)',
         proc[p].pc \in OutsidePc, proc'[p].pc \in OutsidePc,
         proc'[p].icdev = proc[p].icdev, proc'[p].import = proc[p].import,
         \A e \in Dynamic : proc'[p].file = e <=> proc[p].file = e
  PROVE  LifeInv'
<1>0. LifeType /\ ProcInv(p) /\ BufInv(p) /\ ListInv /\ \A m \in Ids : MinorInv(m)
  BY DEF LifeInv
<1>1. LifeType'
  BY <1>0 DEF LifeType, dynVars, modVars
<1>2. ASSUME NEW e \in Dynamic
      PROVE  SamePart(p, e)
  <2>1. p \notin Creating(e) \cup Destroying(e)
    BY DEF Creating, Destroying, OutsidePc, CreatePc, DestroyPc
  <2>2. p \notin Creating(e)' \cup Destroying(e)'
    BY DEF Creating, Destroying, OutsidePc, CreatePc, DestroyPc
  <2>3. p \notin Exporting(e) /\ p \notin Exporting(e)'
    BY DEF Exporting, OutsidePc
  <2> QED BY <1>2, <2>1, <2>2, <2>3 DEF SamePart
<1>3. Listed' = Listed /\ \A e : Exported(e)' = Exported(e)
  BY DEF Listed, Exported, dynVars
<1>4. NoDev \notin Devs
  BY LifeAssumption, SMT DEF NoDev, Devs, Static, Dynamic
<1>5. Local(p, p, NoDev)
  BY <1>0, <1>2, <1>3, SMT DEF Local, dynVars, LifeType
<1>6. BufInv(p)'
  <2>1. Importing(p)' = Importing(p)
    BY DEF Importing
  <2> QED BY <1>0, <2>1 DEF BufInv, OutsidePc, modVars, One
<1>7. ASSUME NEW m \in Ids
      PROVE  MinorInv(m)'
  <2>1. Pending(p, m)' <=> Pending(p, m)
    BY DEF Pending, OutsidePc
  <2> QED BY <1>0, <1>1, <1>4, <1>5, <2>1, MinorKeep DEF Devs, dynVars
<1>8. ListInv'
  BY <1>0 DEF ListInv, dynVars
<1> QED BY <1>1, <1>4, <1>5, <1>6, <1>7, <1>8, LocalStep DEF Devs

\* A call ends that holds nothing: CREATE and EXPORT after put_user, an open
\* after its log line, a DESTROY that finds nothing.
LEMMA CallEnds ==
  ASSUME LifeInv, NEW p \in Procs, load.pc = "live",
         proc[p].pc \in {"idle", "user", "opened", "e_user"}, proc' = Return(p),
         UNCHANGED <<obj, dynVars, buf, modVars>>
  PROVE  LifeInv'
<1>0. LifeType /\ ProcInv(p)
  BY DEF LifeInv
<1>1. Returns(p)
  BY <1>0, ReturnEffect
<1>2. proc' \in [Procs -> Thread]
  BY <1>0, <1>1, ProcRecord, SMT DEF Returns, Now, ProcPc
<1>3. proc[p].import = NoProc /\ proc[p].pc \in OutsidePc /\ proc'[p].pc \in OutsidePc
  BY <1>0, <1>1 DEF ProcInv, ImportPc, Returns, Now, OutsidePc, ProcPc, CtlPc, ExportPc,
     CreatePc, DestroyPc
<1>4. ProcInv(p)'
  BY <1>0, <1>1 DEF ProcInv, Returns, Now, CtlPc, ImportPc, ExportPc, CreatePc, DestroyPc,
     modVars
<1> QED BY <1>1, <1>2, <1>3, <1>4, Quiet DEF Returns, Now

-----------------------------------------------------------------------------
(* Who owns a device, and the last reference to it.                        *)

\* A device without references is not registered and has no users.
LEMMA NoUsers ==
  ASSUME LifeType, NEW d \in Dynamic, obj[d].ref = Holders(d)
  PROVE  /\ obj[d].ref = 0 => ~Registered(d)
         /\ obj[d].ref = 0 \/ (obj[d].ref = 1 /\ Registered(d)) =>
              Opened(d) = {} /\ Exported(d) = {} /\ Exporting(d) = {}
         /\ obj[d].ref \in Nat /\ Cardinality(Opened(d)) \in Nat
         /\ Cardinality(Exported(d)) \in Nat /\ Cardinality(Exporting(d)) \in Nat
<1>1. Opened(d) \in SUBSET Procs /\ Exported(d) \in SUBSET Procs /\ Exporting(d) \in SUBSET Procs
  BY DEF Opened, Exported, Exporting
<1>2. Cardinality(Opened(d)) = 0 <=> Opened(d) = {}
  BY <1>1, Count
<1>3. Cardinality(Exported(d)) = 0 <=> Exported(d) = {}
  BY <1>1, Count
<1>4. Cardinality(Exporting(d)) = 0 <=> Exporting(d) = {}
  BY <1>1, Count
<1>5. obj[d].ref \in Nat
  BY ObjRecord DEF Devs
<1>6. Cardinality(Opened(d)) \in Nat /\ Cardinality(Exported(d)) \in Nat /\ Cardinality(Exporting(d)) \in Nat
  BY <1>1, Count
<1> QED BY <1>2, <1>3, <1>4, <1>5, <1>6, SMT DEF Holders, One

\* What CREATE knows of the device it makes.
LEMMA Creator ==
  ASSUME LifeInv, NEW p \in Procs, proc[p].pc \in CreatePc, NEW d, d = proc[p].dev
  PROVE  /\ d \in Dynamic /\ d \in Devs /\ DynInv(d)
         /\ Creating(d) = {p} /\ Destroying(d) = {} /\ d \notin Listed /\ Registered(d)
         /\ obj[d].ref = 1 /\ obj[d].mem = CreateMem[proc[p].pc]
         /\ obj[d].minor_off = proc[p].id
         /\ obj[d].added <=> proc[p].pc \in {"device", "list"}
         /\ obj[d].device <=> proc[p].pc = "list"
         /\ Opened(d) = {} /\ Exported(d) = {} /\ Exporting(d) = {}
<1>1. LifeType /\ ProcInv(p)
  BY DEF LifeInv
<1>2. d \in Dynamic /\ obj[d].minor_off = proc[p].id
  BY <1>1 DEF ProcInv
<1>3. DynInv(d) /\ p \in Creating(d)
  BY <1>2 DEF LifeInv, Creating, CreatePc
<1>4. Creating(d) = {p} /\ Destroying(d) = {} /\ d \notin Listed
  <2>1. \A x, y \in Creating(d) \cup Destroying(d) : x = y
    BY <1>3 DEF DynInv, OneOwner
  <2>2. p \notin Destroying(d)
    BY DEF Destroying, CreatePc
  <2>3. d \notin Listed
    BY <1>3 DEF DynInv, OneOwner
  <2> QED BY <1>3, <2>1, <2>2, <2>3, SMT
<1>5. Registered(d)
  BY <1>3 DEF Registered
<1>6. /\ obj[d].ref = 1 /\ obj[d].mem = CreateMem[proc[p].pc]
      /\ obj[d].added <=> proc[p].pc \in {"device", "list"}
  BY <1>3 DEF DynInv, StageInv
<1>7. obj[d].device <=> proc[p].pc = "list"
  BY <1>3 DEF DynInv, StageInv
<1>8. Opened(d) = {} /\ Exported(d) = {} /\ Exporting(d) = {}
  BY <1>1, <1>2, <1>3, <1>5, <1>6, NoUsers DEF DynInv
<1> QED BY <1>2, <1>3, <1>4, <1>5, <1>6, <1>7, <1>8 DEF Devs

\* Ids are natural numbers.
LEMMA IdsNat == Ids \in SUBSET Nat /\ 0 \in Ids
BY LifeAssumption, SMT DEF Ids

\* A thread that returned is one.
LEMMA ReturnsType ==
  ASSUME LifeType, NEW p \in Procs, Returns(p)
  PROVE  proc' \in [Procs -> Thread]
<1>1. "idle" \in ProcPc /\ 0 \in Nat /\ {} \subseteq Steps
  BY DEF ProcPc
<1>2. {NoDev, proc[p].file, proc[p].icdev} \subseteq Devs \cup {NoDev}
  BY ProcRecord
<1> QED BY <1>1, <1>2 DEF Returns, Now

\* kref_put: the last reference takes ring, struct and minor along.
Drops(d) ==
  /\ Becomes(d, IF obj[d].ref > 1 THEN obj[d].mem ELSE obj[d].mem \ (Ring \cup {"struct"}),
             obj[d].cdevRef, obj[d].added, obj[d].device, obj[d].ref - 1, obj[d].minor_off)
  /\ kbuf_dyn_ida' = IF obj[d].ref > 1 THEN kbuf_dyn_ida ELSE kbuf_dyn_ida \ {obj[d].minor_off}

\* That is what kref_put does.
LEMMA KrefPut ==
  ASSUME LifeType, NEW d \in Devs, obj[d].ref > 0, kref_put(d)
  PROVE  Drops(d)
<1>0. obj[d] \in Object /\ obj[d].ref \in Nat
  BY ObjRecord
<1>1. CASE obj[d].ref > 1
  <2>1. obj' = [obj EXCEPT ![d].ref = obj[d].ref - 1] /\ kbuf_dyn_ida' = kbuf_dyn_ida
    BY <1>1 DEF kref_put
  <2>2. Becomes(d, obj[d].mem, obj[d].cdevRef, obj[d].added, obj[d].device, obj[d].ref - 1,
                obj[d].minor_off)
    BY <2>1, RefEffect
  <2> QED BY <1>1, <2>1, <2>2 DEF Drops
<1>2. CASE ~(obj[d].ref > 1)
  <2>1. /\ obj' = [obj EXCEPT ![d] = kbuf_dev_release(obj[d])]
        /\ kbuf_dyn_ida' = kbuf_dyn_ida \ {obj[d].minor_off}
    BY <1>2 DEF kref_put
  <2>2. Becomes(d, obj[d].mem \ (Ring \cup {"struct"}), obj[d].cdevRef, obj[d].added,
                obj[d].device, 0, obj[d].minor_off)
    BY <1>0, <2>1, ReleaseRecord, BecomesRecord
  <2>3. obj[d].ref - 1 = 0
    BY <1>0, <1>2, SMT
  <2> QED BY <1>2, <2>1, <2>2, <2>3 DEF Drops
<1> QED BY <1>1, <1>2

\* The fields after it.
LEMMA DropFields ==
  ASSUME LifeType, NEW d \in Devs, obj[d].ref > 0, Drops(d)
  PROVE  /\ obj'[d].mem = IF obj[d].ref > 1 THEN obj[d].mem ELSE obj[d].mem \ (Ring \cup {"struct"})
         /\ obj'[d].cdevRef = obj[d].cdevRef /\ obj'[d].added = obj[d].added
         /\ obj'[d].device = obj[d].device /\ obj'[d].ref = obj[d].ref - 1
         /\ obj'[d].minor_off = obj[d].minor_off
         /\ \A e \in Devs \ {d} : obj'[e] = obj[e]
         /\ obj[d].ref \in Nat /\ obj'[d].ref \in Nat /\ obj[d].mem \subseteq Parts
         /\ obj' \in [Devs -> Object] /\ kbuf_dyn_ida' \subseteq Ids
<1>1. /\ obj[d].mem \subseteq Parts /\ obj[d].cdevRef \in Nat
      /\ obj[d].added \in BOOLEAN /\ obj[d].device \in BOOLEAN
      /\ obj[d].ref \in Nat /\ obj[d].minor_off \in Ids
  BY ObjRecord
<1>2. obj[d].ref - 1 \in Nat
  BY <1>1, SMT
<1> DEFINE m == IF obj[d].ref > 1 THEN obj[d].mem ELSE obj[d].mem \ (Ring \cup {"struct"})
<1>3. m \subseteq Parts
  BY <1>1
<1>4. Becomes(d, m, obj[d].cdevRef, obj[d].added, obj[d].device, obj[d].ref - 1, obj[d].minor_off)
  BY DEF Drops
<1>5. kbuf_dyn_ida' \subseteq Ids
  BY DEF Drops, LifeType
<1>6. obj' \in [Devs -> Object]
  BY <1>1, <1>2, <1>3, <1>4 DEF Becomes
<1>7. /\ obj'[d].mem = m /\ obj'[d].cdevRef = obj[d].cdevRef /\ obj'[d].added = obj[d].added
      /\ obj'[d].device = obj[d].device /\ obj'[d].ref = obj[d].ref - 1
      /\ obj'[d].minor_off = obj[d].minor_off /\ \A e \in Devs \ {d} : obj'[e] = obj[e]
  BY <1>4 DEF Becomes
<1> QED BY <1>1, <1>2, <1>5, <1>6, <1>7

\* A device one of whose holders lets go.
LEMMA DropInv ==
  ASSUME LifeType, NEW d \in Dynamic, DynInv(d), obj[d].ref > 0, Drops(d), created' = created,
         Creating(d) = {}, Creating(d)' = {}, Holders(d)' = Holders(d) - 1,
         Inodes(d)' = Inodes(d), OneOwner(d)', StageInv(d)'
  PROVE  DynInv(d)'
<1>0. d \in Devs
  BY DEF Devs
<1>1. /\ obj'[d].mem = IF obj[d].ref > 1 THEN obj[d].mem ELSE obj[d].mem \ (Ring \cup {"struct"})
      /\ obj'[d].cdevRef = obj[d].cdevRef /\ obj'[d].added = obj[d].added
      /\ obj'[d].ref = obj[d].ref - 1
      /\ obj[d].ref \in Nat /\ obj'[d].ref \in Nat /\ obj[d].mem \subseteq Parts
  BY <1>0, DropFields
<1>2. /\ obj[d].ref = Holders(d) /\ CdevInv(d) /\ MemInv(d)
      /\ d >= KBUF_MAX_NDEVICES + created => obj[d] = NoObj
  BY DEF DynInv
<1>3. CdevInv(d)'
  <2>1. CdevOwned(d)' <=> CdevOwned(d)
    BY <1>1 DEF CdevOwned
  <2> QED BY <1>1, <1>2, <2>1 DEF CdevInv, One
<1>4. MemInv(d)'
  <2>1. "cdev" \in obj'[d].mem <=> "cdev" \in obj[d].mem
    BY <1>1 DEF Ring
  <2>0. obj'[d].ref = 0 => ~(obj[d].ref > 1)
    BY <1>1, SMT
  <2>2. obj'[d].ref = 0 => obj'[d].mem \subseteq {"cdev"}
    BY <1>1, <2>0 DEF Parts
  <2>3. obj'[d].ref # 0 => obj'[d].mem = obj[d].mem
    BY <1>1, SMT
  <2>4. /\ obj[d].ref # 0 /\ (obj'[d].ref # 0 => obj'[d].ref > 0) /\ ~(0 > 0)
    BY <1>1, SMT
  <2>5. /\ "cdev" \in obj[d].mem <=> obj[d].cdevRef > 0
        /\ "struct" \in obj[d].mem /\ Ring \subseteq obj[d].mem
    BY <1>2, <2>4 DEF MemInv
  <2>6. obj'[d].ref > 0 => obj'[d].ref # 0
    BY <2>4
  <2> QED BY <1>1, <2>1, <2>2, <2>3, <2>5, <2>6 DEF MemInv
<1>5. ~(d >= KBUF_MAX_NDEVICES + created')
  BY <1>2, SMT DEF NoObj
<1> QED BY <1>1, <1>2, <1>3, <1>4, <1>5 DEF DynInv

\* The minors after it.
LEMMA DropMinor ==
  ASSUME LifeInv, NEW d \in Dynamic, obj[d].ref > 0, Drops(d), NEW m \in Ids,
         \A q \in Procs : Pending(q, m)' <=> Pending(q, m)
  PROVE  MinorInv(m)'
<1>0. LifeType /\ DynInv(d) /\ MinorInv(m) /\ d \in Devs
  BY DEF LifeInv, Devs
<1>1. /\ obj'[d].mem = IF obj[d].ref > 1 THEN obj[d].mem ELSE obj[d].mem \ (Ring \cup {"struct"})
      /\ obj'[d].minor_off = obj[d].minor_off
      /\ \A e \in Devs \ {d} : obj'[e] = obj[e]
  BY <1>0, DropFields
<1>2. "struct" \in obj[d].mem /\ ("struct" \in obj'[d].mem <=> obj[d].ref > 1)
  BY <1>0, <1>1, SMT DEF DynInv, MemInv
<1>3. \A e \in Dynamic : MinorOf(e, m)' <=> MinorOf(e, m) /\ (e # d \/ obj[d].ref > 1)
  BY <1>1, <1>2 DEF MinorOf, Devs
<1>4. MinorOf(d, m) <=> m = obj[d].minor_off
  BY <1>2 DEF MinorOf
<1>5. m \in kbuf_dyn_ida' <=> m \in kbuf_dyn_ida /\ (obj[d].ref > 1 \/ ~MinorOf(d, m))
  BY <1>4 DEF Drops
<1> QED BY <1>0, <1>3, <1>5 DEF MinorInv

\* The first device on the list with that id.
LEMMA FindOnList ==
  ASSUME LifeType, NEW off, ListFind(off) # {}
  PROVE  /\ Min(ListFind(off)) \in DOMAIN kbuf_dyn_list
         /\ kbuf_dyn_list[Min(ListFind(off))] \in Dynamic
         /\ kbuf_dyn_list[Min(ListFind(off))] \in Listed
<1>1. kbuf_dyn_list \in Seq(Dynamic) /\ DOMAIN kbuf_dyn_list \subseteq Nat
  BY SMT DEF LifeType
<1>2. ListFind(off) \subseteq DOMAIN kbuf_dyn_list
  BY DEF ListFind
<1>3. Min(ListFind(off)) \in ListFind(off)
  BY <1>1, <1>2, MinExists
<1>4. Min(ListFind(off)) \in DOMAIN kbuf_dyn_list
  BY <1>2, <1>3
<1> QED BY <1>1, <1>4, SMT DEF Listed, Range

\* Two sets that differ in one thread only.
LEMMA CountDelta ==
  ASSUME NEW S \in SUBSET Procs, NEW T \in SUBSET Procs, NEW p \in Procs,
         \A q \in Procs \ {p} : q \in T <=> q \in S
  PROVE  /\ Cardinality(S) \in Nat /\ Cardinality(T) \in Nat
         /\ Cardinality(T) = Cardinality(S) + One(p \in T) - One(p \in S)
<1>0. Cardinality(S) \in Nat /\ Cardinality(T) \in Nat
  BY Count
<1>1. CASE p \in S /\ p \in T
  <2>1. S = T
    BY <1>1, SMT
  <2> QED BY <1>0, <1>1, <2>1, SMT DEF One
<1>2. CASE p \notin S /\ p \notin T
  <2>1. S = T
    BY <1>2, SMT
  <2> QED BY <1>0, <1>2, <2>1, SMT DEF One
<1>3. CASE p \in S /\ p \notin T
  <2>1. T = S \ {p}
    BY <1>3
  <2>2. Cardinality(S \ {p}) = Cardinality(S) - 1
    BY <1>3, CountOut
  <2> QED BY <1>0, <1>3, <2>1, <2>2, SMT DEF One
<1>4. CASE p \notin S /\ p \in T
  <2>1. T = S \cup {p}
    BY <1>4
  <2>2. Cardinality(S \cup {p}) = Cardinality(S) + 1
    BY <1>4, CountIn
  <2> QED BY <1>0, <1>4, <2>1, <2>2, SMT DEF One
<1> QED BY <1>1, <1>2, <1>3, <1>4
=============================================================================
