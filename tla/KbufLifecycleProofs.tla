------------------------ MODULE KbufLifecycleProofs ------------------------
(***************************************************************************)
(* References, memory and minors of the lifetime model, for any number of  *)
(* threads, devices and ids. LifeInv implies the properties of             *)
(* KbufLifecycle, and it is inductive when files are opened only after     *)
(* kbuf_init has returned.                                                 *)
(***************************************************************************)
EXTENDS KbufCtlProofs, KbufDmabufProofs

\* The leaves that say nothing else are for Zenon.
USE Zenon

-----------------------------------------------------------------------------
(* What LifeInv says of the references, the memory and the minors.         *)

\* A list of dynamic devices.
LEMMA ListedDynamic == ASSUME LifeType PROVE Listed \subseteq Dynamic
<1>1. kbuf_dyn_list \in Seq(Dynamic)
  BY DEF LifeType
<1>2. \A i \in DOMAIN kbuf_dyn_list : kbuf_dyn_list[i] \in Dynamic
  BY <1>1, SMT
<1> QED BY <1>2 DEF Listed, Range

\* A static device in use is complete.
LEMMA StaticUsed ==
  ASSUME LifeInv, NEW d \in Static, d < kbuf_ndevices, load.pc = "live"
  PROVE  Full(d) /\ Ring \cup {"struct"} \subseteq obj[d].mem
<1>1. Full(d)
  BY DEF LifeInv, StaticInv, ReadyPc
<1> QED BY <1>1 DEF Full

\* A registered device has a reference.
LEMMA RegisteredHeld ==
  ASSUME LifeInv, NEW d \in Dynamic, Registered(d)
  PROVE  obj[d].ref > 0 /\ "struct" \in obj[d].mem
<1>1. LifeType /\ DynInv(d) /\ obj[d].ref = Holders(d)
  BY DEF LifeInv, DynInv
<1>2. obj[d].ref # 0 /\ obj[d].ref \in Nat
  BY <1>1, NoUsers
<1>3. obj[d].ref > 0
  BY <1>2, SMT
<1> QED BY <1>1, <1>2, <1>3 DEF DynInv, MemInv

\* The kref and the dma-buf count are the numbers of their holders (kref_get,
\* kref_put, dma_buf_put), by DynInv and BufInv.
LEMMA LifeRefBalance == ASSUME LifeInv PROVE RefBalance
<1>1. ASSUME NEW d \in Dynamic
      PROVE  /\ obj[d].ref = One(Registered(d)) + Cardinality(Opened(d))
                               + Cardinality(Exported(d)) + Cardinality(Exporting(d))
             /\ obj[d].ref = 0 <=> "struct" \notin obj[d].mem
  <2>1. obj[d].ref = Holders(d) /\ MemInv(d)
    BY DEF LifeInv, DynInv
  <2>2. obj[d].ref = 0 <=> "struct" \notin obj[d].mem
    BY <2>1 DEF MemInv
  <2> QED BY <2>1, <2>2 DEF Holders
<1>2. ASSUME NEW b \in Procs
      PROVE  buf[b].ref = One(buf[b].fd) + One(proc[b].pc = "e_fd") + Cardinality(Importing(b))
  BY DEF LifeInv, BufInv
<1> QED BY <1>1, <1>2 DEF RefBalance

\* A file, a dma-buf or the list keeps the kref above 0, so kbuf_dev_release has
\* not run; an inode keeps the cdev, and an import the platform device.
LEMMA LifeHeldAlive == ASSUME LifeInv PROVE HeldAlive
<1>0. LifeType
  BY DEF LifeInv
<1>1. ASSUME NEW d \in Devs, Opened(d) \cup Exported(d) # {} \/ d \in Listed
      PROVE  Ring \cup {"struct"} \subseteq obj[d].mem
  <2>1. CASE d \in Dynamic
    <3>1. obj[d].ref > 0 /\ Creating(d) = {}
      <4>1. CASE d \in Listed
        <5>1. Registered(d) /\ Creating(d) = {}
          BY <2>1, <4>1 DEF LifeInv, DynInv, OneOwner, Registered
        <5> QED BY <2>1, <5>1, RegisteredHeld
      <4>2. CASE Opened(d) \cup Exported(d) # {}
        BY <2>1, <4>2, HasUser
      <4> QED BY <1>1, <4>1, <4>2
    <3>2. MemInv(d) /\ obj[d].ref # 0
      BY <2>1, <3>1, SMT DEF LifeInv, DynInv
    <3> QED BY <3>1, <3>2 DEF MemInv
  <2>2. CASE d \in Static
    <3>1. d \notin Dynamic /\ d \notin Listed
      BY <1>0, <2>2, TwoKinds, ListedDynamic
    <3>2. d < kbuf_ndevices /\ load.pc = "live"
      <4>1. CASE Opened(d) # {}
        <5>1. PICK p \in Procs : proc[p].file = d
          BY <4>1 DEF Opened
        <5>2. proc[p].file # NoDev
          BY <5>1, NoDevNumber
        <5> QED BY <2>2, <5>1, <5>2, Live DEF LifeInv, ProcInv
      <4>2. CASE Exported(d) # {}
        <5>1. PICK p \in Procs : buf[p].ref > 0 /\ buf[p].dev = d
          BY <4>2 DEF Exported
        <5>2. buf[p].ref # 0
          BY <5>1, SMT
        <5>3. d \in 0..(kbuf_ndevices - 1)
          BY <3>1, <5>1, <5>2 DEF LifeInv, BufInv
        <5>4. kbuf_ndevices \in Int
          BY <1>0, SMT DEF LifeType
        <5>5. d < kbuf_ndevices
          BY <5>3, <5>4, SMT
        <5> QED BY <5>2, <5>5, Live
      <4> QED BY <1>1, <3>1, <4>1, <4>2
    <3> QED BY <2>2, <3>2, StaticUsed
  <2> QED BY <2>1, <2>2 DEF Devs
<1>2. ASSUME NEW p \in Procs, proc[p].icdev # NoDev
      PROVE  (IF proc[p].icdev \in Static THEN "struct" ELSE "cdev") \in obj[proc[p].icdev].mem
  <2> DEFINE d == proc[p].icdev
  <2>1. d \in Devs
    BY <1>0, <1>2, ProcRecord
  <2>2. CASE d \in Static
    <3>1. d < kbuf_ndevices /\ load.pc = "live"
      BY <1>2, <2>2, Live DEF LifeInv, ProcInv
    <3> QED BY <2>2, <3>1, StaticUsed
  <2>3. CASE d \in Dynamic
    <3>1. CdevInv(d) /\ MemInv(d) /\ d \notin Static
      BY <2>3, TwoKinds DEF LifeInv, DynInv
    <3>2. Inodes(d) \in SUBSET Procs /\ Inodes(d) # {}
      BY DEF Inodes
    <3>3. Cardinality(Inodes(d)) \in Nat /\ Cardinality(Inodes(d)) # 0
      BY <3>2, Count
    <3>4. One(CdevOwned(d)) \in Nat
      BY SMT DEF One
    <3>5. obj[d].cdevRef > 0
      BY <3>1, <3>3, <3>4, SMT DEF CdevInv
    <3> QED BY <3>1, <3>5 DEF MemInv
  <2> QED BY <2>1, <2>2, <2>3 DEF Devs
<1>3. ASSUME NEW p \in Procs, proc[p].import # NoProc PROVE "pdev" \in res
  <2>1. proc[p].pc \in ImportPc
    BY <1>3 DEF LifeInv, ProcInv
  <2>2. load.pc = "live"
    BY <2>1, Live DEF ImportPc
  <2> QED BY <2>2, ResAtIs DEF LifeInv, LoadInv, ResType
<1> QED BY <1>1, <1>2, <1>3 DEF HeldAlive

\* cdev_add comes after the ring is allocated and cdev_del before it is freed.
LEMMA LifeReachableReady == ASSUME LifeInv PROVE ReachableReady
<1>0. LifeType /\ LoadInv
  BY DEF LifeInv
<1>1. ASSUME NEW d \in Devs, obj[d].added PROVE Ring \cup {"struct"} \subseteq obj[d].mem
  <2>1. CASE d \in Dynamic
    <3>1. Registered(d) /\ DynInv(d)
      BY <1>1, <2>1 DEF LifeInv, DynInv, StageInv
    <3>2. CASE Creating(d) = {}
      <4>1. obj[d].ref > 0 /\ "struct" \in obj[d].mem
        BY <2>1, <3>1, RegisteredHeld
      <4> QED BY <3>1, <3>2, <4>1 DEF DynInv, MemInv
    <3>3. ASSUME NEW p \in Creating(d) PROVE Ring \cup {"struct"} \subseteq obj[d].mem
      <4>1. /\ proc[p].pc \in {"device", "list"}
            /\ obj[d].mem = CreateMem[proc[p].pc]
        BY <1>1, <3>1, <3>3 DEF DynInv, StageInv
      <4>2. CreateMem["device"] = Parts /\ CreateMem["list"] = Parts
        BY SMT DEF CreateMem
      <4> QED BY <4>1, <4>2 DEF Parts
    <3> QED BY <3>2, <3>3
  <2>2. CASE d \in Static
    <3>1. ~None(d) /\ ~Bare(d) /\ StaticInv(d)
      BY <1>1, <2>2 DEF None, Bare, LifeInv
    <3>2. load.pc \in LoadPc
      BY <1>0 DEF LifeType
    <3>3. ~(d >= kbuf_ndevices) /\ load.pc \notin {"out", "array"}
      BY <3>1 DEF StaticInv
    <3>4. d < kbuf_ndevices
      BY <1>0, <2>2, <3>3, LifeAssumption, SMT DEF LifeType, Static
    <3>5. Full(d) \/ (Half(d) /\ load.pc \in DevicePc)
      BY <3>1, <3>2, <3>3, <3>4 DEF StaticInv, LoadPc, InitPc, DevicePc, ReadyPc
    <3>6. InitMem["device"] = Ring \cup {"struct"}
      BY SMT DEF InitMem
    <3>7. Full(d) \/ obj[d].mem = Ring \cup {"struct"}
      BY <1>1, <3>5, <3>6 DEF Half
    <3> QED BY <3>7 DEF Full
  <2> QED BY <2>1, <2>2 DEF Devs
<1> QED BY <1>1 DEF ReachableReady

\* Memory goes with the counts, and a count above 0 has a holder. So the error
\* labels of kbuf_dyn_create leave no allocation behind.
LEMMA LifeNothingLost == ASSUME LifeInv PROVE NothingLost
<1>0. LifeType
  BY DEF LifeInv
<1>1. ASSUME NEW d \in Dynamic, obj[d].mem \cap (Ring \cup {"struct"}) # {}
      PROVE  Registered(d) \/ Opened(d) \cup Exported(d) \cup Exporting(d) # {}
  <2>1. obj[d].ref = Holders(d) /\ MemInv(d)
    BY DEF LifeInv, DynInv
  <2>2. obj[d].ref # 0
    BY <1>1, <2>1 DEF MemInv, Ring
  <2>3. SUFFICES ASSUME ~Registered(d), Opened(d) = {}, Exported(d) = {}, Exporting(d) = {}
                 PROVE  FALSE
    OBVIOUS
  <2>4. obj[d].ref = One(FALSE) + Cardinality({}) + Cardinality({}) + Cardinality({})
    BY <2>1, <2>3 DEF Holders, One
  <2> QED BY <2>2, <2>4, CountNone, SMT DEF One
<1>2. ASSUME NEW d \in Dynamic, "cdev" \in obj[d].mem
      PROVE  Registered(d) \/ \E p \in Procs : proc[p].icdev = d
  <2>1. CdevInv(d) /\ MemInv(d) /\ StageInv(d)
    BY DEF LifeInv, DynInv
  <2>2. obj[d].cdevRef > 0
    BY <1>2, <2>1 DEF MemInv
  <2>3. SUFFICES ASSUME ~Registered(d), Inodes(d) = {} PROVE FALSE
    BY DEF Inodes
  <2>4. ~CdevOwned(d)
    BY <2>1, <2>3 DEF CdevOwned, Registered, StageInv
  <2>5. obj[d].cdevRef = One(FALSE) + Cardinality({})
    BY <2>1, <2>3, <2>4 DEF CdevInv, One
  <2> QED BY <2>2, <2>5, CountNone, SMT DEF One
<1>3. ASSUME NEW p \in Procs, proc[p].pc = "idle" PROVE proc[p].held = {}
  BY <1>3 DEF LifeInv, ProcInv, ImportPc
<1> QED BY <1>1, <1>2, <1>3 DEF NothingLost

\* At err_devices and in kbuf_exit the devices still to be torn down are complete.
LEMMA LifeTeardownExact == ASSUME LifeInv PROVE TeardownExact
<1>1. ASSUME load.pc = "teardown", NEW d \in Static
      PROVE  IF d \in load.i..(load.n - 1)
             THEN obj[d].added /\ obj[d].device /\ obj[d].mem = Ring \cup {"struct"}
             ELSE ~obj[d].added /\ ~obj[d].device /\ obj[d].mem \subseteq {"struct"}
  <2>1. /\ StaticInv(d) /\ load.n <= kbuf_ndevices /\ LifeType
    BY <1>1 DEF LifeInv, LoadInv
  <2>2. /\ d \in Nat /\ kbuf_ndevices \in Nat /\ load.i \in Nat /\ load.n \in Nat
    BY <2>1, LifeAssumption, SMT DEF LifeType, Static
  <2>3. d \in load.i..(load.n - 1) => d < kbuf_ndevices
    BY <2>1, <2>2, SMT
  <2>4. d < kbuf_ndevices \/ d >= kbuf_ndevices
    BY <2>2, SMT
  <2>5. IF d \in load.i..(load.n - 1) THEN Full(d) ELSE Bare(d) \/ None(d)
    BY <1>1, <2>1, <2>3, <2>4 DEF StaticInv
  <2> QED BY <2>5 DEF Full, Bare, None
<1> QED BY <1>1 DEF TeardownExact

\* Outside kbuf_init and kbuf_exit a module that is not live has released
\* everything: no resource, no device, no minor.
LEMMA LifeNothingLeft == ASSUME LifeInv PROVE NothingLeft
<1> SUFFICES ASSUME load.pc = "out" PROVE NothingLeft
  BY DEF NothingLeft
<1>0. LifeType /\ LoadInv
  BY DEF LifeInv
<1>1. res = {} /\ kbuf_dyn_list = <<>> /\ Alone
  BY <1>0, ResAtIs DEF LoadInv, Alone
<1>2. Listed = {}
  <2>1. DOMAIN kbuf_dyn_list = {}
    BY <1>1, SMT
  <2> QED BY <2>1 DEF Listed, Range
<1>3. ASSUME NEW d \in Dynamic PROVE obj[d].mem = {} /\ ~obj[d].added /\ ~obj[d].device
  <2>1. /\ obj[d].ref = One(FALSE) /\ ~Registered(d) /\ obj[d].cdevRef = One(obj[d].added)
    BY <1>1, <1>2, ListedHolds DEF One
  <2>2. ~obj[d].added /\ ~obj[d].device
    BY <2>1 DEF LifeInv, DynInv, StageInv
  <2>3. obj[d].ref = 0 /\ ~(obj[d].cdevRef > 0)
    BY <2>1, <2>2, SMT DEF One
  <2>4. obj[d].mem = {}
    BY <2>3 DEF LifeInv, DynInv, MemInv
  <2> QED BY <2>2, <2>4
<1>4. ASSUME NEW d \in Static PROVE obj[d].mem = {} /\ ~obj[d].added /\ ~obj[d].device
  BY DEF LifeInv, StaticInv, None
<1>5. kbuf_dyn_ida = {}
  <2> SUFFICES ASSUME NEW m \in kbuf_dyn_ida PROVE FALSE
    OBVIOUS
  <2>1. m \in Ids
    BY <1>0 DEF LifeType
  <2>2. \A d \in Dynamic : ~MinorOf(d, m)
    BY <1>3 DEF MinorOf
  <2>3. \A p \in Procs : ~Pending(p, m)
    <3>1. NoCall.pc # "struct"
      BY DEF NoCall
    <3> QED BY <1>1, <3>1 DEF Alone, Pending
  <2> QED BY <2>1, <2>2, <2>3 DEF LifeInv, MinorInv
<1> QED BY <1>1, <1>3, <1>4, <1>5 DEF NothingLeft, Devs

\* While kbuf_exit drains the list nobody is in a call or holds a file or a
\* dma-buf, so the list has the only reference.
LEMMA LifeExitAlone == ASSUME LifeInv PROVE ExitAlone
<1> SUFFICES ASSUME load.pc \in {"drain", "reports"} PROVE ExitAlone
  BY DEF ExitAlone
<1>1. Alone
  BY DEF LifeInv, LoadInv, Alone
<1>2. \A d \in Dynamic : obj[d].ref = One(d \in Listed)
  BY <1>1, ListedHolds
<1> QED BY <1>1, <1>2 DEF ExitAlone, Alone

\* Counting what an injective function takes on.
LEMMA CountImage ==
  ASSUME NEW S, IsFiniteSet(S), NEW f, f \in [S -> Range(f)], \A x, y \in S : f[x] = f[y] => x = y
  PROVE  IsFiniteSet(Range(f)) /\ Cardinality(Range(f)) = Cardinality(S)
<1>1. f \in Bijection(S, Range(f))
  BY DEF Bijection, Injection, IsInjective, Surjection, Range
<1> QED BY <1>1, FS_Bijection DEF ExistsBijection

\* ida_alloc_max and ida_free keep one id per device: those of the devices that
\* exist and of the CREATEs that have no struct yet.
LEMMA LifeMinorExclusive == ASSUME LifeInv PROVE MinorExclusive
<1> DEFINE live == {d \in Dynamic : "struct" \in obj[d].mem}
           pending == {p \in Procs : proc[p].pc = "struct"}
           A == {obj[d].minor_off : d \in live}
           B == {proc[p].id : p \in pending}
<1>0. LifeType
  BY DEF LifeInv
<1>1. ASSUME NEW d \in live PROVE d \in Dynamic /\ obj[d].minor_off \in Ids /\ MinorOf(d, obj[d].minor_off)
  BY <1>0, ObjRecord, TwoKinds DEF MinorOf
<1>2. ASSUME NEW p \in pending PROVE p \in Procs /\ proc[p].id \in Ids /\ Pending(p, proc[p].id)
  BY DEF LifeInv, ProcInv, Pending
<1>3. kbuf_dyn_ida = A \cup B
  <2>1. ASSUME NEW m \in kbuf_dyn_ida PROVE m \in A \cup B
    <3>1. m \in Ids
      BY <1>0 DEF LifeType
    <3>2. (\E d \in Dynamic : MinorOf(d, m)) \/ (\E p \in Procs : Pending(p, m))
      BY <3>1 DEF LifeInv, MinorInv
    <3> QED BY <3>2 DEF MinorOf, Pending
  <2>2. ASSUME NEW m \in A PROVE m \in kbuf_dyn_ida
    BY <1>1 DEF LifeInv, MinorInv
  <2>3. ASSUME NEW m \in B PROVE m \in kbuf_dyn_ida
    BY <1>2 DEF LifeInv, MinorInv
  <2> QED BY <2>1, <2>2, <2>3
<1>4. A \cap B = {}
  <2> SUFFICES ASSUME NEW m \in A, m \in B PROVE FALSE
    OBVIOUS
  <2>1. PICK d \in live : m = obj[d].minor_off
    OBVIOUS
  <2>2. PICK p \in pending : m = proc[p].id
    OBVIOUS
  <2>3. MinorInv(m) /\ MinorOf(d, m) /\ Pending(p, m)
    BY <1>1, <1>2, <2>1, <2>2 DEF LifeInv
  <2> QED BY <2>3 DEF MinorInv
<1>5. IsFiniteSet(live) /\ IsFiniteSet(pending)
  <2>1. IsFiniteSet(Dynamic)
    <3>1. KBUF_MAX_NDEVICES \in Int /\ KBUF_MAX_NDEVICES + MaxCreates - 1 \in Int
      BY LifeAssumption, SMT
    <3> QED BY <3>1, FS_Interval DEF Dynamic
  <2>2. live \in SUBSET Dynamic /\ pending \in SUBSET Procs
    OBVIOUS
  <2> QED BY <2>1, <2>2, LifeAssumption, FS_Subset
<1>6. IsFiniteSet(A) /\ Cardinality(A) = Cardinality(live)
  <2> DEFINE f == [d \in live |-> obj[d].minor_off]
  <2>1. Range(f) = A /\ f \in [live -> Range(f)]
    BY DEF Range
  <2>2. ASSUME NEW d \in live, NEW e \in live, f[d] = f[e] PROVE d = e
    <3>1. MinorInv(obj[d].minor_off) /\ MinorOf(e, obj[d].minor_off) /\ MinorOf(d, obj[d].minor_off)
      BY <1>1, <2>2 DEF LifeInv
    <3> QED BY <1>1, <3>1 DEF MinorInv
  <2> HIDE DEF f, A, live
  <2> QED BY <1>5, <2>1, <2>2, CountImage
<1>7. IsFiniteSet(B) /\ Cardinality(B) = Cardinality(pending)
  <2> DEFINE f == [p \in pending |-> proc[p].id]
  <2>1. Range(f) = B /\ f \in [pending -> Range(f)]
    BY DEF Range
  <2>2. ASSUME NEW p \in pending, NEW q \in pending, f[p] = f[q] PROVE p = q
    <3>1. MinorInv(proc[p].id) /\ Pending(q, proc[p].id) /\ Pending(p, proc[p].id)
      BY <1>2, <2>2 DEF LifeInv
    <3> QED BY <1>2, <3>1 DEF MinorInv
  <2> HIDE DEF f, B, pending
  <2> QED BY <1>5, <2>1, <2>2, CountImage
<1>8. Cardinality(kbuf_dyn_ida) = Cardinality(live) + Cardinality(pending)
  <2>1. /\ Cardinality(A \cup B) = Cardinality(A) + Cardinality(B) - Cardinality(A \cap B)
        /\ Cardinality(A) \in Nat /\ Cardinality(B) \in Nat
    BY <1>6, <1>7, FS_Union, FS_CardinalityType
  <2>2. Cardinality(A \cap B) = 0
    BY <1>4, CountNone
  <2> HIDE DEF A, B, live, pending
  <2> QED BY <1>3, <1>6, <1>7, <2>1, <2>2, SMT
<1>9. ASSUME NEW d \in Dynamic, obj[d].added \/ obj[d].device PROVE d \in live
  <2>1. Registered(d)
    BY <1>9 DEF LifeInv, DynInv, StageInv
  <2> QED BY <2>1, RegisteredHeld
<1> QED BY <1>3, <1>8, <1>9 DEF MinorExclusive

-----------------------------------------------------------------------------
(* Files come only to devices on the list.                                 *)

\* Every thread keeps its open file or lets go of it.
FilesKept == \A q \in Procs : proc'[q].file \in {proc[q].file, NoDev}

\* A thread that keeps its file or lets go of it.
LEMMA NowKeeps ==
  ASSUME NEW p, NEW l, NEW dev, NEW id, NEW file, NEW icdev, NEW import, NEW held,
         Now(p, l, dev, id, file, icdev, import, held), file \in {proc[p].file, NoDev}
  PROVE  FilesKept
<1>1. ASSUME NEW q \in Procs PROVE proc'[q].file \in {proc[q].file, NoDev}
  <2>1. CASE q = p
    BY <2>1 DEF Now
  <2>2. CASE q # p
    BY <2>2 DEF Now
  <2> QED BY <2>1, <2>2
<1> QED BY <1>1 DEF FilesKept

\* Going on to another step of a call keeps the file.
LEMMA GoesKeeps ==
  ASSUME LifeType, NEW p \in Procs, NEW l, proc' = [proc EXCEPT ![p].pc = l]
  PROVE  FilesKept
<1>1. Goes(p, l)
  BY GoesEffect
<1> QED BY <1>1, NowKeeps DEF Goes

\* So does returning.
LEMMA ReturnKeeps ==
  ASSUME LifeType, NEW p \in Procs, proc' = Return(p)
  PROVE  FilesKept
<1>1. Returns(p)
  BY ReturnEffect
<1> QED BY <1>1, NowKeeps DEF Returns

\* So does the end of an IMPORT.
LEMMA EndKeeps ==
  ASSUME LifeType, NEW p \in Procs, NEW h, proc' = [Return(p) EXCEPT ![p].held = h]
  PROVE  FilesKept
<1> DEFINE t == [pc |-> "idle", dev |-> NoDev, id |-> 0, file |-> proc[p].file,
                 icdev |-> proc[p].icdev, import |-> NoProc, held |-> {}]
           R == Return(p)
<1>1. R = [proc EXCEPT ![p] = t]
  BY ReturnRecord
<1>2. proc' = [R EXCEPT ![p] = [R[p] EXCEPT !.held = h]]
  BY SMT
<1>3. [t EXCEPT !.held = h].file = proc[p].file
  OBVIOUS
<1> HIDE DEF R, t
<1>4. R[p] = t /\ DOMAIN R = Procs /\ \A q \in Procs \ {p} : R[q] = proc[q]
  BY <1>1, ProcRecord
<1>5. proc'[p].file = proc[p].file /\ \A q \in Procs \ {p} : proc'[q] = proc[q]
  BY <1>2, <1>3, <1>4
<1> QED BY <1>5 DEF FilesKept

\* No step of CREATE or DESTROY gives a thread a file.
LEMMA CtlKeeps ==
  ASSUME LifeType, NEW p \in Procs,
         kbuf_dyn_create_ida(p) \/ kbuf_ctl_destroy(p) \/ CtlStep(p)
  PROVE  FilesKept
<1>1. CASE kbuf_dyn_create_ida(p)
  <2>1. \E m : proc' = [proc EXCEPT ![p].pc = "struct", ![p].id = m]
    BY <1>1 DEF kbuf_dyn_create_ida
  <2> QED BY <2>1, IdEffect, NowKeeps
<1>2. ASSUME NEW off, kbuf_dyn_destroy_find(p, off) PROVE FilesKept
  <2>1. proc' = Return(p) \/ \E d : proc' = [proc EXCEPT ![p].pc = "d_device", ![p].dev = d]
    BY <1>2 DEF kbuf_dyn_destroy_find
  <2> QED BY <2>1, ReturnKeeps, DevEffect, NowKeeps
<1>3. CASE kbuf_ctl_destroy(p)
  BY <1>2, <1>3 DEF kbuf_ctl_destroy
<1>4. CASE kbuf_dyn_create_struct(p)
  <2>1. proc' = Return(p) \/ \E d : proc' = [proc EXCEPT ![p].pc = "slots", ![p].dev = d]
    BY <1>4 DEF kbuf_dyn_create_struct
  <2> QED BY <2>1, ReturnKeeps, DevEffect, NowKeeps
<1>5. CASE kbuf_dyn_create_alloc(p)
  <2> DEFINE l == CASE proc[p].pc = "slots" -> "ctrl" [] proc[p].pc = "ctrl" -> "data"
                    [] proc[p].pc = "data" -> "cdev" [] OTHER -> "add"
  <2>1. proc' = [proc EXCEPT ![p].pc = l]
    BY <1>5 DEF kbuf_dyn_create_alloc
  <2> HIDE DEF l
  <2> QED BY <2>1, GoesKeeps
<1>6. CASE kbuf_dyn_create_register(p)
  <2>1. \E l : proc' = [proc EXCEPT ![p].pc = l]
    BY <1>6 DEF kbuf_dyn_create_register
  <2> QED BY <2>1, GoesKeeps
<1>7. CASE kbuf_dyn_create_fail(p)
  BY <1>7, ReturnKeeps DEF kbuf_dyn_create_fail
<1>8. CASE kbuf_ctl_create_user(p)
  BY <1>2, <1>8, ReturnKeeps DEF kbuf_ctl_create_user
<1>9. CASE kbuf_dyn_teardown(p)
  <2>1. proc' = Return(p) \/ \E l : proc' = [proc EXCEPT ![p].pc = l]
    BY <1>9 DEF kbuf_dyn_teardown
  <2> QED BY <2>1, ReturnKeeps, GoesKeeps
<1> QED BY <1>1, <1>3, <1>4, <1>5, <1>6, <1>7, <1>8, <1>9 DEF CtlStep

\* Neither does one of EXPORT or IMPORT, nor closing a dma-buf.
LEMMA DmabufKeeps ==
  ASSUME LifeType, NEW p \in Procs, kbuf_ioctl(p) \/ close_dmabuf(p) \/ DmabufStep(p)
  PROVE  FilesKept
<1>1. CASE kbuf_ioc_export(p)
  BY <1>1, GoesKeeps DEF kbuf_ioc_export
<1>2. ASSUME NEW b \in Procs, kbuf_ioc_import(p, b) PROVE FilesKept
  <2>1. proc' = [proc EXCEPT ![p].pc = "attach", ![p].import = b, ![p].held = {"ref"}]
    BY <1>2 DEF kbuf_ioc_import
  <2>2. Now(p, "attach", proc[p].dev, proc[p].id, proc[p].file, proc[p].icdev, b, {"ref"})
    BY <2>1, ImportEffect
  <2> QED BY <2>2, NowKeeps
<1>3. CASE close_dmabuf(p)
  BY <1>3 DEF close_dmabuf, FilesKept
<1>4. CASE kbuf_dmabuf_export_get(p)
  BY <1>4, GoesKeeps DEF kbuf_dmabuf_export_get
<1>5. CASE kbuf_dmabuf_export_wrap(p)
  BY <1>5, GoesKeeps, ReturnKeeps DEF kbuf_dmabuf_export_wrap
<1>6. CASE kbuf_dmabuf_export_fd(p)
  BY <1>6, GoesKeeps, ReturnKeeps DEF kbuf_dmabuf_export_fd
<1>7. CASE kbuf_ioc_export_user(p)
  BY <1>7, ReturnKeeps DEF kbuf_ioc_export_user
<1>8. CASE kbuf_dmabuf_import_acquire(p)
  <2> DEFINE l == CASE proc[p].pc = "attach" -> "sgt" [] proc[p].pc = "sgt" -> "table"
                    [] proc[p].pc = "table" -> "map" [] OTHER -> "vmap"
             h == proc[p].held \cup {proc[p].pc}
  <2>1. proc' = [proc EXCEPT ![p].held = h, ![p].pc = l]
    BY <1>8 DEF kbuf_dmabuf_import_acquire
  <2> HIDE DEF l, h
  <2>2. Now(p, l, proc[p].dev, proc[p].id, proc[p].file, proc[p].icdev, proc[p].import, h)
    BY <2>1, AcquireEffect
  <2> QED BY <2>2, NowKeeps
<1>9. CASE kbuf_dmabuf_import_end(p)
  BY <1>9, EndKeeps DEF kbuf_dmabuf_import_end
<1> QED BY <1>1, <1>2, <1>3, <1>4, <1>5, <1>6, <1>7, <1>8, <1>9 DEF kbuf_ioctl, DmabufStep

\* kbuf_open gives its thread a static device or one that is on the list.
LEMMA OpenListed ==
  ASSUME LifeType, NEW p \in Procs, kbuf_open(p)
  PROVE  FilesKept \/ \E d \in Static \cup Listed :
                        /\ proc'[p].file = d
                        /\ \A q \in Procs \ {p} : proc'[q] = proc[q]
<1>0. proc[p].id \in Nat /\ kbuf_ndevices \in 0..KBUF_MAX_NDEVICES
  BY ProcRecord DEF LifeType
<1> DEFINE found == ListFind(proc[p].id - kbuf_ndevices)
<1>1. CASE /\ proc[p].id < kbuf_ndevices
           /\ proc' = [proc EXCEPT ![p].pc = "opened", ![p].file = proc[p].id]
  <2>1. proc[p].id \in Static
    BY <1>0, <1>1, LifeAssumption, SMT DEF Static
  <2>2. Now(p, "opened", proc[p].dev, proc[p].id, proc[p].id, proc[p].icdev,
            proc[p].import, proc[p].held)
    BY <1>1, FileEffect
  <2> QED BY <2>1, <2>2 DEF Now
<1>2. CASE /\ found # {}
           /\ proc' = [proc EXCEPT ![p].pc = "opened", ![p].file = kbuf_dyn_list[Min(found)]]
  <2>1. found \subseteq DOMAIN kbuf_dyn_list /\ DOMAIN kbuf_dyn_list \subseteq Nat
    BY SMT DEF LifeType, ListFind
  <2>2. Min(found) \in DOMAIN kbuf_dyn_list
    BY <1>2, <2>1, MinExists
  <2>3. kbuf_dyn_list[Min(found)] \in Listed
    BY <2>2 DEF Listed, Range
  <2> HIDE DEF found
  <2>4. Now(p, "opened", proc[p].dev, proc[p].id, kbuf_dyn_list[Min(found)], proc[p].icdev,
            proc[p].import, proc[p].held)
    BY <1>2, FileEffect
  <2> QED BY <2>3, <2>4 DEF Now
<1>3. CASE proc' = [proc EXCEPT ![p].pc = "cdev_put"]
  BY <1>3, GoesKeeps
<1> QED BY <1>1, <1>2, <1>3 DEF kbuf_open

\* No step but kbuf_open gives a thread a file.
LEMMA NextOpens ==
  ASSUME LifeInv, Next, NEW d \in Dynamic
  PROVE  Opened(d)' \subseteq Opened(d) \/ d \in Listed
<1>0. LifeType /\ NoDev # d /\ d \notin Static
  BY NoDevNumber, TwoKinds DEF LifeInv
<1>1. CASE FilesKept
  BY <1>0, <1>1 DEF FilesKept, Opened
<1>2. CASE proc' = proc
  BY <1>2 DEF Opened
<1>3. CASE \E n \in NdevicesReqs : kbuf_init(n)
  BY <1>2, <1>3 DEF kbuf_init
<1>4. CASE LoadStep
  <2>1. proc' = proc
    BY <1>4 DEF LoadStep, kbuf_init_global, kbuf_init_device, kbuf_init_device_fail,
       kbuf_init_reports, kbuf_dmabuf_init, kbuf_ctl_register, kbuf_ctl_unregister,
       kbuf_exit_reports, kbuf_teardown_devices, kbuf_exit_finish
  <2> QED BY <1>2, <2>1
<1>5. CASE kbuf_exit
  BY <1>2, <1>5 DEF kbuf_exit
<1>6. ASSUME NEW p \in Procs, Call(p) \/ close_dmabuf(p) \/ CtlStep(p) \/ DmabufStep(p)
      PROVE  FilesKept
  <2>1. CASE chrdev_open(p)
    <3>1. PICK e, m : proc' = [proc EXCEPT ![p].pc = "open", ![p].icdev = e, ![p].id = m]
      BY <2>1 DEF chrdev_open
    <3>2. Now(p, "open", proc[p].dev, m, proc[p].file, e, proc[p].import, proc[p].held)
      BY <1>0, <3>1, InodeEffect
    <3> QED BY <3>2, NowKeeps
  <2> QED BY <1>0, <1>6, <2>1, CtlKeeps, DmabufKeeps DEF Call
<1>7. ASSUME NEW p \in Procs, close(p) \/ kbuf_open_log(p) \/ kbuf_release(p) \/ cdev_put(p)
      PROVE  FilesKept
  <2>1. CASE close(p)
    BY <1>0, <2>1, GoesKeeps DEF close
  <2>2. CASE kbuf_open_log(p)
    BY <1>0, <2>2, ReturnKeeps DEF kbuf_open_log
  <2>3. CASE kbuf_release(p)
    <3>1. proc' = [proc EXCEPT ![p].pc = "cdev_put", ![p].file = NoDev]
      BY <2>3 DEF kbuf_release
    <3> QED BY <1>0, <3>1, FileEffect, NowKeeps
  <2>4. CASE cdev_put(p)
    <3>1. proc' = [proc EXCEPT ![p] = NoCall]
      BY <2>4 DEF cdev_put
    <3> QED BY <1>0, <3>1, NoCallEffect, NowKeeps
  <2> QED BY <1>7, <2>1, <2>2, <2>3, <2>4
<1>8. ASSUME NEW p \in Procs, kbuf_open(p)
      PROVE  Opened(d)' \subseteq Opened(d) \/ d \in Listed
  <2>1. ASSUME NEW e \in Static \cup Listed, proc'[p].file = e,
               \A q \in Procs \ {p} : proc'[q] = proc[q], d \notin Listed
        PROVE  Opened(d)' \subseteq Opened(d)
    <3>1. e # d
      BY <1>0, <2>1
    <3>2. ASSUME NEW q \in Procs, proc'[q].file = d PROVE proc[q].file = d
      BY <2>1, <3>1, <3>2
    <3> QED BY <3>2 DEF Opened
  <2> QED BY <1>0, <1>1, <1>8, <2>1, OpenListed
<1> QED BY <1>1, <1>3, <1>4, <1>5, <1>6, <1>7, <1>8 DEF Next, FileStep

-----------------------------------------------------------------------------
(* LifeInv is inductive.                                                    *)

\* Every step.
LEMMA NextLife ==
  ASSUME LoadedFirst, LifeInv, Next
  PROVE  LifeInv'
<1>1. CASE LoadStep \/ (\E n \in NdevicesReqs : kbuf_init(n)) \/ kbuf_exit
  BY <1>1, LoadSteps
<1>4. ASSUME NEW p \in Procs,
             \/ Call(p) \/ close(p) \/ close_dmabuf(p)
             \/ CtlStep(p) \/ FileStep(p) \/ DmabufStep(p)
      PROVE  LifeInv'
  <2>1. CASE Call(p)
    BY <2>1, CreateSteps, DestroySteps, FileSteps, Ioctl DEF Call
  <2>2. CASE close(p) \/ FileStep(p)
    BY <2>2, FileSteps
  <2>3. CASE close_dmabuf(p)
    BY <2>3, CloseSteps
  <2>4. CASE CtlStep(p)
    BY <2>4, CtlSteps
  <2>5. CASE DmabufStep(p)
    BY <2>5, DmabufSteps
  <2> QED BY <1>4, <2>1, <2>2, <2>3, <2>4, <2>5
<1> QED BY <1>1, <1>4 DEF Next

\* So does a step that changes nothing.
LEMMA StutterLife ==
  ASSUME LifeInv, UNCHANGED vars
  PROVE  LifeInv'
<1>1. /\ obj' = obj /\ kbuf_dyn_list' = kbuf_dyn_list /\ kbuf_dyn_ida' = kbuf_dyn_ida
      /\ created' = created /\ proc' = proc /\ buf' = buf /\ load' = load
      /\ kbuf_ndevices' = kbuf_ndevices /\ res' = res
  BY DEF vars, dynVars, modVars
<1>2. ASSUME NEW d
      PROVE  /\ Opened(d)' = Opened(d) /\ Exported(d)' = Exported(d) /\ Exporting(d)' = Exporting(d)
             /\ Inodes(d)' = Inodes(d) /\ Creating(d)' = Creating(d)
             /\ Destroying(d)' = Destroying(d) /\ Importing(d)' = Importing(d)
  BY <1>1 DEF Opened, Exported, Exporting, Inodes, Creating, Destroying, Importing
<1>3. Listed' = Listed
  BY <1>1 DEF Listed
<1>4. LifeType' /\ ListInv' /\ LoadInv'
  BY <1>1 DEF LifeInv, LifeType, ListInv, LoadInv
<1>5. ASSUME NEW p \in Procs PROVE ProcInv(p)' /\ BufInv(p)'
  BY <1>1, <1>2 DEF LifeInv, ProcInv, BufInv
<1>6. ASSUME NEW d \in Dynamic PROVE DynInv(d)'
  <2>1. DynInv(d) /\ (Registered(d)' <=> Registered(d))
    BY <1>2, <1>3 DEF LifeInv, Registered
  <2>2. One(Registered(d))' = One(Registered(d)) /\ One(CdevOwned(d))' = One(CdevOwned(d))
    <3>1. CdevOwned(d)' <=> CdevOwned(d)
      BY <1>1, <1>2 DEF CdevOwned
    <3> QED BY <2>1, <3>1 DEF One
  <2>3. (obj[d].ref = Holders(d))' /\ CdevInv(d)'
    BY <1>1, <1>2, <2>1, <2>2 DEF DynInv, CdevInv, Holders
  <2>4. OneOwner(d)' /\ StageInv(d)' /\ MemInv(d)'
    BY <1>1, <1>2, <1>3, <2>1 DEF DynInv, OneOwner, StageInv, MemInv
  <2> QED BY <1>1, <2>1, <2>3, <2>4 DEF DynInv
<1>7. ASSUME NEW d \in Static PROVE StaticInv(d)'
  BY <1>1, <1>2 DEF LifeInv, StaticInv, None, Bare, Full, Half
<1>8. ASSUME NEW m \in Ids PROVE MinorInv(m)'
  <2>1. MinorInv(m) /\ kbuf_dyn_ida' = kbuf_dyn_ida
    BY <1>1 DEF LifeInv
  <2>2. \A d \in Dynamic : MinorOf(d, m)' <=> MinorOf(d, m)
    BY <1>1 DEF MinorOf
  <2>3. \A p \in Procs : Pending(p, m)' <=> Pending(p, m)
    BY <1>1 DEF Pending
  <2> QED BY <2>1, <2>2, <2>3 DEF MinorInv
<1> QED BY <1>4, <1>5, <1>6, <1>7, <1>8 DEF LifeInv

\* The inductive invariant holds in every reachable state, when files are not
\* opened before kbuf_init has returned.
THEOREM LifeInvariant ==
  ASSUME LoadedFirst
  PROVE  Spec => []LifeInv
<1>1. Init => LifeInv
  BY InitLife
<1>2. LifeInv /\ [Next]_vars => LifeInv'
  BY NextLife, StutterLife
<1> QED BY <1>1, <1>2, PTL DEF Spec

-----------------------------------------------------------------------------
(* The properties of KbufLifecycle.                                        *)

\* Once DESTROY or rmmod has taken a device off the list, no thread opens it,
\* and none opens a device that CREATE has not finished.
THEOREM OnlyListedOpened ==
  ASSUME LoadedFirst
  PROVE  Spec => OpensListedOnly
<1>1. LifeInv /\ [Next]_vars => [\A d \in Dynamic : Opened(d)' \subseteq Opened(d) \/ d \in Listed]_vars
  BY NextOpens
<1> QED BY <1>1, LifeInvariant, PTL DEF Spec, OpensListedOnly

\* Every kref and every dma-buf count is the number of its holders, and a device
\* without a holder has been freed.
THEOREM ReferencesBalance ==
  ASSUME LoadedFirst
  PROVE  Spec => []RefBalance
BY LifeInvariant, LifeRefBalance, PTL

\* What an open file, a dma-buf, the list, an inode or an import can still reach
\* exists.
THEOREM HeldStaysAlive ==
  ASSUME LoadedFirst
  PROVE  Spec => []HeldAlive
BY LifeInvariant, LifeHeldAlive, PTL

\* The minors handed out are those of the devices that exist or are being
\* allocated, one each.
THEOREM MinorsExclusive ==
  ASSUME LoadedFirst
  PROVE  Spec => []MinorExclusive
BY LifeInvariant, LifeMinorExclusive, PTL

\* Every allocation of a dynamic device has somebody who will free it, whatever
\* step of CREATE failed, and a call that ended holds nothing.
THEOREM AllocationsOwned ==
  ASSUME LoadedFirst
  PROVE  Spec => []NothingLost
BY LifeInvariant, LifeNothingLost, PTL

\* err_devices and kbuf_exit tear down exactly the devices that were completed.
THEOREM TeardownIsExact ==
  ASSUME LoadedFirst
  PROVE  Spec => []TeardownExact
BY LifeInvariant, LifeTeardownExact, PTL

\* A module that is not loaded, whichever step of kbuf_init failed, holds
\* nothing.
THEOREM UnloadLeavesNothing ==
  ASSUME LoadedFirst
  PROVE  Spec => []NothingLeft
BY LifeInvariant, LifeNothingLeft, PTL

\* kbuf_exit runs beside no call, open file or dma-buf, and drains devices that
\* only the list refers to.
THEOREM ExitRunsAlone ==
  ASSUME LoadedFirst
  PROVE  Spec => []ExitAlone
BY LifeInvariant, LifeExitAlone, PTL

\* A device in the kernel's map has its ring.
THEOREM ReachableIsReady ==
  ASSUME LoadedFirst
  PROVE  Spec => []ReachableReady
BY LifeInvariant, LifeReachableReady, PTL
=============================================================================
