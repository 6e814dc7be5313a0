--------------------------- MODULE KbufUseProofs ---------------------------
(***************************************************************************)
(* Opening and closing device files, and EXPORT up to the dma-buf,         *)
(* preserve LifeInv.                                                       *)
(***************************************************************************)
EXTENDS KbufLifeSteps

\* The leaves that say nothing else are for Zenon.
USE Zenon

-----------------------------------------------------------------------------
(* Users of a device. p is the thread, b the buffer and d the device of    *)
(* the step.                                                               *)

\* Steps outside of CREATE and DESTROY.
UserPc == ProcPc \ (CreatePc \cup DestroyPc \cup {"struct"})

\* p is neither in CREATE nor in DESTROY, or does not move.
Apart(p) == \/ proc[p].pc \in UserPc /\ proc'[p].pc \in UserPc
            \/ proc'[p] = proc[p]

\* Such a step: p, b and d change, CREATE, DESTROY and the list do not.
Uses(p, b, d) ==
  /\ \A q \in Procs \ {p} : proc'[q] = proc[q]
  /\ \A q \in Procs \ {b} : buf'[q] = buf[q]
  /\ \A e \in Devs \ {d} : obj'[e] = obj[e]
  /\ Apart(p)
  /\ UNCHANGED <<kbuf_dyn_list, created, modVars>>

\* p and b have the same part in every other device.
SameElsewhere(p, b, d) ==
  /\ \A e \in Devs \ {d} : proc'[p].icdev = e <=> proc[p].icdev = e
  /\ \A e \in Dynamic \ {d} :
       /\ proc'[p].file = e <=> proc[p].file = e
       /\ p \in Exporting(e)' <=> p \in Exporting(e)
       /\ b \in Exported(e)' <=> b \in Exported(e)

\* Nobody begins or ends to create or destroy a device.
LEMMA OwnersKeep ==
  ASSUME NEW p \in Procs, NEW b, NEW d, Uses(p, b, d), NEW e
  PROVE  /\ Creating(e)' = Creating(e) /\ Destroying(e)' = Destroying(e)
         /\ Listed' = Listed /\ (Registered(e)' <=> Registered(e))
         /\ \A q \in Creating(e) \cup Destroying(e) : proc'[q].pc = proc[q].pc
         /\ \A q \in Procs, m \in Ids : Pending(q, m)' <=> Pending(q, m)
<1>0. /\ \A q \in Procs \ {p} : proc'[q] = proc[q]
      /\ Apart(p) /\ kbuf_dyn_list' = kbuf_dyn_list
  BY DEF Uses
<1>1. /\ p \in Creating(e)' <=> p \in Creating(e)
      /\ p \in Destroying(e)' <=> p \in Destroying(e)
      /\ p \in Creating(e) \cup Destroying(e) => proc'[p].pc = proc[p].pc
      /\ \A m \in Ids : Pending(p, m)' <=> Pending(p, m)
  <2>1. CASE proc[p].pc \in UserPc /\ proc'[p].pc \in UserPc
    BY <2>1 DEF Creating, Destroying, Pending, UserPc, CreatePc, DestroyPc
  <2>2. CASE proc'[p] = proc[p]
    BY <2>2 DEF Creating, Destroying, Pending
  <2> QED BY <1>0, <2>1, <2>2 DEF Apart
<1>2. Creating(e)' = Creating(e)
  BY <1>0, <1>1 DEF Creating
<1>3. Destroying(e)' = Destroying(e)
  BY <1>0, <1>1 DEF Destroying
<1>4. Listed' = Listed
  BY <1>0 DEF Listed
<1>5. Registered(e)' <=> Registered(e)
  BY <1>2, <1>3, <1>4 DEF Registered
<1>6. \A q \in Creating(e) \cup Destroying(e) : proc'[q].pc = proc[q].pc
  <2>1. \A q \in Creating(e) \cup Destroying(e) : q \in Procs
    BY DEF Creating, Destroying
  <2> QED BY <1>0, <1>1, <2>1
<1>7. \A q \in Procs, m \in Ids : Pending(q, m)' <=> Pending(q, m)
  BY <1>0, <1>1 DEF Pending
<1> QED BY <1>2, <1>3, <1>4, <1>5, <1>6, <1>7

\* The stage of a device is as it was.
LEMMA StageKeep ==
  ASSUME NEW p \in Procs, NEW b, NEW d, Uses(p, b, d), NEW e \in Dynamic, DynInv(e),
         obj'[e].added = obj[e].added, obj'[e].device = obj[e].device,
         Creating(e) # {} => obj'[e].ref = obj[e].ref /\ obj'[e].mem = obj[e].mem
  PROVE  OneOwner(e)' /\ StageInv(e)' /\ (CdevOwned(e)' <=> CdevOwned(e))
<1>0. /\ Creating(e)' = Creating(e) /\ Destroying(e)' = Destroying(e)
      /\ Listed' = Listed /\ (Registered(e)' <=> Registered(e))
      /\ \A q \in Creating(e) \cup Destroying(e) : proc'[q].pc = proc[q].pc
  BY OwnersKeep
<1>1. OneOwner(e) /\ StageInv(e)
  BY DEF DynInv
<1>2. OneOwner(e)'
  BY <1>0, <1>1 DEF OneOwner
<1>3. StageInv(e)'
  <2>1. \A q \in Creating(e)' :
          /\ obj'[e].ref = 1 /\ obj'[e].mem = CreateMem[proc'[q].pc]
          /\ obj'[e].added <=> proc'[q].pc \in {"device", "list"}
          /\ obj'[e].device <=> proc'[q].pc = "list"
    <3> SUFFICES ASSUME NEW q \in Creating(e)
                 PROVE  /\ obj'[e].ref = 1 /\ obj'[e].mem = CreateMem[proc'[q].pc]
                        /\ obj'[e].added <=> proc'[q].pc \in {"device", "list"}
                        /\ obj'[e].device <=> proc'[q].pc = "list"
      BY <1>0
    <3>1. proc'[q].pc = proc[q].pc /\ obj'[e].ref = obj[e].ref /\ obj'[e].mem = obj[e].mem
      BY <1>0
    <3>2. /\ obj[e].ref = 1 /\ obj[e].mem = CreateMem[proc[q].pc]
          /\ obj[e].added <=> proc[q].pc \in {"device", "list"}
          /\ obj[e].device <=> proc[q].pc = "list"
      BY <1>1 DEF StageInv
    <3> QED BY <3>1, <3>2
  <2>2. \A q \in Destroying(e)' :
          /\ obj'[e].added <=> proc'[q].pc # "d_put"
          /\ obj'[e].device <=> proc'[q].pc = "d_device"
    <3> SUFFICES ASSUME NEW q \in Destroying(e)
                 PROVE  /\ obj'[e].added <=> proc'[q].pc # "d_put"
                        /\ obj'[e].device <=> proc'[q].pc = "d_device"
      BY <1>0
    <3>1. proc'[q].pc = proc[q].pc
      BY <1>0
    <3>2. /\ obj[e].added <=> proc[q].pc # "d_put"
          /\ obj[e].device <=> proc[q].pc = "d_device"
      BY <1>1 DEF StageInv
    <3> QED BY <3>1, <3>2
  <2>3. /\ e \in Listed' => obj'[e].added /\ obj'[e].device
        /\ ~Registered(e)' => ~obj'[e].added /\ ~obj'[e].device
    BY <1>0, <1>1 DEF StageInv
  <2> QED BY <2>1, <2>2, <2>3 DEF StageInv
<1>4. CdevOwned(e)' <=> CdevOwned(e)
  BY <1>0 DEF CdevOwned
<1> QED BY <1>2, <1>3, <1>4

\* What such a step has to show.
LEMMA UseInv ==
  ASSUME LifeInv, NEW p \in Procs, NEW b \in Procs, NEW d, load.pc = "live",
         Uses(p, b, d), SameElsewhere(p, b, d),
         proc' \in [Procs -> Thread], obj' \in [Devs -> Object], buf' \in [Procs -> DmaBuf],
         kbuf_dyn_ida' \subseteq Ids,
         d \in Devs => obj'[d].minor_off = obj[d].minor_off,
         \A q \in Procs : proc[q].pc \in {"e_get", "e_export"} => buf'[q] = buf[q] \/ q = p,
         ProcInv(p)', BufInv(b)',
         p # b => (proc'[p].pc = "e_fd" <=> proc[p].pc = "e_fd"),
         \A c \in Procs \ {b} : proc'[p].import = c <=> proc[p].import = c,
         d \in Dynamic => DynInv(d)', d \in Static => StaticInv(d)',
         \A m \in Ids : MinorInv(m)'
  PROVE  LifeInv'
<1>0. LifeType /\ ListInv /\ \A q \in Procs : ProcInv(q)
  BY DEF LifeInv
<1>1. /\ \A q \in Procs \ {p} : proc'[q] = proc[q]
      /\ \A q \in Procs \ {b} : buf'[q] = buf[q]
      /\ \A e \in Devs \ {d} : obj'[e] = obj[e]
      /\ kbuf_dyn_list' = kbuf_dyn_list /\ created' = created /\ UNCHANGED modVars
  BY DEF Uses
<1>2. LifeType'
  BY <1>0, <1>1 DEF LifeType, modVars
<1>3. Local(p, b, d)
  <2>1. \A e \in Dynamic \ {d} : SamePart(p, e)
    <3> SUFFICES ASSUME NEW e \in Dynamic \ {d} PROVE SamePart(p, e)
      OBVIOUS
    <3>1. /\ proc'[p].icdev = e <=> proc[p].icdev = e
          /\ proc'[p].file = e <=> proc[p].file = e
          /\ p \in Exporting(e)' <=> p \in Exporting(e)
      BY DEF SameElsewhere, Devs
    <3>2. \/ proc'[p].pc = proc[p].pc /\ proc'[p].dev = proc[p].dev
          \/ p \notin Creating(e) \cup Destroying(e) \cup Creating(e)' \cup Destroying(e)'
      <4>1. CASE proc[p].pc \in UserPc /\ proc'[p].pc \in UserPc
        <5>1. /\ p \notin Creating(e) /\ p \notin Destroying(e)
              /\ p \notin Creating(e)' /\ p \notin Destroying(e)'
          BY <4>1 DEF Creating, Destroying, UserPc, CreatePc, DestroyPc
        <5> QED BY <5>1
      <4>2. CASE proc'[p] = proc[p]
        BY <4>2
      <4> QED BY <4>1, <4>2 DEF Uses, Apart
    <3> QED BY <3>1, <3>2 DEF SamePart
  <2>2. Listed' = Listed
    BY <1>1 DEF Listed
  <2>3. /\ \A e \in Dynamic \ {d} : obj'[e] = obj[e] /\ (b \in Exported(e)' <=> b \in Exported(e))
        /\ \A e \in Static \ {d} : obj'[e] = obj[e] /\ (proc'[p].icdev = e <=> proc[p].icdev = e)
    BY <1>1 DEF SameElsewhere, Devs
  <2>4. created <= created'
    BY <1>0, <1>1, LifeAssumption, SMT DEF LifeType
  <2> QED BY <1>1, <2>1, <2>2, <2>3, <2>4 DEF Local
<1>4. ListInv'
  BY <1>0, <1>1 DEF ListInv
<1>5. ASSUME NEW q \in Procs \ {p}, proc[q].pc \in CreatePc
      PROVE  obj'[proc[q].dev].minor_off = obj[proc[q].dev].minor_off
  <2>1. proc[q].dev \in Devs
    BY <1>0, <1>5 DEF ProcInv, Devs
  <2> QED BY <1>1, <2>1
<1> QED BY <1>2, <1>3, <1>4, <1>5, LocalStep

\* The counts before and after: p opens, closes or exports, b is a dma-buf.
LEMMA UserCounts ==
  ASSUME NEW p \in Procs, NEW b \in Procs, NEW d, Uses(p, b, d), NEW e
  PROVE  /\ Holders(e) \in Nat
         /\ Holders(e)' = Holders(e) + One(p \in Opened(e)') - One(p \in Opened(e))
                            + One(b \in Exported(e)') - One(b \in Exported(e))
                            + One(p \in Exporting(e)') - One(p \in Exporting(e))
         /\ Cardinality(Inodes(e)) \in Nat
         /\ Cardinality(Inodes(e)') = Cardinality(Inodes(e)) + One(p \in Inodes(e)')
                                        - One(p \in Inodes(e))
<1>0. /\ \A q \in Procs \ {p} : proc'[q] = proc[q]
      /\ \A q \in Procs \ {b} : buf'[q] = buf[q]
  BY DEF Uses
<1> DEFINE O == Opened(e)  O1 == Opened(e)'  X == Exported(e)  X1 == Exported(e)'
           E == Exporting(e)  E1 == Exporting(e)'  I == Inodes(e)  I1 == Inodes(e)'
<1>1. /\ {O, O1, X, X1, E, E1, I, I1} \subseteq SUBSET Procs
      /\ \A q \in Procs \ {p} : /\ q \in O1 <=> q \in O
                                /\ q \in E1 <=> q \in E
                                /\ q \in I1 <=> q \in I
      /\ \A q \in Procs \ {b} : q \in X1 <=> q \in X
  BY <1>0 DEF Opened, Exported, Exporting, Inodes
<1>2. Registered(e)' <=> Registered(e)
  BY OwnersKeep
<1>3. One(Registered(e)') = One(Registered(e)) /\ One(Registered(e)) \in Nat
  BY <1>2 DEF One
<1>4. /\ Holders(e) = One(Registered(e)) + Cardinality(O) + Cardinality(X) + Cardinality(E)
      /\ Holders(e)' = One(Registered(e)') + Cardinality(O1) + Cardinality(X1) + Cardinality(E1)
  BY DEF Holders, One
<1> HIDE DEF O, O1, X, X1, E, E1, I, I1
<1>5. /\ Cardinality(O) \in Nat /\ Cardinality(O1) = Cardinality(O) + One(p \in O1) - One(p \in O)
  BY <1>1, CountDelta
<1>6. /\ Cardinality(X) \in Nat /\ Cardinality(X1) = Cardinality(X) + One(b \in X1) - One(b \in X)
  BY <1>1, CountDelta
<1>7. /\ Cardinality(E) \in Nat /\ Cardinality(E1) = Cardinality(E) + One(p \in E1) - One(p \in E)
  BY <1>1, CountDelta
<1>8. /\ Cardinality(I) \in Nat /\ Cardinality(I1) = Cardinality(I) + One(p \in I1) - One(p \in I)
  BY <1>1, CountDelta
<1>9. /\ Holders(e) \in Nat
      /\ Holders(e)' = Holders(e) + One(p \in O1) - One(p \in O)
                         + One(b \in X1) - One(b \in X) + One(p \in E1) - One(p \in E)
  BY <1>3, <1>4, <1>5, <1>6, <1>7, SMT DEF One
<1> QED BY <1>8, <1>9 DEF O, O1, X, X1, E, E1, I, I1

\* A device with an open file, a dma-buf or an EXPORT is alive and not being
\* created.
LEMMA HasUser ==
  ASSUME LifeInv, NEW d \in Dynamic, NEW p,
         p \in Opened(d) \cup Exported(d) \cup Exporting(d)
  PROVE  /\ obj[d].ref > 0 /\ obj[d].ref \in Nat /\ Creating(d) = {} /\ DynInv(d) /\ d \in Devs
<1>1. LifeType /\ DynInv(d) /\ d \in Devs /\ obj[d].ref = Holders(d)
  BY DEF LifeInv, DynInv, Devs
<1>2. obj[d].ref # 0 /\ obj[d].ref \in Nat
  BY <1>1, NoUsers
<1>3. Creating(d) = {}
  <2> SUFFICES ASSUME NEW q \in Creating(d) PROVE FALSE
    OBVIOUS
  <2>1. q \in Procs /\ proc[q].pc \in CreatePc /\ proc[q].dev = d
    BY DEF Creating, CreatePc
  <2>2. Opened(d) = {} /\ Exported(d) = {} /\ Exporting(d) = {}
    BY <2>1, Creator
  <2> QED BY <2>2
<1>4. obj[d].ref > 0
  BY <1>2, SMT
<1> QED BY <1>1, <1>2, <1>3, <1>4

\* A user lets go of a device.
LEMMA UseDrop ==
  ASSUME LifeInv, NEW p \in Procs, NEW b \in Procs, NEW d \in Dynamic, Uses(p, b, d),
         obj[d].ref > 0, Creating(d) = {}, Drops(d),
         Holders(d)' = Holders(d) - 1, Inodes(d)' = Inodes(d)
  PROVE  /\ DynInv(d)' /\ \A m \in Ids : MinorInv(m)'
         /\ obj' \in [Devs -> Object] /\ kbuf_dyn_ida' \subseteq Ids
         /\ obj'[d].minor_off = obj[d].minor_off
<1>0. LifeType /\ DynInv(d) /\ d \in Devs /\ created' = created
  BY DEF LifeInv, Devs, Uses
<1>1. /\ obj'[d].added = obj[d].added /\ obj'[d].device = obj[d].device
      /\ obj' \in [Devs -> Object] /\ kbuf_dyn_ida' \subseteq Ids
      /\ obj'[d].minor_off = obj[d].minor_off
  BY <1>0, DropFields
<1>2. OneOwner(d)' /\ StageInv(d)'
  BY <1>0, <1>1, StageKeep
<1>3. Creating(d)' = {} /\ \A q \in Procs, m \in Ids : Pending(q, m)' <=> Pending(q, m)
  BY OwnersKeep
<1>4. DynInv(d)'
  BY <1>0, <1>2, <1>3, DropInv
<1>5. \A m \in Ids : MinorInv(m)'
  BY <1>3, DropMinor
<1> QED BY <1>1, <1>4, <1>5

\* A device that is alive is one that CREATE has made.
LEMMA Made ==
  ASSUME NEW d, DynInv(d), obj[d].ref > 0 \/ obj[d].cdevRef > 0
  PROVE  ~(d >= KBUF_MAX_NDEVICES + created)
<1>1. obj[d] # NoObj
  BY SMT DEF NoObj
<1> QED BY <1>1 DEF DynInv

\* Any other change of the two counts of a dynamic device.
LEMMA UseCount ==
  ASSUME LifeInv, NEW p \in Procs, NEW b \in Procs, NEW d \in Dynamic, Uses(p, b, d),
         NEW mem, NEW c \in Nat, NEW r \in Nat,
         Becomes(d, mem, c, obj[d].added, obj[d].device, r, obj[d].minor_off),
         kbuf_dyn_ida' = kbuf_dyn_ida, obj[d].ref > 0 \/ obj[d].cdevRef > 0,
         mem \subseteq Parts, mem \ {"cdev"} = obj[d].mem \ {"cdev"}, "cdev" \in mem <=> c > 0,
         r > 0 <=> obj[d].ref > 0,
         Creating(d) # {} => r = obj[d].ref /\ mem = obj[d].mem,
         Holders(d)' = r, c - Cardinality(Inodes(d)') = obj[d].cdevRef - Cardinality(Inodes(d))
  PROVE  /\ DynInv(d)' /\ \A m \in Ids : MinorInv(m)'
         /\ obj' \in [Devs -> Object] /\ kbuf_dyn_ida' \subseteq Ids
         /\ obj'[d].minor_off = obj[d].minor_off
<1>0. LifeType /\ DynInv(d) /\ d \in Devs /\ created' = created
  BY DEF LifeInv, Devs, Uses
<1>1. /\ obj[d].cdevRef \in Nat /\ obj[d].added \in BOOLEAN /\ obj[d].device \in BOOLEAN
      /\ obj[d].ref \in Nat /\ obj[d].minor_off \in Ids
  BY <1>0, ObjRecord
<1>2. /\ obj'[d].added = obj[d].added /\ obj'[d].device = obj[d].device
      /\ obj'[d].mem = mem /\ obj'[d].cdevRef = c /\ obj'[d].ref = r
      /\ obj' \in [Devs -> Object] /\ obj'[d].minor_off = obj[d].minor_off
      /\ \A e \in Devs \ {d} : obj'[e] = obj[e]
  BY <1>1 DEF Becomes
<1>3. kbuf_dyn_ida' \subseteq Ids
  BY <1>0 DEF LifeType
<1>4. OneOwner(d)' /\ StageInv(d)' /\ (CdevOwned(d)' <=> CdevOwned(d))
  BY <1>0, <1>2, StageKeep
<1>5. Creating(d)' = Creating(d) /\ \A q \in Procs, m \in Ids : Pending(q, m)' <=> Pending(q, m)
  BY OwnersKeep
<1>6. CdevInv(d)'
  <2>1. One(CdevOwned(d)') = One(CdevOwned(d)) /\ One(CdevOwned(d)) \in Nat
    BY <1>4 DEF One
  <2>2. obj[d].cdevRef = One(CdevOwned(d)) + Cardinality(Inodes(d))
    BY <1>0 DEF DynInv, CdevInv
  <2>3. Cardinality(Inodes(d)) \in Nat /\ Cardinality(Inodes(d)') \in Nat
    <3>1. Inodes(d) \in SUBSET Procs /\ Inodes(d)' \in SUBSET Procs
      BY DEF Inodes
    <3> QED BY <3>1, Count
  <2>4. c = One(CdevOwned(d)) + Cardinality(Inodes(d)')
    BY <1>1, <2>1, <2>2, <2>3, MovedCount, SMT
  <2>5. obj'[d].cdevRef = One(CdevOwned(d)') + Cardinality(Inodes(d)')
    BY <1>2, <2>1, <2>4
  <2> QED BY <2>5 DEF CdevInv
<1>7. MemInv(d)'
  <2>1. MemInv(d)
    BY <1>0 DEF DynInv
  <2>2. /\ "struct" \in mem <=> "struct" \in obj[d].mem
        /\ Ring \subseteq mem <=> Ring \subseteq obj[d].mem
        /\ mem \subseteq {"cdev"} <=> obj[d].mem \subseteq {"cdev"}
    BY DEF Ring
  <2>3. r = 0 <=> obj[d].ref = 0
    BY <1>1, SMT
  <2> QED BY <1>2, <1>5, <2>1, <2>2, <2>3 DEF MemInv
<1>8. DynInv(d)'
  <2>1. ~(d >= KBUF_MAX_NDEVICES + created)
    BY <1>0, Made
  <2> QED BY <1>0, <1>2, <1>4, <1>6, <1>7, <2>1 DEF DynInv
<1>9. ASSUME NEW m \in Ids
      PROVE  MinorInv(m)'
  <2>1. "struct" \in mem <=> "struct" \in obj[d].mem
    BY SMT
  <2>2. \A e \in Dynamic : MinorOf(e, m)' <=> MinorOf(e, m)
    BY <1>2, <2>1 DEF MinorOf, Devs
  <2>3. MinorInv(m) /\ \A q \in Procs : Pending(q, m)' <=> Pending(q, m)
    BY <1>5 DEF LifeInv
  <2> QED BY <2>2, <2>3 DEF MinorInv
<1> QED BY <1>2, <1>3, <1>8, <1>9

\* An inode more or less of a static device.
LEMMA UseStatic ==
  ASSUME LifeInv, NEW p \in Procs, NEW b \in Procs, NEW d \in Static, Uses(p, b, d),
         NEW mem, NEW c \in Nat,
         Becomes(d, mem, c, obj[d].added, obj[d].device, obj[d].ref, obj[d].minor_off),
         kbuf_dyn_ida' = kbuf_dyn_ida, mem = obj[d].mem,
         c - Cardinality(Inodes(d)') = obj[d].cdevRef - Cardinality(Inodes(d))
  PROVE  /\ StaticInv(d)' /\ \A m \in Ids : MinorInv(m)'
         /\ obj' \in [Devs -> Object] /\ kbuf_dyn_ida' \subseteq Ids
         /\ obj'[d].minor_off = obj[d].minor_off
<1>0. LifeType /\ StaticInv(d) /\ d \in Devs /\ d \notin Dynamic /\ UNCHANGED modVars
  BY LifeAssumption, SMT DEF LifeInv, Devs, Uses, Static, Dynamic
<1>1. /\ obj[d].cdevRef \in Nat /\ obj[d].added \in BOOLEAN /\ obj[d].device \in BOOLEAN
      /\ obj[d].ref \in Nat /\ obj[d].minor_off \in Ids /\ obj[d].mem \subseteq Parts
  BY <1>0, ObjRecord
<1>2. /\ obj'[d].added = obj[d].added /\ obj'[d].device = obj[d].device
      /\ obj'[d].mem = obj[d].mem /\ obj'[d].cdevRef = c /\ obj'[d].ref = obj[d].ref
      /\ obj' \in [Devs -> Object] /\ obj'[d].minor_off = obj[d].minor_off
      /\ \A e \in Devs \ {d} : obj'[e] = obj[e]
  BY <1>1 DEF Becomes
<1>3. kbuf_dyn_ida' \subseteq Ids
  BY <1>0 DEF LifeType
<1>4. StaticInv(d)'
  <2>1. One(obj'[d].added) = One(obj[d].added) /\ One(obj[d].added) \in Nat
    BY <1>2 DEF One
  <2>2. obj[d].cdevRef = One(obj[d].added) + Cardinality(Inodes(d))
    BY <1>0 DEF StaticInv
  <2>3. Cardinality(Inodes(d)) \in Nat /\ Cardinality(Inodes(d)') \in Nat
    <3>1. Inodes(d) \in SUBSET Procs /\ Inodes(d)' \in SUBSET Procs
      BY DEF Inodes
    <3> QED BY <3>1, Count
  <2>4. obj'[d].cdevRef = One(obj'[d].added) + Cardinality(Inodes(d)')
    <3>1. c = One(obj[d].added) + Cardinality(Inodes(d)')
      BY <1>1, <2>1, <2>2, <2>3, MovedCount, SMT
    <3> QED BY <1>2, <2>1, <3>1
  <2>5. /\ None(d)' <=> None(d)
        /\ Bare(d)' <=> Bare(d)
        /\ Full(d)' <=> Full(d)
        /\ Half(d)' <=> Half(d)
    BY <1>0, <1>2 DEF None, Bare, Full, Half, modVars
  <2>6. load' = load /\ kbuf_ndevices' = kbuf_ndevices /\ obj'[d].ref = 0
    BY <1>0, <1>2 DEF modVars, StaticInv
  <2> QED BY <1>0, <2>4, <2>5, <2>6 DEF StaticInv
<1>5. ASSUME NEW m \in Ids
      PROVE  MinorInv(m)'
  <2>1. \A e \in Dynamic : MinorOf(e, m)' <=> MinorOf(e, m)
    BY <1>0, <1>2 DEF MinorOf, Devs
  <2>2. \A q \in Procs : Pending(q, m)' <=> Pending(q, m)
    BY OwnersKeep
  <2>3. MinorInv(m)
    BY DEF LifeInv
  <2> QED BY <2>1, <2>2, <2>3 DEF MinorInv
<1> QED BY <1>2, <1>3, <1>4, <1>5

-----------------------------------------------------------------------------
(* What the steps of a user have in common.                                *)

\* pc, icdev and id.
LEMMA InodeEffect ==
  ASSUME LifeType, NEW p \in Procs, NEW l, NEW d, NEW m,
         proc' = [proc EXCEPT ![p].pc = l, ![p].icdev = d, ![p].id = m]
  PROVE  Now(p, l, proc[p].dev, m, proc[p].file, d, proc[p].import, proc[p].held)
<1> DEFINE t == [proc[p] EXCEPT !.pc = l, !.icdev = d, !.id = m]
<1>1. proc' = [proc EXCEPT ![p] = t]
  BY ProcRecord
<1>2. /\ t.pc = l /\ t.dev = proc[p].dev /\ t.id = m
      /\ t.file = proc[p].file /\ t.icdev = d
      /\ t.import = proc[p].import /\ t.held = proc[p].held
  BY ProcRecord, SMT DEF Thread
<1>3. /\ DOMAIN t = {"pc", "dev", "id", "file", "icdev", "import", "held"}
      /\ t = [f \in DOMAIN t |-> t[f]]
  BY ProcRecord DEF Thread
<1> HIDE DEF t
<1>4. t = [pc |-> l, dev |-> proc[p].dev, id |-> m, file |-> proc[p].file,
           icdev |-> d, import |-> proc[p].import, held |-> proc[p].held]
  BY <1>2, <1>3
<1> QED BY <1>1, <1>4, NowRecord

\* pc, import and held.
LEMMA ImportEffect ==
  ASSUME LifeType, NEW p \in Procs, NEW l, NEW b, NEW h,
         proc' = [proc EXCEPT ![p].pc = l, ![p].import = b, ![p].held = h]
  PROVE  Now(p, l, proc[p].dev, proc[p].id, proc[p].file, proc[p].icdev, b, h)
<1> DEFINE t == [proc[p] EXCEPT !.pc = l, !.import = b, !.held = h]
<1>1. proc' = [proc EXCEPT ![p] = t]
  BY ProcRecord
<1>2. /\ t.pc = l /\ t.dev = proc[p].dev /\ t.id = proc[p].id
      /\ t.file = proc[p].file /\ t.icdev = proc[p].icdev
      /\ t.import = b /\ t.held = h
  BY ProcRecord, SMT DEF Thread
<1>3. /\ DOMAIN t = {"pc", "dev", "id", "file", "icdev", "import", "held"}
      /\ t = [f \in DOMAIN t |-> t[f]]
  BY ProcRecord DEF Thread
<1> HIDE DEF t
<1>4. t = [pc |-> l, dev |-> proc[p].dev, id |-> proc[p].id,
           file |-> proc[p].file, icdev |-> proc[p].icdev, import |-> b,
           held |-> h]
  BY <1>2, <1>3
<1> QED BY <1>1, <1>4, NowRecord

\* held and pc.
LEMMA AcquireEffect ==
  ASSUME LifeType, NEW p \in Procs, NEW l, NEW h,
         proc' = [proc EXCEPT ![p].held = h, ![p].pc = l]
  PROVE  Now(p, l, proc[p].dev, proc[p].id, proc[p].file, proc[p].icdev,
             proc[p].import, h)
<1> DEFINE t == [proc[p] EXCEPT !.held = h, !.pc = l]
<1>1. proc' = [proc EXCEPT ![p] = t]
  BY ProcRecord
<1>2. /\ t.pc = l /\ t.dev = proc[p].dev /\ t.id = proc[p].id
      /\ t.file = proc[p].file /\ t.icdev = proc[p].icdev
      /\ t.import = proc[p].import /\ t.held = h
  BY ProcRecord, SMT DEF Thread
<1>3. /\ DOMAIN t = {"pc", "dev", "id", "file", "icdev", "import", "held"}
      /\ t = [f \in DOMAIN t |-> t[f]]
  BY ProcRecord DEF Thread
<1> HIDE DEF t
<1>4. t = [pc |-> l, dev |-> proc[p].dev, id |-> proc[p].id,
           file |-> proc[p].file, icdev |-> proc[p].icdev,
           import |-> proc[p].import, held |-> h]
  BY <1>2, <1>3
<1> QED BY <1>1, <1>4, NowRecord

\* The VFS is done with a file.
LEMMA NoCallEffect ==
  ASSUME LifeType, NEW p \in Procs, proc' = [proc EXCEPT ![p] = NoCall]
  PROVE  Now(p, "idle", NoDev, 0, NoDev, NoDev, NoProc, {})
BY NowRecord DEF NoCall

\* A thread goes to another step outside of the devices: an open that finds
\* nothing, close, the start of an EXPORT.
LEMMA GoesOn ==
  ASSUME LifeInv, NEW p \in Procs, NEW l, proc' = [proc EXCEPT ![p].pc = l],
         \/ proc[p].pc = "open" /\ l = "cdev_put"
         \/ proc[p].pc = "idle" /\ proc[p].file # NoDev /\ l = "release"
         \/ proc[p].pc = "idle" /\ proc[p].file # NoDev /\ l = "e_get" /\ buf[p] = NoBuf,
         UNCHANGED <<obj, dynVars, buf, modVars>>
  PROVE  LifeInv'
<1>0. LifeType /\ ProcInv(p) /\ load.pc = "live"
  BY Live DEF LifeInv
<1>1. Goes(p, l)
  BY <1>0, GoesEffect
<1>2. proc' \in [Procs -> Thread]
  BY <1>0, <1>1, ProcRecord, SMT DEF Goes, Now, ProcPc, ExportPc
<1>3. proc[p].pc \in OutsidePc /\ proc'[p].pc \in OutsidePc
  BY <1>1 DEF Goes, Now, OutsidePc, ProcPc, CreatePc, DestroyPc, ExportPc
<1>4. ProcInv(p)'
  BY <1>0, <1>1 DEF ProcInv, Goes, Now, CtlPc, ImportPc, ExportPc, CreatePc, DestroyPc,
     modVars
<1> QED BY <1>0, <1>1, <1>2, <1>3, <1>4, Quiet DEF Goes, Now

\* A step that leaves the dma-bufs alone.
LEMMA FileInv ==
  ASSUME LifeInv, NEW p \in Procs, NEW d, load.pc = "live", Uses(p, p, d), buf' = buf,
         proc' \in [Procs -> Thread], obj' \in [Devs -> Object], kbuf_dyn_ida' \subseteq Ids,
         d \in Devs => obj'[d].minor_off = obj[d].minor_off,
         ProcInv(p)', proc[p].pc # "e_fd", proc'[p].pc # "e_fd",
         proc'[p].import = proc[p].import,
         \A e \in Devs \ {d} : /\ proc'[p].icdev = e <=> proc[p].icdev = e
                               /\ proc'[p].file = e <=> proc[p].file = e
                               /\ p \in Exporting(e)' <=> p \in Exporting(e),
         d \in Dynamic => DynInv(d)', d \in Static => StaticInv(d)',
         \A m \in Ids : MinorInv(m)'
  PROVE  LifeInv'
<1>0. LifeType /\ BufInv(p)
  BY DEF LifeInv
<1>1. /\ \A q \in Procs \ {p} : proc'[q] = proc[q]
      /\ kbuf_ndevices' = kbuf_ndevices
  BY DEF Uses, modVars
<1>2. Importing(p)' = Importing(p)
  BY <1>1 DEF Importing
<1>3. BufInv(p)'
  BY <1>0, <1>1, <1>2 DEF BufInv, One
<1>4. \A e : Exported(e)' = Exported(e)
  BY DEF Exported
<1>5. SameElsewhere(p, p, d)
  BY <1>4 DEF SameElsewhere, Devs
<1>6. buf' \in [Procs -> DmaBuf]
  BY <1>0 DEF LifeType
<1> QED BY <1>3, <1>5, <1>6, UseInv

-----------------------------------------------------------------------------
(* Opening and closing files.                                              *)

\* The cdev goes with its last reference.
Unlinks(d, mem, c) ==
  /\ c = obj[d].cdevRef - 1
  /\ mem = IF obj[d].cdevRef = 1 THEN obj[d].mem \ {"cdev"} ELSE obj[d].mem

\* The steps of open, release and the VFS around them.
LEMMA FileSteps ==
  \A p \in Procs :
    LoadedFirst /\ LifeInv /\ (FileStep(p) \/ chrdev_open(p) \/ close(p)) => LifeInv'
\* cdev_get.
<1>CdevRefEffect.
      ASSUME LifeType, NEW d \in Devs, NEW r,
             obj' = [obj EXCEPT ![d].cdevRef = r]
      PROVE  Becomes(d, obj[d].mem, r, obj[d].added, obj[d].device, obj[d].ref,
                     obj[d].minor_off)
  <2> USE <1>CdevRefEffect
  <2> DEFINE o == [obj[d] EXCEPT !.cdevRef = r]
  <2>1. obj' = [obj EXCEPT ![d] = o]
    BY ObjRecord
  <2>2. /\ o.mem = obj[d].mem /\ o.cdevRef = r
        /\ o.added = obj[d].added /\ o.device = obj[d].device
        /\ o.ref = obj[d].ref /\ o.minor_off = obj[d].minor_off
    BY ObjRecord DEF Object
  <2>3. /\ DOMAIN o = {"mem", "cdevRef", "added", "device", "ref", "minor_off"}
        /\ o = [f \in DOMAIN o |-> o[f]]
    BY ObjRecord DEF Object
  <2> HIDE DEF o
  <2>4. o = [mem |-> obj[d].mem, cdevRef |-> r, added |-> obj[d].added,
             device |-> obj[d].device, ref |-> obj[d].ref,
             minor_off |-> obj[d].minor_off]
    BY <2>2, <2>3
  <2> QED BY <2>1, <2>4, BecomesRecord

\* kbuf_open of a static device.
<1>OpenStatic.
      ASSUME LifeInv, NEW p \in Procs, proc[p].pc = "open", proc[p].id < kbuf_ndevices,
             proc' = [proc EXCEPT ![p].pc = "opened", ![p].file = proc[p].id],
             UNCHANGED <<obj, dynVars, buf, modVars>>
      PROVE  LifeInv'
  <2> USE <1>OpenStatic
  <2>0. LifeType /\ ProcInv(p) /\ load.pc = "live"
    BY Live DEF LifeInv
  <2>1. Now(p, "opened", proc[p].dev, proc[p].id, proc[p].id, proc[p].icdev,
            proc[p].import, proc[p].held)
    BY <2>0, FileEffect
  <2>2. proc[p].id \in Static /\ proc[p].id \notin Dynamic /\ proc[p].id # NoDev /\ NoDev \notin Dynamic
    <3>1. proc[p].id \in Nat /\ kbuf_ndevices \in 0..KBUF_MAX_NDEVICES
      BY <2>0, ProcRecord DEF LifeType
    <3> QED BY <3>1, LifeAssumption, SMT DEF Static, Dynamic, NoDev
  <2>3. proc' \in [Procs -> Thread]
    BY <2>0, <2>1, <2>2, ProcRecord, SMT DEF Now, ProcPc, Devs
  <2>4. proc[p].pc \in OutsidePc /\ proc'[p].pc \in OutsidePc
    BY <2>1 DEF Now, OutsidePc, ProcPc, CreatePc, DestroyPc
  <2>5. ProcInv(p)'
    BY <2>0, <2>1, <2>2 DEF ProcInv, Now, CtlPc, ImportPc, ExportPc, CreatePc, DestroyPc,
       modVars
  <2>6. \A e \in Dynamic : proc'[p].file = e <=> proc[p].file = e
    BY <2>0, <2>1, <2>2 DEF Now, ProcInv
  <2> QED BY <2>0, <2>1, <2>3, <2>4, <2>5, <2>6, Quiet DEF Now

\* A cdev in the kernel's map or in an inode has references.
<1>CdevUsed.
      ASSUME NEW d, DynInv(d), obj[d].added \/ \E q \in Procs : proc[q].icdev = d
      PROVE  obj[d].cdevRef > 0
  <2> USE <1>CdevUsed
  <2>1. obj[d].cdevRef = One(CdevOwned(d)) + Cardinality(Inodes(d))
    BY DEF DynInv, CdevInv
  <2>2. Cardinality(Inodes(d)) \in Nat /\ (Inodes(d) # {} => Cardinality(Inodes(d)) # 0)
    <3>1. Inodes(d) \in SUBSET Procs
      BY DEF Inodes
    <3> QED BY <3>1, Count
  <2>3. CdevOwned(d) \/ Inodes(d) # {}
    BY DEF CdevOwned, Inodes
  <2> QED BY <2>1, <2>2, <2>3, SMT DEF One

\* chrdev_open takes a reference on the cdev.
<1>OpenInode.
      ASSUME LifeInv, NEW p \in Procs, load.pc = "live", NEW d \in Devs, NEW m \in Nat,
             proc[p].pc = "idle", proc[p].icdev = NoDev,
             d \in Dynamic => obj[d].cdevRef > 0, d \in Static => d < kbuf_ndevices,
             NEW c, c = obj[d].cdevRef + 1,
             Becomes(d, obj[d].mem, c, obj[d].added, obj[d].device, obj[d].ref, obj[d].minor_off),
             Now(p, "open", proc[p].dev, m, proc[p].file, d, proc[p].import, proc[p].held),
             UNCHANGED <<dynVars, buf, modVars>>
      PROVE  LifeInv'
  <2> USE <1>OpenInode
  <2>0. LifeType /\ ProcInv(p) /\ d \in Static \cup Dynamic
    BY DEF LifeInv, Devs
  <2>1. /\ proc'[p].pc = "open" /\ proc'[p].dev = proc[p].dev /\ proc'[p].id = m
        /\ proc'[p].file = proc[p].file /\ proc'[p].icdev = d
        /\ proc'[p].import = proc[p].import /\ proc'[p].held = proc[p].held
        /\ \A q \in Procs \ {p} : proc'[q] = proc[q]
    BY DEF Now
  <2>2. proc' \in [Procs -> Thread]
    <3>1. /\ "open" \in ProcPc /\ {proc[p].dev, proc[p].file, d} \subseteq Devs \cup {NoDev}
          /\ proc[p].import \in Procs \cup {NoProc} /\ proc[p].held \subseteq Steps
      <4>1. /\ proc[p].dev \in Devs \cup {NoDev} /\ proc[p].file \in Devs \cup {NoDev}
            /\ proc[p].import \in Procs \cup {NoProc} /\ proc[p].held \subseteq Steps
        BY <2>0, ProcRecord
      <4> QED BY <4>1 DEF ProcPc
    <3> QED BY <3>1 DEF Now
  <2>3. /\ proc[p].file = NoDev /\ proc[p].import = NoProc /\ proc[p].held = {}
        /\ NoDev \notin Devs
    <3>1. NoDev \notin Devs
      BY LifeAssumption, SMT DEF NoDev, Devs, Static, Dynamic
    <3> QED BY <2>0, <3>1 DEF ProcInv, ImportPc
  <2>4. ProcInv(p)'
    <3>1. proc'[p].file \notin Static /\ proc'[p].icdev # NoDev /\ UNCHANGED kbuf_ndevices
      BY <2>1, <2>3 DEF Devs, modVars
    <3> QED BY <2>1, <2>3, <3>1 DEF ProcInv, CtlPc, ImportPc, ExportPc, CreatePc, DestroyPc
  <2>5. Uses(p, p, d)
    <3>1. "open" \in UserPc /\ "idle" \in UserPc
      BY DEF UserPc, ProcPc, CreatePc, DestroyPc
    <3>2. \A e \in Devs \ {d} : obj'[e] = obj[e]
      BY DEF Becomes
    <3> QED BY <2>1, <3>1, <3>2 DEF Uses, Apart, dynVars
  <2>7. obj[d].cdevRef \in Nat /\ obj[d].ref \in Nat /\ obj[d].mem \subseteq Parts
    BY <2>0, ObjRecord
  <2>8. /\ Cardinality(Inodes(d)) \in Nat
        /\ Cardinality(Inodes(d)') = Cardinality(Inodes(d)) + 1
        /\ Holders(d)' = Holders(d)
    <3>1. p \in Inodes(d)' /\ p \notin Inodes(d)
      BY <2>1, <2>3 DEF Inodes
    <3>2. /\ p \in Opened(d)' <=> p \in Opened(d)
          /\ p \in Exported(d)' <=> p \in Exported(d)
          /\ p \in Exporting(d)' <=> p \in Exporting(d)
      BY <2>1 DEF Opened, Exported, Exporting
    <3> QED BY <2>5, <3>1, <3>2, UserCounts, SMT DEF One
  <2>9. c - Cardinality(Inodes(d)') = obj[d].cdevRef - Cardinality(Inodes(d))
    BY <2>7, <2>8, SMT
  <2>10. \A e \in Devs \ {d} : /\ proc'[p].icdev = e <=> proc[p].icdev = e
                               /\ proc'[p].file = e <=> proc[p].file = e
                               /\ p \in Exporting(e)' <=> p \in Exporting(e)
    BY <2>1, <2>3 DEF Exporting
  <2>11. c \in Nat /\ c > 0
    BY <2>7, SMT
  <2>12. kbuf_dyn_ida' = kbuf_dyn_ida /\ buf' = buf
    BY DEF dynVars
  <2>13. CASE d \in Dynamic
    <3>1. DynInv(d) /\ d \notin Static
      BY <2>13, LifeAssumption, SMT DEF LifeInv, Static, Dynamic
    <3>2. obj[d].cdevRef > 0
      BY <2>13
    <3>3. "cdev" \in obj[d].mem /\ Holders(d)' = obj[d].ref
      BY <2>8, <3>1, <3>2 DEF DynInv, MemInv
    <3>4. /\ DynInv(d)' /\ \A k \in Ids : MinorInv(k)'
          /\ obj' \in [Devs -> Object] /\ kbuf_dyn_ida' \subseteq Ids
          /\ obj'[d].minor_off = obj[d].minor_off
      BY <2>5, <2>7, <2>9, <2>11, <2>12, <2>13, <3>2, <3>3, UseCount
    <3> QED BY <2>1, <2>2, <2>4, <2>5, <2>10, <2>12, <3>1, <3>4, FileInv
  <2>14. CASE d \in Static
    <3>1. d \notin Dynamic
      BY <2>14, LifeAssumption, SMT DEF Static, Dynamic
    <3>2. /\ StaticInv(d)' /\ \A k \in Ids : MinorInv(k)'
          /\ obj' \in [Devs -> Object] /\ kbuf_dyn_ida' \subseteq Ids
          /\ obj'[d].minor_off = obj[d].minor_off
      BY <2>5, <2>7, <2>9, <2>11, <2>12, <2>14, UseStatic
    <3> QED BY <2>1, <2>2, <2>4, <2>5, <2>10, <2>12, <3>1, <3>2, FileInv
  <2> QED BY <2>0, <2>13, <2>14

\* An open finds a cdev.
<1>ChrdevOpen.
      ASSUME LoadedFirst, LifeInv, NEW p \in Procs, chrdev_open(p)
      PROVE  LifeInv'
  <2> USE <1>ChrdevOpen
  <2>0. LifeType /\ load.pc = "live"
    BY LiveGet DEF chrdev_open, LifeInv
  <2>1. PICK d \in StaticOpens \cup Dynamic :
           /\ obj[d].added \/ \E q \in Procs : proc[q].icdev = d
           /\ obj' = [obj EXCEPT ![d].cdevRef = @ + 1]
           /\ proc' = [proc EXCEPT ![p].pc = "open", ![p].icdev = d, ![p].id = Minor(d)]
    BY DEF chrdev_open
  <2>2. d \in Devs
    BY <2>1, LifeAssumption DEF Devs
  <2>3. Minor(d) \in Nat
    <3>1. obj[d].minor_off \in Nat
      BY <2>0, <2>2, ObjRecord, IdsNat
    <3>2. kbuf_ndevices \in Nat
      BY <2>0, SMT DEF LifeType
    <3> QED BY <3>1, <3>2, LifeAssumption, SMT DEF Minor, Static
  <2> DEFINE m == Minor(d)
             c == obj[d].cdevRef + 1
  <2>4. Now(p, "open", proc[p].dev, m, proc[p].file, d, proc[p].import, proc[p].held)
    BY <2>0, <2>1, InodeEffect
  <2>5. /\ proc[p].pc = "idle" /\ proc[p].icdev = NoDev
        /\ UNCHANGED <<dynVars, buf, modVars>>
    BY DEF chrdev_open
  <2>6. Becomes(d, obj[d].mem, c, obj[d].added, obj[d].device, obj[d].ref, obj[d].minor_off)
    BY <2>0, <2>1, <2>2, <1>CdevRefEffect
  <2>7. m \in Nat /\ c = obj[d].cdevRef + 1
    BY <2>3
  <2>8. d \in Dynamic => obj[d].cdevRef > 0
    BY <2>1, <1>CdevUsed DEF LifeInv
  <2>9. ASSUME d \in Static PROVE d < kbuf_ndevices
    <3>1. CASE obj[d].added
      <4>1. ~(d >= kbuf_ndevices)
        BY <2>9, <3>1 DEF LifeInv, StaticInv, None
      <4>2. d \in Int /\ kbuf_ndevices \in Int
        BY <2>0, <2>9, LifeAssumption, SMT DEF Static, LifeType
      <4> QED BY <4>1, <4>2, SMT
    <3>2. CASE \E q \in Procs : proc[q].icdev = d
      BY <2>9, <3>2 DEF LifeInv, ProcInv
    <3> QED BY <2>1, <3>1, <3>2
  <2> HIDE DEF m, c
  <2> QED BY <2>0, <2>2, <2>4, <2>5, <2>6, <2>7, <2>8, <2>9, <1>OpenInode

\* kbuf_open finds a dynamic device and takes a reference.
<1>OpenFound.
      ASSUME LifeInv, NEW p \in Procs, load.pc = "live", NEW d \in Dynamic, d \in Listed,
             proc[p].pc = "open", NEW r, r = obj[d].ref + 1,
             Becomes(d, obj[d].mem, obj[d].cdevRef, obj[d].added, obj[d].device, r,
                     obj[d].minor_off),
             Now(p, "opened", proc[p].dev, proc[p].id, d, proc[p].icdev, proc[p].import,
                 proc[p].held),
             UNCHANGED <<dynVars, buf, modVars>>
      PROVE  LifeInv'
  <2> USE <1>OpenFound
  <2>0. LifeType /\ ProcInv(p) /\ DynInv(d) /\ d \in Devs
    BY DEF LifeInv, Devs
  <2>1. /\ proc'[p].pc = "opened" /\ proc'[p].dev = proc[p].dev /\ proc'[p].id = proc[p].id
        /\ proc'[p].file = d /\ proc'[p].icdev = proc[p].icdev
        /\ proc'[p].import = proc[p].import /\ proc'[p].held = proc[p].held
        /\ \A q \in Procs \ {p} : proc'[q] = proc[q]
    BY DEF Now
  <2>2. proc' \in [Procs -> Thread]
    <3>1. /\ "opened" \in ProcPc /\ {proc[p].dev, d, proc[p].icdev} \subseteq Devs \cup {NoDev}
          /\ proc[p].import \in Procs \cup {NoProc} /\ proc[p].held \subseteq Steps
          /\ proc[p].id \in Nat
      <4>1. /\ proc[p].dev \in Devs \cup {NoDev} /\ proc[p].icdev \in Devs \cup {NoDev}
            /\ proc[p].import \in Procs \cup {NoProc} /\ proc[p].held \subseteq Steps
            /\ proc[p].id \in Nat
        BY <2>0, ProcRecord
      <4> QED BY <2>0, <4>1 DEF ProcPc
    <3> QED BY <3>1 DEF Now
  <2>3. /\ d # NoDev /\ d \notin Static
    BY LifeAssumption, SMT DEF NoDev, Static, Dynamic
  <2>4. /\ proc[p].file = NoDev /\ proc[p].icdev # NoDev
        /\ proc[p].import = NoProc /\ proc[p].held = {}
        /\ proc[p].icdev \in Static => proc[p].icdev < kbuf_ndevices
    BY <2>0 DEF ProcInv, ImportPc
  <2>5. ProcInv(p)'
    BY <2>1, <2>3, <2>4
       DEF ProcInv, CtlPc, ImportPc, ExportPc, CreatePc, DestroyPc, modVars
  <2>6. Uses(p, p, d)
    <3>1. "open" \in UserPc /\ "opened" \in UserPc
      BY DEF UserPc, ProcPc, CreatePc, DestroyPc
    <3>2. \A e \in Devs \ {d} : obj'[e] = obj[e]
      BY DEF Becomes
    <3> QED BY <2>1, <3>1, <3>2 DEF Uses, Apart, dynVars
  <2>7. obj[d].cdevRef \in Nat /\ obj[d].ref \in Nat /\ obj[d].mem \subseteq Parts
    BY <2>0, ObjRecord
  <2>8. /\ Cardinality(Inodes(d)) \in Nat
        /\ Cardinality(Inodes(d)') = Cardinality(Inodes(d))
        /\ Holders(d)' = Holders(d) + 1
    <3>1. p \in Inodes(d)' <=> p \in Inodes(d)
      BY <2>1 DEF Inodes
    <3>2. p \in Opened(d)' /\ p \notin Opened(d)
      BY <2>1, <2>3, <2>4 DEF Opened
    <3>3. /\ p \in Exported(d)' <=> p \in Exported(d)
          /\ p \in Exporting(d)' <=> p \in Exporting(d)
      BY <2>1 DEF Exported, Exporting
    <3> QED BY <2>6, <3>1, <3>2, <3>3, UserCounts, SMT DEF One
  <2>9. Creating(d) = {} /\ obj[d].ref # 0 /\ Holders(d) = obj[d].ref
    <3>1. Registered(d) /\ Creating(d) = {}
      BY <2>0 DEF Registered, DynInv, OneOwner
    <3> QED BY <2>0, <3>1, NoUsers DEF DynInv
  <2>10. /\ r \in Nat /\ r > 0 /\ obj[d].ref > 0 /\ Holders(d)' = r
         /\ obj[d].cdevRef - Cardinality(Inodes(d)') = obj[d].cdevRef - Cardinality(Inodes(d))
    BY <2>7, <2>8, <2>9, SMT
  <2>11. "cdev" \in obj[d].mem <=> obj[d].cdevRef > 0
    BY <2>0 DEF DynInv, MemInv
  <2>12. kbuf_dyn_ida' = kbuf_dyn_ida /\ buf' = buf
    BY DEF dynVars
  <2>13. /\ DynInv(d)' /\ \A k \in Ids : MinorInv(k)'
         /\ obj' \in [Devs -> Object] /\ kbuf_dyn_ida' \subseteq Ids
         /\ obj'[d].minor_off = obj[d].minor_off
    BY <2>6, <2>7, <2>9, <2>10, <2>11, <2>12, UseCount
  <2>14. \A e \in Devs \ {d} : /\ proc'[p].icdev = e <=> proc[p].icdev = e
                               /\ proc'[p].file = e <=> proc[p].file = e
                               /\ p \in Exporting(e)' <=> p \in Exporting(e)
    <3>1. NoDev \notin Devs
      BY LifeAssumption, SMT DEF NoDev, Devs, Static, Dynamic
    <3> QED BY <2>1, <2>4, <3>1 DEF Exporting
  <2> QED BY <2>1, <2>2, <2>3, <2>5, <2>6, <2>12, <2>13, <2>14, FileInv

\* kbuf_open.
<1>KbufOpen.
      ASSUME LifeInv, NEW p \in Procs, kbuf_open(p)
      PROVE  LifeInv'
  <2> USE <1>KbufOpen
  <2> DEFINE found == ListFind(proc[p].id - kbuf_ndevices)
             d == kbuf_dyn_list[Min(found)]
  <2>0. LifeType /\ load.pc = "live" /\ proc[p].pc = "open" /\ UNCHANGED <<dynVars, buf, modVars>>
    BY Live DEF kbuf_open, LifeInv
  <2>1. CASE /\ proc[p].id < kbuf_ndevices /\ UNCHANGED obj
             /\ proc' = [proc EXCEPT ![p].pc = "opened", ![p].file = proc[p].id]
    BY <2>0, <2>1, <1>OpenStatic
  <2>2. CASE /\ found # {}
             /\ proc' = [proc EXCEPT ![p].pc = "opened", ![p].file = d]
             /\ obj' = [obj EXCEPT ![d].ref = @ + 1]
    <3>1. d \in Listed /\ d \in Dynamic /\ d \in Devs
      BY <2>0, <2>2, FindOnList DEF Devs
    <3> HIDE DEF d
    <3> DEFINE r == obj[d].ref + 1
    <3>2. Becomes(d, obj[d].mem, obj[d].cdevRef, obj[d].added, obj[d].device, r,
                  obj[d].minor_off)
      BY <2>0, <2>2, <3>1, RefEffect
    <3>3. Now(p, "opened", proc[p].dev, proc[p].id, d, proc[p].icdev, proc[p].import,
              proc[p].held)
      BY <2>0, <2>2, FileEffect
    <3>4. r = obj[d].ref + 1
      BY SMT
    <3> HIDE DEF r
    <3> QED BY <2>0, <3>1, <3>2, <3>3, <3>4, <1>OpenFound
  <2>3. CASE proc' = [proc EXCEPT ![p].pc = "cdev_put"] /\ UNCHANGED obj
    BY <2>0, <2>3, GoesOn
  <2> QED BY <2>1, <2>2, <2>3 DEF kbuf_open, kbuf_dyn_get

\* The last reference to a file of a dynamic device goes.
<1>ReleaseDrop.
      ASSUME LifeInv, NEW p \in Procs, load.pc = "live", proc[p].pc = "release",
             NEW d \in Dynamic, d = proc[p].file, Drops(d),
             Now(p, "cdev_put", proc[p].dev, proc[p].id, NoDev, proc[p].icdev, proc[p].import,
                 proc[p].held),
             UNCHANGED <<kbuf_dyn_list, created, buf, modVars>>
      PROVE  LifeInv'
  <2> USE <1>ReleaseDrop
  <2>0. LifeType /\ ProcInv(p) /\ d \in Devs
    BY DEF LifeInv, Devs
  <2>1. /\ proc'[p].pc = "cdev_put" /\ proc'[p].dev = proc[p].dev /\ proc'[p].id = proc[p].id
        /\ proc'[p].file = NoDev /\ proc'[p].icdev = proc[p].icdev
        /\ proc'[p].import = proc[p].import /\ proc'[p].held = proc[p].held
        /\ \A q \in Procs \ {p} : proc'[q] = proc[q]
    BY DEF Now
  <2>2. proc' \in [Procs -> Thread]
    <3>1. /\ "cdev_put" \in ProcPc /\ {proc[p].dev, NoDev, proc[p].icdev} \subseteq Devs \cup {NoDev}
          /\ proc[p].import \in Procs \cup {NoProc} /\ proc[p].held \subseteq Steps
          /\ proc[p].id \in Nat
      <4>1. /\ proc[p].dev \in Devs \cup {NoDev} /\ proc[p].icdev \in Devs \cup {NoDev}
            /\ proc[p].import \in Procs \cup {NoProc} /\ proc[p].held \subseteq Steps
            /\ proc[p].id \in Nat
        BY <2>0, ProcRecord
      <4> QED BY <2>0, <4>1 DEF ProcPc
    <3> QED BY <3>1 DEF Now
  <2>3. NoDev \notin Devs /\ NoDev \notin Static /\ d # NoDev /\ d \notin Static
    BY LifeAssumption, SMT DEF NoDev, Devs, Static, Dynamic
  <2>4. /\ proc[p].icdev # NoDev /\ proc[p].import = NoProc /\ proc[p].held = {}
        /\ proc[p].icdev \in Static => proc[p].icdev < kbuf_ndevices
    BY <2>0 DEF ProcInv, ImportPc
  <2>5. ProcInv(p)'
    BY <2>1, <2>3, <2>4
       DEF ProcInv, CtlPc, ImportPc, ExportPc, CreatePc, DestroyPc, modVars
  <2>6. p \in Opened(d) /\ p \notin Opened(d)'
    BY <2>1, <2>3 DEF Opened
  <2>7. obj[d].ref > 0 /\ obj[d].ref \in Nat /\ Creating(d) = {}
    BY <2>6, HasUser
  <2>8. Uses(p, p, d)
    <3>1. "release" \in UserPc /\ "cdev_put" \in UserPc
      BY DEF UserPc, ProcPc, CreatePc, DestroyPc
    <3>2. \A e \in Devs \ {d} : obj'[e] = obj[e]
      BY DEF Drops, Becomes
    <3> QED BY <2>1, <3>1, <3>2 DEF Uses, Apart
  <2>9. Holders(d)' = Holders(d) - 1
    <3>1. /\ p \in Exported(d)' <=> p \in Exported(d)
          /\ p \in Exporting(d)' <=> p \in Exporting(d)
      BY <2>1 DEF Exported, Exporting
    <3> QED BY <2>6, <2>8, <3>1, UserCounts, SMT DEF One
  <2>10. Inodes(d)' = Inodes(d)
    BY <2>1 DEF Inodes
  <2>11. /\ DynInv(d)' /\ \A k \in Ids : MinorInv(k)'
         /\ obj' \in [Devs -> Object] /\ kbuf_dyn_ida' \subseteq Ids
         /\ obj'[d].minor_off = obj[d].minor_off
    BY <2>7, <2>8, <2>9, <2>10, UseDrop
  <2>12. \A e \in Devs \ {d} : /\ proc'[p].icdev = e <=> proc[p].icdev = e
                               /\ proc'[p].file = e <=> proc[p].file = e
                               /\ p \in Exporting(e)' <=> p \in Exporting(e)
    BY <2>1, <2>3 DEF Exporting
  <2> QED BY <2>1, <2>2, <2>3, <2>5, <2>8, <2>11, <2>12, FileInv

\* kbuf_release.
<1>KbufRelease.
      ASSUME LifeInv, NEW p \in Procs, kbuf_release(p)
      PROVE  LifeInv'
  <2> USE <1>KbufRelease
  <2>0. /\ LifeType /\ ProcInv(p) /\ load.pc = "live" /\ proc[p].pc = "release"
        /\ UNCHANGED <<kbuf_dyn_list, created, buf, modVars>>
    BY Live DEF kbuf_release, LifeInv
  <2>1. Now(p, "cdev_put", proc[p].dev, proc[p].id, NoDev, proc[p].icdev, proc[p].import,
            proc[p].held)
    BY <2>0, FileEffect DEF kbuf_release
  <2>2. CASE proc[p].file \in Dynamic
    <3> DEFINE d == proc[p].file
    <3>1. d \in Dynamic /\ d \in Devs /\ p \in Opened(d) /\ d = proc[p].file
      BY <2>2 DEF Devs, Opened
    <3>2. kref_put(d)
      BY <2>2 DEF kbuf_release, PutIfDynamic
    <3> HIDE DEF d
    <3>3. obj[d].ref > 0
      BY <3>1, HasUser
    <3>4. Drops(d)
      BY <2>0, <3>1, <3>2, <3>3, KrefPut
    <3> QED BY <2>0, <2>1, <3>1, <3>4, <1>ReleaseDrop
  <2>3. CASE proc[p].file \notin Dynamic
    <3>1. /\ proc'[p].pc = "cdev_put" /\ proc'[p].dev = proc[p].dev /\ proc'[p].id = proc[p].id
          /\ proc'[p].file = NoDev /\ proc'[p].icdev = proc[p].icdev
          /\ proc'[p].import = proc[p].import /\ proc'[p].held = proc[p].held
          /\ \A q \in Procs \ {p} : proc'[q] = proc[q]
      BY <2>1 DEF Now
    <3>2. UNCHANGED <<obj, dynVars, buf, modVars>>
      BY <2>0, <2>3 DEF kbuf_release, PutIfDynamic, dynVars
    <3>3. NoDev \notin Dynamic /\ NoDev \notin Static
      BY LifeAssumption, SMT DEF NoDev, Static, Dynamic
    <3>4. /\ proc[p].icdev # NoDev /\ proc[p].import = NoProc /\ proc[p].held = {}
          /\ proc[p].icdev \in Static => proc[p].icdev < kbuf_ndevices
      BY <2>0 DEF ProcInv, ImportPc
    <3>5. ProcInv(p)'
      BY <3>1, <3>2, <3>3, <3>4
         DEF ProcInv, CtlPc, ImportPc, ExportPc, CreatePc, DestroyPc, modVars
    <3>6. proc[p].pc \in OutsidePc /\ proc'[p].pc \in OutsidePc
      BY <2>0, <3>1 DEF OutsidePc, ProcPc, CreatePc, DestroyPc
    <3>7. proc' \in [Procs -> Thread]
      <4>1. /\ "cdev_put" \in ProcPc /\ {proc[p].dev, NoDev, proc[p].icdev} \subseteq Devs \cup {NoDev}
            /\ proc[p].import \in Procs \cup {NoProc} /\ proc[p].held \subseteq Steps
            /\ proc[p].id \in Nat
        <5>1. /\ proc[p].dev \in Devs \cup {NoDev} /\ proc[p].icdev \in Devs \cup {NoDev}
              /\ proc[p].import \in Procs \cup {NoProc} /\ proc[p].held \subseteq Steps
              /\ proc[p].id \in Nat
          BY <2>0, ProcRecord
        <5> QED BY <5>1 DEF ProcPc
      <4> QED BY <2>1, <4>1 DEF Now
    <3>8. \A e \in Dynamic : proc'[p].file = e <=> proc[p].file = e
      BY <2>3, <3>1, <3>3
    <3> QED BY <2>0, <3>1, <3>2, <3>5, <3>6, <3>7, <3>8, Quiet
  <2> QED BY <2>2, <2>3

\* The inode's reference on the cdev of a dynamic device is not CREATE's own.
<1>InodeShares.
      ASSUME LifeInv, NEW d \in Dynamic, NEW p \in Inodes(d)
      PROVE  /\ obj[d].cdevRef > 0 /\ "cdev" \in obj[d].mem
             /\ Creating(d) # {} => obj[d].cdevRef # 1
  <2> USE <1>InodeShares
  <2>0. DynInv(d) /\ p \in Procs /\ proc[p].icdev = d
    BY DEF LifeInv, Inodes
  <2>1. obj[d].cdevRef > 0
    BY <2>0, <1>CdevUsed
  <2>2. "cdev" \in obj[d].mem
    BY <2>0, <2>1 DEF DynInv, MemInv
  <2>3. ASSUME NEW q \in Creating(d), obj[d].cdevRef = 1
        PROVE  FALSE
    <3>1. q \in Procs /\ proc[q].pc \in CreatePc /\ proc[q].dev = d
      BY DEF Creating, CreatePc
    <3>2. obj[d].mem = CreateMem[proc[q].pc] /\ (obj[d].added <=> proc[q].pc \in {"device", "list"})
      BY <3>1, Creator
    <3>3. proc[q].pc \in {"add", "device", "list"}
      BY <2>2, <3>1, <3>2, SMT DEF CreateMem, CreatePc
    <3>4. CdevOwned(d)
      BY <3>2, <3>3 DEF CdevOwned
    <3>5. Cardinality(Inodes(d)) = 0
      <4>1. One(CdevOwned(d)) = 1
        BY <3>4 DEF One
      <4>2. Cardinality(Inodes(d)) \in Nat
        <5>1. Inodes(d) \in SUBSET Procs
          BY DEF Inodes
        <5> QED BY <5>1, Count
      <4>3. obj[d].cdevRef = One(CdevOwned(d)) + Cardinality(Inodes(d))
        BY <2>0 DEF DynInv, CdevInv
      <4> QED BY <2>3, <4>1, <4>2, <4>3, SMT
    <3>6. Inodes(d) \in SUBSET Procs
      BY DEF Inodes
    <3> QED BY <3>5, <3>6, Count
  <2> QED BY <2>1, <2>2, <2>3

\* The VFS drops the cdev: an inode less.
<1>CloseInode.
      ASSUME LifeInv, NEW p \in Procs, load.pc = "live", proc[p].pc = "cdev_put",
             NEW d, p \in Inodes(d), NEW mem, NEW c, Unlinks(d, mem, c),
             Becomes(d, mem, c, obj[d].added, obj[d].device, obj[d].ref, obj[d].minor_off),
             Now(p, "idle", NoDev, 0, NoDev, NoDev, NoProc, {}),
             UNCHANGED <<dynVars, buf, modVars>>
      PROVE  LifeInv'
  <2> USE <1>CloseInode
  <2>0. LifeType /\ ProcInv(p) /\ proc[p].icdev = d
    BY DEF LifeInv, Inodes
  <2>2. /\ proc'[p].pc = "idle" /\ proc'[p].dev = NoDev /\ proc'[p].id = 0
        /\ proc'[p].file = NoDev /\ proc'[p].icdev = NoDev
        /\ proc'[p].import = NoProc /\ proc'[p].held = {}
        /\ \A q \in Procs \ {p} : proc'[q] = proc[q]
    BY DEF Now
  <2>3. /\ proc[p].file = NoDev /\ d # NoDev /\ proc[p].import = NoProc /\ d \in Devs
    <3>1. proc[p].icdev \in Devs \cup {NoDev}
      BY <2>0, ProcRecord
    <3> QED BY <2>0, <3>1 DEF ProcInv, ImportPc
  <2>4. proc' \in [Procs -> Thread]
    <3>1. "idle" \in ProcPc /\ 0 \in Nat /\ {NoDev, NoDev, NoDev} \subseteq Devs \cup {NoDev}
      BY DEF ProcPc
    <3>2. NoProc \in Procs \cup {NoProc} /\ {} \subseteq Steps
      OBVIOUS
    <3> QED BY <3>1, <3>2 DEF Now
  <2>5. NoDev \notin Devs /\ NoDev \notin Static
    BY LifeAssumption, SMT DEF NoDev, Devs, Static, Dynamic
  <2>6. ProcInv(p)'
    BY <2>2, <2>5 DEF ProcInv, CtlPc, ImportPc, ExportPc, CreatePc, DestroyPc
  <2>8. /\ mem \ {"cdev"} = obj[d].mem \ {"cdev"} /\ (obj[d].mem \subseteq Parts => mem \subseteq Parts)
        /\ obj[d].cdevRef # 1 => mem = obj[d].mem
        /\ obj[d].cdevRef = 1 => "cdev" \notin mem
        /\ "cdev" \notin obj[d].mem => mem = obj[d].mem
        /\ c = obj[d].cdevRef - 1
    BY DEF Unlinks
  <2>9. Uses(p, p, d)
    <3>1. "idle" \in UserPc /\ "cdev_put" \in UserPc
      BY DEF UserPc, ProcPc, CreatePc, DestroyPc
    <3>2. \A e \in Devs \ {d} : obj'[e] = obj[e]
      BY DEF Becomes
    <3> QED BY <2>0, <2>2, <3>1, <3>2 DEF Uses, Apart, dynVars
  <2>10. obj[d].cdevRef \in Nat /\ obj[d].ref \in Nat /\ obj[d].mem \subseteq Parts
    BY <2>0, <2>3, ObjRecord
  <2>11. /\ Cardinality(Inodes(d)) \in Nat
         /\ Cardinality(Inodes(d)') = Cardinality(Inodes(d)) - 1
         /\ Cardinality(Inodes(d)') \in Nat
         /\ Holders(d)' = Holders(d)
    <3>1. p \notin Inodes(d)' /\ Inodes(d)' \in SUBSET Procs
      BY <2>2, <2>3 DEF Inodes
    <3>2. /\ p \in Opened(d)' <=> p \in Opened(d)
          /\ p \in Exported(d)' <=> p \in Exported(d)
          /\ p \in Exporting(d)' <=> p \in Exporting(d)
      BY <2>0, <2>2, <2>3 DEF Opened, Exported, Exporting
    <3>3. Cardinality(Inodes(d)') \in Nat
      BY <3>1, Count
    <3> QED BY <2>0, <2>9, <3>1, <3>2, <3>3, UserCounts, SMT DEF One
  <2>12. c - Cardinality(Inodes(d)') = obj[d].cdevRef - Cardinality(Inodes(d))
    BY <2>8, <2>10, <2>11, SMT
  <2>13. \A e \in Devs \ {d} : /\ proc'[p].icdev = e <=> proc[p].icdev = e
                               /\ proc'[p].file = e <=> proc[p].file = e
                               /\ p \in Exporting(e)' <=> p \in Exporting(e)
    BY <2>0, <2>2, <2>3, <2>5 DEF Exporting
  <2>14. kbuf_dyn_ida' = kbuf_dyn_ida /\ buf' = buf /\ mem \subseteq Parts
    BY <2>0, <2>8, <2>10 DEF dynVars
  <2>15. CASE d \in Dynamic
    <3>1. DynInv(d) /\ d \notin Static
      BY <2>15, LifeAssumption, SMT DEF LifeInv, Static, Dynamic
    <3>2. /\ obj[d].cdevRef > 0 /\ "cdev" \in obj[d].mem
          /\ Creating(d) # {} => obj[d].cdevRef # 1
      BY <2>0, <2>15, <1>InodeShares
    <3>3. c \in Nat /\ ("cdev" \in mem <=> c > 0)
      BY <2>8, <2>10, <3>2, SMT
    <3>4. Holders(d)' = obj[d].ref
      BY <2>11, <3>1 DEF DynInv
    <3>a. /\ mem \ {"cdev"} = obj[d].mem \ {"cdev"} /\ obj[d].ref \in Nat
          /\ Creating(d) # {} => obj[d].ref = obj[d].ref /\ mem = obj[d].mem
          /\ obj[d].ref > 0 \/ obj[d].cdevRef > 0
      BY <2>8, <2>10, <3>2
    <3>5. /\ DynInv(d)' /\ \A k \in Ids : MinorInv(k)'
          /\ obj' \in [Devs -> Object] /\ kbuf_dyn_ida' \subseteq Ids
          /\ obj'[d].minor_off = obj[d].minor_off
      BY <2>9, <2>12, <2>14, <2>15, <3>3, <3>4, <3>a, UseCount
    <3> QED BY <2>0, <2>2, <2>3, <2>4, <2>6, <2>9, <2>13, <2>14, <3>1, <3>5, FileInv
  <2>16. CASE d \in Static
    <3>1. d \notin Dynamic /\ StaticInv(d)
      BY <2>16, LifeAssumption, SMT DEF Static, Dynamic, LifeInv
    <3>2. "cdev" \notin obj[d].mem
      <4>1. None(d) \/ Full(d)
        BY <2>0, <3>1, <2>16, LifeAssumption, SMT DEF StaticInv, ReadyPc, Static, LifeInv, LifeType
      <4> QED BY <4>1, SMT DEF None, Full, Ring
    <3>3. c \in Nat
      <4>1. obj[d].cdevRef = One(obj[d].added) + Cardinality(Inodes(d))
        BY <3>1 DEF StaticInv
      <4> QED BY <2>8, <2>11, <4>1, SMT DEF One
    <3>4. /\ StaticInv(d)' /\ \A k \in Ids : MinorInv(k)'
          /\ obj' \in [Devs -> Object] /\ kbuf_dyn_ida' \subseteq Ids
          /\ obj'[d].minor_off = obj[d].minor_off
      BY <2>8, <2>9, <2>12, <2>14, <2>16, <3>2, <3>3, UseStatic
    <3> QED BY <2>0, <2>2, <2>3, <2>4, <2>6, <2>9, <2>13, <2>14, <3>1, <3>4, FileInv
  <2> QED BY <2>3, <2>15, <2>16 DEF Devs

\* That is cdev_put.
<1>CdevPutStep.
      ASSUME LifeInv, NEW p \in Procs, cdev_put(p)
      PROVE  LifeInv'
  <2> USE <1>CdevPutStep
  <2> DEFINE d == proc[p].icdev
             c == obj[d].cdevRef - 1
             mem == IF obj[d].cdevRef = 1 THEN obj[d].mem \ {"cdev"} ELSE obj[d].mem
  <2>0. /\ LifeType /\ ProcInv(p) /\ load.pc = "live" /\ proc[p].pc = "cdev_put"
        /\ UNCHANGED <<dynVars, buf, modVars>>
    BY Live DEF cdev_put, LifeInv
  <2>1. Now(p, "idle", NoDev, 0, NoDev, NoDev, NoProc, {})
    BY <2>0, NoCallEffect DEF cdev_put
  <2>2. d \in Devs
    <3>1. proc[p].icdev \in Devs \cup {NoDev}
      BY <2>0, ProcRecord
    <3> QED BY <2>0, <3>1 DEF ProcInv
  <2>3. obj' = [obj EXCEPT ![d] = CdevPut(obj[d])]
    BY DEF cdev_put
  <2>4. CdevPut(obj[d]) = [mem |-> mem, cdevRef |-> c, added |-> obj[d].added,
                           device |-> obj[d].device, ref |-> obj[d].ref,
                           minor_off |-> obj[d].minor_off]
    BY <2>0, <2>2, ObjRecord, CdevPutRecord
  <2>5. p \in Inodes(d) /\ Unlinks(d, mem, c)
    BY DEF Inodes, Unlinks
  <2> HIDE DEF d, c, mem
  <2>6. Becomes(d, mem, c, obj[d].added, obj[d].device, obj[d].ref, obj[d].minor_off)
    BY <2>0, <2>2, <2>3, <2>4, BecomesRecord
  <2> QED BY <2>0, <2>1, <2>5, <2>6, <1>CloseInode

\* The steps of open, release and the VFS around them.
<1>FileSteps.
      ASSUME LoadedFirst, LifeInv, NEW p \in Procs, FileStep(p) \/ chrdev_open(p) \/ close(p)
      PROVE  LifeInv'
  <2> USE <1>FileSteps
  <2>1. ASSUME kbuf_open_log(p) PROVE LifeInv'
    <3>1. proc[p].pc = "opened" /\ load.pc = "live"
      BY <2>1, Live DEF kbuf_open_log
    <3>2. /\ proc[p].pc \in {"idle", "user", "opened", "e_user"} /\ proc' = Return(p)
          /\ UNCHANGED <<obj, dynVars, buf, modVars>>
      BY <2>1, <3>1 DEF kbuf_open_log
    <3> QED BY <3>1, <3>2, CallEnds
  <2>2. ASSUME close(p) PROVE LifeInv'
    BY <2>2, GoesOn DEF close
  <2>3. FileStep(p) => LifeInv'
    BY <2>1, <1>KbufOpen, <1>KbufRelease, <1>CdevPutStep DEF FileStep
  <2>4. chrdev_open(p) => LifeInv'
    BY <1>ChrdevOpen
  <2> QED BY <2>2, <2>3, <2>4

<1> QED BY <1>FileSteps

-----------------------------------------------------------------------------
(* EXPORT, up to the dma-buf.                                              *)

\* A device that does not change has the same record.
LEMMA SameBecomes ==
  ASSUME LifeType, NEW d \in Devs, obj' = obj
  PROVE  Becomes(d, obj[d].mem, obj[d].cdevRef, obj[d].added, obj[d].device, obj[d].ref,
                 obj[d].minor_off)
<1>1. obj' \in [Devs -> Object]
  BY DEF LifeType
<1> QED BY <1>1 DEF Becomes

\* The references of a device change, its cdev and its memory do not.
LEMMA UseRef ==
  ASSUME LifeInv, NEW p \in Procs, NEW b \in Procs, NEW d \in Dynamic, Uses(p, b, d),
         NEW r \in Nat, obj[d].ref > 0, r > 0, Creating(d) = {},
         Becomes(d, obj[d].mem, obj[d].cdevRef, obj[d].added, obj[d].device, r,
                 obj[d].minor_off),
         kbuf_dyn_ida' = kbuf_dyn_ida, Holders(d)' = r, Inodes(d)' = Inodes(d)
  PROVE  /\ DynInv(d)' /\ \A m \in Ids : MinorInv(m)'
         /\ obj' \in [Devs -> Object] /\ kbuf_dyn_ida' \subseteq Ids
         /\ obj'[d].minor_off = obj[d].minor_off
<1> DEFINE mem == obj[d].mem
           c == obj[d].cdevRef
<1>1. LifeType /\ DynInv(d) /\ d \in Devs
  BY DEF LifeInv, Devs
<1>2. c \in Nat /\ mem \subseteq Parts
  BY <1>1, ObjRecord
<1>3. /\ mem \ {"cdev"} = obj[d].mem \ {"cdev"}
      /\ "cdev" \in mem <=> c > 0
  BY <1>1 DEF DynInv, MemInv
<1>4. /\ Becomes(d, mem, c, obj[d].added, obj[d].device, r, obj[d].minor_off)
      /\ c - Cardinality(Inodes(d)') = obj[d].cdevRef - Cardinality(Inodes(d))
  OBVIOUS
<1> HIDE DEF mem, c
<1>5. obj[d].ref > 0 \/ obj[d].cdevRef > 0
  OBVIOUS
<1>6. r > 0 <=> obj[d].ref > 0
  OBVIOUS
<1>7. Creating(d) # {} => r = obj[d].ref /\ mem = obj[d].mem
  OBVIOUS
<1> QED BY <1>2, <1>3, <1>4, <1>5, <1>6, <1>7, UseCount

\* A holder becomes another: the reference of an EXPORT goes to its dma-buf, or
\* to nobody when the device is static.
LEMMA UseSame ==
  ASSUME LifeInv, NEW p \in Procs, NEW b \in Procs, NEW d \in Devs, Uses(p, b, d),
         load.pc = "live", obj' = obj, kbuf_dyn_ida' = kbuf_dyn_ida,
         NEW u, u \in Opened(d) \cup Exported(d) \cup Exporting(d), Inodes(d)' = Inodes(d),
         d \in Dynamic => Holders(d)' = Holders(d)
  PROVE  /\ d \in Dynamic => DynInv(d)'
         /\ d \in Static => StaticInv(d)'
         /\ \A m \in Ids : MinorInv(m)'
         /\ obj' \in [Devs -> Object] /\ kbuf_dyn_ida' \subseteq Ids
         /\ obj'[d].minor_off = obj[d].minor_off
<1>0. LifeType /\ d \in Static \cup Dynamic
  BY DEF LifeInv, Devs
<1>1. obj[d].cdevRef \in Nat /\ obj[d].ref \in Nat /\ obj[d].mem \subseteq Parts
  BY <1>0, ObjRecord
<1>2. Becomes(d, obj[d].mem, obj[d].cdevRef, obj[d].added, obj[d].device, obj[d].ref,
              obj[d].minor_off)
  BY <1>0, SameBecomes
<1>3. obj[d].cdevRef - Cardinality(Inodes(d)') = obj[d].cdevRef - Cardinality(Inodes(d))
  OBVIOUS
<1>4. CASE d \in Dynamic
  <2>1. /\ obj[d].ref > 0 /\ DynInv(d) /\ Creating(d) = {}
    BY <1>4, HasUser
  <2>2. d \notin Static
    BY <1>4, LifeAssumption, SMT DEF Static, Dynamic
  <2>3. Holders(d)' = obj[d].ref
    BY <1>4, <2>1 DEF DynInv
  <2> QED BY <1>1, <1>2, <1>4, <2>1, <2>2, <2>3, UseRef
<1>5. CASE d \in Static
  <2>1. d \notin Dynamic
    BY <1>5, LifeAssumption, SMT DEF Static, Dynamic
  <2> QED BY <1>1, <1>2, <1>3, <1>5, <2>1, UseStatic
<1> QED BY <1>0, <1>4, <1>5

\* kbuf_dmabuf_export takes a reference and passes it on to the dma-buf, or gives
\* it back.
LEMMA ExportSteps ==
  \A p \in Procs :
    LifeInv /\ (kbuf_dmabuf_export_get(p) \/ kbuf_dmabuf_export_wrap(p)) => LifeInv'
\* An EXPORT takes its reference on a dynamic device.
<1>ExportGets.
      ASSUME LifeInv, NEW p \in Procs, load.pc = "live", proc[p].pc = "e_get",
             NEW d \in Devs, d = proc[p].file,
             obj' = [obj EXCEPT ![d].ref = IF d \in Dynamic THEN @ + 1 ELSE @],
             Goes(p, "e_export"), UNCHANGED <<dynVars, buf, modVars>>
      PROVE  LifeInv'
  <2> USE <1>ExportGets
  <2>0. LifeType /\ ProcInv(p) /\ p \in Opened(d)
    BY DEF LifeInv, Opened
  <2>1. /\ proc'[p].pc = "e_export" /\ proc'[p].dev = proc[p].dev /\ proc'[p].id = proc[p].id
        /\ proc'[p].file = proc[p].file /\ proc'[p].icdev = proc[p].icdev
        /\ proc'[p].import = proc[p].import /\ proc'[p].held = proc[p].held
        /\ \A q \in Procs \ {p} : proc'[q] = proc[q]
    BY DEF Goes, Now
  <2>2. proc' \in [Procs -> Thread]
    <3>1. /\ {proc[p].dev, proc[p].file, proc[p].icdev} \subseteq Devs \cup {NoDev}
          /\ proc[p].import \in Procs \cup {NoProc} /\ proc[p].held \subseteq Steps
          /\ proc[p].id \in Nat
      BY <2>0, ProcRecord
    <3>2. "e_export" \in ProcPc
      BY DEF ProcPc, ExportPc
    <3> QED BY <3>1, <3>2 DEF Goes, Now
  <2>3. /\ proc[p].file # NoDev /\ proc[p].icdev # NoDev /\ proc[p].import = NoProc
        /\ proc[p].held = {} /\ buf[p] = NoBuf
        /\ proc[p].file \in Static => proc[p].file < kbuf_ndevices
        /\ proc[p].icdev \in Static => proc[p].icdev < kbuf_ndevices
    BY <2>0 DEF ProcInv, ImportPc, ExportPc
  <2>4. ProcInv(p)'
    BY <2>1, <2>3 DEF ProcInv, CtlPc, ImportPc, ExportPc, CreatePc, DestroyPc, modVars
  <2>5. Uses(p, p, d)
    <3>1. "e_get" \in UserPc /\ "e_export" \in UserPc
      BY DEF UserPc, ProcPc, ExportPc, CreatePc, DestroyPc
    <3>2. \A e \in Devs \ {d} : obj'[e] = obj[e]
      BY <2>0 DEF LifeType
    <3> QED BY <2>1, <3>1, <3>2 DEF Uses, Apart, dynVars
  <2>6. Inodes(d)' = Inodes(d)
    BY <2>1 DEF Inodes
  <2>7. kbuf_dyn_ida' = kbuf_dyn_ida /\ buf' = buf
    BY DEF dynVars
  <2>8. \A e \in Devs \ {d} : /\ proc'[p].icdev = e <=> proc[p].icdev = e
                              /\ proc'[p].file = e <=> proc[p].file = e
                              /\ p \in Exporting(e)' <=> p \in Exporting(e)
    BY <2>1 DEF Exporting
  <2>9. /\ d \in Dynamic => DynInv(d)'
        /\ d \in Static => StaticInv(d)'
        /\ \A m \in Ids : MinorInv(m)'
        /\ obj' \in [Devs -> Object] /\ kbuf_dyn_ida' \subseteq Ids
        /\ obj'[d].minor_off = obj[d].minor_off
    <3>1. CASE d \in Dynamic
      <4> DEFINE r == obj[d].ref + 1
      <4>1. obj' = [obj EXCEPT ![d].ref = r]
        BY <3>1
      <4>2. Becomes(d, obj[d].mem, obj[d].cdevRef, obj[d].added, obj[d].device, r,
                    obj[d].minor_off)
        BY <2>0, <4>1, RefEffect
      <4>3. obj[d].ref > 0 /\ obj[d].ref \in Nat /\ DynInv(d) /\ Creating(d) = {}
        BY <2>0, <3>1, HasUser
      <4>4. r \in Nat /\ r > 0 /\ r = obj[d].ref + 1
        BY <4>3, SMT
      <4> HIDE DEF r
      <4>5. Holders(d)' = Holders(d) + 1
        <5>1. p \in Exporting(d)' /\ p \notin Exporting(d)
          BY <2>1 DEF Exporting
        <5>2. /\ p \in Opened(d)' <=> p \in Opened(d)
              /\ p \in Exported(d)' <=> p \in Exported(d)
          BY <2>1, <2>7 DEF Opened, Exported
        <5> QED BY <2>5, <5>1, <5>2, UserCounts, SMT DEF One
      <4>6. Holders(d)' = r
        BY <4>3, <4>4, <4>5 DEF DynInv
      <4>7. d \notin Static
        BY <3>1, LifeAssumption, SMT DEF Static, Dynamic
      <4> QED BY <2>5, <2>6, <2>7, <3>1, <4>2, <4>3, <4>4, <4>6, <4>7, UseRef
    <3>2. CASE d \notin Dynamic
      <4>1. obj' = obj
        BY <2>0, <3>2 DEF LifeType, Object
      <4> QED BY <2>0, <2>5, <2>6, <2>7, <3>2, <4>1, UseSame
    <3> QED BY <3>1, <3>2
  <2> QED BY <2>1, <2>2, <2>3, <2>4, <2>5, <2>7, <2>8, <2>9, FileInv

\* kbuf_dmabuf_export up to the kref_get.
<1>ExportGet.
      ASSUME LifeInv, NEW p \in Procs, kbuf_dmabuf_export_get(p)
      PROVE  LifeInv'
  <2> USE <1>ExportGet
  <2> DEFINE d == proc[p].file
  <2>0. /\ LifeType /\ ProcInv(p) /\ load.pc = "live" /\ proc[p].pc = "e_get"
        /\ UNCHANGED <<dynVars, buf, modVars>>
    BY Live DEF kbuf_dmabuf_export_get, LifeInv
  <2>1. d \in Devs
    BY <2>0, ProcRecord DEF ProcInv, ExportPc
  <2>2. Goes(p, "e_export")
    BY <2>0, GoesEffect DEF kbuf_dmabuf_export_get
  <2>3. /\ obj' = [obj EXCEPT ![d].ref = IF d \in Dynamic THEN @ + 1 ELSE @]
        /\ d = proc[p].file
    BY DEF kbuf_dmabuf_export_get
  <2> HIDE DEF d
  <2> QED BY <2>0, <2>1, <2>2, <2>3, <1>ExportGets

\* The dma-buf takes over the reference of the EXPORT.
<1>ExportWraps.
      ASSUME LifeInv, NEW p \in Procs, load.pc = "live", proc[p].pc = "e_export",
             NEW d \in Devs, d = proc[p].file, Goes(p, "e_fd"),
             buf' = [buf EXCEPT ![p] = [dev |-> d, ref |-> 1, fd |-> FALSE]],
             UNCHANGED <<obj, dynVars, modVars>>
      PROVE  LifeInv'
  <2> USE <1>ExportWraps
  <2>0. LifeType /\ ProcInv(p) /\ BufInv(p) /\ p \in Opened(d)
    BY DEF LifeInv, Opened
  <2>1. /\ proc'[p].pc = "e_fd" /\ proc'[p].dev = proc[p].dev /\ proc'[p].id = proc[p].id
        /\ proc'[p].file = proc[p].file /\ proc'[p].icdev = proc[p].icdev
        /\ proc'[p].import = proc[p].import /\ proc'[p].held = proc[p].held
        /\ \A q \in Procs \ {p} : proc'[q] = proc[q]
    BY DEF Goes, Now
  <2>2. proc' \in [Procs -> Thread]
    <3>1. /\ {proc[p].dev, proc[p].file, proc[p].icdev} \subseteq Devs \cup {NoDev}
          /\ proc[p].import \in Procs \cup {NoProc} /\ proc[p].held \subseteq Steps
          /\ proc[p].id \in Nat
      BY <2>0, ProcRecord
    <3>2. "e_fd" \in ProcPc
      BY DEF ProcPc, ExportPc
    <3> QED BY <3>1, <3>2 DEF Goes, Now
  <2>3. /\ proc[p].file # NoDev /\ proc[p].icdev # NoDev /\ proc[p].import = NoProc
        /\ proc[p].held = {} /\ buf[p] = NoBuf
        /\ proc[p].file \in Static => proc[p].file < kbuf_ndevices
        /\ proc[p].icdev \in Static => proc[p].icdev < kbuf_ndevices
    BY <2>0 DEF ProcInv, ImportPc, ExportPc
  <2>4. ProcInv(p)'
    BY <2>1, <2>3 DEF ProcInv, CtlPc, ImportPc, ExportPc, CreatePc, DestroyPc, modVars
  <2>5. /\ buf'[p].dev = d /\ buf'[p].ref = 1 /\ buf'[p].fd = FALSE
        /\ \A q \in Procs \ {p} : buf'[q] = buf[q]
        /\ buf' \in [Procs -> DmaBuf]
    BY <2>0 DEF LifeType, DmaBuf
  <2>6. buf[p].ref = 0 /\ buf[p].fd = FALSE
    BY <2>3, SMT DEF NoBuf
  <2>7. Uses(p, p, d)
    <3>1. "e_export" \in UserPc /\ "e_fd" \in UserPc
      BY DEF UserPc, ProcPc, ExportPc, CreatePc, DestroyPc
    <3> QED BY <2>1, <2>5, <3>1 DEF Uses, Apart, dynVars
  <2>8. BufInv(p)'
    <3>1. Importing(p)' = Importing(p) /\ Importing(p) \in SUBSET Procs
      BY <2>1 DEF Importing
    <3>2. Cardinality(Importing(p)) = 0
      <4>1. Cardinality(Importing(p)) \in Nat
        BY <3>1, Count
      <4>2. 0 = One(buf[p].fd) + One(proc[p].pc = "e_fd") + Cardinality(Importing(p))
        BY <2>0, <2>6 DEF BufInv
      <4> QED BY <2>6, <4>1, <4>2, SMT DEF One
    <3>3. d \in Dynamic \cup 0..(kbuf_ndevices - 1)
      BY <2>0, <2>3, LifeAssumption, SMT DEF Devs, Static, Dynamic, LifeType
    <3>4. Cardinality(Importing(p)') = 0
      BY <3>1, <3>2
    <3>6. buf'[p].ref = One(buf'[p].fd) + One(proc'[p].pc = "e_fd") + Cardinality(Importing(p)')
      BY <2>1, <2>5, <3>4, SMT DEF One
    <3>7. kbuf_ndevices' = kbuf_ndevices
      BY DEF modVars
    <3>8. buf'[p].ref # 0 /\ ~buf'[p].fd
      BY <2>5, SMT
    <3> QED BY <2>5, <3>3, <3>6, <3>7, <3>8 DEF BufInv
  <2>9. Inodes(d)' = Inodes(d)
    BY <2>1 DEF Inodes
  <2>10. Holders(d)' = Holders(d)
    <3>1. p \notin Exporting(d)' /\ p \in Exporting(d) /\ p \in Exported(d)' /\ p \notin Exported(d)
      BY <2>1, <2>5, <2>6, SMT DEF Exporting, Exported
    <3>2. p \in Opened(d)' <=> p \in Opened(d)
      BY <2>1 DEF Opened
    <3> QED BY <2>7, <3>1, <3>2, UserCounts, SMT DEF One
  <2>11. SameElsewhere(p, p, d)
    <3>1. \A e : e # d => p \notin Exporting(e) /\ p \notin Exporting(e)'
      BY <2>1 DEF Exporting
    <3>2. \A e : e # d => p \notin Exported(e) /\ p \notin Exported(e)'
      BY <2>5, <2>6, SMT DEF Exported
    <3> QED BY <2>1, <3>1, <3>2 DEF SameElsewhere
  <2>12. /\ d \in Dynamic => DynInv(d)'
         /\ d \in Static => StaticInv(d)'
         /\ \A m \in Ids : MinorInv(m)'
         /\ obj' \in [Devs -> Object] /\ kbuf_dyn_ida' \subseteq Ids
         /\ obj'[d].minor_off = obj[d].minor_off
    BY <2>0, <2>7, <2>9, <2>10, UseSame DEF dynVars
  <2>13. \A q \in Procs : proc[q].pc \in {"e_get", "e_export"} => buf'[q] = buf[q] \/ q = p
    BY <2>5
  <2> QED BY <2>1, <2>2, <2>4, <2>5, <2>7, <2>8, <2>11, <2>12, <2>13, UseInv

\* dma_buf_export fails: the reference of the EXPORT goes.
<1>ExportGivesBack.
      ASSUME LifeInv, NEW p \in Procs, load.pc = "live", proc[p].pc = "e_export",
             NEW d \in Devs, d = proc[p].file, Returns(p), PutIfDynamic(d),
             UNCHANGED <<kbuf_dyn_list, created, buf, modVars>>
      PROVE  LifeInv'
  <2> USE <1>ExportGivesBack
  <2>0. LifeType /\ ProcInv(p) /\ p \in Opened(d)
    BY DEF LifeInv, Opened
  <2>1. /\ proc'[p].pc = "idle" /\ proc'[p].dev = NoDev /\ proc'[p].id = 0
        /\ proc'[p].file = proc[p].file /\ proc'[p].icdev = proc[p].icdev
        /\ proc'[p].import = NoProc /\ proc'[p].held = {}
        /\ \A q \in Procs \ {p} : proc'[q] = proc[q]
    BY DEF Returns, Now
  <2>2. proc' \in [Procs -> Thread]
    BY <2>0, ReturnsType
  <2>3. /\ proc[p].file # NoDev /\ proc[p].icdev # NoDev /\ proc[p].import = NoProc
        /\ proc[p].file \in Static => proc[p].file < kbuf_ndevices
        /\ proc[p].icdev \in Static => proc[p].icdev < kbuf_ndevices
    BY <2>0 DEF ProcInv, ImportPc, ExportPc
  <2>4. ProcInv(p)'
    BY <2>1, <2>3 DEF ProcInv, CtlPc, ImportPc, ExportPc, CreatePc, DestroyPc, modVars
  <2>5. Inodes(d)' = Inodes(d)
    BY <2>1 DEF Inodes
  <2>6. \A e \in Devs \ {d} : /\ proc'[p].icdev = e <=> proc[p].icdev = e
                              /\ proc'[p].file = e <=> proc[p].file = e
                              /\ p \in Exporting(e)' <=> p \in Exporting(e)
    BY <2>1 DEF Exporting
  <2>7. "e_export" \in UserPc /\ "idle" \in UserPc
    BY DEF UserPc, ProcPc, ExportPc, CreatePc, DestroyPc
  <2>8. CASE d \in Dynamic
    <3>1. p \in Exporting(d)
      BY DEF Exporting
    <3>2. obj[d].ref > 0 /\ obj[d].ref \in Nat /\ Creating(d) = {}
      BY <2>8, <3>1, HasUser
    <3>3. Drops(d)
      BY <2>0, <2>8, <3>2, KrefPut DEF PutIfDynamic
    <3>4. Uses(p, p, d)
      <4>1. \A e \in Devs \ {d} : obj'[e] = obj[e]
        BY <3>3 DEF Drops, Becomes
      <4> QED BY <2>1, <2>7, <4>1 DEF Uses, Apart
    <3>5. Holders(d)' = Holders(d) - 1
      <4>1. p \notin Exporting(d)'
        BY <2>1 DEF Exporting
      <4>2. /\ p \in Opened(d)' <=> p \in Opened(d)
            /\ p \in Exported(d)' <=> p \in Exported(d)
        BY <2>1 DEF Opened, Exported
      <4> QED BY <3>1, <3>4, <4>1, <4>2, UserCounts, SMT DEF One
    <3>6. /\ DynInv(d)' /\ \A k \in Ids : MinorInv(k)'
          /\ obj' \in [Devs -> Object] /\ kbuf_dyn_ida' \subseteq Ids
          /\ obj'[d].minor_off = obj[d].minor_off
      BY <2>5, <2>8, <3>2, <3>3, <3>4, <3>5, UseDrop
    <3>7. d \notin Static
      BY <2>8, LifeAssumption, SMT DEF Static, Dynamic
    <3> QED BY <2>1, <2>2, <2>3, <2>4, <2>6, <3>4, <3>6, <3>7, FileInv
  <2>9. CASE d \notin Dynamic
    <3>1. obj' = obj /\ kbuf_dyn_ida' = kbuf_dyn_ida
      BY <2>9 DEF PutIfDynamic
    <3>2. Uses(p, p, d)
      BY <2>1, <2>7, <3>1 DEF Uses, Apart
    <3>3. /\ d \in Dynamic => DynInv(d)'
          /\ d \in Static => StaticInv(d)'
          /\ \A m \in Ids : MinorInv(m)'
          /\ obj' \in [Devs -> Object] /\ kbuf_dyn_ida' \subseteq Ids
          /\ obj'[d].minor_off = obj[d].minor_off
      BY <2>0, <2>5, <2>9, <3>1, <3>2, UseSame
    <3> QED BY <2>1, <2>2, <2>3, <2>4, <2>6, <3>2, <3>3, FileInv
  <2> QED BY <2>8, <2>9

\* kbuf_dmabuf_export from dma_buf_export on.
<1>ExportWrap.
      ASSUME LifeInv, NEW p \in Procs, kbuf_dmabuf_export_wrap(p)
      PROVE  LifeInv'
  <2> USE <1>ExportWrap
  <2> DEFINE d == proc[p].file
  <2>0. /\ LifeType /\ ProcInv(p) /\ load.pc = "live" /\ proc[p].pc = "e_export"
        /\ UNCHANGED <<kbuf_dyn_list, created, modVars>>
    BY Live DEF kbuf_dmabuf_export_wrap, LifeInv
  <2>1. d \in Devs /\ d = proc[p].file
    BY <2>0, ProcRecord DEF ProcInv, ExportPc
  <2>2. CASE /\ buf' = [buf EXCEPT ![p] = [dev |-> d, ref |-> 1, fd |-> FALSE]]
             /\ proc' = [proc EXCEPT ![p].pc = "e_fd"]
             /\ UNCHANGED <<obj, kbuf_dyn_ida>>
    <3>1. Goes(p, "e_fd")
      BY <2>0, <2>2, GoesEffect
    <3>2. UNCHANGED <<obj, dynVars, modVars>>
      BY <2>0, <2>2 DEF dynVars
    <3>3. buf' = [buf EXCEPT ![p] = [dev |-> d, ref |-> 1, fd |-> FALSE]]
      BY <2>2
    <3> HIDE DEF d
    <3> QED BY <2>0, <2>1, <3>1, <3>2, <3>3, <1>ExportWraps
  <2>3. CASE PutIfDynamic(d) /\ proc' = Return(p) /\ UNCHANGED buf
    <3>1. Returns(p)
      BY <2>0, <2>3, ReturnEffect
    <3>2. PutIfDynamic(d) /\ UNCHANGED <<kbuf_dyn_list, created, buf, modVars>>
      BY <2>0, <2>3
    <3> HIDE DEF d
    <3> QED BY <2>0, <2>1, <3>1, <3>2, <1>ExportGivesBack
  <2> QED BY <2>2, <2>3 DEF kbuf_dmabuf_export_wrap

<1> QED BY <1>ExportGet, <1>ExportWrap
=============================================================================
