--------------------------- MODULE KbufCtlProofs ---------------------------
(***************************************************************************)
(* CREATE and DESTROY (kbuf_ctl.c) preserve LifeInv, whatever step of      *)
(* CREATE fails.                                                           *)
(***************************************************************************)
EXTENDS KbufLifeSteps

\* The leaves that say nothing else are for Zenon.
USE Zenon

-----------------------------------------------------------------------------
(* What the steps of CREATE and DESTROY have in common.                    *)

\* One that changes pc and dev.
LEMMA DevEffect ==
  ASSUME LifeType, NEW p \in Procs, NEW l, NEW d,
         proc' = [proc EXCEPT ![p].pc = l, ![p].dev = d]
  PROVE  Now(p, l, d, proc[p].id, proc[p].file, proc[p].icdev, proc[p].import,
             proc[p].held)
<1> DEFINE t == [proc[p] EXCEPT !.pc = l, !.dev = d]
<1>1. proc' = [proc EXCEPT ![p] = t]
  BY ProcRecord
<1>2. /\ t.pc = l /\ t.dev = d /\ t.id = proc[p].id
      /\ t.file = proc[p].file /\ t.icdev = proc[p].icdev
      /\ t.import = proc[p].import /\ t.held = proc[p].held
  BY ProcRecord, SMT DEF Thread
<1>3. /\ DOMAIN t = {"pc", "dev", "id", "file", "icdev", "import", "held"}
      /\ t = [f \in DOMAIN t |-> t[f]]
  BY ProcRecord DEF Thread
<1> HIDE DEF t
<1>4. t = [pc |-> l, dev |-> d, id |-> proc[p].id, file |-> proc[p].file,
           icdev |-> proc[p].icdev, import |-> proc[p].import,
           held |-> proc[p].held]
  BY <1>2, <1>3
<1> QED BY <1>1, <1>4, NowRecord

\* pc and id.
LEMMA IdEffect ==
  ASSUME LifeType, NEW p \in Procs, NEW l, NEW m,
         proc' = [proc EXCEPT ![p].pc = l, ![p].id = m]
  PROVE  Now(p, l, proc[p].dev, m, proc[p].file, proc[p].icdev, proc[p].import,
             proc[p].held)
<1> DEFINE t == [proc[p] EXCEPT !.pc = l, !.id = m]
<1>1. proc' = [proc EXCEPT ![p] = t]
  BY ProcRecord
<1>2. /\ t.pc = l /\ t.dev = proc[p].dev /\ t.id = m
      /\ t.file = proc[p].file /\ t.icdev = proc[p].icdev
      /\ t.import = proc[p].import /\ t.held = proc[p].held
  BY ProcRecord, SMT DEF Thread
<1>3. /\ DOMAIN t = {"pc", "dev", "id", "file", "icdev", "import", "held"}
      /\ t = [f \in DOMAIN t |-> t[f]]
  BY ProcRecord DEF Thread
<1> HIDE DEF t
<1>4. t = [pc |-> l, dev |-> proc[p].dev, id |-> m, file |-> proc[p].file,
           icdev |-> proc[p].icdev, import |-> proc[p].import,
           held |-> proc[p].held]
  BY <1>2, <1>3
<1> QED BY <1>1, <1>4, NowRecord

\* One is more than nothing.
LEMMA OneIsSome == 1 # 0 /\ 1 > 0 /\ ~(0 > 0)
BY SMT

\* A step of CREATE or DESTROY changes nothing about who uses a device.
LEMMA UsersKeep ==
  ASSUME NEW p \in Procs, \A q \in Procs \ {p} : proc'[q] = proc[q],
         proc'[p].file = proc[p].file, proc'[p].icdev = proc[p].icdev,
         proc[p].pc # "e_export", proc'[p].pc # "e_export", buf' = buf, NEW e
  PROVE  /\ Opened(e)' = Opened(e) /\ Inodes(e)' = Inodes(e)
         /\ Exported(e)' = Exported(e) /\ Exporting(e)' = Exporting(e)
<1>1. Opened(e)' = Opened(e) /\ Inodes(e)' = Inodes(e)
  BY DEF Opened, Inodes
<1>2. Exported(e)' = Exported(e)
  BY DEF Exported
<1>3. Exporting(e)' = Exporting(e)
  BY DEF Exporting
<1> QED BY <1>1, <1>2, <1>3

\* A step of CREATE or DESTROY for d leaves the other devices, the open files
\* and the buffers alone.
LEMMA CtlLocal ==
  ASSUME LifeType, LifeType', NEW p \in Procs, NEW d,
         \A q \in Procs \ {p} : proc'[q] = proc[q],
         proc'[p].file = proc[p].file, proc'[p].icdev = proc[p].icdev,
         proc[p].pc # "e_export", proc'[p].pc # "e_export",
         proc[p].pc \in CreatePc \cup DestroyPc => proc[p].dev = d,
         proc'[p].pc \in CreatePc \cup DestroyPc => proc'[p].dev = d,
         \A e \in Devs \ {d} : obj'[e] = obj[e],
         \A e \in Dynamic \ {d} : e \in Listed' <=> e \in Listed,
         buf' = buf, created <= created', UNCHANGED modVars
  PROVE  /\ Local(p, p, d)
         /\ \A e : /\ Opened(e)' = Opened(e) /\ Inodes(e)' = Inodes(e)
                   /\ Exported(e)' = Exported(e) /\ Exporting(e)' = Exporting(e)
<1>1. ASSUME NEW e
      PROVE  /\ Opened(e)' = Opened(e) /\ Inodes(e)' = Inodes(e)
             /\ Exported(e)' = Exported(e) /\ Exporting(e)' = Exporting(e)
  BY DEF Opened, Inodes, Exported, Exporting
<1>2. ASSUME NEW e \in Dynamic \ {d}
      PROVE  SamePart(p, e)
  <2>1. p \notin Creating(e) \cup Destroying(e)
    BY <1>2 DEF Creating, Destroying, CreatePc, DestroyPc
  <2>2. p \notin Creating(e)' \cup Destroying(e)'
    BY <1>2 DEF Creating, Destroying, CreatePc, DestroyPc
  <2> QED BY <1>1, <2>1, <2>2 DEF SamePart
<1>3. Local(p, p, d)
  BY <1>1, <1>2 DEF Local, Devs
<1> QED BY <1>1, <1>3

\* What a step of CREATE or DESTROY for d has to show.
LEMMA CtlInv ==
  ASSUME LifeInv, NEW p \in Procs, NEW d, load.pc = "live",
         proc' \in [Procs -> Thread], obj' \in [Devs -> Object],
         kbuf_dyn_list' \in Seq(Dynamic), kbuf_dyn_ida' \subseteq Ids,
         created' \in created..MaxCreates, buf' = buf, UNCHANGED modVars,
         \A q \in Procs \ {p} : proc'[q] = proc[q],
         proc'[p].file = proc[p].file, proc'[p].icdev = proc[p].icdev,
         proc[p].pc \in {"idle"} \cup CtlPc, proc'[p].pc \in {"idle"} \cup CtlPc,
         proc[p].pc \in CreatePc \cup DestroyPc => proc[p].dev = d,
         proc'[p].pc \in CreatePc \cup DestroyPc => proc'[p].dev = d,
         \A e \in Devs \ {d} : obj'[e] = obj[e],
         \A e \in Dynamic \ {d} : e \in Listed' <=> e \in Listed,
         d \notin Static,
         d \in Dynamic /\ Creating(d) \ {p} # {} => obj'[d].minor_off = obj[d].minor_off,
         ProcInv(p)', ListInv', \A m \in Ids : MinorInv(m)',
         Local(p, p, d) => (d \in Dynamic => DynInv(d)')
  PROVE  LifeInv'
<1>0. LifeType /\ ProcInv(p) /\ BufInv(p) /\ \A q \in Procs : ProcInv(q)
  BY DEF LifeInv
<1>1. LifeType'
  <2>1. created' \in 0..MaxCreates /\ created <= created'
    BY <1>0, LifeAssumption, SMT DEF LifeType
  <2> QED BY <1>0, <2>1 DEF LifeType, modVars
<1>2. Local(p, p, d)
  <2>1. proc[p].pc # "e_export" /\ proc'[p].pc # "e_export"
    BY DEF CtlPc
  <2>2. created <= created'
    BY <1>0, LifeAssumption, SMT DEF LifeType
  <2> QED BY <1>0, <1>1, <2>1, <2>2, CtlLocal
<1>3. proc[p].import = NoProc /\ proc'[p].import = NoProc
  BY <1>0 DEF ProcInv, CtlPc, ImportPc
<1>4. proc[p].pc # "e_fd" /\ proc'[p].pc # "e_fd"
  BY DEF CtlPc
<1>5. BufInv(p)'
  <2>1. Importing(p)' = Importing(p)
    BY <1>3 DEF Importing
  <2> QED BY <1>0, <1>4, <2>1 DEF BufInv, modVars, One
<1>6. ASSUME NEW q \in Procs \ {p}, proc[q].pc \in CreatePc
      PROVE  obj'[proc[q].dev].minor_off = obj[proc[q].dev].minor_off
  <2>1. proc[q].dev \in Dynamic
    BY <1>0, <1>6 DEF ProcInv
  <2>2. q \in Creating(proc[q].dev)
    BY <1>6 DEF Creating, CreatePc
  <2> QED BY <2>1, <2>2 DEF Devs
<1> QED BY <1>1, <1>2, <1>3, <1>4, <1>5, <1>6, LocalStep

\* A device with a reference is not an unused one.
LEMMA InUse ==
  ASSUME NEW o, o.ref # 0
  PROVE  o # NoObj
<1>1. NoObj.ref = 0
  BY SMT DEF NoObj
<1> QED BY <1>1

-----------------------------------------------------------------------------
(* CREATE.                                                                 *)

\* The steps of kbuf_dyn_create, with a failure of each.
LEMMA CreateSteps ==
  \A p \in Procs :
    /\ LoadedFirst /\ LifeInv
    /\ \/ kbuf_dyn_create_ida(p) \/ kbuf_dyn_create_struct(p) \/ kbuf_dyn_create_alloc(p)
       \/ kbuf_dyn_create_register(p) \/ kbuf_dyn_create_fail(p)
    => LifeInv'
\* list_add_tail puts a new element on the list.
<1>AppendList.
      ASSUME NEW D, NEW s \in Seq(D), NEW x \in D, x \notin Range(s),
             \A j, k \in DOMAIN s : s[j] = s[k] => j = k
      PROVE  /\ Append(s, x) \in Seq(D)
             /\ Range(Append(s, x)) = Range(s) \cup {x}
             /\ \A j, k \in DOMAIN Append(s, x) : Append(s, x)[j] = Append(s, x)[k] => j = k
  <2> USE <1>AppendList
  <2> DEFINE t == Append(s, x)
  <2>1. /\ t \in Seq(D) /\ Len(t) = Len(s) + 1
        /\ \A j \in 1..Len(s) : t[j] = s[j]
        /\ t[Len(s) + 1] = x
    BY SMT
  <2> HIDE DEF t
  <2>2. Range(t) = Range(s) \cup {x}
    <3>1. ASSUME NEW j \in DOMAIN t PROVE t[j] \in Range(s) \cup {x}
      BY <2>1, <3>1, SMT DEF Range
    <3>2. ASSUME NEW j \in DOMAIN s PROVE s[j] \in Range(t)
      <4>1. j \in DOMAIN t /\ t[j] = s[j]
        BY <2>1, SMT
      <4> QED BY <4>1 DEF Range
    <3>3. x \in Range(t)
      <4>1. Len(s) + 1 \in DOMAIN t
        BY <2>1, SMT
      <4> QED BY <2>1, <4>1 DEF Range
    <3> QED BY <3>1, <3>2, <3>3, SMT DEF Range
  <2>3. ASSUME NEW j \in DOMAIN t, NEW k \in DOMAIN t, t[j] = t[k] PROVE j = k
    <3>1. \A i \in DOMAIN t : (i \in DOMAIN s /\ t[i] = s[i]) \/ (i = Len(s) + 1 /\ t[i] = x)
      BY <2>1, SMT
    <3>2. \A i \in DOMAIN s : s[i] # x
      BY DEF Range
    <3> QED BY <2>3, <3>1, <3>2
  <2> QED BY <2>1, <2>2, <2>3 DEF t

\* cdev_add of a dynamic device.
<1>AddedEffect.
      ASSUME LifeType, NEW d \in Devs, NEW b,
             obj' = [obj EXCEPT ![d].added = b]
      PROVE  Becomes(d, obj[d].mem, obj[d].cdevRef, b, obj[d].device, obj[d].ref,
                     obj[d].minor_off)
  <2> USE <1>AddedEffect
  <2> DEFINE o == [obj[d] EXCEPT !.added = b]
  <2>1. obj' = [obj EXCEPT ![d] = o]
    BY ObjRecord
  <2>2. /\ o.mem = obj[d].mem /\ o.cdevRef = obj[d].cdevRef
        /\ o.added = b /\ o.device = obj[d].device
        /\ o.ref = obj[d].ref /\ o.minor_off = obj[d].minor_off
    BY ObjRecord DEF Object
  <2>3. /\ DOMAIN o = {"mem", "cdevRef", "added", "device", "ref", "minor_off"}
        /\ o = [f \in DOMAIN o |-> o[f]]
    BY ObjRecord DEF Object
  <2> HIDE DEF o
  <2>4. o = [mem |-> obj[d].mem, cdevRef |-> obj[d].cdevRef, added |-> b,
             device |-> obj[d].device, ref |-> obj[d].ref,
             minor_off |-> obj[d].minor_off]
    BY <2>2, <2>3
  <2> QED BY <2>1, <2>4, BecomesRecord

\* An allocation of CREATE.
<1>AllocEffect.
      ASSUME LifeType, NEW d \in Devs, NEW m, NEW r,
             obj' = [obj EXCEPT ![d].mem = m, ![d].cdevRef = r]
      PROVE  Becomes(d, m, r, obj[d].added, obj[d].device, obj[d].ref,
                     obj[d].minor_off)
  <2> USE <1>AllocEffect
  <2> DEFINE o == [obj[d] EXCEPT !.mem = m, !.cdevRef = r]
  <2>1. obj' = [obj EXCEPT ![d] = o]
    BY ObjRecord
  <2>2. /\ o.mem = m /\ o.cdevRef = r
        /\ o.added = obj[d].added /\ o.device = obj[d].device
        /\ o.ref = obj[d].ref /\ o.minor_off = obj[d].minor_off
    BY ObjRecord DEF Object
  <2>3. /\ DOMAIN o = {"mem", "cdevRef", "added", "device", "ref", "minor_off"}
        /\ o = [f \in DOMAIN o |-> o[f]]
    BY ObjRecord DEF Object
  <2> HIDE DEF o
  <2>4. o = [mem |-> m, cdevRef |-> r, added |-> obj[d].added,
             device |-> obj[d].device, ref |-> obj[d].ref,
             minor_off |-> obj[d].minor_off]
    BY <2>2, <2>3
  <2> QED BY <2>1, <2>4, BecomesRecord

\* ida_alloc_max: a free minor becomes this call's.
<1>CreateIda.
      ASSUME LoadedFirst, LifeInv, NEW p \in Procs, kbuf_dyn_create_ida(p)
      PROVE  LifeInv'
  <2> USE <1>CreateIda
  <2> DEFINE off == Min(Ids \ kbuf_dyn_ida)
  <2>0. /\ LifeType /\ ProcInv(p) /\ ListInv /\ load.pc = "live"
        /\ proc[p].pc = "idle" /\ \A m \in Ids : MinorInv(m)
    BY LiveGet DEF LifeInv, kbuf_dyn_create_ida
  <2>1. off \in Ids \ kbuf_dyn_ida
    <3>1. Ids \ kbuf_dyn_ida \in SUBSET Nat /\ Ids \ kbuf_dyn_ida # {}
      BY <2>0, IdsNat DEF kbuf_dyn_create_ida, LifeType
    <3> QED BY <3>1, MinExists
  <2>2. /\ kbuf_dyn_ida' = kbuf_dyn_ida \cup {off}
        /\ proc' = [proc EXCEPT ![p].pc = "struct", ![p].id = off]
        /\ UNCHANGED <<obj, kbuf_dyn_list, created, buf, modVars>>
    BY DEF kbuf_dyn_create_ida
  <2> HIDE DEF off
  <2>3. Now(p, "struct", proc[p].dev, off, proc[p].file, proc[p].icdev,
            proc[p].import, proc[p].held)
    BY <2>0, <2>2, IdEffect
  <2>4. /\ proc'[p].pc = "struct" /\ proc'[p].dev = proc[p].dev /\ proc'[p].id = off
        /\ proc'[p].file = proc[p].file /\ proc'[p].icdev = proc[p].icdev
        /\ proc'[p].import = proc[p].import /\ proc'[p].held = proc[p].held
        /\ \A q \in Procs \ {p} : proc'[q] = proc[q]
    BY <2>3 DEF Now
  <2>5. /\ proc' \in [Procs -> Thread] /\ kbuf_dyn_ida' \subseteq Ids
        /\ created' \in created..MaxCreates
    BY <2>0, <2>1, <2>2, <2>3, ProcRecord, IdsNat, LifeAssumption, SMT
       DEF Now, ProcPc, CtlPc, LifeType
  <2>6. ProcInv(p)'
    BY <2>0, <2>1, <2>2, <2>4
       DEF ProcInv, CtlPc, ImportPc, ExportPc, CreatePc, DestroyPc, modVars
  <2>7. ASSUME NEW m \in Ids
        PROVE  MinorInv(m)'
    <3>1. \A e \in Dynamic : MinorOf(e, m)' <=> MinorOf(e, m)
      BY <2>2 DEF MinorOf
    <3>2. \A q \in Procs : Pending(q, m)' <=> Pending(q, m) \/ (q = p /\ m = off)
      BY <2>0, <2>4 DEF Pending
    <3>3. ~Pending(p, m)
      BY <2>0 DEF Pending
    <3>4. m \in kbuf_dyn_ida' <=> m \in kbuf_dyn_ida \/ m = off
      BY <2>2
    <3>5. MinorInv(m) /\ off \notin kbuf_dyn_ida
      BY <2>0, <2>1
    <3> QED BY <3>1, <3>2, <3>3, <3>4, <3>5 DEF MinorInv
  <2>8. ListInv' /\ Listed' = Listed
    BY <2>0, <2>2 DEF ListInv, Listed
  <2>9. proc[p].pc \notin CreatePc \cup DestroyPc /\ proc'[p].pc \notin CreatePc \cup DestroyPc
    BY <2>0, <2>4 DEF CreatePc, DestroyPc
  <2>10. obj' \in [Devs -> Object] /\ kbuf_dyn_list' \in Seq(Dynamic)
    BY <2>0, <2>2 DEF LifeType
  <2>11. proc[p].pc \in {"idle"} \cup CtlPc /\ proc'[p].pc \in {"idle"} \cup CtlPc
    BY <2>0, <2>4 DEF CtlPc
  <2> QED BY <2>0, <2>2, <2>4, <2>5, <2>6, <2>7, <2>8, <2>9, <2>10, <2>11, NoDevNumber, CtlInv

\* What CREATE has allocated.
<1>CreateMemParts.
      ASSUME NEW l \in CreatePc
      PROVE  /\ CreateMem[l] \subseteq Parts /\ "struct" \in CreateMem[l]
             /\ "cdev" \in CreateMem[l] <=> l \in {"add", "device", "list"}
  BY <1>CreateMemParts, SMT DEF CreateMem, CreatePc, Parts, Ring

\* The minor goes back when kzalloc fails.
<1>CreateStructFails.
      ASSUME LifeInv, NEW p \in Procs, proc[p].pc = "struct", Returns(p),
             kbuf_dyn_ida' = kbuf_dyn_ida \ {proc[p].id},
             UNCHANGED <<obj, created, kbuf_dyn_list, buf, modVars>>
      PROVE  LifeInv'
  <2> USE <1>CreateStructFails
  <2>0. /\ LifeType /\ ProcInv(p) /\ ListInv /\ load.pc = "live"
        /\ \A m \in Ids : MinorInv(m)
    BY Live DEF LifeInv
  <2>1. /\ proc'[p].pc = "idle" /\ proc'[p].dev = NoDev
        /\ proc'[p].file = proc[p].file /\ proc'[p].icdev = proc[p].icdev
        /\ proc'[p].import = NoProc
        /\ \A q \in Procs \ {p} : proc'[q] = proc[q]
        /\ proc' \in [Procs -> Thread]
    BY <2>0, ProcRecord DEF Returns, Now, ProcPc
  <2>2. ProcInv(p)'
    BY <2>0, <2>1 DEF Returns, Now, ProcInv, CtlPc, ImportPc, ExportPc, CreatePc, DestroyPc, modVars
  <2>3. ListInv' /\ Listed' = Listed
    BY <2>0 DEF ListInv, Listed
  <2>4. ASSUME NEW m \in Ids
        PROVE  MinorInv(m)'
    <3>1. \A e \in Dynamic : MinorOf(e, m)' <=> MinorOf(e, m)
      BY DEF MinorOf
    <3>2. \A q \in Procs : Pending(q, m)' <=> Pending(q, m) /\ q # p
      BY <2>0, <2>1 DEF Pending
    <3>3. Pending(p, m) <=> m = proc[p].id
      BY DEF Pending
    <3>4. m \in kbuf_dyn_ida' <=> m \in kbuf_dyn_ida /\ ~Pending(p, m)
      BY <3>3
    <3>5. MinorInv(m)
      BY <2>0
    <3> QED BY <3>1, <3>2, <3>4, <3>5 DEF MinorInv
  <2>5. proc[p].pc \notin CreatePc \cup DestroyPc /\ proc'[p].pc \notin CreatePc \cup DestroyPc
    BY <2>1 DEF CreatePc, DestroyPc
  <2>6. obj' \in [Devs -> Object] /\ kbuf_dyn_list' \in Seq(Dynamic) /\ kbuf_dyn_ida' \subseteq Ids
    BY <2>0 DEF LifeType
  <2>7. proc[p].pc \in {"idle"} \cup CtlPc /\ proc'[p].pc \in {"idle"} \cup CtlPc
    BY <2>1 DEF CtlPc
  <2>8. created' \in created..MaxCreates
    BY <2>0, LifeAssumption, SMT DEF LifeType
  <2> QED BY <2>0, <2>1, <2>2, <2>3, <2>4, <2>5, <2>6, <2>7, <2>8, NoDevNumber, CtlInv

\* kzalloc: a fresh device, whose reference and minor are this call's.
<1>CreateStruct.
      ASSUME LifeInv, NEW p \in Procs, proc[p].pc = "struct", NEW d,
             d = KBUF_MAX_NDEVICES + created, created < MaxCreates, created' = created + 1,
             Becomes(d, {"struct"}, 0, FALSE, FALSE, 1, proc[p].id),
             Now(p, "slots", d, proc[p].id, proc[p].file, proc[p].icdev, proc[p].import, proc[p].held),
             UNCHANGED <<kbuf_dyn_ida, kbuf_dyn_list, buf, modVars>>
      PROVE  LifeInv'
  <2> USE <1>CreateStruct
  <2>0. /\ LifeType /\ ProcInv(p) /\ ListInv /\ load.pc = "live"
        /\ \A m \in Ids : MinorInv(m)
    BY Live DEF LifeInv
  <2>1. d \in Dynamic /\ d \in Devs /\ d \notin Static
    BY <2>0, LifeAssumption, SMT DEF LifeType, Dynamic, Static, Devs
  <2>2. DynInv(d) /\ obj[d] = NoObj
    BY <2>0, <2>1, LifeAssumption, SMT DEF LifeInv, DynInv, LifeType
  <2>3. /\ proc'[p].pc = "slots" /\ proc'[p].dev = d /\ proc'[p].id = proc[p].id
        /\ proc'[p].file = proc[p].file /\ proc'[p].icdev = proc[p].icdev
        /\ proc'[p].import = proc[p].import /\ proc'[p].held = proc[p].held
        /\ \A q \in Procs \ {p} : proc'[q] = proc[q]
    BY DEF Now
  <2>4. /\ obj'[d].mem = {"struct"} /\ obj'[d].cdevRef = 0 /\ obj'[d].ref = 1
        /\ obj'[d].added = FALSE /\ obj'[d].device = FALSE /\ obj'[d].minor_off = proc[p].id
        /\ \A e \in Devs \ {d} : obj'[e] = obj[e]
    BY DEF Becomes
  <2>5. proc[p].id \in Ids /\ proc[p].import = NoProc /\ proc[p].held = {}
    BY <2>0 DEF ProcInv, ImportPc
  <2>6. /\ proc' \in [Procs -> Thread] /\ obj' \in [Devs -> Object]
        /\ created' \in created..MaxCreates
        /\ kbuf_dyn_ida' \subseteq Ids /\ kbuf_dyn_list' \in Seq(Dynamic)
    <3>1. proc' \in [Procs -> Thread]
      BY <2>0, <2>1, ProcRecord DEF Now, ProcPc, CtlPc
    <3>2. obj' \in [Devs -> Object]
      BY <2>5 DEF Becomes, Parts
    <3>3. created' \in created..MaxCreates
      BY <2>0, LifeAssumption, SMT DEF LifeType
    <3> QED BY <2>0, <3>1, <3>2, <3>3 DEF LifeType, modVars
  <2>7. ProcInv(p)'
    BY <2>0, <2>1, <2>3, <2>4, <2>5 DEF ProcInv, CtlPc, ImportPc, ExportPc, CreatePc,
       DestroyPc, modVars
  <2>8. Listed' = Listed /\ ListInv'
    BY <2>0 DEF Listed, ListInv
  <2>9. proc[p].pc \notin CreatePc \cup DestroyPc
        /\ proc[p].pc \in {"idle"} \cup CtlPc /\ proc'[p].pc \in {"idle"} \cup CtlPc
    BY <2>3 DEF CreatePc, DestroyPc, CtlPc
  <2>10. /\ Opened(d)' = Opened(d) /\ Inodes(d)' = Inodes(d)
         /\ Exported(d)' = Exported(d) /\ Exporting(d)' = Exporting(d)
    <3>1. proc[p].pc # "e_export" /\ proc'[p].pc # "e_export"
      BY <2>3
    <3> QED BY <2>3, <3>1, UsersKeep
  <2>11. /\ ~Registered(d) /\ Opened(d) = {} /\ Exported(d) = {} /\ Exporting(d) = {}
         /\ Inodes(d) = {} /\ Creating(d) = {} /\ Destroying(d) = {} /\ d \notin Listed
    <3>1. obj[d].ref = 0 /\ obj[d].cdevRef = 0
      BY <2>2, SMT DEF NoObj
    <3>2. ~Registered(d) /\ Opened(d) = {} /\ Exported(d) = {} /\ Exporting(d) = {}
      BY <2>0, <2>1, <2>2, <3>1, NoUsers DEF DynInv
    <3>3. Inodes(d) \in SUBSET Procs
      BY DEF Inodes
    <3>4. Cardinality(Inodes(d)) = 0
      BY <2>2, <3>1, <3>3, Count, SMT DEF DynInv, CdevInv, One
    <3> QED BY <3>2, <3>3, <3>4, Count DEF Registered
  <2>12. Creating(d)' = {p} /\ Destroying(d)' = {}
    <3>1. p \in Creating(d)' /\ p \notin Destroying(d)'
      BY <2>3 DEF Creating, Destroying
    <3>2. \A q \in Procs \ {p} : q \notin Creating(d)' /\ q \notin Destroying(d)'
      BY <2>3, <2>11 DEF Creating, Destroying
    <3>3. Creating(d)' \subseteq Procs /\ Destroying(d)' \subseteq Procs
      BY DEF Creating, Destroying
    <3> QED BY <3>1, <3>2, <3>3
  <2>13. DynInv(d)'
    <3>1. Registered(d)' /\ d \notin Listed'
      BY <2>8, <2>11, <2>12 DEF Registered
    <3>2. Cardinality({}) = 0
      BY CountNone
    <3>3. (obj[d].ref = Holders(d))'
      <4>1. Holders(d)' = 1 + 0 + 0 + 0
        BY <2>10, <2>11, <3>1, <3>2 DEF Holders, One
      <4> QED BY <2>4, <4>1, Sums
    <3>4. CdevInv(d)'
      <4>1. One(CdevOwned(d))' = 0
        BY <2>3, <2>4, <2>12 DEF CdevOwned, One
      <4>2. Cardinality(Inodes(d))' = 0
        BY <2>10, <2>11, <3>2
      <4> QED BY <2>4, <4>1, <4>2, SMT DEF CdevInv
    <3>5. OneOwner(d)' /\ MemInv(d)'
      BY <2>4, <2>12, <3>1, SMT DEF OneOwner, MemInv
    <3>6. StageInv(d)'
      <4>1. CreateMem["slots"] = {"struct"}
        BY DEF CreateMem
      <4> QED BY <2>3, <2>4, <2>12, <3>1, <4>1 DEF StageInv
    <3>7. ~(d >= KBUF_MAX_NDEVICES + created')
      BY <2>0, LifeAssumption, SMT DEF LifeType
    <3> QED BY <3>3, <3>4, <3>5, <3>6, <3>7 DEF DynInv
  <2>14. ASSUME NEW m \in Ids
         PROVE  MinorInv(m)'
    <3>1. \A e \in Dynamic : MinorOf(e, m)' <=> MinorOf(e, m) \/ (e = d /\ m = proc[p].id)
      BY <2>1, <2>2, <2>4, SMT DEF MinorOf, NoObj, Devs
    <3>2. \A q \in Procs : Pending(q, m)' <=> Pending(q, m) /\ q # p
      BY <2>3 DEF Pending
    <3>3. Pending(p, m) <=> m = proc[p].id
      BY DEF Pending
    <3>4. ~MinorOf(d, m)
      BY <2>2, SMT DEF MinorOf, NoObj
    <3>5. MinorInv(m)
      BY <2>0
    <3> QED BY <2>1, <3>1, <3>2, <3>3, <3>4, <3>5 DEF MinorInv
  <2> QED BY <2>0, <2>1, <2>3, <2>4, <2>6, <2>7, <2>8, <2>9, <2>11, <2>13, <2>14, CtlInv

\* The record of a device just allocated.
<1>FreshRecord.
      ASSUME NEW m
      PROVE  [NoObj EXCEPT !.mem = {"struct"}, !.ref = 1, !.minor_off = m]
               = [mem |-> {"struct"}, cdevRef |-> 0, added |-> FALSE, device |-> FALSE,
                  ref |-> 1, minor_off |-> m]
  <2> USE <1>FreshRecord
  <2> DEFINE u == [NoObj EXCEPT !.mem = {"struct"}, !.ref = 1, !.minor_off = m]
  <2>1. /\ u.mem = {"struct"} /\ u.cdevRef = 0 /\ u.added = FALSE /\ u.device = FALSE
        /\ u.ref = 1 /\ u.minor_off = m
    BY DEF NoObj
  <2>2. /\ DOMAIN u = {"mem", "cdevRef", "added", "device", "ref", "minor_off"}
        /\ u = [f \in DOMAIN u |-> u[f]]
    BY DEF NoObj
  <2> HIDE DEF u
  <2>3. u = [mem |-> u.mem, cdevRef |-> u.cdevRef, added |-> u.added,
             device |-> u.device, ref |-> u.ref, minor_off |-> u.minor_off]
    BY <2>2
  <2> QED BY <2>1, <2>3 DEF u

\* kbuf_dyn_create up to kref_init, or err_ida.
<1>CreateStructStep.
      ASSUME LifeInv, NEW p \in Procs, kbuf_dyn_create_struct(p)
      PROVE  LifeInv'
  <2> USE <1>CreateStructStep
  <2>0. LifeType /\ proc[p].pc = "struct"
    BY DEF LifeInv, kbuf_dyn_create_struct
  <2> DEFINE d == KBUF_MAX_NDEVICES + created
  <2>1. CASE /\ created < MaxCreates /\ created' = created + 1
             /\ obj' = [obj EXCEPT ![d] = [NoObj EXCEPT !.mem = {"struct"}, !.ref = 1,
                                                        !.minor_off = proc[p].id]]
             /\ proc' = [proc EXCEPT ![p].pc = "slots", ![p].dev = d]
             /\ UNCHANGED kbuf_dyn_ida
    <3>1. d \in Devs
      BY <2>0, <2>1, LifeAssumption, SMT DEF LifeType, Dynamic, Devs
    <3>2. [NoObj EXCEPT !.mem = {"struct"}, !.ref = 1, !.minor_off = proc[p].id]
            = [mem |-> {"struct"}, cdevRef |-> 0, added |-> FALSE, device |-> FALSE,
               ref |-> 1, minor_off |-> proc[p].id]
      BY <1>FreshRecord
    <3>3. UNCHANGED <<kbuf_dyn_list, buf, modVars>>
      BY DEF kbuf_dyn_create_struct
    <3> HIDE DEF d
    <3>4. Becomes(d, {"struct"}, 0, FALSE, FALSE, 1, proc[p].id)
      BY <2>0, <2>1, <3>1, <3>2, BecomesRecord
    <3>5. Now(p, "slots", d, proc[p].id, proc[p].file, proc[p].icdev, proc[p].import, proc[p].held)
      BY <2>0, <2>1, DevEffect
    <3>6. d = KBUF_MAX_NDEVICES + created
      BY DEF d
    <3> QED BY <2>0, <2>1, <3>3, <3>4, <3>5, <3>6, <1>CreateStruct
  <2>2. CASE /\ kbuf_dyn_ida' = kbuf_dyn_ida \ {proc[p].id}
             /\ proc' = Return(p) /\ UNCHANGED <<obj, created>>
    <3>1. Returns(p) /\ UNCHANGED <<obj, created, kbuf_dyn_list, buf, modVars>>
      BY <2>0, <2>2, ReturnEffect DEF kbuf_dyn_create_struct
    <3> QED BY <2>0, <2>2, <3>1, <1>CreateStructFails
  <2> QED BY <2>1, <2>2 DEF kbuf_dyn_create_struct

\* CREATE comes from one step to the next: an allocation, cdev_add or
\* device_create.
<1>CreateMoves.
      ASSUME LifeInv, NEW p \in Procs, proc[p].pc \in CreatePc \ {"list"},
             NEW d, d = proc[p].dev, NEW l, l \in CreatePc, Goes(p, l), NEW c, NEW a, NEW v,
             Becomes(d, CreateMem[l], c, a, v, 1, obj[d].minor_off),
             c = obj[d].cdevRef + One(proc[p].pc = "cdev"),
             proc[p].pc \in {"cdev", "add", "device"} <=> l \in {"add", "device", "list"},
             a \in BOOLEAN, v \in BOOLEAN, a <=> l \in {"device", "list"}, v <=> l = "list",
             UNCHANGED <<dynVars, buf, modVars>>
      PROVE  LifeInv'
  <2> USE <1>CreateMoves
  <2>0. /\ LifeType /\ ProcInv(p) /\ ListInv /\ load.pc = "live"
        /\ \A m \in Ids : MinorInv(m)
    BY Live DEF LifeInv, CreatePc
  <2>1. /\ d \in Dynamic /\ d \in Devs /\ DynInv(d)
        /\ Creating(d) = {p} /\ Destroying(d) = {} /\ d \notin Listed
        /\ obj[d].ref = 1 /\ obj[d].mem = CreateMem[proc[p].pc]
        /\ obj[d].minor_off = proc[p].id
        /\ obj[d].added <=> proc[p].pc \in {"device", "list"}
        /\ Opened(d) = {} /\ Exported(d) = {} /\ Exporting(d) = {}
    BY Creator
  <2>2. d \notin Static
    BY <2>1, LifeAssumption, SMT DEF Static, Dynamic
  <2>3. /\ proc'[p].pc = l /\ proc'[p].dev = d /\ proc'[p].id = proc[p].id
        /\ proc'[p].file = proc[p].file /\ proc'[p].icdev = proc[p].icdev
        /\ proc'[p].import = proc[p].import /\ proc'[p].held = proc[p].held
        /\ \A q \in Procs \ {p} : proc'[q] = proc[q]
    BY DEF Goes, Now
  <2>4. /\ obj'[d].mem = CreateMem[l] /\ obj'[d].cdevRef = c /\ obj'[d].ref = 1
        /\ obj'[d].added = a /\ obj'[d].device = v /\ obj'[d].minor_off = obj[d].minor_off
        /\ \A e \in Devs \ {d} : obj'[e] = obj[e]
    BY DEF Becomes
  <2>5. CreateMem[l] \subseteq Parts /\ "struct" \in CreateMem[l] /\ "struct" \in obj[d].mem
        /\ ("cdev" \in CreateMem[l] <=> l \in {"add", "device", "list"})
    BY <2>1, <1>CreateMemParts
  <2>6. proc[p].import = NoProc /\ proc[p].held = {} /\ (proc[p].file = NoDev <=> proc[p].icdev = NoDev)
        /\ l \in CtlPc /\ proc[p].pc \in CtlPc /\ l \in ProcPc
    BY <2>0 DEF ProcInv, ImportPc, CreatePc, CtlPc, ProcPc
  <2>7. obj[d].cdevRef \in Nat /\ c \in Nat /\ obj[d].minor_off \in Ids
    <3>1. obj[d].cdevRef \in Nat /\ obj[d].minor_off \in Ids
      BY <2>0, <2>1, ObjRecord
    <3>2. One(proc[p].pc = "cdev") \in Nat
      BY SMT DEF One
    <3> QED BY <3>1, <3>2, SMT
  <2>8. /\ proc' \in [Procs -> Thread] /\ obj' \in [Devs -> Object]
        /\ kbuf_dyn_ida' \subseteq Ids /\ kbuf_dyn_list' \in Seq(Dynamic)
    <3>1. proc' \in [Procs -> Thread]
      <4>1. /\ proc[p].file \in Devs \cup {NoDev} /\ proc[p].icdev \in Devs \cup {NoDev}
            /\ proc[p].id \in Nat /\ proc[p].dev \in Devs \cup {NoDev}
            /\ proc[p].import \in Procs \cup {NoProc} /\ proc[p].held \subseteq Steps
        BY <2>0, ProcRecord
      <4>2. {proc[p].dev, proc[p].file, proc[p].icdev} \subseteq Devs \cup {NoDev}
        BY <4>1
      <4> QED BY <2>6, <4>1, <4>2 DEF Goes, Now
    <3>2. obj' \in [Devs -> Object]
      BY <2>5, <2>7 DEF Becomes
    <3> QED BY <2>0, <3>1, <3>2 DEF LifeType, dynVars
  <2>9. created' \in created..MaxCreates /\ created' = created
    BY <2>0, LifeAssumption, SMT DEF LifeType, dynVars
  <2>10. ProcInv(p)'
    <3>1. l \notin DestroyPc /\ l \notin ImportPc /\ l \notin ExportPc
          /\ l \notin {"idle", "struct", "open", "opened", "release", "cdev_put", "e_get", "e_export"}
      BY DEF CreatePc, DestroyPc, ImportPc, ExportPc
    <3>2. /\ proc'[p].file \in Static => proc'[p].file < kbuf_ndevices'
          /\ proc'[p].icdev \in Static => proc'[p].icdev < kbuf_ndevices'
      BY <2>0, <2>3 DEF ProcInv, modVars
    <3>3. proc'[p].dev \in Dynamic /\ obj'[proc'[p].dev].minor_off = proc'[p].id
      BY <2>1, <2>3, <2>4
    <3> QED BY <2>3, <2>6, <3>1, <3>2, <3>3 DEF ProcInv
  <2>11. Listed' = Listed /\ ListInv'
    BY <2>0 DEF Listed, ListInv, dynVars
  <2>12. /\ Opened(d)' = {} /\ Inodes(d)' = Inodes(d)
         /\ Exported(d)' = {} /\ Exporting(d)' = {}
    <3>1. proc[p].pc # "e_export" /\ proc'[p].pc # "e_export"
      BY <2>3 DEF CreatePc
    <3> QED BY <2>1, <2>3, <3>1, UsersKeep
  <2>13. Creating(d)' = {p} /\ Destroying(d)' = {}
    <3>1. p \in Creating(d)' /\ p \notin Destroying(d)'
      BY <2>3 DEF Creating, Destroying, CreatePc
    <3>2. \A q \in Procs \ {p} : q \notin Creating(d)' /\ q \notin Destroying(d)'
      BY <2>1, <2>3 DEF Creating, Destroying
    <3>3. Creating(d)' \subseteq Procs /\ Destroying(d)' \subseteq Procs
      BY DEF Creating, Destroying
    <3> QED BY <3>1, <3>2, <3>3
  <2>14. DynInv(d)'
    <3>1. Registered(d)' /\ d \notin Listed'
      BY <2>1, <2>11, <2>13 DEF Registered
    <3>2. Cardinality({}) = 0
      BY CountNone
    <3>3. (obj[d].ref = Holders(d))'
      <4>1. Holders(d)' = 1 + 0 + 0 + 0
        BY <2>12, <3>1, <3>2 DEF Holders, One
      <4> QED BY <2>4, <4>1, Sums
    <3>4. CdevInv(d)' /\ (c > 0 <=> "cdev" \in CreateMem[l])
      <4>1. CdevOwned(d)' <=> l \in {"add", "device", "list"}
        BY <2>3, <2>4, <2>13 DEF CdevOwned
      <4>2. CdevOwned(d) <=> proc[p].pc \in {"add", "device", "list"}
        BY <2>1 DEF CdevOwned
      <4>3. One(CdevOwned(d)') = One(CdevOwned(d)) + One(proc[p].pc = "cdev")
        BY <4>1, <4>2, SMT DEF One
      <4>4. obj[d].cdevRef = One(CdevOwned(d)) + Cardinality(Inodes(d))
        BY <2>1 DEF DynInv, CdevInv
      <4>5. Inodes(d) \in SUBSET Procs /\ Cardinality(Inodes(d)) \in Nat
        BY Count DEF Inodes
      <4>6. c = One(CdevOwned(d)') + Cardinality(Inodes(d))
        BY <4>3, <4>4, <4>5, SMT DEF One
      <4>7. CdevInv(d)'
        BY <2>4, <2>12, <4>6 DEF CdevInv, One
      <4>8. obj[d].cdevRef > 0 <=> "cdev" \in obj[d].mem
        BY <2>1 DEF DynInv, MemInv
      <4>9. "cdev" \in obj[d].mem <=> proc[p].pc \in {"add", "device", "list"}
        BY <2>1, <1>CreateMemParts
      <4>10. c > 0 <=> "cdev" \in CreateMem[l]
        <5>1. CASE proc[p].pc = "cdev"
          <6>1. c = obj[d].cdevRef + 1
            BY <5>1 DEF One
          <6>2. c > 0
            BY <2>7, <6>1, Sums
          <6> QED BY <2>5, <5>1, <6>2
        <5>2. CASE proc[p].pc # "cdev"
          <6>1. c = obj[d].cdevRef + 0
            BY <5>2 DEF One
          <6>2. c = obj[d].cdevRef
            BY <2>7, <6>1, Sums
          <6> QED BY <2>5, <4>8, <4>9, <5>2, <6>2
        <5> QED BY <5>1, <5>2
      <4> QED BY <4>7, <4>10
    <3>5. OneOwner(d)'
      BY <2>13, <3>1 DEF OneOwner
    <3>6. MemInv(d)'
      <4>1. obj'[d].ref # 0 /\ Creating(d)' # {}
        <5>1. obj'[d].ref # 0
          BY <2>4, OneIsSome
        <5> QED BY <2>13, <5>1
      <4> QED BY <2>4, <2>5, <3>4, <4>1 DEF MemInv
    <3>7. StageInv(d)'
      BY <2>3, <2>4, <2>13, <3>1 DEF StageInv
    <3>8. ~(d >= KBUF_MAX_NDEVICES + created')
      <4>1. obj[d] # NoObj
        <5>1. obj[d].ref # 0
          BY <2>1, OneIsSome
        <5> QED BY <5>1, InUse
      <4> QED BY <2>1, <2>9, <4>1 DEF DynInv
    <3> QED BY <3>3, <3>4, <3>5, <3>6, <3>7, <3>8 DEF DynInv
  <2>15. ASSUME NEW m \in Ids
         PROVE  MinorInv(m)'
    <3>1. \A e \in Dynamic : MinorOf(e, m)' <=> MinorOf(e, m)
      BY <2>4, <2>5 DEF MinorOf, Devs
    <3>2. \A q \in Procs : Pending(q, m)' <=> Pending(q, m)
      <4>1. l # "struct" /\ proc[p].pc # "struct"
        BY DEF CreatePc
      <4> QED BY <2>3, <4>1 DEF Pending
    <3>3. MinorInv(m) /\ kbuf_dyn_ida' = kbuf_dyn_ida
      BY <2>0 DEF dynVars
    <3> QED BY <3>1, <3>2, <3>3 DEF MinorInv
  <2> QED BY <2>0, <2>1, <2>2, <2>3, <2>4, <2>6, <2>8, <2>9, <2>10, <2>11, <2>13, <2>14, <2>15,
             CtlInv

\* kbuf_alloc_slots, kbuf_mmap_dev_alloc, cdev_alloc.
<1>CreateAlloc.
      ASSUME LifeInv, NEW p \in Procs, kbuf_dyn_create_alloc(p)
      PROVE  LifeInv'
  <2> USE <1>CreateAlloc
  <2> DEFINE d == proc[p].dev
             c == IF proc[p].pc = "cdev" THEN 1 ELSE 0
             l == CASE proc[p].pc = "slots" -> "ctrl" [] proc[p].pc = "ctrl" -> "data"
                    [] proc[p].pc = "data" -> "cdev" [] OTHER -> "add"
             m == obj[d].mem \cup {proc[p].pc}
  <2>0. LifeType /\ proc[p].pc \in {"slots", "ctrl", "data", "cdev"}
    BY DEF LifeInv, kbuf_dyn_create_alloc, Ring
  <2>1. /\ obj' = [obj EXCEPT ![d].mem = m, ![d].cdevRef = c]
        /\ proc' = [proc EXCEPT ![p].pc = l]
        /\ UNCHANGED <<dynVars, buf, modVars>>
    <3>1. d \in Devs
      BY <2>0, Creator DEF CreatePc
    <3>2. proc \in [Procs -> Thread] /\ obj \in [Devs -> Object]
      BY <2>0 DEF LifeType
    <3> QED BY <3>1, <3>2 DEF kbuf_dyn_create_alloc
  <2>2. proc[p].pc \in CreatePc \ {"list"} /\ l \in CreatePc /\ l \notin {"device", "list"}
        /\ (proc[p].pc \in {"cdev", "add", "device"} <=> l \in {"add", "device", "list"})
    BY <2>0 DEF CreatePc
  <2>3. /\ d \in Devs /\ DynInv(d) /\ obj[d].ref = 1 /\ obj[d].mem = CreateMem[proc[p].pc]
        /\ (obj[d].added <=> proc[p].pc \in {"device", "list"})
        /\ (obj[d].device <=> proc[p].pc = "list")
    BY <2>2, Creator
  <2>4. m = CreateMem[l]
    BY <2>0, <2>3, SMT DEF CreateMem, Parts, Ring
  <2>5. obj[d].cdevRef = 0 /\ c = obj[d].cdevRef + One(proc[p].pc = "cdev")
    <3>1. "cdev" \notin obj[d].mem
      BY <2>0, <2>3, SMT DEF CreateMem
    <3>2. obj[d].cdevRef \in Nat /\ ~(obj[d].cdevRef > 0)
      BY <2>0, <2>3, <3>1, ObjRecord DEF DynInv, MemInv
    <3> QED BY <3>2, SMT DEF One
  <2>6. obj[d].added = FALSE /\ obj[d].device = FALSE
    BY <2>0, <2>3, ObjRecord
  <2> HIDE DEF c, l, m
  <2>7. Becomes(d, m, c, obj[d].added, obj[d].device, obj[d].ref, obj[d].minor_off)
    BY <2>0, <2>1, <2>3, <1>AllocEffect
  <2>8. Goes(p, l)
    BY <2>0, <2>1, GoesEffect
  <2> HIDE DEF d
  <2>9. Becomes(d, CreateMem[l], c, FALSE, FALSE, 1, obj[d].minor_off)
    BY <2>3, <2>4, <2>6, <2>7
  <2>10. FALSE <=> l \in {"device", "list"}
    BY <2>2
  <2>11. FALSE <=> l = "list"
    BY <2>2
  <2>12. d = proc[p].dev
    BY DEF d
  <2> QED BY <2>1, <2>2, <2>5, <2>8, <2>9, <2>10, <2>11, <2>12, <1>CreateMoves

\* cdev_add.
<1>CreateAdd.
      ASSUME LifeInv, NEW p \in Procs, proc[p].pc = "add", NEW d, d = proc[p].dev, NEW l, l = "device",
             obj' = [obj EXCEPT ![d].added = TRUE], proc' = [proc EXCEPT ![p].pc = l],
             UNCHANGED <<dynVars, buf, modVars>>
      PROVE  LifeInv'
  <2> USE <1>CreateAdd
  <2>0. LifeType /\ proc[p].pc \in CreatePc \ {"list"}
    BY DEF LifeInv, CreatePc
  <2>1. /\ d \in Devs /\ obj[d].ref = 1 /\ obj[d].mem = CreateMem[proc[p].pc]
        /\ obj[d].added <=> proc[p].pc \in {"device", "list"}
        /\ obj[d].device <=> proc[p].pc = "list"
        /\ obj[d].cdevRef \in Nat /\ obj[d].added \in BOOLEAN /\ obj[d].device \in BOOLEAN
    BY <2>0, Creator, ObjRecord
  <2>2. CreateMem[l] = obj[d].mem /\ l \in CreatePc
    BY <2>1, SMT DEF CreateMem, CreatePc
  <2>3. obj[d].cdevRef = obj[d].cdevRef + One(proc[p].pc = "cdev")
    BY <2>1, SMT DEF One
  <2>4. Goes(p, l)
    BY <2>0, GoesEffect
  <2>5. Becomes(d, obj[d].mem, obj[d].cdevRef, TRUE, obj[d].device, obj[d].ref, obj[d].minor_off)
    BY <2>0, <2>1, <1>AddedEffect
  <2>6. Becomes(d, CreateMem[l], obj[d].cdevRef, TRUE, FALSE, 1, obj[d].minor_off)
    BY <2>1, <2>2, <2>5
  <2>7. proc[p].pc \in {"cdev", "add", "device"} <=> l \in {"add", "device", "list"}
    BY SMT
  <2>8. (TRUE <=> l \in {"device", "list"}) /\ (FALSE <=> l = "list")
    BY SMT
  <2> QED BY <2>0, <2>2, <2>3, <2>4, <2>6, <2>7, <2>8, <1>CreateMoves

\* device_create.
<1>CreateDevice.
      ASSUME LifeInv, NEW p \in Procs, proc[p].pc = "device", NEW d, d = proc[p].dev, NEW l, l = "list",
             obj' = [obj EXCEPT ![d].device = TRUE], proc' = [proc EXCEPT ![p].pc = l],
             UNCHANGED <<dynVars, buf, modVars>>
      PROVE  LifeInv'
  <2> USE <1>CreateDevice
  <2>0. LifeType /\ proc[p].pc \in CreatePc \ {"list"}
    BY DEF LifeInv, CreatePc
  <2>1. /\ d \in Devs /\ obj[d].ref = 1 /\ obj[d].mem = CreateMem[proc[p].pc]
        /\ obj[d].added <=> proc[p].pc \in {"device", "list"}
        /\ obj[d].device <=> proc[p].pc = "list"
        /\ obj[d].cdevRef \in Nat /\ obj[d].added \in BOOLEAN /\ obj[d].device \in BOOLEAN
    BY <2>0, Creator, ObjRecord
  <2>2. CreateMem[l] = obj[d].mem /\ l \in CreatePc
    BY <2>1, SMT DEF CreateMem, CreatePc
  <2>3. obj[d].cdevRef = obj[d].cdevRef + One(proc[p].pc = "cdev")
    BY <2>1, SMT DEF One
  <2>4. Goes(p, l)
    BY <2>0, GoesEffect
  <2>5. Becomes(d, obj[d].mem, obj[d].cdevRef, obj[d].added, TRUE, obj[d].ref, obj[d].minor_off)
    BY <2>0, <2>1, DeviceEffect
  <2>6. Becomes(d, CreateMem[l], obj[d].cdevRef, TRUE, TRUE, 1, obj[d].minor_off)
    BY <2>1, <2>2, <2>5
  <2>7. proc[p].pc \in {"cdev", "add", "device"} <=> l \in {"add", "device", "list"}
    BY SMT
  <2>8. (TRUE <=> l \in {"device", "list"}) /\ (TRUE <=> l = "list")
    BY SMT
  <2> QED BY <2>0, <2>2, <2>3, <2>4, <2>6, <2>7, <2>8, <1>CreateMoves

\* list_add_tail: the list takes the registered reference over.
<1>CreateList.
      ASSUME LifeInv, NEW p \in Procs, proc[p].pc = "list", NEW d, d = proc[p].dev,
             kbuf_dyn_list' = Append(kbuf_dyn_list, d), Goes(p, "user"),
             UNCHANGED <<obj, kbuf_dyn_ida, created, buf, modVars>>
      PROVE  LifeInv'
  <2> USE <1>CreateList
  <2>0. /\ LifeType /\ ProcInv(p) /\ ListInv /\ load.pc = "live"
        /\ \A m \in Ids : MinorInv(m)
    BY Live DEF LifeInv
  <2>a. proc[p].pc \in CreatePc
    BY DEF CreatePc
  <2>1. /\ d \in Dynamic /\ d \in Devs /\ DynInv(d)
        /\ Creating(d) = {p} /\ Destroying(d) = {} /\ d \notin Listed
        /\ obj[d].ref = 1 /\ obj[d].mem = CreateMem[proc[p].pc]
        /\ obj[d].added /\ obj[d].device
        /\ Opened(d) = {} /\ Exported(d) = {} /\ Exporting(d) = {}
    BY <2>a, Creator
  <2>2. d \notin Static
    BY <2>1, LifeAssumption, SMT DEF Static, Dynamic
  <2>3. /\ proc'[p].pc = "user" /\ proc'[p].dev = d
        /\ proc'[p].file = proc[p].file /\ proc'[p].icdev = proc[p].icdev
        /\ proc'[p].import = proc[p].import /\ proc'[p].held = proc[p].held
        /\ \A q \in Procs \ {p} : proc'[q] = proc[q]
    BY DEF Goes, Now
  <2>4. proc[p].import = NoProc /\ proc[p].held = {} /\ (proc[p].file = NoDev <=> proc[p].icdev = NoDev)
    BY <2>0 DEF ProcInv, ImportPc, CtlPc
  <2>5. /\ kbuf_dyn_list' \in Seq(Dynamic) /\ Listed' = Listed \cup {d} /\ ListInv'
    <3>1. kbuf_dyn_list \in Seq(Dynamic) /\ d \notin Range(kbuf_dyn_list)
      BY <2>0, <2>1 DEF LifeType, Listed
    <3>2. \A i, j \in DOMAIN kbuf_dyn_list : kbuf_dyn_list[i] = kbuf_dyn_list[j] => i = j
      BY <2>0 DEF ListInv
    <3> DEFINE s == Append(kbuf_dyn_list, d)
    <3>3. /\ s \in Seq(Dynamic) /\ Range(s) = Range(kbuf_dyn_list) \cup {d}
          /\ \A i, j \in DOMAIN s : s[i] = s[j] => i = j
      BY <2>1, <3>1, <3>2, <1>AppendList, SMT
    <3>4. kbuf_dyn_list' = s
      BY SMT
    <3> HIDE DEF s
    <3>5. Listed' = Range(s)
      BY <3>4 DEF Listed
    <3>6. ListInv'
      BY <3>3, <3>4 DEF ListInv
    <3> QED BY <3>3, <3>4, <3>5, <3>6 DEF Listed
  <2>6. proc' \in [Procs -> Thread] /\ obj' \in [Devs -> Object] /\ kbuf_dyn_ida' \subseteq Ids
    <3>1. "user" \in ProcPc
      BY DEF ProcPc, CtlPc
    <3> QED BY <2>0, <3>1, ProcRecord DEF LifeType, Goes, Now
  <2>7. created' \in created..MaxCreates
    BY <2>0, LifeAssumption, SMT DEF LifeType
  <2>8. proc[p].pc \in {"idle"} \cup CtlPc /\ proc'[p].pc \in {"idle"} \cup CtlPc
        /\ proc'[p].pc \notin CreatePc \cup DestroyPc
    BY <2>3 DEF CreatePc, DestroyPc, CtlPc
  <2>9. ProcInv(p)'
    <3>1. /\ proc'[p].file \in Static => proc'[p].file < kbuf_ndevices'
          /\ proc'[p].icdev \in Static => proc'[p].icdev < kbuf_ndevices'
      BY <2>0, <2>3 DEF ProcInv, modVars
    <3>2. proc'[p].pc \notin {"opened", "release", "open", "cdev_put", "idle", "struct"}
                           \cup ImportPc \cup ExportPc
      BY <2>3 DEF ImportPc, ExportPc
    <3> QED BY <2>3, <2>4, <2>8, <3>1, <3>2 DEF ProcInv, ExportPc
  <2>10. /\ Opened(d)' = {} /\ Inodes(d)' = Inodes(d)
         /\ Exported(d)' = {} /\ Exporting(d)' = {}
    <3>1. proc[p].pc # "e_export" /\ proc'[p].pc # "e_export"
      BY <2>3
    <3> QED BY <2>1, <2>3, <3>1, UsersKeep
  <2>11. Creating(d)' = {} /\ Destroying(d)' = {}
    <3>1. p \notin Creating(d)' /\ p \notin Destroying(d)'
      BY <2>3 DEF Creating, Destroying
    <3>2. \A q \in Procs \ {p} : q \notin Creating(d)' /\ q \notin Destroying(d)'
      BY <2>1, <2>3 DEF Creating, Destroying
    <3>3. Creating(d)' \subseteq Procs /\ Destroying(d)' \subseteq Procs
      BY DEF Creating, Destroying
    <3> QED BY <3>1, <3>2, <3>3
  <2>12. DynInv(d)'
    <3>1. Registered(d)' /\ d \in Listed'
      BY <2>5 DEF Registered
    <3>2. (obj[d].ref = Holders(d))'
      <4>1. Holders(d)' = 1 + 0 + 0 + 0
        BY <2>10, <3>1, CountNone DEF Holders, One
      <4> QED BY <2>1, <4>1, Sums
    <3>3. CdevInv(d)'
      <4>1. CdevOwned(d)' /\ CdevOwned(d)
        BY <2>1 DEF CdevOwned
      <4>2. CdevInv(d)
        BY <2>1 DEF DynInv
      <4> QED BY <2>10, <4>1, <4>2 DEF CdevInv, One
    <3>4. OneOwner(d)'
      BY <2>11 DEF OneOwner
    <3>5. MemInv(d)'
      <4>1. Ring \subseteq obj[d].mem /\ MemInv(d)
        <5>1. CreateMem["list"] = Parts
          BY DEF CreateMem
        <5> QED BY <2>1, <5>1 DEF Parts, DynInv
      <4> QED BY <4>1 DEF MemInv
    <3>6. StageInv(d)'
      BY <2>1, <2>11, <3>1 DEF StageInv
    <3>7. d >= KBUF_MAX_NDEVICES + created' => obj'[d] = NoObj
      BY <2>1 DEF DynInv
    <3> QED BY <3>2, <3>3, <3>4, <3>5, <3>6, <3>7 DEF DynInv
  <2>13. ASSUME NEW m \in Ids
         PROVE  MinorInv(m)'
    <3>1. \A e \in Dynamic : MinorOf(e, m)' <=> MinorOf(e, m)
      BY DEF MinorOf
    <3>2. \A q \in Procs : Pending(q, m)' <=> Pending(q, m)
      BY <2>3 DEF Pending
    <3>3. MinorInv(m)
      BY <2>0
    <3> QED BY <3>1, <3>2, <3>3 DEF MinorInv
  <2> QED BY <2>0, <2>1, <2>2, <2>3, <2>5, <2>6, <2>7, <2>8, <2>9, <2>12, <2>13, CtlInv

\* cdev_add, device_create, list_add_tail.
<1>CreateRegister.
      ASSUME LifeInv, NEW p \in Procs, kbuf_dyn_create_register(p)
      PROVE  LifeInv'
  <2> USE <1>CreateRegister
  <2>0. LifeType /\ UNCHANGED <<kbuf_dyn_ida, created, buf, modVars>>
    BY DEF LifeInv, kbuf_dyn_create_register
  <2>1. CASE /\ proc[p].pc = "add"
             /\ obj' = [obj EXCEPT ![proc[p].dev].added = TRUE]
             /\ proc' = [proc EXCEPT ![p].pc = "device"]
             /\ UNCHANGED kbuf_dyn_list
    BY <2>0, <2>1, <1>CreateAdd DEF dynVars
  <2>2. CASE /\ proc[p].pc = "device"
             /\ obj' = [obj EXCEPT ![proc[p].dev].device = TRUE]
             /\ proc' = [proc EXCEPT ![p].pc = "list"]
             /\ UNCHANGED kbuf_dyn_list
    BY <2>0, <2>2, <1>CreateDevice DEF dynVars
  <2>3. CASE /\ proc[p].pc = "list"
             /\ kbuf_dyn_list' = Append(kbuf_dyn_list, proc[p].dev)
             /\ proc' = [proc EXCEPT ![p].pc = "user"]
             /\ UNCHANGED obj
    <3>1. Goes(p, "user")
      BY <2>0, <2>3, GoesEffect
    <3> QED BY <2>0, <2>3, <3>1, <1>CreateList
  <2> QED BY <2>1, <2>2, <2>3 DEF kbuf_dyn_create_register

\* A device that a failing CREATE leaves: nothing but, at most, the cdev of
\* opens that are about to fail.
<1>CreateEnds.
      ASSUME LifeInv, NEW p \in Procs, proc[p].pc \in CreatePc, NEW d, d = proc[p].dev,
             NEW m, NEW c, Becomes(d, m, c, FALSE, FALSE, 0, obj[d].minor_off), Returns(p),
             c = Cardinality(Inodes(d)), m = IF c > 0 THEN {"cdev"} ELSE {},
             kbuf_dyn_ida' = kbuf_dyn_ida \ {proc[p].id},
             UNCHANGED <<kbuf_dyn_list, created, buf, modVars>>
      PROVE  LifeInv'
  <2> USE <1>CreateEnds
  <2>0. /\ LifeType /\ ProcInv(p) /\ ListInv /\ load.pc = "live"
        /\ \A i \in Ids : MinorInv(i)
    BY Live DEF LifeInv, CreatePc
  <2>1. /\ d \in Dynamic /\ d \in Devs /\ DynInv(d)
        /\ Creating(d) = {p} /\ Destroying(d) = {} /\ d \notin Listed
        /\ obj[d].ref = 1 /\ obj[d].mem = CreateMem[proc[p].pc]
        /\ obj[d].minor_off = proc[p].id
        /\ Opened(d) = {} /\ Exported(d) = {} /\ Exporting(d) = {}
    BY Creator
  <2>2. d \notin Static
    BY <2>1, LifeAssumption, SMT DEF Static, Dynamic
  <2>3. /\ proc'[p].pc = "idle" /\ proc'[p].dev = NoDev /\ proc'[p].id = 0
        /\ proc'[p].file = proc[p].file /\ proc'[p].icdev = proc[p].icdev
        /\ proc'[p].import = NoProc /\ proc'[p].held = {}
        /\ \A q \in Procs \ {p} : proc'[q] = proc[q]
    BY DEF Returns, Now
  <2>4. /\ obj'[d].mem = m /\ obj'[d].cdevRef = c /\ obj'[d].ref = 0
        /\ obj'[d].added = FALSE /\ obj'[d].device = FALSE
        /\ obj'[d].minor_off = obj[d].minor_off
        /\ \A e \in Devs \ {d} : obj'[e] = obj[e]
    BY DEF Becomes
  <2>5. Inodes(d) \in SUBSET Procs /\ c \in Nat /\ m \subseteq {"cdev"} /\ ("cdev" \in m <=> c > 0)
    BY Count DEF Inodes
  <2>6. /\ proc' \in [Procs -> Thread] /\ obj' \in [Devs -> Object]
        /\ kbuf_dyn_ida' \subseteq Ids /\ kbuf_dyn_list' \in Seq(Dynamic)
    <3>1. proc' \in [Procs -> Thread]
      BY <2>0, ReturnsType
    <3>2. m \subseteq Parts /\ obj[d].minor_off \in Ids
      BY <2>0, <2>1, <2>5, ObjRecord DEF Parts
    <3>3. obj' \in [Devs -> Object]
      BY <2>5, <3>2 DEF Becomes
    <3> QED BY <2>0, <3>1, <3>3 DEF LifeType
  <2>7. created' \in created..MaxCreates
    BY <2>0, LifeAssumption, SMT DEF LifeType
  <2>8. proc[p].pc \in CtlPc /\ proc'[p].pc \in {"idle"} \cup CtlPc
        /\ proc'[p].pc \notin CreatePc \cup DestroyPc
    BY <2>3 DEF CreatePc, DestroyPc, CtlPc
  <2>9. ProcInv(p)'
    <3>1. /\ proc'[p].file \in Static => proc'[p].file < kbuf_ndevices'
          /\ proc'[p].icdev \in Static => proc'[p].icdev < kbuf_ndevices'
      BY <2>0, <2>3 DEF ProcInv, modVars
    <3>2. proc[p].file = NoDev <=> proc[p].icdev = NoDev
      BY <2>0, <2>8 DEF ProcInv
    <3>3. proc'[p].pc \notin {"opened", "release", "open", "cdev_put", "struct"}
                           \cup ImportPc \cup ExportPc
      BY <2>3 DEF ImportPc, ExportPc
    <3> QED BY <2>3, <2>8, <3>1, <3>2, <3>3 DEF ProcInv, ExportPc
  <2>10. Listed' = Listed /\ ListInv'
    BY <2>0 DEF Listed, ListInv
  <2>11. /\ Opened(d)' = {} /\ Inodes(d)' = Inodes(d)
         /\ Exported(d)' = {} /\ Exporting(d)' = {}
    <3>1. proc[p].pc # "e_export" /\ proc'[p].pc # "e_export"
      BY <2>3 DEF CreatePc
    <3> QED BY <2>1, <2>3, <3>1, UsersKeep
  <2>12. Creating(d)' = {} /\ Destroying(d)' = {}
    <3>1. p \notin Creating(d)' /\ p \notin Destroying(d)'
      BY <2>3 DEF Creating, Destroying
    <3>2. \A q \in Procs \ {p} : q \notin Creating(d)' /\ q \notin Destroying(d)'
      BY <2>1, <2>3 DEF Creating, Destroying
    <3>3. Creating(d)' \subseteq Procs /\ Destroying(d)' \subseteq Procs
      BY DEF Creating, Destroying
    <3> QED BY <3>1, <3>2, <3>3
  <2>13. DynInv(d)'
    <3>1. ~Registered(d)' /\ d \notin Listed'
      BY <2>1, <2>10, <2>12 DEF Registered
    <3>2. (obj[d].ref = Holders(d))'
      <4>1. Holders(d)' = 0 + 0 + 0 + 0
        BY <2>11, <3>1, CountNone DEF Holders, One
      <4> QED BY <2>4, <4>1, Sums
    <3>3. CdevInv(d)'
      <4>1. ~CdevOwned(d)'
        BY <2>4, <2>12 DEF CdevOwned
      <4>2. One(CdevOwned(d)') = 0
        BY <4>1 DEF One
      <4>3. c = 0 + c
        BY <2>5, Sums
      <4> QED BY <2>4, <2>11, <4>2, <4>3 DEF CdevInv, One
    <3>4. OneOwner(d)'
      BY <2>12 DEF OneOwner
    <3>5. MemInv(d)'
      BY <2>4, <2>5, OneIsSome DEF MemInv
    <3>6. StageInv(d)'
      BY <2>4, <2>12, <3>1 DEF StageInv
    <3>7. ~(d >= KBUF_MAX_NDEVICES + created')
      <4>1. obj[d] # NoObj
        <5>1. obj[d].ref # 0
          BY <2>1, OneIsSome
        <5> QED BY <5>1, InUse
      <4> QED BY <2>1, <4>1 DEF DynInv
    <3> QED BY <3>2, <3>3, <3>4, <3>5, <3>6, <3>7 DEF DynInv
  <2>14. ASSUME NEW i \in Ids
         PROVE  MinorInv(i)'
    <3>0. "struct" \in obj[d].mem /\ "struct" \notin obj'[d].mem
      <4>1. "struct" \in CreateMem[proc[p].pc]
        BY <1>CreateMemParts
      <4>2. "struct" \notin m
        BY <2>5
      <4> QED BY <2>1, <2>4, <4>1, <4>2
    <3>1. \A e \in Dynamic : MinorOf(e, i)' <=> MinorOf(e, i) /\ e # d
      BY <2>4, <3>0 DEF MinorOf, Devs
    <3>2. \A q \in Procs : Pending(q, i)' <=> Pending(q, i)
      BY <2>3 DEF Pending, CreatePc
    <3>3. MinorInv(i)
      BY <2>0
    <3>4. MinorOf(d, i) <=> i = proc[p].id
      BY <2>1, <3>0 DEF MinorOf
    <3>5. i \in kbuf_dyn_ida' <=> i \in kbuf_dyn_ida /\ ~MinorOf(d, i)
      BY <3>4
    <3> QED BY <2>1, <3>1, <3>2, <3>3, <3>5 DEF MinorInv
  <2> QED BY <2>0, <2>1, <2>2, <2>3, <2>4, <2>6, <2>7, <2>8, <2>9, <2>10, <2>13, <2>14, CtlInv

\* err_cdev, err_mmap, err_slots, err_free and err_ida.
<1>CreateFail.
      ASSUME LifeInv, NEW p \in Procs, kbuf_dyn_create_fail(p)
      PROVE  LifeInv'
  <2> USE <1>CreateFail
  <2> DEFINE d == proc[p].dev
             o == obj[d]
             c == IF "cdev" \in o.mem THEN CdevDel(o) ELSE o
             u == [c EXCEPT !.ref = 0, !.mem = @ \ CreateUndo[proc[p].pc]]
             n == Cardinality(Inodes(d))
             m == IF n > 0 THEN {"cdev"} ELSE {}
  <2>0. /\ LifeType /\ proc[p].pc \in CreatePc \ {"list"} /\ proc' = Return(p)
        /\ obj' = [obj EXCEPT ![d] = u]
        /\ kbuf_dyn_ida' = kbuf_dyn_ida \ {proc[p].id}
        /\ UNCHANGED <<kbuf_dyn_list, created, buf, modVars>>
    BY DEF LifeInv, kbuf_dyn_create_fail, CreateUndo, CreatePc
  <2>1. /\ d \in Devs /\ DynInv(d) /\ Creating(d) = {p}
        /\ o.mem = CreateMem[proc[p].pc]
        /\ o.added <=> proc[p].pc \in {"device", "list"}
        /\ o.device <=> proc[p].pc = "list"
        /\ o \in Object
    BY <2>0, Creator, ObjRecord
  <2>2. n \in Nat
    BY Count DEF Inodes
  <2>3. "cdev" \in o.mem <=> proc[p].pc \in {"add", "device"}
    BY <2>0, <2>1, <1>CreateMemParts
  <2>4. o.cdevRef = n + (IF "cdev" \in o.mem THEN 1 ELSE 0)
    <3>1. CdevOwned(d) <=> proc[p].pc \in {"add", "device"}
      BY <2>0, <2>1 DEF CdevOwned
    <3>2. o.cdevRef = One(CdevOwned(d)) + n
      BY <2>1 DEF DynInv, CdevInv
    <3> QED BY <2>2, <2>3, <3>1, <3>2, SMT DEF One
  <2>5. c \in Object /\ c.mem = (IF "cdev" \in o.mem /\ n = 0 THEN o.mem \ {"cdev"} ELSE o.mem)
        /\ c.cdevRef = n /\ c.added = FALSE /\ c.device = FALSE /\ c.minor_off = o.minor_off
    <3>0. o.device = FALSE /\ o.mem \subseteq Parts /\ o.minor_off \in Ids /\ o.ref \in Nat
          /\ o.added \in BOOLEAN
      BY <2>0, <2>1 DEF Object
    <3>1. CASE "cdev" \in o.mem
      <4>1. c = [mem |-> IF o.cdevRef = 1 THEN o.mem \ {"cdev"} ELSE o.mem,
                 cdevRef |-> o.cdevRef - 1, added |-> FALSE,
                 device |-> o.device, ref |-> o.ref, minor_off |-> o.minor_off]
        BY <2>1, <3>1, CdevDelRecord
      <4>2. o.cdevRef = n + 1
        BY <2>4, <3>1
      <4> HIDE DEF c, o, n
      <4>3. /\ c.mem = (IF n = 0 THEN o.mem \ {"cdev"} ELSE o.mem) /\ c.cdevRef = n
            /\ c.added = FALSE /\ c.device = FALSE /\ c.minor_off = o.minor_off
        BY <2>2, <3>0, <4>1, <4>2, SMT
      <4>5. c \in Object
        <5> DEFINE x == IF o.cdevRef = 1 THEN o.mem \ {"cdev"} ELSE o.mem
                   y == o.cdevRef - 1
        <5>1. x \subseteq Parts /\ y \in Nat
          BY <2>2, <3>0, <4>2, SMT
        <5>2. c = [mem |-> x, cdevRef |-> y, added |-> FALSE,
                   device |-> o.device, ref |-> o.ref, minor_off |-> o.minor_off]
          BY <4>1
        <5> HIDE DEF x, y
        <5> QED BY <3>0, <5>1, <5>2 DEF Object
      <4> QED BY <3>1, <4>3, <4>5
    <3>2. CASE "cdev" \notin o.mem
      <4>1. c = o
        BY <3>2
      <4>2. o.added = FALSE
        BY <2>0, <2>1, <2>3, <3>0, <3>2
      <4>3. o.cdevRef = n
        BY <2>2, <2>4, <3>2, SMT
      <4> HIDE DEF c, o, n
      <4> QED BY <2>1, <3>0, <3>2, <4>1, <4>2, <4>3
    <3> QED BY <3>1, <3>2
  <2>6. c.mem \ CreateUndo[proc[p].pc] = m
    <3>1. CreateMem[proc[p].pc] \ CreateUndo[proc[p].pc]
             = IF proc[p].pc \in {"add", "device"} THEN {"cdev"} ELSE {}
      BY <2>0, SMT DEF CreateMem, CreateUndo, CreatePc, Parts, Ring
    <3>2. "cdev" \notin o.mem => n = 0
      <4>1. ~(o.cdevRef > 0) \/ "cdev" \in o.mem
        BY <2>1 DEF DynInv, MemInv
      <4> QED BY <2>2, <2>4, <4>1, SMT
    <3>3. o.mem \ CreateUndo[proc[p].pc] = IF "cdev" \in o.mem THEN {"cdev"} ELSE {}
      BY <2>1, <2>3, <3>1
    <3> HIDE DEF c, o, n
    <3> QED BY <2>2, <2>5, <3>2, <3>3, SMT DEF m
  <2> HIDE DEF c
  <2>7. u = [mem |-> m, cdevRef |-> n, added |-> FALSE, device |-> FALSE, ref |-> 0,
             minor_off |-> o.minor_off]
    <3>1. /\ u.mem = m /\ u.cdevRef = n /\ u.added = FALSE /\ u.device = FALSE
          /\ u.ref = 0 /\ u.minor_off = o.minor_off
      <4> HIDE DEF m, n, o
      <4> QED BY <2>5, <2>6 DEF Object
    <3>2. /\ DOMAIN u = {"mem", "cdevRef", "added", "device", "ref", "minor_off"}
          /\ u = [f \in DOMAIN u |-> u[f]]
      BY <2>5 DEF Object
    <3> HIDE DEF u, m, n, o
    <3>3. u = [mem |-> u.mem, cdevRef |-> u.cdevRef, added |-> u.added,
               device |-> u.device, ref |-> u.ref, minor_off |-> u.minor_off]
      BY <3>2
    <3> QED BY <3>1, <3>3
  <2> HIDE DEF u, m
  <2>8. Becomes(d, m, n, FALSE, FALSE, 0, obj[d].minor_off)
    BY <2>0, <2>1, <2>7, BecomesRecord
  <2>9. Returns(p)
    BY <2>0, ReturnEffect
  <2>10. m = IF n > 0 THEN {"cdev"} ELSE {}
    BY DEF m
  <2> HIDE DEF n
  <2>11. n = Cardinality(Inodes(d))
    BY DEF n
  <2> QED BY <2>0, <2>8, <2>9, <2>10, <2>11, <1>CreateEnds

<1> SUFFICES ASSUME LoadedFirst, LifeInv, NEW p \in Procs,
                    \/ kbuf_dyn_create_ida(p) \/ kbuf_dyn_create_struct(p)
                    \/ kbuf_dyn_create_alloc(p) \/ kbuf_dyn_create_register(p)
                    \/ kbuf_dyn_create_fail(p)
             PROVE  LifeInv'
  OBVIOUS
<1>1. CASE kbuf_dyn_create_ida(p)
  BY <1>1, <1>CreateIda
<1>2. CASE kbuf_dyn_create_struct(p)
  BY <1>2, <1>CreateStructStep
<1>3. CASE kbuf_dyn_create_alloc(p)
  BY <1>3, <1>CreateAlloc
<1>4. CASE kbuf_dyn_create_register(p)
  BY <1>4, <1>CreateRegister
<1>5. CASE kbuf_dyn_create_fail(p)
  BY <1>5, <1>CreateFail
<1> QED BY <1>1, <1>2, <1>3, <1>4, <1>5

-----------------------------------------------------------------------------
(* DESTROY, also by a CREATE that could not report its id.                 *)

\* p may take d off: it is on the list, or p already has.
Owns(p, d) ==
  \/ proc[p].pc \in {"idle", "user"} /\ d \in Listed
  \/ proc[p].pc \in DestroyPc /\ proc[p].dev = d

\* The steps of kbuf_dyn_destroy.
LEMMA DestroySteps ==
  \A p \in Procs :
    /\ LoadedFirst /\ LifeInv
    /\ kbuf_ctl_create_user(p) \/ kbuf_ctl_destroy(p) \/ kbuf_dyn_teardown(p)
    => LifeInv'
\* list_del takes one element off a list without repetitions.
<1>ListDel.
      ASSUME NEW D, NEW s \in Seq(D), NEW i \in DOMAIN s,
             \A j, k \in DOMAIN s : s[j] = s[k] => j = k
      PROVE  /\ list_del(s, i) \in Seq(D)
             /\ Range(list_del(s, i)) = Range(s) \ {s[i]}
             /\ \A j, k \in DOMAIN list_del(s, i) : list_del(s, i)[j] = list_del(s, i)[k] => j = k
  <2> USE <1>ListDel
  <2> DEFINE t == list_del(s, i)
  <2>1. /\ t \in Seq(D) /\ Len(t) = Len(s) - 1
        /\ \A j \in 1..(Len(s) - 1) : t[j] = IF j < i THEN s[j] ELSE s[j + 1]
    <3> DEFINE a == SubSeq(s, 1, i - 1)
               b == SubSeq(s, i + 1, Len(s))
    <3>1. i \in 1..Len(s) /\ Len(s) \in Nat
      BY SMT
    <3>2. /\ a \in Seq(D) /\ Len(a) = i - 1
          /\ \A j \in 1..(i - 1) : a[j] = s[j]
      BY <3>1, SMT
    <3>3. /\ b \in Seq(D) /\ Len(b) = Len(s) - i
          /\ \A j \in 1..(Len(s) - i) : b[j] = s[i + j]
      BY <3>1, SMT
    <3> HIDE DEF a, b
    <3>4. t = a \o b
      BY DEF list_del, a, b
    <3> HIDE DEF t
    <3>a. a \in Seq(D) /\ b \in Seq(D)
      BY <3>2, <3>3
    <3>5. /\ t \in Seq(D) /\ Len(t) = Len(a) + Len(b)
          /\ \A j \in 1..(Len(a) + Len(b)) :
               t[j] = IF j <= Len(a) THEN a[j] ELSE b[j - Len(a)]
      BY <3>4, <3>a, SMT
    <3>6. ASSUME NEW j \in 1..(Len(s) - 1)
          PROVE  t[j] = IF j < i THEN s[j] ELSE s[j + 1]
      <4>0. t[j] = IF j <= i - 1 THEN a[j] ELSE b[j - (i - 1)]
        <5>1. Len(a) = i - 1 /\ Len(b) = Len(s) - i /\ j \in 1..(Len(a) + Len(b))
          BY <3>1, <3>2, <3>3, SMT
        <5>2. t[j] = IF j <= Len(a) THEN a[j] ELSE b[j - Len(a)]
          BY <3>5, <5>1
        <5> QED BY <5>1, <5>2
      <4>1. CASE j < i
        BY <3>1, <3>2, <4>0, <4>1, SMT
      <4>2. CASE ~(j < i)
        <5>1. t[j] = b[j - (i - 1)] /\ j - (i - 1) \in 1..(Len(s) - i)
          BY <3>1, <4>0, <4>2, SMT
        <5>2. i + (j - (i - 1)) = j + 1
          BY <3>1, SMT
        <5> QED BY <3>3, <4>2, <5>1, <5>2
      <4> QED BY <4>1, <4>2
    <3>7. Len(t) = Len(s) - 1
      <4>1. Len(t) = (i - 1) + (Len(s) - i)
        BY <3>2, <3>3, <3>5
      <4> QED BY <3>1, <4>1, SMT
    <3> QED BY <3>5, <3>6, <3>7
  <2> HIDE DEF t
  <2>2. Range(t) = Range(s) \ {s[i]}
    <3>1. ASSUME NEW j \in DOMAIN t PROVE t[j] \in Range(s) \ {s[i]}
      BY <2>1, <3>1, SMT DEF Range
    <3>2. ASSUME NEW j \in DOMAIN s, j # i PROVE s[j] \in Range(t)
      <4>1. CASE j < i
        BY <2>1, <3>2, <4>1, SMT DEF Range
      <4>2. CASE j > i
        <5>1. j - 1 \in DOMAIN t /\ t[j - 1] = s[j]
          BY <2>1, <3>2, <4>2, SMT
        <5> QED BY <5>1 DEF Range
      <4> QED BY <4>1, <4>2, <3>2, SMT
    <3> QED BY <3>1, <3>2, SMT DEF Range
  <2>3. ASSUME NEW j \in DOMAIN t, NEW k \in DOMAIN t, t[j] = t[k] PROVE j = k
    <3>1. j \in 1..(Len(s) - 1) /\ k \in 1..(Len(s) - 1) /\ Len(s) \in Nat /\ i \in 1..Len(s)
      BY <2>1, SMT
    <3> DEFINE J == IF j < i THEN j ELSE j + 1
               K == IF k < i THEN k ELSE k + 1
    <3>2. J \in DOMAIN s /\ K \in DOMAIN s /\ t[j] = s[J] /\ t[k] = s[K]
      BY <2>1, <3>1, SMT
    <3>3. J = K
      BY <2>3, <3>2
    <3> QED BY <3>1, <3>3, SMT
  <2> QED BY <2>1, <2>2, <2>3 DEF t

\* What DESTROY knows of its device.
<1>Destroyer.
      ASSUME LifeInv, NEW p \in Procs, NEW d \in Dynamic, Owns(p, d)
      PROVE  /\ d \in Devs /\ d \notin Static /\ DynInv(d)
             /\ Registered(d) /\ Creating(d) = {} /\ Destroying(d) \subseteq {p}
             /\ obj[d].ref > 0 /\ obj[d].ref \in Nat
             /\ obj[d].added <=> proc[p].pc # "d_put"
             /\ obj[d].device <=> proc[p].pc \in {"idle", "user", "d_device"}
             /\ CdevOwned(d) <=> obj[d].added
  <2> USE <1>Destroyer
  <2>0. LifeType /\ ProcInv(p)
    BY DEF LifeInv
  <2>2. d \in Devs /\ d \notin Static /\ DynInv(d)
    BY LifeAssumption, SMT DEF LifeInv, Devs, Static, Dynamic
  <2>3. /\ OneOwner(d) /\ StageInv(d) /\ obj[d].ref = Holders(d)
    BY <2>2 DEF DynInv
  <2>4. \/ d \in Listed /\ proc[p].pc \in {"idle", "user"}
        \/ p \in Destroying(d) /\ proc[p].pc \in DestroyPc
    BY DEF Owns, Destroying, DestroyPc
  <2>5. Registered(d)
    BY <2>4 DEF Registered
  <2>6. Creating(d) = {} /\ Destroying(d) \subseteq {p}
    <3>1. CASE d \in Listed
      BY <2>3, <3>1 DEF OneOwner
    <3>2. CASE p \in Destroying(d)
      <4>1. \A q \in Creating(d) \cup Destroying(d) : q = p
        BY <2>3, <3>2 DEF OneOwner
      <4>2. p \notin Creating(d)
        BY <3>2 DEF Creating, Destroying
      <4> QED BY <4>1, <4>2
    <3> QED BY <2>4, <3>1, <3>2
  <2>7. obj[d].ref > 0 /\ obj[d].ref \in Nat
    BY <2>0, <2>3, <2>5, NoUsers, SMT
  <2>8. /\ obj[d].added <=> proc[p].pc # "d_put"
        /\ obj[d].device <=> proc[p].pc \in {"idle", "user", "d_device"}
    <3>1. CASE d \in Listed /\ proc[p].pc \in {"idle", "user"}
      BY <2>3, <3>1 DEF StageInv
    <3>2. CASE p \in Destroying(d) /\ proc[p].pc \in DestroyPc
      BY <2>3, <3>2 DEF StageInv, DestroyPc
    <3> QED BY <2>4, <3>1, <3>2
  <2>9. CdevOwned(d) <=> obj[d].added
    BY <2>6 DEF CdevOwned
  <2> QED BY <2>2, <2>5, <2>6, <2>7, <2>8, <2>9

\* DESTROY unlinks its device, or goes on to the next step of the teardown.
<1>DestroyMoves.
      ASSUME LifeInv, NEW p \in Procs, NEW d \in Dynamic, load.pc = "live", Owns(p, d),
             NEW l \in DestroyPc, NEW m, NEW c, NEW a, NEW v,
             Now(p, l, d, proc[p].id, proc[p].file, proc[p].icdev, proc[p].import, proc[p].held),
             Becomes(d, m, c, a, v, obj[d].ref, obj[d].minor_off), c \in Nat,
             c + One(obj[d].added) = obj[d].cdevRef + One(a), a => obj[d].added,
             m = IF c > 0 THEN obj[d].mem ELSE obj[d].mem \ {"cdev"},
             a \in BOOLEAN, v \in BOOLEAN, a <=> l # "d_put", v <=> l = "d_device",
             kbuf_dyn_list' \in Seq(Dynamic), Listed' = Listed \ {d}, ListInv',
             UNCHANGED <<kbuf_dyn_ida, created, buf, modVars>>
      PROVE  LifeInv'
  <2> USE <1>DestroyMoves
  <2>0. LifeType /\ ProcInv(p) /\ \A i \in Ids : MinorInv(i)
    BY DEF LifeInv
  <2>1. /\ d \in Devs /\ d \notin Static /\ DynInv(d)
        /\ Registered(d) /\ Creating(d) = {} /\ Destroying(d) \subseteq {p}
        /\ obj[d].ref > 0 /\ obj[d].ref \in Nat
        /\ CdevOwned(d) <=> obj[d].added
    BY <1>Destroyer
  <2>3. /\ proc'[p].pc = l /\ proc'[p].dev = d
        /\ proc'[p].file = proc[p].file /\ proc'[p].icdev = proc[p].icdev
        /\ proc'[p].import = proc[p].import /\ proc'[p].held = proc[p].held
        /\ \A q \in Procs \ {p} : proc'[q] = proc[q]
    BY DEF Now
  <2>4. /\ obj'[d].mem = m /\ obj'[d].cdevRef = c /\ obj'[d].ref = obj[d].ref
        /\ obj'[d].added = a /\ obj'[d].device = v /\ obj'[d].minor_off = obj[d].minor_off
        /\ \A e \in Devs \ {d} : obj'[e] = obj[e]
    BY DEF Becomes
  <2>5. proc[p].pc \in {"idle"} \cup CtlPc /\ proc[p].pc \notin CreatePc \cup {"struct", "e_export"}
        /\ (proc[p].pc \in DestroyPc => proc[p].dev = d)
    BY DEF Owns, CtlPc, DestroyPc, CreatePc
  <2>6. l \in CtlPc /\ l \notin CreatePc \cup ImportPc \cup ExportPc
        /\ l \notin {"idle", "struct", "open", "opened", "release", "cdev_put"} /\ l \in ProcPc
    BY DEF CreatePc, DestroyPc, CtlPc, ImportPc, ExportPc, ProcPc
  <2>7. /\ proc[p].import = NoProc /\ proc[p].held = {}
        /\ proc[p].file = NoDev <=> proc[p].icdev = NoDev
    BY <2>0, <2>5 DEF ProcInv, ImportPc, CtlPc
  <2>8. /\ obj[d].mem \subseteq Parts /\ obj[d].cdevRef \in Nat
        /\ obj[d].minor_off \in Ids /\ obj[d].added \in BOOLEAN
    BY <2>0, <2>1, ObjRecord
  <2>9. /\ proc' \in [Procs -> Thread] /\ obj' \in [Devs -> Object] /\ kbuf_dyn_ida' \subseteq Ids
    <3>1. proc' \in [Procs -> Thread]
      <4>1. {d, proc[p].file, proc[p].icdev} \subseteq Devs \cup {NoDev} /\ proc[p].id \in Nat
            /\ proc[p].import \in Procs \cup {NoProc} /\ proc[p].held \subseteq Steps
        BY <2>0, <2>1, ProcRecord
      <4> QED BY <2>6, <4>1 DEF Now
    <3>2. m \subseteq Parts
      BY <2>8
    <3>3. obj' \in [Devs -> Object]
      BY <2>1, <2>8, <3>2 DEF Becomes
    <3> QED BY <2>0, <3>1, <3>3 DEF LifeType
  <2>10. created' \in created..MaxCreates
    BY <2>0, LifeAssumption, SMT DEF LifeType
  <2>11. ProcInv(p)'
    <3>1. /\ proc'[p].file \in Static => proc'[p].file < kbuf_ndevices'
          /\ proc'[p].icdev \in Static => proc'[p].icdev < kbuf_ndevices'
      BY <2>0, <2>3 DEF ProcInv, modVars
    <3> QED BY <2>3, <2>6, <2>7, <3>1 DEF ProcInv, ExportPc
  <2>12. /\ Opened(d)' = Opened(d) /\ Inodes(d)' = Inodes(d)
         /\ Exported(d)' = Exported(d) /\ Exporting(d)' = Exporting(d)
    <3>1. proc[p].pc # "e_export" /\ proc'[p].pc # "e_export"
      BY <2>3, <2>5, <2>6 DEF ExportPc
    <3> QED BY <2>3, <3>1, UsersKeep
  <2>13. Creating(d)' = {} /\ Destroying(d)' = {p}
    <3>1. p \notin Creating(d)' /\ p \in Destroying(d)'
      BY <2>3 DEF Creating, Destroying, DestroyPc
    <3>2. \A q \in Procs \ {p} : q \notin Creating(d)' /\ q \notin Destroying(d)'
      BY <2>1, <2>3 DEF Creating, Destroying
    <3>3. Creating(d)' \subseteq Procs /\ Destroying(d)' \subseteq Procs
      BY DEF Creating, Destroying
    <3> QED BY <3>1, <3>2, <3>3
  <2>14. DynInv(d)'
    <3>1. Registered(d)' /\ d \notin Listed'
      BY <2>13 DEF Registered
    <3>2. (obj[d].ref = Holders(d))'
      <4>1. Holders(d)' = Holders(d)
        BY <2>1, <2>12, <3>1 DEF Holders, One
      <4>2. obj[d].ref = Holders(d)
        BY <2>1 DEF DynInv
      <4> QED BY <2>4, <4>1, <4>2
    <3>3. CdevInv(d)'
      <4>1. CdevOwned(d)' <=> a
        BY <2>4, <2>13 DEF CdevOwned
      <4>2. obj[d].cdevRef = One(obj[d].added) + Cardinality(Inodes(d))
        BY <2>1, <2>8 DEF DynInv, CdevInv, One
      <4>3. Inodes(d) \in SUBSET Procs /\ Cardinality(Inodes(d)) \in Nat
        BY Count DEF Inodes
      <4>4. c = One(a) + Cardinality(Inodes(d))
        BY <2>8, <4>2, <4>3, SMT DEF One
      <4> QED BY <2>4, <2>12, <4>1, <4>4 DEF CdevInv, One
    <3>4. OneOwner(d)'
      BY <2>13, <3>1 DEF OneOwner
    <3>5. MemInv(d)'
      <4>1. MemInv(d)
        BY <2>1 DEF DynInv
      <4>2. c > 0 => obj[d].cdevRef > 0
        <5>1. One(a) \in Nat /\ One(obj[d].added) \in Nat /\ One(a) <= One(obj[d].added)
          BY <2>8, SMT DEF One
        <5> QED BY <2>8, <5>1, SMT
      <4>3. "cdev" \in m <=> c > 0
        BY <4>1, <4>2 DEF MemInv
      <4>4. "struct" \in m /\ Ring \subseteq m
        BY <2>1, <4>1 DEF MemInv, Ring
      <4>5. obj'[d].ref # 0
        BY <2>1, <2>4, SMT
      <4> QED BY <2>4, <4>3, <4>4, <4>5 DEF MemInv
    <3>6. StageInv(d)'
      BY <2>3, <2>4, <2>13, <3>1 DEF StageInv
    <3>7. ~(d >= KBUF_MAX_NDEVICES + created')
      <4>1. obj[d] # NoObj
        <5>1. obj[d].ref # 0
          BY <2>1, OneIsSome
        <5> QED BY <5>1, InUse
      <4> QED BY <2>1, <4>1 DEF DynInv
    <3> QED BY <3>2, <3>3, <3>4, <3>5, <3>6, <3>7 DEF DynInv
  <2>15. ASSUME NEW i \in Ids
         PROVE  MinorInv(i)'
    <3>0. "struct" \in m <=> "struct" \in obj[d].mem
      BY SMT
    <3>1. \A e \in Dynamic : MinorOf(e, i)' <=> MinorOf(e, i)
      BY <2>4, <3>0 DEF MinorOf, Devs
    <3>2. \A q \in Procs : Pending(q, i)' <=> Pending(q, i)
      BY <2>3, <2>5, <2>6 DEF Pending
    <3>3. MinorInv(i)
      BY <2>0
    <3> QED BY <3>1, <3>2, <3>3 DEF MinorInv
  <2>16. \A e \in Dynamic \ {d} : e \in Listed' <=> e \in Listed
    BY SMT
  <2>17. proc'[p].pc \in {"idle"} \cup CtlPc /\ proc'[p].pc \notin CreatePc
    BY <2>3, <2>6
  <2> QED BY <2>0, <2>1, <2>3, <2>4, <2>5, <2>9, <2>10, <2>11, <2>14, <2>15, <2>16, <2>17, CtlInv

\* DESTROY, or CREATE whose put_user faulted: find the id and unlink.
<1>DestroyFind.
      ASSUME LifeInv, NEW p \in Procs, load.pc = "live", proc[p].pc \in {"idle", "user"},
             NEW off, kbuf_dyn_destroy_find(p, off)
      PROVE  LifeInv'
  <2> USE <1>DestroyFind
  <2>0. LifeType /\ ListInv /\ UNCHANGED <<obj, kbuf_dyn_ida, created, buf, modVars>>
    BY DEF LifeInv, kbuf_dyn_destroy_find
  <2>1. CASE ListFind(off) = {}
    <3>1. proc' = Return(p) /\ kbuf_dyn_list' = kbuf_dyn_list
      BY <2>1 DEF kbuf_dyn_destroy_find
    <3> QED BY <2>0, <3>1, CallEnds DEF dynVars
  <2>2. CASE ListFind(off) # {}
    <3> DEFINE i == Min(ListFind(off))
               d == kbuf_dyn_list[i]
               s == list_del(kbuf_dyn_list, i)
               l == "d_device"
    <3>1. kbuf_dyn_list' = s /\ proc' = [proc EXCEPT ![p].pc = l, ![p].dev = d]
      BY <2>2 DEF kbuf_dyn_destroy_find
    <3>2. i \in DOMAIN kbuf_dyn_list /\ d \in Dynamic /\ d \in Listed
      BY <2>0, <2>2, FindOnList
    <3> HIDE DEF i
    <3>3. /\ s \in Seq(Dynamic) /\ Range(s) = Range(kbuf_dyn_list) \ {d}
          /\ \A j, k \in DOMAIN s : s[j] = s[k] => j = k
      BY <2>0, <3>2, <1>ListDel, SMT DEF ListInv, LifeType
    <3> HIDE DEF s
    <3>4. Listed' = Listed \ {d} /\ ListInv' /\ kbuf_dyn_list' \in Seq(Dynamic)
      BY <3>1, <3>3 DEF Listed, ListInv
    <3> HIDE DEF d
    <3>5. Owns(p, d)
      BY <3>2 DEF Owns
    <3>6. /\ d \in Devs /\ DynInv(d) /\ obj[d].added /\ obj[d].device
      BY <3>2, <3>5, <1>Destroyer
    <3>7. /\ obj[d].cdevRef \in Nat /\ obj[d].added \in BOOLEAN /\ obj[d].device \in BOOLEAN
          /\ obj[d].mem \subseteq Parts
      BY <2>0, <3>6, ObjRecord
    <3>8. Becomes(d, obj[d].mem, obj[d].cdevRef, obj[d].added, obj[d].device, obj[d].ref,
                  obj[d].minor_off)
      BY <2>0, <3>6, ObjRecord DEF Becomes
    <3>9. obj[d].mem = IF obj[d].cdevRef > 0 THEN obj[d].mem ELSE obj[d].mem \ {"cdev"}
      BY <3>6 DEF DynInv, MemInv
    <3>10. l \in DestroyPc /\ (obj[d].added <=> l # "d_put") /\ (obj[d].device <=> l = "d_device")
      BY <3>6 DEF DestroyPc
    <3> HIDE DEF l
    <3>11. Now(p, l, d, proc[p].id, proc[p].file, proc[p].icdev, proc[p].import, proc[p].held)
      BY <2>0, <3>1, DevEffect
    <3> DEFINE c == obj[d].cdevRef
               a == obj[d].added
               v == obj[d].device
               m == obj[d].mem
    <3>12. c + One(obj[d].added) = obj[d].cdevRef + One(a) /\ (a => obj[d].added)
      OBVIOUS
    <3>13. /\ Becomes(d, m, c, a, v, obj[d].ref, obj[d].minor_off)
           /\ c \in Nat /\ a \in BOOLEAN /\ v \in BOOLEAN
           /\ m = IF c > 0 THEN obj[d].mem ELSE obj[d].mem \ {"cdev"}
           /\ (a <=> l # "d_put") /\ (v <=> l = "d_device")
      BY <3>7, <3>8, <3>9, <3>10
    <3> HIDE DEF c, a, v, m
    <3> QED BY <2>0, <3>2, <3>4, <3>5, <3>10, <3>11, <3>12, <3>13, <1>DestroyMoves
  <2> QED BY <2>1, <2>2

\* put_user of the new id.
<1>CreateUser.
      ASSUME LifeInv, NEW p \in Procs, kbuf_ctl_create_user(p)
      PROVE  LifeInv'
  <2> USE <1>CreateUser
  <2>0. proc[p].pc = "user" /\ load.pc = "live"
    BY Live DEF kbuf_ctl_create_user
  <2>1. CASE proc' = Return(p) /\ UNCHANGED <<obj, dynVars, buf, modVars>>
    BY <2>0, <2>1, CallEnds
  <2>2. CASE kbuf_dyn_destroy_find(p, proc[p].id)
    BY <2>0, <2>2, <1>DestroyFind
  <2> QED BY <2>1, <2>2 DEF kbuf_ctl_create_user

\* KBUF_CTL_DESTROY.
<1>Destroy.
      ASSUME LoadedFirst, LifeInv, NEW p \in Procs, kbuf_ctl_destroy(p)
      PROVE  LifeInv'
  <2> USE <1>Destroy
  <2>0. proc[p].pc = "idle" /\ load.pc = "live" /\ \E off \in Ids : kbuf_dyn_destroy_find(p, off)
    BY LiveGet DEF kbuf_ctl_destroy
  <2> QED BY <2>0, <1>DestroyFind

\* device_destroy.
<1>DestroyDevice.
      ASSUME LifeInv, NEW p \in Procs, proc[p].pc = "d_device", NEW d, d = proc[p].dev,
             NEW v, v = FALSE, NEW l, l = "d_cdev",
             obj' = [obj EXCEPT ![d].device = v], proc' = [proc EXCEPT ![p].pc = l],
             UNCHANGED <<dynVars, buf, modVars>>
      PROVE  LifeInv'
  <2> USE <1>DestroyDevice
  <2>0. LifeType /\ ProcInv(p) /\ load.pc = "live" /\ ListInv
    BY Live DEF LifeInv
  <2>1. d \in Dynamic /\ Owns(p, d) /\ l \in DestroyPc
    BY <2>0 DEF ProcInv, Owns, DestroyPc
  <2>2. /\ d \in Devs /\ DynInv(d) /\ obj[d].added /\ Destroying(d) \subseteq {p}
    BY <2>1, <1>Destroyer
  <2>3. /\ obj[d].cdevRef \in Nat /\ obj[d].added \in BOOLEAN /\ obj[d].mem \subseteq Parts
    BY <2>0, <2>2, ObjRecord
  <2>4. Becomes(d, obj[d].mem, obj[d].cdevRef, obj[d].added, v, obj[d].ref, obj[d].minor_off)
    BY <2>0, <2>2, DeviceEffect
  <2>5. Now(p, l, d, proc[p].id, proc[p].file, proc[p].icdev, proc[p].import, proc[p].held)
    BY <2>0, GoesEffect DEF Goes
  <2>6. obj[d].mem = IF obj[d].cdevRef > 0 THEN obj[d].mem ELSE obj[d].mem \ {"cdev"}
    BY <2>2 DEF DynInv, MemInv
  <2>7. (obj[d].added <=> l # "d_put") /\ (v <=> l = "d_device") /\ v \in BOOLEAN
    BY <2>2
  <2>8. d \notin Listed
    BY <2>1, <2>2 DEF Owns, DynInv, OneOwner, Destroying, DestroyPc
  <2>9. Listed' = Listed \ {d} /\ ListInv' /\ kbuf_dyn_list' \in Seq(Dynamic)
    BY <2>0, <2>8 DEF Listed, ListInv, dynVars, LifeType
  <2> DEFINE c == obj[d].cdevRef
             a == obj[d].added
             m == obj[d].mem
  <2>10. c + One(obj[d].added) = obj[d].cdevRef + One(a) /\ (a => obj[d].added)
    OBVIOUS
  <2>11. UNCHANGED <<kbuf_dyn_ida, created, buf, modVars>>
    BY DEF dynVars
  <2> HIDE DEF c, a, m
  <2> QED BY <2>0, <2>1, <2>3, <2>4, <2>5, <2>6, <2>7, <2>9, <2>10, <2>11, <1>DestroyMoves
             DEF c, a, m

\* cdev_del.
<1>DestroyCdev.
      ASSUME LifeInv, NEW p \in Procs, proc[p].pc = "d_cdev", NEW d, d = proc[p].dev,
             NEW a, a = FALSE, NEW l, l = "d_put",
             obj' = [obj EXCEPT ![d] = CdevDel(obj[d])], proc' = [proc EXCEPT ![p].pc = l],
             UNCHANGED <<dynVars, buf, modVars>>
      PROVE  LifeInv'
  <2> USE <1>DestroyCdev
  <2>0. LifeType /\ ProcInv(p) /\ load.pc = "live" /\ ListInv
    BY Live DEF LifeInv
  <2>1. d \in Dynamic /\ Owns(p, d) /\ l \in DestroyPc
    BY <2>0 DEF ProcInv, Owns, DestroyPc
  <2>2. /\ d \in Devs /\ DynInv(d) /\ obj[d].added /\ Destroying(d) \subseteq {p}
        /\ CdevOwned(d) /\ ~obj[d].device
    BY <2>1, <1>Destroyer, SMT
  <2>3. /\ obj[d].cdevRef \in Nat /\ obj[d].device \in BOOLEAN /\ obj[d].mem \subseteq Parts
        /\ obj[d] \in Object
    BY <2>0, <2>2, ObjRecord
  <2> DEFINE c == obj[d].cdevRef - 1
             m == IF obj[d].cdevRef = 1 THEN obj[d].mem \ {"cdev"} ELSE obj[d].mem
  <2>4. Becomes(d, m, c, FALSE, obj[d].device, obj[d].ref, obj[d].minor_off)
    <3> DEFINE o == CdevDel(obj[d])
    <3>1. o = [mem |-> m, cdevRef |-> c, added |-> FALSE, device |-> obj[d].device,
               ref |-> obj[d].ref, minor_off |-> obj[d].minor_off]
      BY <2>3, CdevDelRecord
    <3>2. obj' = [obj EXCEPT ![d] = o]
      OBVIOUS
    <3> HIDE DEF o, m, c
    <3> QED BY <2>0, <2>2, <3>1, <3>2, BecomesRecord
  <2>5. Now(p, l, d, proc[p].id, proc[p].file, proc[p].icdev, proc[p].import, proc[p].held)
    BY <2>0, GoesEffect DEF Goes
  <2>6. obj[d].cdevRef > 0
    <3>1. Inodes(d) \in SUBSET Procs /\ Cardinality(Inodes(d)) \in Nat
      BY Count DEF Inodes
    <3>2. obj[d].cdevRef = 1 + Cardinality(Inodes(d))
      BY <2>2 DEF DynInv, CdevInv, One
    <3> QED BY <3>1, <3>2, SMT
  <2>7. c \in Nat /\ m = IF c > 0 THEN obj[d].mem ELSE obj[d].mem \ {"cdev"}
    BY <2>3, <2>6, SMT
  <2>8. (a <=> l # "d_put") /\ (obj[d].device <=> l = "d_device") /\ a \in BOOLEAN /\ (a => obj[d].added)
    BY <2>2
  <2>9. c + One(obj[d].added) = obj[d].cdevRef + One(a)
    BY <2>2, <2>3, SMT DEF One
  <2>10. d \notin Listed
    BY <2>1, <2>2 DEF Owns, DynInv, OneOwner, Destroying, DestroyPc
  <2>11. Listed' = Listed \ {d} /\ ListInv' /\ kbuf_dyn_list' \in Seq(Dynamic)
    BY <2>0, <2>10 DEF Listed, ListInv, dynVars, LifeType
  <2> HIDE DEF c, m
  <2>12. Becomes(d, m, c, a, obj[d].device, obj[d].ref, obj[d].minor_off)
    BY <2>4
  <2>13. UNCHANGED <<kbuf_dyn_ida, created, buf, modVars>>
    BY DEF dynVars
  <2> DEFINE v == obj[d].device
  <2> HIDE DEF v
  <2> QED BY <2>0, <2>1, <2>3, <2>5, <2>7, <2>8, <2>9, <2>11, <2>12, <2>13, <1>DestroyMoves DEF v

\* The registered reference goes.
<1>DestroyPut.
      ASSUME LifeInv, NEW p \in Procs, proc[p].pc = "d_put", NEW d, d = proc[p].dev,
             Drops(d), Returns(p), UNCHANGED <<kbuf_dyn_list, created, buf, modVars>>
      PROVE  LifeInv'
  <2> USE <1>DestroyPut
  <2>0. LifeType /\ ProcInv(p) /\ load.pc = "live" /\ ListInv
    BY Live DEF LifeInv
  <2>1. d \in Dynamic /\ Owns(p, d)
    BY <2>0 DEF ProcInv, Owns, DestroyPc
  <2>2. /\ d \in Devs /\ d \notin Static /\ DynInv(d) /\ ~obj[d].added /\ ~obj[d].device
        /\ Creating(d) = {} /\ Destroying(d) \subseteq {p} /\ Registered(d) /\ obj[d].ref > 0
    BY <2>1, <1>Destroyer
  <2>3. /\ proc'[p].pc = "idle" /\ proc'[p].dev = NoDev /\ proc'[p].id = 0
        /\ proc'[p].file = proc[p].file /\ proc'[p].icdev = proc[p].icdev
        /\ proc'[p].import = NoProc /\ proc'[p].held = {}
        /\ \A q \in Procs \ {p} : proc'[q] = proc[q]
    BY DEF Returns, Now
  <2>4. /\ obj'[d].added = obj[d].added /\ obj'[d].device = obj[d].device
        /\ \A e \in Devs \ {d} : obj'[e] = obj[e]
        /\ obj' \in [Devs -> Object] /\ kbuf_dyn_ida' \subseteq Ids
        /\ obj'[d].minor_off = obj[d].minor_off
    BY <2>0, <2>2, DropFields
  <2>5. d \notin Listed
    BY <2>1, <2>2 DEF Owns, DynInv, OneOwner, Destroying, DestroyPc
  <2>6. Listed' = Listed /\ ListInv' /\ kbuf_dyn_list' \in Seq(Dynamic)
    BY <2>0 DEF Listed, ListInv, LifeType
  <2>7. proc' \in [Procs -> Thread]
    BY <2>0, ReturnsType
  <2>8. created' \in created..MaxCreates
    BY <2>0, LifeAssumption, SMT DEF LifeType
  <2>9. proc[p].pc \in CtlPc /\ proc'[p].pc \in {"idle"} \cup CtlPc
        /\ proc'[p].pc \notin CreatePc \cup DestroyPc
    BY <2>3 DEF CreatePc, DestroyPc, CtlPc
  <2>10. ProcInv(p)'
    <3>1. /\ proc'[p].file \in Static => proc'[p].file < kbuf_ndevices'
          /\ proc'[p].icdev \in Static => proc'[p].icdev < kbuf_ndevices'
      BY <2>0, <2>3 DEF ProcInv, modVars
    <3>2. proc[p].file = NoDev <=> proc[p].icdev = NoDev
      BY <2>0, <2>9 DEF ProcInv
    <3>3. proc'[p].pc \notin {"opened", "release", "open", "cdev_put", "struct"}
                           \cup ImportPc \cup ExportPc
      BY <2>3 DEF ImportPc, ExportPc
    <3> QED BY <2>3, <2>9, <3>1, <3>2, <3>3 DEF ProcInv, ExportPc
  <2>11. /\ Opened(d)' = Opened(d) /\ Inodes(d)' = Inodes(d)
         /\ Exported(d)' = Exported(d) /\ Exporting(d)' = Exporting(d)
    <3>1. proc[p].pc # "e_export" /\ proc'[p].pc # "e_export"
      BY <2>3
    <3> QED BY <2>3, <3>1, UsersKeep
  <2>12. Creating(d)' = {} /\ Destroying(d)' = {}
    <3>1. p \notin Creating(d)' /\ p \notin Destroying(d)'
      BY <2>3 DEF Creating, Destroying
    <3>2. \A q \in Procs \ {p} : q \notin Creating(d)' /\ q \notin Destroying(d)'
      BY <2>2, <2>3 DEF Creating, Destroying
    <3>3. Creating(d)' \subseteq Procs /\ Destroying(d)' \subseteq Procs
      BY DEF Creating, Destroying
    <3> QED BY <3>1, <3>2, <3>3
  <2>13. DynInv(d)'
    <3>1. ~Registered(d)' /\ d \notin Listed'
      BY <2>5, <2>6, <2>12 DEF Registered
    <3>2. Holders(d)' = Holders(d) - 1
      <4>1. One(Registered(d)) = 1 /\ One(Registered(d)') = 0
        BY <2>2, <3>1 DEF One
      <4>2. /\ Cardinality(Opened(d)) \in Nat /\ Cardinality(Exported(d)) \in Nat
            /\ Cardinality(Exporting(d)) \in Nat
        BY <2>0, <2>1, <2>2, NoUsers DEF DynInv
      <4>3. /\ Holders(d) = One(Registered(d)) + Cardinality(Opened(d))
                             + Cardinality(Exported(d)) + Cardinality(Exporting(d))
            /\ Holders(d)' = One(Registered(d)') + Cardinality(Opened(d))
                              + Cardinality(Exported(d)) + Cardinality(Exporting(d))
        BY <2>11 DEF Holders, One
      <4> QED BY <4>1, <4>2, <4>3, SMT
    <3>3. OneOwner(d)'
      BY <2>12 DEF OneOwner
    <3>4. StageInv(d)'
      BY <2>2, <2>4, <2>12, <3>1 DEF StageInv
    <3> QED BY <2>0, <2>1, <2>2, <2>11, <2>12, <3>2, <3>3, <3>4, DropInv
  <2>14. ASSUME NEW m \in Ids
         PROVE  MinorInv(m)'
    <3>1. \A q \in Procs : Pending(q, m)' <=> Pending(q, m)
      BY <2>3 DEF Pending
    <3> QED BY <2>1, <2>2, <3>1, DropMinor
  <2> QED BY <2>0, <2>1, <2>2, <2>3, <2>4, <2>6, <2>7, <2>8, <2>9, <2>10, <2>13, <2>14, CtlInv

\* device_destroy, cdev_del, kref_put.
<1>Teardown.
      ASSUME LifeInv, NEW p \in Procs, kbuf_dyn_teardown(p)
      PROVE  LifeInv'
  <2> USE <1>Teardown
  <2> DEFINE d == proc[p].dev
  <2>0. LifeType /\ ProcInv(p) /\ UNCHANGED <<kbuf_dyn_list, created, buf, modVars>>
    BY DEF LifeInv, kbuf_dyn_teardown
  <2>1. CASE /\ proc[p].pc = "d_device"
             /\ obj' = [obj EXCEPT ![d].device = FALSE]
             /\ proc' = [proc EXCEPT ![p].pc = "d_cdev"]
             /\ UNCHANGED kbuf_dyn_ida
    BY <2>0, <2>1, <1>DestroyDevice DEF dynVars
  <2>2. CASE /\ proc[p].pc = "d_cdev"
             /\ obj' = [obj EXCEPT ![d] = CdevDel(@)]
             /\ proc' = [proc EXCEPT ![p].pc = "d_put"]
             /\ UNCHANGED kbuf_dyn_ida
    <3>1. obj' = [obj EXCEPT ![d] = CdevDel(obj[d])]
      BY <2>2
    <3> QED BY <2>0, <2>2, <3>1, <1>DestroyCdev DEF dynVars
  <2>3. CASE /\ proc[p].pc = "d_put" /\ kref_put(d) /\ proc' = Return(p)
    <3>1. Returns(p)
      BY <2>0, <2>3, ReturnEffect
    <3>2. d \in Dynamic /\ Owns(p, d)
      BY <2>0, <2>3 DEF ProcInv, Owns, DestroyPc
    <3>3. d \in Devs /\ obj[d].ref > 0
      BY <3>2, <1>Destroyer
    <3>4. Drops(d)
      BY <2>0, <2>3, <3>3, KrefPut
    <3> QED BY <2>0, <2>3, <3>1, <3>4, <1>DestroyPut
  <2> QED BY <2>1, <2>2, <2>3 DEF kbuf_dyn_teardown

<1> SUFFICES ASSUME LoadedFirst, LifeInv, NEW p \in Procs,
                    kbuf_ctl_create_user(p) \/ kbuf_ctl_destroy(p) \/ kbuf_dyn_teardown(p)
             PROVE  LifeInv'
  OBVIOUS
<1>1. CASE kbuf_ctl_create_user(p)
  BY <1>1, <1>CreateUser
<1>2. CASE kbuf_ctl_destroy(p)
  BY <1>2, <1>Destroy
<1>3. CASE kbuf_dyn_teardown(p)
  BY <1>3, <1>Teardown
<1> QED BY <1>1, <1>2, <1>3

\* All of CREATE and DESTROY.
LEMMA CtlSteps ==
  ASSUME LoadedFirst, LifeInv, NEW p \in Procs, CtlStep(p)
  PROVE  LifeInv'
BY CreateSteps, DestroySteps DEF CtlStep
=============================================================================
