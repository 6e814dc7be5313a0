-------------------------- MODULE KbufDmabufProofs --------------------------
(***************************************************************************)
(* The steps that drop a reference to a dma-buf and those of IMPORT        *)
(* preserve LifeInv.                                                       *)
(***************************************************************************)
EXTENDS KbufUseProofs

\* The leaves that say nothing else are for Zenon.
USE Zenon

-----------------------------------------------------------------------------
(* Dropping a reference to a dma-buf.                                      *)

\* A thread p lets go of the dma-buf of b: what is left, the descriptor among
\* it if fd holds, is one reference less.
Lets(p, b, fd) ==
  /\ proc' \in [Procs -> Thread] /\ \A q \in Procs \ {p} : proc'[q] = proc[q]
  /\ Apart(p)
  /\ proc'[p].file = proc[p].file /\ proc'[p].icdev = proc[p].icdev
  /\ \A e : p \in Exporting(e)' <=> p \in Exporting(e)
  /\ \A c \in Procs \ {b} : proc'[p].import = c <=> proc[p].import = c
  /\ p # b => (proc'[p].pc = "e_fd" <=> proc[p].pc = "e_fd")
  /\ fd \in BOOLEAN /\ ~(fd /\ proc'[b].pc = "e_fd")
  /\ One(fd) + One(proc'[b].pc = "e_fd") + Cardinality(Importing(b)') = buf[b].ref - 1
  /\ UNCHANGED <<kbuf_dyn_list, created, modVars>>

\* What dma_buf_put leaves of the dma-buf.
LEMMA PutRecord ==
  ASSUME LifeType, NEW b \in Procs, NEW fd \in BOOLEAN, buf[b].ref # 0, dma_buf_put(b, fd)
  PROVE  /\ buf' \in [Procs -> DmaBuf] /\ \A q \in Procs \ {b} : buf'[q] = buf[q]
         /\ buf[b].ref \in Nat
         /\ buf[b].ref = 1 => buf'[b] = NoBuf
         /\ buf[b].ref # 1 => /\ buf'[b].ref = buf[b].ref - 1 /\ buf'[b].fd = fd
                              /\ buf'[b].dev = buf[b].dev
<1>1. buf \in [Procs -> DmaBuf] /\ buf[b] \in DmaBuf
  BY DEF LifeType
<1>2. buf[b].ref \in Nat /\ buf[b].dev \in Devs \cup {NoDev}
  BY <1>1 DEF DmaBuf
<1> DEFINE x == IF buf[b].ref = 1 THEN NoBuf
                ELSE [buf[b] EXCEPT !.ref = buf[b].ref - 1, !.fd = fd]
<1>3. buf' = [buf EXCEPT ![b] = x]
  BY DEF dma_buf_put
<1>4. x \in DmaBuf
  <2>1. CASE buf[b].ref = 1
    BY <2>1 DEF DmaBuf, NoBuf
  <2>2. CASE buf[b].ref # 1
    <3>1. buf[b].ref - 1 \in Nat
      BY <1>2, SMT
    <3>2. x = [buf[b] EXCEPT !.ref = buf[b].ref - 1, !.fd = fd]
      BY <2>2
    <3> HIDE DEF x
    <3> QED BY <1>1, <3>1, <3>2 DEF DmaBuf
  <2> QED BY <2>1, <2>2
<1>5. /\ buf[b].ref = 1 => x = NoBuf
      /\ buf[b].ref # 1 => x.ref = buf[b].ref - 1 /\ x.fd = fd /\ x.dev = buf[b].dev
  BY <1>1 DEF DmaBuf
<1> HIDE DEF x
<1>6. buf'[b] = x /\ buf' \in [Procs -> DmaBuf] /\ \A q \in Procs \ {b} : buf'[q] = buf[q]
  BY <1>1, <1>3, <1>4
<1> QED BY <1>2, <1>5, <1>6

\* The count of the dma-buf is right again.
LEMMA PutCount ==
  ASSUME LifeType, NEW p \in Procs, NEW b \in Procs, NEW fd, Lets(p, b, fd), BufInv(b),
         buf[b].ref # 0, dma_buf_put(b, fd)
  PROVE  BufInv(b)'
<1>0. /\ fd \in BOOLEAN /\ ~(fd /\ proc'[b].pc = "e_fd") /\ kbuf_ndevices' = kbuf_ndevices
      /\ One(fd) + One(proc'[b].pc = "e_fd") + Cardinality(Importing(b)') = buf[b].ref - 1
  BY DEF Lets, modVars
<1>1. /\ buf[b].ref \in Nat
      /\ buf[b].ref = 1 => buf'[b] = NoBuf
      /\ buf[b].ref # 1 => /\ buf'[b].ref = buf[b].ref - 1 /\ buf'[b].fd = fd
                           /\ buf'[b].dev = buf[b].dev
  BY <1>0, PutRecord
<1>2. buf[b].dev \in Dynamic \cup 0..(kbuf_ndevices - 1)
  BY DEF BufInv
<1>3. Importing(b)' \in SUBSET Procs
  BY DEF Importing
<1>4. Cardinality(Importing(b)') \in Nat
  BY <1>3, Count
<1> DEFINE n == Cardinality(Importing(b)')
<1>5. CASE buf[b].ref = 1
  <2>1. buf'[b] = NoBuf /\ buf'[b].ref = 0 /\ buf'[b].fd = FALSE
    BY <1>1, <1>5, SMT DEF NoBuf
  <2>2. n = 0 /\ proc'[b].pc # "e_fd"
    <3>1. n \in Nat /\ One(fd) + One(proc'[b].pc = "e_fd") + n = 0
      BY <1>0, <1>4, <1>5, SMT
    <3> HIDE DEF n
    <3>2. One(fd) \in Nat /\ One(proc'[b].pc = "e_fd") \in Nat
      BY SMT DEF One
    <3>3. n = 0 /\ One(proc'[b].pc = "e_fd") = 0
      BY <3>1, <3>2, SMT
    <3> QED BY <3>3, SMT DEF One
  <2> HIDE DEF n
  <2>3. buf'[b].ref = One(buf'[b].fd) + One(proc'[b].pc = "e_fd") + n
    BY <2>1, <2>2, SMT DEF One
  <2> QED BY <2>1, <2>3 DEF BufInv, n
<1>6. CASE buf[b].ref # 1
  <2>1. buf'[b].ref = buf[b].ref - 1 /\ buf'[b].fd = fd /\ buf'[b].dev = buf[b].dev
    BY <1>1, <1>6
  <2>2. buf'[b].ref = One(buf'[b].fd) + One(proc'[b].pc = "e_fd") + n
    BY <1>0, <2>1
  <2>3. buf'[b].ref # 0
    BY <1>1, <1>6, <2>1, SMT
  <2> QED BY <1>0, <1>2, <2>1, <2>2, <2>3 DEF BufInv
<1> QED BY <1>5, <1>6

\* dma_buf_put: one reference less, with the last the reference to the device.
LEMMA BufPut ==
  ASSUME LifeInv, NEW p \in Procs, NEW b \in Procs, NEW fd, load.pc = "live",
         Lets(p, b, fd), ProcInv(p)', NEW d, d = buf[b].dev, buf[b].ref # 0,
         dma_buf_put(b, fd)
  PROVE  LifeInv'
<1>0. LifeType /\ BufInv(b) /\ ProcInv(b) /\ b \in Procs
  BY DEF LifeInv
<1>1. /\ proc' \in [Procs -> Thread] /\ \A q \in Procs \ {p} : proc'[q] = proc[q]
      /\ Apart(p) /\ proc'[p].file = proc[p].file /\ proc'[p].icdev = proc[p].icdev
      /\ \A e : p \in Exporting(e)' <=> p \in Exporting(e)
      /\ \A c \in Procs \ {b} : proc'[p].import = c <=> proc[p].import = c
      /\ p # b => (proc'[p].pc = "e_fd" <=> proc[p].pc = "e_fd")
      /\ fd \in BOOLEAN
      /\ UNCHANGED <<kbuf_dyn_list, created, modVars>>
  BY DEF Lets
<1>2. /\ buf' \in [Procs -> DmaBuf] /\ \A q \in Procs \ {b} : buf'[q] = buf[q]
      /\ buf[b].ref \in Nat
      /\ buf[b].ref = 1 => buf'[b] = NoBuf
      /\ buf[b].ref # 1 => buf'[b].ref = buf[b].ref - 1 /\ buf'[b].dev = buf[b].dev
  BY <1>0, <1>1, PutRecord
<1>3. BufInv(b)'
  BY <1>0, PutCount
<1>4. d \in Devs /\ b \in Exported(d)
  <2>1. d \in Dynamic \cup 0..(kbuf_ndevices - 1)
    BY <1>0 DEF BufInv
  <2>2. 0..(kbuf_ndevices - 1) \subseteq Static
    BY <1>0, LifeAssumption, SMT DEF Static, LifeType
  <2>3. buf[b].ref > 0
    BY <1>2, SMT
  <2> QED BY <2>1, <2>2, <2>3 DEF Exported, Devs
<1>5. \A q \in Procs : proc[q].pc \in {"e_get", "e_export"} => buf'[q] = buf[q] \/ q = p
  <2>1. proc[b].pc \notin {"e_get", "e_export"}
    <3>1. NoBuf.ref = 0
      BY SMT DEF NoBuf
    <3>2. proc[b].pc \in {"e_get", "e_export"} => buf[b] = NoBuf
      BY <1>0 DEF ProcInv
    <3> QED BY <3>1, <3>2
  <2> QED BY <1>2, <2>1
<1>6. Inodes(d)' = Inodes(d) /\ (p \in Opened(d)' <=> p \in Opened(d))
  BY <1>1 DEF Inodes, Opened
<1>7. SameElsewhere(p, b, d)
  <2>1. buf'[b].dev = d \/ buf'[b].ref = 0
    BY <1>2, SMT DEF NoBuf
  <2>2. \A e \in Dynamic \ {d} : b \notin Exported(e) /\ b \notin Exported(e)'
    BY <2>1, SMT DEF Exported
  <2> QED BY <1>1, <2>2 DEF SameElsewhere
<1>8. CASE d \in Dynamic /\ buf[b].ref = 1
  <2>1. obj[d].ref > 0 /\ Creating(d) = {}
    BY <1>4, <1>8, HasUser
  <2>2. kref_put(d)
    BY <1>8 DEF dma_buf_put, kbuf_dmabuf_release, PutIfDynamic
  <2>3. Drops(d)
    BY <1>0, <1>4, <2>1, <2>2, KrefPut
  <2>4. Uses(p, b, d)
    <3>1. \A e \in Devs \ {d} : obj'[e] = obj[e]
      BY <2>3 DEF Drops, Becomes
    <3> QED BY <1>1, <1>2, <3>1 DEF Uses
  <2>5. Holders(d)' = Holders(d) - 1
    <3>1. b \notin Exported(d)'
      BY <1>2, <1>8, SMT DEF Exported, NoBuf
    <3>2. p \in Exporting(d)' <=> p \in Exporting(d)
      BY <1>1
    <3> QED BY <1>4, <1>6, <2>4, <3>1, <3>2, UserCounts, SMT DEF One
  <2>6. /\ DynInv(d)' /\ \A k \in Ids : MinorInv(k)'
        /\ obj' \in [Devs -> Object] /\ kbuf_dyn_ida' \subseteq Ids
        /\ obj'[d].minor_off = obj[d].minor_off
    BY <1>6, <1>8, <2>1, <2>3, <2>4, <2>5, UseDrop
  <2>7. d \notin Static
    BY <1>8, LifeAssumption, SMT DEF Static, Dynamic
  <2> QED BY <1>1, <1>2, <1>3, <1>5, <1>7, <2>4, <2>6, <2>7, UseInv
<1>9. CASE ~(d \in Dynamic /\ buf[b].ref = 1)
  <2>1. obj' = obj /\ kbuf_dyn_ida' = kbuf_dyn_ida
    BY <1>9 DEF dma_buf_put, kbuf_dmabuf_release, PutIfDynamic
  <2>2. Uses(p, b, d)
    BY <1>1, <1>2, <2>1 DEF Uses
  <2>3. d \in Dynamic => Holders(d)' = Holders(d)
    <3> SUFFICES ASSUME d \in Dynamic PROVE Holders(d)' = Holders(d)
      OBVIOUS
    <3>1. b \in Exported(d)'
      BY <1>2, <1>9, SMT DEF Exported
    <3>2. p \in Exporting(d)' <=> p \in Exporting(d)
      BY <1>1
    <3> QED BY <1>4, <1>6, <2>2, <3>1, <3>2, UserCounts, SMT DEF One
  <2>4. /\ d \in Dynamic => DynInv(d)'
        /\ d \in Static => StaticInv(d)'
        /\ \A m \in Ids : MinorInv(m)'
        /\ obj' \in [Devs -> Object] /\ kbuf_dyn_ida' \subseteq Ids
        /\ obj'[d].minor_off = obj[d].minor_off
    BY <1>4, <1>6, <2>1, <2>2, <2>3, UseSame
  <2> QED BY <1>1, <1>2, <1>3, <1>5, <1>7, <2>2, <2>4, UseInv
<1> QED BY <1>8, <1>9

\* The dma-buf of b is now of dev, with ref references and a descriptor if fd.
NowBuf(b, dev, ref, fd) ==
  /\ buf'[b].dev = dev /\ buf'[b].ref = ref /\ buf'[b].fd = fd
  /\ \A q \in Procs \ {b} : buf'[q] = buf[q]
  /\ buf' \in [Procs -> DmaBuf]

\* The end of EXPORT and the close of a dma-buf.
LEMMA CloseSteps ==
  \A p \in Procs :
    /\ LifeInv
    /\ kbuf_dmabuf_export_fd(p) \/ kbuf_ioc_export_user(p) \/ close_dmabuf(p)
    => LifeInv'
\* No minor changes with it.
<1>PutMinor.
      ASSUME LifeInv, NEW b \in Procs, NEW fd, NEW d, d = buf[b].dev, buf[b].ref # 0,
             dma_buf_put(b, fd)
      PROVE  \A e \in Devs : obj'[e].minor_off = obj[e].minor_off
  <2> USE <1>PutMinor
  <2>0. LifeType
    BY DEF LifeInv
  <2>1. CASE d \in Dynamic /\ buf[b].ref = 1
    <3>1. kref_put(d) /\ d \in Devs
      BY <2>1 DEF dma_buf_put, kbuf_dmabuf_release, PutIfDynamic, Devs
    <3>2. b \in Exported(d)
      BY <2>1, SMT DEF Exported
    <3>3. obj[d].ref > 0
      BY <2>1, <3>2, HasUser
    <3>4. Drops(d)
      BY <2>0, <3>1, <3>3, KrefPut
    <3>5. obj'[d].minor_off = obj[d].minor_off
      BY <3>4 DEF Drops, Becomes
    <3>6. \A e \in Devs \ {d} : obj'[e] = obj[e]
      BY <3>4 DEF Drops, Becomes
    <3> QED BY <3>5, <3>6
  <2>2. CASE ~(d \in Dynamic /\ buf[b].ref = 1)
    <3>1. obj' = obj
      BY <2>2 DEF dma_buf_put, kbuf_dmabuf_release, PutIfDynamic
    <3> QED BY <3>1
  <2> QED BY <2>1, <2>2

\* The reference goes from the EXPORT to the descriptor.
<1>ExportInstalls.
      ASSUME LifeInv, NEW p \in Procs, load.pc = "live", proc[p].pc = "e_fd",
             Goes(p, "e_user"), NEW d, d = buf[p].dev, NowBuf(p, d, buf[p].ref, TRUE),
             UNCHANGED <<obj, dynVars, modVars>>
      PROVE  LifeInv'
  <2> USE <1>ExportInstalls
  <2>0. LifeType /\ ProcInv(p) /\ BufInv(p)
    BY DEF LifeInv
  <2>1. /\ proc'[p].pc = "e_user" /\ proc'[p].dev = proc[p].dev /\ proc'[p].id = proc[p].id
        /\ proc'[p].file = proc[p].file /\ proc'[p].icdev = proc[p].icdev
        /\ proc'[p].import = proc[p].import /\ proc'[p].held = proc[p].held
        /\ \A q \in Procs \ {p} : proc'[q] = proc[q]
    BY DEF Goes, Now
  <2>2. proc' \in [Procs -> Thread]
    <3>1. /\ {proc[p].dev, proc[p].file, proc[p].icdev} \subseteq Devs \cup {NoDev}
          /\ proc[p].import \in Procs \cup {NoProc} /\ proc[p].held \subseteq Steps
          /\ proc[p].id \in Nat
      BY <2>0, ProcRecord
    <3>2. "e_user" \in ProcPc
      BY DEF ProcPc, ExportPc
    <3> QED BY <3>1, <3>2 DEF Goes, Now
  <2>3. /\ proc[p].file # NoDev /\ proc[p].icdev # NoDev /\ proc[p].import = NoProc
        /\ proc[p].held = {}
        /\ proc[p].file \in Static => proc[p].file < kbuf_ndevices
        /\ proc[p].icdev \in Static => proc[p].icdev < kbuf_ndevices
    BY <2>0 DEF ProcInv, ImportPc, ExportPc
  <2>4. ProcInv(p)'
    BY <2>1, <2>3 DEF ProcInv, CtlPc, ImportPc, ExportPc, CreatePc, DestroyPc, modVars
  <2>5. /\ buf'[p].dev = d /\ buf'[p].ref = buf[p].ref /\ buf'[p].fd = TRUE
        /\ \A q \in Procs \ {p} : buf'[q] = buf[q]
        /\ buf' \in [Procs -> DmaBuf] /\ buf[p].ref \in Nat
    BY <2>0 DEF LifeType, DmaBuf, NowBuf
  <2>6. /\ buf[p].fd = FALSE /\ Cardinality(Importing(p)) \in Nat
        /\ buf[p].ref = 1 + Cardinality(Importing(p))
    <3>1. Importing(p) \in SUBSET Procs
      BY DEF Importing
    <3>2. Cardinality(Importing(p)) \in Nat
      BY <3>1, Count
    <3>3. buf[p].fd = FALSE
      <4>1. buf[p].fd \in BOOLEAN
        BY <2>0 DEF LifeType, DmaBuf
      <4> QED BY <2>0, <4>1 DEF BufInv
    <3>4. buf[p].ref = One(buf[p].fd) + One(proc[p].pc = "e_fd") + Cardinality(Importing(p))
      BY <2>0 DEF BufInv
    <3> QED BY <3>2, <3>3, <3>4, SMT DEF One
  <2>7. d \in Dynamic \cup 0..(kbuf_ndevices - 1)
    <3>1. buf[p].ref # 0
      BY <2>6, SMT
    <3> QED BY <2>0, <3>1 DEF BufInv
  <2>8. d \in Devs /\ p \in Exported(d) /\ p \in Exported(d)'
    <3>1. 0..(kbuf_ndevices - 1) \subseteq Static
      BY <2>0, LifeAssumption, SMT DEF Static, LifeType
    <3>2. buf[p].ref > 0
      BY <2>5, <2>6, SMT
    <3> QED BY <2>5, <2>7, <3>1, <3>2 DEF Exported, Devs
  <2>9. Uses(p, p, d)
    <3>1. "e_user" \in UserPc /\ "e_fd" \in UserPc
      BY DEF UserPc, ProcPc, ExportPc, CreatePc, DestroyPc
    <3> QED BY <2>1, <2>5, <3>1 DEF Uses, Apart, dynVars
  <2>10. BufInv(p)'
    <3>1. Importing(p)' = Importing(p)
      BY <2>1 DEF Importing
    <3>2. Cardinality(Importing(p)') = Cardinality(Importing(p))
      BY <3>1
    <3>3. buf'[p].ref = One(buf'[p].fd) + One(proc'[p].pc = "e_fd") + Cardinality(Importing(p)')
      BY <2>1, <2>5, <2>6, <3>2, SMT DEF One
    <3>4. proc'[p].pc # "e_fd" /\ buf'[p].ref # 0
      BY <2>1, <2>5, <2>6, SMT
    <3>5. kbuf_ndevices' = kbuf_ndevices
      BY DEF modVars
    <3> QED BY <2>5, <2>7, <3>3, <3>4, <3>5 DEF BufInv
  <2>11. Inodes(d)' = Inodes(d)
    BY <2>1 DEF Inodes
  <2>12. \A e : /\ p \in Exporting(e)' <=> p \in Exporting(e)
                /\ p \in Opened(e)' <=> p \in Opened(e)
                /\ p \in Exported(e)' <=> p \in Exported(e)
    <3>1. \A e : p \notin Exporting(e)' /\ p \notin Exporting(e)
      BY <2>1 DEF Exporting
    <3>2. \A e : p \in Opened(e)' <=> p \in Opened(e)
      BY <2>1 DEF Opened
    <3>3. \A e : p \in Exported(e)' <=> p \in Exported(e)
      BY <2>5 DEF Exported
    <3> QED BY <3>1, <3>2, <3>3
  <2>13. Holders(d)' = Holders(d)
    BY <2>9, <2>12, UserCounts, SMT DEF One
  <2>14. SameElsewhere(p, p, d)
    BY <2>1, <2>12 DEF SameElsewhere
  <2>15. /\ d \in Dynamic => DynInv(d)'
         /\ d \in Static => StaticInv(d)'
         /\ \A m \in Ids : MinorInv(m)'
         /\ obj' \in [Devs -> Object] /\ kbuf_dyn_ida' \subseteq Ids
         /\ obj'[d].minor_off = obj[d].minor_off
    BY <2>8, <2>9, <2>11, <2>13, UseSame DEF dynVars
  <2>16. \A q \in Procs : proc[q].pc \in {"e_get", "e_export"} => buf'[q] = buf[q] \/ q = p
    BY <2>5
  <2> QED BY <2>1, <2>2, <2>4, <2>5, <2>9, <2>10, <2>14, <2>15, <2>16, UseInv

\* An ioctl that ends and drops a reference to the thread's own dma-buf, which
\* nothing but that reference and IMPORTs were counted in.
<1>OwnPut.
      ASSUME LifeInv, NEW p \in Procs, load.pc = "live", proc[p].pc \in {"e_fd", "e_user"},
             Returns(p), buf[p].fd \/ proc[p].pc = "e_fd", dma_buf_put(p, FALSE),
             UNCHANGED <<kbuf_dyn_list, created, modVars>>
      PROVE  LifeInv'
  <2> USE <1>OwnPut
  <2>0. LifeType /\ ProcInv(p) /\ BufInv(p)
    BY DEF LifeInv
  <2>1. /\ proc'[p].pc = "idle" /\ proc'[p].dev = NoDev /\ proc'[p].id = 0
        /\ proc'[p].file = proc[p].file /\ proc'[p].icdev = proc[p].icdev
        /\ proc'[p].import = NoProc /\ proc'[p].held = {}
        /\ \A q \in Procs \ {p} : proc'[q] = proc[q]
    BY DEF Returns, Now
  <2>2. proc' \in [Procs -> Thread]
    BY <2>0, ReturnsType
  <2>3. /\ proc[p].file # NoDev /\ proc[p].icdev # NoDev /\ proc[p].import = NoProc
        /\ proc[p].file \in Static => proc[p].file < kbuf_ndevices
        /\ proc[p].icdev \in Static => proc[p].icdev < kbuf_ndevices
    <3>1. proc[p].pc \in ExportPc /\ proc[p].pc \notin ImportPc
      BY DEF ExportPc, ImportPc
    <3> QED BY <2>0, <3>1 DEF ProcInv
  <2>4. ProcInv(p)'
    BY <2>1, <2>3 DEF ProcInv, CtlPc, ImportPc, ExportPc, CreatePc, DestroyPc, modVars
  <2>5. Importing(p)' = Importing(p) /\ Importing(p) \in SUBSET Procs
    <3>1. proc'[p].import = proc[p].import
      BY <2>1, <2>3
    <3>2. \A q \in Procs : proc'[q].import = proc[q].import
      BY <2>1, <3>1
    <3> QED BY <3>2 DEF Importing
  <2>6. /\ Cardinality(Importing(p)') = buf[p].ref - 1 /\ buf[p].ref # 0
    <3>1. Cardinality(Importing(p)) \in Nat /\ Cardinality(Importing(p)') = Cardinality(Importing(p))
      BY <2>5, Count
    <3>2. buf[p].fd \in BOOLEAN
      BY <2>0 DEF LifeType, DmaBuf
    <3>3. buf[p].ref = One(buf[p].fd) + One(proc[p].pc = "e_fd") + Cardinality(Importing(p))
      BY <2>0 DEF BufInv
    <3>4. ~(buf[p].fd /\ proc[p].pc = "e_fd")
      BY <2>0 DEF BufInv
    <3> DEFINE n == Cardinality(Importing(p))
    <3>5. \/ One(buf[p].fd) = 0 /\ One(proc[p].pc = "e_fd") = 1
          \/ One(buf[p].fd) = 1 /\ One(proc[p].pc = "e_fd") = 0
      BY <3>2, <3>4 DEF One
    <3>6. (buf[p].ref = 0 + 1 + n \/ buf[p].ref = 1 + 0 + n) /\ n \in Nat
          /\ Cardinality(Importing(p)') = n
      BY <3>1, <3>3, <3>5
    <3> HIDE DEF n
    <3> QED BY <3>6, SMT
  <2>7. Lets(p, p, FALSE)
    <3>1. One(FALSE) + One(proc'[p].pc = "e_fd") + Cardinality(Importing(p)') = buf[p].ref - 1
      <4>1. Cardinality(Importing(p)') \in Nat
        BY <2>5, Count
      <4> QED BY <2>1, <2>6, <4>1, SMT DEF One
    <3>2. Apart(p)
      BY <2>1 DEF Apart, UserPc, ProcPc, ExportPc, CreatePc, DestroyPc
    <3>3. \A e : p \in Exporting(e)' <=> p \in Exporting(e)
      BY <2>1 DEF Exporting
    <3> QED BY <2>1, <2>2, <2>3, <3>1, <3>2, <3>3 DEF Lets
  <2> DEFINE d == buf[p].dev
  <2>8. d = buf[p].dev
    OBVIOUS
  <2> HIDE DEF d
  <2> QED BY <2>4, <2>6, <2>7, <2>8, BufPut

\* kbuf_dmabuf_export from dma_buf_fd on.
<1>ExportFd.
      ASSUME LifeInv, NEW p \in Procs, kbuf_dmabuf_export_fd(p)
      PROVE  LifeInv'
  <2> USE <1>ExportFd
  <2>0. /\ LifeType /\ load.pc = "live" /\ proc[p].pc = "e_fd"
        /\ UNCHANGED <<kbuf_dyn_list, created, modVars>>
    BY Live DEF kbuf_dmabuf_export_fd, LifeInv
  <2>1. CASE /\ buf' = [buf EXCEPT ![p].fd = TRUE]
             /\ proc' = [proc EXCEPT ![p].pc = "e_user"]
             /\ UNCHANGED <<obj, kbuf_dyn_ida>>
    <3> DEFINE d == buf[p].dev
    <3>1. Goes(p, "e_user") /\ UNCHANGED <<obj, dynVars, modVars>>
      BY <2>0, <2>1, GoesEffect DEF dynVars
    <3>2. NowBuf(p, d, buf[p].ref, TRUE) /\ d = buf[p].dev
      BY <2>0, <2>1 DEF NowBuf, LifeType, DmaBuf
    <3> HIDE DEF d
    <3> QED BY <2>0, <3>1, <3>2, <1>ExportInstalls
  <2>2. CASE dma_buf_put(p, FALSE) /\ proc' = Return(p)
    <3>1. Returns(p)
      BY <2>0, <2>2, ReturnEffect
    <3>2. proc[p].pc \in {"e_fd", "e_user"} /\ (buf[p].fd \/ proc[p].pc = "e_fd")
      BY <2>0
    <3> QED BY <2>0, <2>2, <3>1, <3>2, <1>OwnPut
  <2> QED BY <2>1, <2>2 DEF kbuf_dmabuf_export_fd

\* KBUF_IOCEXPORT from put_user on.
<1>ExportUser.
      ASSUME LifeInv, NEW p \in Procs, kbuf_ioc_export_user(p)
      PROVE  LifeInv'
  <2> USE <1>ExportUser
  <2>0. /\ LifeType /\ load.pc = "live" /\ proc[p].pc = "e_user" /\ proc' = Return(p)
        /\ UNCHANGED <<kbuf_dyn_list, created, modVars>>
    BY Live DEF kbuf_ioc_export_user, LifeInv
  <2>1. CASE UNCHANGED <<obj, kbuf_dyn_ida, buf>>
    <3>1. UNCHANGED <<obj, dynVars, buf, modVars>>
      BY <2>0, <2>1 DEF dynVars
    <3>2. proc[p].pc \in {"idle", "user", "opened", "e_user"}
      BY <2>0
    <3> QED BY <2>0, <3>1, <3>2, CallEnds
  <2>2. CASE buf[p].fd /\ dma_buf_put(p, FALSE)
    <3>1. Returns(p)
      BY <2>0, ReturnEffect
    <3>2. proc[p].pc \in {"e_fd", "e_user"} /\ (buf[p].fd \/ proc[p].pc = "e_fd")
      BY <2>0, <2>2
    <3> QED BY <2>0, <2>2, <3>1, <3>2, <1>OwnPut
  <2> QED BY <2>1, <2>2 DEF kbuf_ioc_export_user

\* The descriptor is closed.
<1>CloseDmabuf.
      ASSUME LifeInv, NEW b \in Procs, close_dmabuf(b)
      PROVE  LifeInv'
  <2> USE <1>CloseDmabuf
  <2>0. /\ LifeType /\ ProcInv(b) /\ BufInv(b) /\ load.pc = "live" /\ buf[b].fd
        /\ dma_buf_put(b, FALSE) /\ proc' = proc /\ proc' \in [Procs -> Thread]
        /\ UNCHANGED <<kbuf_dyn_list, created, modVars>>
    BY Live DEF close_dmabuf, LifeInv, LifeType
  <2>1. Importing(b)' = Importing(b) /\ Importing(b) \in SUBSET Procs
    BY <2>0 DEF Importing
  <2>2. /\ One(FALSE) + One(proc'[b].pc = "e_fd") + Cardinality(Importing(b)') = buf[b].ref - 1
        /\ buf[b].ref # 0
    <3>1. Cardinality(Importing(b)) \in Nat /\ Cardinality(Importing(b)') = Cardinality(Importing(b))
      BY <2>1, Count
    <3>2. /\ buf[b].ref = One(buf[b].fd) + One(proc[b].pc = "e_fd") + Cardinality(Importing(b))
          /\ proc[b].pc # "e_fd" /\ proc'[b].pc # "e_fd"
      BY <2>0 DEF BufInv
    <3> QED BY <2>0, <3>1, <3>2, SMT DEF One
  <2>3. Lets(b, b, FALSE)
    <3>1. \A e : b \in Exporting(e)' <=> b \in Exporting(e)
      BY <2>0 DEF Exporting
    <3>2. Apart(b) /\ proc'[b].file = proc[b].file /\ proc'[b].icdev = proc[b].icdev
      BY <2>0 DEF Apart
    <3>3. \A c \in Procs \ {b} : proc'[b].import = c <=> proc[b].import = c
      BY <2>0
    <3> QED BY <2>0, <2>2, <3>1, <3>2, <3>3 DEF Lets
  <2> DEFINE d == buf[b].dev
  <2>5. d = buf[b].dev
    OBVIOUS
  <2> HIDE DEF d
  <2>4. ProcInv(b)'
    <3>1. proc[b].pc \notin {"e_get", "e_export"}
      <4>1. NoBuf.ref = 0
        BY SMT DEF NoBuf
      <4>2. proc[b].pc \in {"e_get", "e_export"} => buf[b] = NoBuf
        BY <2>0 DEF ProcInv
      <4> QED BY <2>2, <4>1, <4>2
    <3>2. \A e \in Devs : obj'[e].minor_off = obj[e].minor_off
      BY <2>0, <2>2, <2>5, <1>PutMinor
    <3>3. proc[b].pc \in CreatePc => proc[b].dev \in Devs
      BY <2>0 DEF ProcInv, Devs
    <3>4. proc[b].pc \in CreatePc => obj'[proc[b].dev].minor_off = obj[proc[b].dev].minor_off
      BY <3>2, <3>3
    <3> QED BY <2>0, <3>1, <3>4 DEF ProcInv, modVars
  <2> QED BY <2>0, <2>2, <2>3, <2>4, <2>5, BufPut

<1> QED BY <1>ExportFd, <1>ExportUser, <1>CloseDmabuf

-----------------------------------------------------------------------------
(* IMPORT.                                                                 *)

\* The steps of IMPORT.
LEMMA ImportSteps ==
  \A p \in Procs :
    /\ LifeInv
    /\ \/ \E b \in Procs : kbuf_ioc_import(p, b)
       \/ kbuf_dmabuf_import_acquire(p) \/ kbuf_dmabuf_import_end(p)
    => LifeInv'
\* An IMPORT that ends having let go of all it held.
<1>EndEffect.
      ASSUME LifeType, NEW p \in Procs, proc' = [Return(p) EXCEPT ![p].held = {}]
      PROVE  Returns(p)
  <2> USE <1>EndEffect
  <2> DEFINE t == [pc |-> "idle", dev |-> NoDev, id |-> 0, file |-> proc[p].file,
                   icdev |-> proc[p].icdev, import |-> NoProc, held |-> {}]
             R == Return(p)
  <2>1. R = [proc EXCEPT ![p] = t]
    BY ReturnRecord
  <2>2. proc' = [R EXCEPT ![p] = [R[p] EXCEPT !.held = {}]]
    BY SMT
  <2>3. [t EXCEPT !.held = {}] = t
    BY SMT
  <2> HIDE DEF R, t
  <2>4. R[p] = t
    BY <2>1, ProcRecord
  <2>5. proc' = [proc EXCEPT ![p] = t]
    BY <2>1, <2>2, <2>3, <2>4, ProcRecord
  <2> QED BY <2>5, NowRecord DEF Returns, t

\* IMPORT acquires one more thing.
<1>ImportAcquires.
      ASSUME LifeInv, NEW p \in Procs, kbuf_dmabuf_import_acquire(p)
      PROVE  LifeInv'
  <2> USE <1>ImportAcquires
  <2> DEFINE l == CASE proc[p].pc = "attach" -> "sgt" [] proc[p].pc = "sgt" -> "table"
                    [] proc[p].pc = "table" -> "map" [] OTHER -> "vmap"
             h == proc[p].held \cup {proc[p].pc}
  <2>0. LifeType /\ ProcInv(p) /\ load.pc = "live" /\ proc[p].pc \in {"attach", "sgt", "table", "map"}
        /\ UNCHANGED <<obj, dynVars, buf, modVars>>
    BY Live DEF LifeInv, kbuf_dmabuf_import_acquire, ImportPc
  <2>a. proc' = [proc EXCEPT ![p].held = h, ![p].pc = l]
    BY DEF kbuf_dmabuf_import_acquire
  <2>b. l \in ImportPc /\ l # "attach"
    BY DEF ImportPc
  <2>c. proc[p].held = ImportHeld[proc[p].pc] /\ proc[p].import \in Procs
    BY <2>0 DEF ProcInv, ImportPc
  <2>d. h = ImportHeld[l] /\ h \subseteq Steps
    BY <2>0, <2>c, SMT DEF ImportHeld, Steps, ImportPc
  <2> HIDE DEF l, h
  <2>1. Now(p, l, proc[p].dev, proc[p].id, proc[p].file, proc[p].icdev, proc[p].import, h)
    BY <2>0, <2>a, AcquireEffect
  <2>2. proc' \in [Procs -> Thread]
    BY <2>0, <2>1, <2>b, <2>d, ProcRecord DEF Now, ProcPc
  <2>3. proc[p].pc \in OutsidePc /\ proc'[p].pc \in OutsidePc
    BY <2>0, <2>1, <2>b DEF Now, OutsidePc, ProcPc, CreatePc, DestroyPc, ImportPc
  <2>4. ProcInv(p)'
    BY <2>0, <2>1, <2>b, <2>c, <2>d DEF ProcInv, Now, CtlPc, ImportPc, ExportPc, CreatePc,
       DestroyPc, modVars
  <2> QED BY <2>0, <2>1, <2>2, <2>3, <2>4, Quiet DEF Now

\* dma_buf_get: an IMPORT takes a reference to a dma-buf with a descriptor.
<1>ImportGets.
      ASSUME LifeInv, NEW p \in Procs, NEW b \in Procs, load.pc = "live", proc[p].pc = "idle",
             proc[p].file # NoDev, NEW d, d = buf[b].dev, buf[b].fd,
             NowBuf(b, d, buf[b].ref + 1, buf[b].fd),
             Now(p, "attach", proc[p].dev, proc[p].id, proc[p].file, proc[p].icdev, b, {"ref"}),
             UNCHANGED <<obj, dynVars, modVars>>
      PROVE  LifeInv'
  <2> USE <1>ImportGets
  <2>0. LifeType /\ ProcInv(p) /\ BufInv(b) /\ ProcInv(b)
    BY DEF LifeInv
  <2>1. /\ proc'[p].pc = "attach" /\ proc'[p].dev = proc[p].dev /\ proc'[p].id = proc[p].id
        /\ proc'[p].file = proc[p].file /\ proc'[p].icdev = proc[p].icdev
        /\ proc'[p].import = b /\ proc'[p].held = {"ref"}
        /\ \A q \in Procs \ {p} : proc'[q] = proc[q]
    BY DEF Now
  <2>2. proc' \in [Procs -> Thread]
    <3>1. /\ {proc[p].dev, proc[p].file, proc[p].icdev} \subseteq Devs \cup {NoDev}
          /\ proc[p].id \in Nat
      BY <2>0, ProcRecord
    <3>2. "attach" \in ProcPc /\ {"ref"} \subseteq Steps
      BY DEF ProcPc, ImportPc, Steps
    <3> QED BY <3>1, <3>2 DEF Now
  <2>3. /\ proc[p].icdev # NoDev /\ proc[p].import = NoProc
        /\ proc[p].file \in Static => proc[p].file < kbuf_ndevices
        /\ proc[p].icdev \in Static => proc[p].icdev < kbuf_ndevices
    BY <2>0 DEF ProcInv, ImportPc
  <2>4. ProcInv(p)'
    <3>1. ImportHeld["attach"] = {"ref"}
      BY DEF ImportHeld
    <3> QED BY <2>1, <2>3, <3>1 DEF ProcInv, CtlPc, ImportPc, ExportPc, CreatePc, DestroyPc,
               modVars
  <2>5. /\ buf'[b].dev = d /\ buf'[b].ref = buf[b].ref + 1 /\ buf'[b].fd = buf[b].fd
        /\ \A q \in Procs \ {b} : buf'[q] = buf[q]
        /\ buf' \in [Procs -> DmaBuf]
    BY DEF NowBuf
  <2>6. /\ buf[b].ref = One(buf[b].fd) + One(proc[b].pc = "e_fd") + Cardinality(Importing(b))
        /\ proc[b].pc # "e_fd"
    BY <2>0 DEF BufInv
  <2>7. /\ buf[b].ref \in Nat /\ buf[b].ref > 0 /\ Cardinality(Importing(b)) \in Nat
        /\ buf[b].ref = 1 + Cardinality(Importing(b))
    <3>1. Importing(b) \in SUBSET Procs
      BY DEF Importing
    <3>2. Cardinality(Importing(b)) \in Nat
      BY <3>1, Count
    <3> QED BY <2>6, <3>2, SMT DEF One
  <2>8. d \in Dynamic \cup 0..(kbuf_ndevices - 1)
    <3>1. buf[b].ref # 0
      BY <2>7, SMT
    <3> QED BY <2>0, <3>1 DEF BufInv
  <2>9. d \in Devs /\ b \in Exported(d) /\ b \in Exported(d)'
    <3>1. 0..(kbuf_ndevices - 1) \subseteq Static
      BY <2>0, LifeAssumption, SMT DEF Static, LifeType
    <3>2. buf'[b].ref > 0
      BY <2>5, <2>7, SMT
    <3> QED BY <2>5, <2>7, <2>8, <3>1, <3>2 DEF Exported, Devs
  <2>10. Uses(p, b, d)
    <3>1. "idle" \in UserPc /\ "attach" \in UserPc
      BY DEF UserPc, ProcPc, ImportPc, CreatePc, DestroyPc
    <3> QED BY <2>1, <2>5, <3>1 DEF Uses, Apart, dynVars
  <2>11. BufInv(b)'
    <3>1. p \in Importing(b)' /\ p \notin Importing(b)
      BY <2>1, <2>3, LifeAssumption DEF Importing
    <3>2. \A q \in Procs \ {p} : q \in Importing(b)' <=> q \in Importing(b)
      BY <2>1 DEF Importing
    <3>3. Importing(b) \in SUBSET Procs /\ Importing(b)' \in SUBSET Procs
      BY DEF Importing
    <3> DEFINE n == Cardinality(Importing(b)')
    <3>4. n = Cardinality(Importing(b)) + 1
      BY <2>7, <3>1, <3>2, <3>3, CountDelta, SMT DEF One
    <3>5. proc'[b].pc # "e_fd"
      BY <2>1, <2>6
    <3> HIDE DEF n
    <3>6. buf'[b].ref = One(buf'[b].fd) + One(proc'[b].pc = "e_fd") + n
      BY <2>5, <2>7, <3>4, <3>5, SMT DEF One
    <3>7. buf'[b].ref # 0
      BY <2>5, <2>7, SMT
    <3>8. kbuf_ndevices' = kbuf_ndevices
      BY DEF modVars
    <3> QED BY <2>5, <2>8, <3>5, <3>6, <3>7, <3>8 DEF BufInv, n
  <2>12. Inodes(d)' = Inodes(d)
    BY <2>1 DEF Inodes
  <2>13. \A e : /\ p \in Exporting(e)' <=> p \in Exporting(e)
                /\ p \in Opened(e)' <=> p \in Opened(e)
                /\ b \in Exported(e)' <=> b \in Exported(e)
    <3>1. \A e : p \notin Exporting(e)' /\ p \notin Exporting(e)
      BY <2>1 DEF Exporting
    <3>2. \A e : p \in Opened(e)' <=> p \in Opened(e)
      BY <2>1 DEF Opened
    <3>3. \A e : b \in Exported(e)' <=> b \in Exported(e)
      BY <2>5, <2>7, SMT DEF Exported
    <3> QED BY <3>1, <3>2, <3>3
  <2>14. Holders(d)' = Holders(d)
    BY <2>10, <2>13, UserCounts, SMT DEF One
  <2>15. SameElsewhere(p, b, d)
    BY <2>1, <2>13 DEF SameElsewhere
  <2>16. /\ d \in Dynamic => DynInv(d)'
         /\ d \in Static => StaticInv(d)'
         /\ \A m \in Ids : MinorInv(m)'
         /\ obj' \in [Devs -> Object] /\ kbuf_dyn_ida' \subseteq Ids
         /\ obj'[d].minor_off = obj[d].minor_off
    BY <2>9, <2>10, <2>12, <2>14, UseSame DEF dynVars
  <2>17. \A q \in Procs : proc[q].pc \in {"e_get", "e_export"} => buf'[q] = buf[q] \/ q = p
    <3>1. proc[b].pc \notin {"e_get", "e_export"}
      <4>1. ASSUME buf[b] = NoBuf PROVE FALSE
        <5>1. NoBuf.fd = FALSE
          BY DEF NoBuf
        <5> QED BY <4>1, <5>1
      <4> QED BY <2>0, <4>1 DEF ProcInv
    <3> QED BY <2>5, <3>1
  <2>18. \A c \in Procs \ {b} : proc'[p].import = c <=> proc[p].import = c
    BY <2>1, <2>3, LifeAssumption
  <2> QED BY <2>1, <2>2, <2>4, <2>5, <2>10, <2>11, <2>15, <2>16, <2>17, <2>18, UseInv

\* KBUF_IOCIMPORT begins.
<1>ImportBegins.
      ASSUME LifeInv, NEW p \in Procs, NEW b \in Procs, kbuf_ioc_import(p, b)
      PROVE  LifeInv'
  <2> USE <1>ImportBegins
  <2> DEFINE d == buf[b].dev
  <2>0. /\ LifeType /\ load.pc = "live" /\ proc[p].pc = "idle" /\ proc[p].file # NoDev
        /\ buf[b].fd /\ UNCHANGED <<obj, dynVars, modVars>>
    BY Live DEF kbuf_ioc_import, LifeInv
  <2>1. Now(p, "attach", proc[p].dev, proc[p].id, proc[p].file, proc[p].icdev, b, {"ref"})
    BY <2>0, ImportEffect DEF kbuf_ioc_import
  <2>2. NowBuf(b, d, buf[b].ref + 1, buf[b].fd) /\ d = buf[b].dev
    <3>1. buf \in [Procs -> DmaBuf] /\ buf' = [buf EXCEPT ![b].ref = @ + 1]
      BY <2>0 DEF kbuf_ioc_import, LifeType
    <3> QED BY <3>1, SMT DEF NowBuf, DmaBuf
  <2> HIDE DEF d
  <2> QED BY <2>0, <2>1, <2>2, <1>ImportGets

\* An IMPORT ends with the put of its dma-buf.
<1>ImportLets.
      ASSUME LifeInv, NEW p \in Procs, NEW b \in Procs, load.pc = "live",
             proc[p].pc \in ImportPc, b = proc[p].import, Returns(p),
             dma_buf_put(b, buf[b].fd), UNCHANGED <<kbuf_dyn_list, created, modVars>>
      PROVE  LifeInv'
  <2> USE <1>ImportLets
  <2>0. LifeType /\ ProcInv(p) /\ BufInv(b) /\ NoProc \notin Procs
    BY LifeAssumption DEF LifeInv
  <2>1. /\ proc'[p].pc = "idle" /\ proc'[p].dev = NoDev /\ proc'[p].id = 0
        /\ proc'[p].file = proc[p].file /\ proc'[p].icdev = proc[p].icdev
        /\ proc'[p].import = NoProc /\ proc'[p].held = {}
        /\ \A q \in Procs \ {p} : proc'[q] = proc[q]
    BY DEF Returns, Now
  <2>2. proc' \in [Procs -> Thread]
    BY <2>0, ReturnsType
  <2>3. /\ proc[p].file # NoDev /\ proc[p].icdev # NoDev
        /\ proc[p].file \in Static => proc[p].file < kbuf_ndevices
        /\ proc[p].icdev \in Static => proc[p].icdev < kbuf_ndevices
    BY <2>0 DEF ProcInv
  <2>4. ProcInv(p)'
    BY <2>1, <2>3 DEF ProcInv, CtlPc, ImportPc, ExportPc, CreatePc, DestroyPc, modVars
  <2>5. proc[p].pc # "e_fd" /\ proc[p].pc # "e_export" /\ proc[p].pc \in UserPc
    BY DEF ImportPc, UserPc, ProcPc, CreatePc, DestroyPc
  <2>6. /\ Cardinality(Importing(b)') = Cardinality(Importing(b)) - 1
        /\ Cardinality(Importing(b)) \in Nat /\ Cardinality(Importing(b)') \in Nat
    <3>1. p \in Importing(b) /\ p \notin Importing(b)'
      BY <2>0, <2>1 DEF Importing
    <3>2. \A q \in Procs \ {p} : q \in Importing(b)' <=> q \in Importing(b)
      BY <2>1 DEF Importing
    <3>3. Importing(b) \in SUBSET Procs /\ Importing(b)' \in SUBSET Procs
      BY DEF Importing
    <3> QED BY <3>1, <3>2, <3>3, CountDelta, SMT DEF One
  <2>7. proc'[b].pc = "e_fd" <=> proc[b].pc = "e_fd"
    <3>1. CASE b = p
      BY <2>1, <2>5, <3>1
    <3>2. CASE b # p
      BY <2>1, <3>2
    <3> QED BY <3>1, <3>2
  <2>8. buf[b].fd \in BOOLEAN /\ buf[b].ref \in Nat
    BY <2>0 DEF LifeType, DmaBuf
  <2>9. /\ One(buf[b].fd) + One(proc'[b].pc = "e_fd") + Cardinality(Importing(b)') = buf[b].ref - 1
        /\ buf[b].ref # 0 /\ ~(buf[b].fd /\ proc'[b].pc = "e_fd")
    <3>1. /\ buf[b].ref = One(buf[b].fd) + One(proc[b].pc = "e_fd") + Cardinality(Importing(b))
          /\ ~(buf[b].fd /\ proc[b].pc = "e_fd")
      BY <2>0 DEF BufInv
    <3> DEFINE n == Cardinality(Importing(b))
               k == Cardinality(Importing(b)')
               x == One(buf[b].fd) + One(proc[b].pc = "e_fd")
    <3>2. One(proc'[b].pc = "e_fd") = One(proc[b].pc = "e_fd")
      BY <2>7 DEF One
    <3>3. x \in Nat
      BY SMT DEF One
    <3>4. buf[b].ref = x + n /\ One(buf[b].fd) + One(proc'[b].pc = "e_fd") + k = x + k
      BY <3>1, <3>2
    <3>5. n \in Nat /\ k \in Nat /\ n = k + 1
      BY <2>6, SMT
    <3> HIDE DEF n, k, x
    <3>6. x + k = buf[b].ref - 1 /\ buf[b].ref # 0
      BY <3>3, <3>4, <3>5, SMT
    <3> QED BY <2>7, <3>1, <3>4, <3>6 DEF k
  <2> DEFINE d == buf[b].dev
             fd == buf[b].fd
  <2>10. Lets(p, b, fd)
    <3>1. Apart(p)
      <4>1. "idle" \in UserPc
        BY DEF UserPc, ProcPc, CreatePc, DestroyPc
      <4> QED BY <2>1, <2>5, <4>1 DEF Apart
    <3>2. \A e : p \in Exporting(e)' <=> p \in Exporting(e)
      BY <2>1, <2>5 DEF Exporting
    <3>3. \A c \in Procs \ {b} : proc'[p].import = c <=> proc[p].import = c
      BY <2>0, <2>1
    <3>4. p # b => (proc'[p].pc = "e_fd" <=> proc[p].pc = "e_fd")
      BY <2>1, <2>5
    <3> QED BY <2>1, <2>2, <2>8, <2>9, <3>1, <3>2, <3>3, <3>4 DEF Lets
  <2>11. d = buf[b].dev /\ dma_buf_put(b, fd)
    OBVIOUS
  <2> HIDE DEF d, fd
  <2> QED BY <2>4, <2>9, <2>10, <2>11, BufPut

\* KBUF_IOCIMPORT ends, wherever it failed.
<1>ImportEnds.
      ASSUME LifeInv, NEW p \in Procs, kbuf_dmabuf_import_end(p)
      PROVE  LifeInv'
  <2> USE <1>ImportEnds
  <2> DEFINE b == proc[p].import
  <2>0. /\ LifeType /\ ProcInv(p) /\ proc[p].pc \in ImportPc /\ b = proc[p].import
        /\ dma_buf_put(b, buf[b].fd) /\ UNCHANGED <<kbuf_dyn_list, created, modVars>>
    BY DEF kbuf_dmabuf_import_end, LifeInv
  <2>1. proc[p].pc # "idle"
    BY <2>0 DEF ImportPc
  <2>2. load.pc = "live"
    BY <2>1, Live
  <2>3. b \in Procs /\ proc[p].held = ImportHeld[proc[p].pc]
    BY <2>0 DEF ProcInv
  <2>4. proc[p].held \ ImportUndo[proc[p].pc] = {}
    BY <2>3 DEF ImportHeld, ImportUndo
  <2>5. Returns(p)
    BY <2>0, <2>4, <1>EndEffect DEF kbuf_dmabuf_import_end
  <2> HIDE DEF b
  <2> QED BY <2>0, <2>2, <2>3, <2>5, <1>ImportLets

<1> QED BY <1>ImportBegins, <1>ImportAcquires, <1>ImportEnds

-----------------------------------------------------------------------------
(* All of them.                                                            *)

\* The steps of EXPORT and IMPORT.
LEMMA DmabufSteps ==
  ASSUME LifeInv, NEW p \in Procs, DmabufStep(p)
  PROVE  LifeInv'
BY ExportSteps, CloseSteps, ImportSteps DEF DmabufStep

\* An ioctl begins.
LEMMA Ioctl ==
  ASSUME LifeInv, NEW p \in Procs, kbuf_ioctl(p)
  PROVE  LifeInv'
<1>1. ASSUME kbuf_ioc_export(p) PROVE LifeInv'
  BY <1>1, GoesOn DEF kbuf_ioc_export
<1>2. ASSUME NEW b \in Procs, kbuf_ioc_import(p, b) PROVE LifeInv'
  BY <1>2, ImportSteps
<1> QED BY <1>1, <1>2 DEF kbuf_ioctl
=============================================================================
