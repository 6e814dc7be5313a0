------------------------------ MODULE KbufDmabuf ------------------------------
(***************************************************************************)
(* KBUF_IOCEXPORT wraps the ring of an open device in a dma-buf, which     *)
(* holds a kref of its own on a dynamic device. KBUF_IOCIMPORT takes a     *)
(* dma-buf by its descriptor, attaches the synthetic device, maps and      *)
(* vmaps it and lets go of everything again. The descriptor table is       *)
(* shared: any thread may close a dma-buf once dma_buf_fd installed it.    *)
(***************************************************************************)
EXTENDS KbufLife

\* Mutant: the kref taken by export is never dropped.
kbuf_dmabuf_release_leak(d) == UNCHANGED <<obj, kbuf_dyn_ida>>

kbuf_dmabuf_release(d) == PutIfDynamic(d)

\* Drop a reference to the dma-buf; fd tells whether its descriptor stays.
dma_buf_put(b, fd) ==
  LET left == [buf[b] EXCEPT !.ref = @ - 1, !.fd = fd]
  IN /\ buf' = [buf EXCEPT ![b] = IF @.ref = 1 THEN NoBuf ELSE left]
     /\ IF buf[b].ref = 1 THEN kbuf_dmabuf_release(buf[b].dev)
                          ELSE UNCHANGED <<obj, kbuf_dyn_ida>>

kbuf_ioc_export(p) ==
  /\ proc[p].pc = "idle" /\ proc[p].file # NoDev /\ buf[p] = NoBuf
  /\ proc' = [proc EXCEPT ![p].pc = "e_get"]
  /\ UNCHANGED <<obj, dynVars, buf, modVars>>

\* exp_name is read from dev_name(dev->dev), then the kref is taken.
kbuf_dmabuf_export_get(p) ==
  /\ proc[p].pc = "e_get"
  /\ obj' = [obj EXCEPT ![proc[p].file].ref = IF proc[p].file \in Dynamic THEN @ + 1 ELSE @]
  /\ proc' = [proc EXCEPT ![p].pc = "e_export"]
  /\ UNCHANGED <<dynVars, buf, modVars>>

\* dma_buf_export, which takes over the kref, or gives it back by failing.
kbuf_dmabuf_export_wrap(p) ==
  /\ proc[p].pc = "e_export"
  /\ \/ /\ buf' = [buf EXCEPT ![p] = [dev |-> proc[p].file, ref |-> 1, fd |-> FALSE]]
        /\ proc' = [proc EXCEPT ![p].pc = "e_fd"]
        /\ UNCHANGED <<obj, kbuf_dyn_ida>>
     \/ /\ PutIfDynamic(proc[p].file)
        /\ proc' = Return(p)
        /\ UNCHANGED buf
  /\ UNCHANGED <<kbuf_dyn_list, created, modVars>>

\* dma_buf_fd gives the reference to a descriptor, or dma_buf_put drops it.
kbuf_dmabuf_export_fd(p) ==
  /\ proc[p].pc = "e_fd"
  /\ \/ /\ buf' = [buf EXCEPT ![p].fd = TRUE]
        /\ proc' = [proc EXCEPT ![p].pc = "e_user"]
        /\ UNCHANGED <<obj, kbuf_dyn_ida>>
     \/ /\ dma_buf_put(p, FALSE)
        /\ proc' = Return(p)
  /\ UNCHANGED <<kbuf_dyn_list, created, modVars>>

\* put_user of the descriptor; when it faults close_fd takes it back, unless
\* somebody has closed it already.
kbuf_ioc_export_user(p) ==
  /\ proc[p].pc = "e_user"
  /\ \/ UNCHANGED <<obj, kbuf_dyn_ida, buf>>
     \/ buf[p].fd /\ dma_buf_put(p, FALSE)
  /\ proc' = Return(p)
  /\ UNCHANGED <<kbuf_dyn_list, created, modVars>>

close_dmabuf(b) ==
  /\ buf[b].fd
  /\ dma_buf_put(b, FALSE)
  /\ UNCHANGED <<kbuf_dyn_list, created, proc, modVars>>

-----------------------------------------------------------------------------
(* The importer self-test.                                                 *)

\* dma_buf_get of a descriptor that is open.
kbuf_ioc_import(p, b) ==
  /\ proc[p].pc = "idle" /\ proc[p].file # NoDev /\ buf[b].fd
  /\ buf' = [buf EXCEPT ![b].ref = @ + 1]
  /\ proc' = [proc EXCEPT ![p].pc = "attach", ![p].import = b, ![p].held = {"ref"}]
  /\ UNCHANGED <<obj, dynVars, modVars>>

\* dma_buf_attach; kbuf_dmabuf_map: the table's struct, its entries, one page
\* of the ring each, and the DMA mapping.
kbuf_dmabuf_import_acquire(p) ==
  /\ proc[p].pc \in ImportPc \ {"vmap"}
  /\ proc' = [proc EXCEPT ![p].held = @ \cup {proc[p].pc},
                          ![p].pc = CASE @ = "attach" -> "sgt" [] @ = "sgt" -> "table"
                                      [] @ = "table" -> "map" [] OTHER -> "vmap"]
  /\ UNCHANGED <<obj, dynVars, buf, modVars>>

\* What is let go of when the step named fails, by kbuf_dmabuf_map itself and
\* from the labels put, detach and unmap on; after vmap, success or not, all.
ImportUndo ==
  [attach |-> {"ref"},
   sgt    |-> {"ref", "attach"},
   table  |-> {"ref", "attach", "sgt"},
   map    |-> {"ref", "attach", "sgt", "table"},
   vmap   |-> {"ref", "attach", "sgt", "table", "map"}]

kbuf_dmabuf_import_end(p) ==
  /\ proc[p].pc \in ImportPc
  /\ dma_buf_put(proc[p].import, buf[proc[p].import].fd)
  /\ proc' = [Return(p) EXCEPT ![p].held = proc[p].held \ ImportUndo[proc[p].pc]]
  /\ UNCHANGED <<kbuf_dyn_list, created, modVars>>

DmabufStep(p) ==
  \/ kbuf_dmabuf_export_get(p) \/ kbuf_dmabuf_export_wrap(p)
  \/ kbuf_dmabuf_export_fd(p) \/ kbuf_ioc_export_user(p)
  \/ kbuf_dmabuf_import_acquire(p) \/ kbuf_dmabuf_import_end(p)
=============================================================================
