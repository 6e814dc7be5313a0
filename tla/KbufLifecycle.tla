---------------------------- MODULE KbufLifecycle ----------------------------
(***************************************************************************)
(* The module from insmod to rmmod, with CREATE, DESTROY, open, close,     *)
(* EXPORT and IMPORT going on in between, and what must hold of memory,    *)
(* references and minors throughout.                                       *)
(***************************************************************************)
EXTENDS KbufCtl, KbufDmabuf, KbufLoad

\* The ioctls of a device file that hold on to anything.
kbuf_ioctl(p) == kbuf_ioc_export(p) \/ \E b \in Procs : kbuf_ioc_import(p, b)

Call(p) == \/ kbuf_dyn_create_ida(p) \/ kbuf_ctl_destroy(p)
           \/ chrdev_open(p) \/ kbuf_ioctl(p)

Next ==
  \/ \E n \in NdevicesReqs : kbuf_init(n)
  \/ LoadStep
  \/ kbuf_exit
  \/ \E p \in Procs : \/ Call(p) \/ close(p) \/ close_dmabuf(p)
                      \/ CtlStep(p) \/ FileStep(p) \/ DmabufStep(p)

Spec == Init /\ [][Next]_vars

-----------------------------------------------------------------------------
(* Who refers to what.                                                     *)

\* Threads that run kbuf_dyn_create for d before it is on the list, and the
\* ones that took d off the list and have not dropped its reference yet.
Creating(d) == {p \in Procs : proc[p].dev = d /\ proc[p].pc \in
                  {"slots", "ctrl", "data", "cdev", "add", "device", "list"}}
Destroying(d) == {p \in Procs : proc[p].dev = d /\ proc[p].pc \in
                    {"d_device", "d_cdev", "d_put"}}
Opened(d) == {p \in Procs : proc[p].file = d}
Exported(d) == {p \in Procs : buf[p].ref > 0 /\ buf[p].dev = d}
Exporting(d) == {p \in Procs : proc[p].pc = "e_export" /\ proc[p].file = d}
Importing(b) == {p \in Procs : proc[p].import = b}

One(b) == IF b THEN 1 ELSE 0

\* The registered reference: from kref_init to the kref_put of the teardown.
Registered(d) == d \in Listed \/ Creating(d) \cup Destroying(d) # {}

\* Every kref is exactly the number of its holders: the registration, each
\* open file, each dma-buf and each EXPORT on its way there (kbuf_ctl.c
\* 91, 57, 156; kbuf_main.c 95; kbuf_dmabuf.c 183, 154). The same for the
\* references to a dma-buf. A device without a holder has been freed.
RefBalance ==
  /\ \A d \in Dynamic :
       /\ obj[d].ref = One(Registered(d)) + Cardinality(Opened(d))
                         + Cardinality(Exported(d)) + Cardinality(Exporting(d))
       /\ obj[d].ref = 0 <=> "struct" \notin obj[d].mem
  /\ \A b \in Procs :
       buf[b].ref = One(buf[b].fd) + One(proc[b].pc = "e_fd") + Cardinality(Importing(b))

\* Whatever can still be reached exists: the ring of an open file, of a
\* dma-buf and of a listed device, the cdev the VFS is going to put after
\* release, the device an import attaches (kbuf.h 93-97, DESIGN.md 389-395,
\* DEBUGGING.md 4).
HeldAlive ==
  /\ \A d \in Devs :
       Opened(d) \cup Exported(d) # {} \/ d \in Listed => Ring \cup {"struct"} \subseteq obj[d].mem
  /\ \A p \in Procs : proc[p].icdev # NoDev =>
       (IF proc[p].icdev \in Static THEN "struct" ELSE "cdev") \in obj[proc[p].icdev].mem
  /\ \A p \in Procs : proc[p].import # NoProc => "pdev" \in res

\* A minor has one owner. The ids handed out are exactly those of the devices
\* that exist or are being allocated, no two devices share one, and a minor
\* is free again only after its node and its cdev are gone.
MinorExclusive ==
  LET live == {d \in Dynamic : "struct" \in obj[d].mem}
      pending == {p \in Procs : proc[p].pc = "struct"}
  IN /\ kbuf_dyn_ida = {obj[d].minor_off : d \in live} \cup {proc[p].id : p \in pending}
     /\ Cardinality(kbuf_dyn_ida) = Cardinality(live) + Cardinality(pending)
     /\ \A d \in Dynamic : obj[d].added \/ obj[d].device => d \in live

\* Nothing allocated is ever lost: every allocation of a dynamic device has
\* somebody who will free it, whatever step of CREATE failed, and a finished
\* call holds nothing (kbuf_ctl.c 135-145, kbuf_dmabuf.c 243-253).
NothingLost ==
  /\ \A d \in Dynamic :
       /\ obj[d].mem \cap (Ring \cup {"struct"}) # {} =>
            Registered(d) \/ Opened(d) \cup Exported(d) \cup Exporting(d) # {}
       /\ "cdev" \in obj[d].mem =>
            Registered(d) \/ \E p \in Procs : proc[p].icdev = d
  /\ \A p \in Procs : proc[p].pc = "idle" => proc[p].held = {}

\* Once DESTROY or rmmod has taken a device off the list no new file comes to
\* refer to it ("accepts no new opens", kbuf.h 97), and a device being created
\* is not opened before it is complete.
OpensListedOnly ==
  [][\A d \in Dynamic : Opened(d)' \subseteq Opened(d) \/ d \in Listed]_vars

\* When kbuf_init or kbuf_exit comes to tear devices down, exactly the first
\* n are fully created and the others hold nothing ("devices [0, i) are fully
\* created", kbuf_main.c 404).
TeardownExact ==
  load.pc = "teardown" =>
    \A d \in Static :
      IF d \in load.i..(load.n - 1)
      THEN obj[d].added /\ obj[d].device /\ obj[d].mem = Ring \cup {"struct"}
      ELSE ~obj[d].added /\ ~obj[d].device /\ obj[d].mem \subseteq {"struct"}

\* A module that is not loaded, because kbuf_init failed at any point or
\* because kbuf_exit ran, has left nothing behind.
NothingLeft ==
  load.pc = "out" => /\ res = {} /\ kbuf_dyn_list = <<>> /\ kbuf_dyn_ida = {}
                     /\ \A d \in Devs : obj[d].mem = {} /\ ~obj[d].added /\ ~obj[d].device

\* kbuf_exit never runs beside a call, an open file or a dma-buf, and meets
\* only devices nobody else refers to (kbuf_ctl.c 225, DESIGN.md 391-392).
ExitAlone ==
  load.pc \in {"drain", "reports"} =>
    /\ \A p \in Procs : proc[p] = NoCall /\ buf[p] = NoBuf
    /\ \A d \in Dynamic : obj[d].ref = One(d \in Listed)

\* A device is in the kernel's map only while its ring is complete.
ReachableReady ==
  \A d \in Devs : obj[d].added => Ring \cup {"struct"} \subseteq obj[d].mem

\* Whoever is about to read dev_name(dev->dev) finds a struct device there: a
\* device "stays alive until its last close" (kbuf.h 96-97) and "is never
\* reachable in a half-initialised state" (DESIGN.md 84-86).
DeviceNamed ==
  \A p \in Procs : proc[p].pc \in {"opened", "release", "e_get"} => obj[proc[p].file].device
=============================================================================
