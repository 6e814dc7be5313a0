------------------------------- MODULE KbufLife -------------------------------
(***************************************************************************)
(* Who owns what, and for how long: the allocations behind every struct    *)
(* kbuf_dev, its cdev and its struct device, the references that keep them *)
(* (kref, the cdev's kobject, the module's use count), and the system      *)
(* calls in progress that hold such references.                            *)
(*                                                                         *)
(* Static devices are elements of kbuf_devices, numbered by their minor.   *)
(* Dynamic ones are numbered in the order kzalloc returns them and never   *)
(* reused, so a pointer to freed memory stays recognisable.                *)
(***************************************************************************)
EXTENDS Integers, Sequences, FiniteSets, FiniteSetsExt, Functions

CONSTANTS
  Procs,             \* threads that make system calls; they share one fd table
  NoProc,            \* an import in progress works on no buffer
  KBUF_MAX_NDEVICES,
  KBUF_DYN_MAX,      \* 64 in the code
  NdevicesReqs,      \* values of the module parameter ndevices
  StaticOpens,       \* the static devices that are opened
  MaxCreates,        \* bound on the number of kzalloc'ed dynamic devices
  EarlyOpen          \* TRUE: opens may come before kbuf_init has returned

Static == 0..(KBUF_MAX_NDEVICES - 1)
Dynamic == KBUF_MAX_NDEVICES..(KBUF_MAX_NDEVICES + MaxCreates - 1)
Devs == Static \cup Dynamic
NoDev == -1
Ids == 0..(KBUF_DYN_MAX - 1)

ASSUME LifeAssumption ==
  /\ IsFiniteSet(Procs) /\ NoProc \notin Procs
  /\ KBUF_MAX_NDEVICES \in Nat \ {0} /\ KBUF_DYN_MAX \in Nat \ {0}
  /\ NdevicesReqs \subseteq Nat /\ MaxCreates \in Nat
  /\ StaticOpens \subseteq Static
  /\ EarlyOpen \in BOOLEAN

VARIABLES
  obj,             \* per device: its memory and the references to it
  kbuf_dyn_list, kbuf_dyn_ida,
  created,         \* how many dynamic devices kzalloc has returned
  proc,            \* per thread: the call it is in, its locals, its open file
  buf,             \* per thread: the dma-buf its EXPORT made
  kbuf_ndevices,
  res,             \* module-wide things held: array, region, class, ...
  load             \* the thread in kbuf_init or kbuf_exit

vars == <<obj, kbuf_dyn_list, kbuf_dyn_ida, created, proc, buf,
          kbuf_ndevices, res, load>>
dynVars == <<kbuf_dyn_list, kbuf_dyn_ida, created>>
modVars == <<kbuf_ndevices, res, load>>

-----------------------------------------------------------------------------
(* Devices. mem names the allocations that exist: the struct, the slots,   *)
(* the two mmap buffers and, for a dynamic device, its separate cdev (a    *)
(* static one has it inside the struct).                                   *)

Ring == {"slots", "ctrl", "data"}

NoObj == [mem |-> {}, cdevRef |-> 0, added |-> FALSE, device |-> FALSE,
          ref |-> 0, minor_off |-> 0]

\* Mutant: the cdev is embedded and goes with the struct.
kbuf_dev_release_embedded(o) ==
  [o EXCEPT !.ref = 0, !.mem = {}]

\* The kref release function: ring and struct go, the cdev stays.
kbuf_dev_release(o) ==
  [o EXCEPT !.ref = 0, !.mem = @ \ (Ring \cup {"struct"})]

\* Mutant: the minor is returned with the first reference that goes.
kref_put_minor(d) ==
  /\ obj' = [obj EXCEPT ![d] = IF @.ref > 1 THEN [@ EXCEPT !.ref = @ - 1]
                                            ELSE kbuf_dev_release(@)]
  /\ kbuf_dyn_ida' = kbuf_dyn_ida \ {obj[d].minor_off}

\* kref_put(&dev->ref, kbuf_dev_release), which also returns the minor.
kref_put(d) ==
  IF obj[d].ref > 1
  THEN /\ obj' = [obj EXCEPT ![d].ref = @ - 1]
       /\ UNCHANGED kbuf_dyn_ida
  ELSE /\ obj' = [obj EXCEPT ![d] = kbuf_dev_release(@)]
       /\ kbuf_dyn_ida' = kbuf_dyn_ida \ {obj[d].minor_off}

\* if (dev->dynamic) kref_put(...): what release and the dma-buf release do.
PutIfDynamic(d) ==
  IF d \in Dynamic THEN kref_put(d) ELSE UNCHANGED <<obj, kbuf_dyn_ida>>

\* kobject_put on the cdev; a cdev_alloc'ed one is freed with its last user.
CdevPut(o) ==
  [o EXCEPT !.cdevRef = @ - 1,
            !.mem = IF o.cdevRef = 1 THEN @ \ {"cdev"} ELSE @]

\* cdev_del: out of the kernel's map, and one reference less.
CdevDel(o) == [CdevPut(o) EXCEPT !.added = FALSE]

Listed == Range(kbuf_dyn_list)
Minor(d) == IF d \in Static THEN d ELSE kbuf_ndevices + obj[d].minor_off

list_del(s, i) == SubSeq(s, 1, i - 1) \o SubSeq(s, i + 1, Len(s))

\* Where on the list devices with that minor_off are; the walk stops at the
\* first.
ListFind(off) == {i \in DOMAIN kbuf_dyn_list : obj[kbuf_dyn_list[i]].minor_off = off}

-----------------------------------------------------------------------------
(* Threads. dev and id are locals; file is the private_data of the open    *)
(* file, icdev the cdev the VFS holds a reference to for it; import and    *)
(* held are what an IMPORT works on and has acquired so far.               *)

NoCall == [pc |-> "idle", dev |-> NoDev, id |-> 0, file |-> NoDev,
           icdev |-> NoDev, import |-> NoProc, held |-> {}]
NoBuf == [dev |-> NoDev, ref |-> 0, fd |-> FALSE]

CtlPc == {"struct", "slots", "ctrl", "data", "cdev", "add", "device", "list",
          "user", "d_device", "d_cdev", "d_put"}
ImportPc == {"attach", "sgt", "table", "map", "vmap"}

\* Back to user space; the open file stays.
Return(p) ==
  [proc EXCEPT ![p] = [NoCall EXCEPT !.file = proc[p].file, !.icdev = proc[p].icdev]]

\* Mutant: the control device's file_operations without .owner.
ModuleRefs_noctl ==
  {p \in Procs : proc[p].icdev # NoDev} \cup {p \in Procs : buf[p].ref > 0}

\* The module's use count: .owner = THIS_MODULE of the cdevs, of the control
\* device's file_operations and of the dma-bufs.
ModuleRefs == {p \in Procs : \/ proc[p].icdev # NoDev
                             \/ proc[p].pc \in CtlPc
                             \/ buf[p].ref > 0}

InitPc == {"array", "region", "class", "slots", "ctrl", "data", "add",
           "device", "proc", "pdev", "mask", "ctl"}

\* try_module_get: fails once the module is going. A module whose kbuf_init
\* is still running can be used.
try_module_get == \/ load.pc = "live"
                  \/ EarlyOpen /\ load.pc \in InitPc

Init ==
  /\ obj = [d \in Devs |-> NoObj]
  /\ kbuf_dyn_list = <<>> /\ kbuf_dyn_ida = {} /\ created = 0
  /\ proc = [p \in Procs |-> NoCall]
  /\ buf = [p \in Procs |-> NoBuf]
  /\ kbuf_ndevices = 0 /\ res = {}
  /\ load = [pc |-> "out", i |-> 0, n |-> 0]
=============================================================================
