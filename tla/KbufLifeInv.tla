----------------------------- MODULE KbufLifeInv -----------------------------
(***************************************************************************)
(* The strengthening that makes the invariants of KbufLifecycle inductive: *)
(* what each thread, each buffer, each device and the loading thread may   *)
(* look like, by the step they are at.                                     *)
(***************************************************************************)
EXTENDS KbufLifecycle

\* Files are opened only once kbuf_init has returned. (An open that races
\* kbuf_init may see its device torn down again.)
LoadedFirst == ~EarlyOpen

CreatePc == {"slots", "ctrl", "data", "cdev", "add", "device", "list"}
DestroyPc == {"d_device", "d_cdev", "d_put"}
ExportPc == {"e_get", "e_export", "e_fd", "e_user"}
ProcPc == {"idle", "open", "opened", "release", "cdev_put"}
            \cup CtlPc \cup ImportPc \cup ExportPc
LoadPc == {"out", "live", "drain", "reports", "teardown"} \cup InitPc

Parts == Ring \cup {"struct", "cdev"}
ResType == {"array", "region", "class", "proc", "debugfs", "pdev", "ctl"}
Steps == ImportPc \cup {"ref"}

Object == [mem : SUBSET Parts, cdevRef : Nat, added : BOOLEAN, device : BOOLEAN,
           ref : Nat, minor_off : Ids]
Thread == [pc : ProcPc, dev : Devs \cup {NoDev}, id : Nat,
           file : Devs \cup {NoDev}, icdev : Devs \cup {NoDev},
           import : Procs \cup {NoProc}, held : SUBSET Steps]
DmaBuf == [dev : Devs \cup {NoDev}, ref : Nat, fd : BOOLEAN]

LifeType ==
  /\ obj \in [Devs -> Object]
  /\ kbuf_dyn_list \in Seq(Dynamic) /\ kbuf_dyn_ida \subseteq Ids
  /\ created \in 0..MaxCreates
  /\ proc \in [Procs -> Thread]
  /\ buf \in [Procs -> DmaBuf]
  /\ kbuf_ndevices \in 0..KBUF_MAX_NDEVICES /\ res \subseteq ResType
  /\ load \in [pc : LoadPc, i : Nat, n : Nat]

-----------------------------------------------------------------------------
(* Threads and dma-bufs.                                                   *)

\* What an IMPORT holds when it comes to the step named.
ImportHeld ==
  [attach |-> {"ref"},
   sgt    |-> {"ref", "attach"},
   table  |-> {"ref", "attach", "sgt"},
   map    |-> {"ref", "attach", "sgt", "table"},
   vmap   |-> {"ref", "attach", "sgt", "table", "map"}]

\* The locals of a thread fit the step it is at.
ProcInv(p) ==
  LET t == proc[p]
  IN /\ t.pc = "idle" => t.dev = NoDev /\ t.id = 0
     /\ t.pc \in {"idle"} \cup CtlPc => (t.file = NoDev <=> t.icdev = NoDev)
     /\ t.pc \in {"opened", "release"} \cup ImportPc \cup ExportPc =>
          t.file # NoDev /\ t.icdev # NoDev
     /\ t.pc \in {"open", "cdev_put"} => t.file = NoDev /\ t.icdev # NoDev
     /\ t.file \in Static => t.file < kbuf_ndevices
     /\ t.icdev \in Static => t.icdev < kbuf_ndevices
     /\ t.pc = "struct" => t.id \in Ids
     /\ t.pc \in CreatePc => t.dev \in Dynamic /\ obj[t.dev].minor_off = t.id
     /\ t.pc \in DestroyPc => t.dev \in Dynamic
     /\ IF t.pc \in ImportPc THEN t.import \in Procs /\ t.held = ImportHeld[t.pc]
                             ELSE t.import = NoProc /\ t.held = {}
     /\ t.pc \in {"e_get", "e_export"} => buf[p] = NoBuf

\* A dma-buf is counted by its descriptor, the EXPORT that is about to install
\* one and the IMPORTs that use it.
BufInv(b) ==
  /\ buf[b].ref = One(buf[b].fd) + One(proc[b].pc = "e_fd") + Cardinality(Importing(b))
  /\ ~(buf[b].fd /\ proc[b].pc = "e_fd")
  /\ IF buf[b].ref = 0 THEN buf[b] = NoBuf
                       ELSE buf[b].dev \in Dynamic \cup 0..(kbuf_ndevices - 1)

-----------------------------------------------------------------------------
(* Devices.                                                                *)

Inodes(d) == {p \in Procs : proc[p].icdev = d}

\* The reference that cdev_alloc or cdev_add leaves with the driver.
CdevOwned(d) == obj[d].added \/ \E p \in Creating(d) : proc[p].pc = "add"
CdevInv(d) == obj[d].cdevRef = One(CdevOwned(d)) + Cardinality(Inodes(d))

Holders(d) == One(Registered(d)) + Cardinality(Opened(d))
                + Cardinality(Exported(d)) + Cardinality(Exporting(d))

\* One place holds the registration: the list, a CREATE or a DESTROY.
OneOwner(d) ==
  /\ \A p, q \in Creating(d) \cup Destroying(d) : p = q
  /\ d \in Listed => Creating(d) \cup Destroying(d) = {}

\* What CREATE has allocated when it comes to the step named.
CreateMem ==
  [slots  |-> {"struct"},
   ctrl   |-> {"struct", "slots"},
   data   |-> {"struct", "slots", "ctrl"},
   cdev   |-> {"struct", "slots", "ctrl", "data"},
   add    |-> Parts, device |-> Parts, list |-> Parts]

\* A device fits the step at which it is made, registered or torn down.
StageInv(d) ==
  /\ d \in Listed => obj[d].added /\ obj[d].device
  /\ \A p \in Creating(d) :
       /\ obj[d].ref = 1 /\ obj[d].mem = CreateMem[proc[p].pc]
       /\ obj[d].added <=> proc[p].pc \in {"device", "list"}
       /\ obj[d].device <=> proc[p].pc = "list"
  /\ \A p \in Destroying(d) :
       /\ obj[d].added <=> proc[p].pc # "d_put"
       /\ obj[d].device <=> proc[p].pc = "d_device"
  /\ ~Registered(d) => ~obj[d].added /\ ~obj[d].device

\* Memory follows the two counts.
MemInv(d) ==
  /\ "cdev" \in obj[d].mem <=> obj[d].cdevRef > 0
  /\ IF obj[d].ref = 0 THEN obj[d].mem \subseteq {"cdev"}
                       ELSE "struct" \in obj[d].mem
  /\ obj[d].ref > 0 /\ Creating(d) = {} => Ring \subseteq obj[d].mem

DynInv(d) ==
  /\ obj[d].ref = Holders(d)
  /\ CdevInv(d) /\ OneOwner(d) /\ StageInv(d) /\ MemInv(d)
  /\ d >= KBUF_MAX_NDEVICES + created => obj[d] = NoObj

\* Every id given out has one owner.
MinorOf(d, m) == "struct" \in obj[d].mem /\ obj[d].minor_off = m
Pending(p, m) == proc[p].pc = "struct" /\ proc[p].id = m
MinorInv(m) ==
  /\ m \in kbuf_dyn_ida <=> \/ \E d \in Dynamic : MinorOf(d, m)
                            \/ \E p \in Procs : Pending(p, m)
  /\ \A d, e \in Dynamic : MinorOf(d, m) /\ MinorOf(e, m) => d = e
  /\ \A p, q \in Procs : Pending(p, m) /\ Pending(q, m) => p = q
  /\ \A d \in Dynamic, p \in Procs : ~(MinorOf(d, m) /\ Pending(p, m))

ListInv == \A i, j \in DOMAIN kbuf_dyn_list :
             kbuf_dyn_list[i] = kbuf_dyn_list[j] => i = j

-----------------------------------------------------------------------------
(* kbuf_init and kbuf_exit.                                                *)

Globals == {"array", "region", "class"}
Reports == {"proc", "debugfs"}

\* What the module holds when it comes to the step named.
ResAt ==
  [l \in LoadPc |->
     CASE l \in {"out", "array"} -> {}
       [] l = "region" -> {"array"}
       [] l = "class" -> {"array", "region"}
       [] l = "pdev" -> Globals \cup Reports
       [] l \in {"mask", "ctl", "drain", "reports"} -> Globals \cup Reports \cup {"pdev"}
       [] l = "live" -> ResType
       [] OTHER -> Globals]

DevicePc == {"slots", "ctrl", "data", "add", "device"}
ReadyPc == {"proc", "pdev", "mask", "ctl", "live", "drain", "reports"}

\* What a static device has at the stage named.
InitMem ==
  [slots |-> {"struct"}, ctrl |-> {"struct", "slots"},
   data |-> {"struct", "slots", "ctrl"},
   add |-> Ring \cup {"struct"}, device |-> Ring \cup {"struct"}]

None(d) == obj[d].mem = {} /\ ~obj[d].added /\ ~obj[d].device
Bare(d) == obj[d].mem = {"struct"} /\ ~obj[d].added /\ ~obj[d].device
Full(d) == obj[d].mem = Ring \cup {"struct"} /\ obj[d].added /\ obj[d].device
Half(d) == /\ obj[d].mem = InitMem[load.pc] /\ ~obj[d].device
           /\ obj[d].added <=> load.pc = "device"

StaticInv(d) ==
  /\ obj[d].cdevRef = One(obj[d].added) + Cardinality(Inodes(d)) /\ obj[d].ref = 0
  /\ d >= kbuf_ndevices \/ load.pc \in {"out", "array"} => None(d)
  /\ d < kbuf_ndevices =>
       /\ load.pc \in {"region", "class"} => Bare(d)
       /\ load.pc \in DevicePc =>
            IF d < load.i THEN Full(d) ELSE IF d = load.i THEN Half(d) ELSE Bare(d)
       /\ load.pc \in ReadyPc => Full(d)
       /\ load.pc = "teardown" =>
            IF d \in load.i..(load.n - 1) THEN Full(d) ELSE Bare(d)

LoadInv ==
  /\ res = ResAt[load.pc]
  /\ load.pc # "live" => \A p \in Procs : proc[p] = NoCall /\ buf[p] = NoBuf
  /\ load.pc \notin {"live", "drain"} => kbuf_dyn_list = <<>>
  /\ load.pc # "out" => kbuf_ndevices > 0
  /\ load.pc \in {"out", "array", "region", "class"} => load.i = 0
  /\ load.pc \in DevicePc => load.i < kbuf_ndevices
  /\ load.pc = "teardown" => load.i <= load.n /\ load.n <= kbuf_ndevices

\* Inductive. Every thread, dma-buf, device, minor and module-wide resource fits
\* the step that kbuf_init, kbuf_exit or the calls under way have reached, and
\* every reference count is the number of its holders.
LifeInv ==
  /\ LifeType
  /\ \A p \in Procs : ProcInv(p) /\ BufInv(p)
  /\ \A d \in Dynamic : DynInv(d)
  /\ \A d \in Static : StaticInv(d)
  /\ \A m \in Ids : MinorInv(m)
  /\ ListInv /\ LoadInv
=============================================================================
