------------------------------- MODULE KbufLoad -------------------------------
(***************************************************************************)
(* kbuf_init and kbuf_exit, run by one thread: the device array, the minor *)
(* range and the class, then every static device, then /proc, debugfs, the *)
(* import device and the control device; any of them but /proc and debugfs *)
(* may fail, and what was done is undone. load.i is the device being made  *)
(* or torn down, load.n how many there are to tear down.                   *)
(***************************************************************************)
EXTENDS KbufLife

At(l) == load.pc = l
Goto(l) == load' = [load EXCEPT !.pc = l]

\* What is given back from where: err_free, err_region, err_devices (and the
\* end of kbuf_exit, which does the same).
GlobalUndo ==
  [array |-> {}, region |-> {"array"}, class |-> {"array", "region"},
   teardown |-> {"array", "region", "class"}]

ReleaseGlobals ==
  /\ res' = res \ GlobalUndo[load.pc]
  /\ obj' = [d \in Devs |-> IF d \in Static THEN [obj[d] EXCEPT !.mem = @ \ {"struct"}]
                                            ELSE obj[d]]
  /\ load' = [pc |-> "out", i |-> 0, n |-> 0]

\* insmod: the parameter check.
kbuf_init(n) ==
  /\ At("out")
  /\ n \in 1..KBUF_MAX_NDEVICES
  /\ kbuf_ndevices' = n
  /\ Goto("array")
  /\ UNCHANGED <<obj, dynVars, proc, buf, res>>

\* kcalloc, alloc_chrdev_region, class_create.
kbuf_init_global ==
  /\ load.pc \in {"array", "region", "class"}
  /\ \/ /\ res' = res \cup {load.pc}
        /\ obj' = [d \in Devs |-> IF At("array") /\ d < kbuf_ndevices
                                  THEN [obj[d] EXCEPT !.mem = {"struct"}] ELSE obj[d]]
        /\ Goto(CASE At("array") -> "region" [] At("region") -> "class" [] OTHER -> "slots")
     \/ ReleaseGlobals
  /\ UNCHANGED <<dynVars, proc, buf, kbuf_ndevices>>

Stage == [slots |-> "ctrl", ctrl |-> "data", data |-> "add"]

\* The loop body: slots, mmap buffers, cdev_add, device_create.
kbuf_init_device ==
  /\ \/ /\ load.pc \in DOMAIN Stage
        /\ obj' = [obj EXCEPT ![load.i].mem = @ \cup {load.pc}]
        /\ Goto(Stage[load.pc])
     \/ /\ At("add")
        /\ obj' = [obj EXCEPT ![load.i].added = TRUE, ![load.i].cdevRef = 1]
        /\ Goto("device")
     \/ /\ At("device")
        /\ obj' = [obj EXCEPT ![load.i].device = TRUE]
        /\ load' = IF load.i + 1 < kbuf_ndevices
                   THEN [load EXCEPT !.pc = "slots", !.i = @ + 1]
                   ELSE [load EXCEPT !.pc = "proc"]
  /\ UNCHANGED <<dynVars, proc, buf, kbuf_ndevices, res>>

\* What a failing step of the loop body frees of its own device.
InitUndo ==
  [slots |-> {}, ctrl |-> {"slots"}, data |-> {"slots", "ctrl"},
   add |-> {"slots", "ctrl", "data"}, device |-> {"slots", "ctrl", "data"}]

\* Mutant: the device that failed is torn down too.
kbuf_init_device_fail_all ==
  /\ load.pc \in DOMAIN InitUndo
  /\ LET c == IF At("device") THEN CdevDel(obj[load.i]) ELSE obj[load.i]
         o == [c EXCEPT !.mem = @ \ InitUndo[load.pc]]
     IN obj' = [obj EXCEPT ![load.i] = o]
  /\ load' = [pc |-> "teardown", i |-> 0, n |-> load.i + 1]
  /\ UNCHANGED <<dynVars, proc, buf, kbuf_ndevices, res>>

\* It fails: undo it, then err_devices with the devices before it.
kbuf_init_device_fail ==
  /\ load.pc \in DOMAIN InitUndo
  /\ LET c == IF At("device") THEN CdevDel(obj[load.i]) ELSE obj[load.i]
         o == [c EXCEPT !.mem = @ \ InitUndo[load.pc]]
     IN obj' = [obj EXCEPT ![load.i] = o]
  /\ load' = [pc |-> "teardown", i |-> 0, n |-> load.i]
  /\ UNCHANGED <<dynVars, proc, buf, kbuf_ndevices, res>>

\* /proc and debugfs. A failure here is ignored and leaves nothing to remove,
\* so the entries are taken to exist.
kbuf_init_reports ==
  /\ At("proc")
  /\ res' = res \cup {"proc", "debugfs"}
  /\ Goto("pdev")
  /\ UNCHANGED <<obj, dynVars, proc, buf, kbuf_ndevices>>

\* err_dmabuf, and the same lines of kbuf_exit: all static devices follow.
DropReports(r) == /\ res' = r \ {"proc", "debugfs"}
                  /\ load' = [pc |-> "teardown", i |-> 0, n |-> kbuf_ndevices]

\* The importer's platform device.
kbuf_dmabuf_exit(r) == r \ {"pdev"}

\* Register the platform device, set its DMA mask; err_dmabuf.
kbuf_dmabuf_init ==
  /\ \/ At("pdev") /\ res' = res \cup {"pdev"} /\ Goto("mask")
     \/ At("mask") /\ res' = res /\ Goto("ctl")
     \/ load.pc \in {"pdev", "mask"} /\ DropReports(kbuf_dmabuf_exit(res))
  /\ UNCHANGED <<obj, dynVars, proc, buf, kbuf_ndevices>>

\* The control device comes last; err_ctl.
kbuf_ctl_register ==
  /\ At("ctl")
  /\ \/ res' = res \cup {"ctl"} /\ Goto("live")
     \/ DropReports(kbuf_dmabuf_exit(res))
  /\ UNCHANGED <<obj, dynVars, proc, buf, kbuf_ndevices>>

-----------------------------------------------------------------------------
(* rmmod: the module goes only when its use count is zero.                 *)

kbuf_exit ==
  /\ At("live") /\ ModuleRefs = {}
  /\ res' = res \ {"ctl"}
  /\ Goto("drain")
  /\ UNCHANGED <<obj, dynVars, proc, buf, kbuf_ndevices>>

\* kbuf_ctl_unregister: unlink the first device and tear it down, until the
\* list is empty.
kbuf_ctl_unregister ==
  /\ At("drain")
  /\ \/ /\ kbuf_dyn_list # <<>>
        /\ LET d == Head(kbuf_dyn_list)
               o == CdevDel([obj[d] EXCEPT !.device = FALSE])
               left == [o EXCEPT !.ref = @ - 1]
           IN /\ obj' = [obj EXCEPT ![d] = IF o.ref > 1 THEN left ELSE kbuf_dev_release(o)]
              /\ kbuf_dyn_ida' = IF o.ref > 1 THEN kbuf_dyn_ida
                                              ELSE kbuf_dyn_ida \ {o.minor_off}
        /\ kbuf_dyn_list' = Tail(kbuf_dyn_list)
        /\ UNCHANGED load
     \/ /\ kbuf_dyn_list = <<>>
        /\ Goto("reports")
        /\ UNCHANGED <<obj, kbuf_dyn_list, kbuf_dyn_ida>>
  /\ UNCHANGED <<created, proc, buf, kbuf_ndevices, res>>

kbuf_exit_reports ==
  /\ At("reports")
  /\ DropReports(kbuf_dmabuf_exit(res))
  /\ UNCHANGED <<obj, dynVars, proc, buf, kbuf_ndevices>>

\* kbuf_teardown_devices: the first n devices, one after the other.
kbuf_teardown_devices ==
  /\ At("teardown") /\ load.i < load.n
  /\ LET o == [CdevDel(obj[load.i]) EXCEPT !.device = FALSE, !.mem = @ \ Ring]
     IN obj' = [obj EXCEPT ![load.i] = o]
  /\ load' = [load EXCEPT !.i = @ + 1]
  /\ UNCHANGED <<dynVars, proc, buf, kbuf_ndevices, res>>

\* class_destroy, unregister_chrdev_region, kfree.
kbuf_exit_finish ==
  /\ At("teardown") /\ load.i = load.n
  /\ ReleaseGlobals
  /\ UNCHANGED <<dynVars, proc, buf, kbuf_ndevices>>

LoadStep ==
  \/ kbuf_init_global \/ kbuf_init_device \/ kbuf_init_device_fail
  \/ kbuf_init_reports \/ kbuf_dmabuf_init \/ kbuf_ctl_register
  \/ kbuf_ctl_unregister \/ kbuf_exit_reports
  \/ kbuf_teardown_devices \/ kbuf_exit_finish
=============================================================================
