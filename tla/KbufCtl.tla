-------------------------------- MODULE KbufCtl --------------------------------
(***************************************************************************)
(* Dynamic devices: CREATE and DESTROY on /dev/kbuf-ctl, and the open and  *)
(* release of a device file. A step ends where another thread can see the  *)
(* difference: at each registration with the kernel, at each section of    *)
(* kbuf_dyn_lock and at each reference dropped.                            *)
(***************************************************************************)
EXTENDS KbufLife

\* KBUF_CTL_CREATE: ida_alloc_max hands out the lowest free minor.
kbuf_dyn_create_ida(p) ==
  /\ proc[p].pc = "idle"
  /\ "ctl" \in res /\ try_module_get
  /\ created < MaxCreates
  /\ kbuf_dyn_ida # Ids
  /\ LET off == Min(Ids \ kbuf_dyn_ida)
     IN /\ kbuf_dyn_ida' = kbuf_dyn_ida \cup {off}
        /\ proc' = [proc EXCEPT ![p].pc = "struct", ![p].id = off]
  /\ UNCHANGED <<obj, kbuf_dyn_list, created, buf, modVars>>

\* kzalloc of the struct and kref_init, or err_ida.
kbuf_dyn_create_struct(p) ==
  /\ proc[p].pc = "struct"
  /\ \/ LET d == KBUF_MAX_NDEVICES + created
        IN /\ created < MaxCreates
           /\ created' = created + 1
           /\ obj' = [obj EXCEPT ![d] = [NoObj EXCEPT !.mem = {"struct"}, !.ref = 1,
                                                      !.minor_off = proc[p].id]]
           /\ proc' = [proc EXCEPT ![p].pc = "slots", ![p].dev = d]
           /\ UNCHANGED kbuf_dyn_ida
     \/ /\ kbuf_dyn_ida' = kbuf_dyn_ida \ {proc[p].id}
        /\ proc' = Return(p)
        /\ UNCHANGED <<obj, created>>
  /\ UNCHANGED <<kbuf_dyn_list, buf, modVars>>

\* Mutant: goto err_slots instead of err_mmap when the cdev fails.
CreateUndo_short ==
  [slots  |-> {"struct"},
   ctrl   |-> {"struct", "slots"},
   data   |-> {"struct", "slots", "ctrl"},
   cdev   |-> {"struct", "slots"},
   add    |-> {"struct", "slots"},
   device |-> {"struct", "slots", "ctrl", "data"}]

\* What the error labels free when the step named fails: err_free, err_slots,
\* err_mmap, err_cdev. A failed data buffer frees ctrl by itself.
CreateUndo ==
  [slots  |-> {"struct"},
   ctrl   |-> {"struct", "slots"},
   data   |-> {"struct", "slots", "ctrl"},
   cdev   |-> {"struct", "slots", "ctrl", "data"},
   add    |-> {"struct", "slots", "ctrl", "data"},
   device |-> {"struct", "slots", "ctrl", "data"}]

\* A step of kbuf_dyn_create fails: undo, return the minor, return an error.
\* The cdev, if there is one, is dropped by kobject_put or cdev_del.
kbuf_dyn_create_fail(p) ==
  /\ proc[p].pc \in DOMAIN CreateUndo
  /\ LET o == obj[proc[p].dev]
         c == IF "cdev" \in o.mem THEN CdevDel(o) ELSE o
     IN obj' = [obj EXCEPT ![proc[p].dev] =
                  [c EXCEPT !.ref = 0, !.mem = @ \ CreateUndo[proc[p].pc]]]
  /\ kbuf_dyn_ida' = kbuf_dyn_ida \ {proc[p].id}
  /\ proc' = Return(p)
  /\ UNCHANGED <<kbuf_dyn_list, created, buf, modVars>>

\* kbuf_alloc_slots, kbuf_mmap_dev_alloc (two buffers), cdev_alloc.
kbuf_dyn_create_alloc(p) ==
  /\ proc[p].pc \in Ring \cup {"cdev"}
  /\ obj' = [obj EXCEPT ![proc[p].dev].mem = @ \cup {proc[p].pc},
                        ![proc[p].dev].cdevRef = IF proc[p].pc = "cdev" THEN 1 ELSE 0]
  /\ proc' = [proc EXCEPT ![p].pc = CASE @ = "slots" -> "ctrl" [] @ = "ctrl" -> "data"
                                      [] @ = "data" -> "cdev" [] OTHER -> "add"]
  /\ UNCHANGED <<dynVars, buf, modVars>>

\* cdev_add, device_create, list_add_tail: each makes the device more visible.
kbuf_dyn_create_register(p) ==
  /\ \/ /\ proc[p].pc = "add"
        /\ obj' = [obj EXCEPT ![proc[p].dev].added = TRUE]
        /\ proc' = [proc EXCEPT ![p].pc = "device"]
        /\ UNCHANGED kbuf_dyn_list
     \/ /\ proc[p].pc = "device"
        /\ obj' = [obj EXCEPT ![proc[p].dev].device = TRUE]
        /\ proc' = [proc EXCEPT ![p].pc = "list"]
        /\ UNCHANGED kbuf_dyn_list
     \/ /\ proc[p].pc = "list"
        /\ kbuf_dyn_list' = Append(kbuf_dyn_list, proc[p].dev)
        /\ proc' = [proc EXCEPT ![p].pc = "user"]
        /\ UNCHANGED obj
  /\ UNCHANGED <<kbuf_dyn_ida, created, buf, modVars>>

\* Find by id and unlink under kbuf_dyn_lock; -ENOENT when there is none.
kbuf_dyn_destroy_find(p, off) ==
  /\ IF ListFind(off) = {}
     THEN /\ proc' = Return(p)
          /\ UNCHANGED kbuf_dyn_list
     ELSE LET i == Min(ListFind(off))
          IN /\ kbuf_dyn_list' = list_del(kbuf_dyn_list, i)
             /\ proc' = [proc EXCEPT ![p].pc = "d_device", ![p].dev = kbuf_dyn_list[i]]
  /\ UNCHANGED <<obj, kbuf_dyn_ida, created, buf, modVars>>

\* put_user of the new id; when it faults the device is destroyed by its id.
kbuf_ctl_create_user(p) ==
  /\ proc[p].pc = "user"
  /\ \/ /\ proc' = Return(p)
        /\ UNCHANGED <<obj, dynVars, buf, modVars>>
     \/ kbuf_dyn_destroy_find(p, proc[p].id)

\* KBUF_CTL_DESTROY with any id.
kbuf_ctl_destroy(p) ==
  /\ proc[p].pc = "idle"
  /\ "ctl" \in res /\ try_module_get
  /\ \E off \in Ids : kbuf_dyn_destroy_find(p, off)

\* Mutant: the registered reference is dropped first.
kbuf_dyn_teardown_early(p) ==
  /\ \/ /\ proc[p].pc = "d_device"
        /\ kref_put(proc[p].dev)
        /\ proc' = [proc EXCEPT ![p].pc = "d_cdev"]
     \/ /\ proc[p].pc = "d_cdev"
        /\ obj' = [obj EXCEPT ![proc[p].dev] = CdevDel(@)]
        /\ proc' = [proc EXCEPT ![p].pc = "d_put"]
        /\ UNCHANGED kbuf_dyn_ida
     \/ /\ proc[p].pc = "d_put"
        /\ obj' = [obj EXCEPT ![proc[p].dev].device = FALSE]
        /\ proc' = Return(p)
        /\ UNCHANGED kbuf_dyn_ida
  /\ UNCHANGED <<kbuf_dyn_list, created, buf, modVars>>

\* device_destroy, cdev_del, kref_put, in this order.
kbuf_dyn_teardown(p) ==
  /\ \/ /\ proc[p].pc = "d_device"
        /\ obj' = [obj EXCEPT ![proc[p].dev].device = FALSE]
        /\ proc' = [proc EXCEPT ![p].pc = "d_cdev"]
        /\ UNCHANGED kbuf_dyn_ida
     \/ /\ proc[p].pc = "d_cdev"
        /\ obj' = [obj EXCEPT ![proc[p].dev] = CdevDel(@)]
        /\ proc' = [proc EXCEPT ![p].pc = "d_put"]
        /\ UNCHANGED kbuf_dyn_ida
     \/ /\ proc[p].pc = "d_put"
        /\ kref_put(proc[p].dev)
        /\ proc' = Return(p)
  /\ UNCHANGED <<kbuf_dyn_list, created, buf, modVars>>

-----------------------------------------------------------------------------
(* open and release.                                                       *)

\* The VFS finds the cdev, in the kernel's map or through an inode that still
\* caches it because a file is open, and takes a reference on it and on the
\* module before it calls kbuf_open.
chrdev_open(p) ==
  /\ proc[p].pc = "idle" /\ proc[p].icdev = NoDev
  /\ try_module_get
  /\ \E d \in StaticOpens \cup Dynamic :
       /\ obj[d].added \/ \E q \in Procs : proc[q].icdev = d
       /\ obj' = [obj EXCEPT ![d].cdevRef = @ + 1]
       /\ proc' = [proc EXCEPT ![p].pc = "open", ![p].icdev = d, ![p].id = Minor(d)]
  /\ UNCHANGED <<dynVars, buf, modVars>>

\* Mutant: no kref_get.
kbuf_dyn_get_noref(d) == UNCHANGED obj

\* The reference kbuf_dyn_get takes, still under kbuf_dyn_lock.
kbuf_dyn_get(d) == obj' = [obj EXCEPT ![d].ref = @ + 1]

\* Mutant: the device is the one its cdev belongs to (container_of).
kbuf_open_container(p) ==
  /\ proc[p].pc = "open"
  /\ LET d == proc[p].icdev
     IN /\ proc' = [proc EXCEPT ![p].pc = "opened", ![p].file = d]
        /\ IF d \in Static THEN UNCHANGED obj ELSE kbuf_dyn_get(d)
  /\ UNCHANGED <<dynVars, buf, modVars>>

\* The minor decides: a static device, or one from the list, or -ENODEV, in
\* which case the VFS drops the cdev again.
kbuf_open(p) ==
  /\ proc[p].pc = "open"
  /\ LET minor == proc[p].id
         found == ListFind(minor - kbuf_ndevices)
     IN \/ /\ minor < kbuf_ndevices
           /\ proc' = [proc EXCEPT ![p].pc = "opened", ![p].file = minor]
           /\ UNCHANGED obj
        \/ /\ minor >= kbuf_ndevices /\ found # {}
           /\ proc' = [proc EXCEPT ![p].pc = "opened", ![p].file = kbuf_dyn_list[Min(found)]]
           /\ kbuf_dyn_get(kbuf_dyn_list[Min(found)])
        \/ /\ minor >= kbuf_ndevices /\ found = {}
           /\ proc' = [proc EXCEPT ![p].pc = "cdev_put"]
           /\ UNCHANGED obj
  /\ UNCHANGED <<dynVars, buf, modVars>>

\* The log line of kbuf_open, which reads dev_name(dev->dev).
kbuf_open_log(p) ==
  /\ proc[p].pc = "opened"
  /\ proc' = Return(p)
  /\ UNCHANGED <<obj, dynVars, buf, modVars>>

\* The last reference to the file goes: the descriptor is closed and nothing
\* maps it any more.
close(p) ==
  /\ proc[p].pc = "idle" /\ proc[p].file # NoDev
  /\ proc' = [proc EXCEPT ![p].pc = "release"]
  /\ UNCHANGED <<obj, dynVars, buf, modVars>>

kbuf_release(p) ==
  /\ proc[p].pc = "release"
  /\ PutIfDynamic(proc[p].file)
  /\ proc' = [proc EXCEPT ![p].pc = "cdev_put", ![p].file = NoDev]
  /\ UNCHANGED <<kbuf_dyn_list, created, buf, modVars>>

\* After release, or after a failed open, the VFS drops the cdev and with it
\* the module reference.
cdev_put(p) ==
  /\ proc[p].pc = "cdev_put"
  /\ obj' = [obj EXCEPT ![proc[p].icdev] = CdevPut(@)]
  /\ proc' = [proc EXCEPT ![p] = NoCall]
  /\ UNCHANGED <<dynVars, buf, modVars>>

CtlStep(p) ==
  \/ kbuf_dyn_create_struct(p) \/ kbuf_dyn_create_alloc(p)
  \/ kbuf_dyn_create_register(p) \/ kbuf_dyn_create_fail(p)
  \/ kbuf_ctl_create_user(p) \/ kbuf_dyn_teardown(p)
FileStep(p) == kbuf_open(p) \/ kbuf_open_log(p) \/ kbuf_release(p) \/ cdev_put(p)
=============================================================================
