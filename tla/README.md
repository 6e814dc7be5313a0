# A TLA+ model of the kbuf driver

kbuf is a Linux character device: a bounded ring of slots, each holding one
message, that producers `write()` and consumers `read()`. The same device offers a
ring of bytes that two processes share by `mmap`, can be exported as a dma-buf, and
can be created and destroyed at run time. This directory holds TLA+ modules for
these parts, TLC configurations that check them on small instances, and TLAPS
proofs, for every number of threads and every geometry, that the data path and the
mmap ring keep their invariants and implement the FIFOs they promise, and that from
insmod to rmmod no device, reference or minor is lost, shared or freed too early.

Line numbers refer to `src/*.c`, `include/*.h` and `bench/kbuf_bench.c` of the
repository, DESIGN.md and DEBUGGING.md to its `docs/`.

## The system

| Part | Source | State | Entry points | Modelled |
|---|---|---|---|---|
| Ring, blocking discipline | `kbuf_ring.c` 64-121, `kbuf_main.c` 100-130, 168-202 | `slots`, `read_pos`, `write_pos`, `count`, counters, `lock`, two wait queues | `read`, `write` | `KbufBlocking` |
| Ring, lock-free SPSC discipline | `kbuf_ring.c` 124-189, `kbuf_main.c` 137-156, 204-227 | `prod_idx`, `cons_idx`, `slots`, counters | `read`, `write` | `KbufSpsc` |
| Poll | `kbuf_main.c` 247-270 | hooks on both wait queues | `poll`, `select`, `epoll` | `KbufPoll` |
| Ring ioctls | `kbuf_ioctl.c` 33-156 | geometry, mode, counters | GSTATS, RESET, RESIZE, SMODE | `KbufIoctl` |
| Dynamic devices | `kbuf_ctl.c`, `kbuf_main.c` 60-97 | id allocator, device list, kref, cdev | CREATE, DESTROY, `open`, `release` | `KbufCtl` |
| dma-buf | `kbuf_dmabuf.c`, `kbuf_ioctl.c` 158-182 | a device reference per buffer | EXPORT, IMPORT | `KbufDmabuf` |
| Load and unload | `kbuf_main.c` 285-424 | device array, class, region, control device | `kbuf_init`, `kbuf_exit` | `KbufLoad` |
| mmap ring | `kbuf_mmap.c`, `libkbuf.h` | `head`, `tail`, bytes mapped twice | `mmap`, faults, `kbuf_map_*` in user space | `KbufMmap` |
| Benchmark | `kbuf_bench.c` | two processes | mmap throughput and latency | `KbufMmap` |
| /proc, debugfs | `kbuf_proc.c`, `kbuf_debugfs.c` | none | read-only reports | creation and removal only |
| C++ wrapper, trace points | `kbufpp.hpp`, `kbuf_trace.h` | none of interest | | no |

Concurrency. Any number of processes call into one device. In blocking mode the
ring is guarded by `lock`, which is dropped to sleep and is not held while the
other side is woken. In SPSC mode nothing is locked: correctness rests on one
producer, one consumer and on who stores which index. The ioctls take `lock` in
both modes, which excludes blocking calls but not SPSC calls; `kbuf_ioctl.c`
133-137 therefore asks callers to keep I/O away while they switch modes. RESIZE of an
SPSC device would need the same and asks only for an empty ring. Signals end sleeps, copies to and from user memory fault. Nothing is persisted.

There are three models. `KbufDevice` is one device that exists, and the threads
in its calls. `KbufLifecycle` is the module and all its devices, and the threads
that make, open, export and destroy them. `KbufMmap` is two processes on the shared
pages of one device. They meet only where one rests on the other: `read`, `write`
and the ring ioctls run on an open file, and mapped bytes on mapped pages, both of
which `HeldAlive` keeps in existence; no ring call changes what the lifetime model
tracks (RESIZE replaces the slots by other slots).

## Modules

The data path:

- `KbufDev` declares the constants, the fields of `struct kbuf_dev`, the threads
  and their locals, the ring predicates, the mutex and the wait queues (external
  kernel code, modelled from its use), and what callers keep to.
- `KbufBlocking`, `KbufSpsc`, `KbufPoll`, `KbufIoctl` hold the steps of the calls.
  An action is named after the function it belongs to, with a suffix for the part.
- `KbufFifo` is the abstract specification: a bounded FIFO of datagrams with
  `Put`, `Get` and `Resize`.
- `KbufDevice` composes the calls, states fairness and every property, and maps
  the device onto `KbufFifo`.
- `KbufInv` strengthens the wake-up, queue, counter and clamp properties to inductive
  invariants, and names the hypotheses of the theorems.
- `MCKbufDevice` names the threads for TLC.
- Operators commented `Mutant:` are plausible bugs of the definition after them. No
  action uses them; putting one in place of its original makes a property fail, as
  PROJECT.json lists.
- `KbufDeviceProofs` starts from lemmas on remainders and proves types, the mutex and
  the wake-ups, and what the steps of readers and writers do to the queue;
  `KbufQueueProofs` extends it with the other calls and proves the queue, the
  refinement and the counters.

Lifetime, from insmod to rmmod:

- `KbufLife` declares the state: for each device which of its allocations exist, its
  kref, its cdev's reference count, whether it is in the kernel's map and whether it
  has a struct device; the list and the id allocator; for each thread the call it is
  in, its open file and the dma-buf it exported; the module-wide resources and the
  progress of `kbuf_init` or `kbuf_exit`. It also holds `kref_put`, `cdev_del`,
  `cdev_put` and the module's use count.
- `KbufCtl` has CREATE, DESTROY, `open` and `release`, `KbufDmabuf` has EXPORT and
  IMPORT, `KbufLoad` has `kbuf_init` and `kbuf_exit`.
- `KbufLifecycle` composes them and states the properties; `KbufLifeInv` strengthens
  them to an inductive invariant; `MCKbufLifecycle` names the threads for TLC.
- `KbufLifeSteps` holds the lemmas on lists, references and threads and the proof for
  `kbuf_init` and `kbuf_exit`; `KbufCtlProofs` (CREATE and DESTROY) and `KbufUseProofs`
  (files, and EXPORT up to its dma-buf) extend it; `KbufDmabufProofs` extends the latter
  with the steps that drop a reference to a dma-buf and IMPORT; `KbufLifecycleProofs`
  puts all together and derives the properties.

The mmap ring: `KbufMmap` has the mapping, the two sides of the ring and the programs
that start them; `KbufByteFifo` is the FIFO of bytes it implements; `KbufMmapProofs`
holds the proofs.

How a call is cut into steps. A step is the longest piece of code that no other
thread can observe half done. In blocking mode: taking the mutex, testing the
ring, copying (a separate step because it may fault), committing and unlocking,
waking. In SPSC mode: the predicate, the slot pointer, the copy, the release
store of the index, the load and the store of the message counter, the peak, the
wake-up. `wait_event_interruptible` is three steps: queue, test, sleep. The
GSTATS/RESIZE/SMODE occupancy is two loads, as in `kbuf_occupancy`. In the lifetime
model a step is one acquisition that may fail, one registration with the kernel, one
section of `kbuf_dyn_lock` or one reference dropped; a failing step undoes, in the
same step, what its error label undoes, since no other thread can tell these apart.
In the mmap ring a step is one load, one store or one byte of a `memcpy`.

Abstractions. A payload is a number and 0 is uninitialised memory; a length is a
number. The slot pointer of an SPSC call names the allocation it points into, so
an access after RESIZE has freed the array is visible. Acquire and release become
program order. `i & (num_buffers - 1)` is `i % num_buffers`, equal for powers of
two. `bytes_*`, `*_sleeps`, trace points and log lines are left out. A request
that fails before it touches the device (bad argument, no memory) is a step not
taken. Histories (`sent`, `delivered`, `base`, `nextMsg`) record what write
accepted, what read returned, and where both stood at the last RESET.

Two constants say what callers do. `Quiesce` is the calling contract of SMODE
(`kbuf_ioctl.c` 133-137): with TRUE, SMODE starts only when nobody is in `read`,
`write` or `poll`, and nobody enters until it is done. Every run uses it.
`ResizeApart` says that they treat RESIZE of an SPSC device the same way. The
repository does not ask for that, so it is an assumption of this project, made where
the queue of an SPSC device is to survive a RESIZE; the run `spsc_resize` drops it and
shows why it is needed. Both restrict which calls are made (`CtlCall`, `IoAllowed`);
the handlers themselves have no guard that the code does not have. RESIZE swaps the
geometry in one step; without `ResizeApart` an SPSC call could also see it half
swapped, so `spsc_resize` explores a part of what the code can do then. Three of the
theorems (`TypeCorrect`, `MutexCorrect`, `ClampSurvives`) hold of the model whatever
the two constants are.

In the lifetime model a thread has at most one open file and one dma-buf of its own,
and may import and close the other's, because descriptors are shared. An open file
stands for the `struct file` with everything that pins it, mappings included. A
dynamic device gets a new number each time, so that a stale pointer stays
recognisable; the ids are reused. `chrdev_open` finds a cdev in the kernel's map or
through an inode that still caches it, as the VFS does. Allocations of the kernel's
own (inode, file, misc device) are not tracked. /proc and debugfs entries are taken
to be created: `kbuf_init` ignores their failure, and removing what does not exist
does nothing. A thread that keeps `/dev/kbuf-ctl` open between calls only delays
rmmod and is left out. `EarlyOpen` says whether a static device may be opened while
`kbuf_init` is still running.

In the mmap ring a byte is its position in the producer's stream, so every loss,
repetition or swap shows. A process asks for sizes from one of `SizeSets`. With
`ResetFirst` the ring is mapped and reset before the producer is forked (`latency`),
without it the consumer resets after the fork (`run_once`).

## Runs

Data path (module `MCKbufDevice`). Bounds: rings of one to three slots (empty,
full, wrap of the positions, one size that is no power of two), lengths up to 3
against slots of 1 or 2 bytes (a write of 3 is clamped, a read of 1 truncates),
indices modulo 4 so that they wrap, and `MaxMsgs` write calls. Four calls let a ring
of three slots wrap and take the SPSC indices through their wrap (`modes` with five, 1.2
million states, has been run once on the side with the same result). Three is the least
for the case `contention` is about: a writer is woken for a free slot, a rival fills
it first, and the woken one must test again. Faults, signals and poll timeouts may happen in
every run wherever the code handles them. Deadlock is checked, but says little
here, because a signal can always end a sleep; that nobody is left asleep is what
`NoLostWakeup` and the progress properties state.

In the passing runs RESIZE never makes slots smaller. A blocking writer that
sleeps across such a RESIZE copies past the end of its slot (run `stale_clamp`);
what memory holds after that is outside the model, so no property that depends on
it is checked for such a RESIZE. The theorems put no bound on RESIZE, but where they
speak of contents they describe the code only while no copy runs past its slot;
`ClampSurvives` proves that none does when RESIZE does not shrink the slots.

| Run | Instance | Checks |
|---|---|---|
| `contention` | blocking, 2 readers, 2 writers, RESET, GSTATS, 1 slot, 3 messages | `MutexDiscipline`, `NoLostWakeup`, `FifoOrder`, `PeakBounds`, `StatsAccount` |
| `modes` | both disciplines, SMODE and RESIZE with I/O kept away (`Quiesce`, `ResizeApart`), 1 to 3 slots, 4 messages, index wrap | `TypeOK`, `WakeupInv`, `QueueInv` (with `FifoOrder`, `PeakBounds`), `SlotExclusive`, `StatsAccount`, `SpscPowerOfTwo`, `ImplementsFifo` |
| `poll_live` | both disciplines, 1 poller, fairness, O_NONBLOCK too | `NoLostPollWakeup`, `PollLoadInv`, `ReaderServed`, `WriterServed`, `PollerServed`, `MutexReleased`, `EveryMessageDelivered` |

What they show, beyond types: no interleaving loses, duplicates, reorders or
corrupts a message; no sleeper or poller is left behind; no path keeps the mutex;
the message counters account for every message; the high-water mark stays within
the capacity and, in blocking mode, at or above the depth; the SPSC reader and
writer never meet in one slot, also across the index wrap.

Lifetime (module `MCKbufLifecycle`). `lifecycle` loads two static devices (or is
refused: 0 and 3 are out of range), lets every step of `kbuf_init` fail, and then has
two threads create, destroy, open, close, export and import at will, with two CREATEs
over all; the module may be unloaded and loaded again. Two threads are enough for
each pair of calls to race, two dynamic devices for a minor to be wanted by a second
device while the first lives or dies. One static device is opened: they are alike.
The threads are interchangeable and no property names one, so symmetry is used; no
liveness is checked. A larger instance (one or two static devices, both opened, no
symmetry; 5.4 million states) has been run once on the side, with the same result.

| Property | Says |
|---|---|
| `LifeInv` | the inductive invariant of the proofs (below) |
| `RefBalance` | each kref and dma-buf count equals its holders; a device with none is freed |
| `HeldAlive` | what an open file, a dma-buf, the list, the VFS or an import can reach exists |
| `MinorExclusive` | the ids given out are those of the devices that exist, one each |
| `NothingLost` | every allocation has somebody who will free it, and a finished call holds nothing |
| `OpensListedOnly` | only a device on the list gains an open file |
| `TeardownExact` | on `err_devices` and in `kbuf_exit` exactly the devices to tear down are complete |
| `NothingLeft` | a module that is not loaded has left nothing behind |
| `ExitAlone` | `kbuf_exit` runs beside no call, file or dma-buf |
| `ReachableReady` | a device in the kernel's map has its whole ring |

The mmap ring (module `KbufMmap`). `mmap` moves 20 bytes through a ring of 8 with
pages of 2 and indices modulo 16: two and a half turns of the ring and one wrap of
the indices, records across the end of the ring and so in the second mapped copy.
Requests are all of 2 bytes (divides the capacity), all of 9 (more than the ring
holds), or a mixture of 1, 3 and 5. `StreamInv`: the indices count the bytes, and
every unread byte lies where its position says. `CopiesApart`: neither `memcpy` touches a byte the
other side may touch. `ImplementsByteFifo`: the ring is the FIFO, at every moment.
`WholeRecords`: records of one size that divides the capacity are never split, which
`latency` relies on. `RunMovesTotal`: both programs end.

Disagreements between the code and its comments or docs, each a run in which TLC
finds the property violated:

| Run | What happens |
|---|---|
| `stale_clamp` | `kbuf_write_blocking` clamps `count` before it sleeps. RESIZE makes the slots smaller meanwhile, and `kbuf_ring_produce` gets a count above `buffer_size`, against its contract (`kbuf_ring.c` 98-100). |
| `resize_smode_race` | RESIZE reads `mode` before it takes the mutex; SMODE in between leaves SPSC on a ring of three slots, which DESIGN.md 159 says is excluded. |
| `spsc_resize` | RESIZE of an SPSC device in use. The mutex does not stop the writer, who publishes a message after RESIZE has loaded `prod_idx` for its emptiness test; the slots are replaced, the indices zeroed, and the message is lost, against DESIGN.md 89-92 ("never loses data"). The same RESIZE changes `buffer_size` under a write that has clamped its count, against `kbuf_main.c` 209 ("buffer_size is stable in SPSC mode (resize requires an idle ring)"). |
| `reset_peak` | RESET sets the peak from `count`, which SPSC mode does not keep: on an SPSC ring that holds a message, with nobody in a call, the peak becomes 0, against `kbuf_ioctl.c` 8 and DESIGN.md 98-99 ("sets `peak_count` to the current depth"). |
| `destroyed_name` | `open`, `release` and EXPORT read `dev_name(dev->dev)` after DESTROY has destroyed that struct device; kbuf.h 96-97 says a destroyed device stays alive until its last close. The kref covers the ring and the struct, not the struct device. |
| `half_init` | A static device opened between `cdev_add` and the assignment of `dev->dev` logs the name of a device that is not there yet; DESIGN.md 84-86 says it is never reachable half-initialised. Ring, mutex and queues are ready (`ReachableReady`). |
| `bench_reset` | `run_once` resets the ring in the consumer after forking the producer; bytes written before are lost and the consumer waits for ever. libkbuf.h 59 asks for the reset before both start. |

## Fairness

`LiveSpec`: a thread inside a call takes its next step if it stays able to (weak
fairness: the scheduler), and a thread waiting for the mutex eventually gets it
when it is free again and again (strong fairness: the kernel mutex hands over to
waiters). Nothing forces a call to be made, a signal to arrive or a copy to
fault. `EveryMessageDelivered` assumes in addition (`Served`) that readers keep
calling `read` and that not all their copies fault. In `KbufMmap` both processes spin
or yield and both are scheduled. Symmetry between threads of one kind is used only by
`contention` and `lifecycle`, which check no liveness.

## Proofs

### Data path

For every set of threads, geometry, request set and bound that satisfies the three
assumptions of `KbufDev` (threads of different kinds are different, sizes are
positive and the index range is a multiple of every power-of-two capacity, requests
have their types). Some theorems have further hypotheses:

| Hypothesis | Says | Why |
|---|---|---|
| `Contract` | no I/O beside SMODE (`Quiesce`); if SPSC mode can occur, one reader, one writer, and no I/O beside a RESIZE of an SPSC device (`ResizeApart`) | `kbuf_ioctl.c` 133-137 and `kbuf_ring.c` 124-126 ask for the first two; nothing asks for the third, and without it a RESIZE loses messages (`spsc_resize`) |
| `SoleSwitcher` | if both SMODE and RESIZE are used, one thread at most makes ioctls | without it the capacity of an SPSC ring need not be a power of two (`resize_smode_race`) |
| `ResetsApart` | no RESET on a device that uses SPSC mode | its counters are loads and stores outside the mutex |
| `SlotsNeverShrink` | no RESIZE makes the slots smaller | `stale_clamp` |

- `TypeCorrect`: `Spec => []TypeOK`, with or without the calling contract. The
  interesting conjuncts are that the slot array has exactly `num_buffers`
  elements and positions stay inside it across RESIZE. It is inductive once the
  arguments of a RESIZE under way are known to be within bounds (in `CallType`).
- `MutexCorrect`: `Spec => []MutexDiscipline`. Inductive with `TypeOK`; every step
  is shown to enter, leave or keep its locked section together with the lock.
- `WakeupInvariant`, and from it `WakeupsNotLost`, `PollWakeupsNotLost` and
  `PollLoadsCurrent`: under `Contract` no reader, writer or poller sleeps through its
  event. The property alone is not inductive. `ContractInv` says that a call runs in
  the discipline now in force, so that the predicate a sleeper waits for is the one
  the other side changes. `SectionInv` says that the result of the check under the
  mutex still holds at the commit. `PollLoadInv` covers the poller between its two
  loads.
- `QueueInvariant`, and from it `MessagesInOrder` (`FifoOrder`), `SlotsNotShared`,
  `CapacityMasks` and `PeakInBounds`: under `Contract` and `SoleSwitcher` messages come
  out in the order they went in, each once, and the two sides of an SPSC ring never copy in one
  slot. `QueueInv` adds to `FifoOrder` that the two representations of the ring each
  enclose at most a full ring (`RingInv`), that a call between its copy and its
  update of the ring works on the oldest message or the first free slot, with a stale
  index that is still the right one (`CallInv`), that what RESIZE and SMODE have
  loaded for their emptiness test is current (`OccupancyInv`), and that a RESIZE was
  validated against the discipline in force (`GeometryInv`). Every step is shown to
  keep the queue, append to it, take from it or replace an empty one (`QueueStep`);
  that each of the four keeps the order is one lemma (`QueueStepOrder`).
- `DeviceImplementsFifo`: under the same hypotheses `Spec => ImplementsFifo`. The four
  kinds of `QueueStep` are `Put`, `Get`, `Resize` and stuttering steps of `KbufFifo`.
- `CountersAccount`: under `Contract` and `ResetsApart` the counters account for every
  message. `StatsInv` adds that an SPSC call about to store a counter has loaded its
  current value.
- `ClampSurvives`: under `SlotsNeverShrink` alone a writer's count fits its slot at the
  copy in both disciplines (`ProduceClamped`, `SpscClamped`), however often it slept and
  whatever its callers do beside it: RESIZE of an SPSC device in use and unquiesced
  SMODE included.

The frame lemmas at the head of `KbufDeviceProofs` show once which variables the
steps of each kind of thread leave alone; the invariance proofs cite them and then
look only at the steps that matter, through summaries of a step's effect on the ring
and the queues.

### The mmap ring

For every capacity, page size, index range that is a larger multiple of the capacity,
request sizes and total (the assumption of `KbufMmap`; that the capacity is a power of
two is not needed, only that `i & (cap - 1)` is the remainder), if the ring is reset
before the producer starts (`ResetFirst`; `bench_reset` shows what happens otherwise):

- `StreamInvariant`: `Spec => []StreamInv`. Head and tail are the numbers of bytes
  written and read modulo the index range; the copies in progress stay within one
  capacity; position s of the stream lies at s modulo the capacity from its copy in to
  its copy out, through either of the two mapped copies.
- `CopiesNeverMeet` (`CopiesApart`), `CopiesInsideMapping` (no `memcpy` runs past the
  doubled mapping) and `RingImplementsByteFifo` (`Spec => ImplementsByteFifo`) follow.
- `RecordsStayWhole`: records of one size that divides the capacity are never split,
  from the stronger `RecordInv`: all counts are multiples of the record size.

### Lifetime

For every finite set of threads, number of static devices, minors and CREATEs, and
every set of requested device counts (the assumptions of `KbufLife`), if no file is
opened before `kbuf_init` has returned (`LoadedFirst`; an open that races a failing
`kbuf_init` keeps a ring that is then freed, and `half_init` shows what it sees).

- `LifeInvariant`: `Spec => []LifeInv`. `RefBalance` and the other properties are not
  inductive: that `kref_put` frees at the right moment needs to know who the holders
  are, and that needs the step every thread is at. `LifeInv` has a part for each kind
  of thing. `ProcInv`: the locals of a thread fit its step, and an IMPORT holds what
  it has acquired so far. `BufInv`: a dma-buf is counted by its descriptor, the EXPORT
  about to install one and the IMPORTs using it. `DynInv`, for a dynamic device: its
  kref is the number of registrations, files, dma-bufs and EXPORTs that hold it
  (`Holders`), its cdev is counted by the driver and the inodes that cache it
  (`CdevInv`), exactly one of the list, a CREATE and a DESTROY owns the registration
  (`OneOwner`), what exists of it fits the step of that CREATE or DESTROY (`StageInv`)
  and memory follows the two counts (`MemInv`). `MinorInv`: an id given out has one
  owner. `StaticInv` and `LoadInv`: the static devices and the module-wide resources
  fit the step of `kbuf_init` or `kbuf_exit`, and nobody is in a call unless the module
  is live.
- `ReferencesBalance`, `HeldStaysAlive`, `MinorsExclusive`, `AllocationsOwned`,
  `TeardownIsExact`, `UnloadLeavesNothing`, `ExitRunsAlone` and `ReachableIsReady`: the
  eight safety properties of `KbufLifecycle`, each by a lemma from `LifeInv`.
- `OnlyListedOpened`: `Spec => OpensListedOnly`. No step but `kbuf_open` gives a thread
  a file, and `kbuf_open` takes a static device or one it found on the list.

The proofs go action by action. What an action does to a record is stated field by
field first (`Now`, `GoesEffect` and the like). A step that adds or drops a user of a
device changes one holder set by one element, which moves the cardinality and the
count together (`UseCount`); all other devices are shown unchanged once
(`SameElsewhere`, `OwnersKeep`).

### Only model-checked

- All liveness (`ReaderServed`, `WriterServed`, `PollerServed`, `MutexReleased`,
  `EveryMessageDelivered`, `RunMovesTotal`): fairness and ENABLED are outside the
  prover's reach.

## Not modelled

- What RESET does to the message counters beside SPSC calls, and what a snapshot
  reports in SPSC mode. The counters are plain loads and stores there: a RESET between
  the two is undone, and the two loads of `kbuf_occupancy` may be apart. The actions
  are in the model; no property constrains these outcomes.
- What memory holds after a RESIZE of an SPSC device in use, beyond the lost message
  of `spsc_resize`: a call with a pointer into the freed array reads garbage or writes
  nowhere in the model.
- `kbuf_init` that fails after a static device was opened: the driver frees a ring
  that an open file refers to. Such opens happen only with `EarlyOpen`, which the
  passing run does not set.
- In the importer self-test the two words it copies, and `kbuf_dmabuf_mmap`, a plain
  mapping of pages `HeldAlive` already covers; the cpu-access hooks are empty.
- What /proc and debugfs print; trace points; the C++ wrapper, whose methods are one
  system call each; the pipe and slot transports of the benchmark (the latter are the
  data path), its timing, and its exit when the device cannot be mapped.
- Weak memory beyond what acquire and release order: they are program order here,
  and the two relaxed stores of `kbuf_map_reset` may come in either order.

## Plan

Liveness of the lifetime model: a destroyed device is eventually freed once its files
and dma-bufs are closed.
