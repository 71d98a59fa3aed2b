# A TLA+ model of the diosix hypervisor

diosix is a small hypervisor for RISC-V machines.  Every physical CPU core runs
the same code: it boots, waits for the boot core to create the *boot capsule* (a
virtual machine with its own RAM and virtual cores), and then, driven by a timer
interrupt, shares out the capsules' virtual cores with the other cores.  This
directory models that code, checks it with TLC, and proves the main safety
properties with TLAPS.  Paths below are relative to `src/src/hypervisor/`.

## The system and its parts

| part | source | module | status |
|---|---|---|---|
| boot | `main.rs`, `pcore.rs` (`init`) | `Hypervisor`, `Locks`, `Interrupted` | modelled |
| capsules | `capsule.rs` | `Hypervisor`, `Service` | modelled |
| virtual cores | `vcore.rs` | `Hypervisor` | modelled |
| scheduler | `scheduler.rs` | `ScheduleQueues`, `Hypervisor` | modelled |
| physical cores, context switch | `pcore.rs` | `Hypervisor` | modelled |
| interrupts, exceptions | `irq.rs` | `Hypervisor`, `Locks`, `Interrupted` | modelled |
| physical memory | `physmem.rs` | `PhysMem`, `RamPool` | modelled |
| loader | `loader.rs` | `Loader`, `CapsuleMemory` | modelled |
| virtual memory mappings | `virtmem.rs` | `Mapping`, `CapsuleMemory` | modelled |
| services | `service.rs` | `Service` | modelled |
| messages | `message.rs` | `Hypervisor`, `Service` | the messages that are sent |
| heap | `heap.rs` | `Heap` | modelled |
| hardware lock, debug console | `hardware.rs`, `debug.rs` | `Locks` | modelled |
| order of the locks | all of the above | `LockOrder`, `Locks` | modelled |
| allocation failure, panic, error codes | `heap.rs`, `main.rs`, `abort.rs`, `error.rs` | `Exhaustion` | the allocation failure |
| build script | `build.rs` | | runs on the build host |
| platform code | not in the repository | | external |

How they interact: `hvmain` initialises a core (`pcore`), and on the boot core
the hardware and the RAM, then calls `create_boot_capsule`, which takes RAM from
`physmem`, loads the supervisor, and puts virtual cores on the scheduler's global
queues.  The interrupt handlers call `run_next`, which takes a virtual core off
the global queues or the core's own, and `context_switch`, which swaps it with
the running one and has `capsule::enforce` set the memory protection.  A fatal
exception destroys the capsule; dropping it frees its RAM and its services.  All
of them print, to a queue of text that `housekeeping` sends to the debug port.

## The modules

**`ScheduleQueues`** has the two-level queue as operators on its value.

**`Hypervisor`** is the core.  `pc[p]` is where core `p` is; an action is the code
between two lock acquisitions, with all that happens while the lock is held.  The
lock of `GLOBAL_QUEUES` is the one held across actions (`globalLock`): `run_next`
takes it in the scrutinee of a `match`, so Rust keeps it until `context_switch`
has returned.

| actions | code |
|---|---|
| `PhysicalCoreInit`, `SetupHardware`, `SetupFails`, `SetInitDone`, `WaitForInit`, `StartTimer` | `hvmain`, `PhysicalCore::init` |
| `CreateCapsule`, `AllocRegion`, `MapMemory`, `LoadSupervisor`, `QueueVirtualCore`, `AddVirtualCore` | `create_boot_capsule` and what it calls |
| `TimerInterrupt`, `FatalException`, `DestroyCapsule` | `irq.rs`, `capsule::destroy`, `Capsule::drop` |
| `UnhandledException` | `exception`: the core halts for good, with the virtual cores it has |
| `AdoptOrphan`, `TakeWaiting`, `NothingWaiting`, `ManagementCore` | `run_next` |
| `SwitchOut`, `SwitchIn` | `context_switch`, `capsule::enforce` |
| `Housekeeping` | `housekeeping`, `message::send` |

Today's program creates one capsule, with one virtual core, before `INIT_DONE`.
That is the instance `MaxCapsules = 1`, `Cpus = 1`, `Callers = {}`.  The locks,
IDs and tables of the code are there for more: `create_boot_capsule` is public,
and the cores in `Callers` call it again later.  A region of RAM is an element of
a set here; how regions are cut is `PhysMem`'s subject.  Printing, saved register
state and the heap are left out.  The `restart` flag of a capsule is set and never
read, so nothing restarts a boot capsule.

**`Locks`** looks at the same handlers from the other side: a handler is the
sequence of its steps on locks (`code[p]`), one acquisition per step, with each
branch a sequence of its own, and what it does to capsules and queues is left
out.  So it has what `Hypervisor` takes for granted: that a section under a lock
ends, and that locks nest without deadlock.  It has the debug console (`hvprint`,
the queue of text, `drain_queue`) and the hardware lock with `OWNER` and the
forced unlock.  A core takes its first interrupt when its timer is on, which
happens inside `hvmain` with `HARDWARE` held; `thread[p]` is what is left of
`hvmain` then.  That no other interrupt comes earlier is an assumption, and not
the code's: `hvmain` "assumes hardware and exception interrupts are enabled"
(`main.rs:117`), although nothing under `hypervisor/` enables any but the timer's.
All that is said of `Locks` below holds under it.
**`LockOrder`** is the discipline by itself: locks have ranks, and a core asks
only for one above those it holds.  `Locks` implements it (`LocksOrdered`).
**`Exhaustion`** adds one step to `Locks`: the heap runs out when text is queued.
**`Interrupted`** drops the assumption: it adds to `Locks` an interrupt between any
two steps of `hvmain`.

**`PhysMem`** is the sorted list of free regions.  Every operation holds the lock
of `REGIONS`; the loops of `init` and `merge` take a step per iteration.
**`RamPool`** is what it promises: a pool of addresses from which regions are
handed out and to which they return.  `PhysMem` implements `RamPool` under the
mapping of the list to the set of its addresses (`ImplementsPool`).

**`Loader`** and **`Mapping`** are functions: where `load` copies the headers of an
image and what it returns, and the translations between physical and virtual
addresses.  **`CapsuleMemory`** composes them with `PhysMem`: each region that is
handed out is mapped, and each image loaded into it.

**`Service`** has the services and the capsules' rights to offer them.  Nothing in
the program calls these functions yet; the model lets any core call any of them.
`register` takes two locks one after the other, and `drop` takes the lock of
`SERVICES` once per service with that of `CAPSULES` held, so these are several
actions.

**`Heap`** is one core's heap.  The owner's passes over the list take a step per
block; other cores may free a block of it at any step.

## What is checked

| run | instance | result |
|---|---|---|
| `creation` | 3 cores, one without supervisor mode; 3 capsules of 1 virtual core over 2 regions | 353,578 states |
| `switching` | 2 cores, 2 capsules of 2 virtual cores, high and normal | 112,212 states |
| `locks` | 2 cores, one without supervisor mode; the last 2 pieces of text | 215,605 states |
| `physmem` | RAM of 18 units in 3 sections, two adjoining, listed out of order; unit of allocation 2; images of 1 to 3 headers | 15,243 states |
| `services` | 2 cores, 2 capsules, 2 services, 2 messages | 7,405 states |
| `heap` | 22 bytes, blocks of 4, header of 1, three sizes | 66,156 states |
| `starvation`, `destroy`, `late_register`, `drop_services`, `exhaustion`, `interrupted` | smallest that show it | violated |

What holds:

- `OnePlace`, `NoneLost`: a virtual core is in exactly one place and never lost;
- `LiveIsolation`: while a supervisor of a living capsule runs, the memory
  protection is exactly its RAM, although switches within a capsule skip it;
- `RamAccounted`: each region is free or has one owner, through failed creations
  and crashes;
- `RegistryExact`, `LastCoreHint`, `WorkloadExact`, `BootCapsuleFirst`: the tables
  agree with each other, and nothing runs before the boot capsule is complete;
- `OrphansRun`, `HighsRun`: a virtual core that waits for a physical core gets
  one, also after other cores have halted, and one of high priority runs again and
  again; only what a halted core has stays with it;
- `LocksOrdered`, `HandlersEnd`: the locks nest in one order, and no core waits
  for ever, not even for the hardware lock that it held when it was interrupted.
  `HandlersEnd` excepts the cores that wait for `INIT_DONE` when the boot core has
  given up: they do wait for ever;
- `LinesWhole`, `TextOnce`: messages of several cores are not mixed, and text is
  neither lost nor written twice;
- `HardwareExclusive`: one core at a time uses the devices, until a core resumes
  `hvmain` (see below);
- `SortedDisjoint`, `MergeComplete`, `ImplementsPool` for the RAM, and
  `HeldRounded`: a region is what was asked for, rounded up and by less than a unit;
- `LoadStaysInside`, `EntryIsLoaded`, `MappingExact`: loading writes only to the
  region, the entry is copied to the address `load` returns *plus the physical
  address of its header*, and a capsule's mapping reaches its region and nothing
  else.  The first is for images laid out as the test in `load` expects
  (`WellPlaced`): it compares a header's file offset and memory size with the
  region, and copies by physical address and file size.  The second is for images
  that store the entry in the file and copy no later header over it;
- `OwnerAllowed`, `NoTakeover` for services;
- `Tiling`, `HeldExactly`, `AllocEnds` for the heap, and `FailsOnlyIfFull`: `alloc`
  gives up only if no free block is large enough and `consolidate` would merge
  nothing more.

What does not, and a comment or a message in the code says it does:

- normal virtual cores starve: only `ScheduleQueues::run` counts timeslices of
  high priority, and nothing calls it (`starvation`);
- `destroy` frees a capsule's RAM at once, not when its virtual cores are gone
  (`destroy`);
- `register` may enter a service for a capsule that has just died
  (`late_register`);
- dropping a capsule deregisters services that others hold (`drop_services`);
- a core that runs out of heap while it prints does not report it and halt: the
  report waits for `DEBUG_LOCK`, which the core holds (`exhaustion`);
- an interrupt that is not the timer's may keep `hvmain` from finishing, on one core
  already: if it comes while `hvmain` prints, its own print waits for `DEBUG_LOCK`
  (`interrupted`).

Comments that differ from the code in detail only: global queues are looked
at first, not "when a physical CPU runs out of queued virtual cores"
(`scheduler.rs:31`); `housekeeping` asks a core to give up a virtual core when
the global queues are *not* empty (`scheduler.rs:127`); and `consolidate` returns
the largest *merged* block, not the "largest block seen" (`heap.rs:234`).  The
last is what makes `alloc` end: the mutant that follows the comment loops for
ever.  "If we can't squeeze any more bytes out then give up" (`heap.rs:217`) is true
of what `consolidate` tries: a block and its successor in the list, if the successor
lies right above it, and the first two blocks also in reverse.  The list is not
sorted by address, so free blocks that adjoin may stay apart, and a request that
needs both fails.

`hvmain` is not meant to be resumed after the first timer interrupt: its stack
"will be flattened" (`main.rs:167`).  It is, when `run_next` finds nothing to
switch to.  If that interrupt came inside `scheduler_timer_start`, the guard of
`hvmain` unlocks `HARDWARE` a second time, whoever holds it by then.  The variable
`resumed` records this, and `HardwareExclusive` claims nothing after it.

**Bounds.** Three capsules over two regions make creation fail, and let a region
pass from a dead capsule to a new one; two virtual cores per capsule on two cores
make switches within and between capsules happen, with the other core in every
phase.  With two virtual cores of high priority, `HighsRun` sees them compete with
each other and with normal ones; three on one core, where the order of the queue
would matter too, are beyond it.  `MailboxBound` caps mailboxes nobody reads;
messages beyond it are dropped.  `MaxCapsules` caps the capsules ever created; the
wrap-around of IDs is out of the model.  In `Locks` a message has two pieces, and
the queue keeps the latest `QueueBound` of them: enough to see a piece of another
core between; its two cores make every circular wait of two handlers, and
`NoCoresStuck` covers the others.  `Interrupted` has one core, which takes one
interrupt before its timer is on: enough to wait for itself.  In `Heap` a size that is already a
multiple of the block, a remainder too small to carve, and the reverse merge at
the head all occur.

**Fairness.**  `FairSpec` has strong fairness for what a core does inside the
hypervisor and, in `Hypervisor`, weak fairness for its timer.  Handlers run to
completion, and a core waits only for spin locks that others hold for a few
instructions once per timeslice of 50 ms; that such a lock is eventually won is
the assumption, which `spin::Mutex` does not by itself guarantee.  A supervisor
is not assumed to crash, a core to halt, nor a core to create capsules.  In `Locks`
what is left of `hvmain` when the timer is on gets its turn between interrupts:
`interrupt` acknowledges each before it returns (`irq.rs:105`), and a device is
assumed not to raise the next at once, for ever.  In `Heap` the owner of a heap
runs on.

Deadlock is checked in every run but those of `Locks`, where cores halt or wait
for a boot core that failed; `HandlersEnd` is the finer statement there.  In
`Hypervisor` a boot core that gave up, and cores that have all halted, idle
(`Halted`).

## What is proved

For all values of the constants that satisfy the `ASSUME`s:

| theorem | states | module |
|---|---|---|
| `TypeCorrect` | `Spec => []TypeOK` | `HypervisorPlaceProofs` |
| `VirtualCoresInOnePlace` | `Spec => []OnePlace` | `HypervisorPlaceProofs` |
| `NoVirtualCoreLost` | `Spec => NoneLost` | `HypervisorPlaceProofs` |
| `LastCoreKnown` | `Spec => []LastCoreHint` | `HypervisorPlaceProofs` |
| `LiveCapsulesIsolated` | `Spec => []LiveIsolation` | `HypervisorMemoryProofs` |
| `RegistryKeptExact` | `Spec => []RegistryExact` | `HypervisorMemoryProofs` |
| `BootCapsuleIsFirst` | `Spec => []BootCapsuleFirst` | `HypervisorMemoryProofs` |
| `RamHasOneOwner` | `Spec => []RamAccounted` | `HypervisorRamProofs` |
| `WorkloadCounted` | `Spec => []WorkloadExact` | `HypervisorRamProofs` |
| `NoDeadlock` | `Spec => [](Ascending /\ NoCircularWait)` | `LockOrderProofs` |
| `LocksTypes` | `Spec => []TypeOK` | `LocksProofs` |
| `HandlersOrdered` | `Spec => LocksOrdered` | `LocksProofs` |
| `NoCoresStuck` | `Spec => []Order!NoCircularWait` | `LocksProofs` |
| `LinesStayWhole` | `Spec => []LinesWhole` | `LocksProofs` |
| `TextIsWrittenOnce` | `Spec => TextOnce` | `LocksProofs` |
| `HardwareStaysExclusive` | `Spec => []HardwareExclusive` | `LocksProofs` |
| `PhysMemTypes` | `Spec => []TypeOK` | `PhysMemProofs` |
| `FreeListCorrect` | `Spec => []SortedDisjoint` | `PhysMemProofs` |
| `WholeUnits` | `Spec => []HeldRounded` | `PhysMemProofs` |
| `MergeMergesAll` | `Spec => MergeComplete` | `PhysMemProofs` |
| `FreeListIsPool` | `Spec => ImplementsPool` | `PhysMemProofs` |
| `MappingStaysExact` | `Spec => []MappingExact` | `PhysMemProofs` |
| `LoadsStayInside` | `Spec => LoadStaysInside` | `PhysMemProofs` |
| `EntriesLoaded` | `Spec => EntryIsLoaded` | `PhysMemProofs` |
| `HeapTypes` | `Spec => []TypeOK` | `HeapProofs` |
| `HeapTiled` | `Spec => []Tiling` | `HeapProofs` |
| `HeldMatchesUse` | `Spec => []HeldExactly` | `HeapProofs` |
| `GivesUpOnlyIfFull` | `Spec => FailsOnlyIfFull` | `HeapProofs` |
| `ServiceTypes` | `Spec => []TypeOK` | `ServiceProofs` |
| `ServicesAllowed` | `Spec => []OwnerAllowed` | `ServiceProofs` |
| `ServicesKept` | `Spec => NoTakeover` | `ServiceProofs` |

That is every safety property that a passing run checks.  The invariants of
`Hypervisor` build on one another:

- `TypeInv` adds `ControlInv`: what the locals hold at each point, and that the
  core inside the `match` of `run_next` is the holder of the lock.
- `PlaceInv` adds `OnePlace` and `FreshInv`.  `OnePlace` is not inductive alone:
  `QueueVirtualCore` must queue something new, which holds because IDs are not
  reused and a capsule under creation has only the virtual cores its creator has
  queued so far.  `LastCoreHint` is inductive with it: a step changes what one
  core holds, and links exactly that.
- `MemoryInv` says that the protection of a core fits what it runs *or is about
  to run*, and that a capsule has its RAM before it has virtual cores; otherwise
  a switch within a capsule, which enforces nothing, could keep a stale one.
- `BootInv` says that only the boot core is past its initialisation before
  `INIT_DONE`, and that a capsule under creation lives until it has virtual cores
  (only a running virtual core can get it destroyed).
- `RegistryInv` and `FirstInv` say which virtual cores a capsule has while its
  creator is between queueing and registering one, and that the boot capsule has
  those below the creator's index until all are there.
- `RamInv` says that each region has at most one owner; `CountInv`, that the count
  of a core is what it holds, also while a switch is under way, and that what it
  holds is finite.

`HypervisorPlaceProofs` starts with the lemmas on the queues: `queue` and `dequeue`
add and take out one virtual core, and keep queues free of duplicates.

`NoDeadlock` assumes only that ranks are bounded: in a set of cores that all wait
for each other, one waits for a lock of the highest rank, and the holder of that
lock waits for a higher one.

For `Locks`, what a core has yet to do is a sequence of steps, so an invariant
would have to say something of every suffix of every handler.  `LocksProofs` reads
the sequences as programs instead.  The state of a core is the set of spin locks it
holds and how far it is in a line of text or with the hardware (`Modes`);
`Effect(x, u, v)` says when a core may take step `x` in state `u`, and what its
state is then: a lock, for one, must rank above all that is held.  `Runs(s, u, v)`
says that sequence `s` takes a core from `u` to `v`.  Sequences that run can be put
one after the other and inside a lock, and what is left of one after its first step
runs too.  So each function of the code runs because those it calls do, and the
invariant `LocksInv` needs no list of suffixes: what a core has left runs from the
state it is in to one in which it holds nothing, with `holder` and `hardware` saying
what that state says (`CoreInv`).  The rest of `LocksInv` is about what the cores
share (`SharedInv`: lines are whole, text that is written and not yet cleared is the
queue's and `DEBUG_QUEUE` is held, `OWNER` is who has `HARDWARE`), and says that
interrupts are on only after the last step of a handler and before the last one of
`hvmain` (`IrqInv`).  There is one lemma per step.  From `LocksInv`, a core asks
only for locks above those it holds, so `Locks` implements `LockOrder`
(`HandlersOrdered`), and `NoCoresStuck` takes the absence of circular waits over
from `LockOrderProofs`.  `HardwareExclusive` stops at `resumed`, as in the run.

For `CapsuleMemory`, the invariant of `PhysMem` is enough: a region that is handed
out lies within the RAM.  `LoadsStayInside` and `EntriesLoaded` are then arithmetic
on any image with any number of headers, from the test in `load`, and
`MappingStaysExact` on the translations.  They assume of the images and of the
virtual bases only their types, and that `None` is neither a number nor a region.

For `PhysMem`, a sorted list is not inductive: `insert` gives up on a region that
overlaps one in the list.  That it never meets one needs that what is free, what
is handed out and what `init` has still to register share no address
(`AllApart`); `MergedSoFar` says that there is nothing to merge before the cursor.

For `Heap`, `HeapInv` says that blocks share no byte and cover the heap (`Shape`),
that blocks in use and allocations match one to one (`Matched`), and what the
owner's pass has found so far as long as no other core frees a block
(`SearchInv`).  `Shape` needs that the last block of the list is the one at the
start of the heap: `alloc` carves new blocks off the end of a block and puts them
at the head of the list.  So no block ends where the last one starts,
`consolidate` never merges the last one, and its step over the block it has just
merged stays within the list.

For `Service`, a registration that has passed its test and not yet entered the
service must still be allowed when it does: rights are never taken away.

Only model-checked: the liveness properties (`OrphansRun`, `HighsRun`,
`HandlersEnd`, `AllocEnds`), which are out of the prover's reach.

## Not modelled

- `build.rs`: runs on the build host, and has no state the hypervisor sees.
- The platform's code (register state, the physical memory protection, the
  debug port, the timer): not in the repository; the model has what the
  hypervisor relies on.
- The panic handler and the error codes: a print and a halt, and an enumeration.
- Reading messages: nothing in the program takes one out of a mailbox, so
  broadcasts, which nothing sends, and what a receiver does have no meaning yet.
- The wrap-around of capsule IDs (`capsule.rs:204`), which takes 2^64 creations,
  and overflow of sizes near the end of the address space (`physmem.rs:234`).
- Weak memory: locks are taken to order what they protect, as `spin` promises.
