----------------------------- MODULE Hypervisor -----------------------------
(***************************************************************************)
(* The core of the diosix hypervisor: physical cores boot, create          *)
(* capsules, and then share out the capsules' virtual cores among          *)
(* themselves, driven by timer interrupts and by fatal exceptions of the   *)
(* supervisors (main.rs, capsule.rs, vcore.rs, scheduler.rs, pcore.rs,     *)
(* irq.rs).                                                                *)
(*                                                                         *)
(* Every physical core runs the same code concurrently.  pc[p] says where  *)
(* core p is; an action is the code between two acquisitions of a lock,    *)
(* together with everything done while that lock is held.  GLOBAL_QUEUES   *)
(* is the one lock that is held across actions: run_next() takes it in the *)
(* scrutinee of a match, so Rust keeps the guard until the match ends,     *)
(* which is after context_switch().                                        *)
(*                                                                         *)
(* A region of RAM is a member of Regions: how PhysMem cuts regions out of *)
(* the installed RAM is left to that module.                               *)
(***************************************************************************)
EXTENDS ScheduleQueues, FiniteSets

CONSTANTS
  PhysicalCores,  \* the physical CPU cores
  BootCore,       \* BOOT_PCORE_ID
  SmodeCores,     \* the cores that can run supervisor code
  Regions,        \* the RAM regions alloc_region can hand out
  MaxCapsules,    \* bound: capsules ever created (the program creates one)
  Cpus,           \* virtual cores of a capsule (the program uses one)
  Callers,        \* cores whose code calls create_boot_capsule again (the program: none)
  PriorityOf,     \* the priority given to a capsule's virtual cores
  MailboxBound    \* bound: messages kept in a mailbox

CapsuleIDs == 1 .. MaxCapsules
VirtualCoreIDs == 0 .. Cpus - 1

ASSUME CoresAssumption == BootCore \in PhysicalCores /\ SmodeCores \subseteq PhysicalCores
ASSUME SizesAssumption == MaxCapsules \in Nat /\ Cpus \in Nat \ {0} /\ MailboxBound \in Nat
ASSUME PriorityAssumption == PriorityOf \in [CapsuleIDs -> Priority]

VirtualCores == [capsuleid : CapsuleIDs, vcoreid : VirtualCoreIDs, priority : Priority]

ASSUME NoneAssumption ==
  /\ None \notin VirtualCores
  /\ None \notin PhysicalCores
  /\ None \notin Regions
  /\ None \notin [restart : BOOLEAN, vcores : SUBSET VirtualCoreIDs, memory : SUBSET Regions]

VARIABLES
  pc,             \* where each physical core is
  mustSwitch,     \* the argument of the run_next() a core is in
  cid, vid, ram,  \* locals: the capsule, virtual core and region being worked on
  next,           \* local: the virtual core context_switch() is about to run
  initDone,       \* INIT_DONE
  capsules,       \* CAPSULES
  capsuleIdNext,  \* CAPSULE_ID_NEXT
  freeRegions,    \* REGIONS, as a set
  globalQueues,   \* GLOBAL_QUEUES
  globalLock,     \* the core that holds the lock of GLOBAL_QUEUES
  workload,       \* WORKLOAD
  queues,         \* PhysicalCore.queues of each core
  vcores,         \* VCORES: what each core is running
  pcores,         \* PCORES: where a virtual core last ran
  pmp,            \* the RAM the hardware lets each core's supervisor access
  mailboxes       \* MAILBOXES: the senders of the queued messages

flowVars    == <<pc, mustSwitch>>
localVars   == <<cid, vid, ram>>
capsuleVars == <<capsules, capsuleIdNext, freeRegions>>
globalVars  == <<globalQueues, globalLock, workload>>
coreVars    == <<queues, vcores, pcores, pmp>>
vars == <<flowVars, localVars, next, initDone, capsuleVars, globalVars, coreVars, mailboxes>>

Goto(p, label) == pc' = [pc EXCEPT ![p] = label]

\* The capsule is in CAPSULES: it was created and has not been destroyed.
Live(c) == capsules[c] # None

-----------------------------------------------------------------------------
(* Booting: hvmain and PhysicalCore::init. *)

\* Nothing is set up, and every core is about to enter hvmain.
Init ==
  /\ pc = [p \in PhysicalCores |-> "init"]
  /\ mustSwitch = [p \in PhysicalCores |-> FALSE]
  /\ cid = [p \in PhysicalCores |-> 0]
  /\ vid = [p \in PhysicalCores |-> 0]
  /\ ram = [p \in PhysicalCores |-> None]
  /\ next = [p \in PhysicalCores |-> None]
  /\ initDone = FALSE
  /\ capsules = [c \in CapsuleIDs |-> None]
  /\ capsuleIdNext = 0
  /\ freeRegions = {}
  /\ globalQueues = EmptyQueues
  /\ globalLock = None
  /\ workload = [p \in PhysicalCores |-> 0]
  /\ queues = [p \in PhysicalCores |-> EmptyQueues]
  /\ vcores = [p \in PhysicalCores |-> None]
  /\ pcores = [v \in VirtualCores |-> None]
  /\ pmp = [p \in PhysicalCores |-> {}]
  /\ mailboxes = [p \in PhysicalCores |-> <<>>]

\* A core sets up its own queues and its mailbox.
PhysicalCoreInit(p) ==
  /\ pc[p] = "init"
  /\ queues' = [queues EXCEPT ![p] = EmptyQueues]
  /\ mailboxes' = [mailboxes EXCEPT ![p] = <<>>]
  /\ Goto(p, IF p = BootCore THEN "setup" ELSE "wait")
  /\ UNCHANGED <<mustSwitch, localVars, next, initDone, capsuleVars, globalVars,
                 vcores, pcores, pmp>>

\* The boot core parses the device tree and registers the RAM it finds ...
SetupHardware(p) ==
  /\ pc[p] = "setup"
  /\ freeRegions' = Regions
  /\ Goto(p, "create")
  /\ UNCHANGED <<mustSwitch, localVars, next, initDone, capsules, capsuleIdNext,
                 globalVars, coreVars, mailboxes>>

\* ... or hvmain gives up: the boot core idles, its timer never started.
SetupFails(p) ==
  /\ pc[p] = "setup"
  /\ Goto(p, "halted")
  /\ UNCHANGED <<mustSwitch, localVars, next, initDone, capsuleVars, globalVars,
                 coreVars, mailboxes>>

\* The boot core lets the others continue.
SetInitDone(p) ==
  /\ pc[p] = "publish"
  /\ initDone' = TRUE
  /\ Goto(p, "start")
  /\ UNCHANGED <<mustSwitch, localVars, next, capsuleVars, globalVars, coreVars, mailboxes>>

\* Mutant: the other cores do not wait.
WaitForInit_NoWait(p) ==
  /\ pc[p] = "wait"
  /\ Goto(p, "start")
  /\ UNCHANGED <<mustSwitch, localVars, next, initDone, capsuleVars, globalVars,
                 coreVars, mailboxes>>

\* The other cores spin on INIT_DONE.
WaitForInit(p) ==
  /\ pc[p] = "wait"
  /\ initDone
  /\ Goto(p, "start")
  /\ UNCHANGED <<mustSwitch, localVars, next, initDone, capsuleVars, globalVars,
                 coreVars, mailboxes>>

\* scheduler::start turns the timer on; the core leaves the hypervisor.
StartTimer(p) ==
  /\ pc[p] = "start"
  /\ Goto(p, "out")
  /\ UNCHANGED <<mustSwitch, localVars, next, initDone, capsuleVars, globalVars,
                 coreVars, mailboxes>>

-----------------------------------------------------------------------------
(* Creating a capsule: create_boot_capsule.  hvmain calls it once, before   *)
(* INIT_DONE, and that is the only call in the program; it is a public      *)
(* function, written to be called on any core at any time, and the cores    *)
(* of Callers do call it again, up to MaxCapsules capsules in all.          *)

\* Where create_boot_capsule returns to with Ok, and with an error.
Created == IF initDone THEN "out" ELSE "publish"
Failed  == IF initDone THEN "out" ELSE "halted"

NewCapsule == [restart |-> TRUE, vcores |-> {}, memory |-> {}]

\* Mutant: the lowest ID not in use, which may have been another capsule's.
NewID_Reused == CHOOSE c \in CapsuleIDs : ~Live(c) /\ \A d \in CapsuleIDs : d < c => Live(d)

\* The ID a new capsule gets.
NewID == capsuleIdNext + 1

\* create: the next capsule ID and an empty, auto-restarting capsule.
CreateCapsule(p) ==
  /\ pc[p] = "create" \/ (pc[p] = "out" /\ p \in Callers)
  /\ capsuleIdNext < MaxCapsules
  /\ capsuleIdNext' = capsuleIdNext + 1
  /\ capsules' = [capsules EXCEPT ![NewID] = NewCapsule]
  /\ cid' = [cid EXCEPT ![p] = NewID]
  /\ Goto(p, "alloc")
  /\ UNCHANGED <<mustSwitch, vid, ram, next, initDone, freeRegions, globalVars,
                 coreVars, mailboxes>>

\* physmem::alloc_region, under the lock of REGIONS.
AllocRegion(p) ==
  /\ pc[p] = "alloc"
  /\ \/ \E r \in freeRegions :
          /\ freeRegions' = freeRegions \ {r}
          /\ ram' = [ram EXCEPT ![p] = r]
          /\ Goto(p, "map")
     \/ /\ freeRegions = {}
        /\ Goto(p, Failed)
        /\ UNCHANGED <<freeRegions, ram>>
  /\ UNCHANGED <<mustSwitch, cid, vid, next, initDone, capsules, capsuleIdNext,
                 globalVars, coreVars, mailboxes>>

\* map_memory: the region becomes the capsule's.
MapMemory(p) ==
  /\ pc[p] = "map"
  /\ IF Live(cid[p])
     THEN /\ capsules' = [capsules EXCEPT ![cid[p]].memory = @ \cup {ram[p]}]
          /\ Goto(p, "load")
     ELSE /\ Goto(p, Failed)
          /\ UNCHANGED capsules
  /\ ram' = [ram EXCEPT ![p] = None]
  /\ UNCHANGED <<mustSwitch, cid, vid, next, initDone, capsuleIdNext, freeRegions,
                 globalVars, coreVars, mailboxes>>

\* loader::load copies the supervisor into the region, or refuses it.
LoadSupervisor(p) ==
  /\ pc[p] = "load"
  /\ \/ Goto(p, "queue")
     \/ Goto(p, Failed)
  /\ vid' = [vid EXCEPT ![p] = 0]
  /\ UNCHANGED <<mustSwitch, cid, ram, next, initDone, capsuleVars, globalVars,
                 coreVars, mailboxes>>

\* VirtualCore::create puts the virtual core on the global queues: from here
\* on any core may run it.
QueueVirtualCore(p) ==
  /\ pc[p] = "queue"
  /\ globalLock = None
  /\ globalQueues' = Enqueue(globalQueues, [capsuleid |-> cid[p], vcoreid |-> vid[p],
                                            priority  |-> PriorityOf[cid[p]]])
  /\ Goto(p, "add")
  /\ UNCHANGED <<mustSwitch, localVars, next, initDone, capsuleVars, globalLock,
                 workload, coreVars, mailboxes>>

\* Mutant: one virtual core too many.
IsLast_Inclusive(i) == i + 1 > Cpus

\* The loop of create_boot_capsule ends with this virtual core.
IsLast(i) == i + 1 = Cpus

\* create_and_add_vcore then looks the capsule up again to register the
\* virtual core in it; the capsule may have died since.
AddVirtualCore(p) ==
  /\ pc[p] = "add"
  /\ IF Live(cid[p])
     THEN /\ capsules' = [capsules EXCEPT ![cid[p]].vcores = @ \cup {vid[p]}]
          /\ vid' = [vid EXCEPT ![p] = IF IsLast(@) THEN 0 ELSE @ + 1]
          /\ Goto(p, IF IsLast(vid[p]) THEN Created ELSE "queue")
     ELSE /\ Goto(p, Failed)
          /\ vid' = [vid EXCEPT ![p] = 0]
          /\ UNCHANGED capsules
  /\ UNCHANGED <<mustSwitch, cid, ram, next, initDone, capsuleIdNext, freeRegions,
                 globalVars, coreVars, mailboxes>>

-----------------------------------------------------------------------------
(* Interrupts and exceptions: irq.rs. *)

\* The scheduler's timer fires: run_next(false).
TimerInterrupt(p) ==
  /\ pc[p] = "out"
  /\ mustSwitch' = [mustSwitch EXCEPT ![p] = FALSE]
  /\ Goto(p, "next")
  /\ UNCHANGED <<localVars, next, initDone, capsuleVars, globalVars, coreVars, mailboxes>>

\* The supervisor on this core hits a fatal exception: the handler reads the
\* ID of its capsule under the lock of VCORES ...
FatalException(p) ==
  /\ pc[p] = "out"
  /\ vcores[p] # None
  /\ cid' = [cid EXCEPT ![p] = vcores[p].capsuleid]
  /\ Goto(p, "destroy")
  /\ UNCHANGED <<mustSwitch, vid, ram, next, initDone, capsuleVars, globalVars,
                 coreVars, mailboxes>>

\* A fatal exception that is not the supervisor's (an application's, or the
\* hypervisor's own outside its handlers) halts the core for good ("loop {}"),
\* with what it runs and what waits for it.
UnhandledException(p) ==
  /\ pc[p] = "out"
  /\ Goto(p, "dead")
  /\ UNCHANGED <<mustSwitch, localVars, next, initDone, capsuleVars, globalVars,
                 coreVars, mailboxes>>

\* Mutant: the capsule is torn down where it is, and stays in CAPSULES.
DropCapsule_NotRemoved(c) ==
  /\ freeRegions' = freeRegions \cup capsules[c].memory
  /\ UNCHANGED capsules

\* Removing a capsule from CAPSULES drops it, which gives its RAM back.
DropCapsule(c) ==
  /\ freeRegions' = freeRegions \cup capsules[c].memory
  /\ capsules' = [capsules EXCEPT ![c] = None]

\* ... and capsule::destroy removes that capsule, if it is still there.  Then
\* run_next(true).
DestroyCapsule(p) ==
  /\ pc[p] = "destroy"
  /\ IF Live(cid[p])
     THEN DropCapsule(cid[p])
     ELSE UNCHANGED <<capsules, freeRegions>>
  /\ mustSwitch' = [mustSwitch EXCEPT ![p] = TRUE]
  /\ Goto(p, "next")
  /\ UNCHANGED <<localVars, next, initDone, capsuleIdNext, globalVars, coreVars, mailboxes>>

-----------------------------------------------------------------------------
(* Scheduling: run_next, context_switch, housekeeping. *)

\* A core that can run supervisors, at the top of the loop of run_next, with
\* the lock of GLOBAL_QUEUES free for it to take.
MaySchedule(p) ==
  /\ pc[p] = "next"
  /\ p \in SmodeCores
  /\ globalLock = None

\* Mutant: only the queue of high priority is looked at.
OrphanWaits_HighOnly(p) == globalQueues.high # <<>>

\* Core p finds a virtual core in the global queues, where it looks first.
OrphanWaits(p) == TotalQueued(globalQueues) > 0

\* Mutant: the entry in WORKLOAD is overwritten.
Counted_Overwritten(p) == [workload EXCEPT ![p] = 1]

\* WORKLOAD when core p has taken one more virtual core.
Counted(p) == [workload EXCEPT ![p] = @ + 1]

\* It takes a virtual core off the global queues, and counts it as its own.
AdoptOrphan(p) ==
  /\ MaySchedule(p)
  /\ OrphanWaits(p)
  /\ next' = [next EXCEPT ![p] = Dequeued(globalQueues)]
  /\ globalQueues' = AfterDequeue(globalQueues)
  /\ workload' = Counted(p)
  /\ globalLock' = p
  /\ Goto(p, "switch")
  /\ UNCHANGED <<mustSwitch, localVars, initDone, capsuleVars, coreVars, mailboxes>>

\* If there is none, it takes one that waits for this core.
TakeWaiting(p) ==
  /\ MaySchedule(p)
  /\ ~OrphanWaits(p)
  /\ TotalQueued(queues[p]) > 0
  /\ next' = [next EXCEPT ![p] = Dequeued(queues[p])]
  /\ queues' = [queues EXCEPT ![p] = AfterDequeue(queues[p])]
  /\ globalLock' = p
  /\ Goto(p, "switch")
  /\ UNCHANGED <<mustSwitch, localVars, initDone, capsuleVars, globalQueues, workload,
                 vcores, pcores, pmp, mailboxes>>

\* If there is none either, it goes back to what it was running, or, if it
\* must switch, does some housekeeping and tries again.
NothingWaiting(p) ==
  /\ MaySchedule(p)
  /\ ~OrphanWaits(p)
  /\ TotalQueued(queues[p]) = 0
  /\ Goto(p, IF mustSwitch[p] THEN "housekeeping" ELSE "out")
  /\ UNCHANGED <<mustSwitch, localVars, next, initDone, capsuleVars, globalVars,
                 coreVars, mailboxes>>

\* A core that cannot run supervisors only does the housekeeping.
ManagementCore(p) ==
  /\ pc[p] = "next"
  /\ p \notin SmodeCores
  /\ Goto(p, "housekeeping")
  /\ UNCHANGED <<mustSwitch, localVars, next, initDone, capsuleVars, globalVars,
                 coreVars, mailboxes>>

\* capsule::enforce on core p: the protection becomes the RAM of the capsule,
\* and stays what it was if the capsule is gone or has no RAM.
Enforced(p, c) ==
  IF Live(c) /\ capsules[c].memory # {} THEN capsules[c].memory ELSE pmp[p]

\* Mutant: the virtual cores' IDs are compared, not their capsules'.
SameCapsule_ByVcoreID(p) == vcores[p] # None /\ vcores[p].vcoreid = next[p].vcoreid

\* Core p switches between virtual cores of one capsule: no need to enforce.
SameCapsule(p) == vcores[p] # None /\ vcores[p].capsuleid = next[p].capsuleid

\* Mutant: only a virtual core that makes way for another capsule is queued.
Requeued_OtherCapsule(p) ==
  IF vcores[p] # None /\ vcores[p].capsuleid # next[p].capsuleid
  THEN [queues EXCEPT ![p] = Enqueue(queues[p], vcores[p])]
  ELSE queues

\* The queues when what core p was running waits there again.
Requeued(p) ==
  IF vcores[p] # None
  THEN [queues EXCEPT ![p] = Enqueue(queues[p], vcores[p])]
  ELSE queues

\* context_switch, under the lock of VCORES: stop the virtual core this core
\* runs, if any, and let the next one's capsule in.
SwitchOut(p) ==
  /\ pc[p] = "switch"
  /\ pmp' = [pmp EXCEPT ![p] =
               IF SameCapsule(p) THEN @ ELSE Enforced(p, next[p].capsuleid)]
  /\ queues' = Requeued(p)
  /\ vcores' = [vcores EXCEPT ![p] = None]
  /\ Goto(p, "enter")
  /\ UNCHANGED <<mustSwitch, localVars, next, initDone, capsuleVars, globalVars,
                 pcores, mailboxes>>

\* Mutant: the key is the virtual core's ID alone, not the canonical ID.
Linked_ByVcoreID(p) ==
  [v \in VirtualCores |-> IF v.vcoreid = next[p].vcoreid THEN p ELSE pcores[v]]

\* PCORES with the next virtual core of core p linked to it.
Linked(p) == [pcores EXCEPT ![next[p]] = p]

\* The rest of context_switch links the next virtual core to this core (the
\* locks of PCORES and VCORES; no other core looks at these entries); then
\* the lock of GLOBAL_QUEUES is released and run_next returns.
SwitchIn(p) ==
  /\ pc[p] = "enter"
  /\ pcores' = Linked(p)
  /\ vcores' = [vcores EXCEPT ![p] = next[p]]
  /\ next' = [next EXCEPT ![p] = None]
  /\ globalLock' = None
  /\ Goto(p, "out")
  /\ UNCHANGED <<mustSwitch, localVars, initDone, capsuleVars, globalQueues, workload,
                 queues, pmp, mailboxes>>

\* The core the loop over WORKLOAD ends with: one with the highest count (a
\* hash map is traversed in any order), if that is more than one.
Busiest(p) ==
  /\ workload[p] > 1
  /\ \A q \in PhysicalCores : workload[q] <= workload[p]

\* message::send to a physical core: at the back of its mailbox.  Nothing
\* ever takes a message out; MailboxBound keeps the model finite.
SendDisown(from, to) ==
  mailboxes' = IF Len(mailboxes[to]) < MailboxBound
               THEN [mailboxes EXCEPT ![to] = Append(mailboxes[to], from)]
               ELSE mailboxes

\* The end of housekeeping, under the lock of GLOBAL_QUEUES: if virtual cores
\* wait in them, ask the busiest core to give one up.
Housekeeping(p) ==
  /\ pc[p] = "housekeeping"
  /\ globalLock = None
  /\ \/ /\ TotalQueued(globalQueues) > 0
        /\ \E q \in PhysicalCores : Busiest(q) /\ SendDisown(p, q)
     \/ /\ TotalQueued(globalQueues) = 0 \/ \A q \in PhysicalCores : ~Busiest(q)
        /\ UNCHANGED mailboxes
  /\ Goto(p, IF p \in SmodeCores THEN "next" ELSE "out")
  /\ UNCHANGED <<mustSwitch, localVars, next, initDone, capsuleVars, globalVars, coreVars>>

-----------------------------------------------------------------------------
\* The boot core bailed out of hvmain, and idles for ever as do the others; or
\* every core has met an exception that halts it.
Halted ==
  /\ pc[BootCore] = "halted" \/ \A p \in PhysicalCores : pc[p] = "dead"
  /\ UNCHANGED vars

Boot(p) ==
  \/ PhysicalCoreInit(p) \/ SetupHardware(p) \/ SetupFails(p)
  \/ SetInitDone(p) \/ WaitForInit(p) \/ StartTimer(p)

Create(p) ==
  \/ AllocRegion(p) \/ MapMemory(p) \/ LoadSupervisor(p)
  \/ QueueVirtualCore(p) \/ AddVirtualCore(p)

Schedule(p) ==
  \/ AdoptOrphan(p) \/ TakeWaiting(p) \/ NothingWaiting(p) \/ ManagementCore(p)
  \/ SwitchOut(p) \/ SwitchIn(p) \/ Housekeeping(p)

Next ==
  \/ \E p \in PhysicalCores :
       \/ Boot(p)
       \/ CreateCapsule(p)
       \/ Create(p)
       \/ TimerInterrupt(p)
       \/ FatalException(p)
       \/ UnhandledException(p)
       \/ DestroyCapsule(p)
       \/ Schedule(p)
  \/ Halted

Spec == Init /\ [][Next]_vars

\* What a core does of its own accord, once it is in the hypervisor.
HandlerStep(p) ==
  \/ Boot(p)
  \/ pc[p] = "create" /\ CreateCapsule(p)
  \/ Create(p) \/ DestroyCapsule(p) \/ Schedule(p)

\* A core in the hypervisor runs on, and its timer fires.  Fairness is strong
\* because a core waits for a lock others take and release: each of them
\* leaves the hypervisor for a whole timeslice between two acquisitions.
FairSpec ==
  /\ Spec
  /\ \A p \in PhysicalCores : SF_vars(HandlerStep(p)) /\ WF_vars(TimerInterrupt(p))

-----------------------------------------------------------------------------
(* Vocabulary of the properties. *)

Labels ==
  {"init", "setup", "create", "alloc", "map", "load", "queue", "add", "publish", "wait",
   "start", "halted", "out", "dead", "destroy", "next", "switch", "enter", "housekeeping"}

Capsule == [restart : BOOLEAN, vcores : SUBSET VirtualCoreIDs, memory : SUBSET Regions]

\* The virtual cores in the hands of a physical core, and all there are.
Some(x) == {x} \ {None}
Held(p) == Queued(queues[p]) \cup Some(vcores[p]) \cup Some(next[p])
Known == Queued(globalQueues) \cup UNION {Held(p) : p \in PhysicalCores}

Running(v) == \E p \in PhysicalCores : vcores[p] = v /\ pc[p] # "dead"

\* No core is left to run supervisors.
AllDead == \A p \in SmodeCores : pc[p] = "dead"

\* The core that has the virtual core is halted.
Stranded(v) == \E p \in PhysicalCores : pc[p] = "dead" /\ v \in Held(p)

\* Core p executes supervisor code: it has a virtual core and is not in a handler.
InGuest(p) == pc[p] = "out" /\ vcores[p] # None

-----------------------------------------------------------------------------
\* Every variable keeps its type (the statics of the hypervisor and the locals
\* of its handlers).
TypeOK ==
  /\ pc \in [PhysicalCores -> Labels]
  /\ mustSwitch \in [PhysicalCores -> BOOLEAN]
  /\ cid \in [PhysicalCores -> 0 .. MaxCapsules]
  /\ vid \in [PhysicalCores -> VirtualCoreIDs]
  /\ ram \in [PhysicalCores -> Regions \cup {None}]
  /\ next \in [PhysicalCores -> VirtualCores \cup {None}]
  /\ initDone \in BOOLEAN
  /\ capsules \in [CapsuleIDs -> Capsule \cup {None}]
  /\ capsuleIdNext \in 0 .. MaxCapsules
  /\ freeRegions \subseteq Regions
  /\ globalQueues \in QueuesType(VirtualCores)
  /\ globalLock \in PhysicalCores \cup {None}
  /\ workload \in [PhysicalCores -> Nat]
  /\ queues \in [PhysicalCores -> QueuesType(VirtualCores)]
  /\ vcores \in [PhysicalCores -> VirtualCores \cup {None}]
  /\ pcores \in [VirtualCores -> PhysicalCores \cup {None}]
  /\ pmp \in [PhysicalCores -> SUBSET Regions]
  /\ mailboxes \in [PhysicalCores -> Seq(PhysicalCores)]

\* "a virtual core is either in a waiting queue ... or is running" (vcore.rs):
\* a virtual core is in one place only, however the cores' context switches,
\* crashes and capsule creations interleave: once in one queue, or running on
\* one core, or on its way in to one core.
OnePlace ==
  /\ WellQueued(globalQueues)
  /\ \A p \in PhysicalCores :
       /\ WellQueued(queues[p])
       /\ vcores[p] \notin Queued(queues[p])
       /\ next[p] \notin Queued(queues[p])
       /\ vcores[p] = next[p] => next[p] = None
       /\ Held(p) \cap Queued(globalQueues) = {}
       /\ \A q \in PhysicalCores \ {p} : Held(p) \cap Held(q) = {}

\* No step of any core loses a virtual core: the ones a handler takes out of a
\* queue or off a core end up in a queue or on a core.
NoneLost == [][Known \subseteq Known']_vars

\* PCORES: "the virtual core may have been scheduled away, though it should be
\* in the last physical CPU core's scheduling queue" (pcore.rs): the hint names
\* the core that holds the virtual core, and a running one has a hint.
LastCoreHint ==
  \A p \in PhysicalCores :
    /\ \A v \in VirtualCores : pcores[v] = p => v \in Held(p)
    /\ \A v \in Queued(queues[p]) \cup Some(vcores[p]) : pcores[v] = p

\* WORKLOAD counts what each core took from the global queues; housekeeping
\* reads it as the number of virtual cores the core has, and it is.
WorkloadExact == \A p \in PhysicalCores : workload[p] = Cardinality(Held(p))

\* enforce: while the supervisor of a capsule that has not been destroyed runs,
\* the hardware gives it all of the capsule's RAM and nothing else, although
\* context_switch skips enforce between virtual cores of the same capsule.
LiveIsolation ==
  \A p \in PhysicalCores :
    InGuest(p) /\ Live(vcores[p].capsuleid) =>
      /\ pmp[p] = capsules[vcores[p].capsuleid].memory
      /\ pmp[p] # {}

\* The cores that hold the region between alloc_region and map_memory, and the
\* capsules that have it.
OwnersOf(r) ==
  {<<"core", p>> : p \in {q \in PhysicalCores : ram[q] = r}}
    \cup {<<"capsule", c>> : c \in {d \in CapsuleIDs : Live(d) /\ r \in capsules[d].memory}}

\* Once the RAM is registered each region is free, or in the hands of one core
\* that is creating a capsule, or the memory of one capsule that is alive: a
\* fault, a failed creation or a race between them leaks none and shares none.
RamAccounted ==
  capsuleIdNext > 0 =>
    \A r \in Regions :
      \/ r \in freeRegions /\ OwnersOf(r) = {}
      \/ r \notin freeRegions /\ \E o \in OwnersOf(r) : OwnersOf(r) = {o}

\* INIT_DONE: no core leaves hvmain, runs a supervisor or reaches the scheduler
\* before the boot capsule has all its virtual cores.
BootCapsuleFirst ==
  (\E p \in PhysicalCores : pc[p] \in {"start", "out", "next", "switch", "enter"}) =>
    \A i \in VirtualCoreIDs : \E v \in Known : v.capsuleid = 1 /\ v.vcoreid = i

\* A capsule that is alive has exactly the virtual cores it registered, and no
\* virtual core of an earlier capsule passes for one of its own; the exception
\* is one that create_and_add_vcore has queued and is about to register.
RegistryExact ==
  \A c \in CapsuleIDs : Live(c) =>
    capsules[c].vcores =
      {v.vcoreid : v \in {u \in Known : u.capsuleid = c}}
        \ {vid[p] : p \in {q \in PhysicalCores : pc[q] = "add" /\ cid[q] = c}}

-----------------------------------------------------------------------------
(* Liveness. *)

\* A virtual core that waits in the global queues gets a physical core and
\* runs, as long as one core is left that can run it: a core that halts takes
\* nothing with it but what it had.
OrphansRun ==
  \A v \in VirtualCores : v \in Queued(globalQueues) ~> Running(v) \/ AllDead

\* The scheduler dishes out physical CPU time: a high-priority virtual core that
\* waits in some queue runs again, with normal ones beside it and without, unless
\* it is with a core that has halted.  The program's own are all of one priority.
HighsRun ==
  \A v \in VirtualCores :
    v.priority = "High" /\ v \in Known ~> Running(v) \/ Stranded(v) \/ AllDead

-----------------------------------------------------------------------------
(* What comments in the code say and the code does not do. *)

\* "mark a capsule as dying, meaning its virtual cores will be gradually
\* removed and when there are none left, its RAM ... will be deallocated"
\* (capsule.rs, destroy): a capsule is there, with its RAM, as long as there
\* are virtual cores of it.
CapsuleOutlivesVirtualCores == \A v \in Known : Live(v.capsuleid)

\* "prevent physical CPU time starvation: allow a normal virtual core to run"
\* (scheduler.rs, HIGH_PRIO_TIMESLICES_MAX): a normal one that waits runs.
NormalsRun ==
  \A v \in VirtualCores :
    v.priority = "Normal" /\ v \in Known ~> Running(v) \/ Stranded(v) \/ AllDead
=============================================================================
