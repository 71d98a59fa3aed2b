------------------------------- MODULE Locks --------------------------------
(***************************************************************************)
(* The hypervisor's spin locks, its debug console (debug.rs) and the lock  *)
(* on the hardware (hardware.rs), as the handlers of all cores use them.   *)
(*                                                                         *)
(* The other modules treat a handler that holds one lock from start to end *)
(* as one step.  Here a handler is the sequence of its steps on locks, and *)
(* what it does to capsules and queues is left out: where the code looks   *)
(* at them, each branch is a sequence of its own.  A lock that the code    *)
(* takes and releases with no other lock in between is one step, Use.      *)
(* A guard that Rust drops at the end of a match, if let or for is         *)
(* released there, not where its value was last used.                      *)
(*                                                                         *)
(* Every message is printed, as in a debug build.                          *)
(*                                                                         *)
(* A core takes its first interrupt once scheduler_timer_start has turned  *)
(* the timer on.  hvmain itself "assumes hardware and exception interrupts *)
(* are enabled" (main.rs, line 117): what another interrupt does to hvmain *)
(* before that is in module Interrupted, which adds it as a step.          *)
(***************************************************************************)
EXTENDS Naturals, Sequences

CONSTANTS
  Cores,
  BootCore,       \* the core with BOOT_PCORE_ID
  SmodeCores,     \* the cores that can run supervisor code
  QueueBound,     \* how many fragments of the debug queue the model keeps, the latest
  None

\* The locks a core waits for with lock().  OWNER is only held within an
\* iteration of acquire_hardware_lock, and INIT_DONE for one access: each is
\* one step, so nobody is ever seen to hold them.
SpinLocks == {"GLOBAL_QUEUES", "WORKLOAD", "VCORES", "PCORES", "CAPSULE_ID_NEXT", "CAPSULES",
              "REGIONS", "SERVICES", "MAILBOXES", "DEBUG_LOCK", "DEBUG_QUEUE"}

ASSUME LocksAssumption ==
  /\ BootCore \in Cores
  /\ SmodeCores \subseteq Cores
  /\ QueueBound \in Nat \ {0, 1}
  /\ None \notin Cores \cup SpinLocks

VARIABLES
  code,       \* the steps each core has yet to take in hvmain or a handler
  thread,     \* what an interrupt in hvmain left of it, to resume
  irqs,       \* whether the core takes interrupts
  holder,     \* who holds each of these locks
  hardware,   \* who holds HARDWARE
  owner,      \* OWNER
  initDone,   \* INIT_DONE
  queue,      \* DEBUG_QUEUE: the latest fragments of text
  written,    \* the text a drain has sent to the debug port and not cleared
  resumed     \* whether a core has resumed hvmain after an interrupt inside it

vars == <<code, thread, irqs, holder, hardware, owner, initDone, queue, written, resumed>>

-----------------------------------------------------------------------------
(* Steps, and the sequences of them that the functions are.                *)

Lock(L) == <<"lock", L>>
Unlock(L) == <<"unlock", L>>
Use(L) == <<"use", L>>
Hardware(attempts) == <<"hardware", attempts>>
Release == <<"release", "HARDWARE">>

Within(L, steps) == <<Lock(L)>> \o steps \o <<Unlock(L)>>

\* write_fmt calls write_str once per piece of the format: two pieces here.
Pieces == <<<<"push", "first">>, <<"push", "last">>>>

\* Mutant: a message is printed without DEBUG_LOCK.
hvprint_NoLock == Pieces

\* The lock dance of hvprint.
hvprint == Within("DEBUG_LOCK", Pieces)

\* get_nr_cpu_cores, get_phys_ram_chunks, scheduler_timer_next.
UseHardware == <<Hardware("Multiple"), Release>>

\* Mutant: the timer is on before HARDWARE is locked.
scheduler_timer_start_Early == <<<<"start", "timer">>, Hardware("Multiple"), Release>>

scheduler_timer_start == <<Hardware("Multiple"), <<"start", "timer">>, Release>>

\* Mutant: the guard on the queue is dropped before the text is written.
drain_queue_EarlyDrop ==
  Within("DEBUG_QUEUE", <<>>) \o <<Hardware("Once"), <<"write", "text">>, Release, <<"clear", "text">>>>

drain_queue ==
  Within("DEBUG_QUEUE", <<Hardware("Once"), <<"write", "text">>, Release, <<"clear", "text">>>>)

\* enforce: grant_access prints, for a capsule that exists.
enforce == {Within("CAPSULES", hvprint), <<Use("CAPSULES")>>}

\* context_switch: the guard on VCORES of the match covers both of its arms.
context_switch ==
  {Within("VCORES", hvprint \o e) \o <<Use("PCORES"), Use("VCORES")>> : e \in enforce \cup {<<>>}}

\* Mutant: WORKLOAD is locked around GLOBAL_QUEUES.
housekeeping_Swapped ==
  {drain_queue \o <<Use("REGIONS")>> \o tail :
     tail \in {<<Use("GLOBAL_QUEUES")>>, Within("WORKLOAD", <<Use("GLOBAL_QUEUES")>>)}}

housekeeping ==
  {drain_queue \o <<Use("REGIONS")>> \o tail :
     tail \in {<<Use("GLOBAL_QUEUES")>>,
               Within("GLOBAL_QUEUES", <<Use("WORKLOAD")>>),
               Within("GLOBAL_QUEUES", <<Use("WORKLOAD"), Use("MAILBOXES")>>)}}

\* What run_next does when it finds a virtual core: one from the global
\* queues, with WORKLOAD and GLOBAL_QUEUES held, or one of this core's own.
Switches ==
  {Within("GLOBAL_QUEUES", Within("WORKLOAD", s)) : s \in context_switch}
    \cup {Within("GLOBAL_QUEUES", s) : s \in context_switch}

RunNext(must_switch) == <<<<"run_next", must_switch>>>>

\* destroy: the guard on CAPSULES covers the drop of the capsule.
destroy ==
  {Within("CAPSULES", hvprint \o <<Use("REGIONS"), Use("SERVICES")>>), <<Use("CAPSULES")>> \o hvprint}

Stop == <<<<"stop", "forever">>>>

\* hvmain.  On the boot core it sets the system up, or prints an error and
\* goes no further; the other cores wait for it.  parse_and_init locks
\* HARDWARE while no other core can want it, which is left out.
init == <<Use("MAILBOXES")>>

physmem_init == UseHardware \o UseHardware \o Within("REGIONS", hvprint)

Welcome == hvprint \o Within("DEBUG_LOCK", UseHardware \o Pieces)

reserve == Within("CAPSULE_ID_NEXT", <<Use("CAPSULES")>>) \o <<Use("REGIONS")>>

map_and_load == <<Use("CAPSULES")>> \o hvprint \o hvprint

create_and_add_vcore == <<Use("GLOBAL_QUEUES"), Use("CAPSULES")>>

SetUp == init \o physmem_init \o Welcome \o reserve \o map_and_load \o create_and_add_vcore

FailedSetUps ==
  {init, init \o UseHardware, init \o UseHardware \o UseHardware,
   init \o physmem_init \o Welcome \o reserve,
   init \o physmem_init \o Welcome \o reserve \o map_and_load}

Ready == hvprint \o scheduler_timer_start

hvmain(p) ==
  IF p = BootCore
  THEN {SetUp \o <<<<"publish", "INIT_DONE">>>> \o Ready} \cup {f \o hvprint \o Stop : f \in FailedSetUps}
  ELSE {init \o <<<<"await", "INIT_DONE">>>> \o Ready}

\* The handlers of interrupts but the timer's and of exceptions: an
\* environment call, a fatal one of the supervisor, any other one.
interrupt == {hvprint}

exception ==
  {<<Use("VCORES")>> \o hvprint}
    \cup {hvprint \o <<Use("VCORES")>> \o d \o RunNext("must switch") : d \in destroy \cup {hvprint}}
    \cup {hvprint \o drain_queue, hvprint \o drain_queue \o Stop}

-----------------------------------------------------------------------------
Init ==
  /\ code \in [Cores -> UNION {hvmain(p) : p \in Cores}]
  /\ \A p \in Cores : code[p] \in hvmain(p)
  /\ thread = [p \in Cores |-> <<>>]
  /\ irqs = [p \in Cores |-> FALSE]
  /\ holder = [L \in SpinLocks |-> None]
  /\ hardware = None
  /\ owner = BootCore
  /\ initDone = FALSE
  /\ queue = <<>>
  /\ written = <<>>
  /\ resumed = FALSE

At(p, op) == code[p] # <<>> /\ Head(code[p])[1] = op
Arg(p) == Head(code[p])[2]
Rest(p) == Tail(code[p])
Continue(p, steps) == code' = [code EXCEPT ![p] = steps]

\* lock(): spin until the lock is free.
Acquire(p) ==
  /\ At(p, "lock")
  /\ holder[Arg(p)] = None
  /\ holder' = [holder EXCEPT ![Arg(p)] = p]
  /\ Continue(p, Rest(p))
  /\ UNCHANGED <<thread, irqs, hardware, owner, initDone, queue, written, resumed>>

\* The guard is dropped.
Drop(p) ==
  /\ At(p, "unlock")
  /\ holder' = [holder EXCEPT ![Arg(p)] = None]
  /\ Continue(p, Rest(p))
  /\ UNCHANGED <<thread, irqs, hardware, owner, initDone, queue, written, resumed>>

UseLock(p) ==
  /\ At(p, "use")
  /\ holder[Arg(p)] = None
  /\ Continue(p, Rest(p))
  /\ UNCHANGED <<thread, irqs, holder, hardware, owner, initDone, queue, written, resumed>>

\* The queue with a fragment added; the model forgets the oldest one.
Pushed(fragment) ==
  LET q == Append(queue, fragment) IN IF Len(q) > QueueBound THEN Tail(q) ELSE q

write_str(p) ==
  /\ At(p, "push")
  /\ holder["DEBUG_QUEUE"] = None
  /\ queue' = Pushed(<<p, Arg(p)>>)
  /\ Continue(p, Rest(p))
  /\ UNCHANGED <<thread, irqs, holder, hardware, owner, initDone, written, resumed>>

\* Mutant: the new owner is not recorded.
AcquireHardware_OldOwner(p) ==
  /\ At(p, "hardware")
  /\ Arg(p) = "Once" => queue # <<>>
  /\ hardware = None
  /\ hardware' = p
  /\ Continue(p, Rest(p))
  /\ UNCHANGED <<thread, irqs, holder, owner, initDone, queue, written, resumed>>

\* An iteration of acquire_hardware_lock that gets the lock.
AcquireHardware(p) ==
  /\ At(p, "hardware")
  /\ Arg(p) = "Once" => queue # <<>>
  /\ hardware = None
  /\ hardware' = p
  /\ owner' = p
  /\ Continue(p, Rest(p))
  /\ UNCHANGED <<thread, irqs, holder, initDone, queue, written, resumed>>

\* Mutant: the owner waits for the lock like everybody else.
ForceUnlock_Never(p) == p \notin Cores

\* An iteration in which the core finds the lock taken and itself the owner.
\* It lets go of OWNER before it tries again.
ForceUnlock(p) ==
  /\ At(p, "hardware")
  /\ Arg(p) = "Once" => queue # <<>>
  /\ hardware # None
  /\ owner = p
  /\ hardware' = None
  /\ UNCHANGED <<code, thread, irqs, holder, owner, initDone, queue, written, resumed>>

\* drain_queue has nothing to write, or write_debug_string returns false
\* because another core is using the hardware.
SkipWrite(p) ==
  /\ At(p, "hardware") /\ Arg(p) = "Once"
  /\ queue = <<>> \/ (hardware # None /\ owner # p)
  /\ Continue(p, SubSeq(code[p], 5, Len(code[p])))
  /\ UNCHANGED <<thread, irqs, holder, hardware, owner, initDone, queue, written, resumed>>

write_debug_string(p) ==
  /\ At(p, "write")
  /\ written' = queue
  /\ Continue(p, Rest(p))
  /\ UNCHANGED <<thread, irqs, holder, hardware, owner, initDone, queue, resumed>>

Clear(p) ==
  /\ At(p, "clear")
  /\ queue' = <<>>
  /\ written' = <<>>
  /\ Continue(p, Rest(p))
  /\ UNCHANGED <<thread, irqs, holder, hardware, owner, initDone, resumed>>

\* The guard on HARDWARE is dropped.  Dropping it unlocks the mutex, whoever
\* has it by then.
ReleaseHardware(p) ==
  /\ At(p, "release")
  /\ hardware' = None
  /\ Continue(p, Rest(p))
  /\ UNCHANGED <<thread, irqs, holder, owner, initDone, queue, written, resumed>>

\* The timer is on, and with it interrupts, before the guard is dropped.
StartTimer(p) ==
  /\ At(p, "start")
  /\ irqs' = [irqs EXCEPT ![p] = TRUE]
  /\ Continue(p, Rest(p))
  /\ UNCHANGED <<thread, holder, hardware, owner, initDone, queue, written, resumed>>

Publish(p) ==
  /\ At(p, "publish")
  /\ initDone' = TRUE
  /\ Continue(p, Rest(p))
  /\ UNCHANGED <<thread, irqs, holder, hardware, owner, queue, written, resumed>>

Await(p) ==
  /\ At(p, "await")
  /\ initDone
  /\ Continue(p, Rest(p))
  /\ UNCHANGED <<thread, irqs, holder, hardware, owner, initDone, queue, written, resumed>>

\* run_next finds a virtual core.  What was interrupted is not returned to.
Switch(p) ==
  /\ At(p, "run_next")
  /\ p \in SmodeCores
  /\ \E s \in Switches : Continue(p, s \o UseHardware)
  /\ thread' = [thread EXCEPT ![p] = <<>>]
  /\ UNCHANGED <<irqs, holder, hardware, owner, initDone, queue, written, resumed>>

\* run_next finds nothing to run, or the core cannot run anything.
NoSwitch(p) ==
  /\ At(p, "run_next")
  /\ \/ p \in SmodeCores /\ Arg(p) = "may return" /\ Continue(p, <<Use("GLOBAL_QUEUES")>> \o UseHardware)
     \/ p \in SmodeCores /\ Arg(p) = "must switch"
          /\ \E h \in housekeeping : Continue(p, <<Use("GLOBAL_QUEUES")>> \o h \o RunNext("must switch"))
     \/ p \notin SmodeCores /\ \E h \in housekeeping : Continue(p, h \o UseHardware)
  /\ UNCHANGED <<thread, irqs, holder, hardware, owner, initDone, queue, written, resumed>>

\* The handler is done.
Return(p) ==
  /\ code[p] = <<>> /\ ~irqs[p]
  /\ irqs' = [irqs EXCEPT ![p] = TRUE]
  /\ Continue(p, thread[p])
  /\ thread' = [thread EXCEPT ![p] = <<>>]
  /\ resumed' = (resumed \/ thread[p] # <<>>)
  /\ UNCHANGED <<holder, hardware, owner, initDone, queue, written>>

Step(p) ==
  \/ Acquire(p) \/ Drop(p) \/ UseLock(p)
  \/ write_str(p)
  \/ AcquireHardware(p) \/ ForceUnlock(p) \/ ReleaseHardware(p)
  \/ SkipWrite(p) \/ write_debug_string(p) \/ Clear(p)
  \/ StartTimer(p) \/ Publish(p) \/ Await(p)
  \/ Switch(p) \/ NoSwitch(p) \/ Return(p)

\* The timer interrupts the core, in a guest, in the idle loop or in hvmain.
TimerInterrupt(p) ==
  /\ irqs[p]
  /\ irqs' = [irqs EXCEPT ![p] = FALSE]
  /\ thread' = [thread EXCEPT ![p] = code[p]]
  /\ Continue(p, RunNext("may return"))
  /\ UNCHANGED <<holder, hardware, owner, initDone, queue, written, resumed>>

\* Any other interrupt, in the same places, or an exception in a guest or in the
\* idle loop.
OtherIRQ(p) ==
  /\ irqs[p]
  /\ irqs' = [irqs EXCEPT ![p] = FALSE]
  /\ thread' = [thread EXCEPT ![p] = code[p]]
  /\ \E h \in interrupt \cup (IF code[p] = <<>> THEN exception ELSE {}) : Continue(p, h)
  /\ UNCHANGED <<holder, hardware, owner, initDone, queue, written, resumed>>

Next == \E p \in Cores : Step(p) \/ TimerInterrupt(p) \/ OtherIRQ(p)

Spec == Init /\ [][Next]_vars

\* A core keeps running, and spinning on a lock that is released again and
\* again gets it in the end.  Interrupts need not come, and those that do are
\* acknowledged: what is left of hvmain gets its turn between them.
FairSpec ==
  /\ Spec
  /\ \A p \in Cores : SF_vars(Step(p)) /\ SF_vars(irqs[p] /\ Step(p))

-----------------------------------------------------------------------------
\* All the steps that hvmain and the handlers are made of.
Steps ==
  ({"lock", "unlock", "use"} \X SpinLocks) \cup ({"push"} \X {"first", "last"})
    \cup ({"hardware"} \X {"Once", "Multiple"}) \cup ({"release"} \X {"HARDWARE"})
    \cup ({"write", "clear"} \X {"text"}) \cup ({"start"} \X {"timer"})
    \cup ({"publish", "await"} \X {"INIT_DONE"}) \cup ({"stop"} \X {"forever"})
    \cup ({"run_next"} \X {"may return", "must switch"})

\* Every variable keeps its type; what drain_queue has written is what the queue
\* holds, until it clears it.
TypeOK ==
  /\ code \in [Cores -> Seq(Steps)]
  /\ thread \in [Cores -> {<<>>, <<Release>>}]
  /\ irqs \in [Cores -> BOOLEAN]
  /\ holder \in [SpinLocks -> Cores \cup {None}]
  /\ hardware \in Cores \cup {None}
  /\ owner \in Cores
  /\ initDone \in BOOLEAN
  /\ queue \in Seq(Cores \X {"first", "last"}) /\ Len(queue) <= QueueBound
  /\ written \in {<<>>, queue}
  /\ resumed \in BOOLEAN

\* The lock a core is waiting for.
Wanted(p) ==
  IF At(p, "lock") \/ At(p, "use") THEN Arg(p)
  ELSE IF At(p, "push") THEN "DEBUG_QUEUE"
  ELSE None

\* An order that the nesting of the locks in the handlers respects.
Rank ==
  [L \in SpinLocks |->
     CASE L = "GLOBAL_QUEUES" -> 1
       [] L = "WORKLOAD" -> 2
       [] L \in {"VCORES", "CAPSULE_ID_NEXT"} -> 3
       [] L = "CAPSULES" -> 4
       [] L \in {"PCORES", "REGIONS", "SERVICES", "MAILBOXES"} -> 5
       [] L = "DEBUG_LOCK" -> 6
       [] L = "DEBUG_QUEUE" -> 7]

Order == INSTANCE LockOrder WITH
  Locks <- SpinLocks,
  wants <- [p \in Cores |-> Wanted(p)]

\* The handlers, whatever branches they take and however they interleave, ask
\* for a lock only while they hold locks of lower rank: GLOBAL_QUEUES, then
\* WORKLOAD, VCORES, CAPSULES, the tables, and the debug locks last.  Nothing
\* in the code states this order; every nesting of a lock() in the scope of
\* another guard has to agree with it.
LocksOrdered == Order!Spec

\* The fragments of one call of hvprint stay together in the debug queue,
\* however many cores print at once: DEBUG_LOCK covers the several calls of
\* write_str of one write_fmt.
LinesWhole ==
  \A i \in 1 .. Len(queue) - 1 :
    \/ queue[i][2] = "first" /\ queue[i + 1] = <<queue[i][1], "last">>
    \/ queue[i][2] = "last" /\ queue[i + 1][2] = "first"

\* What drain_queue clears is exactly what it wrote to the debug port, and no
\* core comes to write while text that was written is still in the queue: none
\* is lost or doubled when a core prints while another drains, or when the
\* hardware is busy.
TextOnce ==
  [][/\ queue # <<>> /\ queue' = <<>> => written = queue
     /\ \A p \in Cores : At(p, "write") => written = <<>>]_vars

InDevice(p) == At(p, "write") \/ At(p, "start") \/ At(p, "release")

\* Two cores never use the devices at the same time, although the owner of
\* HARDWARE may unlock it by force, as long as no core has resumed hvmain
\* from an interrupt that came while it held HARDWARE.
HardwareExclusive ==
  ~resumed => \A p, q \in Cores : InDevice(p) /\ InDevice(q) => p = q

\* Every handler comes to its end, and so does hvmain when no interrupt comes
\* before its timer is on (module Interrupted drops that condition), unless the
\* core halts, waits for INIT_DONE, or is in run_next with nothing found yet.
\* No core spins for ever on a spin lock or on HARDWARE, not even on the HARDWARE
\* it held itself when an interrupt came in scheduler_timer_start.
HandlersEnd ==
  \A p \in Cores :
    code[p] # <<>> ~> \/ code[p] = <<>>
                      \/ At(p, "stop") \/ At(p, "await") \/ At(p, "run_next")

=============================================================================
