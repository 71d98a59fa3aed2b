------------------------------ MODULE Service -------------------------------
(***************************************************************************)
(* Services (service.rs) and the rights capsules have to offer them        *)
(* (capsule.rs: allow_service, is_service_allowed, create, destroy, drop). *)
(*                                                                         *)
(* The calls come from any physical core at any time.  An action is the    *)
(* code under one acquisition of a lock.  register() takes the lock of     *)
(* CAPSULES, releases it, and then takes the lock of SERVICES.  destroy()  *)
(* holds the lock of CAPSULES until the capsule is dropped, and takes the  *)
(* lock of SERVICES once for each service.                                 *)
(***************************************************************************)
EXTENDS Naturals, Sequences, FiniteSets, SequencesExt

CONSTANTS
  PhysicalCores,
  ServiceIDs,
  Messages,      \* the messages that are sent to services
  MaxCapsules,   \* bound: capsules ever created
  MailboxBound,  \* bound: messages queued for a service
  None           \* Rust's None

CapsuleIDs == 1 .. MaxCapsules

Service == [capsuleid : CapsuleIDs, msgs : Seq(Messages)]

ASSUME BoundsAssumption == MaxCapsules \in Nat /\ MailboxBound \in Nat
ASSUME NoneAssumption ==
  /\ None \notin PhysicalCores /\ \A S \in SUBSET ServiceIDs : None # S
  /\ None \notin Service /\ None \notin ServiceIDs \X CapsuleIDs

VARIABLES
  capsules,       \* CAPSULES: Capsule.allowed_services of each capsule
  capsuleIdNext,  \* CAPSULE_ID_NEXT
  services,       \* SERVICES
  registering,    \* the arguments of the register() a core is halfway through
  dropping,       \* the core that drops a capsule, and so locks CAPSULES
  victim,         \* the capsule that is dropped ...
  remaining       \* ... and its allowed services that drop() has not reached

vars == <<capsules, capsuleIdNext, services, registering, dropping, victim, remaining>>
dropVars == <<dropping, victim, remaining>>

Live(c) == capsules[c] # None

Registered(s) == services[s] # None

\* A core that is between two calls.
Idle(p) == registering[p] = None /\ dropping # p

\* The lock of CAPSULES is free.
CapsulesUnlocked == dropping = None

-----------------------------------------------------------------------------
Init ==
  /\ capsules = [c \in CapsuleIDs |-> None]
  /\ capsuleIdNext = 0
  /\ services = [s \in ServiceIDs |-> None]
  /\ registering = [p \in PhysicalCores |-> None]
  /\ dropping = None
  /\ victim = 0
  /\ remaining = {}

\* capsule::create
Create(p) ==
  /\ Idle(p) /\ CapsulesUnlocked
  /\ capsuleIdNext < MaxCapsules
  /\ capsuleIdNext' = capsuleIdNext + 1
  /\ capsules' = [capsules EXCEPT ![capsuleIdNext + 1] = {}]
  /\ UNCHANGED <<services, registering, dropVars>>

\* capsule::allow_service
AllowService(p, c, s) ==
  /\ Idle(p) /\ CapsulesUnlocked
  /\ capsules' = IF Live(c) THEN [capsules EXCEPT ![c] = @ \cup {s}] ELSE capsules
  /\ UNCHANGED <<capsuleIdNext, services, registering, dropVars>>

\* Mutant: any capsule that exists will do.
ServiceAllowed_AnyCapsule(c, s) == Live(c)

\* capsule::is_service_allowed is Some(true).
ServiceAllowed(c, s) == Live(c) /\ s \in capsules[c]

\* register: check the capsule's right, or return ServiceNotAllowed or
\* CapsuleBadID ...
RegisterCheck(p, s, c) ==
  /\ Idle(p) /\ CapsulesUnlocked
  /\ registering' = IF ServiceAllowed(c, s)
                    THEN [registering EXCEPT ![p] = <<s, c>>]
                    ELSE registering
  /\ UNCHANGED <<capsules, capsuleIdNext, services, dropVars>>

\* Mutant: the entry is overwritten.
Entered_Always(s, c) == [services EXCEPT ![s] = [capsuleid |-> c, msgs |-> <<>>]]

\* SERVICES with the service added, if it is not there already.
Entered(s, c) ==
  IF Registered(s) THEN services
  ELSE [services EXCEPT ![s] = [capsuleid |-> c, msgs |-> <<>>]]

\* ... then enter the service, or return ServiceAlreadyRegistered.
RegisterInsert(p) ==
  /\ registering[p] # None
  /\ services' = Entered(registering[p][1], registering[p][2])
  /\ registering' = [registering EXCEPT ![p] = None]
  /\ UNCHANGED <<capsules, capsuleIdNext, dropVars>>

\* deregister: whoever holds the service.
Removed(s) == [services EXCEPT ![s] = None]

Deregister(p, s) ==
  /\ Idle(p)
  /\ services' = Removed(s)
  /\ UNCHANGED <<capsules, capsuleIdNext, registering, dropVars>>

\* send: to the front of the service's queue, from which nothing is taken yet.
\* A service that is not registered is an error.
Send(p, s, m) ==
  /\ Idle(p)
  /\ Registered(s) => Len(services[s].msgs) < MailboxBound
  /\ services' = IF Registered(s)
                 THEN [services EXCEPT ![s].msgs = <<m>> \o @]
                 ELSE services
  /\ UNCHANGED <<capsules, capsuleIdNext, registering, dropVars>>

\* capsule::destroy takes the capsule out of CAPSULES, or returns CapsuleBadID ...
Destroy(p, c) ==
  /\ Idle(p) /\ CapsulesUnlocked
  /\ IF Live(c)
     THEN /\ capsules' = [capsules EXCEPT ![c] = None]
          /\ dropping' = p
          /\ victim' = c
          /\ remaining' = capsules[c]
     ELSE UNCHANGED <<capsules, dropVars>>
  /\ UNCHANGED <<capsuleIdNext, services, registering>>

\* ... and drop deregisters what the capsule is allowed to offer, in the order of
\* a hash set (the capsule's RAM is freed before; see Hypervisor) ...
DropService(p, s) ==
  /\ dropping = p
  /\ s \in remaining
  /\ services' = Removed(s)
  /\ remaining' = remaining \ {s}
  /\ UNCHANGED <<capsules, capsuleIdNext, registering, dropping, victim>>

\* Mutant: the last service is not reached.
DropDone_Early == Cardinality(remaining) <= 1

\* drop has been through the allowed services.
DropDone == remaining = {}

\* ... until there is none left.
DropEnd(p) ==
  /\ dropping = p
  /\ DropDone
  /\ dropping' = None
  /\ victim' = 0
  /\ UNCHANGED <<capsules, capsuleIdNext, services, registering, remaining>>

Next ==
  \E p \in PhysicalCores :
    \/ Create(p)
    \/ RegisterInsert(p)
    \/ DropEnd(p)
    \/ \E c \in CapsuleIDs : Destroy(p, c)
    \/ \E s \in ServiceIDs :
         \/ Deregister(p, s)
         \/ DropService(p, s)
         \/ \E m \in Messages : Send(p, s, m)
         \/ \E c \in CapsuleIDs : AllowService(p, c, s) \/ RegisterCheck(p, s, c)

Spec == Init /\ [][Next]_vars

-----------------------------------------------------------------------------
\* Every variable keeps its type, and nothing of a capsule is left to be dropped
\* when the lock of CAPSULES is released (Capsule::drop).
TypeOK ==
  /\ capsules \in [CapsuleIDs -> (SUBSET ServiceIDs) \cup {None}]
  /\ capsuleIdNext \in 0 .. MaxCapsules
  /\ services \in [ServiceIDs -> Service \cup {None}]
  /\ registering \in [PhysicalCores -> (ServiceIDs \X CapsuleIDs) \cup {None}]
  /\ dropping \in PhysicalCores \cup {None}
  /\ victim \in 0 .. MaxCapsules
  /\ remaining \subseteq ServiceIDs
  /\ dropping = None <=> victim = 0
  /\ dropping = None => remaining = {}

\* register fails "if the capsule has no right to run the service": a capsule
\* that is alive and holds a service has that right, although the right is
\* checked under another lock than the one the service is entered under.
OwnerAllowed ==
  \A s \in ServiceIDs :
    Registered(s) /\ Live(services[s].capsuleid) => s \in capsules[services[s].capsuleid]

\* "ensure we do not double register a service": a service that is registered
\* stays with its capsule, and keeps the messages queued for it, until it is
\* deregistered, also when two capsules race to register it.
NoTakeover ==
  [][\A s \in ServiceIDs : Registered(s) /\ services'[s] # None =>
       /\ services'[s].capsuleid = services[s].capsuleid
       /\ IsSuffix(services[s].msgs, services'[s].msgs)]_vars

-----------------------------------------------------------------------------
(* What comments in the code say and the code does not do. *)

\* "this will fail if ... the capsule doesn't exist" (service.rs, register): a
\* service is never entered for a capsule that does not exist.
RegisteredToExisting ==
  [][\A s \in ServiceIDs : services[s] = None /\ services'[s] # None =>
       Live(services'[s].capsuleid)]_vars

\* "free up memory... and services held by this capsule" (capsule.rs, drop): what
\* destroying a capsule deregisters is its own.
DropsOwnServices ==
  [][remaining' # remaining /\ dropping # None =>
       \A s \in ServiceIDs : Registered(s) /\ services'[s] = None =>
         services[s].capsuleid = victim]_vars
=============================================================================
