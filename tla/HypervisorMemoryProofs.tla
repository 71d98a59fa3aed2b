----------------------- MODULE HypervisorMemoryProofs -----------------------
(***************************************************************************)
(* A supervisor of Hypervisor whose capsule is alive runs with the         *)
(* protection of its capsule; a capsule has the virtual cores it           *)
(* registered, and the boot capsule has all of its own before any core     *)
(* schedules.                                                              *)
(***************************************************************************)
EXTENDS HypervisorPlaceProofs

\* The provers a leaf that names none is tried with, in this order.
USE SMTT(20), ZenonT(60), Z3T(60), SMTT(40)

\* A capsule has its RAM before it has virtual cores, and keeps it while it is
\* alive; a core that runs, or is about to run, one of them has it enforced.
MemoryInv ==
  /\ \A v \in Known : Live(v.capsuleid) => capsules[v.capsuleid].memory # {}
  /\ \A p \in PhysicalCores :
       /\ pc[p] \in {"load", "queue", "add"} /\ Live(cid[p]) => capsules[cid[p]].memory # {}
       /\ vcores[p] # None /\ Live(vcores[p].capsuleid) =>
            pmp[p] = capsules[vcores[p].capsuleid].memory
       /\ pc[p] = "enter" /\ Live(next[p].capsuleid) =>
            pmp[p] = capsules[next[p].capsuleid].memory

-----------------------------------------------------------------------------
(* The RAM of a capsule that is alive is enforced. *)

\* What a core runs or is about to run is a virtual core, and is known.
LEMMA CoresKnow ==
  ASSUME TypeOK, NEW p \in PhysicalCores
  PROVE  /\ vcores[p] # None => /\ vcores[p] \in Known
                                /\ vcores[p].capsuleid \in CapsuleIDs
         /\ next[p] # None => /\ next[p] \in Known
                              /\ next[p].capsuleid \in CapsuleIDs
<1>1. Held(p) \subseteq Known
  BY DEF Known
<1>2. vcores[p] # None => vcores[p] \in Held(p) /\ vcores[p] \in VirtualCores
  BY DEF TypeOK, Held, Some
<1>3. next[p] # None => next[p] \in Held(p) /\ next[p] \in VirtualCores
  BY DEF TypeOK, Held, Some
<1>4. QED BY <1>1, <1>2, <1>3 DEF VirtualCores

\* A step that changes neither the capsules nor what is enforced for whom.
LEMMA MemoryKept ==
  ASSUME MemoryInv, Known' = Known, UNCHANGED <<capsules, pmp, vcores>>,
         \A q \in PhysicalCores :
           /\ pc'[q] \in {"load", "queue", "add"} =>
                pc[q] \in {"load", "queue", "add"} /\ cid'[q] = cid[q]
           /\ pc'[q] = "enter" => pc[q] = "enter" /\ next'[q] = next[q]
  PROVE  MemoryInv'
BY DEF MemoryInv, Live

\* A step that changes one capsule that has no virtual cores.
LEMMA MemoryOther ==
  ASSUME TypeInv, TypeInv', MemoryInv, Known' = Known, UNCHANGED <<pmp, vcores, next>>,
         NEW c, \A v \in Known : v.capsuleid # c,
         \A d \in CapsuleIDs \ {c} : capsules'[d] = capsules[d],
         \A q \in PhysicalCores :
           /\ pc'[q] \in {"load", "queue", "add"} =>
                \/ /\ pc[q] \in {"load", "queue", "add"}
                   /\ cid'[q] = cid[q] /\ cid[q] \in CapsuleIDs \ {c}
                \/ Live(cid[q])' => capsules'[cid'[q]].memory # {}
           /\ pc'[q] = "enter" => pc[q] = "enter"
  PROVE  MemoryInv'
<1> USE DEF TypeInv
<1>1. \A v \in Known : v.capsuleid \in CapsuleIDs \ {c}
  BY KnownType DEF VirtualCores
<1>2. \A v \in Known' : Live(v.capsuleid)' => capsules'[v.capsuleid].memory # {}
  BY <1>1 DEF MemoryInv, Live
<1>3. ASSUME NEW q \in PhysicalCores, vcores'[q] # None, Live(vcores[q].capsuleid)'
      PROVE  pmp'[q] = capsules'[vcores'[q].capsuleid].memory
  <2>1. vcores[q].capsuleid \in CapsuleIDs \ {c}
    BY <1>1, <1>3, CoresKnow
  <2>2. QED BY <1>3, <2>1 DEF MemoryInv, Live
<1>4. ASSUME NEW q \in PhysicalCores, pc'[q] = "enter", Live(next[q].capsuleid)'
      PROVE  pmp'[q] = capsules'[next'[q].capsuleid].memory
  <2>1. next[q] # None
    BY <1>4 DEF ControlInv, Switching
  <2>2. next[q].capsuleid \in CapsuleIDs \ {c}
    BY <1>1, <2>1, CoresKnow
  <2>3. QED BY <1>4, <2>2 DEF MemoryInv, Live
<1>5. ASSUME NEW q \in PhysicalCores, pc'[q] \in {"load", "queue", "add"}, Live(cid[q])'
      PROVE  capsules'[cid'[q]].memory # {}
  BY <1>5 DEF MemoryInv, Live
<1>6. QED BY <1>2, <1>3, <1>4, <1>5 DEF MemoryInv

\* Registering a virtual core leaves the RAM of every capsule alone.
LEMMA AddKeepsMemory ==
  ASSUME TypeInv, NEW p \in PhysicalCores, AddVirtualCore(p),
         cid[p] \in CapsuleIDs, vid[p] \in VirtualCoreIDs
  PROVE  \A c \in CapsuleIDs : /\ Live(c)' <=> Live(c)
                               /\ Live(c) => capsules'[c].memory = capsules[c].memory
<1>1. CASE Live(cid[p])
  <2>1. capsules[cid[p]] \in Capsule
    BY <1>1 DEF TypeInv, TypeOK, Live
  <2>2. /\ capsules'[cid[p]] = [capsules[cid[p]] EXCEPT !.vcores = @ \cup {vid[p]}]
        /\ \A d \in CapsuleIDs \ {cid[p]} : capsules'[d] = capsules[d]
    BY <1>1 DEF AddVirtualCore, TypeInv, TypeOK
  <2>3. capsules'[cid[p]] \in Capsule /\ capsules'[cid[p]].memory = capsules[cid[p]].memory
    BY <2>1, <2>2, VcoresUpdate
  <2>4. capsules'[cid[p]] # None
    BY <2>3, NoneAssumption DEF Capsule
  <2>5. QED BY ZenonT(60), <1>1, <2>2, <2>3, <2>4 DEF Live
<1>2. CASE ~Live(cid[p])
  BY <1>2 DEF AddVirtualCore, Live
<1>3. QED BY <1>1, <1>2

\* Each step keeps the RAM of capsules and the enforced protection in step.
LEMMA MemoryNext ==
  ASSUME PlaceInv, PlaceInv', MemoryInv, [Next]_vars
  PROVE  MemoryInv'
<1> USE DEF TypeInv, PlaceInv, Goto, flowVars, localVars, capsuleVars, globalVars, coreVars
<1>1. ASSUME NEW p \in PhysicalCores, CreateCapsule(p) PROVE MemoryInv'
  <2>1. Known' = Known
    BY <1>1, PlacesUnchanged DEF CreateCapsule, placeVars
  <2>2. capsuleIdNext \in Nat /\ NewID = capsuleIdNext + 1
    BY SizesAssumption DEF TypeOK, NewID
  <2>3. \A v \in Known : v.capsuleid # NewID
    BY <2>2, KnownType, SizesAssumption DEF FreshInv, VirtualCores, CapsuleIDs
  <2>4. \A q \in PhysicalCores : pc[q] \in Creating => cid[q] \in CapsuleIDs \ {NewID}
    BY <2>2 DEF FreshInv, ControlInv, CapsuleIDs
  <2>5. \A d \in CapsuleIDs \ {NewID} : capsules'[d] = capsules[d]
    BY <1>1 DEF CreateCapsule, TypeOK
  <2>6. /\ UNCHANGED <<pmp, vcores, next>>
        /\ \A q \in PhysicalCores :
             /\ pc'[q] \in {"load", "queue", "add"} => pc'[q] = pc[q] /\ cid'[q] = cid[q]
             /\ pc'[q] = "enter" => pc[q] = "enter"
    BY <1>1 DEF CreateCapsule, TypeOK
  <2>7. QED BY <2>1, <2>3, <2>4, <2>5, <2>6, MemoryOther DEF Creating
<1>2. ASSUME NEW p \in PhysicalCores, MapMemory(p) PROVE MemoryInv'
  <2>1. Known' = Known
    BY <1>2, PlacesUnchanged DEF MapMemory, placeVars
  <2>2. pc[p] = "map" /\ pc[p] \in Creating /\ cid[p] \in CapsuleIDs /\ ram[p] \in Regions
    BY <1>2 DEF MapMemory, Creating, ControlInv, TypeOK
  <2>3. \A v \in Known : v.capsuleid # cid[p]
    BY <2>2 DEF FreshInv
  <2>4. \A d \in CapsuleIDs \ {cid[p]} : capsules'[d] = capsules[d]
    BY <1>2 DEF MapMemory, TypeOK
  <2>5. Live(cid[p])' => capsules'[cid[p]].memory # {}
    <3>1. CASE Live(cid[p])
      <4>1. capsules[cid[p]] \in Capsule
        BY <2>2, <3>1 DEF TypeOK, Live
      <4>2. capsules'[cid[p]] = [capsules[cid[p]] EXCEPT !.memory = @ \cup {ram[p]}]
        BY <1>2, <2>2, <3>1 DEF MapMemory, TypeOK
      <4>3. QED BY <2>2, <4>1, <4>2, MemoryUpdate
    <3>2. CASE ~Live(cid[p])
      BY <1>2, <3>2 DEF MapMemory, Live
    <3>3. QED BY <3>1, <3>2
  <2>6. /\ UNCHANGED <<pmp, vcores, next, cid>>
        /\ \A q \in PhysicalCores \ {p} : pc'[q] = pc[q]
        /\ pc'[p] # "enter"
    BY <1>2 DEF MapMemory, TypeOK, Failed
  <2>7. \A q \in PhysicalCores \ {p} : pc[q] \in Creating => cid[q] \in CapsuleIDs \ {cid[p]}
    BY <2>2 DEF FreshInv, ControlInv
  <2>8. QED BY <2>1, <2>3, <2>4, <2>5, <2>6, <2>7, MemoryOther DEF Creating
<1>3. ASSUME NEW p \in PhysicalCores, QueueVirtualCore(p) PROVE MemoryInv'
  <2>1. Known' \subseteq Known \cup {NewVcore(p)}
    BY ZenonT(60), PlaceStep, <1>3 DEF QueueVirtualCore, TypeOK
  <2>2. /\ NewVcore(p).capsuleid = cid[p] /\ pc[p] = "queue" /\ pc'[p] = "add"
        /\ UNCHANGED <<capsules, pmp, vcores, next, cid>>
        /\ \A q \in PhysicalCores \ {p} : pc'[q] = pc[q]
    BY <1>3 DEF QueueVirtualCore, NewVcore, TypeOK
  <2>3. QED BY <2>1, <2>2 DEF MemoryInv, Live
<1>4. ASSUME NEW p \in PhysicalCores, AddVirtualCore(p) PROVE MemoryInv'
  <2>1. Known' = Known
    BY <1>4, PlacesUnchanged DEF AddVirtualCore, placeVars
  <2>2. cid[p] \in CapsuleIDs /\ vid[p] \in VirtualCoreIDs /\ pc[p] = "add"
    BY <1>4 DEF AddVirtualCore, Creating, ControlInv, TypeOK
  <2>3. \A c \in CapsuleIDs : /\ Live(c)' <=> Live(c)
                              /\ Live(c) => capsules'[c].memory = capsules[c].memory
    BY <1>4, <2>2, AddKeepsMemory
  <2>4. /\ UNCHANGED <<pmp, vcores, next, cid>>
        /\ \A q \in PhysicalCores \ {p} : pc'[q] = pc[q]
        /\ pc'[p] # "enter"
    BY <1>4 DEF AddVirtualCore, TypeOK, Failed, Created
  <2>5. \A v \in Known : v.capsuleid \in CapsuleIDs
    BY KnownType DEF VirtualCores
  <2>6. \A q \in PhysicalCores :
          /\ vcores[q] # None => vcores[q].capsuleid \in CapsuleIDs
          /\ pc[q] = "enter" => next[q].capsuleid \in CapsuleIDs
          /\ pc[q] \in {"load", "queue", "add"} => cid[q] \in CapsuleIDs
    BY CoresKnow DEF ControlInv, Switching, Creating
  <2>7. QED BY <2>1, <2>2, <2>3, <2>4, <2>5, <2>6 DEF MemoryInv
<1>5. ASSUME NEW p \in PhysicalCores, DestroyCapsule(p) PROVE MemoryInv'
  <2>1. Known' = Known
    BY <1>5, PlacesUnchanged DEF DestroyCapsule, placeVars
  <2>2. \A c \in CapsuleIDs : Live(c)' => Live(c) /\ capsules'[c] = capsules[c]
    BY <1>5 DEF DestroyCapsule, DropCapsule, Live, TypeOK
  <2>3. /\ UNCHANGED <<pmp, vcores, next, cid>>
        /\ \A q \in PhysicalCores \ {p} : pc'[q] = pc[q]
        /\ pc'[p] = "next"
    BY <1>5 DEF DestroyCapsule, TypeOK
  <2>4. \A v \in Known : v.capsuleid \in CapsuleIDs
    BY KnownType DEF VirtualCores
  <2>5. \A q \in PhysicalCores :
          /\ vcores[q] # None => vcores[q].capsuleid \in CapsuleIDs
          /\ pc[q] = "enter" => next[q].capsuleid \in CapsuleIDs
          /\ pc[q] \in {"load", "queue", "add"} => cid[q] \in CapsuleIDs
    BY CoresKnow DEF ControlInv, Switching, Creating
  <2>6. QED BY <2>1, <2>2, <2>3, <2>4, <2>5 DEF MemoryInv
<1>6. ASSUME NEW p \in PhysicalCores, SwitchOut(p) PROVE MemoryInv'
  <2>1. Known' = Known
    BY ZenonT(60), <1>6, PlaceStep DEF SwitchOut, QueueVirtualCore, TypeOK
  <2>2. /\ UNCHANGED <<capsules, next, cid>>
        /\ vcores'[p] = None /\ pc[p] = "switch" /\ pc'[p] = "enter"
        /\ pmp'[p] = IF SameCapsule(p) THEN pmp[p] ELSE Enforced(p, next[p].capsuleid)
        /\ \A q \in PhysicalCores \ {p} :
             pc'[q] = pc[q] /\ vcores'[q] = vcores[q] /\ pmp'[q] = pmp[q]
    BY <1>6 DEF SwitchOut, TypeOK
  <2>3. next[p] \in Known
    BY <2>2, CoresKnow DEF ControlInv, Switching
  <2>4. Live(next[p].capsuleid) => pmp'[p] = capsules[next[p].capsuleid].memory
    BY <2>2, <2>3 DEF MemoryInv, SameCapsule, Enforced
  <2>5. QED BY <2>1, <2>2, <2>4 DEF MemoryInv, Live
<1>7. ASSUME NEW p \in PhysicalCores, SwitchIn(p) PROVE MemoryInv'
  <2>1. Known' = Known
    BY ZenonT(60), <1>7, PlaceStep DEF SwitchIn, QueueVirtualCore, TypeOK
  <2>2. /\ UNCHANGED <<capsules, cid, pmp>>
        /\ vcores'[p] = next[p] /\ pc[p] = "enter" /\ pc'[p] = "out"
        /\ \A q \in PhysicalCores \ {p} :
             pc'[q] = pc[q] /\ vcores'[q] = vcores[q] /\ next'[q] = next[q]
    BY <1>7 DEF SwitchIn, TypeOK
  <2>3. QED BY <2>1, <2>2 DEF MemoryInv, Live
<1>8. ASSUME NEW p \in PhysicalCores,
             \/ Boot(p) \/ AllocRegion(p) \/ LoadSupervisor(p) \/ TimerInterrupt(p)
             \/ UnhandledException(p)
             \/ FatalException(p) \/ AdoptOrphan(p) \/ TakeWaiting(p) \/ NothingWaiting(p)
             \/ ManagementCore(p) \/ Housekeeping(p)
      PROVE  MemoryInv'
  <2>1. Known' = Known
    BY ZenonT(60), <1>8, PlaceStep
    DEF Boot, PhysicalCoreInit, SetupHardware, SetupFails, SetInitDone, WaitForInit, StartTimer,
        AllocRegion, LoadSupervisor, TimerInterrupt,
        UnhandledException, FatalException, AdoptOrphan, TakeWaiting,
        NothingWaiting, ManagementCore, MaySchedule, Housekeeping, QueueVirtualCore, TypeOK
  <2>2. /\ UNCHANGED <<capsules, pmp, vcores>>
        /\ \A q \in PhysicalCores \ {p} :
             pc'[q] = pc[q] /\ cid'[q] = cid[q] /\ next'[q] = next[q]
        /\ pc'[p] # "enter"
        /\ pc'[p] \in {"load", "queue", "add"} => pc[p] = "load" /\ cid'[p] = cid[p]
    BY ZenonT(60), <1>8
    DEF Boot, PhysicalCoreInit, SetupHardware, SetupFails, SetInitDone, WaitForInit, StartTimer,
        AllocRegion, LoadSupervisor, TimerInterrupt,
        UnhandledException, FatalException, AdoptOrphan, TakeWaiting,
        NothingWaiting, ManagementCore, Housekeeping, Failed, TypeOK
  <2>3. QED BY <2>1, <2>2, MemoryKept
<1>9. CASE Halted \/ UNCHANGED vars
  <2>1. UNCHANGED <<globalQueues, queues, vcores, next, capsules, pmp, pc, cid>>
    BY <1>9 DEF Halted, vars
  <2>2. Known' = Known
    BY <2>1, PlacesUnchanged DEF placeVars
  <2>3. QED BY <2>1, <2>2, MemoryKept
<1>10. QED
  BY <1>1, <1>2, <1>3, <1>4, <1>5, <1>6, <1>7, <1>8, <1>9 DEF Next, Create, Schedule

\* While a supervisor of a capsule that is alive runs, the hardware gives it
\* the capsule's RAM and nothing else.
THEOREM LiveCapsulesIsolated == Spec => []LiveIsolation
<1>1. Init => PlaceInv /\ MemoryInv
  <2>1. Init => Known = {}
    BY EmptyQueuesProperties DEF Init, Known, Held, Some
  <2>2. QED BY ZenonT(60), <2>1, PlaceInit DEF Init, MemoryInv
<1>2. PlaceInv /\ MemoryInv /\ [Next]_vars => (PlaceInv /\ MemoryInv)'
  BY PlaceNext, MemoryNext
<1>3. PlaceInv /\ MemoryInv => LiveIsolation
  BY CoresKnow DEF PlaceInv, TypeInv, MemoryInv, LiveIsolation, InGuest
<1>4. QED BY <1>1, <1>2, <1>3, PTL DEF Spec

-----------------------------------------------------------------------------
(* Which virtual cores a capsule has. *)

\* Virtual core i of capsule c exists, or is queued and not registered yet.
HasVcore(c, i) == \E v \in Known : v.capsuleid = c /\ v.vcoreid = i
Pending(c, i) == \E p \in PhysicalCores : pc[p] = "add" /\ cid[p] = c /\ vid[p] = i

\* RegistryExact virtual core by virtual core; it is inductive once the virtual core
\* that is about to be registered is known to exist.
RegistryInv ==
  /\ \A c \in CapsuleIDs : Live(c) =>
       \A i : i \in capsules[c].vcores <=> HasVcore(c, i) /\ ~Pending(c, i)
  /\ \A p \in PhysicalCores : pc[p] = "add" => HasVcore(cid[p], vid[p])

\* Until INIT_DONE the boot core is in hvmain; the capsule it creates there is
\* capsule 1, which has the virtual cores the loop has passed, and in the end all.
FirstInv ==
  /\ initDone \/ pc[BootCore] = "publish" => \A i \in VirtualCoreIDs : HasVcore(1, i)
  /\ ~initDone =>
       /\ pc[BootCore] \in Creating \cup {"init", "setup", "create", "publish", "halted"}
       /\ pc[BootCore] \in Creating => cid[BootCore] = 1
       /\ pc[BootCore] \in {"queue", "add"} =>
            \A i \in VirtualCoreIDs : i < vid[BootCore] => HasVcore(1, i)

\* The two forms of RegistryExact.
LEMMA RegistryForms == RegistryInv => RegistryExact
<1> SUFFICES ASSUME RegistryInv, NEW c \in CapsuleIDs, Live(c)
             PROVE  capsules[c].vcores =
                      {v.vcoreid : v \in {u \in Known : u.capsuleid = c}}
                        \ {vid[p] : p \in {q \in PhysicalCores : pc[q] = "add" /\ cid[q] = c}}
  BY DEF RegistryExact
<1>1. \A i : i \in capsules[c].vcores <=> HasVcore(c, i) /\ ~Pending(c, i)
  BY DEF RegistryInv
<1>2. \A i : HasVcore(c, i) <=> i \in {v.vcoreid : v \in {u \in Known : u.capsuleid = c}}
  BY DEF HasVcore
<1>3. \A i : Pending(c, i) <=>
        i \in {vid[p] : p \in {q \in PhysicalCores : pc[q] = "add" /\ cid[q] = c}}
  BY DEF Pending
<1>4. QED BY <1>1, <1>2, <1>3

\* A step that registers no virtual core keeps the registry.
LEMMA RegistryKept ==
  ASSUME RegistryInv, Known' = Known,
         \A c \in CapsuleIDs : Live(c)' => Live(c) /\ capsules'[c].vcores = capsules[c].vcores,
         \A q \in PhysicalCores :
           /\ pc'[q] = "add" <=> pc[q] = "add"
           /\ pc[q] = "add" => cid'[q] = cid[q] /\ vid'[q] = vid[q]
  PROVE  RegistryInv'
<1>1. \A c, i : HasVcore(c, i)' <=> HasVcore(c, i)
  BY DEF HasVcore
<1>2. \A c, i : Pending(c, i)' <=> Pending(c, i)
  BY DEF Pending
<1> QED BY <1>1, <1>2 DEF RegistryInv

\* Known virtual cores stay known.
LEMMA HasVcoreKept ==
  ASSUME Known \subseteq Known', NEW c, NEW i, HasVcore(c, i)
  PROVE  HasVcore(c, i)'
BY DEF HasVcore

\* The registry follows create_and_add_vcore.
LEMMA RegistryNext ==
  ASSUME PlaceInv, RegistryInv, [Next]_vars
  PROVE  RegistryInv'
<1>0. TypeInv /\ TypeInv' /\ InitInv /\ OnePlace /\ FreshInv
  BY TypeNext DEF PlaceInv
<1>1. \/ Known' = Known
      \/ \E p \in PhysicalCores : QueueVirtualCore(p) /\ Known' = Known \cup {NewVcore(p)}
  BY <1>0, PlaceStep
<1> USE DEF TypeInv, Goto, flowVars, localVars, capsuleVars, globalVars, coreVars
<1>2. ASSUME NEW p \in PhysicalCores, CreateCapsule(p) PROVE RegistryInv'
  <2>1. Known' = Known
    BY ZenonT(60), <1>0, <1>1, <1>2 DEF CreateCapsule, QueueVirtualCore, TypeOK
  <2>2. /\ NewID \in CapsuleIDs /\ capsules'[NewID].vcores = {}
        /\ \A c \in CapsuleIDs \ {NewID} : capsules'[c] = capsules[c]
        /\ pc[p] # "add" /\ pc'[p] # "add"
        /\ \A q \in PhysicalCores \ {p} : pc'[q] = pc[q] /\ cid'[q] = cid[q]
        /\ vid' = vid
    BY <1>0, <1>2, SizesAssumption
    DEF CreateCapsule, NewID, NewCapsule, TypeOK, CapsuleIDs
  <2>3. \A i : ~HasVcore(NewID, i)
    <3>1. \A v \in Known : v.capsuleid \in Nat /\ v.capsuleid <= capsuleIdNext
      BY <1>0, KnownType DEF VirtualCores, CapsuleIDs, FreshInv
    <3>2. capsuleIdNext \in Nat
      BY <1>0 DEF TypeOK
    <3>3. QED BY <3>1, <3>2 DEF NewID, HasVcore
  <2>4. \A c, i : HasVcore(c, i)' <=> HasVcore(c, i)
    BY <2>1 DEF HasVcore
  <2>5. \A c, i : Pending(c, i)' <=> Pending(c, i)
    BY <2>2 DEF Pending
  <2>6. \A c \in CapsuleIDs \ {NewID} : Live(c)' <=> Live(c)
    BY <2>2 DEF Live
  <2>7. \A q \in PhysicalCores : pc'[q] = "add" => HasVcore(cid[q], vid[q]) /\ cid'[q] = cid[q]
    BY <2>2 DEF RegistryInv
  <2>8. QED BY <2>1, <2>2, <2>3, <2>4, <2>5, <2>6, <2>7 DEF RegistryInv
<1>3. ASSUME NEW p \in PhysicalCores, QueueVirtualCore(p) PROVE RegistryInv'
  <2>1. Known' = Known \cup {NewVcore(p)}
    <3>1. \A q \in PhysicalCores : QueueVirtualCore(q) => q = p
      BY ZenonT(60), <1>0, <1>3 DEF QueueVirtualCore, TypeOK
    <3>2. Known \subseteq Known' /\ Known' \subseteq Known \cup {NewVcore(p)}
      BY <1>1, <3>1
    <3>3. NewVcore(p) \in VirtualCores
      BY <1>0, <1>3, PriorityAssumption
      DEF QueueVirtualCore, TypeOK, ControlInv, Creating, VirtualCores, NewVcore
    <3>4. globalQueues' = Enqueue(globalQueues, NewVcore(p))
      BY <1>3 DEF QueueVirtualCore, NewVcore
    <3>5. globalQueues \in QueuesType(VirtualCores)
      BY <1>0 DEF TypeOK
    <3>6. NewVcore(p) \in Queued(globalQueues')
      BY <3>3, <3>4, <3>5, EnqueueProperties
    <3>7. QED BY <3>2, <3>6 DEF Known
  <2>2. /\ UNCHANGED <<capsules, cid, vid>> /\ pc[p] = "queue" /\ pc'[p] = "add"
        /\ \A q \in PhysicalCores \ {p} : pc'[q] = pc[q]
    BY <1>0, <1>3 DEF QueueVirtualCore, TypeOK
  <2>3. NewVcore(p).capsuleid = cid[p] /\ NewVcore(p).vcoreid = vid[p]
    BY ZenonT(60) DEF NewVcore
  <2>4. \A c, i : HasVcore(c, i)' <=> HasVcore(c, i) \/ (c = cid[p] /\ i = vid[p])
    BY <2>1, <2>3 DEF HasVcore
  <2>5. \A c, i : Pending(c, i)' <=> Pending(c, i) \/ (c = cid[p] /\ i = vid[p])
    BY <2>2 DEF Pending
  <2>6. ~HasVcore(cid[p], vid[p])
    <3>1. \A v \in Known : v.capsuleid = cid[p] => v.vcoreid < vid[p]
      BY <1>0, <2>2 DEF FreshInv, Creating
    <3>2. vid[p] \in Int
      BY <1>0, SizesAssumption DEF TypeOK, VirtualCoreIDs
    <3>3. QED BY <3>1, <3>2 DEF HasVcore
  <2>7. \A c : Live(c)' <=> Live(c)
    BY <2>2 DEF Live
  <2>8. QED BY <2>2, <2>4, <2>5, <2>6, <2>7 DEF RegistryInv
<1>4. ASSUME NEW p \in PhysicalCores, AddVirtualCore(p) PROVE RegistryInv'
  <2>1. Known' = Known
    BY ZenonT(60), <1>0, <1>1, <1>4 DEF AddVirtualCore, QueueVirtualCore, TypeOK
  <2>2. /\ pc[p] = "add" /\ pc'[p] # "add" /\ cid' = cid
        /\ \A q \in PhysicalCores \ {p} : pc'[q] = pc[q] /\ vid'[q] = vid[q]
    BY <1>0, <1>4 DEF AddVirtualCore, TypeOK, Created, Failed
  <2>3. /\ \A c \in CapsuleIDs : Live(c)' <=> Live(c)
        /\ \A c \in CapsuleIDs \ {cid[p]} : capsules'[c] = capsules[c]
        /\ cid[p] \in CapsuleIDs /\ Live(cid[p]) =>
             capsules'[cid[p]].vcores = capsules[cid[p]].vcores \cup {vid[p]}
    <3>1. CASE Live(cid[p])
      <4>1. capsules' = [capsules EXCEPT ![cid[p]].vcores = @ \cup {vid[p]}]
        BY <1>4, <3>1 DEF AddVirtualCore
      <4>2. cid[p] \in CapsuleIDs /\ capsules[cid[p]] \in Capsule /\ capsules[cid[p]] # None
        BY <1>0, <2>2, <3>1 DEF TypeOK, ControlInv, Creating, Live
      <4>3. capsules' \in [CapsuleIDs -> Capsule \cup {None}]
            /\ capsules \in [CapsuleIDs -> Capsule \cup {None}]
        BY <1>0 DEF TypeOK
      <4>4. capsules'[cid[p]] = [capsules[cid[p]] EXCEPT !.vcores = @ \cup {vid[p]}]
        BY <4>1, <4>2, <4>3
      <4>5. /\ capsules'[cid[p]].vcores = capsules[cid[p]].vcores \cup {vid[p]}
            /\ \A c \in CapsuleIDs \ {cid[p]} : capsules'[c] = capsules[c]
        BY <4>1, <4>2, <4>3, <4>4 DEF Capsule
      <4>6. capsules'[cid[p]] # None
        <5>1. vid[p] \in VirtualCoreIDs
          BY <1>0 DEF TypeOK
        <5>2. capsules'[cid[p]] \in Capsule
          BY <4>2, <4>4, <5>1, VcoresUpdate
        <5>3. QED BY <5>2, NoneAssumption DEF Capsule
      <4>7. QED BY <4>2, <4>5, <4>6 DEF Live
    <3>2. CASE ~Live(cid[p])
      BY <1>4, <3>2 DEF AddVirtualCore, Live
    <3>3. QED BY <3>1, <3>2
  <2>4. \A c, i : HasVcore(c, i)' <=> HasVcore(c, i)
    BY <2>1 DEF HasVcore
  <2>5. \A q \in PhysicalCores \ {p} : pc[q] = "add" => cid[q] # cid[p]
    BY <1>0, <2>2 DEF FreshInv, Creating
  <2>6. \A c, i : c # cid[p] => (Pending(c, i)' <=> Pending(c, i))
    BY <2>2 DEF Pending
  <2>7. \A i : ~Pending(cid[p], i)' /\ (Pending(cid[p], i) <=> i = vid[p])
    BY <2>2, <2>5 DEF Pending
  <2>8. HasVcore(cid[p], vid[p])
    BY <2>2 DEF RegistryInv
  <2>9. \A q \in PhysicalCores : (pc[q] = "add" => HasVcore(cid[q], vid[q]))'
    BY <2>2, <2>4 DEF RegistryInv
  <2>10. ASSUME NEW c \in CapsuleIDs, Live(c)', NEW i
         PROVE  i \in capsules'[c].vcores <=> HasVcore(c, i)' /\ ~Pending(c, i)'
    <3>1. Live(c) /\ (i \in capsules[c].vcores <=> HasVcore(c, i) /\ ~Pending(c, i))
      BY <2>3, <2>10 DEF RegistryInv
    <3>2. CASE c = cid[p]
      BY <2>2, <2>3, <2>4, <2>7, <2>8, <3>1, <3>2
    <3>3. CASE c # cid[p]
      BY <2>3, <2>4, <2>6, <3>1, <3>3
    <3>4. QED BY <3>2, <3>3
  <2>11. QED BY <2>2, <2>4, <2>9, <2>10 DEF RegistryInv
<1>5. ASSUME NEW p \in PhysicalCores,
             \/ Boot(p) \/ AllocRegion(p) \/ MapMemory(p) \/ LoadSupervisor(p)
             \/ TimerInterrupt(p) \/ UnhandledException(p) \/ FatalException(p)
             \/ DestroyCapsule(p) \/ Schedule(p)
      PROVE  RegistryInv'
  <2>1. /\ pc[p] \notin {"queue", "add"}
        /\ \E label \in Labels \ {"add"} : pc' = [pc EXCEPT ![p] = label]
        /\ \A q \in PhysicalCores \ {p} : cid'[q] = cid[q] /\ vid'[q] = vid[q]
    <3>1. CASE AllocRegion(p) \/ MapMemory(p) \/ LoadSupervisor(p)
      <4>1. pc[p] \in {"alloc", "map", "load"} /\ cid' = cid
            /\ \A q \in PhysicalCores \ {p} : vid'[q] = vid[q]
        BY <1>0, <3>1 DEF AllocRegion, MapMemory, LoadSupervisor, TypeOK
      <4>2. \E label \in {"map", "load", "queue", Failed} : pc' = [pc EXCEPT ![p] = label]
        BY <3>1 DEF AllocRegion, MapMemory, LoadSupervisor
      <4>3. {"map", "load", "queue", Failed} \subseteq Labels \ {"add"}
        BY ReturnLabels DEF Labels, Creating
      <4>4. QED BY ZenonT(60), <4>1, <4>2, <4>3
    <3>2. CASE Boot(p) \/ TimerInterrupt(p) \/ UnhandledException(p) \/ DestroyCapsule(p)
               \/ FatalException(p)
      BY ZenonT(60), <1>0, <3>2
      DEF Boot, PhysicalCoreInit, SetupHardware, SetupFails, SetInitDone, WaitForInit,
          StartTimer, TimerInterrupt, UnhandledException, FatalException, DestroyCapsule,
          TypeOK, Labels
    <3>3. CASE Schedule(p)
      BY ZenonT(60), <1>0, <3>3
      DEF Schedule, AdoptOrphan, TakeWaiting, NothingWaiting, ManagementCore, MaySchedule,
          SwitchOut, SwitchIn, Housekeeping, TypeOK, Labels
    <3>4. QED BY <1>5, <3>1, <3>2, <3>3
  <2>2. \A q \in PhysicalCores : pc[q] = "add" <=> pc'[q] = "add"
    BY <1>0, <2>1 DEF TypeOK
  <2>3. Known' = Known
    <3>1. ~\E q \in PhysicalCores : QueueVirtualCore(q)
      BY ZenonT(60), <1>0, <2>1 DEF QueueVirtualCore, TypeOK
    <3>2. QED BY <1>1, <3>1
  <2>4. \A c \in CapsuleIDs : Live(c)' => Live(c) /\ capsules'[c].vcores = capsules[c].vcores
    <3>1. CASE MapMemory(p)
      <4>1. cid[p] \in CapsuleIDs /\ ram[p] \in Regions
        BY <1>0, <3>1 DEF MapMemory, Creating, ControlInv, TypeOK
      <4>2. CASE Live(cid[p])
        <5>1. capsules[cid[p]] \in Capsule
          BY <1>0, <4>1, <4>2 DEF TypeOK, Live
        <5>2. /\ capsules'[cid[p]] = [capsules[cid[p]] EXCEPT !.memory = @ \cup {ram[p]}]
              /\ \A c \in CapsuleIDs \ {cid[p]} : capsules'[c] = capsules[c]
          BY <1>0, <3>1, <4>1, <4>2 DEF MapMemory, TypeOK
        <5>3. capsules'[cid[p]].vcores = capsules[cid[p]].vcores
          BY <5>1, <5>2 DEF Capsule
        <5>4. QED BY ZenonT(60), <4>2, <5>2, <5>3 DEF Live
      <4>3. CASE ~Live(cid[p])
        BY <3>1, <4>3 DEF MapMemory, Live
      <4>4. QED BY <4>2, <4>3
    <3>2. CASE DestroyCapsule(p)
      <4>1. capsules' = [capsules EXCEPT ![cid[p]] = None] \/ capsules' = capsules
        BY <3>2 DEF DestroyCapsule, DropCapsule
      <4>2. \A c \in CapsuleIDs : capsules'[c] = None \/ capsules'[c] = capsules[c]
        BY <1>0, <4>1 DEF TypeOK
      <4>3. QED BY <4>2 DEF Live
    <3>3. CASE ~MapMemory(p) /\ ~DestroyCapsule(p)
      <4>1. UNCHANGED capsules
        BY ZenonT(60), <1>5, <3>3
        DEF Boot, PhysicalCoreInit, SetupHardware, SetupFails, SetInitDone, WaitForInit,
            StartTimer, AllocRegion, LoadSupervisor, TimerInterrupt, UnhandledException,
            FatalException, Schedule, AdoptOrphan, TakeWaiting, NothingWaiting,
            ManagementCore, SwitchOut, SwitchIn, Housekeeping
      <4>2. QED BY <4>1 DEF Live
    <3>4. QED BY <3>1, <3>2, <3>3
  <2>5. QED BY <2>1, <2>2, <2>3, <2>4, RegistryKept
<1>6. CASE Halted \/ UNCHANGED vars
  <2>1. UNCHANGED <<globalQueues, queues, vcores, next, capsules, pc, cid, vid>>
    BY <1>6 DEF Halted, vars
  <2>2. Known' = Known
    BY <2>1, PlacesUnchanged DEF placeVars
  <2>3. QED BY <2>1, <2>2, RegistryKept DEF Live
<1>7. QED BY ZenonT(60), <1>2, <1>3, <1>4, <1>5, <1>6 DEF Next, Create

\* Initially there are no virtual cores.
LEMMA NoVcores == Init => RegistryInv /\ FirstInv /\ BootInv
<1> SUFFICES ASSUME Init PROVE RegistryInv /\ FirstInv /\ BootInv
  OBVIOUS
<1>1. RegistryInv
  BY DEF Init, RegistryInv, Live
<1>2. FirstInv
  BY CoresAssumption DEF Init, FirstInv, Creating
<1>3. BootInv
  BY CoresAssumption DEF Init, BootInv
<1>4. QED BY <1>1, <1>2, <1>3

\* A step of the boot core through hvmain and create_boot_capsule.
LEMMA FirstStep ==
  ASSUME TypeInv, TypeInv', BootInv, RegistryInv, FirstInv, Known \subseteq Known',
         ~initDone, Boot(BootCore) \/ CreateCapsule(BootCore) \/ Create(BootCore)
  PROVE  FirstInv'
<1> USE CoresAssumption
<1> DEFINE b == BootCore
<1>0. /\ \A i \in VirtualCoreIDs : HasVcore(1, i) => HasVcore(1, i)'
      /\ pc[b] = "publish" => \A i \in VirtualCoreIDs : HasVcore(1, i)
      /\ pc[b] \in Creating \cup {"init", "setup", "create", "publish", "halted"}
      /\ pc[b] \in Creating => cid[b] = 1
      /\ pc[b] \in {"queue", "add"} =>
           \A i \in VirtualCoreIDs : i < vid[b] => HasVcore(1, i)
      /\ pc[b] = "add" => HasVcore(cid[b], vid[b])
      /\ pc[b] # "wait"
      /\ pc[b] = "create" => capsuleIdNext = 0
  BY HasVcoreKept DEF FirstInv, RegistryInv, BootInv
<1> USE DEF TypeInv, TypeOK, Goto, flowVars, localVars, capsuleVars, globalVars, coreVars
<1>1. CASE Boot(b)
  <2>1. CASE PhysicalCoreInit(b) \/ SetupHardware(b) \/ SetupFails(b)
    <3>1. pc'[b] \in {"setup", "create", "halted"} /\ initDone' = initDone
      BY <2>1 DEF PhysicalCoreInit, SetupHardware, SetupFails
    <3>2. QED BY <3>1 DEF FirstInv, Creating
  <2>2. CASE SetInitDone(b)
    BY ZenonT(60), <1>0, <2>2 DEF SetInitDone, FirstInv
  <2>3. CASE WaitForInit(b) \/ StartTimer(b)
    BY <1>0, <2>3 DEF WaitForInit, StartTimer, Creating
  <2>4. QED BY <1>1, <2>1, <2>2, <2>3 DEF Boot
<1>2. CASE CreateCapsule(b)
  <2>1. pc[b] = "create" /\ pc'[b] = "alloc" /\ initDone' = initDone /\ cid'[b] = NewID
    BY <1>0, <1>2 DEF CreateCapsule, Creating
  <2>2. NewID = 1
    BY <1>0, <2>1 DEF NewID
  <2>3. QED BY <2>1, <2>2 DEF FirstInv, Creating
<1>3. CASE AllocRegion(b) \/ MapMemory(b) \/ LoadSupervisor(b)
  <2>1. /\ pc[b] \in Creating /\ initDone' = initDone /\ cid' = cid
        /\ pc'[b] \in {"map", "load", "halted"} \/ (pc'[b] = "queue" /\ vid'[b] = 0)
    BY <1>3 DEF AllocRegion, MapMemory, LoadSupervisor, Creating, Failed
  <2>2. \A i \in VirtualCoreIDs : ~(i < 0)
    BY SizesAssumption DEF VirtualCoreIDs
  <2>3. QED BY <1>0, <2>1, <2>2 DEF FirstInv, Creating
<1>4. CASE QueueVirtualCore(b)
  <2>1. /\ pc[b] = "queue" /\ pc'[b] = "add" /\ UNCHANGED <<initDone, cid, vid>>
    BY ZenonT(60), <1>4 DEF QueueVirtualCore
  <2>2. QED BY ZenonT(60), <1>0, <2>1 DEF FirstInv, Creating
<1>5. CASE AddVirtualCore(b)
  <2>1. pc[b] = "add" /\ initDone' = initDone /\ cid' = cid
    BY <1>5 DEF AddVirtualCore
  <2>2. \A i \in VirtualCoreIDs : i < vid[b] + 1 => HasVcore(1, i)'
    <3>1. vid[b] \in VirtualCoreIDs /\ VirtualCoreIDs \subseteq Int
      BY SizesAssumption DEF VirtualCoreIDs
    <3>2. \A i \in VirtualCoreIDs : i < vid[b] + 1 => i < vid[b] \/ i = vid[b]
      <4>1. \A i, j \in Int : i < j + 1 => i < j \/ i = j
        OBVIOUS
      <4>2. QED BY ZenonT(60), <3>1, <4>1
    <3>3. HasVcore(1, vid[b])
      BY <1>0, <2>1 DEF Creating
    <3>4. \A i \in VirtualCoreIDs : i < vid[b] + 1 => HasVcore(1, i)
      BY <1>0, <2>1, <3>2, <3>3
    <3>5. QED BY <1>0, <3>4
  <2>3. CASE Live(cid[b]) /\ ~IsLast(vid[b])
    <3>1. pc'[b] = "queue" /\ vid'[b] = vid[b] + 1
      BY <1>5, <2>3 DEF AddVirtualCore
    <3>2. QED BY <1>0, <2>1, <2>2, <3>1 DEF FirstInv, Creating
  <2>4. CASE Live(cid[b]) /\ IsLast(vid[b])
    <3>1. pc'[b] = "publish"
      BY <1>5, <2>4 DEF AddVirtualCore, Created
    <3>2. \A i \in VirtualCoreIDs : i < vid[b] + 1
      BY <2>4, SizesAssumption DEF IsLast, VirtualCoreIDs
    <3>3. QED BY <2>1, <2>2, <3>1, <3>2 DEF FirstInv, Creating
  <2>5. CASE ~Live(cid[b])
    <3>1. pc'[b] = "halted"
      BY <1>5, <2>5 DEF AddVirtualCore, Failed
    <3>2. QED BY <2>1, <3>1 DEF FirstInv, Creating
  <2>6. QED BY <2>3, <2>4, <2>5
<1>6. QED BY <1>1, <1>2, <1>3, <1>4, <1>5 DEF Create

\* No step leaves hvmain before the boot capsule is there.
LEMMA FirstNext ==
  ASSUME TypeInv, TypeInv', BootInv, RegistryInv, FirstInv, Known \subseteq Known', [Next]_vars
  PROVE  FirstInv'
<1> USE CoresAssumption
<1>0. \A i \in VirtualCoreIDs : HasVcore(1, i) => HasVcore(1, i)'
  BY HasVcoreKept
<1> USE DEF TypeInv, TypeOK, Goto, flowVars, localVars, capsuleVars, globalVars, coreVars
<1>1. CASE initDone
  <2>1. initDone'
    BY ZenonT(60), <1>1
    DEF Next, Halted, vars, Boot, PhysicalCoreInit, SetupHardware, SetupFails, SetInitDone,
        WaitForInit, StartTimer, CreateCapsule, Create, AllocRegion, MapMemory, LoadSupervisor,
        QueueVirtualCore, AddVirtualCore, TimerInterrupt, UnhandledException, FatalException,
        DestroyCapsule, Schedule, AdoptOrphan, TakeWaiting, NothingWaiting, ManagementCore,
        SwitchOut, SwitchIn, Housekeeping
  <2>2. QED BY <1>0, <1>1, <2>1 DEF FirstInv
<1>2. ASSUME ~initDone, UNCHANGED <<initDone, cid, vid>>, pc'[BootCore] = pc[BootCore]
      PROVE  FirstInv'
  BY ZenonT(60), <1>0, <1>2 DEF FirstInv
<1>3. ASSUME ~initDone, NEW p \in PhysicalCores \ {BootCore},
             \/ Boot(p) \/ CreateCapsule(p) \/ Create(p) \/ TimerInterrupt(p)
             \/ FatalException(p) \/ UnhandledException(p) \/ DestroyCapsule(p) \/ Schedule(p)
      PROVE  FirstInv'
  <2>1. pc[p] \in {"init", "wait"}
    BY <1>3 DEF BootInv
  <2>2. PhysicalCoreInit(p)
    BY ZenonT(60), <1>3, <2>1
    DEF Boot, SetupHardware, SetupFails, SetInitDone, WaitForInit, StartTimer, CreateCapsule,
        Create, AllocRegion, MapMemory, LoadSupervisor, QueueVirtualCore, AddVirtualCore,
        TimerInterrupt, UnhandledException, FatalException, DestroyCapsule, Schedule,
        AdoptOrphan, TakeWaiting, NothingWaiting, ManagementCore, MaySchedule, SwitchOut,
        SwitchIn, Housekeeping
  <2>3. UNCHANGED <<initDone, cid, vid>> /\ pc'[BootCore] = pc[BootCore]
    BY ZenonT(60), <1>3, <2>2 DEF PhysicalCoreInit
  <2>4. QED BY <1>2, <1>3, <2>3
<1>4. ASSUME ~initDone,
             \/ TimerInterrupt(BootCore) \/ FatalException(BootCore)
             \/ UnhandledException(BootCore) \/ DestroyCapsule(BootCore) \/ Schedule(BootCore)
      PROVE  FALSE
  <2>1. pc[BootCore] \in Creating \cup {"init", "setup", "create", "publish", "halted"}
    BY <1>4 DEF FirstInv
  <2>2. pc[BootCore] \in {"out", "destroy", "next", "switch", "enter", "housekeeping"}
    BY ZenonT(60), <1>4
    DEF TimerInterrupt, UnhandledException, FatalException, DestroyCapsule, Schedule,
        AdoptOrphan, TakeWaiting, NothingWaiting, ManagementCore, MaySchedule, SwitchOut,
        SwitchIn, Housekeeping
  <2>3. QED BY ZenonT(60), <2>1, <2>2 DEF Creating
<1>5. CASE ~initDone /\ (Halted \/ UNCHANGED vars)
  <2>1. UNCHANGED <<initDone, cid, vid, pc>>
    BY <1>5 DEF Halted, vars
  <2>2. QED BY <1>2, <1>5, <2>1
<1>6. CASE ~initDone /\ (Boot(BootCore) \/ CreateCapsule(BootCore) \/ Create(BootCore))
  BY ZenonT(60), <1>6, FirstStep
<1>7. QED BY ZenonT(60), <1>1, <1>3, <1>4, <1>5, <1>6 DEF Next

VcoreInv == PlaceInv /\ BootInv /\ RegistryInv /\ FirstInv

\* Each step keeps the registry of every capsule, and the boot capsule first.
LEMMA VcoreNext == VcoreInv /\ [Next]_vars => VcoreInv'
<1> SUFFICES ASSUME VcoreInv, [Next]_vars PROVE VcoreInv'
  OBVIOUS
<1> USE DEF VcoreInv
<1>1. PlaceInv' /\ RegistryInv'
  BY PlaceNext, RegistryNext
<1>2. TypeInv /\ TypeInv' /\ InitInv /\ OnePlace
  BY <1>1 DEF PlaceInv
<1>3. BootInv'
  BY <1>2, BootNext
<1>4. Known \subseteq Known'
  BY <1>2, PlaceStep
<1>5. FirstInv'
  BY <1>2, <1>4, FirstNext
<1>6. QED BY <1>1, <1>3, <1>5

\* A live capsule has exactly the virtual cores create_and_add_vcore registered.
THEOREM RegistryKeptExact == Spec => []RegistryExact
<1>1. Init => VcoreInv
  BY PlaceInit, NoVcores DEF VcoreInv
<1>2. VcoreInv /\ [Next]_vars => VcoreInv'
  BY VcoreNext
<1>3. VcoreInv => RegistryExact
  BY RegistryForms DEF VcoreInv
<1>4. QED BY <1>1, <1>2, <1>3, PTL DEF Spec

\* No core starts its timer or schedules before hvmain has created every virtual
\* core of the boot capsule.
THEOREM BootCapsuleIsFirst == Spec => []BootCapsuleFirst
<1>1. Init => VcoreInv
  BY PlaceInit, NoVcores DEF VcoreInv
<1>2. VcoreInv /\ [Next]_vars => VcoreInv'
  BY VcoreNext
<1>3. VcoreInv => BootCapsuleFirst
  <2> SUFFICES ASSUME VcoreInv, NEW p \in PhysicalCores,
                      pc[p] \in {"start", "out", "next", "switch", "enter"}
               PROVE  \A i \in VirtualCoreIDs : HasVcore(1, i)
    BY DEF BootCapsuleFirst, HasVcore
  <2>1. initDone
    BY DEF VcoreInv, BootInv, FirstInv, Creating
  <2>2. QED BY <2>1 DEF VcoreInv, FirstInv
<1>4. QED BY <1>1, <1>2, <1>3, PTL DEF Spec
=============================================================================
