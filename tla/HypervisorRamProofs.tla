------------------------ MODULE HypervisorRamProofs -------------------------
(***************************************************************************)
(* Each region of RAM of Hypervisor has one owner; WORKLOAD counts what    *)
(* each core has.                                                          *)
(***************************************************************************)
EXTENDS HypervisorMemoryProofs, FiniteSetTheorems

\* The provers a leaf that names none is tried with, in this order.
USE SMTT(20), ZenonT(60), Z3T(60), SMTT(40)

\* A core or a capsule has the region.
Owned(r) ==
  \/ \E p \in PhysicalCores : ram[p] = r
  \/ \E c \in CapsuleIDs : Live(c) /\ r \in capsules[c].memory

\* A capsule under creation cannot be destroyed before it has a virtual core,
\* and each region has one owner.
RamInv ==
  /\ \A c \in CapsuleIDs : Live(c) => c <= capsuleIdNext
  /\ \A p \in PhysicalCores :
       /\ pc[p] = "destroy" => \E v \in Known : v.capsuleid = cid[p]
       /\ pc[p] \in {"alloc", "map", "load"} => Live(cid[p])
       /\ ram[p] \notin freeRegions
       /\ \A q \in PhysicalCores \ {p} : ram[p] = ram[q] => ram[p] = None
       /\ \A c \in CapsuleIDs : Live(c) => ram[p] \notin capsules[c].memory
  /\ \A c \in CapsuleIDs : Live(c) =>
       /\ capsules[c].memory \cap freeRegions = {}
       /\ \A d \in CapsuleIDs \ {c} : Live(d) => capsules[c].memory \cap capsules[d].memory = {}
  /\ capsuleIdNext > 0 =>
       \A r \in Regions : r \in freeRegions \/ Owned(r)

-----------------------------------------------------------------------------
(* Each region of RAM has one owner. *)

\* A step that moves no RAM, and neither starts a destruction nor a creation.
LEMMA RamKept ==
  ASSUME RamInv, Known \subseteq Known', UNCHANGED <<capsuleIdNext, freeRegions, ram>>,
         \A c \in CapsuleIDs : /\ Live(c)' <=> Live(c)
                               /\ Live(c) => capsules'[c].memory = capsules[c].memory,
         \A q \in PhysicalCores :
           /\ pc'[q] = "destroy" => /\ pc[q] = "destroy" /\ cid'[q] = cid[q]
           /\ pc'[q] \in {"alloc", "map", "load"} =>
                /\ pc[q] \in {"alloc", "map", "load"}
                /\ cid'[q] = cid[q] /\ cid[q] \in CapsuleIDs
  PROVE  RamInv'
<1>1. \A r : Owned(r)' <=> Owned(r)
  BY DEF Owned
<1>2. \A q \in PhysicalCores : pc'[q] \in {"alloc", "map", "load"} => Live(cid[q])'
  BY DEF RamInv, Live
<1>3. \A q \in PhysicalCores : pc'[q] = "destroy" => \E v \in Known' : v.capsuleid = cid'[q]
  BY DEF RamInv
<1>4. QED BY <1>1, <1>2, <1>3 DEF RamInv

\* Each step keeps every region with at most one owner.
LEMMA RamNext ==
  ASSUME PlaceInv, PlaceInv', BootInv, BootInv', RamInv, [Next]_vars
  PROVE  RamInv'
<1> USE DEF PlaceInv, TypeInv, Goto, flowVars, localVars, capsuleVars, globalVars, coreVars
<1>0. Known \subseteq Known'
  BY PlaceStep
<1>1. ASSUME NEW p \in PhysicalCores, SetupHardware(p) PROVE RamInv'
  <2>1. /\ p = BootCore /\ pc[BootCore] = "setup" /\ ~initDone /\ capsuleIdNext = 0
        /\ \A q \in PhysicalCores \ {p} : pc[q] \in {"init", "wait"}
    BY <1>1, CoresAssumption DEF SetupHardware, BootInv
  <2>2. \A q \in PhysicalCores : ram[q] = None
    BY <2>1 DEF ControlInv
  <2>3. \A c \in CapsuleIDs : ~Live(c)
    BY <2>1 DEF RamInv, CapsuleIDs
  <2>4. /\ freeRegions' = Regions /\ UNCHANGED <<capsules, capsuleIdNext, ram, cid>>
        /\ \A q \in PhysicalCores \ {p} : pc'[q] = pc[q]
        /\ pc'[p] = "create"
    BY <1>1 DEF SetupHardware, TypeOK
  <2>5. \A q \in PhysicalCores : pc'[q] \notin {"alloc", "map", "load", "destroy"}
    BY <2>1, <2>4
  <2>6. QED BY <2>1, <2>2, <2>3, <2>4, <2>5, NoneAssumption DEF RamInv, Live
<1>2. ASSUME NEW p \in PhysicalCores, CreateCapsule(p) PROVE RamInv'
  <2>1. PICK n \in CapsuleIDs : n = capsuleIdNext + 1 /\ n = NewID
    BY <1>2, SizesAssumption DEF CreateCapsule, TypeOK, NewID, CapsuleIDs
  <2>2. capsuleIdNext \in Nat /\ ~Live(n)
    BY <2>1, SizesAssumption DEF TypeOK, RamInv
  <2>3. /\ capsules'[n] = NewCapsule /\ NewCapsule # None
        /\ \A c \in CapsuleIDs \ {n} : capsules'[c] = capsules[c]
        /\ UNCHANGED <<freeRegions, ram>> /\ capsuleIdNext' = n
        /\ cid'[p] = n /\ pc'[p] = "alloc"
        /\ \A q \in PhysicalCores \ {p} : pc'[q] = pc[q] /\ cid'[q] = cid[q]
    <3>1. NewCapsule \in Capsule
      BY DEF NewCapsule, Capsule
    <3>2. NewCapsule # None
      BY <3>1, NoneAssumption DEF Capsule
    <3>3. QED BY <1>2, <2>1, <3>2 DEF CreateCapsule, TypeOK
  <2>4. /\ Live(n)' /\ capsules'[n].memory = {}
        /\ \A c \in CapsuleIDs \ {n} : Live(c)' <=> Live(c)
    BY <2>3 DEF Live, NewCapsule
  <2>5. \A r : Owned(r)' <=> Owned(r)
    BY <2>2, <2>3, <2>4 DEF Owned
  <2>6. \A r \in Regions : r \in freeRegions' \/ Owned(r)'
    <3>1. CASE capsuleIdNext = 0
      <4>1. pc[BootCore] = "create"
        BY <1>2, <3>1, CoresAssumption DEF CreateCapsule, BootInv
      <4>2. QED BY <2>3, <4>1 DEF BootInv
    <3>2. CASE capsuleIdNext > 0
      BY <2>3, <2>5, <3>2 DEF RamInv
    <3>3. QED BY <2>2, <3>1, <3>2
  <2>7. \A c \in CapsuleIDs : Live(c)' => c <= capsuleIdNext'
    BY <2>1, <2>2, <2>3, <2>4, SizesAssumption DEF RamInv, CapsuleIDs
  <2>8. \A q \in PhysicalCores :
          /\ pc'[q] = "destroy" => \E v \in Known' : v.capsuleid = cid'[q]
          /\ pc'[q] \in {"alloc", "map", "load"} => Live(cid[q])'
    <3>1. \A q \in PhysicalCores \ {p} :
            pc[q] \in {"alloc", "map", "load"} => cid[q] \in CapsuleIDs \ {n}
      BY <2>1, <2>2 DEF FreshInv, ControlInv, Creating, CapsuleIDs
    <3>2. QED BY <1>0, <2>3, <2>4, <3>1 DEF RamInv, Live
  <2>9. QED BY <2>2, <2>3, <2>4, <2>6, <2>7, <2>8 DEF RamInv
<1>3. ASSUME NEW p \in PhysicalCores, AllocRegion(p) PROVE RamInv'
  <2>1. /\ pc[p] = "alloc" /\ UNCHANGED <<capsules, capsuleIdNext, cid>>
        /\ \A q \in PhysicalCores \ {p} : pc'[q] = pc[q]
        /\ pc'[p] # "destroy" /\ ram[p] = None
    BY <1>3 DEF AllocRegion, TypeOK, Failed, ControlInv
  <2>2. CASE UNCHANGED <<freeRegions, ram>>
    BY <1>0, <2>1, <2>2, RamKept DEF Live, ControlInv, Creating
  <2>3. ASSUME NEW r \in freeRegions, freeRegions' = freeRegions \ {r},
               ram' = [ram EXCEPT ![p] = r]
        PROVE  RamInv'
    <3>1. r \in Regions /\ r # None
      BY <2>3, NoneAssumption DEF TypeOK
    <3>2. ram'[p] = r /\ \A q \in PhysicalCores \ {p} : ram'[q] = ram[q]
      BY <2>3 DEF TypeOK
    <3>3. \A x \in Regions : x \in freeRegions \/ Owned(x) => x \in freeRegions' \/ Owned(x)'
      <4>1. Owned(r)'
        BY <3>2 DEF Owned
      <4>2. \A x \in Regions : Owned(x) => Owned(x)'
        BY <2>1, <3>2, NoneAssumption DEF Owned, Live
      <4>3. QED BY <2>3, <4>1, <4>2
    <3>4. \A q \in PhysicalCores \ {p} : ram[q] # r
      BY DEF RamInv
    <3>5. \A c \in CapsuleIDs : Live(c) => r \notin capsules[c].memory
      BY DEF RamInv
    <3>6. \A q \in PhysicalCores : pc'[q] \in {"alloc", "map", "load"} => Live(cid[q])'
      BY <2>1 DEF RamInv, Live
    <3>7. \A q \in PhysicalCores : pc'[q] = "destroy" => \E v \in Known' : v.capsuleid = cid'[q]
      BY <1>0, <2>1 DEF RamInv
    <3>8. \A q \in PhysicalCores :
            /\ ram'[q] \notin freeRegions'
            /\ \A q2 \in PhysicalCores \ {q} : ram'[q] = ram'[q2] => ram'[q] = None
            /\ \A c \in CapsuleIDs : Live(c)' => ram'[q] \notin capsules'[c].memory
      BY <2>1, <2>3, <3>1, <3>2, <3>4, <3>5 DEF RamInv, Live
    <3>9. QED BY <2>1, <2>3, <3>3, <3>6, <3>7, <3>8 DEF RamInv, Live
  <2>4. QED BY <1>3, <2>2, <2>3 DEF AllocRegion
<1>4. ASSUME NEW p \in PhysicalCores, MapMemory(p) PROVE RamInv'
  <2>1. /\ pc[p] = "map" /\ cid[p] \in CapsuleIDs /\ ram[p] \in Regions /\ Live(cid[p])
    BY <1>4 DEF MapMemory, ControlInv, Creating, TypeOK, RamInv
  <2>2. /\ UNCHANGED <<freeRegions, capsuleIdNext, cid>>
        /\ capsules'[cid[p]] = [capsules[cid[p]] EXCEPT !.memory = @ \cup {ram[p]}]
        /\ \A c \in CapsuleIDs \ {cid[p]} : capsules'[c] = capsules[c]
        /\ ram'[p] = None /\ pc'[p] = "load"
        /\ \A q \in PhysicalCores \ {p} : pc'[q] = pc[q] /\ ram'[q] = ram[q]
    BY <1>4, <2>1 DEF MapMemory, TypeOK
  <2>3. capsules'[cid[p]].memory = capsules[cid[p]].memory \cup {ram[p]} /\ Live(cid[p])'
    <3>1. capsules[cid[p]] \in Capsule
      BY <2>1 DEF TypeOK, Live
    <3>2. capsules'[cid[p]] \in Capsule
          /\ capsules'[cid[p]].memory = capsules[cid[p]].memory \cup {ram[p]}
      BY <2>1, <2>2, <3>1, MemoryUpdate
    <3>3. QED BY <2>2, <3>2, NoneAssumption DEF Live, Capsule
  <2>4. \A c \in CapsuleIDs \ {cid[p]} : Live(c)' <=> Live(c)
    BY <2>2 DEF Live
  <2>5. \A x \in Regions : Owned(x) => Owned(x)'
    BY ZenonT(60), <2>1, <2>2, <2>3, <2>4 DEF Owned
  <2>6. \A q \in PhysicalCores :
          /\ pc'[q] \in {"alloc", "map", "load"} => Live(cid[q])'
          /\ pc'[q] = "destroy" => \E v \in Known' : v.capsuleid = cid'[q]
    <3>1. \A q \in PhysicalCores : pc[q] \in {"alloc", "map", "load"} => cid[q] \in CapsuleIDs
      BY DEF ControlInv, Creating
    <3>2. QED BY <1>0, <2>1, <2>2, <2>3, <2>4, <3>1 DEF RamInv, Live
  <2>7. \A q \in PhysicalCores :
          /\ ram'[q] \notin freeRegions'
          /\ \A q2 \in PhysicalCores \ {q} : ram'[q] = ram'[q2] => ram'[q] = None
    BY ZenonT(60), <2>2, NoneAssumption DEF RamInv, TypeOK
  <2>8. \A q \in PhysicalCores : \A c \in CapsuleIDs : Live(c)' => ram'[q] \notin capsules'[c].memory
    <3>1. \A c \in CapsuleIDs : Live(c)' => None \notin capsules'[c].memory
      BY NoneAssumption DEF TypeOK, Live, Capsule
    <3>2. \A q \in PhysicalCores \ {p} : ram[q] # ram[p]
      BY <2>1, NoneAssumption DEF RamInv
    <3>3. \A q \in PhysicalCores : ram'[q] \notin capsules'[cid[p]].memory
      BY ZenonT(60), <2>1, <2>2, <2>3, <3>1, <3>2 DEF RamInv
    <3>4. \A q \in PhysicalCores : \A c \in CapsuleIDs \ {cid[p]} :
            Live(c)' => ram'[q] \notin capsules'[c].memory
      BY <2>2, <2>4, <3>1 DEF RamInv
    <3>5. QED BY <3>3, <3>4
  <2>9. \A c \in CapsuleIDs : Live(c)' =>
          /\ capsules'[c].memory \cap freeRegions' = {}
          /\ \A d \in CapsuleIDs \ {c} : Live(d)' => capsules'[c].memory \cap capsules'[d].memory = {}
    <3>1. /\ ram[p] \notin freeRegions
          /\ \A c \in CapsuleIDs : Live(c) => ram[p] \notin capsules[c].memory
      BY DEF RamInv
    <3>2. \A c \in CapsuleIDs : Live(c)' => capsules'[c].memory \cap freeRegions' = {}
      <4>1. capsules[cid[p]].memory \cap freeRegions = {}
        BY <2>1 DEF RamInv
      <4>2. capsules'[cid[p]].memory \cap freeRegions' = {}
        BY <2>2, <2>3, <3>1, <4>1
      <4>3. \A c \in CapsuleIDs \ {cid[p]} : Live(c)' => capsules'[c].memory \cap freeRegions' = {}
        BY <2>2, <2>4 DEF RamInv
      <4>4. QED BY <4>2, <4>3
    <3>3. \A d \in CapsuleIDs \ {cid[p]} : Live(d)' =>
            capsules'[cid[p]].memory \cap capsules'[d].memory = {}
      <4>1. \A d \in CapsuleIDs \ {cid[p]} : Live(d) =>
              capsules[cid[p]].memory \cap capsules[d].memory = {}
        BY <2>1 DEF RamInv
      <4>2. QED BY <2>2, <2>3, <2>4, <3>1, <4>1
    <3>4. \A c, d \in CapsuleIDs \ {cid[p]} : Live(c)' /\ Live(d)' /\ c # d =>
            capsules'[c].memory \cap capsules'[d].memory = {}
      BY <2>2, <2>4 DEF RamInv
    <3>5. QED BY <3>2, <3>3, <3>4
  <2>10. \A c \in CapsuleIDs : Live(c)' => c <= capsuleIdNext'
    BY <2>1, <2>2, <2>4 DEF RamInv
  <2>11. QED BY <2>2, <2>5, <2>6, <2>7, <2>8, <2>9, <2>10 DEF RamInv
<1>5. ASSUME NEW p \in PhysicalCores, AddVirtualCore(p) PROVE RamInv'
  <2>1. cid[p] \in CapsuleIDs /\ vid[p] \in VirtualCoreIDs
    BY <1>5 DEF AddVirtualCore, Creating, ControlInv, TypeOK
  <2>2. \A c \in CapsuleIDs : /\ Live(c)' <=> Live(c)
                              /\ Live(c) => capsules'[c].memory = capsules[c].memory
    BY <1>5, <2>1, AddKeepsMemory
  <2>3. /\ UNCHANGED <<capsuleIdNext, freeRegions, ram, cid>>
        /\ \A q \in PhysicalCores \ {p} : pc'[q] = pc[q]
        /\ pc'[p] \notin {"alloc", "map", "load", "destroy"}
    BY <1>5 DEF AddVirtualCore, TypeOK, Failed, Created
  <2>4. QED BY <1>0, <2>2, <2>3, RamKept DEF ControlInv, Creating
<1>6. ASSUME NEW p \in PhysicalCores, FatalException(p) PROVE RamInv'
  <2>1. /\ UNCHANGED <<capsules, capsuleIdNext, freeRegions, ram>>
        /\ pc'[p] = "destroy" /\ cid'[p] = vcores[p].capsuleid /\ vcores[p] # None
        /\ \A q \in PhysicalCores \ {p} : pc'[q] = pc[q] /\ cid'[q] = cid[q]
    BY <1>6 DEF FatalException, TypeOK
  <2>2. \E v \in Known' : v.capsuleid = cid'[p]
    BY <1>0, <2>1, CoresKnow
  <2>3. \A r : Owned(r)' <=> Owned(r)
    BY <2>1 DEF Owned, Live
  <2>4. \A q \in PhysicalCores \ {p} : pc'[q] = "destroy" => \E v \in Known' : v.capsuleid = cid'[q]
    BY <1>0, <2>1 DEF RamInv
  <2>5. QED BY <2>1, <2>2, <2>3, <2>4 DEF RamInv, Live
<1>7. ASSUME NEW p \in PhysicalCores, DestroyCapsule(p) PROVE RamInv'
  <2>1. /\ UNCHANGED <<capsuleIdNext, ram, cid>> /\ pc[p] = "destroy" /\ pc'[p] = "next"
        /\ \A q \in PhysicalCores \ {p} : pc'[q] = pc[q]
    BY <1>7 DEF DestroyCapsule, TypeOK
  <2>2. CASE ~Live(cid[p])
    <3>1. UNCHANGED <<capsules, freeRegions>>
      BY <1>7, <2>2 DEF DestroyCapsule
    <3>2. QED BY ZenonT(60), <1>0, <2>1, <3>1, RamKept DEF Live, ControlInv, Creating
  <2>3. CASE Live(cid[p])
    <3>1. /\ freeRegions' = freeRegions \cup capsules[cid[p]].memory
          /\ ~Live(cid[p])'
          /\ \A c \in CapsuleIDs \ {cid[p]} : capsules'[c] = capsules[c] /\ (Live(c)' <=> Live(c))
          /\ cid[p] \in CapsuleIDs
      BY <1>7, <2>3 DEF DestroyCapsule, DropCapsule, TypeOK, ControlInv, Live
    <3>2. \A x \in Regions : x \in freeRegions \/ Owned(x) => x \in freeRegions' \/ Owned(x)'
      BY <2>1, <3>1 DEF Owned
    <3>3. \A q \in PhysicalCores : pc[q] \in {"alloc", "map", "load"} =>
            cid[q] \in CapsuleIDs \ {cid[p]}
      <4>1. PICK v \in Known : v.capsuleid = cid[p]
        BY <2>1 DEF RamInv
      <4>2. \A q \in PhysicalCores : pc[q] \in {"alloc", "map", "load"} => cid[q] # cid[p]
        BY <4>1 DEF FreshInv, Creating
      <4>3. QED BY <4>2 DEF ControlInv, Creating
    <3>4. \A q \in PhysicalCores : pc'[q] \in {"alloc", "map", "load"} => Live(cid[q])'
      BY <2>1, <3>1, <3>3 DEF RamInv, Live
    <3>5. \A q \in PhysicalCores : pc'[q] = "destroy" => \E v \in Known' : v.capsuleid = cid'[q]
      BY <1>0, <2>1 DEF RamInv
    <3>6. \A q \in PhysicalCores : ram'[q] \notin freeRegions'
      BY <2>1, <2>3, <3>1 DEF RamInv
    <3>7. \A c \in CapsuleIDs : Live(c)' => capsules'[c].memory \cap freeRegions' = {}
      <4>1. \A c \in CapsuleIDs \ {cid[p]} : Live(c) =>
              /\ capsules[c].memory \cap freeRegions = {}
              /\ capsules[c].memory \cap capsules[cid[p]].memory = {}
        BY <2>3, <3>1 DEF RamInv
      <4>2. \A c \in CapsuleIDs : Live(c)' => c # cid[p]
        BY <2>1, <3>1
      <4>3. QED BY <3>1, <4>1, <4>2
    <3>8. QED BY <2>1, <3>1, <3>2, <3>4, <3>5, <3>6, <3>7 DEF RamInv
  <2>4. QED BY <2>2, <2>3
<1>8. ASSUME NEW p \in PhysicalCores,
             \/ PhysicalCoreInit(p) \/ SetupFails(p) \/ SetInitDone(p) \/ WaitForInit(p)
             \/ StartTimer(p) \/ LoadSupervisor(p) \/ QueueVirtualCore(p) \/ TimerInterrupt(p)
             \/ UnhandledException(p)
             \/ Schedule(p)
      PROVE  RamInv'
  <2>1. /\ UNCHANGED <<capsules, capsuleIdNext, freeRegions, ram, cid>>
        /\ \A q \in PhysicalCores \ {p} : pc'[q] = pc[q]
        /\ pc'[p] \notin {"alloc", "map", "load", "destroy"}
    BY ZenonT(60), <1>8
    DEF PhysicalCoreInit, SetupFails, SetInitDone, WaitForInit, StartTimer, LoadSupervisor,
        QueueVirtualCore, TimerInterrupt,
        UnhandledException, Schedule, AdoptOrphan, TakeWaiting, NothingWaiting,
        ManagementCore, SwitchOut, SwitchIn, Housekeeping, Failed, TypeOK
  <2>2. QED BY <1>0, <2>1, RamKept DEF Live, ControlInv, Creating
<1>9. CASE Halted \/ UNCHANGED vars
  <2>1. UNCHANGED <<capsules, capsuleIdNext, freeRegions, ram, cid, pc>>
    BY <1>9 DEF Halted, vars
  <2>2. QED BY <1>0, <2>1, RamKept DEF Live, ControlInv, Creating
<1>10. QED
  BY <1>1, <1>2, <1>3, <1>4, <1>5, <1>6, <1>7, <1>8, <1>9 DEF Next, Boot, Create

\* Every region of the RAM has exactly one owner, however creations, crashes
\* and destructions interleave.
THEOREM RamHasOneOwner == Spec => []RamAccounted
<1> DEFINE Inv == PlaceInv /\ BootInv /\ RamInv
<1>1. Init => Inv
  <2>1. Init => BootInv
    BY CoresAssumption DEF Init, BootInv
  <2>2. Init => RamInv
    BY NoneAssumption DEF Init, RamInv, Live
  <2>3. QED BY <2>1, <2>2, PlaceInit
<1>2. Inv /\ [Next]_vars => Inv'
  <2> SUFFICES ASSUME Inv, [Next]_vars PROVE Inv'
    OBVIOUS
  <2>1. PlaceInv'
    BY PlaceNext
  <2>2. BootInv'
    BY <2>1, BootNext DEF PlaceInv
  <2>3. RamInv'
    BY <2>1, <2>2, RamNext
  <2>4. QED BY <2>1, <2>2, <2>3
<1>3. Inv => RamAccounted
  <2> SUFFICES ASSUME RamInv, capsuleIdNext > 0, NEW r \in Regions
               PROVE  \/ r \in freeRegions /\ OwnersOf(r) = {}
                      \/ r \notin freeRegions /\ \E o \in OwnersOf(r) : OwnersOf(r) = {o}
    BY DEF RamAccounted
  <2>1. r # None
    BY NoneAssumption
  <2>2. CASE r \in freeRegions
    BY <2>2 DEF RamInv, OwnersOf
  <2>3. ASSUME NEW p \in PhysicalCores, ram[p] = r
        PROVE  r \notin freeRegions /\ OwnersOf(r) = {<<"core", p>>}
    BY <2>1, <2>3 DEF RamInv, OwnersOf
  <2>4. ASSUME NEW c \in CapsuleIDs, Live(c), r \in capsules[c].memory
        PROVE  r \notin freeRegions /\ OwnersOf(r) = {<<"capsule", c>>}
    BY <2>1, <2>4 DEF RamInv, OwnersOf
  <2>5. CASE Owned(r)
    BY ZenonT(60), <2>3, <2>4, <2>5 DEF Owned
  <2>6. QED BY <2>2, <2>5 DEF RamInv
<1>4. QED BY <1>1, <1>2, <1>3, PTL DEF Spec

-----------------------------------------------------------------------------
(* What WORKLOAD counts. *)

\* WorkloadExact is inductive once what a core holds is known to be finite.
CountInv == WorkloadExact /\ \A p \in PhysicalCores : IsFiniteSet(Held(p))

\* Initially no core holds anything.
LEMMA CountInit == Init => CountInv
<1>1. IsFiniteSet({}) /\ Cardinality({}) = 0
  BY FS_EmptySet
<1>2. QED BY <1>1, NothingHeld DEF CountInv, WorkloadExact

\* WORKLOAD follows what the cores hold.
LEMMA CountNext ==
  ASSUME PlaceInv, CountInv, [Next]_vars
  PROVE  CountInv'
<1>0. TypeInv /\ TypeInv' /\ InitInv /\ OnePlace
  BY TypeNext DEF PlaceInv
<1>1. \A p \in PhysicalCores : workload[p] = Cardinality(Held(p)) /\ IsFiniteSet(Held(p))
  BY DEF CountInv, WorkloadExact
<1>2. CASE /\ workload' = workload
           /\ \A q \in PhysicalCores : Held(q)' = Held(q)
  <2>1. \A p \in PhysicalCores : workload'[p] = Cardinality(Held(p)') /\ IsFiniteSet(Held(p)')
    BY <1>1, <1>2
  <2>2. QED BY <2>1 DEF CountInv, WorkloadExact
<1>3. ASSUME NEW p \in PhysicalCores, NEW v \in VirtualCores,
             v \notin Held(p), Held(p)' = Held(p) \cup {v}, workload' = Counted(p),
             \A q \in PhysicalCores \ {p} : Held(q)' = Held(q)
      PROVE  CountInv'
  <2>1. IsFiniteSet(Held(p) \cup {v}) /\ Cardinality(Held(p) \cup {v}) = Cardinality(Held(p)) + 1
    BY <1>1, <1>3, FS_AddElement
  <2>2. workload'[p] = workload[p] + 1 /\ \A q \in PhysicalCores \ {p} : workload'[q] = workload[q]
    BY <1>0, <1>3 DEF Counted, TypeInv, TypeOK
  <2>3. \A q \in PhysicalCores : workload'[q] = Cardinality(Held(q)') /\ IsFiniteSet(Held(q)')
    BY <1>1, <1>3, <2>1, <2>2
  <2>4. QED BY <2>3 DEF CountInv, WorkloadExact
<1>4. QED BY <1>0, <1>2, <1>3, HeldStep

\* WORKLOAD, which housekeeping compares with what a core can take, is the number
\* of virtual cores the core has, whatever the cores do.
THEOREM WorkloadCounted == Spec => []WorkloadExact
<1>1. Init => PlaceInv /\ CountInv
  BY PlaceInit, CountInit
<1>2. PlaceInv /\ CountInv /\ [Next]_vars => PlaceInv' /\ CountInv'
  BY PlaceNext, CountNext
<1>3. CountInv => WorkloadExact
  BY DEF CountInv
<1>4. QED BY <1>1, <1>2, <1>3, PTL DEF Spec
=============================================================================
