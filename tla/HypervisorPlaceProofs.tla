----------------------- MODULE HypervisorPlaceProofs ------------------------
(***************************************************************************)
(* Hypervisor, for any number of cores, capsules, virtual cores and        *)
(* regions: type correctness, and how its cores come up; a virtual core is *)
(* in one place, and is never lost; PCORES names the core that has it.     *)
(***************************************************************************)
EXTENDS Hypervisor, SequenceTheorems, TLAPS

\* The provers a leaf that names none is tried with, in this order.
USE SMTT(20), ZenonT(60), Z3T(60), SMTT(40)

-----------------------------------------------------------------------------
(* What the operations of ScheduleQueues return and preserve, for queues of
   any length. *)

\* push_back of something new keeps a queue free of duplicates.
LEMMA AppendNew ==
  ASSUME NEW V, NEW s \in Seq(V), NEW v \in V
  PROVE  /\ Append(s, v) \in Seq(V)
         /\ Range(Append(s, v)) = Range(s) \cup {v}
         /\ IsInjective(s) /\ v \notin Range(s) => IsInjective(Append(s, v))
<1>1. /\ Append(s, v) \in Seq(V)
      /\ Len(Append(s, v)) = Len(s) + 1
      /\ \A i \in 1 .. Len(s) : Append(s, v)[i] = s[i]
      /\ Append(s, v)[Len(s) + 1] = v
  BY AppendProperties
<1>2. /\ DOMAIN s = 1 .. Len(s)
      /\ DOMAIN Append(s, v) = 1 .. Len(s) + 1
      /\ Len(s) \in Nat
  BY <1>1, LenProperties
<1>3. Range(Append(s, v)) = Range(s) \cup {v}
  <2>1. ASSUME NEW x \in Range(Append(s, v)) PROVE x \in Range(s) \cup {v}
    <3>1. PICK i \in 1 .. Len(s) + 1 : x = Append(s, v)[i]
      BY <1>2 DEF Range
    <3>2. i \in 1 .. Len(s) \/ i = Len(s) + 1
      BY <1>2, <3>1
    <3>3. QED BY <1>1, <1>2, <3>1, <3>2 DEF Range
  <2>2. ASSUME NEW x \in Range(s) PROVE x \in Range(Append(s, v))
    <3>1. PICK i \in 1 .. Len(s) : x = s[i]
      BY <1>2 DEF Range
    <3>2. i \in 1 .. Len(s) + 1 /\ x = Append(s, v)[i]
      BY <1>1, <1>2, <3>1
    <3>3. QED BY <1>2, <3>2 DEF Range
  <2>3. v \in Range(Append(s, v))
    <3>1. Len(s) + 1 \in 1 .. Len(s) + 1
      BY <1>2
    <3>2. QED BY <1>1, <1>2, <3>1 DEF Range
  <2>4. QED BY <2>1, <2>2, <2>3
<1>4. ASSUME IsInjective(s), v \notin Range(s) PROVE IsInjective(Append(s, v))
  <2>1. SUFFICES ASSUME NEW i \in 1 .. Len(s) + 1, NEW j \in 1 .. Len(s) + 1,
                        Append(s, v)[i] = Append(s, v)[j]
                 PROVE  i = j
    BY <1>2 DEF IsInjective
  <2>2. \A k \in 1 .. Len(s) : s[k] \in Range(s) /\ s[k] # v
    BY <1>2, <1>4 DEF Range
  <2>3. CASE i \in 1 .. Len(s) /\ j \in 1 .. Len(s)
    BY <1>1, <1>2, <1>4, <2>1, <2>3 DEF IsInjective
  <2>4. CASE i = Len(s) + 1 \/ j = Len(s) + 1
    BY <1>1, <1>2, <2>1, <2>2, <2>4
  <2>5. QED BY <1>2, <2>3, <2>4
<1>5. QED BY <1>1, <1>3, <1>4

\* pop_front of a queue free of duplicates takes out the head, and only it.
LEMMA TailRest ==
  ASSUME NEW V, NEW s \in Seq(V), s # <<>>
  PROVE  /\ Head(s) \in V /\ Head(s) \in Range(s)
         /\ Tail(s) \in Seq(V)
         /\ IsInjective(s) => /\ IsInjective(Tail(s))
                              /\ Range(Tail(s)) = Range(s) \ {Head(s)}
<1>1. /\ Head(s) \in V
      /\ Tail(s) \in Seq(V)
      /\ Len(Tail(s)) = Len(s) - 1
      /\ \A i \in 1 .. Len(Tail(s)) : Tail(s)[i] = s[i + 1]
      /\ Head(s) = s[1]
  BY HeadTailProperties
<1>2. /\ DOMAIN s = 1 .. Len(s)
      /\ Len(s) \in Nat
      /\ Len(s) > 0
      /\ DOMAIN Tail(s) = 1 .. Len(s) - 1
  BY <1>1, LenProperties, EmptySeq
<1>3. Head(s) \in Range(s)
  BY <1>1, <1>2 DEF Range
<1>4. ASSUME IsInjective(s) PROVE IsInjective(Tail(s))
  <2>1. SUFFICES ASSUME NEW i \in 1 .. Len(s) - 1, NEW j \in 1 .. Len(s) - 1,
                        Tail(s)[i] = Tail(s)[j]
                 PROVE  i = j
    BY <1>2 DEF IsInjective
  <2>2. s[i + 1] = s[j + 1] /\ i + 1 \in 1 .. Len(s) /\ j + 1 \in 1 .. Len(s)
    BY <1>1, <1>2, <2>1
  <2>3. i + 1 = j + 1
    BY <1>2, <1>4, <2>2 DEF IsInjective
  <2>4. QED BY <1>2, <2>3
<1>5. ASSUME IsInjective(s) PROVE Range(Tail(s)) = Range(s) \ {Head(s)}
  <2>1. ASSUME NEW x \in Range(Tail(s)) PROVE x \in Range(s) \ {Head(s)}
    <3>1. PICK i \in 1 .. Len(s) - 1 : x = Tail(s)[i]
      BY <1>2 DEF Range
    <3>2. x = s[i + 1] /\ i + 1 \in 1 .. Len(s) /\ i + 1 # 1 /\ 1 \in 1 .. Len(s)
      BY <1>1, <1>2, <3>1
    <3>3. x # s[1]
      BY <1>2, <1>5, <3>2 DEF IsInjective
    <3>4. x \in Range(s)
      BY <1>2, <3>2 DEF Range
    <3>5. QED BY <1>1, <3>3, <3>4
  <2>2. ASSUME NEW x \in Range(s) \ {Head(s)} PROVE x \in Range(Tail(s))
    <3>1. PICK i \in 1 .. Len(s) : x = s[i]
      BY <1>2, <2>2 DEF Range
    <3>2. i # 1
      BY <1>1, <2>2, <3>1
    <3>3. i - 1 \in 1 .. Len(s) - 1 /\ Tail(s)[i - 1] = s[(i - 1) + 1]
      BY <1>1, <1>2, <3>1, <3>2
    <3>4. x = Tail(s)[i - 1]
      BY <1>2, <3>1, <3>3
    <3>5. QED BY ZenonT(60), <1>2, <3>3, <3>4 DEF Range
  <2>3. QED BY <2>1, <2>2
<1>6. QED BY <1>1, <1>3, <1>4, <1>5

\* Nothing is queued exactly when total_queued is 0.
LEMMA TotalQueuedProperty ==
  ASSUME NEW V, NEW q \in QueuesType(V)
  PROVE  /\ TotalQueued(q) \in Nat
         /\ TotalQueued(q) > 0 <=> q.high # <<>> \/ q.low # <<>>
<1>1. q.high \in Seq(V) /\ q.low \in Seq(V)
  BY DEF QueuesType
<1>2. /\ Len(q.high) \in Nat /\ Len(q.low) \in Nat
      /\ q.high # <<>> <=> Len(q.high) > 0
      /\ q.low # <<>> <=> Len(q.low) > 0
  BY <1>1, EmptySeq, LenProperties
<1>3. TotalQueued(q) = Len(q.high) + Len(q.low)
  BY DEF TotalQueued
<1>4. \A a, c \in Nat : a + c \in Nat /\ (a + c > 0 <=> a > 0 \/ c > 0)
  OBVIOUS
<1>5. TotalQueued(q) \in Nat /\ (TotalQueued(q) > 0 <=> Len(q.high) > 0 \/ Len(q.low) > 0)
  BY ZenonT(60), <1>2, <1>3, <1>4
<1>6. QED BY <1>2, <1>5

\* What is queued has the type of the queues' elements.
LEMMA QueuedType ==
  ASSUME NEW V, NEW q \in QueuesType(V)
  PROVE  Queued(q) \subseteq V
<1>1. \A s \in Seq(V) : Range(s) \subseteq V
  BY LenProperties, ElementOfSeq DEF Range
<1>2. q.high \in Seq(V) /\ q.low \in Seq(V)
  BY DEF QueuesType
<1>3. QED BY <1>1, <1>2 DEF Queued

\* queue() adds its argument and keeps the queues well formed.
LEMMA EnqueueProperties ==
  ASSUME NEW V, NEW q \in QueuesType(V), NEW v \in V
  PROVE  /\ Enqueue(q, v) \in QueuesType(V)
         /\ Queued(Enqueue(q, v)) = Queued(q) \cup {v}
         /\ WellQueued(q) /\ v \notin Queued(q) => WellQueued(Enqueue(q, v))
<1>1. q.high \in Seq(V) /\ q.low \in Seq(V) /\ q.high_timeslices \in Nat
      /\ q = [high |-> q.high, low |-> q.low, high_timeslices |-> q.high_timeslices]
  BY DEF QueuesType
<1>2. CASE v.priority = "High"
  <2>1. Enqueue(q, v) = [high |-> Append(q.high, v), low |-> q.low,
                         high_timeslices |-> q.high_timeslices]
    BY ZenonT(60), <1>1, <1>2 DEF Enqueue
  <2>2. QED BY <1>1, <1>2, <2>1, AppendNew DEF QueuesType, Queued, WellQueued
<1>3. CASE v.priority # "High"
  <2>1. Enqueue(q, v) = [high |-> q.high, low |-> Append(q.low, v),
                         high_timeslices |-> q.high_timeslices]
    BY ZenonT(60), <1>1, <1>3 DEF Enqueue
  <2>2. QED BY <1>1, <1>3, <2>1, AppendNew DEF QueuesType, Queued, WellQueued
<1>4. QED BY <1>2, <1>3

\* dequeue() of queues that are not empty takes out one that was queued, keeps
\* all the others, and keeps the queues well formed.
LEMMA DequeueProperties ==
  ASSUME NEW V, NEW q \in QueuesType(V), TotalQueued(q) > 0
  PROVE  /\ Dequeued(q) \in V
         /\ Dequeued(q) \in Queued(q)
         /\ AfterDequeue(q) \in QueuesType(V)
         /\ WellQueued(q) => /\ WellQueued(AfterDequeue(q))
                             /\ Queued(AfterDequeue(q)) = Queued(q) \ {Dequeued(q)}
<1>1. q.high \in Seq(V) /\ q.low \in Seq(V) /\ q.high_timeslices \in Nat
      /\ q = [high |-> q.high, low |-> q.low, high_timeslices |-> q.high_timeslices]
  BY DEF QueuesType
<1>2. q.high # <<>> \/ q.low # <<>>
  BY TotalQueuedProperty
<1>3. CASE PopsLow(q)
  <2>1. q.low # <<>>
    BY <1>2, <1>3 DEF PopsLow
  <2>2. AfterDequeue(q) = [high |-> q.high, low |-> Tail(q.low),
                           high_timeslices |-> q.high_timeslices]
    BY ZenonT(60), <1>1, <1>3 DEF AfterDequeue
  <2>3. Dequeued(q) = Head(q.low)
    BY <1>3 DEF Dequeued
  <2>4. WellQueued(q) => Head(q.low) \notin Range(q.high)
    BY <1>1, <2>1, TailRest DEF WellQueued
  <2>5. QED BY <1>1, <2>1, <2>2, <2>3, <2>4, TailRest DEF QueuesType, Queued, WellQueued
<1>4. CASE ~PopsLow(q)
  <2>1. q.high # <<>>
    BY <1>4 DEF PopsLow
  <2>2. AfterDequeue(q) = [high |-> Tail(q.high), low |-> q.low,
                           high_timeslices |-> q.high_timeslices]
    BY ZenonT(60), <1>1, <1>4 DEF AfterDequeue
  <2>3. Dequeued(q) = Head(q.high)
    BY <1>4 DEF Dequeued
  <2>4. WellQueued(q) => Head(q.high) \notin Range(q.low)
    BY <1>1, <2>1, TailRest DEF WellQueued
  <2>5. QED BY <1>1, <2>1, <2>2, <2>3, <2>4, TailRest DEF QueuesType, Queued, WellQueued
<1>5. QED BY <1>3, <1>4

\* new() is empty and well formed.
LEMMA EmptyQueuesProperties ==
  ASSUME NEW V
  PROVE  EmptyQueues \in QueuesType(V) /\ Queued(EmptyQueues) = {} /\ WellQueued(EmptyQueues)
<1>1. <<>> \in Seq(V) /\ Range(<<>>) = {} /\ IsInjective(<<>>)
  BY EmptySeq DEF Range, IsInjective
<1>2. QED BY <1>1 DEF EmptyQueues, QueuesType, Queued, WellQueued

-----------------------------------------------------------------------------
(* Control. *)

\* In create_boot_capsule after create().
Creating == {"alloc", "map", "load", "queue", "add"}

\* In the match of run_next that holds the lock of GLOBAL_QUEUES.
Switching == {"switch", "enter"}

\* What the locals of a core hold at each point of its code.
ControlInv ==
  \A p \in PhysicalCores :
    /\ pc[p] \in Creating \cup {"destroy"} => cid[p] \in CapsuleIDs
    /\ pc[p] = "map" <=> ram[p] # None
    /\ pc[p] \in Switching <=> next[p] # None
    /\ pc[p] \in Switching <=> globalLock = p
    /\ pc[p] = "enter" => vcores[p] = None

TypeInv == TypeOK /\ ControlInv

-----------------------------------------------------------------------------
(* Updates of a capsule. *)

\* set_memory_mapping touches the memory of a capsule only ...
LEMMA MemoryUpdate ==
  ASSUME NEW c \in Capsule, NEW r \in Regions
  PROVE  LET d == [c EXCEPT !.memory = @ \cup {r}]
         IN  d \in Capsule /\ d.memory = c.memory \cup {r} /\ d.vcores = c.vcores
BY DEF Capsule

\* ... and add_vcore its virtual cores only.
LEMMA VcoresUpdate ==
  ASSUME NEW c \in Capsule, NEW i \in VirtualCoreIDs
  PROVE  LET d == [c EXCEPT !.vcores = @ \cup {i}]
         IN  d \in Capsule /\ d.vcores = c.vcores \cup {i} /\ d.memory = c.memory
BY DEF Capsule

\* create_boot_capsule returns to code outside of it.
LEMMA ReturnLabels == Failed \in Labels \ Creating /\ Created \in Labels \ Creating
BY DEF Failed, Created, Labels, Creating

-----------------------------------------------------------------------------
(* Type correctness. *)

\* The type invariant, and what the locals hold, is true at the start ...
LEMMA TypeInit == Init => TypeInv
<1> SUFFICES ASSUME Init PROVE TypeInv
  OBVIOUS
<1>1. EmptyQueues \in QueuesType(VirtualCores)
  BY EmptyQueuesProperties
<1>2. <<>> \in Seq(PhysicalCores)
  BY EmptySeq
<1>3. 0 \in 0 .. MaxCapsules /\ 0 \in VirtualCoreIDs
  BY SizesAssumption DEF VirtualCoreIDs
<1>4. TypeOK
  BY ZenonT(60), <1>1, <1>2, <1>3 DEF Init, TypeOK, Labels
<1>5. ControlInv
  BY CoresAssumption, NoneAssumption DEF Init, ControlInv, Creating, Switching
<1>6. QED BY <1>4, <1>5 DEF TypeInv

\* ... and every step of hvmain, the handlers and the scheduler keeps it.
LEMMA TypeNext == TypeInv /\ [Next]_vars => TypeInv'
<1> SUFFICES ASSUME TypeInv, [Next]_vars PROVE TypeInv'
  OBVIOUS
<1> USE DEF TypeInv, Goto, flowVars, localVars, capsuleVars, globalVars, coreVars
<1>0. CASE UNCHANGED vars
  BY <1>0 DEF vars, TypeOK, ControlInv
<1>1. ASSUME NEW p \in PhysicalCores, PhysicalCoreInit(p) PROVE TypeInv'
  <2>1. TypeOK'
    BY <1>1, EmptySeq, EmptyQueuesProperties DEF PhysicalCoreInit, TypeOK, Labels
  <2>2. ControlInv'
    BY <1>1, CoresAssumption, NoneAssumption DEF PhysicalCoreInit, TypeOK, ControlInv,
         Creating, Switching
  <2>3. QED BY <2>1, <2>2
<1>2. ASSUME NEW p \in PhysicalCores, SetupHardware(p) PROVE TypeInv'
  BY <1>2, CoresAssumption, SizesAssumption, NoneAssumption, PriorityAssumption
  DEF SetupHardware, TypeOK, ControlInv, Labels, Creating, Switching
<1>3. ASSUME NEW p \in PhysicalCores, SetupFails(p) PROVE TypeInv'
  BY <1>3, CoresAssumption, SizesAssumption, NoneAssumption, PriorityAssumption
  DEF SetupFails, TypeOK, ControlInv, Labels, Creating, Switching
<1>4. ASSUME NEW p \in PhysicalCores, SetInitDone(p) PROVE TypeInv'
  BY <1>4, CoresAssumption, SizesAssumption, NoneAssumption, PriorityAssumption
  DEF SetInitDone, TypeOK, ControlInv, Labels, Creating, Switching
<1>5. ASSUME NEW p \in PhysicalCores, WaitForInit(p) PROVE TypeInv'
  BY <1>5, CoresAssumption, SizesAssumption, NoneAssumption, PriorityAssumption
  DEF WaitForInit, TypeOK, ControlInv, Labels, Creating, Switching
<1>6. ASSUME NEW p \in PhysicalCores, StartTimer(p) PROVE TypeInv'
  BY <1>6, CoresAssumption, SizesAssumption, NoneAssumption, PriorityAssumption
  DEF StartTimer, TypeOK, ControlInv, Labels, Creating, Switching
<1>7. ASSUME NEW p \in PhysicalCores, CreateCapsule(p) PROVE TypeInv'
  <2>0. /\ NewID \in CapsuleIDs /\ NewID \in 0 .. MaxCapsules /\ NewID = capsuleIdNext + 1
        /\ NewCapsule \in Capsule
    BY <1>7, SizesAssumption DEF CreateCapsule, TypeOK, NewID, NewCapsule, CapsuleIDs, Capsule
  <2>1. TypeOK'
    BY <1>7, <2>0 DEF CreateCapsule, TypeOK, Labels
  <2>2. ControlInv'
    BY <1>7, CoresAssumption, NoneAssumption, <2>0 DEF CreateCapsule, TypeOK, ControlInv,
         Creating, Switching
  <2>3. QED BY <2>1, <2>2
<1>8. ASSUME NEW p \in PhysicalCores, AllocRegion(p) PROVE TypeInv'
  <2>1. TypeOK'
    <3>1. pc' \in [PhysicalCores -> Labels]
      <4>1. PICK label \in {"map", Failed} : pc' = [pc EXCEPT ![p] = label]
        BY <1>8, Zenon DEF AllocRegion, Goto
      <4>2. label \in Labels /\ pc \in [PhysicalCores -> Labels]
        BY ReturnLabels DEF Labels, TypeOK
      <4>3. QED BY <4>1, <4>2
    <3>2. ram' \in [PhysicalCores -> Regions \cup {None}] /\ freeRegions' \subseteq Regions
      BY ZenonT(60), <1>8 DEF AllocRegion, TypeOK
    <3>3. QED BY <1>8, <3>1, <3>2 DEF AllocRegion, TypeOK
  <2>2. ControlInv'
    BY <1>8, CoresAssumption, NoneAssumption DEF AllocRegion, TypeOK, ControlInv,
         Creating,
         Switching, Failed
  <2>3. QED BY <2>1, <2>2
<1>9. ASSUME NEW p \in PhysicalCores, MapMemory(p) PROVE TypeInv'
  <2>0. /\ cid[p] \in CapsuleIDs /\ ram[p] \in Regions
        /\ Live(cid[p]) => [capsules[cid[p]] EXCEPT !.memory = @ \cup {ram[p]}] \in Capsule
    <3>1. cid[p] \in CapsuleIDs /\ ram[p] \in Regions
      BY <1>9 DEF MapMemory, TypeOK, ControlInv, Creating
    <3>2. Live(cid[p]) => capsules[cid[p]] \in Capsule
      BY <3>1 DEF TypeOK, Live
    <3>3. QED BY <3>1, <3>2, MemoryUpdate
  <2>1. TypeOK'
    BY ZenonT(60), <1>9, <2>0 DEF MapMemory, TypeOK, Labels, Failed
  <2>2. ControlInv'
    BY <1>9, CoresAssumption, NoneAssumption DEF MapMemory, TypeOK, ControlInv, Creating,
         Switching, Failed
  <2>3. QED BY <2>1, <2>2
<1>10. ASSUME NEW p \in PhysicalCores, LoadSupervisor(p) PROVE TypeInv'
  <2>1. TypeOK'
    <3>1. pc' \in [PhysicalCores -> Labels]
      BY ZenonT(60), <1>10, ReturnLabels DEF LoadSupervisor, TypeOK, Labels
    <3>2. 0 \in VirtualCoreIDs
      BY SizesAssumption DEF VirtualCoreIDs
    <3>3. QED BY <1>10, <3>1, <3>2 DEF LoadSupervisor, TypeOK
  <2>2. ControlInv'
    BY <1>10, CoresAssumption, NoneAssumption DEF LoadSupervisor, TypeOK, ControlInv, Creating,
         Switching, Failed
  <2>3. QED BY <2>1, <2>2
<1>11. ASSUME NEW p \in PhysicalCores, QueueVirtualCore(p) PROVE TypeInv'
  <2>0. [capsuleid |-> cid[p], vcoreid |-> vid[p], priority |-> PriorityOf[cid[p]]] \in VirtualCores
    BY <1>11, PriorityAssumption DEF QueueVirtualCore, TypeOK, ControlInv, Creating, VirtualCores
  <2>1. TypeOK'
    BY <1>11, <2>0, EnqueueProperties DEF QueueVirtualCore, TypeOK, Labels
  <2>2. ControlInv'
    BY <1>11, CoresAssumption, NoneAssumption DEF QueueVirtualCore, TypeOK, ControlInv,
         Creating, Switching
  <2>3. QED BY <2>1, <2>2
<1>12. ASSUME NEW p \in PhysicalCores, AddVirtualCore(p) PROVE TypeInv'
  <2>0. /\ cid[p] \in CapsuleIDs
        /\ Live(cid[p]) => [capsules[cid[p]] EXCEPT !.vcores = @ \cup {vid[p]}] \in Capsule
        /\ 0 \in VirtualCoreIDs
        /\ ~IsLast(vid[p]) => vid[p] + 1 \in VirtualCoreIDs
    <3>1. cid[p] \in CapsuleIDs /\ vid[p] \in VirtualCoreIDs
      BY <1>12 DEF AddVirtualCore, TypeOK, ControlInv, Creating
    <3>2. Live(cid[p]) => capsules[cid[p]] \in Capsule
      BY <3>1 DEF TypeOK, Live
    <3>3. 0 \in VirtualCoreIDs /\ (~IsLast(vid[p]) => vid[p] + 1 \in VirtualCoreIDs)
      BY <3>1, SizesAssumption DEF IsLast, VirtualCoreIDs
    <3>4. QED BY <3>1, <3>2, <3>3, VcoresUpdate
  <2>1. TypeOK'
    BY ZenonT(60), <1>12, <2>0 DEF AddVirtualCore, TypeOK, Labels, Failed, Created
  <2>2. ControlInv'
    BY <1>12, CoresAssumption, NoneAssumption, <2>0 DEF AddVirtualCore, TypeOK, ControlInv,
         Creating, Switching, Failed, Created
  <2>3. QED BY <2>1, <2>2
<1>13. ASSUME NEW p \in PhysicalCores, TimerInterrupt(p) PROVE TypeInv'
  BY <1>13, CoresAssumption, SizesAssumption, NoneAssumption, PriorityAssumption
  DEF TimerInterrupt, TypeOK, ControlInv, Labels, Creating, Switching
<1>13h. ASSUME NEW p \in PhysicalCores, UnhandledException(p) PROVE TypeInv'
  BY <1>13h, CoresAssumption, SizesAssumption, NoneAssumption, PriorityAssumption
  DEF UnhandledException, TypeOK, ControlInv, Labels, Creating, Switching
<1>14. ASSUME NEW p \in PhysicalCores, FatalException(p) PROVE TypeInv'
  <2>0. vcores[p].capsuleid \in CapsuleIDs /\ vcores[p].capsuleid \in 0 .. MaxCapsules
    BY <1>14, SizesAssumption DEF FatalException, TypeOK, VirtualCores, CapsuleIDs
  <2>1. TypeOK'
    BY <1>14, <2>0 DEF FatalException, TypeOK, Labels
  <2>2. ControlInv'
    BY <1>14, CoresAssumption, NoneAssumption, <2>0 DEF FatalException, TypeOK, ControlInv,
         Creating, Switching
  <2>3. QED BY <2>1, <2>2
<1>15. ASSUME NEW p \in PhysicalCores, DestroyCapsule(p) PROVE TypeInv'
  <2>0. cid[p] \in CapsuleIDs /\ (Live(cid[p]) => capsules[cid[p]].memory \subseteq Regions)
    BY <1>15 DEF DestroyCapsule, TypeOK, ControlInv, Live, Capsule
  <2>1. TypeOK'
    BY ZenonT(60), <1>15, <2>0 DEF DestroyCapsule, TypeOK, Labels, DropCapsule, Live
  <2>2. ControlInv'
    BY <1>15, CoresAssumption, NoneAssumption DEF DestroyCapsule, TypeOK, ControlInv, Creating,
         Switching, DropCapsule
  <2>3. QED BY <2>1, <2>2
<1>16. ASSUME NEW p \in PhysicalCores, AdoptOrphan(p) PROVE TypeInv'
  <2>0. Dequeued(globalQueues) \in VirtualCores /\ AfterDequeue(globalQueues) \in QueuesType(VirtualCores)
    BY ZenonT(60), <1>16, DequeueProperties DEF AdoptOrphan, OrphanWaits, TypeOK
  <2>1. TypeOK'
    BY <1>16, <2>0 DEF AdoptOrphan, TypeOK, Labels, MaySchedule, Counted
  <2>2. ControlInv'
    BY <1>16, CoresAssumption, NoneAssumption, <2>0 DEF AdoptOrphan, TypeOK, ControlInv,
         Creating, Switching, MaySchedule
  <2>3. QED BY <2>1, <2>2
<1>17. ASSUME NEW p \in PhysicalCores, TakeWaiting(p) PROVE TypeInv'
  <2>0. Dequeued(queues[p]) \in VirtualCores /\ AfterDequeue(queues[p]) \in QueuesType(VirtualCores)
    BY ZenonT(60), <1>17, DequeueProperties DEF TakeWaiting, TypeOK
  <2>1. TypeOK'
    BY <1>17, <2>0 DEF TakeWaiting, TypeOK, Labels, MaySchedule
  <2>2. ControlInv'
    BY <1>17, CoresAssumption, NoneAssumption, <2>0 DEF TakeWaiting, TypeOK, ControlInv,
         Creating, Switching, MaySchedule
  <2>3. QED BY <2>1, <2>2
<1>18. ASSUME NEW p \in PhysicalCores, NothingWaiting(p) PROVE TypeInv'
  <2>1. TypeOK'
    BY <1>18 DEF NothingWaiting, TypeOK, Labels, MaySchedule
  <2>2. ControlInv'
    BY <1>18, CoresAssumption, NoneAssumption DEF NothingWaiting, TypeOK, ControlInv, Creating,
         Switching, MaySchedule
  <2>3. QED BY <2>1, <2>2
<1>19. ASSUME NEW p \in PhysicalCores, ManagementCore(p) PROVE TypeInv'
  BY <1>19, CoresAssumption, SizesAssumption, NoneAssumption, PriorityAssumption
  DEF ManagementCore, TypeOK, ControlInv, Labels, Creating, Switching
<1>20. ASSUME NEW p \in PhysicalCores, SwitchOut(p) PROVE TypeInv'
  <2>0. /\ next[p] \in VirtualCores
        /\ Requeued(p) \in [PhysicalCores -> QueuesType(VirtualCores)]
        /\ Enforced(p, next[p].capsuleid) \subseteq Regions
    <3>1. next[p] \in VirtualCores /\ next[p].capsuleid \in CapsuleIDs
      BY <1>20 DEF SwitchOut, TypeOK, ControlInv, Switching, VirtualCores
    <3>2. vcores[p] # None => Enqueue(queues[p], vcores[p]) \in QueuesType(VirtualCores)
      BY EnqueueProperties DEF TypeOK
    <3>3. QED BY <3>1, <3>2 DEF TypeOK, Requeued, Enforced, Live, Capsule
  <2>1. TypeOK'
    BY ZenonT(60), <1>20, <2>0 DEF SwitchOut, TypeOK, Labels
  <2>2. ControlInv'
    BY <1>20, CoresAssumption, NoneAssumption, <2>0 DEF SwitchOut, TypeOK, ControlInv,
         Creating, Switching
  <2>3. QED BY <2>1, <2>2
<1>21. ASSUME NEW p \in PhysicalCores, SwitchIn(p) PROVE TypeInv'
  <2>0. next[p] \in VirtualCores /\ Linked(p) \in [VirtualCores -> PhysicalCores \cup {None}]
    BY <1>21 DEF SwitchIn, TypeOK, ControlInv, Switching, Linked
  <2>1. TypeOK'
    BY <1>21, <2>0 DEF SwitchIn, TypeOK, Labels
  <2>2. ControlInv'
    BY <1>21, CoresAssumption, NoneAssumption, <2>0 DEF SwitchIn, TypeOK, ControlInv,
         Creating,
         Switching
  <2>3. QED BY <2>1, <2>2
<1>22. ASSUME NEW p \in PhysicalCores, Housekeeping(p) PROVE TypeInv'
  <2>0. mailboxes' \in [PhysicalCores -> Seq(PhysicalCores)]
    <3>1. CASE UNCHANGED mailboxes
      BY <3>1 DEF TypeOK
    <3>2. CASE \E q \in PhysicalCores : SendDisown(p, q)
      <4>1. PICK q \in PhysicalCores : SendDisown(p, q)
        BY <3>2
      <4>2. mailboxes[q] \in Seq(PhysicalCores)
        BY DEF TypeOK
      <4>3. Append(mailboxes[q], p) \in Seq(PhysicalCores)
        BY <4>2, AppendProperties
      <4>4. QED BY <4>1, <4>3 DEF SendDisown, TypeOK
    <3>3. QED BY <1>22, <3>1, <3>2 DEF Housekeeping
  <2>1. TypeOK'
    BY ZenonT(60), <1>22, <2>0 DEF Housekeeping, TypeOK, Labels
  <2>2. ControlInv'
    BY <1>22, CoresAssumption, NoneAssumption DEF Housekeeping, TypeOK, ControlInv, Creating,
         Switching
  <2>3. QED BY <2>1, <2>2
<1>23. CASE Halted
  BY <1>23, <1>0 DEF Halted
<1>24. QED
  BY <1>0, <1>1, <1>2, <1>3, <1>4, <1>5, <1>6, <1>7, <1>8, <1>9, <1>10, <1>11, <1>12, <1>13, <1>13h,
       <1>14, <1>15, <1>16, <1>17, <1>18, <1>19, <1>20, <1>21, <1>22, <1>23 DEF Next, Boot,
       Create, Schedule

\* Every variable keeps its type.
THEOREM TypeCorrect == Spec => []TypeOK
<1>1. Init => TypeInv
  BY TypeInit
<1>2. TypeInv /\ [Next]_vars => TypeInv'
  BY TypeNext
<1>3. TypeInv => TypeOK
  BY DEF TypeInv
<1>4. QED BY <1>1, <1>2, <1>3, PTL DEF Spec

-----------------------------------------------------------------------------
(* How the cores come up: until the boot core sets INIT_DONE it is the only *)
(* one past its initialization. *)

\* Until the boot core has created the boot capsule nothing else happens.
BootInv ==
  /\ \A p \in PhysicalCores \ {BootCore} :
       /\ pc[p] \notin {"setup", "create", "publish", "halted"}
       /\ ~initDone => pc[p] \in {"init", "wait"}
  /\ pc[BootCore] # "wait"
  /\ initDone => pc[BootCore] \notin {"init", "setup", "create", "publish", "halted"}
  /\ pc[BootCore] \in {"init", "setup", "create"} => capsuleIdNext = 0
  /\ pc[BootCore] \notin {"init", "setup", "create", "halted"} => capsuleIdNext > 0
  /\ pc[BootCore] = "create" => freeRegions = Regions

\* A step of create_boot_capsule is the boot core's, or comes after INIT_DONE.
LEMMA CreationStep ==
  ASSUME TypeInv, BootInv, NEW p \in PhysicalCores,
         pc[p] \in Creating, UNCHANGED <<initDone, capsuleIdNext>>,
         \E label \in Creating \cup {Failed, Created} : pc' = [pc EXCEPT ![p] = label]
  PROVE  BootInv'
<1>1. pc[BootCore] \notin {"init", "setup", "create", "halted"} /\ (initDone \/ p = BootCore)
  BY ZenonT(60), CoresAssumption DEF TypeInv, TypeOK, BootInv, Creating
<1>2. PICK label \in Creating \cup {Failed, Created} : pc' = [pc EXCEPT ![p] = label]
  BY ZenonT(60)
<1>3. /\ pc'[p] = label
      /\ \A q \in PhysicalCores \ {p} : pc'[q] = pc[q]
  BY <1>2 DEF TypeInv, TypeOK
<1>4. label \notin {"init", "setup", "create", "wait"}
      /\ (initDone => label \notin {"publish", "halted"})
  BY DEF Creating, Failed, Created
<1>5. QED BY <1>1, <1>3, <1>4, CoresAssumption DEF BootInv

\* Until INIT_DONE only the boot core is past its initialization.
LEMMA BootNext ==
  ASSUME TypeInv, TypeInv', BootInv, [Next]_vars
  PROVE  BootInv'
<1> USE CoresAssumption, SizesAssumption
    DEF TypeInv, TypeOK, BootInv, Goto, flowVars, localVars, capsuleVars, globalVars, coreVars
<1>1. ASSUME NEW p \in PhysicalCores, PhysicalCoreInit(p) PROVE BootInv'
  BY <1>1 DEF PhysicalCoreInit
<1>2. ASSUME NEW p \in PhysicalCores, SetupHardware(p) PROVE BootInv'
  BY <1>2 DEF SetupHardware
<1>3. ASSUME NEW p \in PhysicalCores, SetupFails(p) PROVE BootInv'
  BY <1>3 DEF SetupFails
<1>4. ASSUME NEW p \in PhysicalCores, SetInitDone(p) PROVE BootInv'
  BY <1>4 DEF SetInitDone
<1>5. ASSUME NEW p \in PhysicalCores, WaitForInit(p) PROVE BootInv'
  BY <1>5 DEF WaitForInit
<1>6. ASSUME NEW p \in PhysicalCores, StartTimer(p) PROVE BootInv'
  BY <1>6 DEF StartTimer
<1>7. ASSUME NEW p \in PhysicalCores, CreateCapsule(p) PROVE BootInv'
  <2>1. /\ UNCHANGED <<initDone, freeRegions>> /\ capsuleIdNext' = capsuleIdNext + 1
        /\ pc'[p] = "alloc" /\ \A q \in PhysicalCores \ {p} : pc'[q] = pc[q]
        /\ pc[p] \in {"create", "out"}
    BY <1>7 DEF CreateCapsule
  <2>2. capsuleIdNext + 1 > 0
    OBVIOUS
  <2>3. pc'[BootCore] \notin {"init", "setup", "create"}
    BY ZenonT(60), <2>1
  <2>4. QED BY ZenonT(60), <2>1, <2>2, <2>3
<1>8. ASSUME NEW p \in PhysicalCores, AllocRegion(p) PROVE BootInv'
  <2>1. /\ pc[p] \in Creating /\ UNCHANGED <<initDone, capsuleIdNext>>
        /\ \E label \in Creating \cup {Failed, Created} : pc' = [pc EXCEPT ![p] = label]
    BY <1>8 DEF AllocRegion, Creating
  <2>2. QED BY ZenonT(60), <2>1, CreationStep
<1>9. ASSUME NEW p \in PhysicalCores, MapMemory(p) PROVE BootInv'
  <2>1. /\ pc[p] \in Creating /\ UNCHANGED <<initDone, capsuleIdNext>>
        /\ \E label \in Creating \cup {Failed, Created} : pc' = [pc EXCEPT ![p] = label]
    BY <1>9 DEF MapMemory, Creating
  <2>2. QED BY ZenonT(60), <2>1, CreationStep
<1>10. ASSUME NEW p \in PhysicalCores, LoadSupervisor(p) PROVE BootInv'
  <2>1. /\ pc[p] \in Creating /\ UNCHANGED <<initDone, capsuleIdNext>>
        /\ \E label \in Creating \cup {Failed, Created} : pc' = [pc EXCEPT ![p] = label]
    BY <1>10 DEF LoadSupervisor, Creating
  <2>2. QED BY ZenonT(60), <2>1, CreationStep
<1>11. ASSUME NEW p \in PhysicalCores, QueueVirtualCore(p) PROVE BootInv'
  BY <1>11 DEF QueueVirtualCore
<1>12. ASSUME NEW p \in PhysicalCores, AddVirtualCore(p) PROVE BootInv'
  <2>1. /\ pc[p] \in Creating /\ UNCHANGED <<initDone, capsuleIdNext>>
        /\ \E label \in Creating \cup {Failed, Created} : pc' = [pc EXCEPT ![p] = label]
    BY <1>12 DEF AddVirtualCore, Creating
  <2>2. QED BY ZenonT(60), <2>1, CreationStep
<1>13. ASSUME NEW p \in PhysicalCores, TimerInterrupt(p) PROVE BootInv'
  BY <1>13 DEF TimerInterrupt
<1>13h. ASSUME NEW p \in PhysicalCores, UnhandledException(p) PROVE BootInv'
  BY <1>13h DEF UnhandledException
<1>14. ASSUME NEW p \in PhysicalCores, FatalException(p) PROVE BootInv'
  BY <1>14 DEF FatalException
<1>15. ASSUME NEW p \in PhysicalCores, DestroyCapsule(p) PROVE BootInv'
  BY ZenonT(60), <1>15 DEF DestroyCapsule
<1>16. ASSUME NEW p \in PhysicalCores, AdoptOrphan(p) PROVE BootInv'
  BY <1>16 DEF AdoptOrphan, MaySchedule
<1>17. ASSUME NEW p \in PhysicalCores, TakeWaiting(p) PROVE BootInv'
  BY <1>17 DEF TakeWaiting, MaySchedule
<1>18. ASSUME NEW p \in PhysicalCores, NothingWaiting(p) PROVE BootInv'
  BY <1>18 DEF NothingWaiting, MaySchedule
<1>19. ASSUME NEW p \in PhysicalCores, ManagementCore(p) PROVE BootInv'
  BY <1>19 DEF ManagementCore
<1>20. ASSUME NEW p \in PhysicalCores, SwitchOut(p) PROVE BootInv'
  BY <1>20 DEF SwitchOut
<1>21. ASSUME NEW p \in PhysicalCores, SwitchIn(p) PROVE BootInv'
  BY <1>21 DEF SwitchIn
<1>22. ASSUME NEW p \in PhysicalCores, Housekeeping(p) PROVE BootInv'
  BY <1>22 DEF Housekeeping
<1>23. CASE Halted \/ UNCHANGED vars
  BY <1>23 DEF Halted, vars
<1> HIDE DEF TypeInv, TypeOK, BootInv, Goto, flowVars, localVars, capsuleVars, globalVars,
    coreVars
<1>24. QED
  BY <1>1, <1>2, <1>3, <1>4, <1>5, <1>6, <1>7, <1>8, <1>9, <1>10, <1>11, <1>12, <1>13, <1>13h,
       <1>14,
       <1>15, <1>16, <1>17, <1>18, <1>19, <1>20, <1>21, <1>22, <1>23 DEF Next, Boot, Create,
       Schedule

-----------------------------------------------------------------------------
(* A virtual core is in one place. *)

\* Capsule IDs are not reused: a capsule that a core is creating is that core's
\* alone, and its virtual cores are the ones that core has queued so far.
FreshInv ==
  /\ \A v \in Known : v.capsuleid <= capsuleIdNext
  /\ \A p \in PhysicalCores : pc[p] \in Creating =>
       /\ cid[p] <= capsuleIdNext
       /\ \A q \in PhysicalCores \ {p} : pc[q] \in Creating => cid[q] # cid[p]
       /\ \A v \in Known : v.capsuleid = cid[p] =>
            \/ pc[p] \in {"queue", "add"} /\ v.vcoreid < vid[p]
            \/ pc[p] = "add" /\ v.vcoreid = vid[p]

\* Nothing waits for a core that has not been initialized.
InitInv == \A p \in PhysicalCores : pc[p] = "init" => queues[p] = EmptyQueues

PlaceInv == TypeInv /\ InitInv /\ FreshInv /\ OnePlace

-----------------------------------------------------------------------------
(* Where the virtual cores are. *)

placeVars == <<globalQueues, queues, vcores, next>>

\* Core p is the only one whose virtual cores a step of p touches.
LEMMA HeldByOthers ==
  ASSUME NEW p \in PhysicalCores, TypeOK, TypeOK',
         \A q \in PhysicalCores \ {p} : /\ queues'[q] = queues[q]
                                        /\ vcores'[q] = vcores[q]
                                        /\ next'[q] = next[q]
  PROVE  \A q \in PhysicalCores \ {p} : Held(q)' = Held(q)
BY DEF Held, Some

\* What is known is what is on the global queues, what p holds, and the rest.
LEMMA KnownSplit ==
  ASSUME NEW p \in PhysicalCores
  PROVE  Known = Queued(globalQueues) \cup Held(p)
                   \cup UNION {Held(q) : q \in PhysicalCores \ {p}}
BY DEF Known

\* A step that leaves all queues, VCORES and next alone moves no virtual core.
LEMMA PlacesUnchanged ==
  ASSUME UNCHANGED placeVars
  PROVE  Known' = Known /\ (OnePlace => OnePlace')
BY DEF placeVars, Known, OnePlace, Held

\* The virtual core that core p is about to queue.
NewVcore(p) == [capsuleid |-> cid[p], vcoreid |-> vid[p], priority |-> PriorityOf[cid[p]]]

\* Each step either moves virtual cores around, or adds a new one to the
\* global queues; if it is new indeed, each is still in one place.
LEMMA PlaceStep ==
  ASSUME TypeInv, TypeInv', InitInv, OnePlace, [Next]_vars
  PROVE  \/ Known' = Known /\ OnePlace'
         \/ \E p \in PhysicalCores :
              /\ QueueVirtualCore(p)
              /\ Known' = Known \cup {NewVcore(p)}
              /\ NewVcore(p) \notin Known => OnePlace'
<1> DEFINE Moved == Known' = Known /\ OnePlace'
<1> USE DEF TypeInv
<1>1. ASSUME NEW p \in PhysicalCores, PhysicalCoreInit(p) PROVE Moved
  <2>1. UNCHANGED placeVars
    BY <1>1 DEF PhysicalCoreInit, InitInv, TypeOK, placeVars, globalVars
  <2>2. QED BY <2>1, PlacesUnchanged
<1>2. ASSUME NEW p \in PhysicalCores, QueueVirtualCore(p)
      PROVE  /\ Known' = Known \cup {NewVcore(p)}
             /\ NewVcore(p) \notin Known => OnePlace'
  <2>1. NewVcore(p) \in VirtualCores
    BY <1>2, PriorityAssumption
    DEF QueueVirtualCore, TypeOK, ControlInv, Creating, VirtualCores, NewVcore
  <2>2. globalQueues' = Enqueue(globalQueues, NewVcore(p))
    BY ZenonT(60), <1>2 DEF QueueVirtualCore, NewVcore
  <2>3. /\ Queued(globalQueues)' = Queued(globalQueues) \cup {NewVcore(p)}
        /\ WellQueued(globalQueues) /\ NewVcore(p) \notin Queued(globalQueues) =>
             WellQueued(globalQueues)'
    <3>1. globalQueues \in QueuesType(VirtualCores)
      BY DEF TypeOK
    <3>2. /\ Queued(Enqueue(globalQueues, NewVcore(p))) = Queued(globalQueues) \cup {NewVcore(p)}
          /\ WellQueued(globalQueues) /\ NewVcore(p) \notin Queued(globalQueues) =>
               WellQueued(Enqueue(globalQueues, NewVcore(p)))
      BY <2>1, <3>1, EnqueueProperties
    <3>3. QED BY <2>2, <3>2
  <2>4. UNCHANGED <<queues, vcores, next>>
    BY <1>2 DEF QueueVirtualCore, coreVars
  <2>5. \A q \in PhysicalCores : Held(q)' = Held(q)
    BY <2>4 DEF Held
  <2>6. Known' = Known \cup {NewVcore(p)}
    BY <2>3, <2>5 DEF Known
  <2>7. ASSUME NewVcore(p) \notin Known PROVE OnePlace'
    <3>1. \A q \in PhysicalCores : NewVcore(p) \notin Held(q)
      BY <2>7 DEF Known
    <3>2. NewVcore(p) \notin Queued(globalQueues)
      BY <2>7 DEF Known
    <3>3. QED BY <2>3, <2>4, <2>5, <3>1, <3>2 DEF OnePlace
  <2>8. QED BY <2>6, <2>7
<1>3. ASSUME NEW p \in PhysicalCores, AdoptOrphan(p) PROVE Moved
  <2> DEFINE v == Dequeued(globalQueues)
  <2>1. /\ v \in VirtualCores /\ v \in Queued(globalQueues)
        /\ WellQueued(globalQueues)'
        /\ Queued(globalQueues)' = Queued(globalQueues) \ {v}
    BY <1>3, DequeueProperties DEF AdoptOrphan, OrphanWaits, TypeOK, OnePlace
  <2>2. /\ next[p] = None /\ next'[p] = v
        /\ UNCHANGED <<queues, vcores>>
        /\ \A q \in PhysicalCores \ {p} : next'[q] = next[q]
    BY ZenonT(60), <1>3 DEF AdoptOrphan, MaySchedule, TypeOK, ControlInv, Switching, coreVars
  <2>3. Held(p)' = Held(p) \cup {v}
    BY ZenonT(60), <2>1, <2>2, NoneAssumption DEF Held, Some
  <2>4. \A q \in PhysicalCores \ {p} : Held(q)' = Held(q)
    BY <2>2, HeldByOthers
  <2>5. Known' = Known
    BY <2>1, <2>3, <2>4, KnownSplit DEF Known
  <2>6. v \notin Held(p) /\ \A q \in PhysicalCores \ {p} : v \notin Held(q)
    BY <2>1 DEF OnePlace
  <2>7. v \notin Queued(queues[p]) /\ vcores[p] # v
    BY ZenonT(60), <2>1, <2>6, NoneAssumption DEF Held, Some
  <2>8. \A q \in PhysicalCores :
          /\ vcores'[q] \notin Queued(queues'[q])
          /\ next'[q] \notin Queued(queues'[q])
          /\ vcores'[q] = next'[q] => next'[q] = None
    BY <2>2, <2>7 DEF OnePlace
  <2>9. \A q \in PhysicalCores : WellQueued(queues'[q])
    BY ZenonT(60), <2>2 DEF OnePlace
  <2>10. \A q \in PhysicalCores : Held(q)' \cap Queued(globalQueues)' = {}
    BY <2>1, <2>3, <2>4 DEF OnePlace
  <2>11. \A q \in PhysicalCores : \A r \in PhysicalCores \ {q} : Held(q)' \cap Held(r)' = {}
    BY <2>3, <2>4, <2>6 DEF OnePlace
  <2>12. OnePlace'
    BY ZenonT(60), <2>1, <2>8, <2>9, <2>10, <2>11 DEF OnePlace
  <2>13. QED BY <2>5, <2>12
<1>4. ASSUME NEW p \in PhysicalCores, TakeWaiting(p) PROVE Moved
  <2> DEFINE v == Dequeued(queues[p])
  <2>1. /\ v \in VirtualCores /\ v \in Queued(queues[p])
        /\ WellQueued(AfterDequeue(queues[p]))
        /\ Queued(AfterDequeue(queues[p])) = Queued(queues[p]) \ {v}
    BY <1>4, DequeueProperties DEF TakeWaiting, TypeOK, OnePlace
  <2>2. /\ next[p] = None /\ next'[p] = v
        /\ queues'[p] = AfterDequeue(queues[p])
        /\ UNCHANGED <<globalQueues, vcores>>
        /\ \A q \in PhysicalCores \ {p} : next'[q] = next[q] /\ queues'[q] = queues[q]
    BY ZenonT(60), <1>4 DEF TakeWaiting, MaySchedule, TypeOK, ControlInv, Switching
  <2>3. Held(p)' = Held(p)
    BY ZenonT(60), <2>1, <2>2, NoneAssumption DEF Held, Some
  <2>4. \A q \in PhysicalCores \ {p} : Held(q)' = Held(q)
    BY ZenonT(60), <2>2, HeldByOthers
  <2>5. Known' = Known
    BY <2>2, <2>3, <2>4 DEF Known
  <2>6. OnePlace'
    BY <2>1, <2>2, <2>3, <2>4, NoneAssumption DEF OnePlace
  <2>7. QED BY <2>5, <2>6
<1>5. ASSUME NEW p \in PhysicalCores, SwitchOut(p) PROVE Moved
  <2>1. /\ UNCHANGED <<globalQueues, next>>
        /\ vcores'[p] = None /\ next[p] \in VirtualCores
        /\ queues' = Requeued(p)
        /\ \A q \in PhysicalCores \ {p} : vcores'[q] = vcores[q] /\ queues'[q] = queues[q]
    BY <1>5 DEF SwitchOut, Requeued, TypeOK, ControlInv, Switching, globalVars
  <2>2. CASE vcores[p] = None
    <3>1. UNCHANGED placeVars
      BY <1>5, <2>1, <2>2 DEF SwitchOut, Requeued, TypeOK, placeVars
    <3>2. QED BY <3>1, PlacesUnchanged
  <2>3. CASE vcores[p] # None
    <3>1. queues'[p] = Enqueue(queues[p], vcores[p]) /\ vcores[p] \in VirtualCores
      BY <2>1, <2>3 DEF Requeued, TypeOK
    <3>2. /\ Queued(queues'[p]) = Queued(queues[p]) \cup {vcores[p]}
          /\ WellQueued(queues'[p])
      <4>1. queues[p] \in QueuesType(VirtualCores)
        BY DEF TypeOK
      <4>2. WellQueued(queues[p]) /\ vcores[p] \notin Queued(queues[p])
        BY DEF OnePlace
      <4>3. QED BY <3>1, <4>1, <4>2, EnqueueProperties
    <3>3. Held(p)' = Held(p)
      BY <2>1, <2>3, <3>2 DEF Held, Some
    <3>4. \A q \in PhysicalCores \ {p} : Held(q)' = Held(q)
      BY <2>1, HeldByOthers
    <3>5. Known' = Known
      BY <2>1, <3>3, <3>4 DEF Known
    <3>6. None \notin Queued(queues'[p])
      BY ZenonT(60), NoneAssumption, QueuedType DEF TypeOK
    <3>7. OnePlace'
      BY <2>1, <2>3, <3>2, <3>3, <3>4, <3>6, NoneAssumption DEF OnePlace
    <3>8. QED BY <3>5, <3>7
  <2>4. QED BY <2>2, <2>3
<1>6. ASSUME NEW p \in PhysicalCores, SwitchIn(p) PROVE Moved
  <2>1. /\ UNCHANGED <<globalQueues, queues>>
        /\ vcores[p] = None /\ next'[p] = None /\ vcores'[p] = next[p]
        /\ next[p] \in VirtualCores
        /\ \A q \in PhysicalCores \ {p} : vcores'[q] = vcores[q] /\ next'[q] = next[q]
    BY <1>6 DEF SwitchIn, TypeOK, ControlInv, Switching
  <2>2. Held(p)' = Held(p)
    BY ZenonT(60), <2>1, NoneAssumption DEF Held, Some
  <2>3. \A q \in PhysicalCores \ {p} : Held(q)' = Held(q)
    BY <2>1, HeldByOthers
  <2>4. Known' = Known
    BY <2>1, <2>2, <2>3 DEF Known
  <2>5. None \notin Queued(queues[p])
    BY NoneAssumption, QueuedType DEF TypeOK
  <2>6. OnePlace'
    BY <2>1, <2>2, <2>3, <2>5, NoneAssumption DEF OnePlace
  <2>7. QED BY <2>4, <2>6
<1>7. ASSUME NEW p \in PhysicalCores,
             \/ SetupHardware(p) \/ SetupFails(p) \/ SetInitDone(p) \/ WaitForInit(p)
             \/ StartTimer(p) \/ CreateCapsule(p) \/ AllocRegion(p) \/ MapMemory(p)
             \/ LoadSupervisor(p) \/ AddVirtualCore(p) \/ TimerInterrupt(p) \/ UnhandledException(p)
             \/ FatalException(p) \/ DestroyCapsule(p) \/ NothingWaiting(p)
             \/ ManagementCore(p) \/ Housekeeping(p)
      PROVE  Moved
  <2>1. UNCHANGED placeVars
    BY <1>7 DEF SetupHardware, SetupFails, SetInitDone, WaitForInit, StartTimer, CreateCapsule,
         AllocRegion, MapMemory, LoadSupervisor, AddVirtualCore, TimerInterrupt,
         UnhandledException, FatalException,
         DestroyCapsule, NothingWaiting, ManagementCore, Housekeeping, placeVars, globalVars,
         coreVars
  <2>2. QED BY <2>1, PlacesUnchanged
<1>8. ASSUME Halted \/ UNCHANGED vars PROVE Moved
  <2>1. UNCHANGED placeVars
    BY <1>8 DEF Halted, vars, placeVars, globalVars, coreVars
  <2>2. QED BY <2>1, PlacesUnchanged
<1>9. QED
  BY <1>1, <1>2, <1>3, <1>4, <1>5, <1>6, <1>7, <1>8 DEF Next, Boot, Create, Schedule

-----------------------------------------------------------------------------
(* Each virtual core is in one place. *)

\* At the start there is no virtual core anywhere.
LEMMA PlaceInit == Init => PlaceInv
<1> SUFFICES ASSUME Init PROVE PlaceInv
  OBVIOUS
<1>1. TypeInv
  BY TypeInit
<1>2. \A p \in PhysicalCores : Held(p) = {}
  BY EmptyQueuesProperties DEF Init, Held, Some
<1>3. Queued(globalQueues) = {} /\ WellQueued(globalQueues)
  BY EmptyQueuesProperties DEF Init
<1>4. Known = {}
  BY <1>2, <1>3 DEF Known
<1>5. FreshInv
  BY <1>4 DEF Init, FreshInv, Creating
<1>6. OnePlace
  BY <1>2, <1>3, EmptyQueuesProperties DEF Init, OnePlace
<1>7. QED BY <1>1, <1>5, <1>6 DEF PlaceInv, InitInv, Init

\* Only PhysicalCore::init empties the queues of a core, and nothing is on them then.
LEMMA InitInvNext ==
  ASSUME TypeInv, InitInv, [Next]_vars
  PROVE  InitInv'
<1> SUFFICES ASSUME NEW q \in PhysicalCores, pc'[q] = "init" PROVE queues'[q] = EmptyQueues
  BY DEF InitInv
<1> USE DEF TypeInv, Goto, flowVars, localVars, capsuleVars, globalVars, coreVars
<1>1. ASSUME NEW p \in PhysicalCores, PhysicalCoreInit(p) PROVE queues'[q] = EmptyQueues
  BY <1>1 DEF PhysicalCoreInit, TypeOK, InitInv
<1>2. ASSUME NEW p \in PhysicalCores, TakeWaiting(p) PROVE queues'[q] = EmptyQueues
  BY <1>2 DEF TakeWaiting, MaySchedule, TypeOK, InitInv
<1>3. ASSUME NEW p \in PhysicalCores, SwitchOut(p) PROVE queues'[q] = EmptyQueues
  BY <1>3 DEF SwitchOut, Requeued, TypeOK, InitInv
<1>4. ASSUME NEW p \in PhysicalCores,
             \/ SetupHardware(p) \/ SetupFails(p) \/ SetInitDone(p) \/ WaitForInit(p)
             \/ StartTimer(p) \/ CreateCapsule(p) \/ AllocRegion(p) \/ MapMemory(p)
             \/ LoadSupervisor(p) \/ QueueVirtualCore(p) \/ AddVirtualCore(p)
             \/ TimerInterrupt(p) \/ UnhandledException(p) \/ FatalException(p) \/ DestroyCapsule(p)
             \/ AdoptOrphan(p) \/ NothingWaiting(p) \/ ManagementCore(p) \/ SwitchIn(p)
             \/ Housekeeping(p)
      PROVE  queues'[q] = EmptyQueues
  <2>1. UNCHANGED queues
    BY <1>4 DEF SetupHardware, SetupFails, SetInitDone, WaitForInit, StartTimer,
         CreateCapsule,
         AllocRegion, MapMemory, LoadSupervisor, QueueVirtualCore, AddVirtualCore,
         TimerInterrupt,
         UnhandledException, FatalException, DestroyCapsule, AdoptOrphan, NothingWaiting,
         ManagementCore, SwitchIn, Housekeeping
  <2>2. \E label \in Labels \ {"init"} : pc' = [pc EXCEPT ![p] = label]
    BY <1>4, ReturnLabels
    DEF SetupHardware, SetupFails, SetInitDone, WaitForInit, StartTimer, CreateCapsule,
         AllocRegion, MapMemory, LoadSupervisor, QueueVirtualCore, AddVirtualCore,
         TimerInterrupt,
         UnhandledException, FatalException, DestroyCapsule, AdoptOrphan, NothingWaiting,
         ManagementCore, SwitchIn, Housekeeping, Labels, Failed, Created
  <2>3. pc[q] = "init"
    BY <2>2 DEF TypeOK
  <2>4. QED BY <2>1, <2>3 DEF InitInv
<1>5. CASE Halted \/ UNCHANGED vars
  BY ZenonT(60), <1>5 DEF Halted, vars, InitInv
<1>6. QED BY ZenonT(60), <1>1, <1>2, <1>3, <1>4, <1>5 DEF Next, Boot, Create, Schedule

\* What is known is a virtual core.
LEMMA KnownType ==
  ASSUME TypeOK
  PROVE  Known \subseteq VirtualCores
<1>1. Queued(globalQueues) \subseteq VirtualCores
  BY QueuedType DEF TypeOK
<1>2. \A p \in PhysicalCores : Queued(queues[p]) \subseteq VirtualCores
  BY QueuedType DEF TypeOK
<1>3. \A p \in PhysicalCores : Held(p) \subseteq VirtualCores
  BY <1>2 DEF TypeOK, Held, Some
<1>4. QED BY <1>1, <1>3 DEF Known

\* A step that leaves capsules under creation alone keeps FreshInv.
LEMMA FreshKept ==
  ASSUME FreshInv, Known' = Known, UNCHANGED capsuleIdNext,
         \A q \in PhysicalCores : pc'[q] \in Creating =>
           pc'[q] = pc[q] /\ cid'[q] = cid[q] /\ vid'[q] = vid[q]
  PROVE  FreshInv'
<1>1. \A v \in Known' : v.capsuleid <= capsuleIdNext'
  BY ZenonT(60) DEF FreshInv
<1>2. ASSUME NEW p \in PhysicalCores, pc'[p] \in Creating
      PROVE  /\ cid'[p] <= capsuleIdNext'
             /\ \A q \in PhysicalCores \ {p} : pc'[q] \in Creating => cid'[q] # cid'[p]
             /\ \A v \in Known' : v.capsuleid = cid'[p] =>
                  \/ pc'[p] \in {"queue", "add"} /\ v.vcoreid < vid'[p]
                  \/ pc'[p] = "add" /\ v.vcoreid = vid'[p]
  <2>1. pc'[p] = pc[p] /\ cid'[p] = cid[p] /\ vid'[p] = vid[p] /\ pc[p] \in Creating
    BY <1>2
  <2>2. cid'[p] <= capsuleIdNext'
    BY ZenonT(60), <2>1 DEF FreshInv
  <2>3. \A q \in PhysicalCores \ {p} : pc'[q] \in Creating => cid'[q] # cid'[p]
    BY ZenonT(60), <2>1 DEF FreshInv
  <2>4. \A v \in Known' : v.capsuleid = cid'[p] =>
          \/ pc'[p] \in {"queue", "add"} /\ v.vcoreid < vid'[p]
          \/ pc'[p] = "add" /\ v.vcoreid = vid'[p]
    BY ZenonT(60), <2>1 DEF FreshInv
  <2>5. QED BY ZenonT(60), <2>2, <2>3, <2>4
<1>3. QED BY ZenonT(60), <1>1, <1>2 DEF FreshInv

\* Capsule IDs and virtual core IDs stay fresh: create only counts up, and the loop
\* of create_boot_capsule queues each virtual core ID once.
LEMMA FreshNext ==
  ASSUME TypeInv, TypeInv', InitInv, OnePlace, FreshInv, [Next]_vars
  PROVE  FreshInv'
<1> USE DEF TypeInv, Goto, flowVars, localVars, capsuleVars, globalVars, coreVars
<1>1. Known' = Known \/ \E p \in PhysicalCores : QueueVirtualCore(p)
  BY PlaceStep
<1>2. \A v \in Known : v \in VirtualCores /\ v.capsuleid \in Nat /\ v.vcoreid \in Int
  BY KnownType, SizesAssumption DEF VirtualCores, CapsuleIDs, VirtualCoreIDs
<1>3. capsuleIdNext \in Nat /\ \A q \in PhysicalCores : cid[q] \in Nat /\ vid[q] \in Nat
  BY SizesAssumption DEF TypeOK, VirtualCoreIDs
<1>4. ASSUME NEW p \in PhysicalCores, CreateCapsule(p) PROVE FreshInv'
  <2>1. Known' = Known
    BY ZenonT(60), <1>1, <1>4 DEF CreateCapsule, QueueVirtualCore, TypeOK
  <2>2. /\ capsuleIdNext' = capsuleIdNext + 1
        /\ cid'[p] = capsuleIdNext + 1 /\ pc'[p] = "alloc"
        /\ \A q \in PhysicalCores \ {p} : cid'[q] = cid[q] /\ pc'[q] = pc[q]
        /\ vid' = vid
    BY ZenonT(60), <1>4 DEF CreateCapsule, NewID, TypeOK
  <2>3. \A v \in Known' : v.capsuleid <= capsuleIdNext' /\ v.capsuleid # cid'[p]
    <3>1. \A v \in Known : v.capsuleid <= capsuleIdNext
      BY ZenonT(60) DEF FreshInv
    <3>2. \A v \in Known : v.capsuleid <= capsuleIdNext + 1 /\ v.capsuleid # capsuleIdNext + 1
      BY <1>2, <1>3, <3>1
    <3>3. QED BY ZenonT(60), <2>1, <2>2, <3>2
  <2>4. \A q \in PhysicalCores \ {p} : pc[q] \in Creating => cid[q] <= capsuleIdNext
    BY DEF FreshInv
  <2>5. \A q \in PhysicalCores \ {p} : pc'[q] \in Creating =>
          cid'[q] <= capsuleIdNext' /\ cid'[q] # cid'[p]
    BY <1>3, <2>2, <2>4
  <2>6. QED BY <1>3, <2>1, <2>2, <2>3, <2>5 DEF FreshInv
<1>5. ASSUME NEW p \in PhysicalCores, AllocRegion(p) \/ MapMemory(p) \/ LoadSupervisor(p)
      PROVE  FreshInv'
  <2>1. Known' = Known
    BY <1>5, PlacesUnchanged DEF AllocRegion, MapMemory, LoadSupervisor, placeVars
  <2>2. /\ UNCHANGED <<capsuleIdNext, cid>>
        /\ pc[p] \in {"alloc", "map", "load"}
        /\ \A q \in PhysicalCores \ {p} : vid'[q] = vid[q] /\ pc'[q] = pc[q]
    BY <1>5 DEF AllocRegion, MapMemory, LoadSupervisor, TypeOK
  <2>3. \A v \in Known : v.capsuleid # cid[p]
    BY <2>2 DEF FreshInv, Creating
  <2>4. pc[p] \in Creating
    BY <2>2 DEF Creating
  <2>5. QED BY <2>1, <2>2, <2>3, <2>4 DEF FreshInv
<1>6. ASSUME NEW p \in PhysicalCores, QueueVirtualCore(p) PROVE FreshInv'
  <2>1. Known' \subseteq Known \cup {NewVcore(p)}
    BY ZenonT(60), PlaceStep, <1>6 DEF QueueVirtualCore, TypeOK
  <2>2. /\ UNCHANGED <<capsuleIdNext, cid, vid>>
        /\ pc[p] = "queue" /\ pc'[p] = "add"
        /\ \A q \in PhysicalCores \ {p} : pc'[q] = pc[q]
    BY ZenonT(60), <1>6 DEF QueueVirtualCore, TypeOK
  <2>3. NewVcore(p).capsuleid = cid[p] /\ NewVcore(p).vcoreid = vid[p]
    BY ZenonT(60) DEF NewVcore
  <2>4. /\ pc[p] \in Creating /\ cid[p] <= capsuleIdNext
        /\ \A v \in Known : v.capsuleid = cid[p] => v.vcoreid < vid[p]
        /\ \A q \in PhysicalCores \ {p} : pc[q] \in Creating => cid[q] # cid[p]
    BY ZenonT(60), <2>2 DEF FreshInv, Creating
  <2>5. \A v \in Known' : v.capsuleid <= capsuleIdNext
    BY ZenonT(60), <2>1, <2>3, <2>4 DEF FreshInv
  <2>6. \A v \in Known' : v.capsuleid = cid[p] => v.vcoreid < vid[p] \/ v.vcoreid = vid[p]
    BY <2>1, <2>3, <2>4
  <2>7. ASSUME NEW q \in PhysicalCores \ {p}, pc[q] \in Creating,
               NEW v \in Known', v.capsuleid = cid[q]
        PROVE  v \in Known
    BY <2>1, <2>3, <2>4, <2>7
  <2>8. QED BY <2>2, <2>4, <2>5, <2>6, <2>7 DEF FreshInv
<1>7. ASSUME NEW p \in PhysicalCores, AddVirtualCore(p) PROVE FreshInv'
  <2>1. Known' = Known
    BY ZenonT(60), <1>1, <1>7 DEF AddVirtualCore, QueueVirtualCore, TypeOK
  <2>2. /\ UNCHANGED <<capsuleIdNext, cid>>
        /\ pc[p] = "add" /\ pc[p] \in Creating
        /\ \A q \in PhysicalCores \ {p} : vid'[q] = vid[q] /\ pc'[q] = pc[q]
        /\ pc'[p] \in Creating => pc'[p] = "queue" /\ vid'[p] = vid[p] + 1
    BY <1>7, ReturnLabels DEF AddVirtualCore, TypeOK, Creating
  <2>3. \A v \in Known : v.capsuleid = cid[p] => v.vcoreid < vid[p] + 1
    BY <1>2, <1>3, <2>2 DEF FreshInv
  <2>4. QED BY <2>1, <2>2, <2>3 DEF FreshInv
<1>8. ASSUME NEW p \in PhysicalCores,
             \/ PhysicalCoreInit(p) \/ SetupHardware(p) \/ SetupFails(p) \/ SetInitDone(p)
             \/ WaitForInit(p) \/ StartTimer(p) \/ TimerInterrupt(p)
             \/ UnhandledException(p) \/ FatalException(p)
             \/ DestroyCapsule(p) \/ Schedule(p)
      PROVE  FreshInv'
  <2>1. Known' = Known
    BY ZenonT(60), <1>1, <1>8
    DEF PhysicalCoreInit, SetupHardware, SetupFails, SetInitDone, WaitForInit, StartTimer,
        TimerInterrupt,
        UnhandledException, FatalException, DestroyCapsule, Schedule, AdoptOrphan, TakeWaiting,
        NothingWaiting, ManagementCore, MaySchedule, SwitchOut, SwitchIn, Housekeeping,
        QueueVirtualCore, TypeOK
  <2>2. /\ UNCHANGED <<capsuleIdNext, vid>>
        /\ \A q \in PhysicalCores \ {p} : cid'[q] = cid[q]
        /\ \E label \in Labels \ Creating : pc' = [pc EXCEPT ![p] = label]
    BY ZenonT(60), <1>8
    DEF PhysicalCoreInit, SetupHardware, SetupFails, SetInitDone, WaitForInit, StartTimer,
        TimerInterrupt,
        UnhandledException, FatalException, DestroyCapsule, Schedule, AdoptOrphan, TakeWaiting,
        NothingWaiting, ManagementCore, SwitchOut, SwitchIn, Housekeeping, TypeOK, Labels,
             Creating
  <2>3. \A q \in PhysicalCores : pc'[q] \in Creating => q # p /\ pc'[q] = pc[q]
    BY <2>2 DEF TypeOK
  <2>4. QED BY <2>1, <2>2, <2>3, FreshKept
<1>9. CASE Halted \/ UNCHANGED vars
  <2>1. UNCHANGED <<globalQueues, queues, vcores, next, capsuleIdNext, pc, cid, vid>>
    BY <1>9 DEF Halted, vars
  <2>2. Known' = Known
    BY <2>1, PlacesUnchanged DEF placeVars
  <2>3. QED BY <2>1, <2>2, FreshKept
<1>10. QED
  BY <1>4, <1>5, <1>6, <1>7, <1>8, <1>9 DEF Next, Boot, Create

\* Each step keeps every virtual core in one place.
LEMMA PlaceNext == PlaceInv /\ [Next]_vars => PlaceInv'
<1> SUFFICES ASSUME PlaceInv, [Next]_vars PROVE PlaceInv'
  OBVIOUS
<1> USE DEF PlaceInv
<1>1. TypeInv' /\ InitInv'
  BY TypeNext, InitInvNext
<1>2. FreshInv'
  BY <1>1, FreshNext
<1>3. OnePlace'
  <2>1. ASSUME NEW p \in PhysicalCores, QueueVirtualCore(p) PROVE NewVcore(p) \notin Known
    <3>1. pc[p] = "queue" /\ pc[p] \in Creating
      BY <2>1 DEF QueueVirtualCore, Creating
    <3>2. \A v \in Known : v.capsuleid = cid[p] => v.vcoreid < vid[p]
      BY <3>1 DEF FreshInv
    <3>3. NewVcore(p).capsuleid = cid[p] /\ NewVcore(p).vcoreid = vid[p] /\ vid[p] \in Int
      BY SizesAssumption DEF NewVcore, TypeInv, TypeOK, VirtualCoreIDs
    <3>4. QED BY <3>2, <3>3
  <2>2. QED BY <1>1, <2>1, PlaceStep
<1>4. QED BY <1>1, <1>2, <1>3

\* A virtual core is in exactly one place, whatever the cores do.
THEOREM VirtualCoresInOnePlace == Spec => []OnePlace
<1>1. Init => PlaceInv
  BY PlaceInit
<1>2. PlaceInv /\ [Next]_vars => PlaceInv'
  BY PlaceNext
<1>3. PlaceInv => OnePlace
  BY DEF PlaceInv
<1>4. QED BY <1>1, <1>2, <1>3, PTL DEF Spec

\* No step loses a virtual core.
THEOREM NoVirtualCoreLost == Spec => NoneLost
<1>1. Init => PlaceInv
  BY PlaceInit
<1>2. PlaceInv /\ [Next]_vars => PlaceInv'
  BY PlaceNext
<1>3. PlaceInv /\ [Next]_vars => [Known \subseteq Known']_vars
  <2> SUFFICES ASSUME PlaceInv, [Next]_vars PROVE Known \subseteq Known'
    OBVIOUS
  <2>1. TypeInv'
    BY TypeNext DEF PlaceInv
  <2>2. QED BY <2>1, PlaceStep DEF PlaceInv
<1>4. QED BY <1>1, <1>2, <1>3, PTL DEF Spec, NoneLost

-----------------------------------------------------------------------------
(* What the cores hold, and what WORKLOAD and PCORES say of it. *)

\* The virtual cores that wait for core p or run on it.
Placed(p) == Queued(queues[p]) \cup Some(vcores[p])

\* A core holds one more virtual core when it takes one off the global queues,
\* and runs another when it switches it in; no other step changes what is held
\* or what WORKLOAD and PCORES say.
LEMMA HeldStep ==
  ASSUME TypeInv, TypeInv', InitInv, OnePlace, [Next]_vars
  PROVE  \/ /\ UNCHANGED <<workload, pcores>>
            /\ \A q \in PhysicalCores : Held(q)' = Held(q) /\ Placed(q)' \subseteq Placed(q)
         \/ /\ UNCHANGED pcores
            /\ \E p \in PhysicalCores, v \in VirtualCores :
                 /\ v \notin Held(p) /\ Held(p)' = Held(p) \cup {v}
                 /\ workload' = Counted(p)
                 /\ \A q \in PhysicalCores \ {p} : Held(q)' = Held(q)
                 /\ \A q \in PhysicalCores : Placed(q)' = Placed(q)
         \/ /\ UNCHANGED workload
            /\ \A q \in PhysicalCores : Held(q)' = Held(q)
            /\ \E p \in PhysicalCores :
                 /\ next[p] \in VirtualCores /\ next[p] \in Held(p)
                 /\ pcores' = Linked(p)
                 /\ Placed(p)' = Placed(p) \cup {next[p]}
                 /\ \A q \in PhysicalCores \ {p} : Placed(q)' = Placed(q)
<1> DEFINE Same == /\ UNCHANGED <<workload, pcores>>
                   /\ \A q \in PhysicalCores : Held(q)' = Held(q) /\ Placed(q)' \subseteq Placed(q)
<1> USE DEF TypeInv
<1>0. ASSUME UNCHANGED <<queues, vcores, next>>, UNCHANGED <<workload, pcores>> PROVE Same
  BY <1>0 DEF Held, Placed
<1>1. ASSUME NEW p \in PhysicalCores, PhysicalCoreInit(p) PROVE Same
  <2>1. UNCHANGED <<queues, vcores, next>> /\ UNCHANGED <<workload, pcores>>
    BY <1>1 DEF PhysicalCoreInit, InitInv, TypeOK, globalVars
  <2>2. QED BY <1>0, <2>1
<1>2. ASSUME NEW p \in PhysicalCores, TakeWaiting(p) PROVE Same
  <2> DEFINE v == Dequeued(queues[p])
  <2>1. /\ v \in VirtualCores /\ v \in Queued(queues[p])
        /\ Queued(AfterDequeue(queues[p])) = Queued(queues[p]) \ {v}
    BY <1>2, DequeueProperties DEF TakeWaiting, TypeOK, OnePlace
  <2>2. /\ next[p] = None /\ next'[p] = v
        /\ queues'[p] = AfterDequeue(queues[p])
        /\ UNCHANGED <<vcores, workload, pcores>>
        /\ \A q \in PhysicalCores \ {p} : next'[q] = next[q] /\ queues'[q] = queues[q]
    BY ZenonT(60), <1>2 DEF TakeWaiting, MaySchedule, TypeOK, ControlInv, Switching
  <2>3. Held(p)' = Held(p) /\ Placed(p)' \subseteq Placed(p)
    <3>1. Some(next[p]) = {} /\ Some(next'[p]) = {v} /\ vcores'[p] = vcores[p]
      BY ZenonT(60), <2>1, <2>2, NoneAssumption DEF Some
    <3>2. QED BY ZenonT(60), <2>1, <2>2, <3>1 DEF Held, Placed
  <2>4. \A q \in PhysicalCores \ {p} : Held(q)' = Held(q) /\ Placed(q)' = Placed(q)
    BY <2>2, HeldByOthers DEF Placed, Some
  <2>5. ASSUME NEW q \in PhysicalCores PROVE Held(q)' = Held(q) /\ Placed(q)' \subseteq Placed(q)
    <3>1. CASE q = p
      BY ZenonT(60), <2>3, <3>1
    <3>2. CASE q # p
      <4>1. q \in PhysicalCores \ {p}
        BY <3>2
      <4>2. Held(q)' = Held(q) /\ Placed(q)' = Placed(q)
        BY ZenonT(60), <2>4, <4>1
      <4>3. QED BY ZenonT(60), <4>2
    <3>3. QED BY ZenonT(60), <3>1, <3>2
  <2>6. UNCHANGED <<workload, pcores>>
    BY <2>2
  <2>7. QED BY ZenonT(60), <2>5, <2>6
<1>3. ASSUME NEW p \in PhysicalCores, SwitchOut(p) PROVE Same
  <2>1. /\ UNCHANGED <<next, workload, pcores>>
        /\ vcores'[p] = None
        /\ queues' = Requeued(p)
        /\ \A q \in PhysicalCores \ {p} : vcores'[q] = vcores[q] /\ queues'[q] = queues[q]
    BY <1>3 DEF SwitchOut, Requeued, TypeOK, globalVars
  <2>2. Queued(queues'[p]) = Queued(queues[p]) \cup Some(vcores[p])
    <3>1. CASE vcores[p] = None
      BY <2>1, <3>1 DEF Requeued, Some
    <3>2. CASE vcores[p] # None
      <4>1. queues'[p] = Enqueue(queues[p], vcores[p]) /\ vcores[p] \in VirtualCores
        BY <2>1, <3>2 DEF Requeued, TypeOK
      <4>2. queues[p] \in QueuesType(VirtualCores)
        BY DEF TypeOK
      <4>3. QED BY <3>2, <4>1, <4>2, EnqueueProperties DEF Some
    <3>3. QED BY ZenonT(60), <3>1, <3>2
  <2>3. Held(p)' = Held(p) /\ Placed(p)' \subseteq Placed(p)
    <3>1. Some(vcores'[p]) = {} /\ next'[p] = next[p]
      BY ZenonT(60), <2>1 DEF Some
    <3>2. QED BY ZenonT(60), <2>2, <3>1 DEF Held, Placed
  <2>4. \A q \in PhysicalCores \ {p} : Held(q)' = Held(q) /\ Placed(q)' = Placed(q)
    <3> TAKE q \in PhysicalCores \ {p}
    <3>1. vcores'[q] = vcores[q] /\ next'[q] = next[q] /\ queues'[q] = queues[q]
      BY <2>1
    <3>2. QED BY ZenonT(60), <3>1 DEF Held, Placed
  <2>5. ASSUME NEW q \in PhysicalCores PROVE Held(q)' = Held(q) /\ Placed(q)' \subseteq Placed(q)
    <3>1. CASE q = p
      BY ZenonT(60), <2>3, <3>1
    <3>2. CASE q # p
      <4>1. q \in PhysicalCores \ {p}
        BY <3>2
      <4>2. Held(q)' = Held(q) /\ Placed(q)' = Placed(q)
        BY ZenonT(60), <2>4, <4>1
      <4>3. QED BY ZenonT(60), <4>2
    <3>3. QED BY ZenonT(60), <3>1, <3>2
  <2>6. UNCHANGED <<workload, pcores>>
    BY <2>1
  <2>7. QED BY ZenonT(60), <2>5, <2>6
<1>4. ASSUME NEW p \in PhysicalCores, AdoptOrphan(p)
      PROVE  /\ UNCHANGED pcores
             /\ \E v \in VirtualCores :
                  /\ v \notin Held(p) /\ Held(p)' = Held(p) \cup {v}
                  /\ workload' = Counted(p)
                  /\ \A q \in PhysicalCores \ {p} : Held(q)' = Held(q)
                  /\ \A q \in PhysicalCores : Placed(q)' = Placed(q)
  <2> DEFINE v == Dequeued(globalQueues)
  <2>1. v \in VirtualCores /\ v \in Queued(globalQueues)
    BY ZenonT(60), <1>4, DequeueProperties DEF AdoptOrphan, OrphanWaits, TypeOK, OnePlace
  <2>2. /\ next[p] = None /\ next'[p] = v
        /\ UNCHANGED <<queues, vcores, pcores>> /\ workload' = Counted(p)
        /\ \A q \in PhysicalCores \ {p} : next'[q] = next[q]
    BY ZenonT(60), <1>4 DEF AdoptOrphan, MaySchedule, TypeOK, ControlInv, Switching, coreVars
  <2>3. v \notin Held(p)
    BY ZenonT(60), <2>1 DEF OnePlace
  <2>4. Held(p)' = Held(p) \cup {v}
    <3>1. Some(next[p]) = {} /\ Some(next'[p]) = {v} /\ vcores'[p] = vcores[p] /\ queues'[p] = queues[p]
      BY <2>1, <2>2, NoneAssumption DEF Some
    <3>2. QED BY <3>1 DEF Held
  <2>5. \A q \in PhysicalCores \ {p} : Held(q)' = Held(q)
    BY <2>2, HeldByOthers
  <2>6. \A q \in PhysicalCores : Placed(q)' = Placed(q)
    BY <2>2 DEF Placed, Some
  <2>7. UNCHANGED pcores /\ workload' = Counted(p)
    BY <2>2
  <2> HIDE DEF v
  <2>8. QED BY ZenonT(60), <2>1, <2>3, <2>4, <2>5, <2>6, <2>7
<1>5. ASSUME NEW p \in PhysicalCores, SwitchIn(p)
      PROVE  /\ UNCHANGED workload
             /\ \A q \in PhysicalCores : Held(q)' = Held(q)
             /\ next[p] \in VirtualCores /\ next[p] \in Held(p)
             /\ pcores' = Linked(p)
             /\ Placed(p)' = Placed(p) \cup {next[p]}
             /\ \A q \in PhysicalCores \ {p} : Placed(q)' = Placed(q)
  <2>1. /\ UNCHANGED <<queues, workload>> /\ pcores' = Linked(p)
        /\ vcores[p] = None /\ next'[p] = None /\ vcores'[p] = next[p]
        /\ next[p] \in VirtualCores
        /\ \A q \in PhysicalCores \ {p} : vcores'[q] = vcores[q] /\ next'[q] = next[q]
    BY <1>5 DEF SwitchIn, TypeOK, ControlInv, Switching
  <2>2. /\ Held(p)' = Held(p) /\ next[p] \in Held(p)
        /\ Placed(p)' = Placed(p) \cup {next[p]}
    <3>1. next[p] # None
      BY ZenonT(60), <2>1, NoneAssumption
    <3>2. /\ Some(next[p]) = {next[p]} /\ Some(vcores[p]) = {}
          /\ Some(next'[p]) = {} /\ Some(vcores'[p]) = {next[p]}
      BY ZenonT(60), <2>1, <3>1 DEF Some
    <3>3. queues'[p] = queues[p]
      BY <2>1
    <3>4. QED BY ZenonT(60), <3>2, <3>3 DEF Held, Placed
  <2>3. \A q \in PhysicalCores \ {p} : Held(q)' = Held(q) /\ Placed(q)' = Placed(q)
    <3> TAKE q \in PhysicalCores \ {p}
    <3>1. vcores'[q] = vcores[q] /\ next'[q] = next[q] /\ queues'[q] = queues[q]
      BY <2>1
    <3>2. QED BY <3>1 DEF Held, Placed
  <2>4. ASSUME NEW q \in PhysicalCores PROVE Held(q)' = Held(q)
    <3>1. CASE q = p
      BY ZenonT(60), <2>2, <3>1
    <3>2. CASE q # p
      <4>1. q \in PhysicalCores \ {p}
        BY <3>2
      <4>2. QED BY ZenonT(60), <2>3, <4>1
    <3>3. QED BY ZenonT(60), <3>1, <3>2
  <2>5. UNCHANGED workload /\ pcores' = Linked(p) /\ next[p] \in VirtualCores
    BY <2>1
  <2>6. QED BY ZenonT(60), <2>2, <2>3, <2>4, <2>5
<1>6. ASSUME NEW p \in PhysicalCores,
             \/ SetupHardware(p) \/ SetupFails(p) \/ SetInitDone(p) \/ WaitForInit(p)
             \/ StartTimer(p) \/ CreateCapsule(p) \/ AllocRegion(p) \/ MapMemory(p)
             \/ LoadSupervisor(p) \/ QueueVirtualCore(p) \/ AddVirtualCore(p)
             \/ TimerInterrupt(p) \/ UnhandledException(p) \/ FatalException(p)
             \/ DestroyCapsule(p) \/ NothingWaiting(p) \/ ManagementCore(p) \/ Housekeeping(p)
      PROVE  Same
  <2>1. UNCHANGED <<queues, vcores, next>> /\ UNCHANGED <<workload, pcores>>
    BY <1>6
    DEF SetupHardware, SetupFails, SetInitDone, WaitForInit, StartTimer, CreateCapsule,
        AllocRegion, MapMemory, LoadSupervisor, QueueVirtualCore, AddVirtualCore, TimerInterrupt,
        UnhandledException, FatalException, DestroyCapsule, NothingWaiting, ManagementCore,
        Housekeeping, globalVars, coreVars
  <2>2. QED BY <1>0, <2>1
<1>7. ASSUME Halted \/ UNCHANGED vars PROVE Same
  <2>1. UNCHANGED <<queues, vcores, next>> /\ UNCHANGED <<workload, pcores>>
    BY <1>7 DEF Halted, vars, globalVars, coreVars
  <2>2. QED BY <1>0, <2>1
<1> HIDE DEF Same
<1>8. \/ Same
      \/ \E p \in PhysicalCores : AdoptOrphan(p) \/ SwitchIn(p)
  BY ZenonT(60), <1>1, <1>2, <1>3, <1>6, <1>7 DEF Next, Boot, Create, Schedule
<1>9. QED BY ZenonT(60), <1>4, <1>5, <1>8 DEF Same

\* Initially no core holds anything, and no virtual core has run.
LEMMA NothingHeld ==
  Init => LastCoreHint /\ \A p \in PhysicalCores : Held(p) = {} /\ workload[p] = 0
<1> SUFFICES ASSUME Init
             PROVE  LastCoreHint /\ \A p \in PhysicalCores : Held(p) = {} /\ workload[p] = 0
  OBVIOUS
<1>1. \A p \in PhysicalCores : Held(p) = {} /\ Placed(p) = {}
  BY EmptyQueuesProperties DEF Init, Held, Placed, Some
<1>2. \A p \in PhysicalCores : workload[p] = 0 /\ p # None
  BY NoneAssumption DEF Init
<1>3. \A v \in VirtualCores : pcores[v] = None
  BY DEF Init
<1>4. LastCoreHint
  BY <1>1, <1>2, <1>3 DEF LastCoreHint, Placed
<1>5. QED BY <1>1, <1>2, <1>4

\* PCORES follows what the cores run.
LEMMA HintNext ==
  ASSUME PlaceInv, LastCoreHint, [Next]_vars
  PROVE  LastCoreHint'
<1>0. TypeInv /\ TypeInv' /\ InitInv /\ OnePlace
  BY TypeNext DEF PlaceInv
<1>1. \A p \in PhysicalCores :
        /\ \A v \in VirtualCores : pcores[v] = p => v \in Held(p)
        /\ \A v \in Placed(p) : pcores[v] = p
  BY DEF LastCoreHint, Placed
<1>2. ASSUME pcores' = pcores, \A q \in PhysicalCores : Held(q) \subseteq Held(q)',
             \A q \in PhysicalCores : Placed(q)' \subseteq Placed(q)
      PROVE  LastCoreHint'
  BY ZenonT(60), <1>1, <1>2 DEF LastCoreHint, Placed
<1>3. ASSUME NEW p \in PhysicalCores, next[p] \in VirtualCores, next[p] \in Held(p),
             pcores' = Linked(p), \A q \in PhysicalCores : Held(q)' = Held(q),
             Placed(p)' = Placed(p) \cup {next[p]},
             \A q \in PhysicalCores \ {p} : Placed(q)' = Placed(q)
      PROVE  LastCoreHint'
  <2>1. pcores'[next[p]] = p /\ \A v \in VirtualCores \ {next[p]} : pcores'[v] = pcores[v]
    BY ZenonT(60), <1>0, <1>3 DEF Linked, TypeInv, TypeOK
  <2>2. ASSUME NEW q \in PhysicalCores
        PROVE  Placed(q) \subseteq Held(q) /\ Placed(q) \subseteq VirtualCores
    <3>1. queues[q] \in QueuesType(VirtualCores) /\ vcores[q] \in VirtualCores \cup {None}
      BY <1>0 DEF TypeInv, TypeOK
    <3>2. Queued(queues[q]) \subseteq VirtualCores
      BY <3>1, QueuedType
    <3>3. QED BY ZenonT(60), <3>1, <3>2 DEF Placed, Held, Some
  <2>3. \A q \in PhysicalCores \ {p} : next[p] \notin Held(q)
    BY ZenonT(60), <1>0, <1>3 DEF OnePlace
  <2>4. \A q \in PhysicalCores : \A v \in VirtualCores : pcores'[v] = q => v \in Held(q)'
    BY <1>1, <1>3, <2>1
  <2>5. \A q \in PhysicalCores : \A v \in Placed(q)' : pcores'[v] = q
    BY <1>1, <1>3, <2>1, <2>2, <2>3
  <2>6. QED BY <2>4, <2>5 DEF LastCoreHint, Placed
<1>4. QED BY ZenonT(60), <1>0, <1>2, <1>3, HeldStep

\* PCORES names the core whose queues a virtual core is in or that runs it.
THEOREM LastCoreKnown == Spec => []LastCoreHint
<1>1. Init => PlaceInv /\ LastCoreHint
  BY PlaceInit, NothingHeld
<1>2. PlaceInv /\ LastCoreHint /\ [Next]_vars => PlaceInv' /\ LastCoreHint'
  BY PlaceNext, HintNext
<1>3. QED BY <1>1, <1>2, PTL DEF Spec
=============================================================================
