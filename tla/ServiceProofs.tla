---------------------------- MODULE ServiceProofs ---------------------------
(***************************************************************************)
(* Services stay with capsules that may offer them, for any number of      *)
(* cores, capsules, services and messages.                                 *)
(*                                                                         *)
(* OwnerAllowed alone is not inductive: a registration that is between the *)
(* check and the insertion must still be allowed if its capsule lives      *)
(* (PendingAllowed), and a new capsule, which may offer nothing, must not  *)
(* get an ID that a service or a registration names (IDsUsed).             *)
(***************************************************************************)
EXTENDS Service, SequenceTheorems, TLAPS

\* The provers a leaf that names none is tried with, in this order.
USE SMTT(20), ZenonT(60), Z3T(60), SMTT(40)

PendingAllowed ==
  \A p \in PhysicalCores :
    registering[p] # None => LET s == registering[p][1]
                                 c == registering[p][2]
                             IN  c <= capsuleIdNext /\ (Live(c) => s \in capsules[c])

IDsUsed ==
  /\ \A c \in CapsuleIDs : Live(c) => c <= capsuleIdNext
  /\ \A s \in ServiceIDs : Registered(s) => services[s].capsuleid <= capsuleIdNext

ServiceInv == TypeOK /\ OwnerAllowed /\ PendingAllowed /\ IDsUsed

-----------------------------------------------------------------------------
(* At the start there is no capsule and no service.                        *)
LEMMA ServiceInit == Init => ServiceInv
BY BoundsAssumption, NoneAssumption
DEF Init, ServiceInv, TypeOK, OwnerAllowed, PendingAllowed, IDsUsed, Live, Registered, CapsuleIDs

(* SERVICES with an entry added or removed is well-typed.                  *)
LEMMA ServicesUpdate ==
  ASSUME TypeOK, NEW s \in ServiceIDs
  PROVE  /\ Removed(s) \in [ServiceIDs -> Service \cup {None}]
         /\ \A c \in CapsuleIDs : Entered(s, c) \in [ServiceIDs -> Service \cup {None}]
         /\ \A m \in Messages : Registered(s) =>
              [services EXCEPT ![s].msgs = <<m>> \o @] \in [ServiceIDs -> Service \cup {None}]
<1>1. Removed(s) \in [ServiceIDs -> Service \cup {None}]
  BY DEF Removed, TypeOK
<1>2. ASSUME NEW c \in CapsuleIDs PROVE Entered(s, c) \in [ServiceIDs -> Service \cup {None}]
  BY DEF Entered, TypeOK, Service
<1>3. ASSUME NEW m \in Messages, Registered(s)
      PROVE  [services EXCEPT ![s].msgs = <<m>> \o @] \in [ServiceIDs -> Service \cup {None}]
  <2>1. services[s] \in Service /\ services[s].msgs \in Seq(Messages)
    BY <1>3 DEF Registered, TypeOK, Service
  <2>2. <<m>> \o services[s].msgs \in Seq(Messages)
    BY <2>1, ConcatProperties
  <2>3. [services[s] EXCEPT !.msgs = <<m>> \o @] \in Service
    BY ZenonT(60), <2>1, <2>2 DEF Service
  <2>4. QED BY <2>3 DEF TypeOK
<1>4. QED BY <1>1, <1>2, <1>3

(* Every step keeps the invariant.                                         *)
LEMMA ServiceNext ==
  ASSUME ServiceInv, [Next]_vars
  PROVE  ServiceInv'
<1> USE DEF ServiceInv, dropVars
<1>1. ASSUME NEW p \in PhysicalCores, Create(p) PROVE ServiceInv'
  <2>1. capsuleIdNext + 1 \in CapsuleIDs /\ capsules[capsuleIdNext + 1] = None
    BY <1>1, BoundsAssumption DEF Create, TypeOK, CapsuleIDs, IDsUsed, Live
  <2>2. TypeOK'
    BY <1>1, <2>1, BoundsAssumption DEF Create, TypeOK, CapsuleIDs
  <2>3. OwnerAllowed'
    BY <1>1, <2>1, BoundsAssumption, NoneAssumption
    DEF Create, TypeOK, OwnerAllowed, IDsUsed, Live, Registered, CapsuleIDs, Service
  <2>4. PendingAllowed'
    BY <1>1, <2>1, BoundsAssumption, NoneAssumption
    DEF Create, TypeOK, PendingAllowed, Live, CapsuleIDs
  <2>5. IDsUsed'
    BY <1>1, <2>1, BoundsAssumption DEF Create, TypeOK, IDsUsed, Live, Registered, CapsuleIDs,
       Service
  <2>6. QED BY <2>2, <2>3, <2>4, <2>5
<1>2. ASSUME NEW p \in PhysicalCores, RegisterInsert(p) PROVE ServiceInv'
  <2> DEFINE s == registering[p][1]
             c == registering[p][2]
  <2>1. s \in ServiceIDs /\ c \in CapsuleIDs /\ c <= capsuleIdNext /\ (Live(c) => s \in capsules[c])
    BY <1>2 DEF RegisterInsert, TypeOK, PendingAllowed
  <2>2. services' = Entered(s, c)
    BY <1>2 DEF RegisterInsert
  <2>3. UNCHANGED <<capsules, capsuleIdNext, dropVars>>
    BY <1>2 DEF RegisterInsert
  <2>4. \A t \in ServiceIDs : services'[t] = services[t] \/ (t = s /\ services'[t].capsuleid = c)
    BY <2>1, <2>2 DEF Entered, TypeOK
  <2>5. \A q \in PhysicalCores : registering'[q] \in {registering[q], None}
    BY <1>2 DEF RegisterInsert, TypeOK
  <2>6. TypeOK'
    BY <1>2, <2>1, <2>2, <2>3, ServicesUpdate DEF RegisterInsert, TypeOK
  <2> HIDE DEF s, c
  <2>7. OwnerAllowed'
    BY <2>1, <2>3, <2>4 DEF OwnerAllowed, Registered, Live
  <2>8. PendingAllowed'
    BY <2>3, <2>5 DEF PendingAllowed, Live
  <2>9. IDsUsed'
    BY <2>1, <2>3, <2>4 DEF IDsUsed, Registered, Live
  <2>10. QED BY <2>6, <2>7, <2>8, <2>9
<1>3. ASSUME NEW p \in PhysicalCores, DropEnd(p) PROVE ServiceInv'
  BY <1>3, BoundsAssumption
  DEF DropEnd, DropDone, TypeOK, OwnerAllowed, PendingAllowed, IDsUsed, Live, Registered
<1>4. ASSUME NEW p \in PhysicalCores, NEW c \in CapsuleIDs, Destroy(p, c) PROVE ServiceInv'
  <2>1. CASE Live(c)
    <3>1. /\ capsules' = [capsules EXCEPT ![c] = None]
          /\ dropping' = p /\ victim' = c /\ remaining' = capsules[c]
          /\ UNCHANGED <<capsuleIdNext, services, registering>>
      BY <1>4, <2>1 DEF Destroy
    <3>2. TypeOK'
      BY <2>1, <3>1, BoundsAssumption, NoneAssumption DEF TypeOK, Live, CapsuleIDs
    <3>3. \A d \in CapsuleIDs : capsules'[d] = IF d = c THEN None ELSE capsules[d]
      BY <3>1 DEF TypeOK
    <3>4. OwnerAllowed'
      BY <3>1, <3>3 DEF TypeOK, OwnerAllowed, Live, Registered, Service
    <3>5. PendingAllowed'
      BY <3>1, <3>3 DEF TypeOK, PendingAllowed, Live
    <3>6. IDsUsed'
      BY <3>1, <3>3 DEF IDsUsed, Live, Registered
    <3>7. QED BY <3>2, <3>4, <3>5, <3>6
  <2>2. CASE ~Live(c)
    BY <1>4, <2>2 DEF Destroy, TypeOK, OwnerAllowed, PendingAllowed, IDsUsed, Live, Registered
  <2>3. QED BY <2>1, <2>2
<1>5. ASSUME NEW p \in PhysicalCores, NEW s \in ServiceIDs, Deregister(p, s) \/ DropService(p, s)
      PROVE  ServiceInv'
  <2>1. /\ UNCHANGED <<capsules, capsuleIdNext, registering, dropping, victim>>
        /\ services' = Removed(s)
        /\ remaining' \subseteq remaining
    BY <1>5 DEF Deregister, DropService
  <2>2. TypeOK'
    BY <2>1, ServicesUpdate DEF TypeOK
  <2>3. \A t \in ServiceIDs : services'[t] \in {services[t], None}
    BY <2>1 DEF Removed, TypeOK
  <2>4. QED
    BY <2>1, <2>2, <2>3 DEF OwnerAllowed, PendingAllowed, IDsUsed, Live, Registered
<1>6. ASSUME NEW p \in PhysicalCores, NEW s \in ServiceIDs, NEW m \in Messages, Send(p, s, m)
      PROVE  ServiceInv'
  <2>1. UNCHANGED <<capsules, capsuleIdNext, registering, dropVars>>
    BY <1>6 DEF Send
  <2>2. TypeOK'
    BY ZenonT(60), <1>6, <2>1, ServicesUpdate DEF Send, TypeOK
  <2>3. \A t \in ServiceIDs : /\ Registered(t)' <=> Registered(t)
                              /\ Registered(t) => services'[t].capsuleid = services[t].capsuleid
    <3>1. CASE Registered(s)
      <4>1. services[s] \in Service
        BY <3>1 DEF Registered, TypeOK
      <4>2. services' = [services EXCEPT ![s] = [services[s] EXCEPT !.msgs = <<m>> \o @]]
        BY <1>6, <3>1 DEF Send
      <4>3. services'[s] \in Service
        <5>1. services[s].msgs \in Seq(Messages)
          BY <4>1 DEF Service
        <5>2. <<m>> \o services[s].msgs \in Seq(Messages)
          BY <5>1, ConcatProperties
        <5>3. [services[s] EXCEPT !.msgs = <<m>> \o @] \in Service
          BY ZenonT(60), <4>1, <5>2 DEF Service
        <5>4. QED BY <4>2, <5>3 DEF TypeOK
      <4>4. services'[s].capsuleid = services[s].capsuleid
        BY <4>1, <4>2 DEF TypeOK, Service
      <4>5. \A t \in ServiceIDs \ {s} : services'[t] = services[t]
        BY <4>2 DEF TypeOK
      <4>6. services'[s] # None
        BY <4>3, NoneAssumption
      <4>7. QED BY <3>1, <4>4, <4>5, <4>6 DEF Registered
    <3>2. CASE ~Registered(s)
      BY <1>6, <3>2 DEF Send, Registered
    <3>3. QED BY <3>1, <3>2
  <2>4. QED
    BY <2>1, <2>2, <2>3 DEF OwnerAllowed, PendingAllowed, IDsUsed, Live
<1>7. ASSUME NEW p \in PhysicalCores, NEW s \in ServiceIDs, NEW c \in CapsuleIDs,
             AllowService(p, c, s)
      PROVE  ServiceInv'
  <2>1. UNCHANGED <<capsuleIdNext, services, registering, dropVars>>
    BY <1>7 DEF AllowService
  <2>2. TypeOK'
    BY <1>7 DEF AllowService, TypeOK, Live
  <2>3. \A d \in CapsuleIDs : /\ Live(d)' <=> Live(d)
                              /\ Live(d) => capsules[d] \subseteq capsules'[d]
    BY <1>7, NoneAssumption DEF AllowService, TypeOK, Live
  <2>4. QED
    BY <2>1, <2>2, <2>3 DEF TypeOK, OwnerAllowed, PendingAllowed, IDsUsed, Registered, Service
<1>8. ASSUME NEW p \in PhysicalCores, NEW s \in ServiceIDs, NEW c \in CapsuleIDs,
             RegisterCheck(p, s, c)
      PROVE  ServiceInv'
  <2>1. UNCHANGED <<capsules, capsuleIdNext, services, dropVars>>
    BY <1>8 DEF RegisterCheck
  <2>2. TypeOK'
    BY <1>8 DEF RegisterCheck, TypeOK
  <2>3. PendingAllowed'
    BY <1>8 DEF RegisterCheck, ServiceAllowed, PendingAllowed, TypeOK, IDsUsed, Live
  <2>4. QED
    BY <2>1, <2>2, <2>3 DEF OwnerAllowed, IDsUsed, Live, Registered
<1>9. CASE UNCHANGED vars
  BY <1>9 DEF vars, TypeOK, OwnerAllowed, PendingAllowed, IDsUsed, Live, Registered
<1>10. QED
  BY <1>1, <1>2, <1>3, <1>4, <1>5, <1>6, <1>7, <1>8, <1>9 DEF Next

-----------------------------------------------------------------------------
LEMMA ServiceAlways == Spec => []ServiceInv
<1>1. Init => ServiceInv
  BY ServiceInit
<1>2. ServiceInv /\ [Next]_vars => ServiceInv'
  BY ServiceNext
<1>3. QED BY <1>1, <1>2, PTL DEF Spec

\* Every variable keeps its type: SERVICES and CAPSULES stay well-formed in every
\* interleaving of the critical sections of register, destroy and drop.
THEOREM ServiceTypes == Spec => []TypeOK
<1>1. ServiceInv => TypeOK
  BY DEF ServiceInv
<1>2. QED BY <1>1, ServiceAlways, PTL

\* register, allow_service, destroy and Capsule::drop keep, in every
\* interleaving of their critical sections, each service with a capsule that
\* may offer it.
THEOREM ServicesAllowed == Spec => []OwnerAllowed
<1>1. ServiceInv => OwnerAllowed
  BY DEF ServiceInv
<1>2. QED BY <1>1, ServiceAlways, PTL

-----------------------------------------------------------------------------
(* A sequence is a suffix of itself, and of itself with an element in front. *)
LEMMA SuffixProperties ==
  ASSUME NEW S, NEW q \in Seq(S), NEW e \in S
  PROVE  IsSuffix(q, q) /\ IsSuffix(q, <<e>> \o q)
<1> DEFINE t == <<e>> \o q
<1>1. Len(q) \in Nat /\ Len(t) = Len(q) + 1 /\ \A i \in 1 .. Len(q) : t[i + 1] = q[i]
  BY ConcatProperties
<1>2. Reverse(q) \in Seq(S) /\ Len(Reverse(q)) = Len(q)
  BY <1>1, LenProperties DEF Reverse
<1>3. t \in Seq(S) /\ Reverse(t) \in Seq(S) /\ Len(Reverse(t)) = Len(q) + 1
  <2>1. t \in Seq(S)
    BY ConcatProperties
  <2>2. QED BY <1>1, <2>1, LenProperties DEF Reverse
<1>4. \A i \in 1 .. Len(q) : Reverse(t)[i] = Reverse(q)[i]
  <2>1. SUFFICES ASSUME NEW i \in 1 .. Len(q) PROVE Reverse(t)[i] = Reverse(q)[i]
    OBVIOUS
  <2>2. Reverse(t)[i] = t[((Len(q) + 1) - i) + 1] /\ Reverse(q)[i] = q[(Len(q) - i) + 1]
    BY <1>1 DEF Reverse
  <2>3. ((Len(q) + 1) - i) + 1 = ((Len(q) - i) + 1) + 1 /\ (Len(q) - i) + 1 \in 1 .. Len(q)
    BY <1>1
  <2>4. QED BY <1>1, <2>2, <2>3
<1> HIDE DEF t
<1>5. SubSeq(Reverse(q), 1, Len(q)) = SubSeq(Reverse(t), 1, Len(q))
  BY <1>1, <1>2, <1>3, <1>4
<1>6. QED
  BY <1>1, <1>2, <1>3, <1>5 DEF IsSuffix, IsPrefix, t

(* No step hands a registered service to another capsule or drops its messages. *)
LEMMA NoTakeoverStep ==
  ASSUME TypeOK, [Next]_vars, NEW s \in ServiceIDs, Registered(s), services'[s] # None
  PROVE  /\ services'[s].capsuleid = services[s].capsuleid
         /\ IsSuffix(services[s].msgs, services'[s].msgs)
<1>0. services[s] \in Service /\ services[s].msgs \in Seq(Messages)
  BY DEF TypeOK, Registered, Service
<1>1. CASE \E p \in PhysicalCores, m \in Messages : Send(p, s, m)
  <2>1. PICK m \in Messages : services' = [services EXCEPT ![s].msgs = <<m>> \o @]
    BY ZenonT(60), <1>1 DEF Send
  <2>2. /\ services'[s].capsuleid = services[s].capsuleid
        /\ services'[s].msgs = <<m>> \o services[s].msgs
    BY <1>0, <2>1 DEF TypeOK, Service
  <2>3. QED BY <1>0, <2>2, SuffixProperties
<1>2. CASE services'[s] = services[s]
  <2>1. CASE services[s].msgs = <<>>
    BY <1>2, <2>1 DEF IsSuffix, IsPrefix, Reverse
  <2>2. CASE services[s].msgs # <<>>
    <3>1. services[s].msgs[1] \in Messages
      BY <1>0, <2>2
    <3>2. QED BY ZenonT(60), <1>0, <1>2, <3>1, SuffixProperties
  <2>3. QED BY <2>1, <2>2
<1>3. services'[s] = services[s] \/ \E p \in PhysicalCores, m \in Messages : Send(p, s, m)
  <2>1. ASSUME NEW p \in PhysicalCores, NEW t \in ServiceIDs, NEW m \in Messages,
               Send(p, t, m), t # s
        PROVE  services'[s] = services[s]
    BY <2>1 DEF Send, TypeOK
  <2>2. ASSUME NEW p \in PhysicalCores, NEW t \in ServiceIDs,
               Deregister(p, t) \/ DropService(p, t)
        PROVE  services'[s] = services[s]
    BY <2>2 DEF Deregister, DropService, Removed, TypeOK
  <2>3. ASSUME NEW p \in PhysicalCores, RegisterInsert(p) PROVE services'[s] = services[s]
    <3>1. registering[p][1] \in ServiceIDs
      BY <2>3 DEF RegisterInsert, TypeOK
    <3>2. QED BY <2>3, <3>1 DEF RegisterInsert, Entered, Registered, TypeOK
  <2>4. CASE UNCHANGED services
    BY <2>4
  <2>5. QED
    BY <2>1, <2>2, <2>3, <2>4
    DEF Next, vars, Create, DropEnd, Destroy, AllowService, RegisterCheck
<1>4. QED BY <1>1, <1>2, <1>3

\* register never overwrites the entry of a service, and send only adds to the
\* messages that wait for it: a service changes hands only when deregistered.
THEOREM ServicesKept == Spec => NoTakeover
<1>1. TypeOK /\ [Next]_vars =>
        [\A s \in ServiceIDs : Registered(s) /\ services'[s] # None =>
           /\ services'[s].capsuleid = services[s].capsuleid
           /\ IsSuffix(services[s].msgs, services'[s].msgs)]_vars
  BY NoTakeoverStep
<1>2. QED BY <1>1, ServiceTypes, PTL DEF Spec, NoTakeover
=============================================================================
