----------------------------- MODULE LockOrder ------------------------------
(***************************************************************************)
(* What the hypervisor's spin locks rely on, without any of its code: the  *)
(* locks have ranks, and a core asks only for a lock of a higher rank than *)
(* every lock it holds.  Module Locks shows that the handlers keep to this *)
(* discipline; module LockOrderProofs proves what it gives: no set of      *)
(* cores, however many, all wait for each other.                           *)
(***************************************************************************)
EXTENDS Naturals, FiniteSets

CONSTANTS
  Cores,
  Locks,
  Rank,      \* the rank of each lock
  None

VARIABLES
  holder,    \* the core that holds each lock, or None
  wants      \* the lock each core is spinning for, or None

vars == <<holder, wants>>

HeldBy(p) == {L \in Locks : holder[L] = p}

Init ==
  /\ holder = [L \in Locks |-> None]
  /\ wants \in [Cores -> Locks \cup {None}]

\* A core goes on unless the lock it wants is held.  It may take that lock,
\* give up locks it holds, and then want another lock, above all it holds.
Proceed(p) ==
  /\ wants[p] # None => holder[wants[p]] = None
  /\ holder' \in [Locks -> Cores \cup {None}]
  /\ \A L \in Locks :
       \/ holder'[L] = holder[L]
       \/ L = wants[p] /\ holder'[L] = p
       \/ holder[L] = p /\ holder'[L] = None
  /\ \E w \in Locks \cup {None} :
       /\ wants' = [wants EXCEPT ![p] = w]
       /\ w # None => \A L \in Locks : holder'[L] = p => Rank[L] < Rank[w]

Next == \E p \in Cores : Proceed(p)

Spec == Init /\ [][Next]_vars

-----------------------------------------------------------------------------
TypeOK ==
  /\ holder \in [Locks -> Cores \cup {None}]
  /\ wants \in [Cores -> Locks \cup {None}]

\* Every core waits for a lock above the ones it holds.
Ascending ==
  \A p \in Cores, L \in Locks :
    wants[p] # None /\ holder[L] = p => Rank[L] < Rank[wants[p]]

\* There is no set of cores in which each one waits for a lock that a member
\* of the set holds: some core that holds a wanted lock can always go on.
NoCircularWait ==
  \A S \in SUBSET Cores :
    S # {} => ~ \A p \in S : wants[p] # None /\ holder[wants[p]] \in S

=============================================================================
