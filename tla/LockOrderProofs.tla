--------------------------- MODULE LockOrderProofs --------------------------
(***************************************************************************)
(* Locks taken in ascending rank never lead to a circular wait, for any    *)
(* set of cores, any finite number of ranks and any set of locks.          *)
(*                                                                         *)
(* TypeOK /\ Ascending is inductive: a core's step changes only the locks  *)
(* that the core holds or takes, and its own wish.  NoCircularWait follows *)
(* from it: in a set of cores that all wait for each other, the holder of  *)
(* a wanted lock of the highest rank would want one of a higher rank.      *)
(***************************************************************************)
EXTENDS LockOrder, WellFoundedInduction, TLAPS

\* The provers a leaf that names none is tried with, in this order.
USE SMTT(20), ZenonT(60), Z3T(60), SMTT(40)

\* The assumptions on the constants: ranks up to some bound.
RankBounded(top) ==
  /\ top \in Nat
  /\ Rank \in [Locks -> 0 .. top]
  /\ None \notin Cores \cup Locks

-----------------------------------------------------------------------------
(* A set of locks that is not empty has one of the highest rank.           *)
LEMMA HighestRank ==
  ASSUME NEW top, RankBounded(top), NEW T, T \subseteq Locks, T # {}
  PROVE  \E x \in T : \A y \in T : Rank[y] <= Rank[x]
<1> DEFINE D == {top - Rank[x] : x \in T}
<1>1. D \subseteq Nat /\ D # {}
  BY DEF RankBounded
<1>2. PICK d \in D : \A e \in D : ~ (<<e, d>> \in OpToRel(<, Nat))
  BY ZenonT(60), <1>1, NatLessThanWellFounded, WFMin
<1>3. PICK x \in T : d = top - Rank[x]
  BY ZenonT(60), <1>2
<1>4. ASSUME NEW y \in T PROVE Rank[y] <= Rank[x]
  <2>1. Rank[x] \in 0 .. top /\ Rank[y] \in 0 .. top /\ top \in Nat
    BY <1>4 DEF RankBounded
  <2>2. top - Rank[y] \in D /\ top - Rank[y] \in Nat /\ d \in Nat
    BY ZenonT(60), <1>1, <1>2, <1>4
  <2>3. ~ (top - Rank[y] < d)
    BY ZenonT(60), <1>2, <2>2 DEF OpToRel
  <2> QED
    BY <1>3, <2>1, <2>3
<1> QED
  BY <1>4

LEMMA InitAscending ==
  ASSUME NEW top, RankBounded(top), Init
  PROVE  TypeOK /\ Ascending
BY DEF Init, TypeOK, Ascending, RankBounded

LEMMA NextAscending ==
  ASSUME NEW top, RankBounded(top), TypeOK, Ascending, [Next]_vars
  PROVE  TypeOK' /\ Ascending'
<1>1. CASE UNCHANGED vars
  BY <1>1 DEF vars, TypeOK, Ascending
<1>2. ASSUME NEW p \in Cores, Proceed(p) PROVE TypeOK' /\ Ascending'
  <2>1. PICK w \in Locks \cup {None} :
          /\ wants' = [wants EXCEPT ![p] = w]
          /\ w # None => \A L \in Locks : holder'[L] = p => Rank[L] < Rank[w]
    BY ZenonT(60), <1>2 DEF Proceed
  <2>2. TypeOK'
    BY <1>2, <2>1 DEF Proceed, TypeOK
  <2>3. ASSUME NEW q \in Cores, NEW L \in Locks, wants'[q] # None, holder'[L] = q
        PROVE  Rank[L] < Rank[wants'[q]]
    <3>1. CASE q = p
      BY <2>1, <2>3, <3>1 DEF TypeOK
    <3>2. CASE q # p
      <4>1. wants'[q] = wants[q]
        BY <2>1, <3>2 DEF TypeOK
      <4>2. holder[L] = q
        BY <1>2, <2>3, <3>2 DEF Proceed, RankBounded
      <4> QED
        BY <2>3, <4>1, <4>2 DEF Ascending
    <3> QED
      BY <3>1, <3>2
  <2> QED
    BY <2>2, <2>3 DEF Ascending
<1> QED
  BY <1>1, <1>2 DEF Next

LEMMA AscendingIsAcyclic ==
  ASSUME NEW top, RankBounded(top), TypeOK, Ascending
  PROVE  NoCircularWait
<1> SUFFICES ASSUME NEW S \in SUBSET Cores, S # {},
                    \A p \in S : wants[p] # None /\ holder[wants[p]] \in S
             PROVE  FALSE
  BY DEF NoCircularWait
<1> DEFINE T == {wants[p] : p \in S}
<1>1. T \subseteq Locks /\ T # {}
  BY DEF TypeOK
<1>2. PICK x \in T : \A y \in T : Rank[y] <= Rank[x]
  BY ZenonT(60), <1>1, HighestRank
<1>3. PICK p \in S : x = wants[p]
  BY <1>2
<1> DEFINE q == holder[x]
<1>4. q \in S /\ wants[q] # None /\ wants[q] \in T
  BY <1>3
<1>5. Rank[x] < Rank[wants[q]]
  BY <1>1, <1>2, <1>4 DEF Ascending
<1>6. Rank[wants[q]] <= Rank[x]
  BY <1>2, <1>4
<1>7. Rank[x] \in Nat /\ Rank[wants[q]] \in Nat
  BY <1>1, <1>2, <1>4 DEF RankBounded
<1> QED
  BY <1>5, <1>6, <1>7

(* However many cores and locks there are, cores that take their locks in  *)
(* ascending rank never all wait for one another: the discipline that the  *)
(* handlers of the hypervisor follow (module Locks) excludes deadlock on   *)
(* its spin locks.                                                         *)
THEOREM NoDeadlock ==
  ASSUME NEW CONSTANT top, RankBounded(top)
  PROVE  Spec => [](Ascending /\ NoCircularWait)
<1>1. Init => TypeOK /\ Ascending
  BY InitAscending
<1>2. TypeOK /\ Ascending /\ [Next]_vars => TypeOK' /\ Ascending'
  BY NextAscending
<1>3. TypeOK /\ Ascending => NoCircularWait
  BY AscendingIsAcyclic
<1> QED
  BY <1>1, <1>2, <1>3, PTL DEF Spec

=============================================================================
