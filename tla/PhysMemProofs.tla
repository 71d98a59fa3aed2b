---------------------------- MODULE PhysMemProofs ---------------------------
(***************************************************************************)
(* The list of free regions implements the pool of RAM, for any RAM, any   *)
(* sections, any minimum size and any requests; and a capsule's mapping    *)
(* and the loader keep to the region that the capsule was given, for any   *)
(* images and mappings.                                                    *)
(*                                                                         *)
(* Sortedness alone is not inductive: insert() fails, and loses RAM, if    *)
(* the region it is given overlaps one in the list.  That it never does    *)
(* needs that what is free, what is handed out and what init() has still   *)
(* to register share no address (AllApart).                                *)
(***************************************************************************)
EXTENDS CapsuleMemory, SequenceTheorems, WellFoundedInduction, TLAPS

\* The provers a leaf that names none is tried with, in this order.
USE SMTT(20), ZenonT(60), Z3T(60), SMTT(40)

\* Two regions that share no address.
Apart(r, s) == End(r) <= s.base \/ End(s) <= r.base

\* The regions of a list are in order and do not overlap.
Sorted(list) ==
  /\ list \in Seq(Region)
  /\ \A i, j \in DOMAIN list : i < j => End(list[i]) <= list[j].base

-----------------------------------------------------------------------------
(* The list operations. *)

\* A set of numbers that is not empty has a least one.
LEMMA MinProperties ==
  ASSUME NEW S \in SUBSET Nat, S # {}
  PROVE  Min(S) \in S /\ \A y \in S : Min(S) <= y
<1>1. PICK x \in S : \A y \in S : ~ (<<y, x>> \in OpToRel(<, Nat))
  BY ZenonT(60), NatLessThanWellFounded, WFMin
<1>2. \A y \in S : x <= y
  <2>1. SUFFICES ASSUME NEW y \in S PROVE x <= y
    OBVIOUS
  <2>2. x \in Nat /\ y \in Nat
    OBVIOUS
  <2>3. ~ (y < x)
    BY ZenonT(60), <1>1, <2>2 DEF OpToRel
  <2>4. QED BY <2>2, <2>3
<1>3. QED BY ZenonT(60), <1>2 DEF Min

\* What InsertAt and RemoveAt do, element by element.
LEMMA InsertAtProperties ==
  ASSUME NEW S, NEW list \in Seq(S), NEW i \in 1 .. Len(list), NEW e \in S
  PROVE  /\ InsertAt(list, i, e) \in Seq(S)
         /\ Len(InsertAt(list, i, e)) = Len(list) + 1
         /\ \A j \in 1 .. Len(list) + 1 :
              InsertAt(list, i, e)[j] = IF j < i THEN list[j]
                                        ELSE IF j = i THEN e ELSE list[j - 1]
<1> DEFINE low == SubSeq(list, 1, i - 1)
           high == SubSeq(list, i, Len(list))
<1>0. Len(list) \in Nat /\ \A j \in 1 .. Len(list) : list[j] \in S
  OBVIOUS
<1>1. low \in Seq(S) /\ Len(low) = i - 1 /\ \A j \in 1 .. i - 1 : low[j] = list[j]
  BY <1>0, SubSeqProperties
<1>2. /\ high \in Seq(S) /\ Len(high) = (Len(list) - i) + 1
      /\ \A j \in 1 .. (Len(list) - i) + 1 : high[j] = list[(i + j) - 1]
  BY <1>0, SubSeqProperties
<1> HIDE DEF low, high
<1>3. <<e>> \in Seq(S) /\ Len(<<e>>) = 1 /\ <<e>>[1] = e
  OBVIOUS
<1> DEFINE mid == low \o <<e>>
           all == mid \o high
<1>4. /\ mid \in Seq(S) /\ Len(mid) = i
      /\ \A j \in 1 .. i : mid[j] = IF j <= i - 1 THEN low[j] ELSE <<e>>[j - (i - 1)]
  BY <1>1, <1>3, ConcatProperties
<1>5. InsertAt(list, i, e) = all
  BY DEF InsertAt, low, high
<1> HIDE DEF mid
<1>6. /\ all \in Seq(S) /\ Len(all) = Len(list) + 1
      /\ \A j \in 1 .. Len(list) + 1 : all[j] = IF j <= i THEN mid[j] ELSE high[j - i]
  <2>1. Len(mid) + Len(high) = Len(list) + 1
    BY <1>0, <1>2, <1>4
  <2>2. /\ all \in Seq(S) /\ Len(all) = Len(mid) + Len(high)
        /\ \A j \in 1 .. Len(mid) + Len(high) :
             all[j] = IF j <= Len(mid) THEN mid[j] ELSE high[j - Len(mid)]
    BY <1>2, <1>4, ConcatProperties, Zenon
  <2> HIDE DEF all
  <2>3. QED BY <1>4, <2>1, <2>2
<1> HIDE DEF all
<1>7. ASSUME NEW j \in 1 .. Len(list) + 1
      PROVE  all[j] = IF j < i THEN list[j] ELSE IF j = i THEN e ELSE list[j - 1]
  <2>1. CASE j < i
    <3>1. j <= i - 1 /\ j <= i /\ j \in 1 .. i - 1 /\ j \in 1 .. i
      BY <1>0, <2>1
    <3>2. mid[j] = list[j]
      BY <1>1, <1>4, <3>1
    <3>3. QED BY <1>6, <2>1, <3>1, <3>2
  <2>2. CASE j = i
    <3>1. i - (i - 1) = 1 /\ ~ (i <= i - 1) /\ i \in 1 .. i /\ i \in 1 .. Len(list) + 1
      BY <1>0
    <3>2. mid[i] = e
      BY <1>3, <1>4, <3>1
    <3>3. QED BY <1>0, <1>6, <2>2, <3>1, <3>2
  <2>3. CASE j > i
    <3>1. j - i \in 1 .. (Len(list) - i) + 1 /\ (i + (j - i)) - 1 = j - 1
      BY <1>0, <2>3
    <3>2. QED BY <1>0, <1>2, <1>6, <2>3, <3>1
  <2>4. QED BY <1>0, <2>1, <2>2, <2>3
<1>8. QED BY <1>5, <1>6, <1>7

LEMMA RemoveAtProperties ==
  ASSUME NEW S, NEW list \in Seq(S), NEW i \in 1 .. Len(list)
  PROVE  /\ RemoveAt(list, i) \in Seq(S)
         /\ Len(RemoveAt(list, i)) = Len(list) - 1
         /\ \A j \in 1 .. Len(list) - 1 :
              RemoveAt(list, i)[j] = IF j < i THEN list[j] ELSE list[j + 1]
<1> DEFINE low == SubSeq(list, 1, i - 1)
           high == SubSeq(list, i + 1, Len(list))
           all == low \o high
<1>0. Len(list) \in Nat /\ \A j \in 1 .. Len(list) : list[j] \in S
  OBVIOUS
<1>1. low \in Seq(S) /\ Len(low) = i - 1 /\ \A j \in 1 .. i - 1 : low[j] = list[j]
  BY <1>0, SubSeqProperties
<1>2. /\ high \in Seq(S) /\ Len(high) = Len(list) - i
      /\ \A j \in 1 .. Len(list) - i : high[j] = list[i + j]
  BY <1>0, SubSeqProperties
<1>3. RemoveAt(list, i) = all
  BY DEF RemoveAt
<1> HIDE DEF low, high
<1>4. /\ all \in Seq(S) /\ Len(all) = Len(list) - 1
      /\ \A j \in 1 .. Len(list) - 1 : all[j] = IF j <= i - 1 THEN low[j] ELSE high[j - (i - 1)]
  <2>1. Len(low) + Len(high) = Len(list) - 1
    BY <1>0, <1>1, <1>2
  <2>2. /\ all \in Seq(S) /\ Len(all) = Len(low) + Len(high)
        /\ \A j \in 1 .. Len(low) + Len(high) :
             all[j] = IF j <= Len(low) THEN low[j] ELSE high[j - Len(low)]
    BY <1>1, <1>2, ConcatProperties, Zenon
  <2> HIDE DEF all
  <2>3. QED BY <1>1, <2>1, <2>2
<1> HIDE DEF all
<1>5. ASSUME NEW j \in 1 .. Len(list) - 1
      PROVE  all[j] = IF j < i THEN list[j] ELSE list[j + 1]
  <2>1. CASE j < i
    BY <1>0, <1>1, <1>4, <2>1
  <2>2. CASE j >= i
    <3>1. j - (i - 1) \in 1 .. Len(list) - i /\ i + (j - (i - 1)) = j + 1
      BY <1>0, <2>2
    <3>2. QED BY <1>0, <1>2, <1>4, <2>2, <3>1
  <2>3. QED BY <1>0, <2>1, <2>2
<1>6. QED BY <1>3, <1>4, <1>5

\* SortedRegions::insert keeps the list sorted and adds the region, if the
\* region is empty or free of those in the list: the error that its callers
\* ignore does not happen.
LEMMA InsertedProperties ==
  ASSUME NEW list, Sorted(list), NEW r \in [base : Nat, size : Nat],
         r.size # 0 => r \in Region /\ \A i \in DOMAIN list : Apart(list[i], r)
  PROVE  /\ Sorted(Inserted(list, r))
         /\ Range(Inserted(list, r)) = Range(list) \cup (IF r.size = 0 THEN {} ELSE {r})
<1>1. CASE r.size = 0
  BY <1>1 DEF Inserted, NothingToInsert
<1>2. CASE r.size # 0 /\ InsertionPoints(list, r) = {}
  <2> DEFINE new == Append(list, r)
  <2>1. Inserted(list, r) = new
    BY <1>2 DEF Inserted, NothingToInsert
  <2>2. list \in Seq(Region) /\ r \in Region /\ Len(list) \in Nat /\ DOMAIN list = 1 .. Len(list)
    BY <1>2 DEF Sorted
  <2>3. ASSUME NEW i \in DOMAIN list PROVE End(list[i]) <= r.base
    <3>1. list[i] \in Region /\ r \in Region
      BY <2>2
    <3>2. ~ Above(list[i], r) /\ ~ Collides(list[i], r) /\ Apart(list[i], r)
      BY <1>2 DEF InsertionPoints
    <3>3. QED BY <3>1, <3>2, SectionsAssumption DEF Above, Collides, Apart, End, Region
  <2>4. /\ new \in Seq(Region) /\ Len(new) = Len(list) + 1
        /\ DOMAIN new = 1 .. Len(list) + 1
        /\ \A i \in 1 .. Len(list) : new[i] = list[i]
        /\ new[Len(list) + 1] = r
    BY <2>2, AppendProperties
  <2> HIDE DEF new
  <2>5. Sorted(new)
    BY <2>2, <2>3, <2>4 DEF Sorted
  <2>6. Range(new) = Range(list) \cup {r}
    <3>1. \A x : (\E i \in DOMAIN new : x = new[i]) <=>
                    (\E i \in DOMAIN list : x = list[i]) \/ x = r
      BY <2>2, <2>4
    <3>2. QED BY <3>1 DEF Range
  <2>7. QED BY <1>2, <2>1, <2>5, <2>6
<1>3. CASE r.size # 0 /\ InsertionPoints(list, r) # {}
  <2> DEFINE i == Min(InsertionPoints(list, r))
             new == InsertAt(list, i, r)
  <2>1. /\ list \in Seq(Region) /\ r \in Region /\ Len(list) \in Nat
        /\ DOMAIN list = 1 .. Len(list) /\ \A j \in DOMAIN list : list[j] \in Region
    BY <1>3 DEF Sorted
  <2>2. i \in InsertionPoints(list, r) /\ \A j \in InsertionPoints(list, r) : i <= j
    <3>1. InsertionPoints(list, r) \in SUBSET Nat
      BY <2>1 DEF InsertionPoints
    <3>2. QED BY <1>3, <3>1, MinProperties, Zenon
  <2>3. i \in 1 .. Len(list) /\ (Above(list[i], r) \/ Collides(list[i], r))
    BY <2>1, <2>2 DEF InsertionPoints
  <2> HIDE DEF i
  <2>4. Above(list[i], r)
    <3>1. list[i] \in Region /\ Apart(list[i], r)
      BY <1>3, <2>1, <2>3
    <3>2. QED BY <2>1, <2>3, <3>1, SectionsAssumption DEF Above, Collides, Apart, End, Region
  <2>5. Inserted(list, r) = new
    BY <1>3, <2>4 DEF Inserted, NothingToInsert, i
  <2>6. ASSUME NEW j \in 1 .. Len(list), j < i PROVE End(list[j]) <= r.base
    <3>1. ~ Above(list[j], r) /\ ~ Collides(list[j], r) /\ Apart(list[j], r)
      <4>1. j \notin InsertionPoints(list, r)
        BY <2>1, <2>2, <2>3, <2>6
      <4>2. QED BY <1>3, <2>1, <4>1 DEF InsertionPoints
    <3>2. list[j] \in Region /\ r \in Region
      BY <2>1
    <3>3. QED BY <3>1, <3>2, SectionsAssumption DEF Above, Collides, Apart, End, Region
  <2>7. ASSUME NEW j \in 1 .. Len(list), i <= j PROVE End(r) <= list[j].base
    <3>1. list[i] \in Region /\ list[j] \in Region /\ r \in Region
      BY <2>1, <2>3
    <3>2. i = j \/ End(list[i]) <= list[j].base
      BY <2>1, <2>3, <2>7 DEF Sorted
    <3>3. QED BY <2>4, <3>1, <3>2, SectionsAssumption DEF Above, End, Region
  <2>8. /\ new \in Seq(Region) /\ Len(new) = Len(list) + 1 /\ DOMAIN new = 1 .. Len(list) + 1
        /\ \A j \in 1 .. Len(list) + 1 :
             new[j] = IF j < i THEN list[j] ELSE IF j = i THEN r ELSE list[j - 1]
    <3>1. /\ new \in Seq(Region) /\ Len(new) = Len(list) + 1
          /\ \A j \in 1 .. Len(list) + 1 :
               new[j] = IF j < i THEN list[j] ELSE IF j = i THEN r ELSE list[j - 1]
      <4>1. list \in Seq(Region) /\ r \in Region /\ i \in 1 .. Len(list)
        BY <2>1, <2>3
      <4>2. QED BY <4>1, InsertAtProperties
    <3> HIDE DEF new
    <3>2. DOMAIN new = 1 .. Len(list) + 1
      BY <2>1, <3>1
    <3>3. QED BY <3>1, <3>2
  <2> HIDE DEF new
  <2>9. Sorted(new)
    <3>1. SUFFICES ASSUME NEW j \in 1 .. Len(list) + 1, NEW k \in 1 .. Len(list) + 1, j < k
                   PROVE  End(new[j]) <= new[k].base
      BY <2>8 DEF Sorted
    <3>2. \A a, b \in 1 .. Len(list) : a < b => End(list[a]) <= list[b].base
      BY <2>1 DEF Sorted
    <3>3. CASE k < i
      BY <2>1, <2>3, <2>8, <3>1, <3>2, <3>3
    <3>4. CASE k = i
      BY <2>1, <2>3, <2>6, <2>8, <3>1, <3>4
    <3>5. CASE k > i /\ j < i
      BY <2>1, <2>3, <2>8, <3>1, <3>2, <3>5
    <3>6. CASE k > i /\ j = i
      BY <2>1, <2>3, <2>7, <2>8, <3>1, <3>6
    <3>7. CASE k > i /\ j > i
      <4>1. /\ j - 1 \in 1 .. Len(list) /\ k - 1 \in 1 .. Len(list) /\ j - 1 < k - 1
            /\ ~ (j < i) /\ j # i /\ ~ (k < i) /\ k # i
        BY <2>1, <2>3, <3>1, <3>7
      <4>2. new[j] = list[j - 1] /\ new[k] = list[k - 1]
        BY <2>8, <4>1
      <4>3. QED BY <3>2, <4>1, <4>2
    <3>8. QED BY <2>1, <2>3, <3>3, <3>4, <3>5, <3>6, <3>7
  <2>10. Range(new) = Range(list) \cup {r}
    <3>1. ASSUME NEW j \in 1 .. Len(list) + 1 PROVE new[j] \in Range(list) \cup {r}
      <4>1. CASE j < i
        BY <2>1, <2>3, <2>8, <4>1 DEF Range
      <4>2. CASE j = i
        BY <2>8, <4>2
      <4>3. CASE j > i
        <5>1. j - 1 \in 1 .. Len(list) /\ ~ (j < i) /\ j # i
          BY <2>1, <2>3, <4>3
        <5>2. QED BY <2>1, <2>8, <5>1 DEF Range
      <4>4. QED BY <2>1, <2>3, <4>1, <4>2, <4>3
    <3>2. ASSUME NEW j \in 1 .. Len(list) PROVE \E k \in 1 .. Len(list) + 1 : new[k] = list[j]
      <4>1. CASE j < i
        BY <2>1, <2>3, <2>8, <4>1
      <4>2. CASE j >= i
        <5>1. j + 1 \in 1 .. Len(list) + 1 /\ ~ (j + 1 < i) /\ j + 1 # i /\ (j + 1) - 1 = j
          BY <2>1, <2>3, <4>2
        <5>2. QED BY <2>8, <5>1
      <4>3. QED BY <2>1, <2>3, <4>1, <4>2
    <3>3. i \in 1 .. Len(list) + 1 /\ new[i] = r
      BY <2>1, <2>3, <2>8
    <3>4. Range(new) \subseteq Range(list) \cup {r}
      BY <2>8, <3>1 DEF Range
    <3>5. r \in Range(new)
      BY <2>8, <3>3 DEF Range
    <3>6. ASSUME NEW x \in Range(list) PROVE x \in Range(new)
      <4>1. PICK j \in 1 .. Len(list) : x = list[j]
        BY <2>1 DEF Range
      <4>2. PICK k \in 1 .. Len(list) + 1 : new[k] = list[j]
        BY <3>2
      <4>3. QED BY <2>8, <4>1, <4>2 DEF Range
    <3>7. QED BY <3>4, <3>5, <3>6
  <2>11. QED BY <1>3, <2>5, <2>9, <2>10
<1>4. QED BY <1>1, <1>2, <1>3

\* The regions of a sorted list are distinct, and share no address.
LEMMA SortedApart ==
  ASSUME NEW list, Sorted(list), NEW i \in DOMAIN list, NEW j \in DOMAIN list, i # j
  PROVE  list[i] # list[j] /\ Apart(list[i], list[j])
<1>1. i \in Nat /\ j \in Nat /\ list[i] \in Region /\ list[j] \in Region
  BY DEF Sorted
<1>2. End(list[i]) <= list[j].base \/ End(list[j]) <= list[i].base
  BY <1>1 DEF Sorted
<1>3. QED BY <1>1, <1>2, SectionsAssumption DEF Apart, End, Region

\* Taking a region out keeps the list sorted and takes out nothing else.
LEMMA RemovedProperties ==
  ASSUME NEW list, Sorted(list), NEW i \in DOMAIN list
  PROVE  /\ Sorted(RemoveAt(list, i))
         /\ Range(RemoveAt(list, i)) = Range(list) \ {list[i]}
<1> DEFINE new == RemoveAt(list, i)
<1>1. /\ list \in Seq(Region) /\ Len(list) \in Nat /\ DOMAIN list = 1 .. Len(list)
      /\ i \in 1 .. Len(list)
  BY DEF Sorted
<1>2. /\ new \in Seq(Region) /\ Len(new) = Len(list) - 1
      /\ \A j \in 1 .. Len(list) - 1 : new[j] = IF j < i THEN list[j] ELSE list[j + 1]
  <2>1. list \in Seq(Region) /\ i \in 1 .. Len(list)
    BY <1>1
  <2>2. QED BY ZenonT(60), <2>1, RemoveAtProperties
<1> HIDE DEF new
<1>3. DOMAIN new = 1 .. Len(list) - 1
  BY <1>1, <1>2
<1>4. \A a, b \in 1 .. Len(list) : a < b => End(list[a]) <= list[b].base
  BY <1>1 DEF Sorted
<1>5. ASSUME NEW j \in 1 .. Len(list) - 1
      PROVE  \E a \in 1 .. Len(list) \ {i} : new[j] = list[a] /\ a = IF j < i THEN j ELSE j + 1
  <2>1. CASE j < i
    BY <1>1, <1>2, <2>1
  <2>2. CASE ~ (j < i)
    <3>1. j + 1 \in 1 .. Len(list) \ {i}
      BY <1>1, <2>2
    <3>2. QED BY <1>2, <2>2, <3>1
  <2>3. QED BY <2>1, <2>2
<1>6. Sorted(new)
  <2>1. SUFFICES ASSUME NEW j \in 1 .. Len(list) - 1, NEW k \in 1 .. Len(list) - 1, j < k
                 PROVE  End(new[j]) <= new[k].base
    BY <1>2, <1>3 DEF Sorted
  <2>2. PICK a \in 1 .. Len(list) \ {i} : new[j] = list[a] /\ a = IF j < i THEN j ELSE j + 1
    BY <1>5
  <2>3. PICK b \in 1 .. Len(list) \ {i} : new[k] = list[b] /\ b = IF k < i THEN k ELSE k + 1
    BY <1>5
  <2>4. a < b
    BY <1>1, <2>1, <2>2, <2>3
  <2>5. QED BY <1>4, <2>2, <2>3, <2>4
<1>7. ASSUME NEW x \in Range(new) PROVE x \in Range(list) \ {list[i]}
  <2>1. PICK j \in 1 .. Len(list) - 1 : x = new[j]
    BY <1>3 DEF Range
  <2>2. PICK a \in 1 .. Len(list) \ {i} : new[j] = list[a]
    BY <1>5
  <2>3. list[a] # list[i]
    BY <1>1, SortedApart
  <2>4. QED BY <1>1, <2>1, <2>2, <2>3 DEF Range
<1>8. ASSUME NEW x \in Range(list), x # list[i] PROVE x \in Range(new)
  <2>1. PICK a \in 1 .. Len(list) : x = list[a]
    BY <1>1 DEF Range
  <2>2. \E j \in 1 .. Len(list) - 1 : new[j] = list[a]
    <3>1. CASE a < i
      BY <1>1, <1>2, <3>1
    <3>2. CASE a > i
      <4>1. a - 1 \in 1 .. Len(list) - 1 /\ ~ (a - 1 < i) /\ (a - 1) + 1 = a
        BY <1>1, <3>2
      <4>2. QED BY <1>2, <4>1
    <3>3. a # i
      BY <1>8, <2>1
    <3>4. QED BY <1>1, <3>1, <3>2, <3>3
  <2>3. QED BY <1>3, <2>1, <2>2 DEF Range
<1>9. Range(new) = Range(list) \ {list[i]}
  BY <1>7, <1>8
<1>10. QED BY <1>6, <1>9 DEF new

\* Two adjoining regions in one.
Union(r, s) == [base |-> r.base, size |-> r.size + s.size]

LEMMA UnionProperties ==
  ASSUME NEW r \in Region, NEW s \in Region, End(r) = s.base, End(s) <= Top
  PROVE  /\ Union(r, s) \in Region
         /\ Union(r, s).base = r.base
         /\ End(Union(r, s)) = End(s)
BY SectionsAssumption DEF Union, End, Region

\* The list with w in the place of the regions c and c + 1 ...
Merged(list, c, w) == RemoveAt([list EXCEPT ![c] = w], c + 1)

\* ... element by element.
IsMerged(new, list, c, w) ==
  /\ DOMAIN new = 1 .. Len(list) - 1
  /\ \A j \in 1 .. Len(list) - 1 :
       new[j] = IF j < c THEN list[j] ELSE IF j = c THEN w ELSE list[j + 1]

\* SortedRegions::merge puts the union of two adjoining regions in their place ...
LEMMA MergedElements ==
  ASSUME NEW list \in Seq(Region), NEW c \in 1 .. Len(list) - 1, NEW w \in Region
  PROVE  /\ Merged(list, c, w) \in Seq(Region)
         /\ Len(Merged(list, c, w)) = Len(list) - 1
         /\ IsMerged(Merged(list, c, w), list, c, w)
<1> DEFINE u == [list EXCEPT ![c] = w]
           new == RemoveAt(u, c + 1)
<1>1. Len(list) \in Nat /\ c \in 1 .. Len(list) /\ c + 1 \in 1 .. Len(list)
  OBVIOUS
<1>2. u \in Seq(Region) /\ Len(u) = Len(list)
      /\ \A j \in 1 .. Len(list) : u[j] = IF j = c THEN w ELSE list[j]
  BY <1>1, ExceptSeq
<1> HIDE DEF u
<1>3. /\ new \in Seq(Region) /\ Len(new) = Len(u) - 1
      /\ \A j \in 1 .. Len(u) - 1 : new[j] = IF j < c + 1 THEN u[j] ELSE u[j + 1]
  <2>1. u \in Seq(Region) /\ c + 1 \in 1 .. Len(u)
    BY <1>1, <1>2
  <2>2. QED BY <2>1, RemoveAtProperties
<1> HIDE DEF new
<1>4. new \in Seq(Region) /\ Len(new) = Len(list) - 1 /\ DOMAIN new = 1 .. Len(list) - 1
  BY <1>2, <1>3
<1>5. ASSUME NEW j \in 1 .. Len(list) - 1
      PROVE  new[j] = IF j < c THEN list[j] ELSE IF j = c THEN w ELSE list[j + 1]
  <2>0. new[j] = IF j < c + 1 THEN u[j] ELSE u[j + 1]
    BY <1>2, <1>3
  <2>1. CASE j < c
    <3>1. j < c + 1 /\ j # c /\ j \in 1 .. Len(list)
      BY <1>1, <2>1
    <3>2. QED BY <1>2, <2>0, <2>1, <3>1
  <2>2. CASE j = c
    <3>1. j < c + 1 /\ j \in 1 .. Len(list) /\ ~ (j < c)
      BY <1>1, <2>2
    <3>2. QED BY <1>2, <2>0, <2>2, <3>1
  <2>3. CASE j > c
    <3>1. j + 1 \in 1 .. Len(list) /\ ~ (j < c + 1) /\ j + 1 # c /\ ~ (j < c) /\ j # c
      BY <1>1, <2>3
    <3>2. QED BY <1>2, <2>0, <3>1
  <2>4. QED BY <1>1, <2>1, <2>2, <2>3
<1>6. Merged(list, c, w) = new
  BY DEF Merged, new, u
<1>7. QED BY <1>4, <1>5, <1>6 DEF IsMerged

\* ... keeps the list sorted ...
LEMMA MergedSorted ==
  ASSUME NEW list, Sorted(list), NEW c \in 1 .. Len(list) - 1,
         NEW w, w.base = list[c].base, End(w) = End(list[c + 1]),
         NEW new \in Seq(Region), IsMerged(new, list, c, w)
  PROVE  Sorted(new)
<1> USE DEF IsMerged
<1>1. Len(list) \in Nat /\ c \in 1 .. Len(list) /\ c + 1 \in 1 .. Len(list)
  BY DEF Sorted
<1>2. \A a, b \in 1 .. Len(list) : a < b => End(list[a]) <= list[b].base
  BY DEF Sorted
<1>3. ASSUME NEW j \in 1 .. Len(list) - 1, NEW k \in 1 .. Len(list) - 1, j < k
      PROVE  End(new[j]) <= new[k].base
  <2>1. CASE k < c
    <3>1. j \in 1 .. Len(list) /\ k \in 1 .. Len(list) /\ j < c
      BY <1>1, <1>3, <2>1
    <3>2. QED BY <1>2, <1>3, <2>1, <3>1
  <2>2. CASE k = c
    <3>1. j \in 1 .. Len(list) /\ j < c /\ ~ (k < c)
      BY <1>1, <1>3, <2>2
    <3>2. QED BY <1>1, <1>2, <2>2, <3>1
  <2>3. CASE k > c /\ j < c
    <3>1. j \in 1 .. Len(list) /\ k + 1 \in 1 .. Len(list) /\ j < k + 1 /\ ~ (k < c) /\ k # c
      BY <1>1, <1>3, <2>3
    <3>2. QED BY <1>2, <2>3, <3>1
  <2>4. CASE k > c /\ j = c
    <3>1. k + 1 \in 1 .. Len(list) /\ c + 1 < k + 1 /\ new[k] = list[k + 1] /\ new[j] = w
      BY <1>1, <1>3, <2>4
    <3>2. QED BY <1>1, <1>2, <3>1
  <2>5. CASE k > c /\ j > c
    <3>1. /\ k + 1 \in 1 .. Len(list) /\ j + 1 \in 1 .. Len(list) /\ j + 1 < k + 1
          /\ new[k] = list[k + 1] /\ new[j] = list[j + 1]
      BY <1>1, <1>3, <2>5
    <3>2. QED BY <1>2, <3>1
  <2>6. QED BY <1>1, <2>1, <2>2, <2>3, <2>4, <2>5
<1>4. QED BY <1>3 DEF Sorted

\* ... so that they are in the list no more, and their union is.
LEMMA MergedRange ==
  ASSUME NEW list, Sorted(list), NEW c \in 1 .. Len(list) - 1, NEW w,
         NEW new, IsMerged(new, list, c, w)
  PROVE  Range(new) = (Range(list) \ {list[c], list[c + 1]}) \cup {w}
<1> USE DEF IsMerged
<1>1. /\ Len(list) \in Nat /\ DOMAIN list = 1 .. Len(list)
      /\ c \in 1 .. Len(list) /\ c + 1 \in 1 .. Len(list) /\ c # c + 1
  BY DEF Sorted
<1>2. ASSUME NEW x \in Range(new) PROVE x \in (Range(list) \ {list[c], list[c + 1]}) \cup {w}
  <2>1. PICK j \in 1 .. Len(list) - 1 : x = new[j]
    BY DEF Range
  <2>2. CASE j = c
    BY <2>1, <2>2
  <2>3. CASE j # c
    <3>1. PICK a \in 1 .. Len(list) : x = list[a] /\ a # c /\ a # c + 1
      <4>1. CASE j < c
        BY <1>1, <2>1, <4>1
      <4>2. CASE j > c
        <5>1. j + 1 \in 1 .. Len(list) /\ j + 1 # c /\ j + 1 # c + 1
          BY <1>1, <4>2
        <5>2. x = list[j + 1]
          BY <1>1, <2>1, <4>2
        <5>3. QED BY <5>1, <5>2
      <4>3. QED BY <1>1, <2>3, <4>1, <4>2
    <3>2. x # list[c] /\ x # list[c + 1]
      BY ZenonT(60), <1>1, <3>1, SortedApart
    <3>3. QED BY <1>1, <3>1, <3>2 DEF Range
  <2>4. QED BY <2>2, <2>3
<1>3. w \in Range(new)
  <2>1. new[c] = w
    BY <1>1
  <2>2. QED BY <2>1 DEF Range
<1>4. ASSUME NEW x \in Range(list), x # list[c], x # list[c + 1] PROVE x \in Range(new)
  <2>1. PICK a \in 1 .. Len(list) : x = list[a]
    BY <1>1 DEF Range
  <2>2. \E j \in 1 .. Len(list) - 1 : new[j] = x
    <3>1. CASE a < c
      BY <1>1, <2>1, <3>1
    <3>2. CASE a > c + 1
      <4>1. a - 1 \in 1 .. Len(list) - 1 /\ ~ (a - 1 < c) /\ a - 1 # c /\ (a - 1) + 1 = a
        BY <1>1, <3>2
      <4>2. QED BY <2>1, <4>1
    <3>3. a # c /\ a # c + 1
      BY <1>4, <2>1
    <3>4. QED BY <1>1, <3>1, <3>2, <3>3
  <2>3. QED BY <2>2 DEF Range
<1>5. QED BY <1>2, <1>3, <1>4

\* Division with remainder.
LEMMA Division ==
  ASSUME NEW a \in Nat, NEW b \in Nat \ {0}
  PROVE  a = b * (a \div b) + (a % b) /\ a \div b \in Nat
<1>1. a = b * (a \div b) + (a % b)
  OBVIOUS
<1>2. a \div b \in Nat
  OBVIOUS
<1>3. QED BY <1>1, <1>2

\* alloc_region rounds a size up to the next multiple of the minimum size.
LEMMA AdjustedSizeProperties ==
  ASSUME NEW n \in Nat \ {0}
  PROVE  /\ AdjustedSize(n) \in Nat \ {0} /\ AdjustedSize(n) % MinSize = 0
         /\ n <= AdjustedSize(n) /\ AdjustedSize(n) < n + MinSize
<1>1. MinSize \in Nat \ {0} /\ n % MinSize \in 0 .. MinSize - 1
  BY SizesAssumption
<1>2. CASE n % MinSize = 0
  BY <1>1, <1>2 DEF AdjustedSize
<1>3. CASE n % MinSize # 0
  <2>1. n = MinSize * (n \div MinSize) + (n % MinSize) /\ n \div MinSize \in Nat
    BY <1>1, Division
  <2>2. AdjustedSize(n) = MinSize * (n \div MinSize) + MinSize
    BY <1>1, <1>3, <2>1 DEF AdjustedSize
  <2>3. AdjustedSize(n) = MinSize * ((n \div MinSize) + 1)
    BY <1>1, <2>1, <2>2
  <2>4. \A q \in Nat : (MinSize * q) % MinSize = 0 /\ MinSize * q \in Nat
    BY <1>1
  <2>5. AdjustedSize(n) \in Nat \ {0} /\ AdjustedSize(n) % MinSize = 0
    BY <1>1, <2>1, <2>2, <2>3, <2>4
  <2>6. AdjustedSize(n) = (n - (n % MinSize)) + MinSize
    BY <1>3 DEF AdjustedSize
  <2>7. n <= AdjustedSize(n) /\ AdjustedSize(n) < n + MinSize
    <3> DEFINE r == n % MinSize
    <3>1. r \in 1 .. MinSize - 1 /\ AdjustedSize(n) = (n - r) + MinSize
      BY <1>1, <1>3, <2>6
    <3> HIDE DEF r
    <3>2. QED BY <1>1, <3>1
  <2>8. QED BY <2>5, <2>7
<1>4. QED BY <1>2, <1>3

-----------------------------------------------------------------------------
(* The invariant. *)

\* The free regions, those that are handed out, and those init() still has to
\* register lie within the RAM and share no address.
AllApart ==
  /\ \A r \in Range(regions) \cup held \cup Range(todo) : End(r) <= Top
  /\ \A r \in Range(regions), h \in held : Apart(r, h)
  /\ \A g, h \in held : g # h => Apart(g, h)
  /\ \A t \in Range(todo), r \in Range(regions) \cup held : Apart(t, r)
  /\ \A i, j \in DOMAIN todo : i # j => Apart(todo[i], todo[j])

\* What merge() has been through no longer adjoins.
MergedSoFar ==
  /\ cursor > 0 => todo = <<>>
  /\ \A i \in 1 .. Len(regions) - 1 : i < cursor => End(regions[i]) # regions[i + 1].base

PhysInv == TypeOK /\ SortedDisjoint /\ HeldRounded /\ AllApart /\ MergedSoFar

\* At the start everything is still to be registered.
LEMMA PhysInit == Init => PhysInv
<1> SUFFICES ASSUME Init PROVE PhysInv
  OBVIOUS
<1>1. regions = <<>> /\ todo = Sections /\ cursor = 0 /\ held = {}
  BY DEF Init
<1>2. Range(regions) = {} /\ DOMAIN regions = {} /\ Len(regions) = 0
  BY <1>1 DEF Range
<1>3. TypeOK
  BY <1>1, SectionsAssumption DEF TypeOK
<1>4. AllApart
  BY <1>1, <1>2, SectionsAssumption DEF AllApart, Apart, Range
<1>5. QED BY <1>1, <1>2, <1>3, <1>4 DEF PhysInv, SortedDisjoint, HeldRounded, MergedSoFar

\* init(): a section goes from those to be registered to those that are free.
LEMMA RegisterStep ==
  ASSUME PhysInv, RegisterSection
  PROVE  /\ PhysInv'
         /\ Range(regions') = Range(regions) \cup {todo[1]}
<1> DEFINE r == todo[1]
<1>1. /\ todo \in Seq(Region) /\ todo # <<>> /\ Len(todo) \in Nat \ {0} /\ 1 \in DOMAIN todo
      /\ DOMAIN todo = 1 .. Len(todo) /\ Head(todo) = r /\ r \in Region
  BY DEF RegisterSection, PhysInv, TypeOK
<1>2. Sorted(regions) /\ \A i \in DOMAIN regions : Apart(regions[i], r)
  BY <1>1, SectionsAssumption
  DEF PhysInv, TypeOK, SortedDisjoint, Sorted, AllApart, Apart, Range
<1>3. regions' = Inserted(regions, r) /\ todo' = Tail(todo) /\ UNCHANGED <<cursor, held>>
  BY <1>1 DEF RegisterSection
<1>4. r \in [base : Nat, size : Nat] /\ r.size # 0
  BY <1>1, SectionsAssumption DEF Region
<1>5. Sorted(regions') /\ Range(regions') = Range(regions) \cup {r}
  BY <1>1, <1>2, <1>3, <1>4, InsertedProperties
<1>6. /\ todo' \in Seq(Region) /\ Len(todo') = Len(todo) - 1
      /\ DOMAIN todo' = 1 .. Len(todo) - 1
      /\ \A i \in 1 .. Len(todo) - 1 : todo'[i] = todo[i + 1]
  BY <1>1, <1>3
<1>7. cursor = 0
  BY <1>1 DEF PhysInv, MergedSoFar, TypeOK
<1> HIDE DEF r
<1>8. TypeOK' /\ SortedDisjoint'
  BY <1>3, <1>5, <1>6 DEF PhysInv, TypeOK, Sorted, SortedDisjoint
<1>9. ASSUME NEW t \in Range(todo') PROVE t \in Range(todo) /\ Apart(t, r)
  <2>1. PICK i \in 1 .. Len(todo) - 1 : t = todo[i + 1]
    BY <1>6 DEF Range
  <2>2. i + 1 \in DOMAIN todo /\ i + 1 # 1
    BY <1>1
  <2>3. QED BY <1>1, <2>1, <2>2 DEF PhysInv, AllApart, Range, r
<1>10. AllApart'
  <2>1. \A x \in Range(regions') \cup held' \cup Range(todo') : End(x) <= Top
    BY <1>1, <1>3, <1>5, <1>9 DEF PhysInv, AllApart, Range, r
  <2>2. \A x \in Range(regions'), h \in held' : Apart(x, h)
    BY <1>1, <1>3, <1>5 DEF PhysInv, AllApart, Range, r
  <2>3. \A t \in Range(todo'), x \in Range(regions') \cup held' : Apart(t, x)
    BY <1>3, <1>5, <1>9 DEF PhysInv, AllApart
  <2>4. ASSUME NEW i \in DOMAIN todo', NEW j \in DOMAIN todo', i # j
        PROVE  Apart(todo'[i], todo'[j])
    <3>1. /\ todo'[i] = todo[i + 1] /\ todo'[j] = todo[j + 1]
          /\ i + 1 \in DOMAIN todo /\ j + 1 \in DOMAIN todo /\ i + 1 # j + 1
      BY <1>1, <1>6, <2>4
    <3>2. QED BY <3>1 DEF PhysInv, AllApart
  <2>5. QED BY <1>3, <2>1, <2>2, <2>3, <2>4 DEF PhysInv, AllApart
<1>11. HeldRounded' /\ MergedSoFar'
  <2>1. Len(regions') \in Nat
    BY <1>5 DEF Sorted
  <2>2. QED BY <1>3, <1>7, <2>1 DEF PhysInv, HeldRounded, MergedSoFar
<1>12. QED BY <1>5, <1>8, <1>10, <1>11 DEF PhysInv, r

\* What lies within a region shares no address with what the region shares none with.
LEMMA ApartWithin ==
  ASSUME NEW r \in [base : Nat, size : Nat], NEW s \in [base : Nat, size : Nat],
         NEW x \in [base : Nat, size : Nat],
         r.base <= s.base, End(s) <= End(r), Apart(r, x)
  PROVE  Apart(s, x) /\ Apart(x, s)
BY DEF Apart, End

\* alloc_region: a region that is free is cut in two, one part for the caller,
\* the other, unless it is empty, for the list.
LEMMA AllocStep ==
  ASSUME PhysInv, NEW size \in Requests, AllocRegion(size)
  PROVE  /\ PhysInv'
         /\ \E found \in Range(regions) :
              LET n == AdjustedSize(size)
              IN  /\ n \in Nat \ {0} /\ n <= found.size
                  /\ held' = held \cup {Lower(found, n)}
                  /\ Range(regions') = (Range(regions) \ {found}) \cup
                       (IF n = found.size THEN {} ELSE {Upper(found, n)})
<1> DEFINE n == AdjustedSize(size)
           i == Min(Fitting(regions, n))
           found == regions[i]
           rest == RemoveAt(regions, i)
           low == Lower(found, n)
           up == Upper(found, n)
<1>1. n \in Nat \ {0} /\ n % MinSize = 0 /\ size <= n /\ n < size + MinSize
  BY AdjustedSizeProperties, SizesAssumption
<1> HIDE DEF n
<1>2. Sorted(regions) /\ DOMAIN regions \subseteq Nat
  BY DEF PhysInv, TypeOK, SortedDisjoint, Sorted
<1>3. i \in DOMAIN regions /\ found.size >= n
  <2>1. Fitting(regions, n) \in SUBSET Nat /\ Fitting(regions, n) # {}
    BY <1>2 DEF Fitting, AllocRegion, n
  <2>2. i \in Fitting(regions, n)
    BY <2>1, MinProperties
  <2>3. QED BY <2>2 DEF Fitting
<1>4. /\ regions' = Inserted(rest, up) /\ held' = held \cup {low}
      /\ Unlocked /\ UNCHANGED <<todo, cursor>>
  BY DEF AllocRegion, n
<1> HIDE DEF i
<1>5. found \in Region /\ End(found) <= Top /\ found \in Range(regions)
  BY <1>3 DEF PhysInv, TypeOK, AllApart, Range
<1>6. /\ low \in Region /\ low.base = found.base /\ low.size = n /\ End(low) = found.base + n
      /\ up \in [base : Nat, size : Nat] /\ up.base = found.base + n /\ End(up) = End(found)
      /\ up.size = found.size - n /\ (up.size # 0 => up \in Region)
  BY <1>1, <1>3, <1>5, SectionsAssumption DEF Lower, Upper, Region, End
<1>7. Sorted(rest) /\ Range(rest) = Range(regions) \ {found}
  BY <1>2, <1>3, RemovedProperties
<1>8. \A x \in Range(rest) : x \in Region /\ Apart(found, x)
  <2>1. SUFFICES ASSUME NEW x \in Range(regions), x # found PROVE x \in Region /\ Apart(found, x)
    BY <1>7
  <2>2. PICK j \in DOMAIN regions : x = regions[j]
    BY DEF Range
  <2>3. QED BY <1>2, <1>3, <2>1, <2>2, SortedApart DEF Sorted
<1> HIDE DEF found, rest, low, up
<1>9. \A x \in Region : Apart(found, x) =>
        /\ Apart(low, x) /\ Apart(x, low)
        /\ Apart(up, x) /\ Apart(x, up)
  <2>1. Region \subseteq [base : Nat, size : Nat]
    BY SectionsAssumption DEF Region
  <2>2. /\ found \in [base : Nat, size : Nat] /\ low \in [base : Nat, size : Nat]
        /\ found.base <= low.base /\ End(low) <= End(found)
        /\ found.base <= up.base /\ End(up) <= End(found)
    BY <1>1, <1>3, <1>5, <1>6, <2>1 DEF End
  <2>3. QED BY <1>6, <2>1, <2>2, ApartWithin
<1>10. /\ Sorted(regions')
       /\ Range(regions') = Range(rest) \cup (IF up.size = 0 THEN {} ELSE {up})
  <2>1. \A j \in DOMAIN rest : Apart(rest[j], up)
    BY <1>8, <1>9 DEF Range
  <2>2. QED BY <1>4, <1>6, <1>7, <2>1, InsertedProperties
<1>11. up.size # 0 => Apart(up, low) /\ Apart(low, up)
  BY <1>6 DEF Apart
<1>12. \A h \in held : h \in Region /\ Apart(found, h)
  BY <1>5 DEF PhysInv, TypeOK, AllApart
<1>13. todo' = <<>> /\ Range(todo') = {} /\ cursor' = 0
  BY <1>4 DEF Unlocked, Range
<1>14. TypeOK' /\ SortedDisjoint'
  BY <1>4, <1>6, <1>10 DEF PhysInv, TypeOK, Sorted, SortedDisjoint
<1>15. AllApart'
  <2>1. End(low) <= Top /\ End(up) <= Top
    BY <1>1, <1>3, <1>5, <1>6, SectionsAssumption DEF End, Region
  <2>2. \A x \in Range(regions') \cup held' : End(x) <= Top
    BY <1>4, <1>7, <1>10, <2>1 DEF PhysInv, AllApart
  <2>3. \A x \in Range(regions'), h \in held' : Apart(x, h)
    BY <1>4, <1>7, <1>8, <1>9, <1>10, <1>11, <1>12 DEF PhysInv, AllApart
  <2>4. \A g, h \in held' : g # h => Apart(g, h)
    BY <1>4, <1>9, <1>12 DEF PhysInv, AllApart
  <2>5. QED BY <1>13, <2>2, <2>3, <2>4 DEF AllApart
<1>16. HeldRounded' /\ MergedSoFar'
  <2>1. HeldRounded'
    BY <1>1, <1>4, <1>6 DEF PhysInv, HeldRounded
  <2>2. Len(regions') \in Nat
    BY <1>10 DEF Sorted
  <2>3. QED BY <1>13, <2>1, <2>2 DEF MergedSoFar
<1>17. PhysInv'
  BY <1>14, <1>15, <1>16 DEF PhysInv
<1>18. n <= found.size /\ (up.size = 0 <=> n = found.size)
  BY <1>1, <1>3, <1>5, <1>6, SectionsAssumption DEF Region
<1>19. QED
  BY <1>1, <1>4, <1>5, <1>7, <1>10, <1>17, <1>18 DEF n, low, up

\* dealloc_region: a region goes back to the list.
LEMMA DeallocStep ==
  ASSUME PhysInv, NEW r \in held, DeallocRegion(r)
  PROVE  PhysInv' /\ Range(regions') = Range(regions) \cup {r}
<1>1. /\ regions' = Inserted(regions, r) /\ held' = held \ {r}
      /\ Unlocked /\ UNCHANGED <<todo, cursor>>
  BY DEF DeallocRegion
<1>2. r \in Region /\ r \in [base : Nat, size : Nat] /\ r.size # 0
  BY SectionsAssumption DEF PhysInv, TypeOK, Region
<1>3. Sorted(regions) /\ \A i \in DOMAIN regions : Apart(regions[i], r)
  BY DEF PhysInv, TypeOK, SortedDisjoint, Sorted, AllApart, Range
<1>4. Sorted(regions') /\ Range(regions') = Range(regions) \cup {r}
  BY <1>1, <1>2, <1>3, InsertedProperties
<1>5. todo' = <<>> /\ Range(todo') = {} /\ cursor' = 0
  BY <1>1 DEF Unlocked, Range
<1>6. TypeOK' /\ SortedDisjoint'
  BY <1>1, <1>4 DEF PhysInv, TypeOK, Sorted, SortedDisjoint
<1>7. AllApart'
  BY <1>1, <1>4, <1>5 DEF PhysInv, AllApart, Apart
<1>8. HeldRounded' /\ MergedSoFar'
  <2>1. Len(regions') \in Nat
    BY <1>4 DEF Sorted
  <2>2. QED BY <1>1, <1>5, <2>1 DEF PhysInv, HeldRounded, MergedSoFar
<1>9. QED BY <1>4, <1>6, <1>7, <1>8 DEF PhysInv

\* merge(): two free regions that adjoin become one.
LEMMA MergeTwo ==
  ASSUME PhysInv, MergeStep, End(regions[cursor]) = regions[cursor + 1].base
  PROVE  LET w == Union(regions[cursor], regions[cursor + 1])
         IN  /\ PhysInv'
             /\ UNCHANGED held
             /\ cursor \in DOMAIN regions /\ cursor + 1 \in DOMAIN regions
             /\ Range(regions') =
                  (Range(regions) \ {regions[cursor], regions[cursor + 1]}) \cup {w}
<1> DEFINE c == cursor
           r == regions[c]
           s == regions[c + 1]
           w == Union(r, s)
<1>1. /\ Sorted(regions) /\ regions \in Seq(Region) /\ Len(regions) \in Nat
      /\ DOMAIN regions = 1 .. Len(regions)
  BY DEF PhysInv, TypeOK, SortedDisjoint, Sorted
<1>2. /\ c \in 1 .. Len(regions) - 1 /\ c \in 1 .. Len(regions) /\ c + 1 \in 1 .. Len(regions)
      /\ c # c + 1
  BY <1>1 DEF MergeStep, PhysInv, TypeOK
<1>3. /\ r \in Region /\ s \in Region /\ r \in Range(regions) /\ s \in Range(regions)
      /\ End(s) <= Top /\ End(r) = s.base
  BY <1>1, <1>2 DEF PhysInv, AllApart, Range
<1>4. w \in Region /\ w.base = r.base /\ End(w) = End(s)
  BY <1>3, UnionProperties
<1>5. /\ regions' = Merged(regions, c, w)
      /\ cursor' = c /\ UNCHANGED <<todo, held>>
  <2>1. [r EXCEPT !.size = @ + s.size] = w
    BY <1>3 DEF Union, Region
  <2>2. /\ regions' = RemoveAt([regions EXCEPT ![c] = [r EXCEPT !.size = @ + s.size]], c + 1)
        /\ cursor' = c /\ UNCHANGED <<todo, held>>
    BY DEF MergeStep, MergedCursor
  <2>3. QED BY ZenonT(60), <2>1, <2>2 DEF Merged
<1> HIDE DEF c, r, s, w
<1>6. /\ regions' \in Seq(Region)
      /\ Len(regions') = Len(regions) - 1
      /\ IsMerged(regions', regions, c, w)
  <2>1. regions \in Seq(Region) /\ c \in 1 .. Len(regions) - 1 /\ w \in Region
    BY <1>1, <1>2, <1>4
  <2>2. QED BY ZenonT(60), <1>5, <2>1, MergedElements
<1>7. Sorted(regions')
  BY <1>1, <1>2, <1>4, <1>6, MergedSorted DEF r, s
<1>8. Range(regions') = (Range(regions) \ {r, s}) \cup {w}
  BY <1>1, <1>2, <1>6, MergedRange DEF r, s
<1>9. todo = <<>> /\ todo' = <<>> /\ Range(todo') = {}
  BY <1>5 DEF PhysInv, MergedSoFar, MergeStep, Range
<1>10. \A h \in held : Apart(w, h)
  <2>1. SUFFICES ASSUME NEW h \in held PROVE Apart(w, h)
    OBVIOUS
  <2>2. h \in Region /\ Apart(r, h) /\ Apart(s, h)
    BY <1>3 DEF PhysInv, TypeOK, AllApart
  <2>3. QED BY <1>3, <1>4, <2>2, SectionsAssumption DEF Apart, End, Region
<1>11. TypeOK' /\ SortedDisjoint'
  BY <1>5, <1>7 DEF PhysInv, TypeOK, Sorted, SortedDisjoint, c
<1>12. AllApart'
  BY <1>3, <1>4, <1>5, <1>8, <1>9, <1>10 DEF PhysInv, AllApart
<1>13. MergedSoFar'
  <2>1. SUFFICES ASSUME NEW i \in 1 .. Len(regions') - 1, i < c
                 PROVE  End(regions'[i]) # regions'[i + 1].base
    BY <1>5, <1>9 DEF MergedSoFar
  <2>2. i \in 1 .. Len(regions) - 1 /\ i + 1 \in 1 .. Len(regions) - 1 /\ ~ (i + 1 > c)
    BY <1>1, <1>2, <1>6, <2>1
  <2>3. regions'[i] = regions[i] /\ regions'[i + 1].base = regions[i + 1].base
    BY <1>2, <1>4, <1>6, <2>1, <2>2 DEF IsMerged, r
  <2>4. QED BY <2>1, <2>2, <2>3 DEF PhysInv, MergedSoFar, c
<1>14. HeldRounded'
  BY <1>5 DEF PhysInv, HeldRounded
<1>15. QED
  BY <1>1, <1>2, <1>5, <1>8, <1>11, <1>12, <1>13, <1>14 DEF PhysInv, c, r, s, w

\* The other steps leave the regions where they are.
LEMMA OtherStep ==
  ASSUME PhysInv,
         \/ MergeStart \/ MergeEnd \/ UNCHANGED vars
         \/ MergeStep /\ End(regions[cursor]) # regions[cursor + 1].base
  PROVE  PhysInv' /\ UNCHANGED <<regions, held>>
<1>1. Len(regions) \in Nat /\ cursor \in Nat
  BY DEF PhysInv, TypeOK
<1>2. UNCHANGED <<regions, todo, held>> /\ cursor' \in Nat
  BY <1>1 DEF MergeStart, MergeEnd, MergeStep, vars
<1>3. MergedSoFar'
  <2>1. CASE MergeStart
    BY <1>1, <1>2, <2>1 DEF MergeStart, Unlocked, MergedSoFar
  <2>2. CASE MergeEnd
    BY <1>1, <1>2, <2>2 DEF MergeEnd, MergedSoFar
  <2>3. CASE UNCHANGED vars
    BY <2>3 DEF PhysInv, MergedSoFar, vars
  <2>4. CASE MergeStep /\ End(regions[cursor]) # regions[cursor + 1].base
    <3>1. cursor' = cursor + 1 /\ cursor > 0
      BY <2>4 DEF MergeStep
    <3>2. \A i \in 1 .. Len(regions) - 1 : i < cursor + 1 => i < cursor \/ i = cursor
      BY <1>1
    <3>3. QED BY <1>2, <2>4, <3>1, <3>2 DEF PhysInv, MergedSoFar
  <2>5. QED BY <2>1, <2>2, <2>3, <2>4
<1>4. QED
  BY <1>2, <1>3 DEF PhysInv, TypeOK, SortedDisjoint, HeldRounded, AllApart

\* Every step keeps the invariant.
LEMMA PhysNext ==
  ASSUME PhysInv, [Next]_vars
  PROVE  PhysInv'
<1>1. ASSUME NEW size \in Requests, AllocRegionFails(size) PROVE PhysInv'
  BY <1>1, OtherStep DEF AllocRegionFails
<1>2. CASE MergeStep
  BY <1>2, MergeTwo, OtherStep
<1>3. QED
  BY <1>1, <1>2, RegisterStep, AllocStep, DeallocStep, OtherStep DEF Next

LEMMA PhysAlways == Spec => []PhysInv
BY PhysInit, PhysNext, PTL DEF Spec

\* Every variable of physmem.rs keeps its type: what alloc_region cuts off and
\* leaves, and what merge makes of two regions, are regions of at least one byte.
THEOREM PhysMemTypes == Spec => []TypeOK
<1>1. PhysInv => TypeOK
  BY DEF PhysInv
<1>2. QED BY <1>1, PhysAlways, PTL

\* The list of free regions is sorted and its regions do not overlap, at every
\* point of every operation of physmem.rs.
THEOREM FreeListCorrect == Spec => []SortedDisjoint
<1>1. PhysInv => SortedDisjoint
  BY DEF PhysInv
<1>2. QED BY <1>1, PhysAlways, PTL

\* What alloc_region hands out is a whole number of units, enough for the size that
\* is asked for and less than a unit more, for any unit and any such size.
THEOREM WholeUnits == Spec => []HeldRounded
<1>1. PhysInv => HeldRounded
  BY DEF PhysInv
<1>2. QED BY <1>1, PhysAlways, PTL

\* When coalesce_regions is done no two regions of the list adjoin.
THEOREM MergeMergesAll == Spec => MergeComplete
<1>1. PhysInv /\ [Next]_vars =>
        [cursor > 0 /\ cursor' = 0 =>
           \A i \in 1 .. Len(regions) - 1 : End(regions[i]) # regions[i + 1].base]_vars
  <2>1. SUFFICES ASSUME PhysInv, Next, cursor > 0, cursor' = 0, NEW i \in 1 .. Len(regions) - 1
                 PROVE  End(regions[i]) # regions[i + 1].base
    BY DEF vars
  <2>2. Len(regions) \in Nat /\ cursor \in Nat
    BY <2>1 DEF PhysInv, TypeOK
  <2>3. cursor >= Len(regions)
    BY <2>1, <2>2
    DEF Next, RegisterSection, AllocRegion, AllocRegionFails, DeallocRegion, MergeStart,
        MergeStep, MergedCursor, MergeEnd, Unlocked, vars
  <2>4. i < cursor
    BY <2>2, <2>3
  <2>5. QED BY <2>1, <2>4 DEF PhysInv, MergedSoFar
<1>2. QED BY <1>1, PhysAlways, PTL DEF Spec, MergeComplete

-----------------------------------------------------------------------------
(* The list implements the pool. *)

\* The addresses of a set of regions.
Cover(R) == UNION {Addresses(r) : r \in R}

Sized == [base : Nat, size : Nat]

\* Addresses of regions that are apart, cut or glued together.
LEMMA AddressesApart ==
  ASSUME NEW r \in Sized, NEW s \in Sized, Apart(r, s)
  PROVE  Addresses(r) \cap Addresses(s) = {}
BY SectionsAssumption DEF Sized, Apart, Addresses, End

LEMMA AddressesCut ==
  ASSUME NEW r \in Sized, NEW n \in Nat, n <= r.size
  PROVE  /\ Addresses(r) = Addresses(Lower(r, n)) \cup Addresses(Upper(r, n))
         /\ Addresses(Lower(r, n)) \cap Addresses(Upper(r, n)) = {}
         /\ n = r.size => Addresses(Upper(r, n)) = {}
BY SectionsAssumption DEF Sized, Lower, Upper, Addresses, End

LEMMA AddressesUnion ==
  ASSUME NEW r \in Sized, NEW s \in Sized, End(r) = s.base
  PROVE  Addresses(Union(r, s)) = Addresses(r) \cup Addresses(s)
BY SectionsAssumption DEF Sized, Union, Addresses, End

LEMMA FreeIsCover == FreeAddresses = Cover(Range(regions))
BY DEF FreeAddresses, Cover, Range

\* The addresses of the pool are those of the list.
LEMMA PoolAddresses == ASSUME NEW r PROVE Pool!Addresses(r) = Addresses(r)
BY DEF Pool!Addresses, Addresses, End

\* What is apart from a set of regions shares no address with it.
LEMMA CoverApart ==
  ASSUME NEW R \in SUBSET Sized, NEW r \in Sized, \A x \in R : Apart(x, r)
  PROVE  Addresses(r) \cap Cover(R) = {}
BY AddressesApart DEF Cover

\* Every step of the list is a step of the pool, or none.
LEMMA PoolStep ==
  ASSUME PhysInv, [Next]_vars
  PROVE  [Pool!Next]_(Pool!poolVars)
<1>1. Region \subseteq Sized
  BY SectionsAssumption DEF Region, Sized
<1>2. Range(regions) \in SUBSET Sized /\ Range(regions) \subseteq Region /\ held \subseteq Region
  BY <1>1 DEF PhysInv, TypeOK, Range
<1>3. CASE RegisterSection
  <2> DEFINE r == todo[1]
  <2>1. r \in Region /\ r \in Range(todo)
    BY <1>3 DEF RegisterSection, PhysInv, TypeOK, Range
  <2>2. End(r) <= Top /\ \A x \in Range(regions) \cup held : Apart(r, x) /\ Apart(x, r)
    BY <2>1 DEF PhysInv, AllApart, Apart
  <2>3. Range(regions') = Range(regions) \cup {r} /\ held' = held
    BY <1>3, RegisterStep DEF RegisterSection
  <2> HIDE DEF r
  <2>4. Cover(Range(regions')) = Cover(Range(regions)) \cup Addresses(r)
    BY <2>3 DEF Cover
  <2>5. Addresses(r) \cap Cover(Range(regions)) = {}
    BY <1>1, <1>2, <2>1, <2>2, CoverApart
  <2>6. \A h \in held : Addresses(r) \cap Addresses(h) = {}
    BY <1>1, <1>2, <2>1, <2>2, AddressesApart
  <2>7. FreeAddresses' = Cover(Range(regions'))
    BY DEF FreeAddresses, Cover, Range
  <2>8. Pool!Register(r)
    BY <2>3, <2>4, <2>5, <2>6, <2>7, FreeIsCover, PoolAddresses DEF Pool!Register
  <2>9. r \in Pool!Region /\ r.base + r.size <= Top
    BY <2>1, <2>2 DEF Pool!Region, Region, End
  <2>10. QED BY <2>8, <2>9 DEF Pool!Next
<1>4. ASSUME NEW size \in Requests, AllocRegion(size) PROVE Pool!Next
  <2> DEFINE n == AdjustedSize(size)
  <2>1. PICK found \in Range(regions) :
          /\ n \in Nat \ {0} /\ n <= found.size
          /\ held' = held \cup {Lower(found, n)}
          /\ Range(regions') = (Range(regions) \ {found}) \cup
               (IF n = found.size THEN {} ELSE {Upper(found, n)})
    BY <1>4, AllocStep
  <2> HIDE DEF n
  <2> DEFINE low == Lower(found, n)
             up == Upper(found, n)
             rest == Range(regions) \ {found}
  <2>2. found \in Region /\ found \in Sized /\ End(found) <= Top
    BY <1>1, <1>2 DEF PhysInv, AllApart
  <2>3. /\ Addresses(found) = Addresses(low) \cup Addresses(up)
        /\ Addresses(low) \cap Addresses(up) = {}
        /\ n = found.size => Addresses(up) = {}
    BY <2>1, <2>2, AddressesCut
  <2>4. low \in Region /\ low \in Sized /\ low.base = found.base /\ low.size = n /\ End(low) <= Top
    BY <2>1, <2>2, SectionsAssumption DEF Lower, Region, Sized, End
  <2>5. \A x \in rest : x \in Sized /\ Apart(x, found)
    <3>1. SUFFICES ASSUME NEW x \in rest PROVE x \in Sized /\ Apart(x, found)
      OBVIOUS
    <3>2. PICK i \in DOMAIN regions : x = regions[i]
      BY DEF Range
    <3>3. PICK j \in DOMAIN regions : found = regions[j]
      BY DEF Range
    <3>4. Sorted(regions)
      BY DEF PhysInv, TypeOK, SortedDisjoint, Sorted
    <3>5. QED BY <1>2, <3>1, <3>2, <3>3, <3>4, SortedApart
  <2>6. low \notin held
    <3>1. SUFFICES ASSUME low \in held PROVE FALSE
      OBVIOUS
    <3>2. Apart(found, low)
      BY <3>1 DEF PhysInv, AllApart
    <3>3. QED BY <2>1, <2>2, <2>4, <3>2, SectionsAssumption DEF Apart, End, Region
  <2> HIDE DEF low, up
  <2>7. Addresses(found) \cap Cover(rest) = {}
    BY <2>2, <2>5, CoverApart
  <2> HIDE DEF rest
  <2>8. Cover(Range(regions)) = Addresses(found) \cup Cover(rest)
    BY <2>1 DEF Cover, rest
  <2>9. Cover(Range(regions')) = Addresses(up) \cup Cover(rest)
    <3>1. CASE n = found.size
      <4>1. Range(regions') = rest
        BY <2>1, <3>1 DEF rest
      <4>2. QED BY <2>3, <3>1, <4>1
    <3>2. CASE n # found.size
      <4>1. Range(regions') = rest \cup {up}
        BY <2>1, <3>2 DEF rest, up
      <4>2. QED BY <4>1 DEF Cover
    <3>3. QED BY <3>1, <3>2
  <2>10. /\ Addresses(low) \subseteq Cover(Range(regions))
         /\ Cover(Range(regions')) = Cover(Range(regions)) \ Addresses(low)
    BY <2>3, <2>7, <2>8, <2>9
  <2>11. FreeAddresses' = Cover(Range(regions'))
    BY DEF FreeAddresses, Cover, Range
  <2>12. Pool!Alloc(low)
    BY <2>1, <2>6, <2>10, <2>11, FreeIsCover, PoolAddresses DEF Pool!Alloc, low
  <2>13. low \in Pool!Region /\ low.base + low.size <= Top
    BY <2>4 DEF Pool!Region, Region, End
  <2>14. QED BY <2>12, <2>13 DEF Pool!Next
<1>5. ASSUME NEW r \in held, DeallocRegion(r) PROVE Pool!Next
  <2>1. Range(regions') = Range(regions) \cup {r} /\ held' = held \ {r}
    BY <1>5, DeallocStep DEF DeallocRegion
  <2>2. Cover(Range(regions')) = Cover(Range(regions)) \cup Addresses(r)
    BY <2>1 DEF Cover
  <2>3. FreeAddresses' = Cover(Range(regions'))
    BY DEF FreeAddresses, Cover, Range
  <2>4. Pool!Dealloc(r)
    BY <2>1, <2>2, <2>3, FreeIsCover, PoolAddresses DEF Pool!Dealloc
  <2>5. r \in Pool!Region /\ r.base + r.size <= Top
    BY <1>2 DEF Pool!Region, Region, End, PhysInv, AllApart
  <2>6. QED BY <2>4, <2>5 DEF Pool!Next
<1>6. CASE MergeStep /\ End(regions[cursor]) = regions[cursor + 1].base
  <2> DEFINE r == regions[cursor]
             s == regions[cursor + 1]
  <2>1. /\ held' = held /\ r \in Range(regions) /\ s \in Range(regions)
        /\ Range(regions') = (Range(regions) \ {r, s}) \cup {Union(r, s)}
    BY <1>6, MergeTwo DEF Range
  <2>2. r \in Sized /\ s \in Sized /\ End(r) = s.base
    BY <1>2, <1>6, <2>1
  <2> HIDE DEF r, s
  <2>3. Addresses(Union(r, s)) = Addresses(r) \cup Addresses(s)
    BY <2>2, AddressesUnion
  <2>4. Cover(Range(regions')) = Cover(Range(regions))
    BY <2>1, <2>3 DEF Cover
  <2>5. FreeAddresses' = Cover(Range(regions'))
    BY DEF FreeAddresses, Cover, Range
  <2>6. QED BY <2>1, <2>4, <2>5, FreeIsCover DEF Pool!poolVars
<1>7. CASE \/ MergeStart \/ MergeEnd \/ UNCHANGED vars
           \/ MergeStep /\ End(regions[cursor]) # regions[cursor + 1].base
  <2>1. UNCHANGED <<regions, held>>
    BY <1>7, OtherStep
  <2>2. QED BY <2>1 DEF Pool!poolVars, FreeAddresses
<1>8. ASSUME NEW size \in Requests, AllocRegionFails(size) PROVE UNCHANGED vars
  BY <1>8 DEF AllocRegionFails
<1>9. QED
  BY <1>3, <1>4, <1>5, <1>6, <1>7, <1>8 DEF Next

\* physmem.rs keeps its promise: through any sequence of alloc_region,
\* dealloc_region and coalesce_regions no RAM is lost, handed out twice, or
\* handed out while free.
THEOREM FreeListIsPool == Spec => ImplementsPool
<1>1. Init => Pool!Init
  BY DEF Init, Pool!Init, FreeAddresses
<1>2. PhysInv /\ [Next]_vars => [Pool!Next]_(Pool!poolVars)
  BY PoolStep
<1>3. QED BY <1>1, <1>2, PhysAlways, PTL DEF Spec, ImplementsPool, Pool!Spec

-----------------------------------------------------------------------------
(* The memory of a capsule: what it reaches through its mapping, and where  *)
(* the loader writes.  A region that is handed out lies within the RAM; the *)
(* rest is arithmetic on the bounds that virtmem.rs and loader.rs compare.  *)

\* A set of numbers that is not empty and bounded has a largest one.
LEMMA MaxProperties ==
  ASSUME NEW n \in Nat, NEW S \in SUBSET (0 .. n), S # {}
  PROVE  Max(S) \in S /\ \A y \in S : y <= Max(S)
<1> DEFINE D == {n - x : x \in S}
<1>1. D \in SUBSET Nat /\ D # {}
  <2>1. \A x \in S : n - x \in Nat
    OBVIOUS
  <2>2. QED BY ZenonT(60), <2>1
<1>2. PICK d \in D : \A e \in D : d <= e
  BY ZenonT(60), <1>1, MinProperties
<1>3. PICK x \in S : d = n - x
  BY ZenonT(60), <1>2
<1>4. \A y \in S : n - x <= n - y
  BY <1>2, <1>3
<1>5. \A y \in S : x >= y
  BY <1>4
<1>6. Max(S) \in S /\ \A y \in S : Max(S) >= y
  BY ZenonT(60), <1>5 DEF Max
<1>7. QED BY <1>6

\* The regions that are handed out, before and after a step.
LEMMA HeldWithin == PhysInv => \A r \in held : r \in Region /\ End(r) <= Top
BY DEF PhysInv, TypeOK, AllApart

LEMMA HeldWithinNext ==
  ASSUME PhysInv, [Next]_vars
  PROVE  \A r \in held' : r \in Region /\ End(r) <= Top
BY PhysNext DEF PhysInv, TypeOK, AllApart

-----------------------------------------------------------------------------
(* The mapping. *)

LEMMA MappingFields ==
  ASSUME NEW r \in Region, NEW m \in Mappings(r)
  PROVE  m.physical_region = r /\ m.virtual_base \in Nat /\ Configured(m)
<1>1. r # None /\ r.base \in Nat
  BY CapsuleMemoryAssumption, SectionsAssumption DEF Region
<1>2. CapsuleMapping(r) = [virtual_base |-> r.base, physical_region |-> r]
  BY ZenonT(60), <1>1 DEF CapsuleMapping, IdentityMapping, SetPhysical, SetVirtual, NewMapping
<1>3. \E v \in Nat : m = [virtual_base |-> v, physical_region |-> r]
  BY <1>1, <1>2, CapsuleMemoryAssumption DEF Mappings, SetVirtual
<1>4. QED BY <1>1, <1>3, CapsuleMemoryAssumption DEF Configured

LEMMA MappingOf ==
  ASSUME NEW r \in Region, End(r) <= Top, NEW m \in Mappings(r)
  PROVE  /\ Reached(m) = Addresses(r)
         /\ \A a \in Addresses(r) : VirtualToPhysical(m, PhysicalToVirtual(m, a)) = a
<1> DEFINE b == m.virtual_base
<1>1. m.physical_region = r /\ b \in Nat /\ Configured(m)
  BY MappingFields
<1>2. r.base \in Nat /\ r.size \in Nat /\ Top \in Nat /\ r.base + r.size <= Top /\ End(r) = r.base + r.size
  BY SectionsAssumption DEF Region, End
<1> HIDE DEF b
<1>3. \A v \in Nat : VirtualToPhysical(m, v) =
        IF b <= v /\ v < b + r.size THEN (v - b) + r.base ELSE None
  BY <1>1, <1>2 DEF VirtualToPhysical, b
<1>4. \A a \in Addresses(r) : PhysicalToVirtual(m, a) = (a - r.base) + b
  BY <1>1, <1>2 DEF PhysicalToVirtual, Addresses, b
<1>5. Reached(m) = {VirtualToPhysical(m, v) : v \in 0 .. b + Top} \ {None}
  BY DEF Reached, b
<1>6. ASSUME NEW a \in Addresses(r) PROVE a \in Reached(m)
  <2>1. a \in Nat /\ r.base <= a /\ a < r.base + r.size
    BY <1>2 DEF Addresses
  <2> DEFINE v == (a - r.base) + b
  <2>2. v \in 0 .. b + Top /\ v \in Nat /\ b <= v /\ v < b + r.size /\ (v - b) + r.base = a
    BY <1>1, <1>2, <2>1
  <2>3. VirtualToPhysical(m, v) = a
    BY <1>3, <2>2
  <2>4. a # None
    BY <2>1, CapsuleMemoryAssumption
  <2>5. QED BY <1>5, <2>2, <2>3, <2>4
<1>7. ASSUME NEW a \in Reached(m) PROVE a \in Addresses(r)
  <2>1. PICK v \in 0 .. b + Top : a = VirtualToPhysical(m, v) /\ a # None
    BY <1>5
  <2>2. b <= v /\ v < b + r.size /\ a = (v - b) + r.base
    BY <1>1, <1>2, <1>3, <2>1
  <2>3. QED BY <1>1, <1>2, <2>2 DEF Addresses
<1>8. ASSUME NEW a \in Addresses(r) PROVE VirtualToPhysical(m, PhysicalToVirtual(m, a)) = a
  <2>1. a \in Nat /\ r.base <= a /\ a < r.base + r.size
    BY <1>2 DEF Addresses
  <2>2. QED BY <1>1, <1>2, <1>3, <1>4, <2>1
<1>9. QED BY <1>6, <1>7, <1>8

\* A capsule reaches the RAM that it holds through its mapping, all of it and
\* nothing else, and virtual_to_physical undoes physical_to_virtual: for any
\* RAM, any region alloc_region hands out and any virtual base.
THEOREM MappingStaysExact == Spec => []MappingExact
<1>1. PhysInv => MappingExact
  BY HeldWithin, MappingOf DEF MappingExact
<1>2. QED BY <1>1, PhysAlways, PTL

-----------------------------------------------------------------------------
(* The loader. *)

LEMMA HeaderTypes ==
  ASSUME NEW image \in Images, NEW r, NEW i \in Copied(r, image)
  PROVE  /\ i \in LoadHeaders(image) /\ i \in 0 .. Len(image.headers) /\ Len(image.headers) \in Nat
         /\ image.headers[i] \in ProgramHeader /\ image.entry \in Nat
         /\ ~TooLarge(r, image.headers[i])
<1>1. image.headers \in Seq(ProgramHeader) /\ image.entry \in Nat
  BY CapsuleMemoryAssumption DEF Image
<1>2. i \in LoadHeaders(image) /\ i \in DOMAIN image.headers
  BY DEF Copied, LoadHeaders
<1>3. i \in 1 .. Len(image.headers) /\ Len(image.headers) \in Nat
  BY <1>1, <1>2, LenProperties
<1>4. ~TooLarge(r, image.headers[i])
  BY <1>2, <1>3 DEF Copied
<1>5. QED BY <1>1, <1>2, <1>3, <1>4, ElementOfSeq

LEMMA CopyInside ==
  ASSUME NEW r \in Region, End(r) <= Top, NEW image \in Images, WellPlaced(image),
         NEW i \in Copied(r, image)
  PROVE  Destination(r, image.headers[i]) \subseteq Addresses(r)
<1> DEFINE h == image.headers[i]
<1>1. h \in ProgramHeader /\ ~TooLarge(r, h) /\ h.paddr <= h.offset /\ h.filesz <= h.memsz
  BY HeaderTypes DEF WellPlaced
<1> HIDE DEF h
<1>2. /\ h.paddr \in Nat /\ h.offset \in Nat /\ h.filesz \in Nat /\ h.memsz \in Nat
      /\ r.base \in Nat /\ r.size \in Nat /\ Top \in Nat
  BY <1>1, SectionsAssumption DEF ProgramHeader, Region
<1>3. h.offset + h.memsz <= r.size /\ r.base + r.size <= Top
  BY <1>1, <1>2 DEF TooLarge, End
<1>4. ASSUME NEW a \in Destination(r, h) PROVE a \in Addresses(r)
  <2>1. PICK k \in 0 .. h.filesz - 1 : a = h.paddr + r.base + k
    BY DEF Destination
  <2>2. QED BY <1>1, <1>2, <1>3, <2>1 DEF Addresses, End
<1>5. QED BY <1>4 DEF h

\* load writes only to the region it is given, if the headers of the image are
\* well placed: for any such image, any region and any RAM.
THEOREM LoadsStayInside == Spec => LoadStaysInside
<1>1. PhysInv /\ [Next]_vars =>
        [\A r \in held' \ held, image \in Images :
           image.elf /\ WellPlaced(image) =>
             \A i \in Copied(r, image) : Destination(r, image.headers[i]) \subseteq Addresses(r)]_vars
  BY HeldWithinNext, CopyInside
<1>2. QED BY <1>1, PhysAlways, PTL DEF Spec, LoadStaysInside

LEMMA EntryOf ==
  ASSUME NEW r \in Region, NEW image \in Images, Loads(r, image),
         LET i == Max(Homes(r, image))
             h == image.headers[i]
             a == EntryPhysical(r, image) + h.paddr
         IN  /\ image.entry < h.vaddr + h.filesz
             /\ \A j \in Copied(r, image) : j > i => a \notin Destination(r, image.headers[j])
  PROVE  LET h == image.headers[Max(Homes(r, image))]
             a == EntryPhysical(r, image) + h.paddr
         IN  /\ a \in Destination(r, h)
             /\ ByteAt(r, image, a) = h.offset + (image.entry - h.vaddr)
<1> DEFINE i == Max(Homes(r, image))
           h == image.headers[i]
           a == EntryPhysical(r, image) + h.paddr
           reaching == {j \in Copied(r, image) : a \in Destination(r, image.headers[j])}
           n == Len(image.headers)
<1>1. Homes(r, image) # {} /\ n \in Nat
  BY LenProperties, CapsuleMemoryAssumption DEF Loads, Image
<1>2. Homes(r, image) \in SUBSET (0 .. n) /\ \A j \in Copied(r, image) : j \in 0 .. n
  BY HeaderTypes DEF Homes
<1> HIDE DEF n
<1>3. i \in Homes(r, image)
  BY ZenonT(60), <1>1, <1>2, MaxProperties
<1>4. i \in Copied(r, image) /\ IsHome(image, h)
  BY <1>3 DEF Homes
<1>5. h \in ProgramHeader /\ image.entry \in Nat
  BY <1>4, HeaderTypes
<1>6. a = (image.entry - h.vaddr) + r.base + h.paddr
  BY DEF EntryPhysical
<1>7. /\ image.entry < h.vaddr + h.filesz
      /\ \A j \in Copied(r, image) : j > i => a \notin Destination(r, image.headers[j])
  OBVIOUS
<1> HIDE DEF i, h, a
<1>8. /\ h.vaddr \in Nat /\ h.paddr \in Nat /\ h.offset \in Nat /\ h.filesz \in Nat /\ r.base \in Nat
      /\ h.vaddr <= image.entry
  BY <1>4, <1>5, SectionsAssumption DEF ProgramHeader, Region, IsHome
<1>9. a \in Destination(r, h)
  <2>1. image.entry - h.vaddr \in 0 .. h.filesz - 1
    BY <1>5, <1>7, <1>8
  <2>2. a = h.paddr + r.base + (image.entry - h.vaddr)
    BY <1>5, <1>6, <1>7, <1>8
  <2>3. QED BY <2>1, <2>2 DEF Destination
<1>10. i \in reaching
  BY <1>4, <1>9 DEF h
<1>11. reaching \in SUBSET (0 .. n) /\ \A j \in reaching : ~(j > i)
  BY <1>2, <1>7
<1>12. Max(reaching) \in reaching /\ \A j \in reaching : j <= Max(reaching)
  BY ZenonT(60), <1>1, <1>10, <1>11, MaxProperties
<1>13. Max(reaching) = i
  <2> HIDE DEF reaching
  <2>1. Max(reaching) \in 0 .. n /\ i \in 0 .. n /\ i <= Max(reaching) /\ ~(Max(reaching) > i)
    BY ZenonT(60), <1>10, <1>11, <1>12
  <2>2. QED BY <1>1, <2>1
<1>14. ByteAt(r, image, a) = h.offset + (a - (h.paddr + r.base))
  BY ZenonT(60), <1>13 DEF ByteAt, h
<1>15. a - (h.paddr + r.base) = image.entry - h.vaddr
  BY <1>5, <1>6, <1>7, <1>8
<1>16. QED BY <1>9, <1>14, <1>15 DEF i, h, a

\* The byte that the image's entry point names is copied to the address load
\* returns plus the physical address of its header, if it is stored in the file
\* and no later header is copied over it: for any such image and any RAM.
THEOREM EntriesLoaded == Spec => EntryIsLoaded
<1>1. PhysInv /\ [Next]_vars =>
        [\A r \in held' \ held, image \in Images :
           Loads(r, image) =>
             LET i == Max(Homes(r, image))
                 h == image.headers[i]
                 a == EntryPhysical(r, image) + h.paddr
             IN  (/\ image.entry < h.vaddr + h.filesz
                  /\ \A j \in Copied(r, image) : j > i => a \notin Destination(r, image.headers[j]))
                 => /\ a \in Destination(r, h)
                    /\ ByteAt(r, image, a) = h.offset + (image.entry - h.vaddr)]_vars
  BY HeldWithinNext, EntryOf
<1>2. QED BY <1>1, PhysAlways, PTL DEF Spec, EntryIsLoaded

=============================================================================
