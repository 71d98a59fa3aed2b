------------------------------ MODULE PhysMem -------------------------------
(***************************************************************************)
(* The physical memory manager (physmem.rs): a list of the free regions of *)
(* RAM, sorted by base address.  Allocation cuts the lower part off the    *)
(* first region that is large enough; deallocation inserts a region where  *)
(* it belongs; housekeeping merges regions that adjoin.                    *)
(*                                                                         *)
(* Every operation holds the lock of REGIONS from start to end.  An        *)
(* operation is one step, except init and merge, whose loops take one step *)
(* per iteration, with the lock held in between.                           *)
(*                                                                         *)
(* The callers are capsules: they ask for sizes in Requests and give back  *)
(* what they were given (Capsule::drop).  Addresses are in units in which  *)
(* the largest address fits a machine word.                                *)
(***************************************************************************)
EXTENDS Naturals, Sequences, FiniteSetsExt, SequencesExt

CONSTANTS
  Top,        \* every address of the RAM is below Top
  Sections,   \* the sections validate_ram returns, in its order
  MinSize,    \* PHYS_RAM_REGION_MIN_SIZE
  Requests    \* the sizes callers ask alloc_region for

Region == [base : 0 .. Top, size : 1 .. Top]

End(r) == r.base + r.size

\* validate_ram (external) breaks the RAM into sections that do not overlap.
ASSUME SectionsAssumption ==
  /\ Top \in Nat
  /\ Sections \in Seq(Region)
  /\ \A i \in DOMAIN Sections : End(Sections[i]) <= Top
  /\ \A i, j \in DOMAIN Sections :
       i # j => End(Sections[i]) <= Sections[j].base \/ End(Sections[j]) <= Sections[i].base
ASSUME SizesAssumption == MinSize \in Nat \ {0} /\ Requests \subseteq Nat \ {0}

VARIABLES
  regions,   \* REGIONS
  todo,      \* the sections init() has not registered yet
  cursor,    \* merge(): where it is in the list, 0 when it is not running
  held       \* the regions that were handed out and not given back

vars == <<regions, todo, cursor, held>>

\* No loop holds the lock of REGIONS.
Unlocked == todo = <<>> /\ cursor = 0

-----------------------------------------------------------------------------
\* SortedRegions::insert stops at a region that is above r ...
Above(s, r) == End(r) <= s.base

\* ... or that r starts in, which is an error.
Collides(s, r) == r.base >= s.base /\ r.base < End(s)

\* Mutant: a region that just touches the next one is not below it.
InsertionPoints_Strict(list, r) ==
  {i \in DOMAIN list : End(r) < list[i].base \/ Collides(list[i], r)}

InsertionPoints(list, r) == {i \in DOMAIN list : Above(list[i], r) \/ Collides(list[i], r)}

\* Mutant: an empty region is inserted like any other.
NothingToInsert_Never(r) == FALSE

\* insert ignores an empty region.
NothingToInsert(r) == r.size = 0

\* The list insert leaves; all callers ignore the error it may return.
Inserted(list, r) ==
  IF NothingToInsert(r) THEN list
  ELSE IF InsertionPoints(list, r) = {} THEN Append(list, r)
  ELSE LET i == Min(InsertionPoints(list, r))
       IN  IF Above(list[i], r) THEN InsertAt(list, i, r) ELSE list

\* SortedRegions::find takes the first region that is large enough.
Fitting(list, size) == {i \in DOMAIN list : list[i].size >= size}

\* Mutant: a size that is a multiple already is rounded up to the next one.
AdjustedSize_Always(size) == size - (size % MinSize) + MinSize

\* alloc_region rounds a size up to a multiple of the minimum size.
AdjustedSize(size) ==
  IF size % MinSize = 0 THEN size ELSE (size - (size % MinSize)) + MinSize

\* Region::split
Lower(r, count) == [base |-> r.base, size |-> count]

\* Mutant: the upper part starts where the region did.
Upper_SameBase(r, count) == [base |-> r.base, size |-> r.size - count]

Upper(r, count) == [base |-> r.base + count, size |-> r.size - count]

-----------------------------------------------------------------------------
Init ==
  /\ regions = <<>>
  /\ todo = Sections
  /\ cursor = 0
  /\ held = {}

\* One iteration of the loops of init().
RegisterSection ==
  /\ todo # <<>>
  /\ regions' = Inserted(regions, Head(todo))
  /\ todo' = Tail(todo)
  /\ UNCHANGED <<cursor, held>>

\* alloc_region: the lower part of the region found goes to the caller, the
\* upper part back to the list.
AllocRegion(size) ==
  /\ Unlocked
  /\ Fitting(regions, AdjustedSize(size)) # {}
  /\ LET i == Min(Fitting(regions, AdjustedSize(size)))
         found == regions[i]
     IN  /\ regions' = Inserted(RemoveAt(regions, i), Upper(found, AdjustedSize(size)))
         /\ held' = held \cup {Lower(found, AdjustedSize(size))}
  /\ UNCHANGED <<todo, cursor>>

\* alloc_region returns PhysNotEnoughFreeRAM.
AllocRegionFails(size) ==
  /\ Unlocked
  /\ Fitting(regions, AdjustedSize(size)) = {}
  /\ UNCHANGED vars

\* dealloc_region
DeallocRegion(r) ==
  /\ Unlocked
  /\ r \in held
  /\ regions' = Inserted(regions, r)
  /\ held' = held \ {r}
  /\ UNCHANGED <<todo, cursor>>

\* coalesce_regions: SortedRegions::merge starts ...
MergeStart ==
  /\ Unlocked
  /\ cursor' = 1
  /\ UNCHANGED <<regions, todo, held>>

\* Mutant: the cursor moves on after a merge.
MergedCursor_MovesOn == cursor + 1

\* Where the cursor is after a merge: it stays, as the next one may adjoin too.
MergedCursor == cursor

\* ... absorbs the next region if it adjoins, or moves on ...
MergeStep ==
  /\ cursor > 0
  /\ cursor < Len(regions)
  /\ IF End(regions[cursor]) = regions[cursor + 1].base
     THEN /\ regions' = RemoveAt([regions EXCEPT ![cursor].size = @ + regions[cursor + 1].size],
                                 cursor + 1)
          /\ cursor' = MergedCursor
     ELSE /\ cursor' = cursor + 1
          /\ UNCHANGED regions
  /\ UNCHANGED <<todo, held>>

\* ... and stops at the end of the list.
MergeEnd ==
  /\ cursor > 0
  /\ cursor >= Len(regions)
  /\ cursor' = 0
  /\ UNCHANGED <<regions, todo, held>>

Next ==
  \/ RegisterSection
  \/ \E size \in Requests : AllocRegion(size) \/ AllocRegionFails(size)
  \/ \E r \in held : DeallocRegion(r)
  \/ MergeStart \/ MergeStep \/ MergeEnd

Spec == Init /\ [][Next]_vars

-----------------------------------------------------------------------------
Addresses(r) == {a \in 0 .. Top - 1 : r.base <= a /\ a < End(r)}

FreeAddresses == UNION {Addresses(regions[i]) : i \in DOMAIN regions}

\* Every variable keeps its type.
TypeOK ==
  /\ regions \in Seq(Region)
  /\ todo \in Seq(Region)
  /\ cursor \in Nat
  /\ held \subseteq Region

\* "this list must also be sorted, by base address, lowest first" (physmem.rs):
\* the free regions are in order and do not overlap, at every point of every
\* operation, whatever was allocated and freed before.
SortedDisjoint ==
  \A i, j \in DOMAIN regions : i < j => End(regions[i]) <= regions[j].base

\* alloc_region: "rounded up to next multiple of PHYS_RAM_REGION_MIN_SIZE": what
\* a caller holds is a whole number of units, enough for a size that is asked for
\* and less than a unit more.
HeldRounded ==
  \A r \in held :
    /\ r.size % MinSize = 0
    /\ \E n \in Requests : n <= r.size /\ r.size < n + MinSize

\* "merge all adjoining free regions": when merge is done, no two regions of the
\* list adjoin.
MergeComplete ==
  [][cursor > 0 /\ cursor' = 0 =>
       \A i \in 1 .. Len(regions) - 1 : End(regions[i]) # regions[i + 1].base]_vars

Pool == INSTANCE RamPool WITH free <- FreeAddresses

\* The list and its operations implement the pool of RAM of RamPool: no RAM is
\* lost, handed out twice, or handed out while free, through any sequence of
\* alloc_region, dealloc_region and coalesce_regions.  An insert that failed,
\* whose error all three callers drop, would lose RAM.
ImplementsPool == Pool!Spec
=============================================================================
