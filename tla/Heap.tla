------------------------------- MODULE Heap ---------------------------------
(***************************************************************************)
(* The private heap of a physical core (heap.rs): a linked list of blocks, *)
(* first fit, new blocks carved off the end of a free one and put at the   *)
(* head of the list, and a pass that merges neighbours when nothing fits.  *)
(*                                                                         *)
(* Only the core the heap belongs to allocates from it and changes the     *)
(* list.  Memory moves between cores, so any core may free a block, at any *)
(* point of the owner's search: free() just writes the magic word.  A step *)
(* of the owner is one block of a pass over the list.                      *)
(*                                                                         *)
(* The list is the sequence of its blocks, head first; the address of a    *)
(* block is the address of its header.                                     *)
(***************************************************************************)
EXTENDS Naturals, Sequences, FiniteSets, SequencesExt

CONSTANTS
  HeapSize,         \* bytes in the heap
  HEAP_BLOCK_SIZE,
  HeaderSize,       \* size_of::<HeapBlock>()
  Requests,         \* the sizes asked for; Rust never asks for 0 bytes
  Remote            \* TRUE if other cores free blocks while the owner allocates

ASSUME SizesAssumption ==
  /\ HeapSize \in Nat
  /\ HEAP_BLOCK_SIZE \in Nat \ {0}
  /\ HeaderSize \in 1 .. HeapSize
  /\ Requests \subseteq Nat \ {0}
  /\ Remote \in BOOLEAN

VARIABLES
  blocks,    \* the list that starts at block_list_head
  pc,        \* where the owner is: "idle", or in "search", "merge" or "corner"
  at,        \* the block it looks at
  bytes,     \* the size asked for
  largest,   \* largest_merged_block
  held,      \* the allocations not freed yet: the block's address, the size asked for
  lateFree   \* a block was freed during the owner's alloc

vars == <<blocks, pc, at, bytes, largest, held, lateFree>>

Block == [addr : 0 .. HeapSize - 1, size : 1 .. HeapSize, magic : {"Free", "InUse"}]

End(b) == b.addr + b.size

\* The block alloc needs for n bytes: header included, and rounded up to the
\* next multiple of HEAP_BLOCK_SIZE, also from a size that is one already.
SizeReq(n) == ((n + HeaderSize) \div HEAP_BLOCK_SIZE + 1) * HEAP_BLOCK_SIZE

\* Mutant: a block in use fits as well.
Fits_AnyMagic(b) == b.size >= SizeReq(bytes)

\* The test alloc makes on each block.
Fits(b) == b.magic = "Free" /\ b.size >= SizeReq(bytes)

\* Free and a neighbour: b ends where c, also free, starts.
Mergeable(b, c) == b.magic = "Free" /\ c.magic = "Free" /\ End(b) = c.addr

Larger(a, b) == IF a > b THEN a ELSE b

-----------------------------------------------------------------------------
\* Heap::init: one free block.
Init ==
  /\ blocks = <<[addr |-> 0, size |-> HeapSize, magic |-> "Free"]>>
  /\ pc = "idle"
  /\ at = 1
  /\ bytes = 0
  /\ largest = 0
  /\ held = {}
  /\ lateFree = FALSE

\* free, by any core; Rust frees what was allocated, once.  The owner does so
\* between two allocations.
Free(h) ==
  /\ Remote \/ pc = "idle"
  /\ h \in held
  /\ blocks' = [i \in DOMAIN blocks |->
                  IF blocks[i].addr = h.addr THEN [blocks[i] EXCEPT !.magic = "Free"]
                                             ELSE blocks[i]]
  /\ held' = held \ {h}
  /\ lateFree' = (pc # "idle")
  /\ UNCHANGED <<pc, at, bytes, largest>>

\* alloc starts at the head of the list ...
AllocStart(n) ==
  /\ pc = "idle"
  /\ pc' = "search"
  /\ at' = 1
  /\ bytes' = n
  /\ lateFree' = FALSE
  /\ UNCHANGED <<blocks, largest, held>>

\* alloc is done, with the block at address a.
Return(a) ==
  /\ held' = held \cup {[addr |-> a, bytes |-> bytes]}
  /\ pc' = "idle"
  /\ at' = 1
  /\ bytes' = 0
  /\ UNCHANGED <<largest, lateFree>>

\* ... takes a free block of about the right size as it is ...
TakeWhole ==
  /\ pc = "search"
  /\ Fits(blocks[at])
  /\ blocks[at].size - SizeReq(bytes) < HEAP_BLOCK_SIZE
  /\ blocks' = [blocks EXCEPT ![at].magic = "InUse"]
  /\ Return(blocks[at].addr)

\* Mutant: the free block keeps its size.
Shortened_Not == blocks

\* The list with what is carved off taken from the free block.
Shortened == [blocks EXCEPT ![at].size = @ - SizeReq(bytes)]

\* ... or carves the end off a larger one ...
Carve ==
  /\ pc = "search"
  /\ Fits(blocks[at])
  /\ blocks[at].size - SizeReq(bytes) >= HEAP_BLOCK_SIZE
  /\ LET a == End(blocks[at]) - SizeReq(bytes)
     IN  /\ blocks' = <<[addr |-> a, size |-> SizeReq(bytes), magic |-> "InUse"]>> \o Shortened
         /\ Return(a)

\* Mutant: the search runs off the end.
HasNext_PastEnd == at <= Len(blocks)

\* The block the owner looks at has a next one.
HasNext == at < Len(blocks)

\* ... or tries the next one, or, at the end of the list, to merge blocks.
SearchOn ==
  /\ pc = "search"
  /\ ~Fits(blocks[at])
  /\ IF HasNext
     THEN at' = at + 1 /\ UNCHANGED <<pc, largest>>
     ELSE at' = 1 /\ pc' = "merge" /\ largest' = 0
  /\ UNCHANGED <<blocks, bytes, held, lateFree>>

\* Mutant: the largest block seen, merged or not, as the comment has it.
LargestSeen_Any(old, b) == Larger(old, b.size)

\* consolidate: the largest block that came out of a merge, after block b did not.
LargestSeen(old, b) == old

\* One iteration of consolidate; it moves on after a merge as well.
MergeStep ==
  /\ pc = "merge"
  /\ HasNext
  /\ LET b == blocks[at]
         c == blocks[at + 1]
     IN  IF Mergeable(b, c)
         THEN /\ blocks' = RemoveAt([blocks EXCEPT ![at].size = b.size + c.size], at + 1)
              /\ largest' = Larger(largest, b.size + c.size)
         ELSE /\ largest' = LargestSeen(largest, b)
              /\ UNCHANGED blocks
  /\ at' = at + 1
  /\ UNCHANGED <<pc, bytes, held, lateFree>>

MergeEnd ==
  /\ pc = "merge"
  /\ ~HasNext
  /\ pc' = "corner"
  /\ at' = 1
  /\ UNCHANGED <<blocks, bytes, largest, held, lateFree>>

\* Mutant: the two blocks are compared in the order of the pass.
CornerCase_SameOrder == Len(blocks) > 1 /\ Mergeable(blocks[1], blocks[2])

\* The first block of the list lies right above the second, and both are free.
CornerCase == Len(blocks) > 1 /\ Mergeable(blocks[2], blocks[1])

\* consolidate glues these two together and returns; alloc starts over if there
\* was any merge, and gives up if not.
Corner ==
  /\ pc = "corner"
  /\ LET merged == blocks[2].size + blocks[1].size
         found  == IF CornerCase THEN Larger(largest, merged) ELSE largest
     IN  /\ blocks' = IF CornerCase THEN Tail([blocks EXCEPT ![2].size = merged]) ELSE blocks
         /\ pc' = IF found < HEAP_BLOCK_SIZE THEN "idle" ELSE "search"
         /\ bytes' = IF found < HEAP_BLOCK_SIZE THEN 0 ELSE bytes
  /\ largest' = 0
  /\ UNCHANGED <<at, held, lateFree>>

AllocStep == TakeWhole \/ Carve \/ SearchOn \/ MergeStep \/ MergeEnd \/ Corner

Next ==
  \/ \E h \in held : Free(h)
  \/ \E n \in Requests : AllocStart(n)
  \/ AllocStep

\* The owner runs alloc to its end: it waits for nobody.
Spec == Init /\ [][Next]_vars /\ WF_vars(AllocStep)

-----------------------------------------------------------------------------
\* Every variable keeps its type.
TypeOK ==
  /\ blocks \in Seq(Block)
  /\ pc \in {"idle", "search", "merge", "corner"}
  /\ at \in 1 .. Len(blocks)
  /\ bytes \in Requests \cup {0}
  /\ largest \in 0 .. HeapSize
  /\ held \subseteq [addr : 0 .. HeapSize - 1, bytes : Requests]
  /\ lateFree \in BOOLEAN

\* The blocks of the list cover the heap, each byte once, whatever the order in
\* which alloc, free and consolidate cut and merged them: no byte of the heap is
\* lost, and no two blocks overlap.
Tiling ==
  \A a \in 0 .. HeapSize - 1 :
    Cardinality({i \in DOMAIN blocks : blocks[i].addr <= a /\ a < End(blocks[i])}) = 1

\* The blocks in use are the ones that are allocated, one for each, and large
\* enough: consolidate does not merge a block someone holds, and alloc does not
\* hand out one twice, with frees of other cores at any moment.
HeldExactly ==
  LET used == {i \in DOMAIN blocks : blocks[i].magic = "InUse"}
  IN  /\ Cardinality(used) = Cardinality(held)
      /\ \A h \in held : \E i \in used :
           blocks[i].addr = h.addr /\ HeaderSize + h.bytes <= blocks[i].size

\* alloc gives up only if no block fits and consolidate has nothing left that it
\* could merge: no free block lies right below its successor in the list, and the
\* first two are not free and the other way round.  Blocks that adjoin in another
\* order of the list are left apart: "squeeze any more bytes out" is no more than
\* this.  A block freed by another core during the search may be missed.
FailsOnlyIfFull ==
  [][pc = "corner" /\ pc' = "idle" /\ ~lateFree =>
       /\ \A i \in DOMAIN blocks :
            blocks[i].magic = "Free" => blocks[i].size < SizeReq(bytes)
       /\ \A i \in 1 .. Len(blocks) - 1 : ~Mergeable(blocks[i], blocks[i + 1])
       /\ ~(Len(blocks) > 1 /\ Mergeable(blocks[2], blocks[1]))]_vars

\* alloc's loop, which starts over after each merge, ends: the allocator never
\* hangs a core, however the heap is fragmented.
AllocEnds == pc # "idle" ~> pc = "idle"
=============================================================================
