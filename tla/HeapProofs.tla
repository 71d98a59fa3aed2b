----------------------------- MODULE HeapProofs -----------------------------
(***************************************************************************)
(* The blocks of a heap tile it, and those in use are the ones someone     *)
(* holds, for any sizes, any requests, and frees of other cores at any     *)
(* moment of the owner's search.                                           *)
(*                                                                         *)
(* consolidate steps over the block it has just merged, which would take   *)
(* it past the end of the list if it ever merged the last one.  It does    *)
(* not: the last block of the list is always the one at the start of the   *)
(* heap (new blocks are carved off the end of a block and go to the head   *)
(* of the list), so that nothing ends where it starts.                     *)
(***************************************************************************)
EXTENDS Heap, SequenceTheorems, TLAPS

\* The provers a leaf that names none is tried with, in this order.
USE SMTT(20), ZenonT(60), Z3T(60), SMTT(40)

\* Two blocks that share no byte.
Apart(b, c) == End(b) <= c.addr \/ End(c) <= b.addr

Covers(b, a) == b.addr <= a /\ a < End(b)

\* The list of blocks, whatever is in use.
Shape(list) ==
  /\ list \in Seq(Block) /\ Len(list) > 0
  /\ list[Len(list)].addr = 0
  /\ \A i \in 1 .. Len(list) : End(list[i]) <= HeapSize
  /\ \A i, j \in 1 .. Len(list) : i # j => Apart(list[i], list[j])
  /\ \A a \in 0 .. HeapSize - 1 : \E i \in 1 .. Len(list) : Covers(list[i], a)
  /\ Len(list) > 1 => \A i \in 1 .. Len(list) : list[i].size >= HEAP_BLOCK_SIZE

\* A block in use for each allocation, an allocation for each block in use.
Matched(list, allocs) ==
  /\ \A h \in allocs : \E i \in 1 .. Len(list) :
       /\ list[i].magic = "InUse" /\ list[i].addr = h.addr
       /\ HeaderSize + h.bytes <= list[i].size
  /\ \A i \in 1 .. Len(list) :
       list[i].magic = "InUse" => \E h \in allocs : h.addr = list[i].addr
  /\ \A g, h \in allocs : g.addr = h.addr => g = h

\* How far alloc has got.  As long as nobody else frees a block: no block that
\* the search has passed fits, and a pass of consolidate that has merged
\* nothing has found nothing to merge.
SearchInv ==
  /\ pc \in {"idle", "corner"} => at = 1
  /\ pc # "idle" => bytes \in Requests
  /\ pc \in {"merge", "corner"} => largest = 0 \/ largest >= HEAP_BLOCK_SIZE
  /\ pc = "search" /\ ~lateFree => \A i \in 1 .. at - 1 : ~Fits(blocks[i])
  /\ pc \in {"merge", "corner"} /\ ~lateFree /\ largest = 0 =>
       /\ \A i \in 1 .. Len(blocks) : ~Fits(blocks[i])
       /\ \A i \in 1 .. Len(blocks) - 1 :
            pc = "corner" \/ i < at => ~Mergeable(blocks[i], blocks[i + 1])

HeapInv == TypeOK /\ Shape(blocks) /\ Matched(blocks, held) /\ SearchInv

-----------------------------------------------------------------------------
(* Sizes, and the list operations. *)

\* The size alloc looks for is enough for the request and its header, and at
\* least a block.
LEMMA SizeReqProperties ==
  ASSUME NEW n \in Nat
  PROVE  /\ SizeReq(n) \in Nat /\ SizeReq(n) >= HEAP_BLOCK_SIZE
         /\ SizeReq(n) >= HeaderSize + n
<1> DEFINE x == n + HeaderSize
           q == x \div HEAP_BLOCK_SIZE
<1>1. HEAP_BLOCK_SIZE \in Nat \ {0} /\ HeaderSize \in Nat /\ x \in Nat
  BY SizesAssumption
<1>2. /\ x = HEAP_BLOCK_SIZE * q + (x % HEAP_BLOCK_SIZE) /\ q \in Nat
      /\ x % HEAP_BLOCK_SIZE \in 0 .. HEAP_BLOCK_SIZE - 1
  BY <1>1
<1>3. SizeReq(n) = (q + 1) * HEAP_BLOCK_SIZE
  BY DEF SizeReq
<1> HIDE DEF x, q
<1>4. (q + 1) * HEAP_BLOCK_SIZE = HEAP_BLOCK_SIZE * q + HEAP_BLOCK_SIZE
  BY <1>1, <1>2
<1>5. HEAP_BLOCK_SIZE * q \in Nat
  BY <1>1, <1>2
<1>6. QED BY <1>1, <1>2, <1>3, <1>4, <1>5 DEF x

\* The index that an element had before the one at k was removed.
Skip(k, j) == IF j < k THEN j ELSE j + 1

\* Every index but k is one.
LEMMA SkipProperties ==
  ASSUME NEW n \in Nat, NEW k \in 1 .. n
  PROVE  /\ \A j \in 1 .. n - 1 : Skip(k, j) \in 1 .. n /\ Skip(k, j) # k
         /\ \A i, j \in 1 .. n - 1 : Skip(k, i) = Skip(k, j) => i = j
         /\ \A i \in 1 .. n : i # k => \E j \in 1 .. n - 1 : Skip(k, j) = i
         /\ k < n => Skip(k, n - 1) = n
<1>1. /\ \A j \in 1 .. n - 1 : Skip(k, j) \in 1 .. n /\ Skip(k, j) # k
      /\ \A i, j \in 1 .. n - 1 : Skip(k, i) = Skip(k, j) => i = j
      /\ k < n => Skip(k, n - 1) = n
  BY DEF Skip
<1>2. ASSUME NEW i \in 1 .. n, i # k PROVE \E j \in 1 .. n - 1 : Skip(k, j) = i
  <2>1. CASE i < k
    BY <2>1 DEF Skip
  <2>2. CASE i > k
    <3>1. i - 1 \in 1 .. n - 1 /\ Skip(k, i - 1) = i
      BY <2>2 DEF Skip
    <3>2. QED BY <3>1
  <2>3. QED BY <1>2, <2>1, <2>2
<1>3. QED BY <1>1, <1>2

\* What is left of a list without its k-th element.
LEMMA Removed ==
  ASSUME NEW S, NEW list \in Seq(S), NEW k \in 1 .. Len(list)
  PROVE  /\ RemoveAt(list, k) \in Seq(S) /\ Len(RemoveAt(list, k)) = Len(list) - 1
         /\ \A j \in 1 .. Len(list) - 1 : RemoveAt(list, k)[j] = list[Skip(k, j)]
<1> DEFINE low == SubSeq(list, 1, k - 1)
           high == SubSeq(list, k + 1, Len(list))
           all == low \o high
<1>1. Len(list) \in Nat /\ \A j \in 1 .. Len(list) : list[j] \in S
  OBVIOUS
<1>2. low \in Seq(S) /\ Len(low) = k - 1 /\ \A j \in 1 .. k - 1 : low[j] = list[j]
  BY <1>1, SubSeqProperties
<1>3. /\ high \in Seq(S) /\ Len(high) = Len(list) - k
      /\ \A j \in 1 .. Len(list) - k : high[j] = list[k + j]
  BY <1>1, SubSeqProperties
<1>4. RemoveAt(list, k) = all
  BY DEF RemoveAt
<1> HIDE DEF low, high
<1>5. /\ all \in Seq(S) /\ Len(all) = Len(low) + Len(high)
      /\ \A j \in 1 .. Len(low) + Len(high) :
           all[j] = IF j <= Len(low) THEN low[j] ELSE high[j - Len(low)]
  BY ZenonT(60), <1>2, <1>3, ConcatProperties
<1> HIDE DEF all
<1>6. Len(all) = Len(list) - 1 /\ Len(low) + Len(high) = Len(list) - 1
  BY <1>1, <1>2, <1>3, <1>5
<1>7. ASSUME NEW j \in 1 .. Len(list) - 1 PROVE all[j] = list[Skip(k, j)]
  <2>1. CASE j < k
    BY <1>1, <1>2, <1>5, <1>6, <2>1 DEF Skip
  <2>2. CASE j >= k
    <3>1. /\ j - (k - 1) \in 1 .. Len(list) - k /\ k + (j - (k - 1)) = j + 1
          /\ ~ (j <= k - 1) /\ ~ (j < k)
      BY <1>1, <2>2
    <3>2. all[j] = high[j - (k - 1)]
      BY <1>2, <1>5, <1>6, <3>1
    <3>3. QED BY <1>3, <3>1, <3>2 DEF Skip
  <2>3. QED BY <1>1, <2>1, <2>2
<1>8. QED BY <1>4, <1>5, <1>6, <1>7

-----------------------------------------------------------------------------
(* Marking, merging and carving blocks. *)

LEMMA BlockNumbers ==
  ASSUME NEW list, Shape(list)
  PROVE  /\ Len(list) \in Nat
         /\ \A i \in 1 .. Len(list) :
              /\ list[i] \in Block
              /\ list[i].addr \in Nat /\ list[i].size \in Nat /\ list[i].size > 0
              /\ End(list[i]) = list[i].addr + list[i].size
              /\ End(list[i]) \in Nat /\ End(list[i]) <= HeapSize
<1>1. list \in Seq(Block) /\ Len(list) \in Nat /\ \A i \in 1 .. Len(list) : list[i] \in Block
  BY DEF Shape
<1>2. \A b \in Block : b.addr \in Nat /\ b.size \in Nat /\ b.size > 0
  BY SizesAssumption DEF Block
<1>3. \A i \in 1 .. Len(list) : End(list[i]) <= HeapSize
  BY DEF Shape
<1>4. QED BY <1>1, <1>2, <1>3 DEF End

\* The magic words do not matter to the shape.
LEMMA MarkedShape ==
  ASSUME NEW list, Shape(list), NEW new \in Seq(Block), Len(new) = Len(list),
         \A i \in 1 .. Len(list) : new[i].addr = list[i].addr /\ new[i].size = list[i].size
  PROVE  Shape(new)
<1>1. \A i \in 1 .. Len(list) : End(new[i]) = End(list[i])
  BY DEF End
<1>2. \A i, j \in 1 .. Len(list) : Apart(list[i], list[j]) => Apart(new[i], new[j])
  BY <1>1 DEF Apart
<1>3. \A i \in 1 .. Len(list), a \in 0 .. HeapSize - 1 : Covers(list[i], a) => Covers(new[i], a)
  BY <1>1 DEF Covers
<1>4. Len(list) \in Nat /\ Len(list) > 0
  BY DEF Shape
<1>5. QED BY <1>1, <1>2, <1>3, <1>4 DEF Shape

\* The list with block k added to block i, which ends where it starts.
Grown(list, i, k) == [list EXCEPT ![i].size = list[i].size + list[k].size]

\* The block that is merged into its neighbour is not the last one.
LEMMA NotLast ==
  ASSUME NEW list, Shape(list), NEW i \in 1 .. Len(list), NEW k \in 1 .. Len(list),
         End(list[i]) = list[k].addr
  PROVE  k < Len(list) /\ i # k
<1>1. /\ Len(list) \in Nat
      /\ list[i].addr \in Nat /\ list[i].size \in Nat /\ list[i].size > 0
      /\ End(list[i]) = list[i].addr + list[i].size
  BY BlockNumbers
<1>2. list[Len(list)].addr = 0
  BY DEF Shape
<1>3. list[k].addr # 0 /\ list[k].addr # list[i].addr
  BY <1>1
<1>4. k # Len(list) /\ i # k
  BY <1>2, <1>3
<1>5. QED BY <1>1, <1>4

LEMMA GrownProperties ==
  ASSUME NEW list, Shape(list), NEW i \in 1 .. Len(list), NEW k \in 1 .. Len(list),
         End(list[i]) = list[k].addr
  PROVE  /\ Grown(list, i, k) \in Seq(Block) /\ Len(Grown(list, i, k)) = Len(list)
         /\ \A x \in 1 .. Len(list) :
              /\ x # i => Grown(list, i, k)[x] = list[x]
              /\ Grown(list, i, k)[x].addr = list[x].addr
              /\ Grown(list, i, k)[x].magic = list[x].magic
         /\ Grown(list, i, k)[i].size = list[i].size + list[k].size
         /\ End(Grown(list, i, k)[i]) = End(list[k])
<1> DEFINE b == [list[i] EXCEPT !.size = list[i].size + list[k].size]
           new == [list EXCEPT ![i] = b]
<1>1. /\ list \in Seq(Block) /\ list[i] \in Block /\ list[k] \in Block
      /\ End(list[k]) = list[i].addr + (list[i].size + list[k].size)
      /\ list[i].size + list[k].size \in 1 .. HeapSize
  <2>1. list \in Seq(Block)
    BY DEF Shape
  <2>2. \A x \in {i, k} : /\ list[x] \in Block
                          /\ list[x].addr \in Nat /\ list[x].size \in Nat /\ list[x].size > 0
                          /\ End(list[x]) = list[x].addr + list[x].size
                          /\ End(list[x]) <= HeapSize
    BY BlockNumbers
  <2>3. End(list[k]) = list[i].addr + (list[i].size + list[k].size)
    <3>1. End(list[k]) = End(list[i]) + list[k].size /\ End(list[i]) = list[i].addr + list[i].size
      BY <2>2
    <3>2. QED BY <2>2, <3>1
  <2>4. list[i].size + list[k].size \in 1 .. HeapSize
    BY <2>2, <2>3, SizesAssumption
  <2>5. QED BY <2>1, <2>2, <2>3, <2>4
<1>2. /\ b \in Block /\ b.addr = list[i].addr /\ b.magic = list[i].magic
      /\ b.size = list[i].size + list[k].size
  BY ZenonT(60), <1>1 DEF Block
<1>3. Grown(list, i, k) = new
  BY DEF Grown
<1> HIDE DEF b
<1>4. /\ new \in Seq(Block) /\ Len(new) = Len(list) /\ new[i] = b
      /\ \A x \in 1 .. Len(list) : x # i => new[x] = list[x]
  BY <1>1, <1>2
<1> HIDE DEF new
<1>5. End(new[i]) = End(list[k])
  BY <1>1, <1>2, <1>4 DEF End
<1>6. QED BY <1>2, <1>3, <1>4, <1>5

\* Merging two neighbours keeps the shape.
LEMMA MergedShape ==
  ASSUME NEW list, Shape(list), NEW i \in 1 .. Len(list), NEW k \in 1 .. Len(list),
         End(list[i]) = list[k].addr
  PROVE  Shape(RemoveAt(Grown(list, i, k), k))
<1> DEFINE g == Grown(list, i, k)
           new == RemoveAt(g, k)
           n == Len(list)
<1>1. /\ g \in Seq(Block) /\ Len(g) = n
      /\ \A x \in 1 .. n : (x # i => g[x] = list[x]) /\ g[x].addr = list[x].addr
      /\ g[i].size = list[i].size + list[k].size
      /\ End(g[i]) = End(list[k])
  BY GrownProperties
<1> HIDE DEF g
<1>2. new \in Seq(Block) /\ Len(new) = n - 1 /\ \A j \in 1 .. n - 1 : new[j] = g[Skip(k, j)]
  <2>1. k \in 1 .. Len(g)
    BY <1>1
  <2>2. /\ new \in Seq(Block) /\ Len(new) = Len(g) - 1
        /\ \A j \in 1 .. Len(g) - 1 : new[j] = g[Skip(k, j)]
    BY ZenonT(60), <1>1, <2>1, Removed
  <2>3. QED BY <1>1, <2>2
<1> HIDE DEF new
<1>3. n \in Nat /\ k < n /\ i # k
  BY NotLast, BlockNumbers
<1>4. /\ \A j \in 1 .. n - 1 : Skip(k, j) \in 1 .. n /\ Skip(k, j) # k
      /\ \A x, y \in 1 .. n - 1 : Skip(k, x) = Skip(k, y) => x = y
      /\ \A x \in 1 .. n : x # k => \E j \in 1 .. n - 1 : Skip(k, j) = x
      /\ Skip(k, n - 1) = n
  BY ZenonT(60), <1>3, SkipProperties
<1>5. /\ \A x \in 1 .. n : /\ list[x].addr \in Nat /\ list[x].size \in Nat /\ list[x].size > 0
                           /\ End(list[x]) = list[x].addr + list[x].size
                           /\ End(list[x]) <= HeapSize
  BY BlockNumbers
<1>6. \A x, y \in 1 .. n : x # y => End(list[x]) <= list[y].addr \/ End(list[y]) <= list[x].addr
  BY DEF Shape, Apart
<1>7. \A x, y \in 1 .. n : x # y /\ x # k /\ y # k => Apart(g[x], g[y])
  <2>1. ASSUME NEW x \in 1 .. n, x # i, x # k PROVE Apart(g[x], g[i]) /\ Apart(g[i], g[x])
    <3>1. g[x] = list[x] /\ g[i].addr = list[i].addr /\ End(g[i]) = End(list[k])
      BY <1>1, <2>1
    <3>2. End(list[x]) <= list[i].addr \/ End(list[k]) <= list[x].addr
      BY <1>5, <1>6, <2>1
    <3>3. QED BY <3>1, <3>2 DEF Apart
  <2>2. QED BY <1>1, <1>6, <2>1 DEF Apart
<1>8. ASSUME NEW x \in 1 .. n - 1, NEW y \in 1 .. n - 1, x # y PROVE Apart(new[x], new[y])
  <2>1. /\ Skip(k, x) \in 1 .. n /\ Skip(k, x) # k /\ Skip(k, y) \in 1 .. n /\ Skip(k, y) # k
        /\ Skip(k, x) # Skip(k, y)
    BY <1>4, <1>8
  <2>2. new[x] = g[Skip(k, x)] /\ new[y] = g[Skip(k, y)]
    BY <1>2
  <2>3. QED BY ZenonT(60), <1>7, <2>1, <2>2
<1>9. \A j \in 1 .. n - 1 : End(new[j]) <= HeapSize
  <2>1. \A x \in 1 .. n : End(g[x]) <= HeapSize
    BY <1>1, <1>5
  <2>2. QED BY ZenonT(60), <1>2, <1>4, <2>1
<1>10. ASSUME NEW a \in 0 .. HeapSize - 1 PROVE \E j \in 1 .. n - 1 : Covers(new[j], a)
  <2>1. PICK x \in 1 .. n : Covers(list[x], a)
    BY DEF Shape
  <2>2. \E y \in 1 .. n : y # k /\ Covers(g[y], a)
    <3>1. CASE x \in {i, k}
      <4>1. list[i].addr <= a /\ a < End(list[k])
        BY <1>5, <2>1, <3>1 DEF Covers
      <4>2. Covers(g[i], a)
        BY <1>1, <4>1 DEF Covers
      <4>3. QED BY <1>3, <4>2
    <3>2. CASE x \notin {i, k}
      BY <1>1, <2>1, <3>2
    <3>3. QED BY <3>1, <3>2
  <2>3. QED BY <1>2, <1>4, <2>2
<1>11. \A j \in 1 .. n - 1 : new[j].size >= HEAP_BLOCK_SIZE
  <2>1. \A x \in 1 .. n : list[x].size >= HEAP_BLOCK_SIZE
    BY <1>3 DEF Shape
  <2>2. \A x \in 1 .. n : g[x].size >= HEAP_BLOCK_SIZE
    BY <1>1, <1>5, <2>1, SizesAssumption
  <2>3. QED BY ZenonT(60), <1>2, <1>4, <2>2
<1>12. new[n - 1].addr = 0 /\ n - 1 > 0
  <2>1. n - 1 \in 1 .. n - 1 /\ n \in 1 .. n
    BY <1>3
  <2>2. list[n].addr = 0
    BY DEF Shape
  <2>3. QED BY <1>1, <1>2, <1>4, <2>1, <2>2
<1>13. QED BY <1>2, <1>8, <1>9, <1>10, <1>11, <1>12 DEF Shape, new, g

\* ... and leaves the blocks in use as they are, if the two are free.
LEMMA MergedMatched ==
  ASSUME NEW list, Shape(list), NEW i \in 1 .. Len(list), NEW k \in 1 .. Len(list),
         End(list[i]) = list[k].addr, list[i].magic = "Free", list[k].magic = "Free",
         NEW allocs, Matched(list, allocs)
  PROVE  Matched(RemoveAt(Grown(list, i, k), k), allocs)
<1> DEFINE g == Grown(list, i, k)
           new == RemoveAt(g, k)
           n == Len(list)
<1>1. /\ g \in Seq(Block) /\ Len(g) = n
      /\ \A x \in 1 .. n : (x # i => g[x] = list[x]) /\ g[x].magic = list[x].magic
  BY GrownProperties
<1> HIDE DEF g
<1>2. Len(new) = n - 1 /\ \A j \in 1 .. n - 1 : new[j] = g[Skip(k, j)]
  <2>1. k \in 1 .. Len(g)
    BY <1>1
  <2>2. /\ Len(new) = Len(g) - 1
        /\ \A j \in 1 .. Len(g) - 1 : new[j] = g[Skip(k, j)]
    BY ZenonT(60), <1>1, <2>1, Removed
  <2>3. QED BY <1>1, <2>2
<1> HIDE DEF new
<1>3. /\ \A j \in 1 .. n - 1 : Skip(k, j) \in 1 .. n
      /\ \A x \in 1 .. n : x # k => \E j \in 1 .. n - 1 : Skip(k, j) = x
  <2>1. n \in Nat
    BY BlockNumbers
  <2>2. QED BY ZenonT(60), <2>1, SkipProperties
<1>4. ASSUME NEW x \in 1 .. n, list[x].magic = "InUse" PROVE \E j \in 1 .. n - 1 : new[j] = list[x]
  <2>1. x # i /\ x # k
    BY <1>4
  <2>2. PICK j \in 1 .. n - 1 : Skip(k, j) = x
    BY <1>3, <2>1
  <2>3. QED BY <1>1, <1>2, <2>1, <2>2
<1>5. ASSUME NEW j \in 1 .. n - 1, new[j].magic = "InUse"
      PROVE  \E x \in 1 .. n : list[x].magic = "InUse" /\ new[j] = list[x]
  <2> DEFINE x == Skip(k, j)
  <2>1. x \in 1 .. n /\ new[j] = g[x]
    BY <1>2, <1>3
  <2> HIDE DEF x
  <2>2. list[x].magic = "InUse" /\ x # i
    BY <1>1, <1>5, <2>1
  <2>3. QED BY <1>1, <2>1, <2>2
<1>6. \A h \in allocs : \E j \in 1 .. n - 1 :
        /\ new[j].magic = "InUse" /\ new[j].addr = h.addr /\ HeaderSize + h.bytes <= new[j].size
  BY <1>4 DEF Matched
<1>7. \A j \in 1 .. n - 1 : new[j].magic = "InUse" => \E h \in allocs : h.addr = new[j].addr
  BY <1>5 DEF Matched
<1>8. QED BY <1>2, <1>6, <1>7 DEF Matched, new, g

\* The block carved off the end of b, the list without it, and the new list.
Slice(b, n) == [addr |-> End(b) - n, size |-> n, magic |-> "InUse"]
Cut(list, i, n) == [list EXCEPT ![i].size = @ - n]
Carved(list, i, n) == <<Slice(list[i], n)>> \o Cut(list, i, n)

LEMMA CarvedProperties ==
  ASSUME NEW list, Shape(list), NEW i \in 1 .. Len(list), NEW n \in Nat,
         n >= HEAP_BLOCK_SIZE, list[i].size - n >= HEAP_BLOCK_SIZE
  PROVE  /\ Slice(list[i], n) \in Block
         /\ Slice(list[i], n).addr = End(list[i]) - n
         /\ End(Slice(list[i], n)) = End(list[i])
         /\ Carved(list, i, n) \in Seq(Block) /\ Len(Carved(list, i, n)) = Len(list) + 1
         /\ Carved(list, i, n)[1] = Slice(list[i], n)
         /\ \A x \in 1 .. Len(list) :
              /\ x # i => Carved(list, i, n)[x + 1] = list[x]
              /\ Carved(list, i, n)[x + 1].addr = list[x].addr
              /\ Carved(list, i, n)[x + 1].magic = list[x].magic
         /\ Carved(list, i, n)[i + 1].size = list[i].size - n
         /\ End(Carved(list, i, n)[i + 1]) = End(list[i]) - n
<1> DEFINE c == Slice(list[i], n)
           b == [list[i] EXCEPT !.size = @ - n]
           cut == [list EXCEPT ![i] = b]
           one == <<c>>
           new == one \o cut
<1>1. /\ list \in Seq(Block) /\ list[i] \in Block /\ Len(list) \in Nat
      /\ list[i].addr \in Nat /\ list[i].size \in Nat
      /\ End(list[i]) = list[i].addr + list[i].size /\ End(list[i]) <= HeapSize
  <2>1. list \in Seq(Block)
    BY DEF Shape
  <2>2. QED BY <2>1, BlockNumbers
<1>2. /\ list[i].size - n \in 1 .. HeapSize /\ n \in 1 .. HeapSize
      /\ End(list[i]) - n \in 0 .. HeapSize - 1
  BY <1>1, SizesAssumption
<1>3. /\ c \in Block /\ c.addr = End(list[i]) - n /\ c.size = n
  BY <1>2 DEF Slice, Block
<1>4. End(c) = End(list[i])
  <2>1. End(c) = c.addr + c.size
    BY DEF End
  <2>2. End(list[i]) \in Nat
    BY <1>1
  <2> HIDE DEF c
  <2>3. QED BY <1>3, <2>1, <2>2
<1>5. /\ b \in Block /\ b.addr = list[i].addr /\ b.magic = list[i].magic
      /\ b.size = list[i].size - n
  BY ZenonT(60), <1>1, <1>2 DEF Block
<1>6. Carved(list, i, n) = new
  BY DEF Carved, Cut
<1> HIDE DEF b, c
<1>7. /\ cut \in Seq(Block) /\ Len(cut) = Len(list) /\ cut[i] = b
      /\ \A x \in 1 .. Len(list) : x # i => cut[x] = list[x]
  BY <1>1, <1>5
<1> HIDE DEF cut
<1>8. one \in Seq(Block) /\ Len(one) = 1 /\ one[1] = c
  BY <1>3
<1> HIDE DEF one
<1>9. /\ new \in Seq(Block) /\ Len(new) = Len(one) + Len(cut)
      /\ \A j \in 1 .. Len(one) + Len(cut) :
           new[j] = IF j <= Len(one) THEN one[j] ELSE cut[j - Len(one)]
  BY ZenonT(60), <1>7, <1>8, ConcatProperties
<1> HIDE DEF new
<1>10. Len(new) = Len(list) + 1 /\ new[1] = c
  BY <1>1, <1>7, <1>8, <1>9
<1>11. ASSUME NEW x \in 1 .. Len(list) PROVE new[x + 1] = cut[x]
  <2>1. x + 1 \in 1 .. 1 + Len(list) /\ ~ (x + 1 <= 1) /\ (x + 1) - 1 = x
    BY <1>1
  <2>2. QED BY <1>7, <1>8, <1>9, <2>1
<1>12. End(new[i + 1]) = End(list[i]) - n
  <2>1. End(new[i + 1]) = list[i].addr + (list[i].size - n)
    BY <1>5, <1>7, <1>11 DEF End
  <2>2. QED BY <1>1, <2>1
<1>13. \A x \in 1 .. Len(list) :
         /\ x # i => new[x + 1] = list[x]
         /\ new[x + 1].addr = list[x].addr /\ new[x + 1].magic = list[x].magic
  BY <1>5, <1>7, <1>11
<1>14. new[i + 1].size = list[i].size - n
  BY <1>5, <1>7, <1>11
<1>15. QED BY <1>3, <1>4, <1>6, <1>9, <1>10, <1>12, <1>13, <1>14 DEF c

\* Carving keeps the shape.
LEMMA CarvedShape ==
  ASSUME NEW list, Shape(list), NEW i \in 1 .. Len(list), NEW n \in Nat,
         n >= HEAP_BLOCK_SIZE, list[i].size - n >= HEAP_BLOCK_SIZE
  PROVE  Shape(Carved(list, i, n))
<1> DEFINE c == Slice(list[i], n)
           new == Carved(list, i, n)
           len == Len(list)
<1>1. /\ c.addr = End(list[i]) - n /\ End(c) = End(list[i])
      /\ new \in Seq(Block) /\ Len(new) = len + 1 /\ new[1] = c
      /\ \A x \in 1 .. len : (x # i => new[x + 1] = list[x]) /\ new[x + 1].addr = list[x].addr
      /\ new[i + 1].size = list[i].size - n
      /\ End(new[i + 1]) = End(list[i]) - n
  BY CarvedProperties
<1>2. c.size = n
  BY DEF Slice
<1> HIDE DEF c, new
<1>3. len \in Nat
  BY BlockNumbers
<1>4. \A x \in 1 .. len : /\ list[x].addr \in Nat /\ list[x].size \in Nat /\ list[x].size > 0
                          /\ End(list[x]) = list[x].addr + list[x].size
                          /\ End(list[x]) \in Nat /\ End(list[x]) <= HeapSize
  BY BlockNumbers
<1>5. \A x, y \in 1 .. len : x # y => End(list[x]) <= list[y].addr \/ End(list[y]) <= list[x].addr
  BY DEF Shape, Apart
<1>6. ASSUME NEW x \in 1 .. len
      PROVE  /\ new[x + 1].addr = list[x].addr
             /\ End(new[x + 1]) \in Int /\ End(new[x + 1]) <= End(list[x])
  <2>1. End(list[x]) \in Nat /\ new[x + 1].addr = list[x].addr
    BY <1>1, <1>4
  <2>2. CASE x = i
    BY <1>1, <2>1, <2>2
  <2>3. CASE x # i
    BY <1>1, <2>1, <2>3
  <2>4. QED BY <2>1, <2>2, <2>3
<1>7. \A x \in 1 .. len : Apart(c, new[x + 1]) /\ Apart(new[x + 1], c)
  <2>1. ASSUME NEW x \in 1 .. len, x # i PROVE Apart(c, list[x]) /\ Apart(list[x], c)
    <3>1. End(list[x]) <= list[i].addr \/ End(list[i]) <= list[x].addr
      BY <1>5, <2>1
    <3>2. list[i].addr <= End(list[i]) - n
      BY <1>4, SizesAssumption
    <3>3. End(list[x]) \in Nat /\ End(list[i]) \in Nat /\ list[i].addr \in Nat
      BY <1>4
    <3>4. End(list[x]) <= c.addr \/ End(c) <= list[x].addr
      BY <1>1, <3>1, <3>2, <3>3
    <3>5. QED BY <3>4 DEF Apart
  <2>2. Apart(c, new[i + 1]) /\ Apart(new[i + 1], c)
    BY <1>1, <1>4 DEF Apart
  <2>3. QED BY <1>1, <2>1, <2>2
<1>8. \A x, y \in 1 .. len : x # y => Apart(new[x + 1], new[y + 1])
  <2>1. SUFFICES ASSUME NEW x \in 1 .. len, NEW y \in 1 .. len, x # y,
                        End(list[x]) <= list[y].addr
                 PROVE  Apart(new[x + 1], new[y + 1]) /\ Apart(new[y + 1], new[x + 1])
    BY <1>5
  <2>2. /\ End(new[x + 1]) \in Int /\ End(new[x + 1]) <= End(list[x])
        /\ new[y + 1].addr = list[y].addr
    BY <1>6
  <2>3. End(list[x]) \in Nat /\ list[y].addr \in Nat
    BY <1>4
  <2>4. End(new[x + 1]) <= new[y + 1].addr
    BY <2>1, <2>2, <2>3
  <2>5. QED BY <2>4 DEF Apart
<1>9. \A j \in 1 .. len + 1 : j = 1 \/ \E x \in 1 .. len : j = x + 1
  <2>1. \A j \in 1 .. len + 1 : j = 1 \/ (j - 1 \in 1 .. len /\ j = (j - 1) + 1)
    BY <1>3
  <2>2. QED BY <2>1
<1>10. \A j, k \in 1 .. len + 1 : j # k => Apart(new[j], new[k])
  <2>1. SUFFICES ASSUME NEW j \in 1 .. len + 1, NEW k \in 1 .. len + 1, j # k
                 PROVE  Apart(new[j], new[k])
    OBVIOUS
  <2>2. CASE j = 1
    <3>1. PICK y \in 1 .. len : k = y + 1
      BY <1>9, <2>1, <2>2
    <3>2. QED BY <1>1, <1>7, <2>2, <3>1
  <2>3. CASE k = 1
    <3>1. PICK x \in 1 .. len : j = x + 1
      BY <1>9, <2>1, <2>3
    <3>2. QED BY <1>1, <1>7, <2>3, <3>1
  <2>4. CASE j # 1 /\ k # 1
    <3>1. PICK x \in 1 .. len : j = x + 1
      BY <1>9, <2>4
    <3>2. PICK y \in 1 .. len : k = y + 1
      BY <1>9, <2>4
    <3>3. QED BY <1>8, <2>1, <3>1, <3>2
  <2>5. QED BY <2>2, <2>3, <2>4
<1>11. \A j \in 1 .. len + 1 : End(new[j]) <= HeapSize
  <2>1. ASSUME NEW x \in 1 .. len PROVE End(new[x + 1]) <= HeapSize
    <3>1. End(new[x + 1]) \in Int /\ End(new[x + 1]) <= End(list[x])
      BY <1>6
    <3>2. End(list[x]) \in Nat /\ End(list[x]) <= HeapSize
      BY <1>4
    <3>3. QED BY <3>1, <3>2, SizesAssumption
  <2>2. End(new[1]) <= HeapSize
    BY <1>1, <1>4
  <2>3. QED BY ZenonT(60), <1>9, <2>1, <2>2
<1>12. ASSUME NEW a \in 0 .. HeapSize - 1 PROVE \E j \in 1 .. len + 1 : Covers(new[j], a)
  <2>1. PICK x \in 1 .. len : Covers(list[x], a)
    BY DEF Shape
  <2>2. x + 1 \in 1 .. len + 1 /\ 1 \in 1 .. len + 1
    BY <1>3
  <2>3. CASE x # i
    BY <1>1, <2>1, <2>2, <2>3
  <2>4. CASE x = i /\ a < End(list[i]) - n
    <3>1. Covers(new[i + 1], a)
      BY <1>1, <2>1, <2>4 DEF Covers
    <3>2. QED BY <2>2, <2>4, <3>1
  <2>5. CASE x = i /\ End(list[i]) - n <= a
    <3>1. Covers(new[1], a)
      BY <1>1, <2>1, <2>5 DEF Covers
    <3>2. QED BY <2>2, <3>1
  <2>6. QED BY <1>4, <2>3, <2>4, <2>5
<1>13. \A j \in 1 .. len + 1 : new[j].size >= HEAP_BLOCK_SIZE
  <2>1. ASSUME NEW x \in 1 .. len PROVE new[x + 1].size >= HEAP_BLOCK_SIZE
    <3>1. CASE x = i
      BY <1>1, <3>1
    <3>2. CASE x # i
      <4>1. list[x].size >= HEAP_BLOCK_SIZE
        BY <1>3, <3>2 DEF Shape
      <4>2. QED BY <1>1, <3>2, <4>1
    <3>3. QED BY <3>1, <3>2
  <2>2. QED BY ZenonT(60), <1>1, <1>2, <1>9, <2>1
<1>14. new[len + 1].addr = 0
  <2>1. list[len].addr = 0 /\ len \in 1 .. len
    BY <1>3 DEF Shape
  <2>2. QED BY <1>1, <2>1
<1>15. QED BY <1>1, <1>3, <1>10, <1>11, <1>12, <1>13, <1>14 DEF Shape, new

\* The block at address a of a list with the shape is found once.
LEMMA AddressOnce ==
  ASSUME NEW list, Shape(list), NEW i \in 1 .. Len(list), NEW j \in 1 .. Len(list),
         NEW a \in Nat, Covers(list[i], a), Covers(list[j], a)
  PROVE  i = j
<1>1. SUFFICES ASSUME i # j PROVE FALSE
  OBVIOUS
<1>2. Apart(list[i], list[j])
  BY <1>1 DEF Shape
<1>3. \A x \in {i, j} : list[x].addr \in Nat /\ End(list[x]) \in Nat
  BY BlockNumbers
<1>4. QED BY <1>2, <1>3 DEF Apart, Covers

\* What is carved off a free block is a new allocation.
LEMMA CarvedMatched ==
  ASSUME NEW list, Shape(list), NEW i \in 1 .. Len(list), NEW n \in Nat,
         n >= HEAP_BLOCK_SIZE, list[i].size - n >= HEAP_BLOCK_SIZE,
         list[i].magic = "Free", NEW m \in Nat, HeaderSize + m <= n,
         NEW allocs, Matched(list, allocs)
  PROVE  Matched(Carved(list, i, n), allocs \cup {[addr |-> End(list[i]) - n, bytes |-> m]})
<1> DEFINE c == Slice(list[i], n)
           new == Carved(list, i, n)
           len == Len(list)
           h0 == [addr |-> End(list[i]) - n, bytes |-> m]
<1>1. /\ Len(new) = len + 1 /\ new[1] = c
      /\ \A x \in 1 .. len : (x # i => new[x + 1] = list[x]) /\ new[x + 1].magic = list[x].magic
  BY CarvedProperties
<1>2. c.size = n /\ c.magic = "InUse" /\ c.addr = h0.addr /\ h0.bytes = m
  BY DEF Slice
<1>3. len \in Nat
  BY BlockNumbers
<1>4. ASSUME NEW x \in 1 .. len, list[x].magic = "InUse" PROVE list[x].addr # h0.addr /\ x # i
  <2>1. x # i
    BY <1>4
  <2>2. \A y \in {i, x} : /\ list[y].addr \in Nat /\ list[y].size \in Nat /\ list[y].size > 0
                          /\ End(list[y]) = list[y].addr + list[y].size
    BY BlockNumbers
  <2>3. h0.addr \in Nat /\ Covers(list[i], h0.addr)
    <3>1. h0.addr = End(list[i]) - n /\ HEAP_BLOCK_SIZE \in Nat \ {0}
      BY SizesAssumption
    <3>2. /\ list[i].addr \in Nat /\ list[i].size \in Nat
          /\ End(list[i]) = list[i].addr + list[i].size
      BY <2>2
    <3> HIDE DEF h0
    <3>3. h0.addr \in Nat /\ list[i].addr <= h0.addr /\ h0.addr < End(list[i])
      BY <3>1, <3>2
    <3>4. QED BY <3>3 DEF Covers
  <2>4. Covers(list[x], list[x].addr)
    BY <2>2 DEF Covers
  <2> HIDE DEF h0
  <2>5. QED BY <2>1, <2>3, <2>4, AddressOnce
<1> HIDE DEF c, new, h0
<1>5. \A j \in 1 .. len + 1 : j = 1 \/ \E x \in 1 .. len : j = x + 1
  <2>1. \A j \in 1 .. len + 1 : j = 1 \/ (j - 1 \in 1 .. len /\ j = (j - 1) + 1)
    BY <1>3
  <2>2. QED BY <2>1
<1>6. /\ \A h \in allocs : \E x \in 1 .. len : /\ list[x].magic = "InUse" /\ list[x].addr = h.addr
                                               /\ HeaderSize + h.bytes <= list[x].size
      /\ \A x \in 1 .. len : list[x].magic = "InUse" => \E h \in allocs : h.addr = list[x].addr
      /\ \A g, h \in allocs : g.addr = h.addr => g = h
  BY DEF Matched
<1>7. ASSUME NEW h \in allocs \cup {h0}
      PROVE  \E j \in 1 .. len + 1 : /\ new[j].magic = "InUse" /\ new[j].addr = h.addr
                                     /\ HeaderSize + h.bytes <= new[j].size
  <2>1. CASE h = h0
    <3>1. 1 \in 1 .. len + 1
      BY <1>3
    <3>2. QED BY <1>1, <1>2, <2>1, <3>1
  <2>2. CASE h \in allocs
    <3>1. PICK x \in 1 .. len : /\ list[x].magic = "InUse" /\ list[x].addr = h.addr
                                /\ HeaderSize + h.bytes <= list[x].size
      BY <1>6, <2>2
    <3>2. new[x + 1] = list[x] /\ x + 1 \in 1 .. len + 1
      BY <1>1, <1>3, <1>4, <3>1
    <3>3. QED BY <3>1, <3>2
  <2>3. QED BY <2>1, <2>2
<1>8. ASSUME NEW j \in 1 .. len + 1, new[j].magic = "InUse"
      PROVE  \E h \in allocs \cup {h0} : h.addr = new[j].addr
  <2>1. CASE j = 1
    BY <1>1, <1>2, <2>1
  <2>2. CASE j # 1
    <3>1. PICK x \in 1 .. len : j = x + 1
      BY <1>5, <2>2
    <3>2. list[x].magic = "InUse" /\ new[j] = list[x]
      BY <1>1, <1>4, <1>8, <3>1
    <3>3. QED BY <1>6, <3>2
  <2>3. QED BY <2>1, <2>2
<1>9. \A h \in allocs : h.addr # h0.addr
  BY <1>4, <1>6
<1>10. \A g, h \in allocs \cup {h0} : g.addr = h.addr => g = h
  BY <1>6, <1>9
<1>11. Matched(new, allocs \cup {h0})
  BY <1>1, <1>7, <1>8, <1>10 DEF Matched
<1>12. QED BY <1>11 DEF new, h0

\* Blocks have different addresses.
LEMMA AddressUnique ==
  ASSUME NEW list, Shape(list), NEW i \in 1 .. Len(list), NEW j \in 1 .. Len(list),
         list[i].addr = list[j].addr
  PROVE  i = j
<1>1. \A x \in {i, j} : /\ list[x].addr \in Nat /\ list[x].size \in Nat /\ list[x].size > 0
                        /\ End(list[x]) = list[x].addr + list[x].size
  BY BlockNumbers
<1>2. Covers(list[i], list[i].addr) /\ Covers(list[j], list[i].addr)
  BY <1>1 DEF Covers
<1>3. list[i].addr \in Nat
  BY <1>1
<1>4. QED BY <1>2, <1>3, AddressOnce

\* Taking a free block as a whole makes it a new allocation.
LEMMA TakenMatched ==
  ASSUME NEW list, Shape(list), NEW i \in 1 .. Len(list), list[i].magic = "Free",
         NEW new, Len(new) = Len(list),
         \A x \in 1 .. Len(list) : x # i => new[x] = list[x],
         new[i].magic = "InUse", new[i].addr = list[i].addr, new[i].size = list[i].size,
         NEW m \in Nat, HeaderSize + m <= list[i].size,
         NEW allocs, Matched(list, allocs)
  PROVE  Matched(new, allocs \cup {[addr |-> list[i].addr, bytes |-> m]})
<1> DEFINE h0 == [addr |-> list[i].addr, bytes |-> m]
           len == Len(list)
<1>1. h0.addr = list[i].addr /\ h0.bytes = m
  OBVIOUS
<1> HIDE DEF h0
<1>2. /\ \A h \in allocs : \E x \in 1 .. len : /\ list[x].magic = "InUse" /\ list[x].addr = h.addr
                                               /\ HeaderSize + h.bytes <= list[x].size
      /\ \A x \in 1 .. len : list[x].magic = "InUse" => \E h \in allocs : h.addr = list[x].addr
      /\ \A g, h \in allocs : g.addr = h.addr => g = h
  BY DEF Matched
<1>3. \A x \in 1 .. len : list[x].magic = "InUse" => x # i /\ list[x].addr # h0.addr
  BY <1>1, AddressUnique
<1>4. \A h \in allocs : h.addr # h0.addr
  BY <1>2, <1>3
<1>5. ASSUME NEW h \in allocs \cup {h0}
      PROVE  \E x \in 1 .. len : /\ new[x].magic = "InUse" /\ new[x].addr = h.addr
                                 /\ HeaderSize + h.bytes <= new[x].size
  <2>1. CASE h = h0
    BY <1>1, <2>1
  <2>2. CASE h \in allocs
    BY <1>2, <1>3, <2>2
  <2>3. QED BY <2>1, <2>2
<1>6. ASSUME NEW x \in 1 .. len, new[x].magic = "InUse"
      PROVE  \E h \in allocs \cup {h0} : h.addr = new[x].addr
  <2>1. CASE x = i
    BY <1>1, <2>1
  <2>2. CASE x # i
    BY <1>2, <1>6, <2>2
  <2>3. QED BY <2>1, <2>2
<1>7. \A g, h \in allocs \cup {h0} : g.addr = h.addr => g = h
  BY <1>2, <1>4
<1>8. QED BY <1>5, <1>6, <1>7 DEF Matched, h0

\* Freeing what is allocated ends one allocation, and no other.
LEMMA FreedMatched ==
  ASSUME NEW list, Shape(list), NEW allocs, Matched(list, allocs), NEW h0 \in allocs,
         NEW new, Len(new) = Len(list),
         \A x \in 1 .. Len(list) :
           IF list[x].addr = h0.addr THEN new[x].magic = "Free" ELSE new[x] = list[x]
  PROVE  Matched(new, allocs \ {h0})
<1> DEFINE len == Len(list)
<1>1. /\ \A h \in allocs : \E x \in 1 .. len : /\ list[x].magic = "InUse" /\ list[x].addr = h.addr
                                               /\ HeaderSize + h.bytes <= list[x].size
      /\ \A x \in 1 .. len : list[x].magic = "InUse" => \E h \in allocs : h.addr = list[x].addr
      /\ \A g, h \in allocs : g.addr = h.addr => g = h
  BY DEF Matched
<1>2. \A h \in allocs \ {h0} : \E x \in 1 .. len : /\ new[x].magic = "InUse" /\ new[x].addr = h.addr
                                                   /\ HeaderSize + h.bytes <= new[x].size
  BY <1>1
<1>3. \A x \in 1 .. len : new[x].magic = "InUse" =>
        list[x].magic = "InUse" /\ new[x] = list[x] /\ list[x].addr # h0.addr
  OBVIOUS
<1>4. \A x \in 1 .. len : new[x].magic = "InUse" => \E h \in allocs \ {h0} : h.addr = new[x].addr
  BY <1>1, <1>3
<1>5. QED BY <1>1, <1>2, <1>4 DEF Matched

-----------------------------------------------------------------------------
(* The invariant. *)

LEMMA HeapInit == Init => HeapInv
<1> SUFFICES ASSUME Init PROVE HeapInv
  OBVIOUS
<1> DEFINE b == [addr |-> 0, size |-> HeapSize, magic |-> "Free"]
<1>1. HeapSize \in Nat /\ HeapSize > 0
  BY SizesAssumption
<1>2. b \in Block /\ b.addr = 0 /\ b.size = HeapSize /\ b.magic = "Free" /\ End(b) = HeapSize
  BY <1>1 DEF Block, End
<1>3. /\ blocks = <<b>> /\ pc = "idle" /\ at = 1 /\ bytes = 0 /\ largest = 0 /\ held = {}
      /\ lateFree = FALSE
  BY DEF Init
<1> HIDE DEF b
<1>4. blocks \in Seq(Block) /\ Len(blocks) = 1 /\ blocks[1] = b
  BY <1>2, <1>3
<1>5. TypeOK
  <2>1. /\ pc \in {"idle", "search", "merge", "corner"} /\ lateFree \in BOOLEAN
        /\ bytes \in Requests \cup {0} /\ held \subseteq [addr : 0 .. HeapSize - 1, bytes : Requests]
    BY ZenonT(60), <1>3
  <2>2. at \in 1 .. Len(blocks) /\ largest \in 0 .. HeapSize
    BY <1>1, <1>3, <1>4
  <2>3. QED BY <1>4, <2>1, <2>2 DEF TypeOK
<1>6. \A a \in 0 .. HeapSize - 1 : Covers(b, a)
  BY <1>1, <1>2 DEF Covers
<1>7. 1 .. 1 = {1} /\ HeapSize <= HeapSize
  BY <1>1
<1>8. Shape(blocks)
  BY <1>2, <1>4, <1>6, <1>7 DEF Shape
<1>9. Matched(blocks, held)
  BY <1>2, <1>3, <1>4, <1>7 DEF Matched
<1>10. SearchInv
  BY <1>3 DEF SearchInv
<1>11. QED BY <1>5, <1>8, <1>9, <1>10 DEF HeapInv

\* free by any core.
LEMMA FreeStep ==
  ASSUME HeapInv, NEW h \in held, Free(h) PROVE HeapInv'
<1>1. TypeOK /\ Shape(blocks) /\ Matched(blocks, held) /\ SearchInv
  BY DEF HeapInv
<1>2. /\ blocks' = [i \in DOMAIN blocks |->
                      IF blocks[i].addr = h.addr THEN [blocks[i] EXCEPT !.magic = "Free"]
                                                 ELSE blocks[i]]
      /\ held' = held \ {h} /\ lateFree' = (pc # "idle")
      /\ pc' = pc /\ at' = at /\ bytes' = bytes /\ largest' = largest
  BY DEF Free
<1>3. blocks \in Seq(Block) /\ Len(blocks) \in Nat /\ DOMAIN blocks = 1 .. Len(blocks)
  BY <1>1 DEF Shape
<1>4. \A b \in Block : /\ [b EXCEPT !.magic = "Free"] \in Block
                       /\ [b EXCEPT !.magic = "Free"].addr = b.addr
                       /\ [b EXCEPT !.magic = "Free"].size = b.size
                       /\ [b EXCEPT !.magic = "Free"].magic = "Free"
  BY DEF Block
<1>5. \A i \in 1 .. Len(blocks) :
        /\ blocks'[i] \in Block
        /\ blocks'[i].addr = blocks[i].addr /\ blocks'[i].size = blocks[i].size
        /\ IF blocks[i].addr = h.addr THEN blocks'[i].magic = "Free" ELSE blocks'[i] = blocks[i]
  <2> TAKE i \in 1 .. Len(blocks)
  <2>1. blocks[i] \in Block
    BY <1>3
  <2>2. blocks'[i] = IF blocks[i].addr = h.addr THEN [blocks[i] EXCEPT !.magic = "Free"] ELSE blocks[i]
    BY <1>2, <1>3
  <2>3. CASE blocks[i].addr = h.addr
    BY ZenonT(60), <1>4, <2>1, <2>2, <2>3
  <2>4. CASE blocks[i].addr # h.addr
    BY <2>1, <2>2, <2>4
  <2>5. QED BY <2>3, <2>4
<1>6. blocks' \in Seq(Block) /\ Len(blocks') = Len(blocks)
  BY <1>2, <1>3, <1>5
<1>7. Shape(blocks')
  BY <1>1, <1>5, <1>6, MarkedShape
<1>8. Matched(blocks', held')
  BY ZenonT(60), <1>1, <1>2, <1>5, <1>6, FreedMatched
<1>9. TypeOK'
  BY <1>1, <1>2, <1>6 DEF TypeOK
<1>10. SearchInv'
  <2>1. pc' # "idle" => lateFree'
    BY ZenonT(60), <1>2
  <2>2. QED BY <1>1, <1>2, <2>1 DEF SearchInv
<1>11. QED BY <1>7, <1>8, <1>9, <1>10 DEF HeapInv

\* alloc takes the block it looks at, or a part of it.
LEMMA TakeStep ==
  ASSUME HeapInv, TakeWhole \/ Carve PROVE HeapInv'
<1> DEFINE n == SizeReq(bytes)
<1>1. TypeOK /\ Shape(blocks) /\ Matched(blocks, held) /\ SearchInv
  BY DEF HeapInv
<1>2. /\ pc = "search" /\ bytes \in Requests /\ bytes \in Nat
      /\ at \in 1 .. Len(blocks) /\ blocks \in Seq(Block)
  BY <1>1, SizesAssumption DEF TakeWhole, Carve, SearchInv, TypeOK
<1>3. /\ n \in Nat /\ n >= HEAP_BLOCK_SIZE /\ n >= HeaderSize + bytes
  BY <1>2, SizeReqProperties
<1>4. /\ blocks[at] \in Block /\ blocks[at].addr \in Nat /\ blocks[at].size \in Nat
  BY <1>1, <1>2, BlockNumbers
<1>5. blocks[at].magic = "Free" /\ blocks[at].size >= n
  BY DEF TakeWhole, Carve, Fits
<1> HIDE DEF n
<1>6. HEAP_BLOCK_SIZE \in Nat /\ HeaderSize \in Nat /\ HeapSize \in Nat
  BY SizesAssumption
<1>7. \E a \in 0 .. HeapSize - 1 :
        Shape(blocks') /\ Matched(blocks', held \cup {[addr |-> a, bytes |-> bytes]}) /\ Return(a)
  <2>1. CASE TakeWhole
    <3>1. /\ blocks' = [blocks EXCEPT ![at].magic = "InUse"] /\ Return(blocks[at].addr)
      BY <2>1 DEF TakeWhole
    <3>2. [blocks[at] EXCEPT !.magic = "InUse"] \in Block
      BY <1>4 DEF Block
    <3>3. /\ blocks' \in Seq(Block) /\ Len(blocks') = Len(blocks)
          /\ \A x \in 1 .. Len(blocks) : x # at => blocks'[x] = blocks[x]
          /\ blocks'[at] = [blocks[at] EXCEPT !.magic = "InUse"]
      BY <1>2, <3>1, <3>2
    <3>4. /\ blocks'[at].magic = "InUse" /\ blocks'[at].addr = blocks[at].addr
          /\ blocks'[at].size = blocks[at].size
      BY <1>4, <3>3 DEF Block
    <3>5. Shape(blocks')
      BY ZenonT(60), <1>1, <3>3, <3>4, MarkedShape
    <3>6. HeaderSize + bytes <= blocks[at].size
      BY <1>2, <1>3, <1>4, <1>5, <1>6
    <3>7. Matched(blocks', held \cup {[addr |-> blocks[at].addr, bytes |-> bytes]})
      BY ZenonT(60), <1>1, <1>2, <1>5, <3>3, <3>4, <3>6, TakenMatched
    <3>8. blocks[at].addr \in 0 .. HeapSize - 1
      BY <1>4 DEF Block
    <3>9. QED BY <3>1, <3>5, <3>7, <3>8
  <2>2. CASE Carve
    <3>1. /\ blocks' = Carved(blocks, at, n) /\ Return(End(blocks[at]) - n)
          /\ blocks[at].size - n >= HEAP_BLOCK_SIZE
      BY <2>2 DEF Carve, Carved, Slice, Cut, Shortened, n
    <3>2. Shape(blocks')
      BY <1>1, <1>2, <1>3, <3>1, CarvedShape
    <3>3. HeaderSize + bytes <= n
      BY <1>2, <1>3, <1>6
    <3>4. Matched(blocks', held \cup {[addr |-> End(blocks[at]) - n, bytes |-> bytes]})
      BY <1>1, <1>2, <1>3, <1>5, <3>1, <3>3, CarvedMatched
    <3>5. Slice(blocks[at], n) \in Block /\ Slice(blocks[at], n).addr = End(blocks[at]) - n
      BY <1>1, <1>2, <1>3, <3>1, CarvedProperties
    <3>6. End(blocks[at]) - n \in 0 .. HeapSize - 1
      BY <3>5 DEF Block
    <3>7. QED BY <3>1, <3>2, <3>4, <3>6
  <2>3. QED BY <2>1, <2>2
<1>8. PICK a \in 0 .. HeapSize - 1 :
        Shape(blocks') /\ Matched(blocks', held \cup {[addr |-> a, bytes |-> bytes]}) /\ Return(a)
  BY ZenonT(60), <1>7
<1>9. /\ held' = held \cup {[addr |-> a, bytes |-> bytes]} /\ pc' = "idle" /\ at' = 1 /\ bytes' = 0
      /\ largest' = largest /\ lateFree' = lateFree
  BY <1>8 DEF Return
<1>10. TypeOK'
  <2>1. blocks' \in Seq(Block) /\ 1 \in 1 .. Len(blocks')
    BY <1>8 DEF Shape
  <2>2. held' \subseteq [addr : 0 .. HeapSize - 1, bytes : Requests]
    BY <1>1, <1>2, <1>9 DEF TypeOK
  <2>3. QED BY <1>1, <1>9, <2>1, <2>2 DEF TypeOK
<1>11. SearchInv'
  BY <1>9 DEF SearchInv
<1>12. QED BY <1>8, <1>9, <1>10, <1>11 DEF HeapInv

\* alloc begins, or moves on in its search.
LEMMA SearchStep ==
  ASSUME HeapInv, SearchOn \/ MergeEnd \/ \E n \in Requests : AllocStart(n) PROVE HeapInv'
<1>1. TypeOK /\ Shape(blocks) /\ Matched(blocks, held) /\ SearchInv
  BY DEF HeapInv
<1>2. UNCHANGED <<blocks, held>>
  BY DEF SearchOn, MergeEnd, AllocStart
<1>3. at \in 1 .. Len(blocks) /\ Len(blocks) \in Nat /\ HeapSize \in Nat
  BY <1>1, SizesAssumption DEF TypeOK
<1>4. Shape(blocks') /\ Matched(blocks', held')
  BY <1>1, <1>2
<1>5. CASE \E n \in Requests : AllocStart(n)
  <2>1. PICK n \in Requests : AllocStart(n)
    BY <1>5
  <2>2. /\ pc' = "search" /\ at' = 1 /\ bytes' = n /\ lateFree' = FALSE /\ largest' = largest
    BY <2>1 DEF AllocStart
  <2>3. TypeOK'
    <3>1. lateFree' \in BOOLEAN /\ bytes' \in Requests \cup {0}
      BY ZenonT(60), <2>2
    <3>2. pc' = "search" /\ at' = 1 /\ largest' = largest
      BY <2>2
    <3>3. QED BY <1>1, <1>2, <1>3, <3>1, <3>2 DEF TypeOK
  <2>4. SearchInv'
    BY <2>2 DEF SearchInv
  <2>5. QED BY <1>4, <2>3, <2>4 DEF HeapInv
<1>6. CASE SearchOn
  <2>1. /\ pc = "search" /\ ~Fits(blocks[at]) /\ bytes' = bytes /\ lateFree' = lateFree
        /\ bytes \in Requests
    BY <1>1, <1>6 DEF SearchOn, SearchInv
  <2>2. \A b : Fits(b)' = (b.magic = "Free" /\ b.size >= SizeReq(bytes'))
    BY DEF Fits
  <2>3. CASE HasNext
    <3>1. at' = at + 1 /\ pc' = pc /\ largest' = largest /\ at < Len(blocks)
      BY <1>6, <2>3 DEF SearchOn, HasNext
    <3>2. TypeOK'
      BY <1>1, <1>2, <1>3, <2>1, <3>1 DEF TypeOK
    <3>3. ~lateFree => \A i \in 1 .. at : ~Fits(blocks[i])
      <4>1. \A i \in 1 .. at : i = at \/ i \in 1 .. at - 1
        BY <1>3
      <4>2. ~lateFree => \A i \in 1 .. at - 1 : ~Fits(blocks[i])
        BY <1>1, <2>1 DEF SearchInv
      <4>3. QED BY <2>1, <4>1, <4>2
    <3>4. at' - 1 = at
      BY <1>3, <3>1
    <3>5. SearchInv'
      BY <1>2, <2>1, <3>1, <3>3, <3>4 DEF SearchInv, Fits
    <3>6. QED BY <1>4, <3>2, <3>5 DEF HeapInv
  <2>4. CASE ~HasNext
    <3>1. at' = 1 /\ pc' = "merge" /\ largest' = 0 /\ ~ (at < Len(blocks))
      BY <1>6, <2>4 DEF SearchOn, HasNext
    <3>2. at = Len(blocks)
      BY <1>3, <3>1
    <3>3. TypeOK'
      BY <1>1, <1>2, <1>3, <2>1, <3>1 DEF TypeOK
    <3>4. ~lateFree => \A i \in 1 .. Len(blocks) : ~Fits(blocks[i])
      <4>1. \A i \in 1 .. Len(blocks) : i = at \/ i \in 1 .. at - 1
        BY <1>3, <3>2
      <4>2. ~lateFree => \A i \in 1 .. at - 1 : ~Fits(blocks[i])
        BY <1>1, <2>1 DEF SearchInv
      <4>3. QED BY <2>1, <4>1, <4>2
    <3>5. \A i \in 1 .. Len(blocks) - 1 : ~ (i < 1)
      BY <1>3
    <3>6. SearchInv'
      BY <1>2, <2>1, <3>1, <3>4, <3>5 DEF SearchInv, Fits
    <3>7. QED BY <1>4, <3>3, <3>6 DEF HeapInv
  <2>5. QED BY <2>3, <2>4
<1>7. CASE MergeEnd
  <2>1. /\ pc = "merge" /\ ~ (at < Len(blocks)) /\ pc' = "corner" /\ at' = 1 /\ bytes' = bytes
        /\ largest' = largest /\ lateFree' = lateFree
    BY <1>7 DEF MergeEnd, HasNext
  <2>2. TypeOK'
    BY <1>1, <1>2, <1>3, <2>1 DEF TypeOK
  <2>3. \A i \in 1 .. Len(blocks) - 1 : i < at
    BY <1>3, <2>1
  <2>4. SearchInv'
    BY <1>1, <1>2, <2>1, <2>3 DEF SearchInv, Fits, Mergeable
  <2>5. QED BY <1>4, <2>2, <2>4 DEF HeapInv
<1>8. QED BY <1>5, <1>6, <1>7

\* One iteration of consolidate.
LEMMA MergeStepStep ==
  ASSUME HeapInv, MergeStep PROVE HeapInv'
<1> DEFINE b == blocks[at]
           c == blocks[at + 1]
<1>1. TypeOK /\ Shape(blocks) /\ Matched(blocks, held) /\ SearchInv
  BY DEF HeapInv
<1>2. /\ pc = "merge" /\ at < Len(blocks) /\ at' = at + 1 /\ pc' = pc /\ bytes' = bytes
      /\ held' = held /\ lateFree' = lateFree
  BY DEF MergeStep, HasNext
<1>3. /\ Len(blocks) \in Nat /\ at \in 1 .. Len(blocks) /\ at + 1 \in 1 .. Len(blocks)
      /\ HeapSize \in Nat /\ HEAP_BLOCK_SIZE \in Nat \ {0} /\ largest \in 0 .. HeapSize
  BY <1>1, <1>2, SizesAssumption DEF TypeOK
<1>4. CASE Mergeable(b, c)
  <2>1. /\ blocks' = RemoveAt(Grown(blocks, at, at + 1), at + 1)
        /\ largest' = Larger(largest, b.size + c.size)
    BY <1>4 DEF MergeStep, Grown
  <2>2. End(b) = c.addr /\ b.magic = "Free" /\ c.magic = "Free"
    BY <1>4 DEF Mergeable
  <2>3. Shape(blocks') /\ Matched(blocks', held')
    <3>1. Shape(blocks')
      BY <1>1, <1>3, <2>1, <2>2, MergedShape
    <3>2. Matched(blocks', held)
      BY <1>1, <1>3, <2>1, <2>2, MergedMatched
    <3>3. QED BY <1>2, <3>1, <3>2
  <2>4. at + 1 < Len(blocks)
    BY <1>1, <1>3, <2>2, NotLast
  <2>5. blocks' \in Seq(Block) /\ Len(blocks') = Len(blocks) - 1
    <3>1. Grown(blocks, at, at + 1) \in Seq(Block) /\ Len(Grown(blocks, at, at + 1)) = Len(blocks)
      BY <1>1, <1>3, <2>2, GrownProperties
    <3>2. Len(RemoveAt(Grown(blocks, at, at + 1), at + 1)) = Len(Grown(blocks, at, at + 1)) - 1
      BY <1>3, <3>1, Removed
    <3>3. blocks' \in Seq(Block)
      BY <2>3 DEF Shape
    <3>4. QED BY <2>1, <3>1, <3>2, <3>3
  <2>6. b.size \in Nat /\ c.size \in Nat /\ b.size >= HEAP_BLOCK_SIZE /\ b.size + c.size <= HeapSize
    <3>1. /\ b.addr \in Nat /\ b.size \in Nat /\ End(b) = b.addr + b.size
          /\ c.addr \in Nat /\ c.size \in Nat /\ End(c) = c.addr + c.size /\ End(c) <= HeapSize
      BY <1>1, <1>3, BlockNumbers
    <3>2. b.size >= HEAP_BLOCK_SIZE
      BY <1>1, <1>2, <1>3 DEF Shape
    <3> HIDE DEF b, c
    <3>3. c.addr = b.addr + b.size
      BY <2>2, <3>1
    <3>4. b.size + c.size <= HeapSize
      BY <1>3, <3>1, <3>3
    <3>5. QED BY <3>1, <3>2, <3>4
  <2>7. largest' \in 0 .. HeapSize /\ largest' >= HEAP_BLOCK_SIZE /\ largest' # 0
    BY <1>3, <2>1, <2>6 DEF Larger
  <2>8. TypeOK'
    <3>1. at' \in 1 .. Len(blocks')
      BY <1>2, <1>3, <2>4, <2>5
    <3>2. QED BY <1>1, <1>2, <2>5, <2>7, <3>1 DEF TypeOK
  <2>9. SearchInv'
    BY <1>1, <1>2, <2>7 DEF SearchInv
  <2>10. QED BY <2>3, <2>8, <2>9 DEF HeapInv
<1>5. CASE ~Mergeable(b, c)
  <2>1. blocks' = blocks /\ largest' = largest
    BY <1>5 DEF MergeStep, LargestSeen
  <2>2. TypeOK'
    BY <1>1, <1>2, <1>3, <2>1 DEF TypeOK
  <2>3. \A i \in 1 .. Len(blocks) - 1 : i < at + 1 => i < at \/ i = at
    BY <1>3
  <2>4. SearchInv'
    <3>1. pc' # "idle" /\ pc' # "corner" /\ pc' # "search" /\ bytes' \in Requests
          /\ (largest' = 0 \/ largest' >= HEAP_BLOCK_SIZE)
      BY <1>1, <1>2, <2>1 DEF SearchInv
    <3>2. ASSUME ~lateFree, largest = 0
          PROVE  /\ \A i \in 1 .. Len(blocks) : ~Fits(blocks[i])
                 /\ \A i \in 1 .. Len(blocks) - 1 : i < at + 1 => ~Mergeable(blocks[i], blocks[i + 1])
      <4>1. /\ \A i \in 1 .. Len(blocks) : ~Fits(blocks[i])
            /\ \A i \in 1 .. Len(blocks) - 1 : i < at => ~Mergeable(blocks[i], blocks[i + 1])
        BY <1>1, <1>2, <3>2 DEF SearchInv
      <4>2. QED BY <1>5, <2>3, <4>1
    <3>3. QED BY <1>2, <2>1, <3>1, <3>2 DEF SearchInv, Fits, Mergeable
  <2>5. QED BY <1>1, <1>2, <2>1, <2>2, <2>4 DEF HeapInv
<1>6. QED BY <1>4, <1>5

\* The end of consolidate.
LEMMA CornerStep ==
  ASSUME HeapInv, Corner PROVE HeapInv'
<1>1. TypeOK /\ Shape(blocks) /\ Matched(blocks, held) /\ SearchInv
  BY DEF HeapInv
<1>2. /\ pc = "corner" /\ at = 1 /\ at' = at /\ bytes \in Requests
      /\ held' = held /\ lateFree' = lateFree /\ largest' = 0
  BY <1>1 DEF Corner, SearchInv
<1>3. (pc' = "search" /\ bytes' = bytes) \/ (pc' = "idle" /\ bytes' = 0)
  <2> DEFINE found == IF CornerCase THEN Larger(largest, blocks[2].size + blocks[1].size) ELSE largest
             stop == found < HEAP_BLOCK_SIZE
  <2>1. pc' = (IF stop THEN "idle" ELSE "search") /\ bytes' = (IF stop THEN 0 ELSE bytes)
    BY DEF Corner
  <2> HIDE DEF found, stop
  <2>2. QED BY ZenonT(60), <2>1
<1>4. Shape(blocks') /\ Matched(blocks', held')
  <2>1. CASE ~CornerCase
    <3>1. blocks' = blocks
      BY <2>1 DEF Corner
    <3>2. QED BY <1>1, <1>2, <3>1
  <2>2. CASE CornerCase
    <3>1. /\ 1 \in 1 .. Len(blocks) /\ 2 \in 1 .. Len(blocks) /\ Len(blocks) \in Nat
          /\ End(blocks[2]) = blocks[1].addr
          /\ blocks[1].magic = "Free" /\ blocks[2].magic = "Free"
      <4>1. Len(blocks) \in Nat /\ Len(blocks) > 1
        BY <1>1, <2>2 DEF CornerCase, TypeOK
      <4>2. QED BY <2>2, <4>1 DEF CornerCase, Mergeable
    <3> DEFINE g == Grown(blocks, 2, 1)
    <3>2. blocks' = Tail(g)
      BY <2>2 DEF Corner, Grown
    <3>3. g \in Seq(Block) /\ Len(g) = Len(blocks)
      BY <1>1, <3>1, GrownProperties
    <3> HIDE DEF g
    <3>4. /\ RemoveAt(g, 1) \in Seq(Block) /\ Len(RemoveAt(g, 1)) = Len(g) - 1
          /\ \A j \in 1 .. Len(g) - 1 : RemoveAt(g, 1)[j] = g[Skip(1, j)]
      <4>1. 1 \in 1 .. Len(g)
        BY <3>1, <3>3
      <4>2. QED BY ZenonT(60), <3>3, <4>1, Removed
    <3>5. Tail(g) \in Seq(Block) /\ Len(Tail(g)) = Len(g) - 1 /\ \A j \in 1 .. Len(g) - 1 : Tail(g)[j] = g[j + 1]
      BY <3>1, <3>3
    <3>6. \A j \in 1 .. Len(g) - 1 : Skip(1, j) = j + 1
      BY <3>1, <3>3 DEF Skip
    <3>7. Tail(g) = RemoveAt(g, 1)
      BY <3>4, <3>5, <3>6, SeqEqual
    <3>8. Shape(RemoveAt(g, 1))
      BY <1>1, <3>1, MergedShape DEF g
    <3>9. Matched(RemoveAt(g, 1), held)
      BY <1>1, <3>1, MergedMatched DEF g
    <3>10. QED BY ZenonT(60), <1>2, <3>2, <3>7, <3>8, <3>9
  <2>3. QED BY <2>1, <2>2
<1>5. TypeOK'
  <2>1. blocks' \in Seq(Block) /\ at' \in 1 .. Len(blocks')
    BY <1>2, <1>4 DEF Shape
  <2>2. bytes' \in Requests \cup {0} /\ pc' \in {"idle", "search", "merge", "corner"}
    BY <1>2, <1>3
  <2>3. largest' \in 0 .. HeapSize
    BY <1>2, SizesAssumption
  <2>4. QED BY <1>1, <1>2, <2>1, <2>2, <2>3 DEF TypeOK
<1>6. SearchInv'
  <2>1. at' = 1 /\ 1 .. at' - 1 = {}
    BY <1>2
  <2>2. QED BY <1>2, <1>3, <2>1 DEF SearchInv
<1>7. QED BY <1>4, <1>5, <1>6 DEF HeapInv

LEMMA HeapNext == HeapInv /\ [Next]_vars => HeapInv'
<1> SUFFICES ASSUME HeapInv, [Next]_vars PROVE HeapInv'
  OBVIOUS
<1>1. ASSUME NEW h \in held, Free(h) PROVE HeapInv'
  BY <1>1, FreeStep
<1>2. CASE TakeWhole \/ Carve
  BY <1>2, TakeStep
<1>3. CASE SearchOn \/ MergeEnd \/ \E n \in Requests : AllocStart(n)
  BY <1>3, SearchStep
<1>4. CASE MergeStep
  BY <1>4, MergeStepStep
<1>5. CASE Corner
  BY <1>5, CornerStep
<1>6. CASE UNCHANGED vars
  BY <1>6 DEF vars, HeapInv, TypeOK, SearchInv, Fits, Mergeable
<1>7. QED BY <1>1, <1>2, <1>3, <1>4, <1>5, <1>6 DEF Next, AllocStep

-----------------------------------------------------------------------------
(* The properties. *)

INSTANCE FiniteSetTheorems
INSTANCE FunctionTheorems

LEMMA ShapeTiles ==
  ASSUME HeapInv PROVE Tiling
<1>1. Shape(blocks) /\ Len(blocks) \in Nat /\ DOMAIN blocks = 1 .. Len(blocks)
  BY DEF HeapInv, Shape
<1>2. SUFFICES ASSUME NEW a \in 0 .. HeapSize - 1
               PROVE  Cardinality({i \in DOMAIN blocks : blocks[i].addr <= a /\ a < End(blocks[i])}) = 1
  BY DEF Tiling
<1>3. PICK j \in 1 .. Len(blocks) : Covers(blocks[j], a)
  BY <1>1 DEF Shape
<1>4. a \in Nat
  OBVIOUS
<1>5. \A i \in 1 .. Len(blocks) : Covers(blocks[i], a) => i = j
  BY <1>1, <1>3, <1>4, AddressOnce
<1>6. {i \in DOMAIN blocks : blocks[i].addr <= a /\ a < End(blocks[i])} = {j}
  BY <1>1, <1>3, <1>5 DEF Covers
<1>7. QED BY ZenonT(60), <1>6, FS_Singleton

LEMMA HeapAlways == Spec => []HeapInv
BY HeapInit, HeapNext, PTL DEF Spec

\* Every variable keeps its type: the pointers of alloc and consolidate stay
\* within the list, however it is carved, merged and freed meanwhile.
THEOREM HeapTypes == Spec => []TypeOK
<1>1. HeapInv => TypeOK
  BY DEF HeapInv
<1>2. QED BY <1>1, HeapAlways, PTL

\* The blocks of the list cover the heap, each byte once.
THEOREM HeapTiled == Spec => []Tiling
<1>1. HeapInv => Tiling
  BY ShapeTiles DEF HeapInv
<1>2. QED BY <1>1, HeapAlways, PTL

LEMMA MatchedExactly ==
  ASSUME HeapInv PROVE HeldExactly
<1> DEFINE used == {i \in DOMAIN blocks : blocks[i].magic = "InUse"}
           Holder(i) == CHOOSE h \in held : h.addr = blocks[i].addr
           f == [i \in used |-> Holder(i)]
<1>1. /\ Shape(blocks) /\ Matched(blocks, held) /\ Len(blocks) \in Nat
      /\ DOMAIN blocks = 1 .. Len(blocks)
  BY DEF HeapInv, Shape
<1>2. /\ \A h \in held : \E i \in used :
           blocks[i].addr = h.addr /\ HeaderSize + h.bytes <= blocks[i].size
      /\ \A g, h \in held : g.addr = h.addr => g = h
  BY <1>1 DEF Matched
<1>3. \A i \in used : Holder(i) \in held /\ Holder(i).addr = blocks[i].addr
  <2>1. \A i \in used : \E h \in held : h.addr = blocks[i].addr
    BY <1>1 DEF Matched
  <2>2. QED BY ZenonT(60), <2>1
<1>4. IsFiniteSet(used)
  <2>1. IsFiniteSet(1 .. Len(blocks))
    BY <1>1, FS_Interval
  <2>2. used \in SUBSET (1 .. Len(blocks))
    BY <1>1
  <2>3. QED BY <2>1, <2>2, FS_Subset
<1>5. \A i, j \in used : blocks[i].addr = blocks[j].addr => i = j
  BY <1>1, AddressUnique
<1> HIDE DEF Holder, used
<1>6. f \in Bijection(used, held)
  <2>1. f \in [used -> held] /\ \A i \in used : f[i] = Holder(i)
    BY <1>3
  <2> HIDE DEF f
  <2>2. \A i, j \in used : f[i] = f[j] => i = j
    BY <1>3, <1>5, <2>1
  <2>3. \A h \in held : \E i \in used : f[i] = h
    BY <1>2, <1>3, <2>1
  <2>4. QED BY <2>1, <2>2, <2>3, Fun_IsBij
<1>7. Cardinality(used) = Cardinality(held)
  <2>1. ExistsBijection(used, held)
    BY <1>6 DEF ExistsBijection
  <2>2. QED BY <1>4, <2>1, FS_Bijection
<1>8. QED BY <1>2, <1>7 DEF HeldExactly, used

\* The blocks in use are the ones that are allocated, one for each, and large
\* enough, whoever frees what and when.
THEOREM HeldMatchesUse == Spec => []HeldExactly
<1>1. HeapInv => HeldExactly
  BY MatchedExactly
<1>2. QED BY <1>1, HeapAlways, PTL

LEMMA GivesUp ==
  ASSUME HeapInv, [Next]_vars, pc = "corner", pc' = "idle", ~lateFree
  PROVE  /\ \A i \in DOMAIN blocks : blocks[i].magic = "Free" => blocks[i].size < SizeReq(bytes)
         /\ \A i \in 1 .. Len(blocks) - 1 : ~Mergeable(blocks[i], blocks[i + 1])
         /\ ~(Len(blocks) > 1 /\ Mergeable(blocks[2], blocks[1]))
<1>1. TypeOK /\ SearchInv /\ Shape(blocks)
  BY DEF HeapInv
<1>2. Corner
  BY DEF Next, vars, Free, AllocStart, AllocStep, TakeWhole, Carve, SearchOn, MergeStep, MergeEnd
<1>3. largest \in Nat /\ HEAP_BLOCK_SIZE \in Nat /\ (largest = 0 \/ largest >= HEAP_BLOCK_SIZE)
  BY <1>1, SizesAssumption DEF TypeOK, SearchInv
<1>4. largest = 0 /\ ~CornerCase
  <2> DEFINE merged == blocks[2].size + blocks[1].size
             found == IF CornerCase THEN Larger(largest, merged) ELSE largest
  <2>1. pc' = IF found < HEAP_BLOCK_SIZE THEN "idle" ELSE "search"
    BY <1>2 DEF Corner
  <2>2. found < HEAP_BLOCK_SIZE
    <3> HIDE DEF found
    <3>1. QED BY <2>1
  <2>3. ASSUME CornerCase PROVE FALSE
    <3>1. merged \in Nat /\ merged >= HEAP_BLOCK_SIZE
      <4>1. Len(blocks) \in Nat /\ Len(blocks) > 1
        BY <1>1, <2>3 DEF CornerCase, TypeOK
      <4>2. blocks[1].size \in Nat /\ blocks[2].size \in Nat
        BY <1>1, <4>1, BlockNumbers
      <4>3. blocks[1].size >= HEAP_BLOCK_SIZE
        BY <1>1, <4>1 DEF Shape
      <4>4. QED BY <1>3, <4>2, <4>3
    <3>2. Larger(largest, merged) < HEAP_BLOCK_SIZE
      BY <2>2, <2>3
    <3> HIDE DEF merged
    <3>3. QED BY <1>3, <3>1, <3>2 DEF Larger
  <2>4. QED BY <1>3, <2>2, <2>3
<1>5. /\ \A i \in 1 .. Len(blocks) : ~Fits(blocks[i])
      /\ \A i \in 1 .. Len(blocks) - 1 : ~Mergeable(blocks[i], blocks[i + 1])
  BY <1>1, <1>4 DEF SearchInv
<1>6. ASSUME NEW i \in 1 .. Len(blocks), blocks[i].magic = "Free" PROVE blocks[i].size < SizeReq(bytes)
  <2>1. ~ (blocks[i].size >= SizeReq(bytes))
    BY <1>5, <1>6 DEF Fits
  <2>2. blocks[i].size \in Nat
    BY <1>1, BlockNumbers
  <2>3. bytes \in Nat
    BY <1>1, SizesAssumption DEF TypeOK
  <2>4. SizeReq(bytes) \in Nat
    BY <2>3, SizeReqProperties
  <2>5. QED BY <2>1, <2>2, <2>4
<1>7. DOMAIN blocks = 1 .. Len(blocks)
  BY <1>1 DEF TypeOK
<1>8. ~(Len(blocks) > 1 /\ Mergeable(blocks[2], blocks[1]))
  BY <1>4 DEF CornerCase
<1>9. QED BY <1>5, <1>6, <1>7, <1>8

\* alloc gives up only if no block fits, no free block adjoins its free successor
\* in the list from below, and the first two blocks do not adjoin in reverse,
\* unless another core freed one meanwhile.
THEOREM GivesUpOnlyIfFull == Spec => FailsOnlyIfFull
<1>1. HeapInv /\ [Next]_vars =>
        [pc = "corner" /\ pc' = "idle" /\ ~lateFree =>
           /\ \A i \in DOMAIN blocks :
                blocks[i].magic = "Free" => blocks[i].size < SizeReq(bytes)
           /\ \A i \in 1 .. Len(blocks) - 1 : ~Mergeable(blocks[i], blocks[i + 1])
           /\ ~(Len(blocks) > 1 /\ Mergeable(blocks[2], blocks[1]))]_vars
  BY GivesUp
<1>2. QED BY <1>1, HeapAlways, PTL DEF Spec, FailsOnlyIfFull
=============================================================================
