-------------------------------- MODULE Heap --------------------------------
(***************************************************************************)
(* The kernel heap (src/kernel/memory.c): a table of blocks in address     *)
(* order, first fit with splitting, coalescing on release.  Nothing calls  *)
(* it from an interrupt: each call is one action.                          *)
(***************************************************************************)
EXTENDS Integers, FiniteSets

CONSTANTS
  HEAP_START, HEAP_SIZE,
  MAX_BLOCKS,              \* entries of the block table
  Sizes                    \* the sizes kmalloc is asked for

ASSUME HeapAssumption ==
  /\ HEAP_START \in Nat
  /\ HEAP_SIZE \in Nat \ {0}
  /\ MAX_BLOCKS \in Nat \ {0}
  /\ Sizes \subseteq Nat

Block == [ptr : Nat, size : Nat \ {0}, used : BOOLEAN]
Address == HEAP_START .. HEAP_START + HEAP_SIZE - 1

VARIABLES
  blocks,   \* blocks[0 .. count - 1]
  count     \* block_count

heapVars == <<blocks, count>>

Index == 0 .. count - 1

HeapTypeOK ==
  /\ count \in 1 .. MAX_BLOCKS
  /\ blocks \in [Index -> Block]

-----------------------------------------------------------------------------
HeapInit ==
  /\ blocks = [i \in {0} |-> [ptr |-> HEAP_START, size |-> HEAP_SIZE, used |-> FALSE]]
  /\ count = 1

\* Mutant: a block is handed out whether it is free or not.
FitsAny(size) == {i \in Index : blocks[i].size >= size}

\* The free block that serves a request: the first one that is large enough.
Fits(size) == {i \in Index : ~blocks[i].used /\ blocks[i].size >= size}
FirstFit(size) == {i \in Fits(size) : \A j \in Fits(size) : i <= j}

TakenBlock(i, size) == [ptr |-> blocks[i].ptr, size |-> size, used |-> TRUE]

\* Mutant: the remainder starts one word early.
OverlappingRemainder(i, size) ==
  [ptr |-> blocks[i].ptr + size - 1, size |-> blocks[i].size - size, used |-> FALSE]

Remainder(i, size) ==
  [ptr |-> blocks[i].ptr + size, size |-> blocks[i].size - size, used |-> FALSE]

\* Block i becomes the request, and what is left of it a block of its own.
Split(i, size) ==
  /\ blocks' = [k \in 0 .. count |-> IF k < i THEN blocks[k]
                                     ELSE IF k = i THEN TakenBlock(i, size)
                                     ELSE IF k = i + 1 THEN Remainder(i, size)
                                     ELSE blocks[k - 1]]
  /\ count' = count + 1

\* Block i is cut to the request: the words beyond it are in no block any more.
Shrink(i, size) ==
  /\ blocks' = [blocks EXCEPT ![i] = TakenBlock(i, size)]
  /\ UNCHANGED count

\* Mutant: the block table is not checked for room.
KmallocUnchecked(size) ==
  /\ size # 0
  /\ \E i \in FirstFit(size) :
       IF blocks[i].size > 2 * size THEN Split(i, size) ELSE Shrink(i, size)

\* A full table refuses every request, whatever is free.
Kmalloc(size) ==
  /\ size # 0
  /\ count < MAX_BLOCKS
  /\ \E i \in FirstFit(size) :
       IF blocks[i].size > 2 * size THEN Split(i, size) ELSE Shrink(i, size)

\* Entry i of a table of n blocks is dropped and the block before it grows.
Joined(bs, n, i) ==
  [k \in 0 .. n - 2 |-> IF k < i - 1 THEN bs[k]
                        ELSE IF k = i - 1 THEN [bs[k] EXCEPT !.size = @ + bs[i].size]
                        ELSE bs[k + 1]]

\* Mutant: the block before is never looked at.
NeverBefore(bs, i) == FALSE

FreeBefore(bs, i) == i > 0 /\ ~bs[i - 1].used

\* Coalesce with the free block before, then with the free block after.
FreeAfter(bs, n, i) == i < n - 1 /\ ~bs[i + 1].used

JoinAfter(bs, n, i) ==
  IF FreeAfter(bs, n, i)
    THEN blocks' = Joined(bs, n, i + 1) /\ count' = n - 1
    ELSE blocks' = bs /\ count' = n

\* Any other pointer is ignored.
Kfree(ptr) ==
  \E i \in Index :
    /\ blocks[i].ptr = ptr /\ blocks[i].used
    /\ LET freed == [blocks EXCEPT ![i].used = FALSE] IN
         IF FreeBefore(freed, i)
           THEN JoinAfter(Joined(freed, count, i), count - 1, i - 1)
           ELSE JoinAfter(freed, count, i)

HeapNext == \/ \E size \in Sizes : Kmalloc(size)
        \/ \E ptr \in Address : Kfree(ptr)

HeapSpec == HeapInit /\ [][HeapNext]_heapVars

-----------------------------------------------------------------------------
(***************************************************************************)
(* Properties.                                                             *)
(***************************************************************************)
Held == {i \in Index : blocks[i].used}
RegionOf(i) == [ptr |-> blocks[i].ptr, size |-> blocks[i].size]

\* The blocks lie in the heap, in address order, and no word is in two of
\* them, whatever was split, cut or joined before.
BlocksApart ==
  /\ \A i \in Index : /\ HEAP_START <= blocks[i].ptr
                      /\ blocks[i].ptr + blocks[i].size <= HEAP_START + HEAP_SIZE
  /\ \A i, j \in Index : i < j => blocks[i].ptr + blocks[i].size <= blocks[j].ptr

\* Two neighbours are never both free: the table is as short as it can be, and
\* an empty heap is one block again.
NoFreeNeighbours ==
  \A i \in Index : i + 1 \in Index => blocks[i].used \/ blocks[i + 1].used

\* The heap implements the abstract allocator: a caller's region is his own
\* until he releases it, and no call changes the region of another.
HeldRegions == {RegionOf(i) : i \in Held}
Regions == INSTANCE Allocator WITH allocated <- HeldRegions
RegionsSpec == Regions!Spec
=============================================================================
