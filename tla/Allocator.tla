------------------------------ MODULE Allocator ------------------------------
(***************************************************************************)
(* What a heap promises its callers: memory of the size they asked for,    *)
(* inside the heap, that nobody else holds until they give it back.        *)
(***************************************************************************)
EXTENDS Integers

CONSTANTS
  HEAP_START, HEAP_SIZE,   \* the words of the heap
  Sizes                    \* the sizes that are asked for

VARIABLE allocated   \* the regions callers hold

Region == [ptr : HEAP_START .. HEAP_START + HEAP_SIZE - 1, size : Sizes \ {0}]

InHeap(r) == HEAP_START <= r.ptr /\ r.ptr + r.size <= HEAP_START + HEAP_SIZE

Apart(r, s) == r.ptr + r.size <= s.ptr \/ s.ptr + s.size <= r.ptr

Init == allocated = {}

Allocate(r) ==
  /\ InHeap(r)
  /\ \A s \in allocated : Apart(r, s)
  /\ allocated' = allocated \cup {r}

Release(r) ==
  /\ r \in allocated
  /\ allocated' = allocated \ {r}

Next == \/ \E r \in Region : Allocate(r)
        \/ \E r \in allocated : Release(r)

Spec == Init /\ [][Next]_allocated
=============================================================================
