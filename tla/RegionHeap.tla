----------------------------- MODULE RegionHeap -----------------------------
(***************************************************************************)
(* The allocator of lib/kmalloc.c seen as regions: which node addresses    *)
(* are on the free list and on the alloc list, and the size in each node's *)
(* header.  Both lists are sorted by address, so a walk is a search for    *)
(* the lowest address with some property.  Module KMalloc has the headers  *)
(* in memory and the links, and implements this one.                       *)
(*                                                                         *)
(* What the module promises it promises for clients that are Roomy: whose  *)
(* requests never leave a remainder smaller than a header, an exact fit    *)
(* included.  A client cannot know that beforehand.  For one that is not,  *)
(* kmalloc_split writes a header over its neighbour (KMalloc,              *)
(* HeadersIntact); here that shows in the size of the neighbour.           *)
(***************************************************************************)
EXTENDS Integers

CONSTANTS HeapSize,    \* bytes between _heap_start and _heap_end
          Header,      \* sizeof(knode_t)
          Requests,    \* the sizes clients ask for
          Roomy        \* clients never leave a remainder below a header

ASSUME HeapAssumption == /\ HeapSize \in Nat /\ Header \in Nat \ {0}
                         /\ HeapSize >= Header
                         /\ Requests \subseteq Nat
                         /\ Roomy \in BOOLEAN

VARIABLES free,        \* addresses of the nodes of free_list
          alloc,       \* addresses of the nodes of alloc_list
          size         \* the size field of each node; 0 where none starts

vars == <<free, alloc, size>>

Addr == 0 .. HeapSize - 1
NULL == -1
End(r) == r + size[r]

\* kmalloc_init: one free node, the whole heap.
Init == /\ free = {0}
        /\ alloc = {}
        /\ size = [a \in Addr |-> IF a = 0 THEN HeapSize ELSE 0]

-----------------------------------------------------------------------------
\* kmalloc_find_bysize(free_list, need) returns f: the first fit.
FirstFit(f, need) == /\ f \in free /\ size[f] >= need
                     /\ \A g \in free : size[g] >= need => f <= g

\* kmalloc_split(f, need): the sizes after it.  The header of a remainder that
\* is smaller lies over the one of the next region, whose size is then what
\* the size, prev or next of the remainder is: some number.
Split(f, need) ==
  LET rest == size[f] - need
  IN IF rest >= Header
     THEN {[size EXCEPT ![f] = need, ![f + need] = rest]}
     ELSE {[size EXCEPT ![f] = need, ![End(f)] = number, ![f + need] = rest] :
             number \in 0 .. HeapSize}

\* kmalloc(n) on a fit: the low part is handed out, the rest, if any, goes back
\* to the free list.  kmalloc(n) without a fit returns NULL: nothing changes.
Malloc(n) ==
  \E f \in free :
    LET need == n + Header
        rest == size[f] - need
    IN /\ FirstFit(f, need)
       /\ Roomy => rest >= Header
       /\ free' = (free \ {f}) \cup (IF rest > 0 THEN {f + need} ELSE {})
       /\ alloc' = alloc \cup {f}
       /\ size' \in Split(f, need)

-----------------------------------------------------------------------------
\* kmalloc_find_byaddr(free_list, b) returns p: the walk stops at the first
\* node that does not end before b, or at the last one.
FindByAddr(p, b) == /\ p \in free
                    /\ b <= End(p) \/ \A f \in free : f <= p
                    /\ \A f \in free : f < p => b > End(f)

\* p->next is n.
FreeNext(p, n) == \/ n = NULL /\ \A f \in free : f <= p
                  \/ n \in free /\ n > p /\ \A f \in free : f > p => n <= f

\* The prev and next kfree passes to kmalloc_merge_into.
Neighbours(b, prev, next) ==
  \/ /\ prev = NULL /\ \A f \in free : b < f
     /\ next \in free /\ \A f \in free : next <= f
  \/ /\ \E f \in free : f < b
     /\ FindByAddr(prev, b)
     /\ FreeNext(prev, next)

JoinsPrev(b, prev) == prev # NULL /\ End(prev) = b
JoinsNext(b, next) == next # NULL /\ End(b) = next

\* Mutant of kmalloc_merge_into: the next region is left on the list when
\* both neighbours join.
MergeIntoKeepsNext(b, prev, next) ==
  LET below == IF JoinsPrev(b, prev) THEN {prev} ELSE {}
      above == IF JoinsNext(b, next) THEN {next} ELSE {}
      start == IF JoinsPrev(b, prev) THEN prev ELSE b
      total == (IF JoinsPrev(b, prev) THEN size[prev] ELSE 0) + size[b]
                 + (IF JoinsNext(b, next) THEN size[next] ELSE 0)
  IN /\ free' = IF below # {} THEN free ELSE (free \ above) \cup {start}
     /\ size' = [a \in Addr |-> IF a = start THEN total
                                ELSE IF a = b \/ a \in above \ free' THEN 0
                                ELSE size[a]]

\* kmalloc_merge_into: b grows downwards into prev, upwards into next, both
\* or neither, and takes its place on the free list.
MergeInto(b, prev, next) ==
  LET above == IF JoinsNext(b, next) THEN {next} ELSE {}
      start == IF JoinsPrev(b, prev) THEN prev ELSE b
      total == (IF JoinsPrev(b, prev) THEN size[prev] ELSE 0) + size[b]
                 + (IF JoinsNext(b, next) THEN size[next] ELSE 0)
  IN /\ free' = (free \ above) \cup {start}
     /\ size' = [a \in Addr |-> IF a = start THEN total
                                ELSE IF a = b \/ a \in above THEN 0
                                ELSE size[a]]

\* kfree: the client frees a block it holds.  The list of free nodes is not
\* empty; when it is, the code goes astray (KMalloc, fault).
Kfree(b) == /\ b \in alloc
            /\ alloc' = alloc \ {b}
            /\ \E prev, next \in free \cup {NULL} :
                 Neighbours(b, prev, next) /\ MergeInto(b, prev, next)

Next == \/ \E n \in Requests : Malloc(n)
        \/ \E b \in alloc : Kfree(b)

Spec == Init /\ [][Next]_vars
-----------------------------------------------------------------------------
Regions == free \cup alloc

TypeOK == /\ free \subseteq Addr /\ alloc \subseteq Addr
          /\ size \in [Addr -> 0 .. HeapSize]

\* The regions tile the heap: no byte belongs to two of them, and none is
\* lost by a split or a merge, after any sequence of kmalloc and kfree by
\* clients that are Roomy.
NoOverlap == /\ free \cap alloc = {}
             /\ \A r, s \in Regions : r < s => End(r) <= s
Covered == /\ 0 \in Regions
           /\ \A r \in Regions : /\ size[r] >= Header
                                 /\ End(r) = HeapSize \/ End(r) \in Regions
Tiling == NoOverlap /\ Covered

\* Every block the client holds is its own (module Heap), however often
\* regions are split, freed, merged and handed out again, if clients are Roomy.
Block(r) == [at |-> r + Header, len |-> size[r] - Header]
Live == {Block(r) : r \in alloc}
H == INSTANCE Heap WITH live <- Live
IsHeap == H!Spec
=============================================================================
