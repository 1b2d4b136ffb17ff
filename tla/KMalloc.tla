------------------------------ MODULE KMalloc ------------------------------
(***************************************************************************)
(* lib/kmalloc.c with its headers in memory: two doubly linked lists of    *)
(* nodes that live inside the heap they describe.  A cell is the unit of   *)
(* memory; a node's header is three cells (size, prev, next), as it is     *)
(* three words in the code, and the client's bytes follow it.              *)
(***************************************************************************)
EXTENDS Integers

CONSTANTS HeapSize,    \* cells between _heap_start and _heap_end
          Requests,    \* the sizes clients ask for
          Roomy,       \* clients never leave a remainder below a header
          Fill         \* what a client writes into its block

NULL == 0
Header == 3

ASSUME KMallocAssumption == /\ HeapSize \in Nat /\ HeapSize >= Header
                            /\ Requests \subseteq Nat
                            /\ Roomy \in BOOLEAN
                            /\ Fill \in 0 .. HeapSize

HeapStart == 1
HeapEnd == HeapStart + HeapSize
Addr == HeapStart .. HeapEnd - 1
\* The memory after the heap: kmalloc_split can write a header there.
Cells == HeapStart .. HeapEnd + Header - 1

VARIABLES mem, free_list, alloc_list,
          fault,       \* a NULL node was dereferenced
          held         \* what clients hold: [payload address -> length]

vars == <<mem, free_list, alloc_list, fault, held>>

SizeOf(m, a) == m[a]
Prev(m, a) == m[a + 1]
Succ(m, a) == m[a + 2]
SetSize(m, a, v) == [m EXCEPT ![a] = v]
\* Mutant: the link is written one word too far.
SetSuccPast(m, a, v) == IF a = NULL THEN m ELSE [m EXCEPT ![a + 3] = v]
\* node->prev = v, node->next = v; through NULL only where the code tests it.
SetPrev(m, a, v) == IF a = NULL THEN m ELSE [m EXCEPT ![a + 1] = v]
SetSucc(m, a, v) == IF a = NULL THEN m ELSE [m EXCEPT ![a + 2] = v]

\* kmalloc_init
Init == /\ free_list = HeapStart
        /\ alloc_list = NULL
        /\ mem = [c \in Cells |-> IF c = HeapStart THEN HeapSize ELSE 0]
        /\ fault = FALSE
        /\ held = <<>>
-----------------------------------------------------------------------------
\* No list is longer: a node takes at least its header.
MaxNodes == HeapSize \div Header + 1

\* The i-th node of a list, NULL past its end.
Path(m, list) ==
  LET path[i \in 0 .. MaxNodes] ==
        IF i = 0 THEN list
        ELSE LET last == path[i - 1]
             IN IF last = NULL THEN NULL ELSE Succ(m, last)
  IN path

\* Where a loop `while (curr != NULL && curr is not in stops) curr = curr->next'
\* ends.
WalkUntil(m, list, stops) ==
  LET path == Path(m, list)
      ends == stops \cup {NULL}
  IN path[CHOOSE i \in 0 .. MaxNodes :
            path[i] \in ends /\ \A j \in 0 .. i - 1 : path[j] \notin ends]

\* kmalloc_find_bysize
FindBySize(m, list, need) == WalkUntil(m, list, {c \in Addr : SizeOf(m, c) >= need})

\* kmalloc_find_byaddr
FindByAddr(m, list, node) ==
  WalkUntil(m, list, {c \in Addr : Succ(m, c) = NULL \/ node <= c + SizeOf(m, c)})

\* A list operation returns the memory and the new head.
ListOp(m, list) == [mem |-> m, list |-> list]

\* Mutant of kmalloc_delete_node: the successor keeps its prev.
DeleteNodeOneWay(m, list, node) ==
  LET prev == Prev(m, node)
      next == Succ(m, node)
  IN ListOp(SetSucc(m, prev, next), IF prev = NULL THEN next ELSE list)

\* kmalloc_delete_node, called with a node of the list.
DeleteNode(m, list, node) ==
  LET prev == Prev(m, node)
      next == Succ(m, node)
  IN IF WalkUntil(m, list, {node}) = NULL
     THEN ListOp(m, list)
     ELSE ListOp(SetPrev(SetSucc(m, prev, next), next, prev),
                 IF prev = NULL THEN next ELSE list)

\* kmalloc_insert: sorted by address; the node goes before or after the one
\* the walk stops at.
Insert(m, list, node) ==
  LET curr == WalkUntil(m, list, {c \in Addr : Succ(m, c) = NULL \/ c >= node})
      prev == IF node < curr THEN Prev(m, curr) ELSE curr
      next == IF node < curr THEN curr ELSE Succ(m, curr)
      linked == SetSucc(SetPrev(m, node, prev), node, next)
  IN IF list = NULL
     THEN ListOp(m, node)
     ELSE ListOp(SetPrev(SetSucc(linked, prev, node), next, node),
                 IF prev = NULL THEN node ELSE list)

\* Mutant of kmalloc_split: the remainder gets the whole size.
SplitOversize(m, src, need) ==
  LET rest == src + need IN
  [m EXCEPT ![rest] = m[src], ![rest + 1] = NULL, ![rest + 2] = NULL,
            ![src] = need, ![src + 1] = NULL, ![src + 2] = NULL]

\* kmalloc_split: a header for the remainder is written even when nothing, or
\* less than a header, remains.
Split(m, src, need) ==
  LET rest == src + need IN
  [m EXCEPT ![rest] = m[src] - need, ![rest + 1] = NULL, ![rest + 2] = NULL,
            ![src] = need, ![src + 1] = NULL, ![src + 2] = NULL]
-----------------------------------------------------------------------------
\* kmalloc(n); without a fit it returns NULL and nothing changes.
Kmalloc(n) ==
  LET need == n + Header
      node == FindBySize(mem, free_list, need)
      taken == DeleteNode(mem, free_list, node)
      cut == Split(taken.mem, node, need)
      kept == IF SizeOf(cut, node + need) > 0
              THEN Insert(cut, taken.list, node + need)
              ELSE ListOp(cut, taken.list)
      used == Insert(kept.mem, alloc_list, node)
  IN /\ ~fault
     /\ node # NULL
     /\ Roomy => SizeOf(mem, node) - need >= Header
     /\ mem' = used.mem
     /\ free_list' = kept.list
     /\ alloc_list' = used.list
     /\ held' = [b \in DOMAIN held \cup {node + Header} |->
                   IF b = node + Header THEN n ELSE held[b]]
     /\ UNCHANGED fault

\* kmalloc_merge_into
MergeInto(m, list, region, prev, next) ==
  LET joinsPrev == prev # NULL /\ prev + SizeOf(m, prev) = region
      joinsNext == region + SizeOf(m, region) = next
      without == IF joinsNext THEN DeleteNode(m, list, next) ELSE ListOp(m, list)
      start == IF joinsPrev THEN prev ELSE region
      total == (IF joinsPrev THEN SizeOf(m, prev) ELSE 0) + SizeOf(m, region)
                 + (IF joinsNext THEN SizeOf(m, next) ELSE 0)
      grown == SetSize(without.mem, start, total)
  IN IF joinsPrev THEN ListOp(grown, without.list)
                  ELSE Insert(grown, without.list, region)

\* kfree(b): a client frees a block it holds.
Kfree(b) ==
  LET node == b - Header
      off == DeleteNode(mem, alloc_list, node)
      cleared == SetSucc(SetPrev(off.mem, node, NULL), node, NULL)
      prev == IF node < free_list THEN NULL
              ELSE FindByAddr(cleared, free_list, node)
      next == IF prev = NULL THEN free_list ELSE Succ(cleared, prev)
      merged == MergeInto(cleared, free_list, node, prev, next)
  IN /\ ~fault
     /\ held' = [c \in DOMAIN held \ {b} |-> held[c]]
     /\ alloc_list' = off.list
     /\ IF free_list = NULL
        THEN \* node < NULL is false, and the walk starts with NULL->next.
             /\ fault' = TRUE
             /\ mem' = cleared
             /\ UNCHANGED free_list
        ELSE /\ mem' = merged.mem
             /\ free_list' = IF prev = NULL THEN node ELSE merged.list
             /\ UNCHANGED fault

\* The client uses its block.
ClientWrites(b) ==
  /\ mem' = [c \in Cells |-> IF c \in b .. b + held[b] - 1 THEN Fill ELSE mem[c]]
  /\ UNCHANGED <<free_list, alloc_list, fault, held>>

Next == \/ \E n \in Requests : Kmalloc(n)
        \/ \E b \in DOMAIN held : Kfree(b)
        \/ \E b \in DOMAIN held : ClientWrites(b)

Spec == Init /\ [][Next]_vars
-----------------------------------------------------------------------------
Nodes(list) == {Path(mem, list)[i] : i \in 0 .. MaxNodes} \ {NULL}

TypeOK == /\ mem \in [Cells -> 0 .. HeapEnd]
          /\ {free_list, alloc_list} \subseteq Addr \cup {NULL}
          /\ fault \in BOOLEAN
          /\ DOMAIN held \subseteq Addr \cup {HeapEnd}

\* A list is what its walks assume: sorted by address, with prev and next
\* inverse to each other and NULL at both ends.
Linked(list) ==
  \A a \in Nodes(list) :
    /\ a = list <=> Prev(mem, a) = NULL
    /\ Succ(mem, a) # NULL => Succ(mem, a) > a /\ Prev(mem, Succ(mem, a)) = a

\* Both lists stay well linked, share no node, and the alloc list holds just
\* the blocks that clients hold, whatever splits and merges have happened and
\* whatever the clients write into their blocks.
ListsOK == /\ TypeOK
           /\ Linked(free_list) /\ Linked(alloc_list)
           /\ Nodes(free_list) \cap Nodes(alloc_list) = {}
           /\ {a + Header : a \in Nodes(alloc_list)} = DOMAIN held

\* kmalloc and kfree never write into a block that a client holds before and
\* after the call: list links and headers stay outside the clients' bytes.
PayloadKept ==
  [][\A b \in DOMAIN held \cap DOMAIN held' :
       held' # held => \A c \in b .. b + held[b] - 1 : mem'[c] = mem[c]]_vars

\* The headers in memory implement the regions of RegionHeap: first fit,
\* split, the choice of neighbours and the four ways to merge.
Region == INSTANCE RegionHeap
  WITH free <- {a - HeapStart : a \in Nodes(free_list)},
       alloc <- {a - HeapStart : a \in Nodes(alloc_list)},
       size <- [r \in 0 .. HeapSize - 1 |->
                  IF r + HeapStart \in Nodes(free_list) \cup Nodes(alloc_list)
                  THEN SizeOf(mem, r + HeapStart) ELSE 0]
IsRegionHeap == Region!Spec

\* The comment above kmalloc_split: "split-off size bytes from the src node,
\* return the remaining node".  The remaining node lies in the src node: no
\* header of a held block changes.
HeadersIntact == \A b \in DOMAIN held : SizeOf(mem, b - Header) = held[b] + Header
=============================================================================
