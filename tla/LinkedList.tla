------------------------------ MODULE LinkedList ------------------------------
(***************************************************************************)
(* The singly linked list of lib/list.c, which holds the kernel's device   *)
(* drivers (chrdev.c).  Nodes come from kmalloc and go back to kfree.      *)
(* list_insert does not set the tail, which list_append takes to be NULL   *)
(* in an empty list only; what is lost by that is recorded.                *)
(***************************************************************************)
EXTENDS Integers, Sequences, FiniteSets, SequencesExt

CONSTANTS Data,        \* the data pointers put into the list
          Node,        \* the addresses kmalloc returns
          NULL

ASSUME ListAssumption == /\ NULL \notin Node /\ NULL \notin Data
                         /\ Node \cap Data = {}
                         /\ IsFiniteSet(Node) /\ Data # {}

VARIABLES head, tail, count,
          next, data,    \* the fields of the nodes
          alloc,         \* the nodes kmalloc has given and not got back
          lost           \* of these, the ones an append cut off from the list

vars == <<head, tail, count, next, data, alloc, lost>>

\* list_init, called by chrdev_init.
Init == /\ head = NULL /\ tail = NULL /\ count = 0
        /\ next = [n \in Node |-> NULL]
        /\ data = [n \in Node |-> CHOOSE d \in Data : TRUE]
        /\ alloc = {} /\ lost = {}

\* kmalloc gives some node; the code uses the result without a test, and the
\* model has no call that finds the heap full.
NewNode(n) == n \in Node \ alloc /\ alloc' = alloc \cup {n}

\* A walk from a node along the links, up to the NULL at its end.
IsWalk(s, first, link) ==
  /\ first = IF s = <<>> THEN NULL ELSE s[1]
  /\ \A i \in DOMAIN s : link[s[i]] = IF i = Len(s) THEN NULL ELSE s[i + 1]

\* The nodes the loop of list_remove comes to, in order.
Walk(first, link) ==
  LET Length == CHOOSE n \in 0 .. Cardinality(Node) :
                  \E s \in [1 .. n -> Node] : IsWalk(s, first, link)
  IN CHOOSE s \in [1 .. Length -> Node] : IsWalk(s, first, link)
Nodes == Walk(head, next)

\* Mutant of list_append: the tail is not moved.
AppendKeepsTail(d) ==
  \E n \in Node :
    /\ NewNode(n)
    /\ data' = [data EXCEPT ![n] = d]
    /\ head' = IF tail = NULL THEN n ELSE head
    /\ tail' = IF tail = NULL THEN n ELSE tail
    /\ count' = IF tail = NULL THEN 1 ELSE count + 1
    /\ next' = IF tail = NULL THEN [next EXCEPT ![n] = NULL]
               ELSE [next EXCEPT ![n] = NULL, ![tail] = n]
    /\ UNCHANGED lost

\* list_append: a list without a tail is taken for an empty one.
ListAppend(d) ==
  \E n \in Node :
    /\ NewNode(n)
    /\ data' = [data EXCEPT ![n] = d]
    /\ tail' = n
    /\ \/ /\ tail = NULL
          /\ head' = n
          /\ count' = 1
          /\ next' = [next EXCEPT ![n] = NULL]
          /\ lost' = lost \cup Range(Nodes)
       \/ /\ tail # NULL
          /\ next' = [next EXCEPT ![n] = NULL, ![tail] = n]
          /\ count' = count + 1
          /\ UNCHANGED <<head, lost>>

\* list_insert: the tail is left alone, in an empty list too.
ListInsert(d) ==
  \E n \in Node :
    /\ NewNode(n)
    /\ data' = [data EXCEPT ![n] = d]
    /\ next' = [next EXCEPT ![n] = head]
    /\ head' = n
    /\ count' = count + 1
    /\ UNCHANGED <<tail, lost>>

\* Where the loop stops: the i-th node is the first with the data.
IsFirst(nodes, i, d) == /\ data[nodes[i]] = d
                        /\ \A j \in 1 .. i - 1 : data[nodes[j]] # d

\* Mutant of list_remove: the node is gone but still counted.
RemoveKeepsCount(d) ==
  LET nodes == Nodes IN
  \E i \in DOMAIN nodes :
    LET node == nodes[i] IN
    /\ IsFirst(nodes, i, d)
    /\ alloc' = alloc \ {node}
    /\ head' = IF i = 1 THEN next[node] ELSE head
    /\ next' = IF i = 1 THEN next ELSE [next EXCEPT ![nodes[i - 1]] = next[node]]
    /\ tail' = IF node # tail THEN tail
               ELSE IF i = 1 THEN NULL ELSE nodes[i - 1]
    /\ UNCHANGED <<data, count, lost>>

\* list_remove: at the front, at the end or in the middle.  Without the data
\* in the list it returns.
ListRemove(d) ==
  LET nodes == Nodes IN
  \E i \in DOMAIN nodes :
    LET node == nodes[i] IN
    /\ IsFirst(nodes, i, d)
    /\ alloc' = alloc \ {node}
    /\ count' = count - 1
    /\ head' = IF i = 1 THEN next[node] ELSE head
    /\ next' = IF i = 1 THEN next ELSE [next EXCEPT ![nodes[i - 1]] = next[node]]
    /\ tail' = IF node # tail THEN tail
               ELSE IF i = 1 THEN NULL ELSE nodes[i - 1]
    /\ UNCHANGED <<data, lost>>

Next == \E d \in Data : ListAppend(d) \/ ListInsert(d) \/ ListRemove(d)

Spec == Init /\ [][Next]_vars
-----------------------------------------------------------------------------
TypeOK == /\ {head, tail} \subseteq Node \cup {NULL}
          /\ count \in 0 .. Cardinality(Node)
          /\ next \in [Node -> Node \cup {NULL}]
          /\ data \in [Node -> Data]
          /\ alloc \subseteq Node

Items == LET nodes == Nodes IN [i \in DOMAIN nodes |-> data[nodes[i]]]

\* The list was begun by list_insert: it has nodes and no tail.
NoTail == head # NULL /\ tail = NULL

\* The links between the nodes, with the three cases of list_remove and the
\* two of list_append, implement a sequence of data pointers, but for one
\* case: an append to a list that list_insert began leaves the new element
\* alone in it.  No other call makes such a list, and it is such a list until
\* that append or until it is empty.
L == INSTANCE DataList WITH items <- Items
IsDataList ==
  /\ L!Init
  /\ [][/\ L!Next \/ (NoTail /\ \E d \in Data : Items' = <<d>>)
        /\ NoTail' => NoTail \/ Items = <<>>]_Items

\* head, tail and count are three accounts of the same list: the tail is its
\* last node, if list_insert did not begin it, and the count its length,
\* always.  Every node that kmalloc gave is in it, so that none is leaked,
\* except those an append cut off, and these are in it no more.
Agree == LET nodes == Nodes IN
         /\ TypeOK
         /\ tail = IF nodes = <<>> \/ NoTail THEN NULL ELSE Last(nodes)
         /\ count = Len(nodes)
         /\ alloc = Range(nodes) \cup lost
         /\ Range(nodes) \cap lost = {}
         /\ tail # NULL => next[tail] = NULL
=============================================================================
