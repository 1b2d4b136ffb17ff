---------------------------- MODULE LibraryProof ----------------------------
(***************************************************************************)
(* The files of lib that share nothing.  The linked list, for any number   *)
(* of nodes and any data: the links, head, tail and count agree after      *)
(* every sequence of calls, and the list is the sequence that DataList     *)
(* promises, but for the append to a list which list_insert began.  The    *)
(* ELF loader, for all files that are sound in their segments: what it     *)
(* refuses, and what it leaves in memory.  The memory and string           *)
(* functions, on memories of any size: what each call changes and          *)
(* returns.  kprintf, for numbers of any size and all complete             *)
(* directives: the output is what they ask for, unless one is Misprinted.  *)
(***************************************************************************)
EXTENDS LinkedList, Library, SequenceTheorems, FiniteSetTheorems, TLAPS

-----------------------------------------------------------------------------
(* Walks.                                                                  *)

\* A set of numbers up to a bound has a least one, if it has any.
LEMMA LeastUpTo ==
  ASSUME NEW n \in Nat, NEW B, B \subseteq 1 .. n, B # {}
  PROVE  \E m \in B : \A k \in B : m <= k
<1> DEFINE T == {S \in FiniteSubsetsOf(Nat) : \E m \in B : S = 0 .. m}
<1>1. \A m \in B : m \in Nat /\ 0 .. m \in T
  BY FS_Interval DEF FiniteSubsetsOf
<1>2. T # {} /\ T \subseteq FiniteSubsetsOf(Nat)
  BY <1>1
<1>3. PICK S \in T : \A R \in T : ~ (<<R, S>> \in StrictSubsetOrdering(Nat))
  <2> HIDE DEF T
  <2>1. QED
    BY <1>2, FS_StrictSubsetOrderingWellFounded, WFMin, Zenon
<1>4. PICK m \in B : S = 0 .. m
  BY <1>3
<1>5. ASSUME NEW k \in B, k < m PROVE FALSE
  <2>1. <<0 .. k, 0 .. m>> \in StrictSubsetOrdering(Nat)
    BY <1>1, <1>5 DEF StrictSubsetOrdering
  <2>2. QED
    BY <1>1, <1>3, <1>4, <2>1
<1>6. QED
  BY <1>1, <1>5

LEMMA NodeFacts == NULL \notin Node /\ IsFiniteSet(Node) /\ Cardinality(Node) \in Nat
  BY ListAssumption, FS_CardinalityType

LEMMA OfLength ==
  ASSUME NEW S, NEW n \in Nat, NEW s \in [1 .. n -> S]
  PROVE  s \in Seq(S) /\ Len(s) = n /\ DOMAIN s = 1 .. n /\ (s = <<>> <=> n = 0)
<1>1. s \in Seq(S)
  BY SeqDef
<1>2. DOMAIN s = 1 .. n /\ DOMAIN s = 1 .. Len(s) /\ Len(s) \in Nat
  BY <1>1, LenProperties
<1>3. Len(s) = n
  BY <1>2
<1>4. s = <<>> <=> n = 0
  BY <1>1, <1>3, EmptySeq
<1>5. QED
  BY <1>1, <1>2, <1>3, <1>4

\* From one node there is one walk.
LEMMA SameWalk ==
  ASSUME NEW first, NEW link, NEW m \in Nat, NEW n \in Nat,
         NEW s \in [1 .. m -> Node], NEW t \in [1 .. n -> Node],
         IsWalk(s, first, link), IsWalk(t, first, link)
  PROVE  m = n /\ s = t
<1>1. /\ first = IF m = 0 THEN NULL ELSE s[1]
      /\ \A i \in 1 .. m : link[s[i]] = IF i = m THEN NULL ELSE s[i + 1]
  BY OfLength DEF IsWalk
<1>2. /\ first = IF n = 0 THEN NULL ELSE t[1]
      /\ \A i \in 1 .. n : link[t[i]] = IF i = n THEN NULL ELSE t[i + 1]
  BY OfLength DEF IsWalk
<1> DEFINE B == {i \in 1 .. m : ~ (i <= n /\ s[i] = t[i])}
<1>3. B = {}
  <2>1. SUFFICES ASSUME B # {} PROVE FALSE
    OBVIOUS
  <2>2. PICK k \in B : \A j \in B : k <= j
    <3>1. B \subseteq 1 .. m
      OBVIOUS
    <3> HIDE DEF B
    <3>2. QED
      BY <2>1, <3>1, LeastUpTo
  <2>3. k \in 1 .. m /\ ~ (k <= n /\ s[k] = t[k])
    BY <2>2
  <2>4. k # 1
    BY <1>1, <1>2, <2>3, NodeFacts
  <2>5. k - 1 \in 1 .. m /\ k - 1 \notin B
    BY <2>2, <2>3, <2>4
  <2>6. k - 1 \in 1 .. n /\ s[k - 1] = t[k - 1]
    BY <2>5
  <2>7. link[s[k - 1]] = s[k]
    BY <1>1, <2>3, <2>5
  <2>8. link[t[k - 1]] = IF k - 1 = n THEN NULL ELSE t[k]
    BY <1>2, <2>6
  <2>9. s[k] \in Node
    BY <2>3
  <2>10. QED
    BY <2>3, <2>6, <2>7, <2>8, <2>9, NodeFacts
<1>4. \A i \in 1 .. m : i <= n /\ s[i] = t[i]
  BY <1>3
<1>5. m <= n
  BY <1>4
<1>6. ASSUME m < n PROVE FALSE
  <2>1. m # 0
    <3>1. 1 \in 1 .. n /\ t[1] \in Node
      BY <1>6
    <3>2. QED
      BY <1>1, <1>2, <3>1, NodeFacts
  <2>2. link[s[m]] = NULL /\ s[m] = t[m]
    BY <1>1, <1>4, <2>1
  <2>3. link[t[m]] = t[m + 1] /\ t[m + 1] \in Node
    BY <1>2, <1>6, <2>1
  <2>4. QED
    BY <2>2, <2>3, NodeFacts
<1>7. m = n
  BY <1>5, <1>6
<1>8. QED
  BY <1>4, <1>7

\* So the loop of list_remove comes to the nodes of any walk there is.
LEMMA WalkIs ==
  ASSUME NEW first, NEW link, NEW n \in 0 .. Cardinality(Node),
         NEW s \in [1 .. n -> Node], IsWalk(s, first, link)
  PROVE  Walk(first, link) = s
<1> DEFINE IsLength(k) == \E t \in [1 .. k -> Node] : IsWalk(t, first, link)
           Length == CHOOSE k \in 0 .. Cardinality(Node) : IsLength(k)
<1>1. n \in Nat /\ \A k \in 0 .. Cardinality(Node) : k \in Nat
  BY NodeFacts
<1>2. IsLength(n)
  OBVIOUS
<1>3. Length \in 0 .. Cardinality(Node) /\ IsLength(Length)
  <2> HIDE DEF IsLength
  <2>1. QED
    BY <1>2
<1>4. Length = n
  <2>1. PICK t \in [1 .. Length -> Node] : IsWalk(t, first, link)
    BY <1>3
  <2> HIDE DEF Length
  <2>2. QED
    BY <1>1, <1>3, <2>1, SameWalk
<1>5. Walk(first, link) = CHOOSE t \in [1 .. Length -> Node] : IsWalk(t, first, link)
  BY DEF Walk
<1>6. \A t \in [1 .. n -> Node] : IsWalk(t, first, link) => t = s
  BY <1>1, SameWalk
<1>7. QED
  <2> HIDE DEF Length
  <2>1. QED
    BY <1>4, <1>5, <1>6

-----------------------------------------------------------------------------
(* The invariant.                                                          *)

\* The sequence s of n nodes, no node twice, is what these links, ends and
\* allocated nodes are about; the nodes in gone were in the list once.
IsList(s, n, first, last, link, nodes, gone) ==
  /\ first = IF n = 0 THEN NULL ELSE s[1]
  /\ \A i \in 1 .. n : link[s[i]] = IF i = n THEN NULL ELSE s[i + 1]
  /\ \A i, j \in 1 .. n : s[i] = s[j] => i = j
  /\ last # NULL => n # 0 /\ last = s[n]
  /\ nodes = {s[i] : i \in 1 .. n} \cup gone
  /\ gone \subseteq Node /\ \A i \in 1 .. n : s[i] \notin gone

Inv ==
  /\ next \in [Node -> Node \cup {NULL}]
  /\ data \in [Node -> Data]
  /\ count \in 0 .. Cardinality(Node)
  /\ Nodes \in [1 .. count -> Node]
  /\ IsList(Nodes, count, head, tail, next, alloc, lost)

LEMMA InitInv == Init => Inv /\ Items = <<>>
<1> SUFFICES ASSUME Init PROVE Inv /\ Items = <<>>
  OBVIOUS
<1>1. next \in [Node -> Node \cup {NULL}] /\ data \in [Node -> Data]
  BY ListAssumption DEF Init
<1>2. <<>> \in [1 .. 0 -> Node]
  BY SeqDef, EmptySeq
<1>3. IsWalk(<<>>, head, next)
  BY DEF Init, IsWalk
<1>4. 0 \in 0 .. Cardinality(Node)
  BY NodeFacts
<1>5. Nodes = <<>>
  BY <1>2, <1>3, <1>4, WalkIs DEF Nodes
<1>6. IsList(Nodes, count, head, tail, next, alloc, lost)
  BY <1>5 DEF IsList, Init
<1>7. Items = <<>>
  BY <1>5 DEF Items
<1>8. QED
  BY <1>1, <1>2, <1>4, <1>5, <1>6, <1>7 DEF Inv, Init

\* A step that leaves such a sequence behind leaves it to be walked.
LEMMA ListIs ==
  ASSUME NEW n \in Nat, NEW s \in [1 .. n -> Node],
         IsList(s, n, head', tail', next', alloc', lost'), count' = n,
         next' \in [Node -> Node \cup {NULL}], data' \in [Node -> Data]
  PROVE  Nodes' = s /\ Inv'
<1>1. s \in Injection(1 .. n, Node)
  BY DEF IsList, Injection, IsInjective
<1>2. Cardinality(1 .. n) = n
  BY FS_Interval
<1>3. n <= Cardinality(Node)
  BY <1>1, <1>2, NodeFacts, FS_Injection
<1>4. n \in 0 .. Cardinality(Node)
  BY <1>3, NodeFacts
<1>5. IsWalk(s, head', next')
  BY OfLength DEF IsWalk, IsList
<1>6. Nodes' = s
  BY <1>4, <1>5, WalkIs DEF Nodes
<1>7. QED
  BY <1>4, <1>6 DEF Inv

-----------------------------------------------------------------------------
(* The calls.                                                              *)

\* To a list with a tail.
LEMMA AppendStep ==
  ASSUME Inv, NEW d \in Data, ListAppend(d), tail # NULL
  PROVE  Inv' /\ Items' = Append(Items, d)
<1> DEFINE s == Nodes
<1>1. /\ next \in [Node -> Node \cup {NULL}] /\ data \in [Node -> Data]
      /\ count \in Nat /\ s \in [1 .. count -> Node]
      /\ IsList(s, count, head, tail, next, alloc, lost)
  BY NodeFacts DEF Inv
<1> HIDE DEF s
<1>2. PICK n \in Node \ alloc :
        /\ alloc' = alloc \cup {n}
        /\ data' = [data EXCEPT ![n] = d]
        /\ tail' = n
        /\ next' = [next EXCEPT ![n] = NULL, ![tail] = n]
        /\ count' = count + 1 /\ head' = head /\ lost' = lost
  BY DEF ListAppend, NewNode
<1> DEFINE t == [i \in 1 .. count + 1 |-> IF i = count + 1 THEN n ELSE s[i]]
<1>3. \A i \in 1 .. count : s[i] \in Node /\ s[i] # n
  BY <1>1, <1>2 DEF IsList
<1>4. count # 0 /\ tail = s[count] /\ tail \in Node
  BY <1>1, <1>3 DEF IsList
<1>5. t \in [1 .. count + 1 -> Node] /\ count + 1 \in Nat
  BY <1>1, <1>3
<1>6. count' = count + 1
  BY <1>2, <1>4
<1>7. next' \in [Node -> Node \cup {NULL}] /\ data' \in [Node -> Data]
  BY <1>1, <1>2
<1>8. IsList(t, count + 1, head', tail', next', alloc', lost')
  <2>1. head' = t[1] /\ tail' = t[count + 1] /\ count + 1 # 0
    BY <1>1, <1>2, <1>4 DEF IsList
  <2>2. ASSUME NEW i \in 1 .. count + 1
        PROVE  next'[t[i]] = IF i = count + 1 THEN NULL ELSE t[i + 1]
    <3>1. CASE i = count + 1
      <4>1. t[i] = n /\ tail # n
        BY <1>1, <1>3, <1>4, <3>1
      <4>2. QED
        BY <1>1, <1>2, <3>1, <4>1
    <3>2. CASE i = count
      <4>1. t[i] = tail /\ t[i + 1] = n
        BY <1>1, <1>4, <3>2
      <4>2. QED
        BY <1>1, <1>2, <3>2, <4>1
    <3>3. CASE i \in 1 .. count - 1
      <4>1. t[i] = s[i] /\ t[i + 1] = s[i + 1] /\ s[i] # n /\ s[i] \in Node
        BY <1>1, <1>3, <3>3
      <4>2. s[i] # tail /\ next[s[i]] = s[i + 1]
        BY <1>1, <1>4, <3>3 DEF IsList
      <4>3. QED
        BY <1>1, <1>2, <3>3, <4>1, <4>2
    <3>4. QED
      BY <1>1, <3>1, <3>2, <3>3
  <2>3. \A i, j \in 1 .. count + 1 : t[i] = t[j] => i = j
    BY <1>1, <1>3 DEF IsList
  <2>4. alloc' = {t[i] : i \in 1 .. count + 1} \cup lost'
    <3>1. \A i \in 1 .. count : t[i] = s[i]
      BY <1>1
    <3>2. t[count + 1] = n
      BY <1>1
    <3>3. 1 .. count + 1 = (1 .. count) \cup {count + 1}
      BY <1>1
    <3>4. {t[i] : i \in 1 .. count + 1} = {s[i] : i \in 1 .. count} \cup {n}
      <4> HIDE DEF t
      <4>1. QED
        BY <3>1, <3>2, <3>3
    <3>5. QED
      BY <1>1, <1>2, <3>4 DEF IsList
  <2>5. lost' \subseteq Node /\ \A i \in 1 .. count + 1 : t[i] \notin lost'
    BY <1>1, <1>2 DEF IsList
  <2>6. QED
    <3> HIDE DEF t
    <3>1. QED
      BY <1>1, <2>1, <2>2, <2>3, <2>4, <2>5 DEF IsList
<1>9. Nodes' = t /\ Inv'
  <2> HIDE DEF t
  <2>1. QED
    BY <1>5, <1>6, <1>7, <1>8, ListIs
<1>10. Items' = Append(Items, d)
  <2>1. Items = [i \in 1 .. count |-> data[s[i]]]
    BY <1>1 DEF Items, s
  <2>2. Items' = [i \in 1 .. count + 1 |-> data'[t[i]]]
    BY <1>5, <1>9 DEF Items
  <2>3. Items \in [1 .. count -> Data]
    BY <1>1, <1>3, <2>1
  <2>4. Items \in Seq(Data) /\ Len(Items) = count
    BY <1>1, <2>3, OfLength
  <2>5. \A i \in 1 .. count + 1 : data'[t[i]] = IF i = count + 1 THEN d ELSE data[s[i]]
    BY <1>1, <1>2, <1>3
  <2>6. QED
    BY <1>1, <2>1, <2>2, <2>4, <2>5
<1>11. QED
  BY <1>9, <1>10

\* To a list without.
LEMMA BeginStep ==
  ASSUME Inv, NEW d \in Data, ListAppend(d), tail = NULL
  PROVE  Inv' /\ Items' = <<d>>
<1>1. /\ next \in [Node -> Node \cup {NULL}] /\ data \in [Node -> Data]
      /\ count \in Nat /\ Nodes \in [1 .. count -> Node]
      /\ IsList(Nodes, count, head, tail, next, alloc, lost)
  BY NodeFacts DEF Inv
<1>2. PICK n \in Node \ alloc :
        /\ alloc' = alloc \cup {n}
        /\ data' = [data EXCEPT ![n] = d]
        /\ tail' = n /\ head' = n /\ count' = 1
        /\ next' = [next EXCEPT ![n] = NULL]
        /\ lost' = lost \cup Range(Nodes)
  BY DEF ListAppend, NewNode
<1> DEFINE t == [i \in 1 .. 1 |-> n]
<1>3. Range(Nodes) = {Nodes[i] : i \in 1 .. count}
  BY <1>1 DEF Range
<1>4. t \in [1 .. 1 -> Node] /\ t[1] = n
  OBVIOUS
<1>5. next' \in [Node -> Node \cup {NULL}] /\ data' \in [Node -> Data]
  BY <1>1, <1>2
<1>6. alloc = lost' /\ lost' \subseteq Node
  BY <1>1, <1>2, <1>3 DEF IsList
<1>7. IsList(t, 1, head', tail', next', alloc', lost')
  <2>1. next'[n] = NULL /\ n \notin lost'
    BY <1>1, <1>2, <1>6
  <2>2. QED
    BY <1>2, <1>4, <1>6, <2>1, NodeFacts DEF IsList
<1>8. Nodes' = t /\ Inv'
  <2> HIDE DEF t
  <2>1. QED
    BY <1>2, <1>4, <1>5, <1>7, ListIs
<1>9. Items' = <<d>>
  <2>1. Items' = [i \in 1 .. 1 |-> data'[t[i]]]
    BY <1>4, <1>8 DEF Items
  <2>2. Items' \in [1 .. 1 -> Data] /\ Items'[1] = d
    BY <1>1, <1>2, <1>4, <1>5, <2>1
  <2>3. Items' \in Seq(Data) /\ Len(Items') = 1
    BY <2>2, OfLength
  <2>4. QED
    BY <2>2, <2>3
<1>10. QED
  BY <1>8, <1>9

LEMMA InsertStep ==
  ASSUME Inv, NEW d \in Data, ListInsert(d)
  PROVE  Inv' /\ Items' = <<d>> \o Items
<1> DEFINE s == Nodes
<1>1. /\ next \in [Node -> Node \cup {NULL}] /\ data \in [Node -> Data]
      /\ count \in Nat /\ s \in [1 .. count -> Node]
      /\ IsList(s, count, head, tail, next, alloc, lost)
  BY NodeFacts DEF Inv
<1> HIDE DEF s
<1>2. PICK n \in Node \ alloc :
        /\ alloc' = alloc \cup {n}
        /\ data' = [data EXCEPT ![n] = d]
        /\ next' = [next EXCEPT ![n] = head]
        /\ head' = n /\ tail' = tail
        /\ count' = count + 1 /\ lost' = lost
  BY DEF ListInsert, NewNode
<1> DEFINE t == [i \in 1 .. count + 1 |-> IF i = 1 THEN n ELSE s[i - 1]]
<1>3. \A i \in 1 .. count : s[i] \in Node /\ s[i] # n
  BY <1>1, <1>2 DEF IsList
<1>4. head = IF count = 0 THEN NULL ELSE s[1]
  BY <1>1 DEF IsList
<1>5. t \in [1 .. count + 1 -> Node] /\ count + 1 \in Nat
  BY <1>1, <1>3
<1>6. next' \in [Node -> Node \cup {NULL}] /\ data' \in [Node -> Data]
  BY <1>1, <1>2, <1>3, <1>4
<1>7. IsList(t, count + 1, head', tail', next', alloc', lost')
  <2>1. head' = t[1] /\ (tail' # NULL => tail' = t[count + 1]) /\ count + 1 # 0
    BY <1>1, <1>2 DEF IsList
  <2>2. ASSUME NEW i \in 1 .. count + 1
        PROVE  next'[t[i]] = IF i = count + 1 THEN NULL ELSE t[i + 1]
    <3>1. CASE i = 1
      BY <1>1, <1>2, <1>4, <3>1
    <3>2. CASE i \in 2 .. count + 1
      <4>1. t[i] = s[i - 1] /\ s[i - 1] \in Node /\ s[i - 1] # n /\ i - 1 \in 1 .. count
        BY <1>1, <1>3, <3>2
      <4>2. next[s[i - 1]] = IF i - 1 = count THEN NULL ELSE s[i]
        BY <1>1, <4>1 DEF IsList
      <4>3. i # count + 1 => t[i + 1] = s[i]
        BY <1>1, <3>2
      <4>4. QED
        BY <1>1, <1>2, <4>1, <4>2, <4>3
    <3>3. QED
      BY <1>1, <3>1, <3>2
  <2>3. \A i, j \in 1 .. count + 1 : t[i] = t[j] => i = j
    BY <1>1, <1>3 DEF IsList
  <2>4. alloc' = {t[i] : i \in 1 .. count + 1} \cup lost'
    <3>1. \A i \in 1 .. count : i + 1 \in 1 .. count + 1 /\ t[i + 1] = s[i]
      BY <1>1
    <3>2. 1 \in 1 .. count + 1 /\ t[1] = n
      BY <1>1
    <3>3. \A i \in 1 .. count + 1 : i = 1 \/ (i - 1 \in 1 .. count /\ t[i] = s[i - 1])
      BY <1>1
    <3>4. {t[i] : i \in 1 .. count + 1} = {s[i] : i \in 1 .. count} \cup {n}
      <4> HIDE DEF t
      <4>1. QED
        BY <3>1, <3>2, <3>3
    <3>5. QED
      BY <1>1, <1>2, <3>4 DEF IsList
  <2>5. lost' \subseteq Node /\ \A i \in 1 .. count + 1 : t[i] \notin lost'
    BY <1>1, <1>2 DEF IsList
  <2>6. QED
    <3> HIDE DEF t
    <3>1. QED
      BY <1>1, <2>1, <2>2, <2>3, <2>4, <2>5 DEF IsList
<1>8. Nodes' = t /\ Inv'
  <2> HIDE DEF t
  <2>1. QED
    BY <1>2, <1>5, <1>6, <1>7, ListIs
<1>9. Items' = <<d>> \o Items
  <2>1. Items = [i \in 1 .. count |-> data[s[i]]]
    BY <1>1 DEF Items, s
  <2>2. Items' = [i \in 1 .. count + 1 |-> data'[t[i]]]
    BY <1>5, <1>8 DEF Items
  <2>3. Items \in [1 .. count -> Data]
    BY <1>1, <1>3, <2>1
  <2>4. Items \in Seq(Data) /\ Len(Items) = count
    BY <1>1, <2>3, OfLength
  <2>5. \A i \in 1 .. count + 1 : data'[t[i]] = IF i = 1 THEN d ELSE data[s[i - 1]]
    BY <1>1, <1>2, <1>3
  <2>6. Items' \in Seq(Data) /\ Len(Items') = count + 1
    <3>1. Items' \in [1 .. count + 1 -> Data]
      BY <1>1, <1>3, <2>2, <2>5
    <3>2. QED
      BY <1>5, <3>1, OfLength
  <2>7. <<d>> \in Seq(Data) /\ Len(<<d>>) = 1 /\ <<d>>[1] = d
    OBVIOUS
  <2>8. /\ <<d>> \o Items \in Seq(Data)
        /\ Len(<<d>> \o Items) = count + 1
        /\ \A i \in 1 .. count + 1 :
             (<<d>> \o Items)[i] = IF i <= 1 THEN <<d>>[i] ELSE Items[i - 1]
    BY <1>1, <2>4, <2>7, ConcatProperties
  <2>9. \A i \in 1 .. count + 1 : Items'[i] = (<<d>> \o Items)[i]
    BY <1>1, <2>1, <2>2, <2>5, <2>7, <2>8
  <2>10. QED
    BY <2>6, <2>8, <2>9, SeqEqual
<1>10. QED
  BY <1>8, <1>9

\* A sequence without its i-th element.
LEMMA Without ==
  ASSUME NEW n \in Nat, NEW s \in [1 .. n -> Data], NEW i \in 1 .. n
  PROVE  SubSeq(s, 1, i - 1) \o SubSeq(s, i + 1, Len(s))
           = [j \in 1 .. n - 1 |-> IF j < i THEN s[j] ELSE s[j + 1]]
<1> DEFINE a == SubSeq(s, 1, i - 1)
           b == SubSeq(s, i + 1, n)
           t == [j \in 1 .. n - 1 |-> IF j < i THEN s[j] ELSE s[j + 1]]
<1>1. Len(s) = n
  BY OfLength
<1>2. \A j \in 1 .. n : s[j] \in Data
  OBVIOUS
<1>3. a \in Seq(Data) /\ Len(a) = i - 1 /\ \A j \in 1 .. i - 1 : a[j] = s[j]
  <2>1. \A j \in 1 .. i - 1 : s[j] \in Data
    BY <1>2
  <2>2. QED
    BY <2>1, SubSeqProperties
<1>4. b \in Seq(Data) /\ Len(b) = n - i /\ \A j \in 1 .. n - i : b[j] = s[i + j]
  <2>1. \A j \in i + 1 .. n : s[j] \in Data
    BY <1>2
  <2>2. QED
    BY <2>1, SubSeqProperties
<1>5. t \in [1 .. n - 1 -> Data] /\ n - 1 \in Nat
  BY <1>2
<1>6. t \in Seq(Data) /\ Len(t) = n - 1
  BY <1>5, OfLength
<1> HIDE DEF a, b
<1>7. /\ a \o b \in Seq(Data) /\ Len(a \o b) = n - 1
      /\ \A j \in 1 .. n - 1 : (a \o b)[j] = IF j <= i - 1 THEN a[j] ELSE b[j - (i - 1)]
  BY <1>3, <1>4, ConcatProperties
<1>8. \A j \in 1 .. n - 1 : (a \o b)[j] = t[j]
  BY <1>3, <1>4, <1>7
<1>9. a \o b = t
  <2> HIDE DEF t
  <2>1. QED
    BY <1>6, <1>7, <1>8, SeqEqual
<1>10. QED
  BY <1>1, <1>9 DEF a, b

LEMMA RemoveStep ==
  ASSUME Inv, NEW d \in Data, ListRemove(d)
  PROVE  Inv' /\ L!Take(d) /\ (NoTail' => NoTail)
<1> DEFINE s == Nodes
<1>1. /\ next \in [Node -> Node \cup {NULL}] /\ data \in [Node -> Data]
      /\ count \in Nat /\ s \in [1 .. count -> Node]
      /\ IsList(s, count, head, tail, next, alloc, lost)
  BY NodeFacts DEF Inv
<1>2. DOMAIN s = 1 .. count
  BY <1>1
<1>3. PICK i \in 1 .. count :
        /\ data[s[i]] = d
        /\ \A j \in 1 .. i - 1 : data[s[j]] # d
        /\ alloc' = alloc \ {s[i]}
        /\ count' = count - 1
        /\ head' = IF i = 1 THEN next[s[i]] ELSE head
        /\ next' = IF i = 1 THEN next ELSE [next EXCEPT ![s[i - 1]] = next[s[i]]]
        /\ tail' = IF s[i] # tail THEN tail ELSE IF i = 1 THEN NULL ELSE s[i - 1]
        /\ data' = data /\ lost' = lost
  BY <1>2 DEF ListRemove, IsFirst
<1> HIDE DEF s
<1>4. \A j \in 1 .. count : s[j] \in Node
  BY <1>1
<1>5. \A j, k \in 1 .. count : s[j] = s[k] => j = k
  BY <1>1 DEF IsList
<1>6. \A j \in 1 .. count : next[s[j]] = IF j = count THEN NULL ELSE s[j + 1]
  BY <1>1 DEF IsList
<1>7. /\ tail # NULL => tail = s[count]
      /\ head = s[1] /\ alloc = {s[j] : j \in 1 .. count} \cup lost
      /\ lost \subseteq Node /\ \A j \in 1 .. count : s[j] \notin lost
  BY <1>1 DEF IsList
<1> DEFINE t == [j \in 1 .. count - 1 |-> IF j < i THEN s[j] ELSE s[j + 1]]
<1>8. t \in [1 .. count - 1 -> Node] /\ count - 1 \in Nat
  BY <1>1, <1>4
<1>9. next' \in [Node -> Node \cup {NULL}] /\ data' \in [Node -> Data]
  <2>1. next[s[i]] \in Node \cup {NULL}
    BY <1>1, <1>4
  <2>2. QED
    BY <1>1, <1>3, <2>1
<1>10. IsList(t, count - 1, head', tail', next', alloc', lost')
  <2>1. head' = IF count - 1 = 0 THEN NULL ELSE t[1]
    BY <1>1, <1>3, <1>6, <1>7
  <2>2. tail' # NULL => count - 1 # 0 /\ tail' = t[count - 1]
    <3>1. CASE tail = NULL
      <4>1. s[i] # tail
        BY <1>4, <3>1, NodeFacts
      <4>2. QED
        BY <1>3, <3>1, <4>1
    <3>2. CASE tail # NULL
      <4>1. s[i] = tail <=> i = count
        BY <1>1, <1>5, <1>7, <3>2
      <4>2. QED
        BY <1>1, <1>3, <1>7, <3>2, <4>1
    <3>3. QED
      BY <3>1, <3>2
  <2>3. ASSUME NEW j \in 1 .. count - 1
        PROVE  next'[t[j]] = IF j = count - 1 THEN NULL ELSE t[j + 1]
    <3>1. CASE j < i - 1
      <4>1. t[j] = s[j] /\ t[j + 1] = s[j + 1] /\ s[j] # s[i - 1] /\ i # 1 /\ j # count - 1
        BY <1>1, <1>5, <3>1
      <4>2. next[s[j]] = s[j + 1]
        BY <1>1, <1>6
      <4>3. QED
        BY <1>1, <1>3, <1>4, <4>1, <4>2
    <3>2. CASE j = i - 1
      <4>1. t[j] = s[i - 1] /\ s[i - 1] \in Node /\ i # 1
        BY <1>1, <1>4, <3>2
      <4>2. next'[t[j]] = next[s[i]]
        BY <1>1, <1>3, <4>1
      <4>3. j # count - 1 => t[j + 1] = s[i + 1]
        BY <1>1, <3>2
      <4>4. QED
        BY <1>1, <1>6, <3>2, <4>2, <4>3
    <3>3. CASE j >= i
      <4>1. t[j] = s[j + 1] /\ (j # count - 1 => t[j + 1] = s[j + 2])
        BY <1>1, <3>3
      <4>2. i # 1 => s[j + 1] # s[i - 1]
        BY <1>1, <1>5, <3>3
      <4>3. next'[t[j]] = next[s[j + 1]]
        BY <1>1, <1>3, <1>4, <4>1, <4>2
      <4>4. QED
        BY <1>1, <1>6, <4>1, <4>3
    <3>4. QED
      BY <1>1, <3>1, <3>2, <3>3
  <2>4. \A j, k \in 1 .. count - 1 : t[j] = t[k] => j = k
    BY <1>1, <1>5
  <2>5. alloc' = {t[j] : j \in 1 .. count - 1} \cup lost'
    <3>1. \A j \in 1 .. count - 1 : \E k \in 1 .. count : k # i /\ t[j] = s[k]
      <4>1. SUFFICES ASSUME NEW j \in 1 .. count - 1
                     PROVE  \E k \in 1 .. count : k # i /\ t[j] = s[k]
        OBVIOUS
      <4>2. CASE j < i
        BY <1>1, <4>2
      <4>3. CASE j >= i
        BY <1>1, <4>3
      <4>4. QED
        BY <1>1, <4>2, <4>3
    <3>2. \A k \in 1 .. count : k # i => \E j \in 1 .. count - 1 : t[j] = s[k]
      <4>1. SUFFICES ASSUME NEW k \in 1 .. count, k # i
                     PROVE  \E j \in 1 .. count - 1 : t[j] = s[k]
        OBVIOUS
      <4>2. CASE k < i
        <5>1. k \in 1 .. count - 1 /\ t[k] = s[k]
          BY <1>1, <4>2
        <5>2. QED
          BY <5>1
      <4>3. CASE k > i
        <5>1. k - 1 \in 1 .. count - 1 /\ t[k - 1] = s[k]
          BY <1>1, <4>3
        <5>2. QED
          BY <5>1
      <4>4. QED
        BY <1>1, <4>1, <4>2, <4>3
    <3> HIDE DEF t
    <3>3. \A k \in 1 .. count : s[k] = s[i] <=> k = i
      BY <1>5
    <3>4. QED
      BY <1>3, <1>7, <3>1, <3>2, <3>3
  <2>6. lost' \subseteq Node /\ \A j \in 1 .. count - 1 : t[j] \notin lost'
    BY <1>1, <1>3, <1>7
  <2>7. QED
    <3> HIDE DEF t
    <3>1. QED
      BY <1>1, <2>1, <2>2, <2>3, <2>4, <2>5, <2>6 DEF IsList
<1>11. Nodes' = t /\ Inv'
  <2> HIDE DEF t
  <2>1. QED
    BY <1>3, <1>8, <1>9, <1>10, ListIs
<1>12. L!Take(d)
  <2>1. Items = [j \in 1 .. count |-> data[s[j]]]
    BY <1>1 DEF Items, s
  <2>2. Items' = [j \in 1 .. count - 1 |-> data[t[j]]]
    BY <1>3, <1>8, <1>11 DEF Items
  <2>3. Items \in [1 .. count -> Data]
    BY <1>1, <1>4, <2>1
  <2>4. Items[i] = d /\ i \in DOMAIN Items /\ \A j \in 1 .. i - 1 : Items[j] # d
    BY <1>1, <1>3, <2>1
  <2>5. SubSeq(Items, 1, i - 1) \o SubSeq(Items, i + 1, Len(Items))
          = [j \in 1 .. count - 1 |-> IF j < i THEN Items[j] ELSE Items[j + 1]]
    BY <1>1, <2>3, Without
  <2>6. \A j \in 1 .. count - 1 :
          data[t[j]] = IF j < i THEN Items[j] ELSE Items[j + 1]
    BY <1>1, <2>1
  <2>7. Items' = SubSeq(Items, 1, i - 1) \o SubSeq(Items, i + 1, Len(Items))
    BY <2>2, <2>5, <2>6
  <2>8. QED
    BY <2>4, <2>7 DEF L!Take
<1>13. NoTail' => NoTail
  <2>1. SUFFICES ASSUME tail' = NULL, head' # NULL PROVE tail = NULL /\ head # NULL
    BY DEF NoTail
  <2>2. head # NULL
    BY <1>1, <1>4, <1>7, NodeFacts
  <2>3. ASSUME tail # NULL PROVE FALSE
    <3>1. tail = s[i] /\ i = count
      BY <1>1, <1>3, <1>5, <1>7, <2>1, <2>3
    <3>2. i # 1
      BY <1>3, <1>6, <2>1, <3>1
    <3>3. tail' = s[i - 1] /\ s[i - 1] \in Node
      BY <1>1, <1>3, <1>4, <3>1, <3>2
    <3>4. QED
      BY <2>1, <3>3, NodeFacts
  <2>4. QED
    BY <2>2, <2>3
<1>14. QED
  BY <1>11, <1>12, <1>13

\* What IsDataList asks of a step.
ListStep == /\ L!Next \/ (NoTail /\ \E d \in Data : Items' = <<d>>)
            /\ NoTail' => NoTail \/ Items = <<>>

LEMMA EmptyList ==
  ASSUME Inv
  PROVE  /\ head = NULL <=> count = 0
         /\ Items = <<>> <=> count = 0
<1>1. /\ count \in Nat /\ Nodes \in [1 .. count -> Node]
      /\ IsList(Nodes, count, head, tail, next, alloc, lost)
  BY NodeFacts DEF Inv
<1>2. head = NULL <=> count = 0
  BY <1>1, NodeFacts DEF IsList
<1>3. Items \in [1 .. count -> Data]
  BY <1>1 DEF Items, Inv
<1>4. QED
  BY <1>1, <1>2, <1>3, OfLength

LEMMA NextStep ==
  ASSUME Inv, [Next]_vars
  PROVE  Inv' /\ [ListStep]_Items
<1>1. ASSUME NEW d \in Data, ListAppend(d) PROVE Inv' /\ ListStep
  <2>1. ~ NoTail'
    BY <1>1, NodeFacts DEF ListAppend, NewNode, NoTail
  <2>2. CASE tail # NULL
    BY <1>1, <2>1, <2>2, AppendStep DEF ListStep, L!Next, L!AddLast
  <2>3. CASE tail = NULL /\ head # NULL
    BY <1>1, <2>1, <2>3, BeginStep DEF ListStep, NoTail
  <2>4. CASE tail = NULL /\ head = NULL
    <3>1. Items = <<>>
      BY <2>4, EmptyList
    <3>2. Items' = <<d>> /\ Inv'
      BY <1>1, <2>4, BeginStep
    <3>3. L!AddLast(d)
      BY <3>1, <3>2 DEF L!AddLast
    <3>4. QED
      BY <2>1, <3>2, <3>3 DEF ListStep, L!Next
  <2>5. QED
    BY <2>2, <2>3, <2>4
<1>2. ASSUME NEW d \in Data, ListInsert(d) PROVE Inv' /\ ListStep
  <2>1. Inv' /\ L!AddFirst(d)
    BY <1>2, InsertStep DEF L!AddFirst
  <2>2. NoTail' => NoTail \/ Items = <<>>
    <3>1. tail' = tail
      BY <1>2 DEF ListInsert
    <3>2. head = NULL => Items = <<>>
      BY EmptyList
    <3>3. QED
      BY <3>1, <3>2 DEF NoTail
  <2>3. QED
    BY <2>1, <2>2 DEF ListStep, L!Next
<1>3. ASSUME NEW d \in Data, ListRemove(d) PROVE Inv' /\ ListStep
  BY <1>3, RemoveStep DEF ListStep, L!Next
<1>4. CASE UNCHANGED vars
  <2>1. Inv' <=> Inv
    BY <1>4 DEF vars, Inv, IsList, Nodes
  <2>2. Items' = Items
    BY <1>4 DEF vars, Nodes, Items
  <2>3. QED
    BY <2>1, <2>2
<1>5. QED
  BY <1>1, <1>2, <1>3, <1>4 DEF Next

-----------------------------------------------------------------------------
\* After any sequence of list_append, list_insert and list_remove the count is
\* the number of nodes the links lead to, the tail is the last of them unless
\* list_insert began the list, and the nodes kmalloc gave are these and the
\* ones an append to a list begun by list_insert cut off: no other is leaked.
THEOREM AccountsAgree == Spec => []Agree
<1>1. Inv => Agree
  <2>1. SUFFICES ASSUME Inv PROVE Agree
    OBVIOUS
  <2>2. /\ count \in Nat /\ Nodes \in [1 .. count -> Node]
        /\ Len(Nodes) = count /\ DOMAIN Nodes = 1 .. count /\ (Nodes = <<>> <=> count = 0)
    BY <2>1, NodeFacts, OfLength DEF Inv
  <2>3. Range(Nodes) = {Nodes[i] : i \in 1 .. count}
    BY <2>2 DEF Range
  <2>4. TypeOK
    BY <2>1, <2>2 DEF Inv, IsList, TypeOK
  <2>5. tail = IF Nodes = <<>> \/ NoTail THEN NULL ELSE Last(Nodes)
    BY <2>1, <2>2, NodeFacts DEF Inv, IsList, Last, NoTail
  <2>6. tail # NULL => next[tail] = NULL
    BY <2>1, <2>2 DEF Inv, IsList
  <2>7. alloc = Range(Nodes) \cup lost /\ Range(Nodes) \cap lost = {}
    BY <2>1, <2>2, <2>3 DEF Inv, IsList
  <2>8. QED
    BY <2>2, <2>4, <2>5, <2>6, <2>7 DEF Agree
<1>2. Inv /\ [Next]_vars => Inv'
  BY NextStep
<1>3. QED
  BY <1>1, <1>2, InitInv, PTL DEF Spec

\* What the links, ends and cases of list.c do is what is asked of a sequence:
\* additions at either end, and removal of the first element with a value;
\* except that an append to a list which list_insert began, when it was empty,
\* leaves nothing but the new element.
THEOREM LinksImplementList == Spec => IsDataList
<1>1. Init => Inv /\ L!Init
  BY InitInv DEF L!Init
<1>2. Inv /\ [Next]_vars => Inv' /\ [ListStep]_Items
  BY NextStep
<1>3. QED
  BY <1>1, <1>2, PTL DEF Spec, IsDataList, ListStep

-----------------------------------------------------------------------------
(* The ELF loader: the checks of the header.                               *)

\* A set of numbers up to a bound has a greatest one, if it has any.
LEMMA GreatestUpTo ==
  ASSUME NEW n \in Nat, NEW B, B \subseteq 1 .. n, B # {}
  PROVE  \E m \in B : \A k \in B : k <= m
<1> DEFINE C == {n + 1 - k : k \in B}
<1>1. C \subseteq 1 .. n /\ C # {}
  <2>1. \A k \in B : n + 1 - k \in 1 .. n
    OBVIOUS
  <2>2. PICK k : k \in B
    OBVIOUS
  <2>3. n + 1 - k \in C
    BY <2>2
  <2>4. QED
    BY <2>1, <2>3
<1>2. PICK c \in C : \A k \in C : c <= k
  BY <1>1, LeastUpTo
<1>3. PICK m \in B : c = n + 1 - m
  BY <1>2
<1>4. ASSUME NEW k \in B PROVE k <= m
  <2>1. c <= n + 1 - k
    BY <1>2
  <2>2. QED
    BY <1>3, <2>1
<1>5. QED
  BY <1>4

LEMMA ChecksAre ==
  /\ DOMAIN Loader!Checks = 1 .. 13
  /\ \A k \in 1 .. 13 : Loader!Checks[k][2] \in Int /\ Loader!Checks[k][2] < 0
  /\ \A f \in Loader!Fields : \E k \in 1 .. 13 : Loader!Checks[k][1] = f
  BY DEF Loader!Checks, Loader!Fields

\* The header passes just when nothing in it is wrong.
LEMMA HeaderChecked ==
  ASSUME image.wrong \subseteq Loader!Fields
  PROVE  IF image.wrong = {} THEN Loader!validate_header = 0
         ELSE Loader!validate_header \in Int /\ Loader!validate_header < 0
<1> DEFINE failed == {k \in 1 .. 13 : Loader!Checks[k][1] \in image.wrong}
<1>1. Loader!validate_header = IF failed = {} THEN 0 ELSE Loader!Checks[Loader!Min(failed)][2]
  BY ChecksAre DEF Loader!validate_header
<1>2. failed = {} <=> image.wrong = {}
  BY ChecksAre
<1>3. failed # {} => Loader!Min(failed) \in 1 .. 13
  <2>1. failed \subseteq 1 .. 13
    OBVIOUS
  <2> HIDE DEF failed
  <2>2. ASSUME failed # {} PROVE \E m \in failed : \A k \in failed : m <= k
    BY <2>1, <2>2, LeastUpTo
  <2>3. failed # {} => Loader!Min(failed) \in failed
    BY <2>2 DEF Loader!Min
  <2>4. QED
    BY <2>1, <2>3
<1>4. QED
  BY <1>1, <1>2, <1>3, ChecksAre


-----------------------------------------------------------------------------
(* The ELF loader: what is in memory after each segment.                   *)

Loading(k, a) == Loader!Loads(image.segments[k], a)
From(n, a) == {k \in 1 .. n : Loading(k, a)}
LastFrom(n, a) == image.segments[Loader!Max(From(n, a))]

\* The byte that the first n segments leave at a.
Content(n, a) == IF From(n, a) = {} THEN Loader!Old
                 ELSE LastFrom(n, a).offset + (a - LastFrom(n, a).vaddr)

Space == 0 .. TaskSize - 1

Outcome ==
  /\ rc = Loader!Running \/ rc = 0 \/ rc < 0
  /\ rc \in Int
  /\ rc < 0 => image.wrong # {} /\ ~ start
  /\ rc = 0 => start /\ turn = Len(image.segments)
  /\ start => image.wrong = {}

LoaderInv ==
  /\ image \in Images
  /\ turn \in 0 .. Len(image.segments)
  /\ start \in BOOLEAN /\ refused \in BOOLEAN
  /\ DOMAIN memory = Space
  /\ Outcome
  /\ ~ start => turn = 0 /\ \A a \in Space : memory[a] = Loader!Old
  /\ ~ refused => \A a \in Space : memory[a] = Content(turn, a)

LEMMA ImageIs ==
  ASSUME Loader!ElfAssumption, image \in Images
  PROVE  /\ image.wrong \subseteq Loader!Fields
         /\ image.segments \in Seq(Loader!Segment) /\ Len(image.segments) \in Nat
         /\ \A k \in 1 .. Len(image.segments) : image.segments[k] \in Loader!Segment
         /\ TaskSize \in Nat
<1>1. /\ image.wrong \subseteq Loader!Fields /\ image.segments \in Seq(Loader!Segment)
      /\ TaskSize \in Nat
  BY DEF Loader!ElfAssumption
<1>2. QED
  BY <1>1

\* The last of the segments so far.
LEMMA LastIs ==
  ASSUME NEW n \in Nat, NEW a
  PROVE  /\ ~ Loading(n + 1, a) => Content(n + 1, a) = Content(n, a)
         /\ Loading(n + 1, a) =>
              Content(n + 1, a) = image.segments[n + 1].offset + (a - image.segments[n + 1].vaddr)
         /\ Content(0, a) = Loader!Old
<1>1. From(n + 1, a) = IF Loading(n + 1, a) THEN From(n, a) \cup {n + 1} ELSE From(n, a)
  BY DEF From
<1>2. ~ Loading(n + 1, a) => Content(n + 1, a) = Content(n, a)
  BY <1>1 DEF Content, LastFrom
<1>3. ASSUME Loading(n + 1, a)
      PROVE  Content(n + 1, a) = image.segments[n + 1].offset + (a - image.segments[n + 1].vaddr)
  <2> DEFINE B == From(n + 1, a)
  <2>1. B \subseteq 1 .. n + 1 /\ n + 1 \in B
    BY <1>3 DEF From
  <2>2. Loader!Max(B) = CHOOSE x \in B : \A y \in B : x >= y
    BY DEF Loader!Max
  <2> HIDE DEF B
  <2>3. \A y \in B : n + 1 >= y
    BY <2>1
  <2>4. Loader!Max(B) \in B /\ \A y \in B : Loader!Max(B) >= y
    BY <2>1, <2>2, <2>3
  <2> DEFINE m == Loader!Max(B)
  <2>5. m \in B /\ m >= n + 1 /\ n + 1 >= m
    BY <2>1, <2>3, <2>4
  <2> HIDE DEF m
  <2>6. m = n + 1 /\ B # {}
    BY <2>1, <2>5
  <2>7. QED
    BY <2>6 DEF Content, LastFrom, B, m
<1>4. From(0, a) = {}
  BY DEF From
<1>5. QED
  BY <1>2, <1>3, <1>4 DEF Content

LEMMA InitLoader == Loader!ElfAssumption /\ Loader!Init => LoaderInv
<1> SUFFICES ASSUME Loader!ElfAssumption, Loader!Init PROVE LoaderInv
  OBVIOUS
<1>1. /\ image \in Images /\ turn = 0 /\ rc = 1 /\ start = FALSE /\ refused = FALSE
      /\ memory = [a \in 0 .. TaskSize - 1 |-> Loader!Old]
  BY DEF Loader!Init, Loader!Running
<1>2. \A a \in Space : Content(0, a) = Loader!Old
  BY LastIs
<1>3. turn \in 0 .. Len(image.segments)
  BY <1>1, ImageIs
<1>4. Outcome
  BY <1>1 DEF Outcome, Loader!Running
<1>5. QED
  BY <1>1, <1>2, <1>3, <1>4 DEF LoaderInv, Space

LEMMA ValidateStep ==
  ASSUME Loader!ElfAssumption, LoaderInv, Loader!Validate
  PROVE  LoaderInv'
<1>1. /\ rc = 1 /\ ~ start
      /\ IF Loader!validate_header < 0 THEN rc' = Loader!validate_header /\ start' = start
         ELSE start' = TRUE /\ rc' = rc
      /\ UNCHANGED <<image, turn, memory, refused>>
  BY DEF Loader!Validate, Loader!Running
<1>2. IF image.wrong = {} THEN Loader!validate_header = 0
      ELSE Loader!validate_header \in Int /\ Loader!validate_header < 0
  BY ImageIs, HeaderChecked DEF LoaderInv
<1>3. Outcome'
  BY <1>1, <1>2 DEF LoaderInv, Outcome, Loader!Running
<1>4. \A a \in Space : Content(turn, a)' = Content(turn, a)
  BY <1>1 DEF Content, LastFrom, From, Loading
<1>5. QED
  BY <1>1, <1>3, <1>4 DEF LoaderInv

LEMMA LoadStep ==
  ASSUME Loader!ElfAssumption, LoaderInv, Loader!Load
  PROVE  LoaderInv'
<1>1. rc = 1 /\ start /\ image' = image /\ start' = start
  BY DEF Loader!Load, Loader!Running
<1>2. CASE turn < Len(image.segments)
  <2> DEFINE s == image.segments[turn + 1]
  <2>1. turn' = turn + 1 /\ Loader!handle_program_header(s) /\ rc' = rc
    BY <1>2 DEF Loader!Load
  <2>2. turn \in Nat /\ turn' \in 0 .. Len(image.segments) /\ s \in Loader!Segment
    BY <1>1, <1>2, <2>1, ImageIs DEF LoaderInv
  <2>3. Outcome'
    BY <1>1, <2>1 DEF LoaderInv, Outcome, Loader!Running
  <2>4. /\ DOMAIN memory' = Space /\ refused' \in BOOLEAN
        /\ ~ refused' => /\ ~ refused
                         /\ \A a \in Space :
                              memory'[a] = IF Loading(turn + 1, a)
                                           THEN s.offset + (a - s.vaddr) ELSE memory[a]
    <3>1. CASE s.load
      <4>1. PICK ptr \in {s.vaddr, Loader!NULL} :
              /\ refused' = (refused \/ ptr = Loader!NULL)
              /\ memory' = Loader!Copied(ptr, s.offset, s.filesz)
        BY <2>1, <3>1 DEF Loader!handle_program_header
      <4>2. memory' = [a \in Space |-> IF a \in ptr .. ptr + s.filesz - 1
                                       THEN s.offset + (a - ptr) ELSE memory[a]]
        BY <4>1 DEF LoaderInv, Loader!Copied
      <4>3. ~ refused' => ptr = s.vaddr /\ ~ refused
        BY <4>1
      <4>4. refused' \in BOOLEAN
        BY <4>1, Zenon DEF LoaderInv
      <4>5. \A a : Loading(turn + 1, a) <=> a \in s.vaddr .. s.vaddr + s.filesz - 1
        BY <3>1 DEF Loading, Loader!Loads
      <4>6. QED
        BY <4>2, <4>3, <4>4, <4>5
    <3>2. CASE ~ s.load
      <4>1. memory' = memory /\ refused' = refused
        BY <2>1, <3>2 DEF Loader!handle_program_header
      <4>2. \A a : ~ Loading(turn + 1, a)
        BY <3>2 DEF Loading, Loader!Loads
      <4>3. QED
        BY <4>1, <4>2 DEF LoaderInv
    <3>3. QED
      BY <3>1, <3>2
  <2>5. ASSUME ~ refused', NEW a \in Space PROVE memory'[a] = Content(turn, a)'
    <3>1. memory[a] = Content(turn, a) /\ ~ refused
      BY <2>4, <2>5 DEF LoaderInv
    <3>2. memory'[a] = IF Loading(turn + 1, a) THEN s.offset + (a - s.vaddr) ELSE memory[a]
      BY <2>4, <2>5
    <3>3. Content(turn + 1, a) = IF Loading(turn + 1, a) THEN s.offset + (a - s.vaddr)
                                 ELSE Content(turn, a)
      BY <2>2, LastIs
    <3>4. Content(turn, a)' = Content(turn + 1, a)
      BY <1>1, <2>1 DEF Content, LastFrom, From, Loading
    <3>5. QED
      BY <3>1, <3>2, <3>3, <3>4
  <2>6. QED
    BY <1>1, <2>2, <2>3, <2>4, <2>5 DEF LoaderInv, Space
<1>3. CASE ~ (turn < Len(image.segments))
  <2>1. rc' = 0 /\ UNCHANGED <<turn, memory, refused>>
    BY <1>3 DEF Loader!Load
  <2>2. turn = Len(image.segments)
    BY <1>3, ImageIs DEF LoaderInv
  <2>3. Outcome'
    BY <1>1, <2>1, <2>2 DEF LoaderInv, Outcome, Loader!Running
  <2>4. \A a : Content(turn, a)' = Content(turn, a)
    BY <1>1, <2>1 DEF Content, LastFrom, From, Loading
  <2>5. QED
    BY <1>1, <2>1, <2>3, <2>4 DEF LoaderInv
<1>4. QED
  BY <1>2, <1>3, Zenon

\* Files of any size with any number of segments: a file with anything wrong
\* in its header is refused and leaves memory as it was; of any other, each
\* loadable segment has its bytes at its address when read_elf returns, if no
\* allocation was refused.
THEOREM ImagesAreLoaded == Loader!Spec => []Loaded
<1> SUFFICES ASSUME Loader!ElfAssumption PROVE Loader!Spec => []Loaded
  BY LibraryAssumption
<1>1. LoaderInv /\ [Loader!Next]_(Loader!vars) => LoaderInv'
  <2>1. LoaderInv /\ Loader!Next => LoaderInv'
    BY ValidateStep, LoadStep DEF Loader!Next
  <2>2. ASSUME LoaderInv, UNCHANGED Loader!vars PROVE LoaderInv'
    <3>1. UNCHANGED <<image, turn, rc, start, memory, refused>>
      BY <2>2 DEF Loader!vars
    <3>2. \A a : Content(turn, a)' = Content(turn, a)
      BY <3>1 DEF Content, LastFrom, From, Loading
    <3>3. QED
      BY <2>2, <3>1, <3>2 DEF LoaderInv, Outcome
  <2>3. QED
    BY <2>1, <2>2, Zenon
<1>2. LoaderInv => Loader!Loaded
  <2> SUFFICES ASSUME LoaderInv PROVE Loader!Loaded
    OBVIOUS
  <2>1. image.wrong # {} => ~ start /\ \A a \in DOMAIN memory : memory[a] = Loader!Old
    BY DEF LoaderInv, Outcome
  <2>2. rc < 0 <=> image.wrong # {} /\ rc # Loader!Running
    BY DEF LoaderInv, Outcome, Loader!Running
  <2>3. DOMAIN image.segments = 1 .. Len(image.segments)
    BY ImageIs DEF LoaderInv
  <2>4. ASSUME rc = 0, ~ refused, NEW a \in DOMAIN memory
        PROVE  memory[a] = Content(Len(image.segments), a)
    BY <2>4 DEF LoaderInv, Outcome
  <2>5. QED
    BY <2>1, <2>2, <2>3, <2>4, Zenon DEF Loader!Loaded, Content, LastFrom, From, Loading
<1>3. Loader!Init => LoaderInv
  BY InitLoader
<1>4. QED
  BY <1>1, <1>2, <1>3, PTL DEF Loader!Spec, Loaded

-----------------------------------------------------------------------------
(* The memory and string functions: copies.                                *)

Memory == [String!Addr -> Byte]

LEMMA StringSizes ==
  ASSUME String!KStringAssumption
  PROVE  /\ StringSize \in Nat \ {0} /\ String!Addr = 0 .. StringSize - 1
         /\ 0 \in Byte /\ Byte \subseteq Nat
  BY DEF String!KStringAssumption, String!Addr

\* A search from 0 stops.
LEMMA FirstStop ==
  ASSUME NEW n \in Nat, NEW stops, NEW k \in 0 .. n, k \in stops
  PROVE  \E i \in 0 .. n : i \in stops /\ \A j \in 0 .. i - 1 : j \notin stops
<1> DEFINE B == {i \in 1 .. n + 1 : i - 1 \in stops}
<1>1. B \subseteq 1 .. n + 1 /\ k + 1 \in B
  OBVIOUS
<1>2. PICK m \in B : \A l \in B : m <= l
  <2> HIDE DEF B
  <2>1. n + 1 \in Nat /\ B # {}
    BY <1>1
  <2>2. QED
    BY <1>1, <2>1, LeastUpTo
<1>3. m - 1 \in 0 .. n /\ m - 1 \in stops
  OBVIOUS
<1>4. ASSUME NEW j \in 0 .. m - 1 - 1, j \in stops PROVE FALSE
  <2>1. j + 1 \in B
    BY <1>3, <1>4
  <2>2. m <= j + 1
    BY <1>2, <2>1
  <2>3. QED
    BY <1>3, <2>2
<1>5. QED
  BY <1>3, <1>4

\* copy[i] is the memory after the first i bytes: the function exists.
IsCopy(copy, dest, src, n) ==
  copy = [i \in 0 .. n |->
            IF i = 0 THEN mem
            ELSE [copy[i - 1] EXCEPT ![dest + i - 1] = copy[i - 1][src + i - 1]]]

LEMMA CopyExists ==
  ASSUME NEW dest, NEW src, NEW n \in Nat
  PROVE  \E copy : IsCopy(copy, dest, src, n)
<1> DEFINE Missing == {k \in Nat : ~ \E copy : IsCopy(copy, dest, src, k)}
<1>1. SUFFICES ASSUME n \in Missing PROVE FALSE
  OBVIOUS
<1>2. PICK k \in 0 .. n : k \in Missing /\ \A j \in 0 .. k - 1 : j \notin Missing
  <2>1. n \in 0 .. n
    OBVIOUS
  <2> HIDE DEF Missing
  <2>2. QED
    BY <1>1, <2>1, FirstStop
<1>3. k # 0
  <2>1. IsCopy([i \in 0 .. 0 |-> mem], dest, src, 0)
    BY DEF IsCopy
  <2>2. QED
    BY <1>2, <2>1
<1>4. PICK copy : IsCopy(copy, dest, src, k - 1)
  <2>1. k - 1 \in Nat /\ k - 1 \in 0 .. k - 1
    BY <1>3
  <2>2. QED
    BY <1>2, <2>1
<1> DEFINE After(m, i) == [m EXCEPT ![dest + i - 1] = m[src + i - 1]]
           longer == [i \in 0 .. k |-> IF i = k THEN After(copy[k - 1], k) ELSE copy[i]]
<1>5. \A i \in 0 .. k - 1 : copy[i] = IF i = 0 THEN mem ELSE After(copy[i - 1], i)
  BY <1>4 DEF IsCopy
<1> HIDE DEF After
<1>6. ASSUME NEW i \in 0 .. k
      PROVE  longer[i] = IF i = 0 THEN mem ELSE After(longer[i - 1], i)
  <2>1. CASE i = k
    <3>1. i # 0 /\ i - 1 \in 0 .. k /\ i - 1 # k
      BY <1>3, <2>1
    <3>2. QED
      BY <2>1, <3>1
  <2>2. CASE i # k
    <3>1. i \in 0 .. k - 1 /\ (i # 0 => i - 1 \in 0 .. k /\ i - 1 # k)
      BY <2>2
    <3>2. longer[i] = copy[i] /\ (i # 0 => longer[i - 1] = copy[i - 1])
      BY <2>2, <3>1
    <3>3. QED
      BY <1>5, <3>1, <3>2
  <2>3. QED
    BY <2>1, <2>2
<1>7. longer = [i \in 0 .. k |-> longer[i]]
  OBVIOUS
<1> HIDE DEF longer
<1>8. longer = [i \in 0 .. k |-> IF i = 0 THEN mem ELSE After(longer[i - 1], i)]
  BY <1>6, <1>7
<1>9. IsCopy(longer, dest, src, k)
  BY <1>8 DEF IsCopy, After
<1>10. QED
  BY <1>2, <1>9

LEMMA CopiedIs ==
  ASSUME NEW dest, NEW src, NEW n \in Nat
  PROVE  \E copy : IsCopy(copy, dest, src, n) /\ String!Copied(dest, src, n) = copy[n]
<1> DEFINE copy == CHOOSE copy : IsCopy(copy, dest, src, n)
<1>1. String!Copied(dest, src, n) = copy[n]
  BY Zenon DEF String!Copied, IsCopy
<1>2. IsCopy(copy, dest, src, n)
  BY CopyExists, Zenon
<1>3. QED
  BY <1>1, <1>2, Zenon

\* No byte is changed before it is read, and none but those of the
\* destination.
Apart(dest, src, n) == dest <= src \/ src + n <= dest

IsCopied(m, dest, src, n) ==
  /\ m \in Memory
  /\ \A a \in String!Addr : a \notin dest .. dest + n - 1 => m[a] = mem[a]
  /\ \A i \in 0 .. n - 1 : m[dest + i] = mem[src + i]

LEMMA CopyFrom ==
  ASSUME String!KStringAssumption, mem \in Memory,
         NEW dest \in Nat, NEW src \in Nat, NEW n \in Nat,
         dest + n <= StringSize, src + n <= StringSize
  PROVE  /\ String!Copied(dest, src, n) \in Memory
         /\ \A a \in String!Addr :
              a \notin dest .. dest + n - 1 => String!Copied(dest, src, n)[a] = mem[a]
         /\ Apart(dest, src, n) => IsCopied(String!Copied(dest, src, n), dest, src, n)
<1>1. PICK copy : IsCopy(copy, dest, src, n) /\ String!Copied(dest, src, n) = copy[n]
  BY CopiedIs
<1>2. \A i \in 0 .. n :
        copy[i] = IF i = 0 THEN mem
                  ELSE [copy[i - 1] EXCEPT ![dest + i - 1] = copy[i - 1][src + i - 1]]
  BY <1>1 DEF IsCopy
<1> DEFINE Right(k) == /\ copy[k] \in Memory
                       /\ \A a \in String!Addr :
                            a \notin dest .. dest + k - 1 => copy[k][a] = mem[a]
                       /\ Apart(dest, src, n) =>
                            \A i \in 0 .. k - 1 : copy[k][dest + i] = mem[src + i]
           Wrong == {k \in 0 .. n : ~ Right(k)}
<1>3. ASSUME n \in Wrong PROVE FALSE
  <2>1. PICK k \in 0 .. n : k \in Wrong /\ \A j \in 0 .. k - 1 : j \notin Wrong
    <3>1. n \in 0 .. n
      OBVIOUS
    <3> HIDE DEF Wrong
    <3>2. QED
      BY <1>3, <3>1, FirstStop
  <2>2. k # 0
    <3>1. copy[0] = mem
      <4>1. 0 \in 0 .. n
        OBVIOUS
      <4>2. QED
        BY <1>2, <4>1, Zenon
    <3>2. dest + 0 - 1 = dest - 1 /\ 0 .. 0 - 1 = {} /\ dest .. dest - 1 = {}
      OBVIOUS
    <3>3. Right(0)
      BY <3>1, <3>2
    <3>4. QED
      BY <2>1, <3>3
  <2>3. k - 1 \in 0 .. n /\ k - 1 \in 0 .. k - 1 /\ k \in Nat
    BY <2>2
  <2>4. Right(k - 1)
    BY <2>1, <2>3
  <2> DEFINE m == copy[k - 1]
             p == dest + k - 1
             q == src + k - 1
  <2>5. copy[k] = [m EXCEPT ![p] = m[q]] /\ m \in Memory
    BY <1>2, <2>2, <2>4
  <2>6. /\ p \in Nat /\ q \in Nat /\ p \in String!Addr /\ q \in String!Addr
        /\ p = dest + (k - 1) /\ q = src + (k - 1)
    BY <2>2, <2>3, StringSizes
  <2>7. \A a \in String!Addr : a \notin dest .. dest + (k - 1) - 1 => m[a] = mem[a]
    BY <2>4
  <2>8. Apart(dest, src, n) => \A i \in 0 .. (k - 1) - 1 : m[dest + i] = mem[src + i]
    BY <2>4
  <2> HIDE DEF m, p, q, Right, Wrong
  <2>9. copy[k] \in Memory /\ \A a \in String!Addr : copy[k][a] = IF a = p THEN m[q] ELSE m[a]
    BY <2>5, <2>6 DEF Memory
  <2>10. ASSUME NEW a \in String!Addr, a \notin dest .. dest + k - 1 PROVE copy[k][a] = mem[a]
    <3>1. a # p /\ a \notin dest .. dest + (k - 1) - 1
      BY <2>2, <2>3, <2>6, <2>10, StringSizes
    <3>2. QED
      BY <2>7, <2>9, <3>1
  <2>11. ASSUME Apart(dest, src, n), NEW i \in 0 .. k - 1 PROVE copy[k][dest + i] = mem[src + i]
    <3>1. dest + i \in String!Addr
      BY <2>3, StringSizes
    <3>2. CASE i = k - 1
      <4>1. q \notin dest .. dest + (k - 1) - 1
        BY <2>2, <2>3, <2>6, <2>11 DEF Apart
      <4>2. m[q] = mem[q]
        BY <2>6, <2>7, <4>1
      <4>3. QED
        BY <2>6, <2>9, <3>1, <3>2, <4>2
    <3>3. CASE i # k - 1
      <4>1. i \in 0 .. (k - 1) - 1 /\ dest + i # p
        BY <2>3, <2>6, <3>3
      <4>2. m[dest + i] = mem[src + i]
        BY <2>8, <2>11, <4>1
      <4>3. QED
        BY <2>9, <3>1, <4>1, <4>2
    <3>4. QED
      BY <3>2, <3>3
  <2>12. Right(k)
    BY <2>9, <2>10, <2>11 DEF Right
  <2>13. QED
    BY <2>1, <2>12 DEF Wrong
<1>4. Right(n)
  BY <1>3
<1>5. QED
  BY <1>1, <1>4 DEF IsCopied

-----------------------------------------------------------------------------
(* The memory and string functions: searches.                              *)

LEMMA MinIs ==
  ASSUME NEW S, S \subseteq Int, NEW k \in S, \A s \in S : k <= s
  PROVE  String!Min(S) = k
<1> DEFINE x == CHOOSE x \in S : \A y \in S : x <= y
<1>1. x \in S /\ \A y \in S : x <= y
  OBVIOUS
<1>2. String!Min(S) = x
  BY Zenon DEF String!Min
<1> HIDE DEF x
<1>3. QED
  BY <1>1, <1>2

LEMMA MaxIs ==
  ASSUME NEW a \in Int, NEW b \in Int, b <= a
  PROVE  String!Max({a, b}) = a /\ String!Max({b, a}) = a
<1> DEFINE S == {a, b}
           x == CHOOSE x \in S : \A y \in S : x >= y
<1>1. x \in S /\ \A y \in S : x >= y
  <2>1. a \in S /\ \A y \in S : a >= y
    OBVIOUS
  <2> HIDE DEF S
  <2>2. QED
    BY <2>1
<1>2. String!Max(S) = x
  BY Zenon DEF String!Max
<1> HIDE DEF x
<1>3. x = a
  BY <1>1
<1>4. {b, a} = S
  OBVIOUS
<1>5. QED
  BY <1>2, <1>3, <1>4, Zenon

LEMMA LengthIs ==
  ASSUME String!KStringAssumption, NEW m, NEW a \in Nat, NEW k \in Nat,
         a + k \in String!Addr, m[a + k] = 0, \A j \in 0 .. k - 1 : m[a + j] # 0
  PROVE  String!Length(m, a) = k
<1> DEFINE S == {i \in String!Addr : a + i \in String!Addr /\ m[a + i] = 0}
<1>1. String!Length(m, a) = String!Min(S)
  BY Zenon DEF String!Length
<1>2. k \in S /\ S \subseteq Int
  BY StringSizes
<1>3. ASSUME NEW s \in S PROVE k <= s
  <2>1. s \in Nat /\ m[a + s] = 0
    BY StringSizes
  <2>2. QED
    BY <2>1
<1> HIDE DEF S
<1>4. String!Min(S) = k
  BY <1>2, <1>3, MinIs
<1>5. QED
  BY <1>1, <1>4, Zenon

\* The string at a has k characters before its terminator.
Terminated(a, k) ==
  /\ k \in Nat /\ a + k \in String!Addr /\ mem[a + k] = 0
  /\ \A j \in 0 .. k - 1 : mem[a + j] # 0

LEMMA StringEnds ==
  ASSUME String!KStringAssumption, NEW a \in String!Addr, String!IsString(a)
  PROVE  \E k : Terminated(a, k)
<1>1. PICK z \in a .. StringSize - 1 : mem[z] = 0
  BY DEF String!IsString
<1> DEFINE stops == {i \in 0 .. StringSize : mem[a + i] = 0}
           d == z - a
<1>2. a \in Nat /\ d \in Nat /\ StringSize \in Nat /\ d \in 0 .. StringSize /\ a + d = z
  BY <1>1, StringSizes
<1>3. d \in stops
  BY <1>1, <1>2
<1>4. PICK k \in 0 .. StringSize : k \in stops /\ \A j \in 0 .. k - 1 : j \notin stops
  <2> HIDE DEF stops, d
  <2>1. QED
    BY <1>2, <1>3, FirstStop
<1>5. k <= d
  <2> HIDE DEF stops, d
  <2>1. QED
    BY <1>2, <1>3, <1>4
<1>6. k \in Nat /\ a + k \in String!Addr
  BY <1>1, <1>2, <1>4, <1>5, StringSizes
<1>7. ASSUME NEW j \in 0 .. k - 1 PROVE mem[a + j] # 0
  <2>1. j \notin stops /\ j \in 0 .. StringSize
    BY <1>2, <1>4
  <2>2. QED
    BY <2>1
<1>8. mem[a + k] = 0
  BY <1>4
<1>9. QED
  BY <1>6, <1>7, <1>8 DEF Terminated

\* kstrncpy copies the characters before the terminator, n at most.
LEMMA EndIs ==
  ASSUME String!KStringAssumption, NEW dest, NEW src \in Nat, NEW n \in Nat, n <= StringSize
  PROVE  \E end \in 0 .. n :
           /\ \A j \in 0 .. end - 1 : mem[src + j] # 0
           /\ end = n \/ mem[src + end] = 0
           /\ String!StringCopied(dest, src, n)
                = [String!Copied(dest, src, end) EXCEPT ![dest + end] = 0]
<1> DEFINE Stop(i) == ~ (i < n /\ mem[src + i] # 0)
           stops == {i \in 0 .. n : Stop(i)}
           First(i) == ~ (i < n /\ mem[src + i] # 0)
                         /\ \A j \in 0 .. i - 1 : j < n /\ mem[src + j] # 0
           end == CHOOSE i \in 0 .. StringSize : First(i)
<1>1. \E i \in 0 .. StringSize : First(i)
  <2>1. n \in stops
    OBVIOUS
  <2>2. PICK k \in 0 .. n : k \in stops /\ \A j \in 0 .. k - 1 : j \notin stops
    <3> HIDE DEF stops
    <3>1. n \in 0 .. n
      OBVIOUS
    <3>2. QED
      BY <2>1, <3>1, FirstStop
  <2>3. k \in 0 .. StringSize
    BY StringSizes
  <2>4. ASSUME NEW j \in 0 .. k - 1 PROVE j < n /\ mem[src + j] # 0
    <3>1. j \notin stops /\ j \in 0 .. n
      BY <2>2
    <3>2. QED
      BY <3>1
  <2>5. First(k)
    BY <2>2, <2>4
  <2>6. QED
    BY <2>3, <2>5
<1>2. end \in 0 .. StringSize /\ First(end)
  <2> HIDE DEF First
  <2>1. QED
    BY <1>1
<1>3. String!StringCopied(dest, src, n)
        = [String!Copied(dest, src, end) EXCEPT ![dest + end] = 0]
  BY Zenon DEF String!StringCopied, String!FirstNot
<1> HIDE DEF end
<1>4. end \in Nat /\ end <= n
  <2>1. end \in Nat /\ StringSize \in Nat
    BY <1>2, StringSizes
  <2>2. CASE end > n
    <3>1. n \in 0 .. end - 1
      BY <2>1, <2>2
    <3>2. QED
      BY <1>2, <3>1
  <2>3. QED
    BY <2>1, <2>2
<1>5. end = n \/ mem[src + end] = 0
  BY <1>2, <1>4
<1>6. \A j \in 0 .. end - 1 : mem[src + j] # 0
  BY <1>2
<1>7. end \in 0 .. n
  BY <1>4
<1>8. QED
  BY <1>3, <1>5, <1>6, <1>7, Zenon

\* What a copied string is.
IsStringCopy(m, dest, src, n) ==
  /\ m \in Memory
  /\ String!Length(m, dest) = String!Min({n, String!Length(mem, src)})
  /\ \A i \in 0 .. String!Length(m, dest) - 1 : m[dest + i] = mem[src + i]
  /\ \A a \in String!Addr \ (dest .. dest + n) : m[a] = mem[a]

LEMMA StringCopy ==
  ASSUME String!KStringAssumption, mem \in Memory,
         NEW dest \in String!Addr, NEW src \in String!Addr, NEW n \in Nat,
         dest + n <= StringSize - 1, src + n <= StringSize - 1,
         dest + n < src \/ src + n < dest, String!IsString(src)
  PROVE  IsStringCopy(String!StringCopied(dest, src, n), dest, src, n)
<1>1. /\ StringSize \in Nat /\ dest \in Nat /\ src \in Nat /\ n <= StringSize
      /\ 0 \in Byte /\ String!Addr = 0 .. StringSize - 1
  BY StringSizes
<1>2. PICK end \in 0 .. n :
        /\ \A j \in 0 .. end - 1 : mem[src + j] # 0
        /\ end = n \/ mem[src + end] = 0
        /\ String!StringCopied(dest, src, n)
             = [String!Copied(dest, src, end) EXCEPT ![dest + end] = 0]
  BY <1>1, EndIs
<1>3. PICK k : Terminated(src, k)
  BY StringEnds
<1> DEFINE c == String!Copied(dest, src, end)
           m == String!StringCopied(dest, src, n)
<1>4. end \in Nat /\ end <= n
  BY <1>2
<1>5. IsCopied(c, dest, src, end)
  <2>1. dest + end <= StringSize /\ src + end <= StringSize /\ Apart(dest, src, end)
    BY <1>1, <1>4 DEF Apart
  <2>2. QED
    BY <1>1, <1>4, <2>1, CopyFrom
<1>6. m = [c EXCEPT ![dest + end] = 0]
  BY <1>2
<1> HIDE DEF c, m
<1>7. dest + end \in String!Addr
  BY <1>1, <1>4
<1>8. m \in Memory /\ \A a \in String!Addr : m[a] = IF a = dest + end THEN 0 ELSE c[a]
  BY <1>1, <1>5, <1>6, <1>7 DEF IsCopied, Memory
<1>9. ASSUME NEW i \in 0 .. end - 1 PROVE m[dest + i] = mem[src + i]
  <2>1. dest + i \in String!Addr /\ dest + i # dest + end
    BY <1>1, <1>4
  <2>2. c[dest + i] = mem[src + i]
    BY <1>5 DEF IsCopied
  <2>3. QED
    BY <1>8, <2>1, <2>2
<1>10. ASSUME NEW a \in String!Addr \ (dest .. dest + n) PROVE m[a] = mem[a]
  <2>1. a \notin dest .. dest + end - 1 /\ a # dest + end
    BY <1>1, <1>4
  <2>2. c[a] = mem[a]
    BY <1>5, <2>1 DEF IsCopied
  <2>3. QED
    BY <1>8, <2>1, <2>2
<1>11. String!Length(m, dest) = end
  <2>1. m[dest + end] = 0
    BY <1>7, <1>8
  <2>2. \A j \in 0 .. end - 1 : m[dest + j] # 0
    BY <1>2, <1>9
  <2>3. QED
    BY <1>1, <1>4, <1>7, <2>1, <2>2, LengthIs
<1>12. String!Length(mem, src) = k
  BY <1>1, <1>3, LengthIs DEF Terminated
<1>13. k \in Nat /\ end <= k /\ end \in {n, k}
  <2>1. k \in Nat /\ mem[src + k] = 0 /\ \A j \in 0 .. k - 1 : mem[src + j] # 0
    BY <1>3 DEF Terminated
  <2>2. end <= k
    <3>1. CASE k < end
      <4>1. k \in 0 .. end - 1
        BY <1>4, <2>1, <3>1
      <4>2. QED
        BY <1>2, <2>1, <4>1
    <3>2. QED
      BY <1>4, <2>1, <3>1
  <2>3. CASE mem[src + end] = 0
    <3>1. ~ (end < k)
      <4>1. CASE end < k
        <5>1. end \in 0 .. k - 1
          BY <1>4, <2>1, <4>1
        <5>2. QED
          BY <2>1, <2>3, <5>1
      <4>2. QED
        BY <4>1
    <3>2. QED
      BY <1>4, <2>1, <2>2, <3>1
  <2>4. QED
    BY <1>2, <2>1, <2>2, <2>3
<1>14. String!Min({n, k}) = end
  <2> DEFINE S == {n, k}
  <2>1. S \subseteq Int /\ end \in S /\ \A s \in S : end <= s
    BY <1>4, <1>13
  <2> HIDE DEF S
  <2>2. String!Min(S) = end
    BY <2>1, MinIs
  <2>3. QED
    BY <2>2 DEF S
<1>15. String!Length(m, dest) = String!Min({n, String!Length(mem, src)})
  BY <1>11, <1>12, <1>14, Zenon
<1>16. \A i \in 0 .. String!Length(m, dest) - 1 : m[dest + i] = mem[src + i]
  BY <1>9, <1>11, Zenon
<1>17. IsStringCopy(m, dest, src, n)
  BY <1>8, <1>10, <1>15, <1>16, Zenon DEF IsStringCopy
<1>18. QED
  BY <1>17, Zenon DEF m

\* The loops of the comparisons go on over equal characters.
Goes(a, b, j) == mem[a + j] # 0 /\ mem[b + j] # 0 /\ mem[a + j] = mem[b + j]

\* The last character two strings are compared in.
Within(a, b) == StringSize - String!Max({a, b})

\* Two strings differ, or one of them ends, before the memory does.
LEMMA CompareStops ==
  ASSUME String!KStringAssumption, NEW a \in String!Addr, NEW b \in String!Addr,
         String!IsString(a), String!IsString(b)
  PROVE  /\ Within(a, b) \in Nat
         /\ a + Within(a, b) <= StringSize /\ b + Within(a, b) <= StringSize
         /\ \E k \in 0 .. Within(a, b) - 1 : ~ Goes(a, b, k)
<1>1. a \in Nat /\ b \in Nat /\ StringSize \in Nat /\ a < StringSize /\ b < StringSize
  BY StringSizes
<1>2. CASE b <= a
  <2>1. Within(a, b) = StringSize - a
    <3>1. String!Max({a, b}) = a
      BY <1>1, <1>2, MaxIs
    <3>2. QED
      BY <3>1 DEF Within
  <2>2. PICK k : Terminated(a, k)
    BY StringEnds
  <2>3. ~ Goes(a, b, k) /\ k \in Nat /\ a + k < StringSize
    BY <1>1, <2>2, StringSizes DEF Terminated, Goes
  <2>4. k \in 0 .. Within(a, b) - 1
    BY <1>1, <2>1, <2>3
  <2>5. Within(a, b) \in Nat /\ a + Within(a, b) <= StringSize /\ b + Within(a, b) <= StringSize
    BY <1>1, <1>2, <2>1
  <2>6. QED
    BY <2>3, <2>4, <2>5
<1>3. CASE a <= b
  <2>1. Within(a, b) = StringSize - b
    <3>1. String!Max({a, b}) = b
      BY <1>1, <1>3, MaxIs
    <3>2. QED
      BY <3>1 DEF Within
  <2>2. PICK k : Terminated(b, k)
    BY StringEnds
  <2>3. ~ Goes(a, b, k) /\ k \in Nat /\ b + k < StringSize
    BY <1>1, <2>2, StringSizes DEF Terminated, Goes
  <2>4. k \in 0 .. Within(a, b) - 1
    BY <1>1, <2>1, <2>3
  <2>5. Within(a, b) \in Nat /\ a + Within(a, b) <= StringSize /\ b + Within(a, b) <= StringSize
    BY <1>1, <1>3, <2>1
  <2>6. QED
    BY <2>3, <2>4, <2>5
<1>4. QED
  BY <1>1, <1>2, <1>3

\* The first character a loop stops at: that of kstrcmp with n = StringSize,
\* where the bound does not stop it, and that of kstrncmp.
StopsAt(a, b, n, k) ==
  /\ k \in 0 .. Within(a, b) - 1
  /\ ~ (Goes(a, b, k) /\ k < n)
  /\ \A j \in 0 .. k - 1 : Goes(a, b, j) /\ j < n

LEMMA StopExists ==
  ASSUME String!KStringAssumption, NEW a \in String!Addr, NEW b \in String!Addr,
         String!IsString(a), String!IsString(b), NEW n \in Nat
  PROVE  \E k : StopsAt(a, b, n, k)
<1>1. Within(a, b) \in Nat
  BY CompareStops
<1>2. PICK l \in 0 .. Within(a, b) - 1 : ~ Goes(a, b, l)
  BY CompareStops
<1> DEFINE N == Within(a, b)
           stops == {i \in 0 .. N - 1 : ~ (Goes(a, b, i) /\ i < n)}
<1>3. N \in Nat
  BY <1>1
<1> HIDE DEF N
<1>4. N - 1 \in Nat /\ l \in 0 .. N - 1 /\ l \in stops
  BY <1>2, <1>3 DEF N
<1>5. PICK k \in 0 .. N - 1 : k \in stops /\ \A j \in 0 .. k - 1 : j \notin stops
  <2> HIDE DEF stops
  <2>1. QED
    BY <1>4, FirstStop
<1>6. ASSUME NEW j \in 0 .. k - 1 PROVE Goes(a, b, j) /\ j < n
  <2>1. j \notin stops /\ j \in 0 .. N - 1
    BY <1>3, <1>5
  <2>2. QED
    BY <2>1
<1>7. k \in 0 .. N - 1 /\ ~ (Goes(a, b, k) /\ k < n)
  BY <1>5
<1>8. StopsAt(a, b, n, k)
  BY <1>6, <1>7, Zenon DEF StopsAt, N
<1>9. QED
  BY <1>8

\* The characters at the stop decide whether the strings agree, up to it and,
\* where it is not the bound that stops the loop, beyond.
LEMMA Agreement ==
  ASSUME NEW a \in Nat, NEW b \in Nat, NEW k \in Nat, NEW top \in Nat, k < top,
         \A j \in 0 .. k - 1 : Goes(a, b, j),
         Goes(a, b, k) => top = k + 1
  PROVE  mem[a + k] = mem[b + k] <=> \A n1 \in 0 .. top : String!Agree(mem, a, b, n1)
<1>1. ASSUME mem[a + k] = mem[b + k], NEW n1 \in 0 .. top
      PROVE  String!Agree(mem, a, b, n1)
  <2>1. SUFFICES ASSUME NEW i \in 0 .. n1 - 1,
                        \A j \in 0 .. i - 1 : mem[a + j] = mem[b + j] /\ mem[a + j] # 0
                 PROVE  mem[a + i] = mem[b + i]
    BY DEF String!Agree
  <2>2. CASE i < k
    <3>1. i \in 0 .. k - 1
      BY <2>2
    <3>2. QED
      BY <3>1 DEF Goes
  <2>3. CASE i = k
    BY <1>1, <2>3
  <2>4. CASE i > k
    <3>1. k \in 0 .. i - 1 /\ top # k + 1
      BY <2>4
    <3>2. Goes(a, b, k)
      BY <2>1, <3>1 DEF Goes
    <3>3. QED
      BY <3>1, <3>2
  <2>5. QED
    BY <2>2, <2>3, <2>4
<1>2. ASSUME \A n1 \in 0 .. top : String!Agree(mem, a, b, n1)
      PROVE  mem[a + k] = mem[b + k]
  <2>1. String!Agree(mem, a, b, top) /\ k \in 0 .. top - 1
    BY <1>2
  <2>2. \A j \in 0 .. k - 1 : mem[a + j] = mem[b + j] /\ mem[a + j] # 0
    BY DEF Goes
  <2>3. QED
    BY <2>1, <2>2 DEF String!Agree
<1>3. QED
  BY <1>1, <1>2

LEMMA StopIs ==
  ASSUME NEW a, NEW b, NEW n \in Nat, NEW k \in Nat, StopsAt(a, b, n, k),
         NEW i \in Nat, ~ (Goes(a, b, i) /\ i < n),
         \A j \in 0 .. i - 1 : Goes(a, b, j) /\ j < n
  PROVE  i = k
<1>1. CASE i < k
  <2>1. i \in 0 .. k - 1
    BY <1>1
  <2>2. QED
    BY <2>1 DEF StopsAt
<1>2. CASE k < i
  <2>1. k \in 0 .. i - 1
    BY <1>2
  <2>2. QED
    BY <2>1 DEF StopsAt
<1>3. QED
  BY <1>1, <1>2

\* kstrncmp compares the characters its loop stops at.
LEMMA ComparedNIs ==
  ASSUME String!KStringAssumption, NEW a \in String!Addr, NEW b \in String!Addr,
         NEW n \in Nat, NEW k, StopsAt(a, b, n, k)
  PROVE  String!ComparedN(a, b, n) = mem[a + k] - mem[b + k]
<1> DEFINE First(i) ==
             /\ ~ (mem[a + i] # 0 /\ mem[b + i] # 0 /\ mem[a + i] = mem[b + i] /\ i < n)
             /\ \A j \in 0 .. i - 1 :
                  mem[a + j] # 0 /\ mem[b + j] # 0 /\ mem[a + j] = mem[b + j] /\ j < n
           i == CHOOSE i \in 0 .. StringSize : First(i)
<1>1. String!ComparedN(a, b, n) = mem[a + i] - mem[b + i]
  BY Zenon DEF String!ComparedN, String!FirstNot
<1>2. k \in Nat /\ k \in 0 .. StringSize
  <2>1. a \in Nat /\ b \in Nat /\ StringSize \in Nat
    BY StringSizes
  <2>2. Within(a, b) <= StringSize /\ Within(a, b) \in Int
    <3>1. CASE b <= a
      <4>1. String!Max({a, b}) = a
        BY <2>1, <3>1, MaxIs
      <4>2. QED
        BY <2>1, <4>1 DEF Within
    <3>2. CASE a <= b
      <4>1. String!Max({a, b}) = b
        BY <2>1, <3>2, MaxIs
      <4>2. QED
        BY <2>1, <4>1 DEF Within
    <3>3. QED
      BY <2>1, <3>1, <3>2
  <2>3. k \in 0 .. Within(a, b) - 1
    BY DEF StopsAt
  <2>4. QED
    BY <2>1, <2>2, <2>3
<1>3. First(k)
  BY Zenon DEF StopsAt, Goes
<1>4. i \in 0 .. StringSize /\ First(i)
  <2> HIDE DEF First
  <2>1. QED
    BY <1>2, <1>3
<1>5. /\ ~ (Goes(a, b, i) /\ i < n)
      /\ \A j \in 0 .. i - 1 : Goes(a, b, j) /\ j < n
  <2> HIDE DEF i
  <2>1. QED
    BY <1>4, Zenon DEF Goes
<1> HIDE DEF i
<1>6. i \in Nat
  BY <1>4, StringSizes
<1>7. i = k
  BY <1>2, <1>5, <1>6, StopIs
<1>8. QED
  BY <1>1, <1>7, Zenon

\* kstrcmp is not bounded: within the memory, a bound of StringSize is none.
LEMMA ComparedIs ==
  ASSUME String!KStringAssumption, NEW a \in String!Addr, NEW b \in String!Addr,
         String!IsString(a), String!IsString(b)
  PROVE  \E k : /\ StopsAt(a, b, StringSize, k) /\ ~ Goes(a, b, k)
                /\ String!Compared(a, b) = mem[a + k] - mem[b + k]
<1>1. StringSize \in Nat /\ a \in Nat /\ b \in Nat
  BY StringSizes
<1>2. PICK k : StopsAt(a, b, StringSize, k)
  BY <1>1, StopExists
<1>3. k \in Nat /\ k < StringSize
  <2>1. Within(a, b) \in Nat /\ a + Within(a, b) <= StringSize
    BY CompareStops
  <2>2. k \in 0 .. Within(a, b) - 1
    BY <1>2 DEF StopsAt
  <2>3. QED
    BY <1>1, <2>1, <2>2
<1>4. ~ Goes(a, b, k)
  BY <1>2, <1>3 DEF StopsAt
<1> DEFINE First(i) ==
             /\ ~ (mem[a + i] # 0 /\ mem[b + i] # 0 /\ mem[a + i] = mem[b + i])
             /\ \A j \in 0 .. i - 1 :
                  mem[a + j] # 0 /\ mem[b + j] # 0 /\ mem[a + j] = mem[b + j]
           i == CHOOSE i \in 0 .. StringSize : First(i)
<1>5. String!Compared(a, b) = mem[a + i] - mem[b + i]
  BY Zenon DEF String!Compared, String!FirstNot
<1>6. First(k) /\ k \in 0 .. StringSize
  <2>1. \A j \in 0 .. k - 1 : Goes(a, b, j)
    BY <1>2 DEF StopsAt
  <2>2. First(k)
    BY <1>4, <2>1, Zenon DEF Goes
  <2>3. QED
    BY <1>1, <1>3, <2>2
<1>7. i \in 0 .. StringSize /\ First(i)
  <2> HIDE DEF First
  <2>1. QED
    BY <1>6
<1>8. ~ Goes(a, b, i) /\ \A j \in 0 .. i - 1 : Goes(a, b, j)
  <2> HIDE DEF i
  <2>1. QED
    BY <1>7, Zenon DEF Goes
<1> HIDE DEF i, First
<1>9. i \in Nat /\ i <= StringSize
  BY <1>1, <1>7
<1>10. \A j \in 0 .. i - 1 : Goes(a, b, j) /\ j < StringSize
  BY <1>1, <1>8, <1>9
<1>11. i = k
  BY <1>1, <1>2, <1>3, <1>8, <1>9, <1>10, StopIs
<1>12. String!Compared(a, b) = mem[a + k] - mem[b + k]
  BY <1>5, <1>11, Zenon
<1>13. QED
  BY <1>2, <1>4, <1>12, Zenon

\* What the comparisons return.
Says(r, a, b, top) == r = 0 <=> \A n1 \in 0 .. top : String!Agree(mem, a, b, n1)

LEMMA Difference ==
  ASSUME String!KStringAssumption, mem \in Memory,
         NEW p \in String!Addr, NEW q \in String!Addr
  PROVE  mem[p] - mem[q] = 0 <=> mem[p] = mem[q]
<1>1. mem[p] \in Nat /\ mem[q] \in Nat
  BY StringSizes DEF Memory
<1>2. QED
  BY <1>1

LEMMA KstrcmpSays ==
  ASSUME String!KStringAssumption, mem \in Memory,
         NEW a \in String!Addr, NEW b \in String!Addr,
         String!IsString(a), String!IsString(b)
  PROVE  Says(String!Compared(a, b), a, b, Within(a, b))
<1>1. PICK k : /\ StopsAt(a, b, StringSize, k) /\ ~ Goes(a, b, k)
               /\ String!Compared(a, b) = mem[a + k] - mem[b + k]
  BY ComparedIs
<1>2. /\ Within(a, b) \in Nat
      /\ a + Within(a, b) <= StringSize /\ b + Within(a, b) <= StringSize
      /\ a \in Nat /\ b \in Nat /\ StringSize \in Nat
  BY CompareStops, StringSizes
<1>3. /\ k \in Nat /\ k < Within(a, b)
      /\ \A j \in 0 .. k - 1 : Goes(a, b, j)
  BY <1>1, <1>2 DEF StopsAt
<1>4. mem[a + k] = mem[b + k] <=> \A n1 \in 0 .. Within(a, b) : String!Agree(mem, a, b, n1)
  BY <1>1, <1>2, <1>3, Agreement
<1>5. a + k \in String!Addr /\ b + k \in String!Addr
  BY <1>2, <1>3, StringSizes
<1>6. mem[a + k] - mem[b + k] = 0 <=> mem[a + k] = mem[b + k]
  BY <1>5, Difference
<1>7. QED
  BY <1>1, <1>4, <1>6, Zenon DEF Says

LEMMA KstrncmpSays ==
  ASSUME String!KStringAssumption, mem \in Memory,
         NEW a \in String!Addr, NEW b \in String!Addr, NEW n \in Nat,
         String!IsString(a), String!IsString(b)
  PROVE  Says(String!ComparedN(a, b, n), a, b, String!Min({n + 1, Within(a, b)}))
<1>1. PICK k : StopsAt(a, b, n, k)
  BY StopExists
<1>2. String!ComparedN(a, b, n) = mem[a + k] - mem[b + k]
  BY <1>1, ComparedNIs
<1>3. /\ Within(a, b) \in Nat
      /\ a + Within(a, b) <= StringSize /\ b + Within(a, b) <= StringSize
      /\ a \in Nat /\ b \in Nat /\ StringSize \in Nat
  BY CompareStops, StringSizes
<1>4. /\ k \in Nat /\ k < Within(a, b) /\ ~ (Goes(a, b, k) /\ k < n)
      /\ \A j \in 0 .. k - 1 : Goes(a, b, j) /\ j < n
  BY <1>1, <1>3 DEF StopsAt
<1>5. k <= n
  <2>1. CASE n < k
    <3>1. n \in 0 .. k - 1
      BY <1>4, <2>1
    <3>2. QED
      BY <1>4, <3>1
  <2>2. QED
    BY <1>4, <2>1
<1> DEFINE top == String!Min({n + 1, Within(a, b)})
<1>6. /\ top \in Nat /\ top <= n + 1 /\ top <= Within(a, b)
      /\ top = n + 1 \/ top = Within(a, b)
  <2> DEFINE w == Within(a, b)
             S == {n + 1, w}
  <2>1. w \in Nat
    BY <1>3
  <2>2. top = String!Min(S)
    OBVIOUS
  <2> HIDE DEF w, top
  <2>3. S \subseteq Int
    BY <2>1
  <2>4. CASE n + 1 <= w
    <3>1. n + 1 \in S /\ \A s \in S : n + 1 <= s
      BY <2>1, <2>4
    <3> HIDE DEF S
    <3>2. String!Min(S) = n + 1
      BY <2>3, <3>1, MinIs
    <3>3. QED
      BY <2>1, <2>2, <2>4, <3>2 DEF w
  <2>5. CASE w <= n + 1
    <3>1. w \in S /\ \A s \in S : w <= s
      BY <2>1, <2>5
    <3> HIDE DEF S
    <3>2. String!Min(S) = w
      BY <2>3, <3>1, MinIs
    <3>3. QED
      BY <2>1, <2>2, <2>5, <3>2 DEF w
  <2>6. QED
    BY <2>1, <2>4, <2>5
<1> HIDE DEF top
<1>7. k < top /\ (Goes(a, b, k) => top = k + 1)
  BY <1>3, <1>4, <1>5, <1>6
<1>8. mem[a + k] = mem[b + k] <=> \A n1 \in 0 .. top : String!Agree(mem, a, b, n1)
  BY <1>3, <1>4, <1>6, <1>7, Agreement
<1>9. a + k \in String!Addr /\ b + k \in String!Addr
  BY <1>3, <1>4, StringSizes
<1>10. mem[a + k] - mem[b + k] = 0 <=> mem[a + k] = mem[b + k]
  BY <1>9, Difference
<1>11. Says(String!ComparedN(a, b, n), a, b, top)
  BY <1>2, <1>8, <1>10, Zenon DEF Says
<1>12. QED
  BY <1>11, Zenon DEF top

-----------------------------------------------------------------------------
(* The memory and string functions: every call.                            *)

LEMMA SetMemory ==
  ASSUME String!KStringAssumption, mem \in Memory,
         NEW p \in String!Addr, NEW n \in 0 .. StringSize - p, NEW c \in Byte,
         String!Kmemset(p, c, n)
  PROVE  mem' \in Memory /\ String!CallKept
<1>1. p \in Nat /\ n \in Nat /\ p + n <= StringSize
  BY StringSizes
<1>2. /\ call'.name = "kmemset" /\ call'.x = p /\ call'.y = c /\ call'.n = n
  BY DEF String!Kmemset, String!Called
<1>3. mem' = [i \in String!Addr |-> IF i \in p .. p + n - 1 THEN c ELSE mem[i]]
  BY DEF String!Kmemset, String!Filled
<1>4. mem' \in Memory
  BY <1>3 DEF Memory
<1>5. ASSUME NEW i \in p .. p + n - 1 PROVE mem'[i] = c
  <2>1. i \in String!Addr
    BY <1>1, StringSizes
  <2>2. QED
    BY <1>3, <2>1
<1>6. \A i \in String!Addr \ (p .. p + n - 1) : mem'[i] = mem[i]
  BY <1>3
<1>7. String!CallKept
  BY <1>2, <1>5, <1>6 DEF String!CallKept
<1>8. QED
  BY <1>4, <1>7

LEMMA CopyMemory ==
  ASSUME String!KStringAssumption, mem \in Memory,
         NEW p \in String!Addr, NEW q \in String!Addr, NEW n \in Nat,
         p + n <= StringSize, q + n <= StringSize,
         String!Kmemcpy(p, q, n)
  PROVE  mem' \in Memory /\ String!CallKept
<1>1. p \in Nat /\ q \in Nat
  BY StringSizes
<1>2. /\ call'.name = "kmemcpy" /\ call'.x = p /\ call'.y = q /\ call'.n = n
  BY DEF String!Kmemcpy, String!Called
<1>3. mem' = String!Copied(p, q, n)
  BY DEF String!Kmemcpy
<1>4. /\ mem' \in Memory
      /\ \A a \in String!Addr : a \notin p .. p + n - 1 => mem'[a] = mem[a]
      /\ Apart(p, q, n) => IsCopied(mem', p, q, n)
  BY <1>1, <1>3, CopyFrom
<1>5. p <= q \/ q + n <= p => \A i \in 0 .. n - 1 : mem'[p + i] = mem[q + i]
  BY <1>4 DEF Apart, IsCopied
<1>6. \A i \in String!Addr \ (p .. p + n - 1) : mem'[i] = mem[i]
  BY <1>4
<1>7. String!CallKept
  BY <1>2, <1>5, <1>6 DEF String!CallKept
<1>8. QED
  BY <1>4, <1>7

LEMMA CopyString ==
  ASSUME String!KStringAssumption, mem \in Memory,
         NEW p \in String!Addr, NEW q \in String!Addr, NEW n \in Nat,
         p + n <= StringSize - 1, q + n <= StringSize - 1,
         String!Kstrncpy(p, q, n)
  PROVE  mem' \in Memory /\ String!CallKept
<1>1. /\ call'.name = "kstrncpy" /\ call'.x = p /\ call'.y = q /\ call'.n = n
  BY DEF String!Kstrncpy, String!Called
<1>2. /\ mem' = String!StringCopied(p, q, n)
      /\ p + n < q \/ q + n < p
      /\ String!IsString(q)
  BY DEF String!Kstrncpy
<1>3. IsStringCopy(String!StringCopied(p, q, n), p, q, n)
  BY <1>2, StringCopy
<1>4. IsStringCopy(mem', p, q, n)
  BY <1>2, <1>3, Zenon
<1>5. mem' \in Memory
  BY <1>4 DEF IsStringCopy
<1>6. /\ String!Length(mem', p) = String!Min({n, String!Length(mem, q)})
      /\ \A i \in 0 .. String!Length(mem', p) - 1 : mem'[p + i] = mem[q + i]
      /\ \A i \in String!Addr \ (p .. p + n) : mem'[i] = mem[i]
  BY <1>4, Zenon DEF IsStringCopy
<1>7. String!CallKept
  <2> DEFINE x == call'.x
             y == call'.y
             m == call'.n
  <2>1. x = p /\ y = q /\ m = n /\ call'.name = "kstrncpy"
    BY <1>1
  <2> HIDE DEF x, y, m
  <2>2. /\ String!Length(mem', x) = String!Min({m, String!Length(mem, y)})
        /\ \A i \in 0 .. String!Length(mem', x) - 1 : mem'[x + i] = mem[y + i]
        /\ \A i \in String!Addr \ (x .. x + m) : mem'[i] = mem[i]
    BY <1>6, <2>1, Zenon
  <2>3. QED
    BY <2>1, <2>2 DEF String!CallKept, x, y, m
<1>8. QED
  BY <1>5, <1>7

LEMMA CompareStrings ==
  ASSUME String!KStringAssumption, mem \in Memory,
         NEW p \in String!Addr, NEW q \in String!Addr,
         String!Kstrcmp(p, q)
  PROVE  mem' \in Memory /\ String!CallKept
<1>1. /\ call'.name = "kstrcmp" /\ call'.x = p /\ call'.y = q
      /\ mem' = mem /\ result' = String!Compared(p, q)
      /\ String!IsString(p) /\ String!IsString(q)
  BY DEF String!Kstrcmp, String!Called
<1>2. Says(String!Compared(p, q), p, q, Within(p, q))
  BY <1>1, KstrcmpSays
<1>3. Says(result', call'.x, call'.y, Within(call'.x, call'.y))
  BY <1>1, <1>2, Zenon
<1>4. String!CallKept
  BY <1>1, <1>3 DEF String!CallKept, Says, Within
<1>5. QED
  BY <1>1, <1>4

LEMMA CompareCharacters ==
  ASSUME String!KStringAssumption, mem \in Memory,
         NEW p \in String!Addr, NEW q \in String!Addr, NEW n \in Nat,
         String!Kstrncmp(p, q, n)
  PROVE  mem' \in Memory /\ String!CallKept
<1>1. /\ call'.name = "kstrncmp" /\ call'.x = p /\ call'.y = q /\ call'.n = n
      /\ mem' = mem /\ result' = String!ComparedN(p, q, n)
      /\ String!IsString(p) /\ String!IsString(q)
  BY DEF String!Kstrncmp, String!Called
<1>2. Says(String!ComparedN(p, q, n), p, q, String!Min({n + 1, Within(p, q)}))
  BY <1>1, KstrncmpSays
<1>3. Says(result', call'.x, call'.y, String!Min({call'.n + 1, Within(call'.x, call'.y)}))
  BY <1>1, <1>2, Zenon
<1>4. String!CallKept
  BY <1>1, <1>3 DEF String!CallKept, Says, Within
<1>5. QED
  BY <1>1, <1>4

LEMMA MaxOfAddr ==
  ASSUME String!KStringAssumption, NEW a \in String!Addr, NEW b \in String!Addr
  PROVE  String!Max({a, b}) \in Int
<1>1. a \in Int /\ b \in Int
  BY StringSizes
<1>2. CASE b <= a
  BY <1>1, <1>2, MaxIs
<1>3. CASE a <= b
  BY <1>1, <1>3, MaxIs
<1>4. QED
  BY <1>1, <1>2, <1>3

\* n bytes from the higher of two addresses are n bytes from both.
LEMMA RoomForBoth ==
  ASSUME String!KStringAssumption, NEW a \in String!Addr, NEW b \in String!Addr,
         NEW l \in Nat, NEW n \in 0 .. StringSize - l - String!Max({a, b})
  PROVE  n \in Nat /\ a + n <= StringSize - l /\ b + n <= StringSize - l
<1>1. a \in Nat /\ b \in Nat /\ StringSize \in Nat
  BY StringSizes
<1>2. CASE b <= a
  <2>1. String!Max({a, b}) = a
    BY <1>1, <1>2, MaxIs
  <2>2. n \in 0 .. StringSize - l - a
    BY <2>1
  <2>3. QED
    BY <1>1, <1>2, <2>2
<1>3. CASE a <= b
  <2>1. String!Max({a, b}) = b
    BY <1>1, <1>3, MaxIs
  <2>2. n \in 0 .. StringSize - l - b
    BY <2>1
  <2>3. QED
    BY <1>1, <1>3, <2>2
<1>4. QED
  BY <1>1, <1>2, <1>3

\* Every call of the memory and string functions does what its loop is for: in
\* any memory, with strings and areas that may overlap, kmemset and kmemcpy
\* change the bytes they are asked to and no other, kstrncpy leaves a
\* terminated string of n characters at most, and the comparisons return 0 for
\* the strings that agree, in n + 1 characters with kstrncmp.
THEOREM CallsAreKept == String!Spec => CallsKept
<1> SUFFICES ASSUME String!KStringAssumption PROVE String!Spec => CallsKept
  BY LibraryAssumption
<1> USE StringSizes
<1>1. String!Init => mem \in Memory
  BY DEF String!Init, Memory
<1>2. ASSUME mem \in Memory, String!Next PROVE mem' \in Memory /\ String!CallKept
  <2>1. PICK x \in String!Addr, y \in String!Addr :
          \/ \E n \in 0 .. StringSize - x, c \in Byte : y = 0 /\ String!Kmemset(x, c, n)
          \/ \E n \in 0 .. StringSize - String!Max({x, y}) : String!Kmemcpy(x, y, n)
          \/ \E n \in 0 .. StringSize - 1 - String!Max({x, y}) : String!Kstrncpy(x, y, n)
          \/ String!Kstrcmp(x, y)
          \/ \E n \in 0 .. StringSize : String!Kstrncmp(x, y, n)
    BY <1>2, Zenon DEF String!Next
  <2>2. ASSUME NEW n \in 0 .. StringSize - x, NEW c \in Byte, String!Kmemset(x, c, n)
        PROVE  mem' \in Memory /\ String!CallKept
    BY <1>2, <2>2, SetMemory
  <2>3. ASSUME NEW n \in 0 .. StringSize - String!Max({x, y}), String!Kmemcpy(x, y, n)
        PROVE  mem' \in Memory /\ String!CallKept
    <3>1. StringSize - 0 - String!Max({x, y}) = StringSize - String!Max({x, y})
      <4>1. String!Max({x, y}) \in Int
        BY MaxOfAddr
      <4>2. QED
        BY <4>1
    <3>2. n \in 0 .. StringSize - 0 - String!Max({x, y})
      BY <2>3, <3>1, Zenon
    <3>3. n \in Nat /\ x + n <= StringSize - 0 /\ y + n <= StringSize - 0
      BY <3>2, RoomForBoth
    <3>4. n \in Nat /\ x + n <= StringSize /\ y + n <= StringSize
      BY <3>3
    <3>5. QED
      BY <1>2, <2>3, <3>4, CopyMemory
  <2>4. ASSUME NEW n \in 0 .. StringSize - 1 - String!Max({x, y}), String!Kstrncpy(x, y, n)
        PROVE  mem' \in Memory /\ String!CallKept
    <3>1. n \in Nat /\ x + n <= StringSize - 1 /\ y + n <= StringSize - 1
      BY RoomForBoth
    <3>2. QED
      BY <1>2, <2>4, <3>1, CopyString
  <2>5. CASE String!Kstrcmp(x, y)
    BY <1>2, <2>5, CompareStrings
  <2>6. ASSUME NEW n \in 0 .. StringSize, String!Kstrncmp(x, y, n)
        PROVE  mem' \in Memory /\ String!CallKept
    BY <1>2, <2>6, CompareCharacters
  <2>7. QED
    BY <2>1, <2>2, <2>3, <2>4, <2>5, <2>6, Zenon
<1>3. mem \in Memory /\ UNCHANGED String!vars => (mem \in Memory)'
  BY DEF String!vars, Memory
<1>4. mem \in Memory /\ [String!Next]_String!vars => (mem \in Memory)' /\ [String!CallKept]_String!vars
  BY <1>2, <1>3, Zenon DEF Memory, String!Addr
<1>5. QED
  BY <1>1, <1>4, PTL DEF String!Spec, String!CallsKept, CallsKept

-----------------------------------------------------------------------------
(* kprintf: recursion and powers.                                          *)

\* What holds at 0, and at each number if at the one before, holds to the end.
LEMMA Climb ==
  ASSUME NEW n \in Nat, NEW S, 0 \in S, \A k \in 1 .. n : k - 1 \in S => k \in S
  PROVE  \A k \in 0 .. n : k \in S
<1> DEFINE out == {i \in 0 .. n : i \notin S}
<1>1. SUFFICES ASSUME NEW k \in 0 .. n, k \in out PROVE FALSE
  OBVIOUS
<1>2. PICK i \in 0 .. n : i \in out /\ \A j \in 0 .. i - 1 : j \notin out
  <2> HIDE DEF out
  <2>1. QED
    BY <1>1, FirstStop
<1>3. i # 0 /\ i \in 1 .. n
  BY <1>2
<1>4. i - 1 \in 0 .. n /\ i - 1 \in 0 .. i - 1
  BY <1>3
<1>5. i - 1 \in S
  BY <1>2, <1>4
<1>6. QED
  BY <1>2, <1>3, <1>5

\* A loop has its sequence of states.
LoopStates(f, S, first, n, step) ==
  /\ f \in [0 .. n -> S] /\ f[0] = first
  /\ \A k \in 1 .. n : f[k] = step[k][f[k - 1]]

LEMMA Iterate ==
  ASSUME NEW S, NEW first \in S, NEW n \in Nat, NEW step,
         \A k \in 1 .. n : \A x \in S : step[k][x] \in S
  PROVE  \E f : LoopStates(f, S, first, n, step)
<1> DEFINE Done == {m \in 0 .. n : \E f : LoopStates(f, S, first, m, step)}
<1>1. 0 \in Done
  <2>1. LoopStates([i \in 0 .. 0 |-> first], S, first, 0, step)
    BY DEF LoopStates
  <2>2. QED
    BY <2>1
<1>2. ASSUME NEW k \in 1 .. n, k - 1 \in Done PROVE k \in Done
  <2>1. PICK f : LoopStates(f, S, first, k - 1, step)
    BY <1>2
  <2> DEFINE g == [i \in 0 .. k |-> IF i = k THEN step[k][f[k - 1]] ELSE f[i]]
  <2>2. k - 1 \in 0 .. k - 1 /\ f[k - 1] \in S
    BY <2>1 DEF LoopStates
  <2>3. \A i \in 0 .. k - 1 : f[i] \in S
    BY <2>1 DEF LoopStates
  <2>4. g \in [0 .. k -> S]
    BY <2>2, <2>3
  <2>5. g[0] = first
    BY <2>1 DEF LoopStates
  <2>6. ASSUME NEW i \in 1 .. k PROVE g[i] = step[i][g[i - 1]]
    <3>1. g[i - 1] = f[i - 1]
      OBVIOUS
    <3>2. CASE i = k
      <4>1. g[i] = step[k][f[k - 1]]
        BY <3>2
      <4>2. QED
        BY <3>1, <3>2, <4>1
    <3>3. CASE i # k
      <4>1. i \in 1 .. k - 1 /\ g[i] = f[i]
        BY <3>3
      <4>2. f[i] = step[i][f[i - 1]]
        BY <2>1, <4>1 DEF LoopStates
      <4>3. QED
        BY <3>1, <4>1, <4>2
    <3>4. QED
      BY <3>2, <3>3
  <2> HIDE DEF g
  <2>7. LoopStates(g, S, first, k, step)
    BY <2>4, <2>5, <2>6 DEF LoopStates
  <2>8. QED
    BY <2>7
<1>3. n \in 0 .. n
  OBVIOUS
<1>4. \A k \in 0 .. n : k \in Done
  <2> HIDE DEF Done
  <2>1. QED
    BY <1>1, <1>2, Climb
<1>5. QED
  BY <1>3, <1>4

LEMMA Sizes ==
  ASSUME Printer!KprintfAssumption
  PROVE  /\ Bits \in Nat /\ LongBits \in Nat /\ 8 <= Bits /\ Bits <= LongBits
         /\ \A d \in Directives : Printer!IsDirective(d)
  BY DEF Printer!KprintfAssumption

ArePowers(p, base) ==
  /\ p \in [0 .. LongBits + 1 -> Nat \ {0}]
  /\ p[0] = 1
  /\ \A k \in 1 .. LongBits + 1 : p[k] = base * p[k - 1]

LEMMA TimesIs ==
  ASSUME NEW a \in Nat \ {0}, NEW b \in Nat \ {0}
  PROVE  a * b \in Nat \ {0}
  OBVIOUS

LEMMA PowersAre ==
  ASSUME Printer!KprintfAssumption, NEW base \in Nat \ {0}
  PROVE  ArePowers(Printer!Powers(base), base)
<1> DEFINE n == LongBits + 1
           S == Nat \ {0}
           step == [k \in 1 .. n |-> [x \in S |-> base * x]]
           IsPower(p) == p = [k \in 0 .. n |-> IF k = 0 THEN 1 ELSE base * p[k - 1]]
           p == CHOOSE p : IsPower(p)
<1>1. n \in Nat
  BY Sizes
<1>2. PICK f : LoopStates(f, S, 1, n, step)
  <2>1. ASSUME NEW k \in 1 .. n, NEW x \in S PROVE step[k][x] \in S
    <3>1. step[k][x] = base * x
      BY <2>1
    <3>2. QED
      BY <3>1, TimesIs
  <2>2. 1 \in S
    OBVIOUS
  <2> HIDE DEF n, S, step
  <2>3. QED
    BY <1>1, <2>1, <2>2, Iterate
<1>3. IsPower(f)
  <2>1. f = [k \in 0 .. n |-> f[k]]
    BY <1>2 DEF LoopStates
  <2>2. ASSUME NEW k \in 0 .. n PROVE f[k] = IF k = 0 THEN 1 ELSE base * f[k - 1]
    <3>1. CASE k = 0
      BY <1>2, <3>1 DEF LoopStates
    <3>2. CASE k # 0
      <4>1. k \in 1 .. n /\ k - 1 \in 0 .. n
        BY <1>1, <3>2
      <4>2. f[k - 1] \in S
        BY <1>2, <4>1 DEF LoopStates
      <4>3. f[k] = step[k][f[k - 1]]
        BY <1>2, <4>1 DEF LoopStates
      <4>4. step[k][f[k - 1]] = base * f[k - 1]
        BY <4>1, <4>2
      <4>5. QED
        BY <3>2, <4>3, <4>4
    <3>3. QED
      BY <3>1, <3>2
  <2> HIDE DEF n
  <2>3. QED
    BY <2>1, <2>2
<1>4. IsPower(p)
  <2> HIDE DEF IsPower
  <2>1. QED
    BY <1>3
<1>5. Printer!Powers(base) = p
  BY Zenon DEF Printer!Powers
<1> HIDE DEF p
<1>6. \A k \in 0 .. n : p[k] = IF k = 0 THEN 1 ELSE base * p[k - 1]
  BY <1>4
<1>7. p[0] = 1
  BY <1>1, <1>6
<1>8. \A k \in 1 .. n : p[k] = base * p[k - 1]
  BY <1>1, <1>6
<1>9. \A k \in 0 .. n : p[k] \in Nat \ {0}
  <2> DEFINE T == {k \in 0 .. n : p[k] \in Nat \ {0}}
  <2>1. 0 \in T
    BY <1>1, <1>7
  <2>2. ASSUME NEW k \in 1 .. n, k - 1 \in T PROVE k \in T
    <3>1. p[k] = base * p[k - 1] /\ p[k - 1] \in Nat \ {0}
      BY <1>8, <2>2
    <3>2. QED
      BY <3>1, TimesIs
  <2>3. \A k \in 0 .. n : k \in T
    <3> HIDE DEF T, n
    <3>1. QED
      BY <1>1, <2>1, <2>2, Climb
  <2>4. QED
    BY <2>3
<1>10. p = [k \in 0 .. n |-> p[k]]
  <2>1. p = [k \in 0 .. n |-> IF k = 0 THEN 1 ELSE base * p[k - 1]]
    BY <1>4
  <2>2. QED
    BY <2>1
<1>11. ArePowers(p, base)
  BY <1>7, <1>8, <1>9, <1>10 DEF ArePowers
<1>12. QED
  BY <1>5, <1>11, Zenon

LEMMA Grows ==
  ASSUME NEW b \in Nat, b >= 2, NEW x \in Nat \ {0}
  PROVE  b * x \in Nat /\ x < b * x /\ 2 * x <= b * x
  BY Z3

LEMMA PowersGrow ==
  ASSUME Printer!KprintfAssumption, NEW base \in Nat, base >= 2, NEW p, ArePowers(p, base),
         NEW k \in 0 .. LongBits + 1, NEW j \in 0 .. k
  PROVE  p[j] <= p[k] /\ (j < k => p[j] < p[k])
<1> DEFINE n == LongBits + 1
           S == {h \in 0 .. n : \A i \in 0 .. h : p[i] <= p[h] /\ (i < h => p[i] < p[h])}
<1>1. n \in Nat
  BY Sizes
<1>2. \A h \in 0 .. n : p[h] \in Nat \ {0}
  BY DEF ArePowers
<1>3. \A h \in 1 .. n : p[h] = base * p[h - 1]
  BY DEF ArePowers
<1>4. 0 \in S
  <2>1. ASSUME NEW i \in 0 .. 0 PROVE p[i] <= p[0] /\ ~ (i < 0)
    <3>1. i = 0 /\ p[0] \in Nat
      BY <1>1, <1>2
    <3>2. QED
      BY <3>1
  <2>2. QED
    BY <1>1, <2>1
<1>5. ASSUME NEW h \in 1 .. n, h - 1 \in S PROVE h \in S
  <2>1. p[h - 1] \in Nat \ {0} /\ p[h] \in Nat \ {0} /\ p[h - 1] < p[h]
    <3>1. p[h - 1] \in Nat \ {0} /\ p[h] \in Nat \ {0} /\ p[h] = base * p[h - 1]
      BY <1>1, <1>2, <1>3
    <3>2. QED
      BY <3>1, Grows
  <2>2. ASSUME NEW i \in 0 .. h PROVE p[i] <= p[h] /\ (i < h => p[i] < p[h])
    <3>1. p[i] \in Nat
      BY <1>1, <1>2
    <3>2. CASE i = h
      BY <2>1, <3>2
    <3>3. CASE i # h
      <4>1. i \in 0 .. h - 1
        BY <3>3
      <4>2. p[i] <= p[h - 1]
        BY <1>5, <4>1
      <4>3. QED
        BY <2>1, <3>1, <4>2
    <3>4. QED
      BY <3>2, <3>3
  <2>3. QED
    BY <2>2
<1>6. \A h \in 0 .. n : h \in S
  <2> HIDE DEF S, n
  <2>1. QED
    BY <1>1, <1>4, <1>5, Climb
<1>7. QED
  BY <1>6

\* The powers of a larger base are as large.
LEMMA PowersExceed ==
  ASSUME Printer!KprintfAssumption, NEW base \in Nat, base >= 2,
         NEW p, ArePowers(p, base), NEW q, ArePowers(q, 2),
         NEW k \in 0 .. LongBits + 1
  PROVE  q[k] <= p[k]
<1> DEFINE n == LongBits + 1
           S == {h \in 0 .. n : q[h] <= p[h]}
<1>1. n \in Nat
  BY Sizes
<1>2. \A h \in 0 .. n : p[h] \in Nat \ {0} /\ q[h] \in Nat \ {0}
  BY DEF ArePowers
<1>3. 0 \in S
  <2>1. p[0] = 1 /\ q[0] = 1
    BY DEF ArePowers
  <2>2. QED
    BY <1>1, <2>1
<1>4. ASSUME NEW h \in 1 .. n, h - 1 \in S PROVE h \in S
  <2>1. p[h] = base * p[h - 1] /\ q[h] = 2 * q[h - 1]
    BY DEF ArePowers
  <2>2. p[h - 1] \in Nat \ {0} /\ q[h - 1] \in Nat /\ q[h - 1] <= p[h - 1]
    BY <1>1, <1>2, <1>4
  <2>3. 2 * p[h - 1] <= base * p[h - 1] /\ base * p[h - 1] \in Nat
    BY <2>2, Grows
  <2> DEFINE x == p[h - 1]
             y == q[h - 1]
             z == base * p[h - 1]
  <2>4. x \in Nat /\ y \in Nat /\ z \in Nat /\ y <= x /\ 2 * x <= z
    BY <2>2, <2>3
  <2>5. p[h] = z /\ q[h] = 2 * y
    BY <2>1
  <2> HIDE DEF x, y, z
  <2>6. q[h] <= p[h]
    BY <2>4, <2>5
  <2>7. QED
    BY <2>6
<1>5. \A h \in 0 .. n : h \in S
  <2> HIDE DEF S, n
  <2>1. QED
    BY <1>1, <1>3, <1>4, Climb
<1>6. QED
  BY <1>5

\* No power of 2 is a power of 10.
LEMMA PowersOfTwo ==
  ASSUME Printer!KprintfAssumption, NEW q, ArePowers(q, 2), NEW k \in 0 .. LongBits + 1
  PROVE  q[k] % 5 # 0
<1> DEFINE n == LongBits + 1
           S == {h \in 0 .. n : q[h] % 5 # 0}
<1>1. n \in Nat
  BY Sizes
<1>2. 0 \in S
  <2>1. q[0] = 1
    BY DEF ArePowers
  <2>2. QED
    BY <1>1, <2>1
<1>3. ASSUME NEW h \in 1 .. n, h - 1 \in S PROVE h \in S
  <2> DEFINE y == q[h - 1]
  <2>1. q[h] = 2 * y
    BY DEF ArePowers
  <2>2. y \in Nat /\ y % 5 # 0
    BY <1>1, <1>3 DEF ArePowers
  <2> HIDE DEF y
  <2>3. (2 * y) % 5 # 0
    BY <2>2
  <2>4. QED
    BY <2>1, <2>3
<1>4. \A h \in 0 .. n : h \in S
  <2> HIDE DEF S, n
  <2>1. QED
    BY <1>1, <1>2, <1>3, Climb
<1>5. QED
  BY <1>4

LEMMA PowersOfTen ==
  ASSUME Printer!KprintfAssumption, NEW p, ArePowers(p, 10), NEW k \in 1 .. LongBits + 1
  PROVE  p[k] % 5 = 0
<1>1. p[k] = 10 * p[k - 1] /\ p[k - 1] \in Nat
  <2>1. k - 1 \in 0 .. LongBits + 1
    BY Sizes
  <2>2. QED
    BY <2>1 DEF ArePowers
<1> DEFINE y == p[k - 1]
<1>2. y \in Nat /\ p[k] = 10 * y
  BY <1>1
<1> HIDE DEF y
<1>3. (10 * y) % 5 = 0
  BY <1>2
<1>4. QED
  BY <1>2, <1>3

LEMMA TwoAndTenDiffer ==
  ASSUME Printer!KprintfAssumption, NEW p, ArePowers(p, 10), NEW q, ArePowers(q, 2),
         NEW k \in 1 .. LongBits + 1, NEW j \in 0 .. LongBits + 1
  PROVE  p[k] # q[j]
  BY PowersOfTwo, PowersOfTen

-----------------------------------------------------------------------------
(* kprintf: division.                                                      *)

LEMMA MultipleMonotone ==
  ASSUME NEW a \in Nat, NEW b \in Nat, NEW m \in Nat, a <= b
  PROVE  a * m \in Nat /\ a * m <= b * m
  BY Z3

LEMMA Quotient ==
  ASSUME NEW n \in Nat, NEW m \in Nat \ {0}
  PROVE  /\ n \div m \in Nat
         /\ (n \div m) * m <= n /\ n < (n \div m + 1) * m
  BY SMT

LEMMA QuotientIs ==
  ASSUME NEW m \in Nat \ {0}, NEW q \in Nat, NEW r \in 0 .. m - 1
  PROVE  (q * m + r) \div m = q /\ (q * m + r) % m = r
  BY Z3

LEMMA DivisionWithRest ==
  ASSUME NEW n \in Nat, NEW m \in Nat \ {0}
  PROVE  /\ n \div m \in Nat /\ n % m \in 0 .. m - 1
         /\ n = (n \div m) * m + (n % m)
<1> DEFINE q == n \div m
           r == n - q * m
<1>1. q \in Nat /\ r \in 0 .. m - 1 /\ n = q * m + r
  BY Quotient, Z3
<1>2. n % m = r
  <2> HIDE DEF q, r
  <2>1. QED
    BY <1>1, QuotientIs
<1>3. QED
  BY <1>1, <1>2

LEMMA RemainderRange ==
  ASSUME NEW v \in Int, NEW m \in Nat \ {0}
  PROVE  v % m \in 0 .. m - 1
  BY Z3

LEMMA RemainderOfLess ==
  ASSUME NEW m \in Nat \ {0}, NEW n \in 0 .. m - 1
  PROVE  n % m = n /\ n \div m = 0
<1>1. (0 * m + n) % m = n /\ (0 * m + n) \div m = 0
  BY QuotientIs
<1>2. 0 * m + n = n
  OBVIOUS
<1>3. QED
  BY <1>1, <1>2

\* A quotient is below a number if the dividend is below its multiple.
LEMMA QuotientBelow ==
  ASSUME NEW n \in Nat, NEW m \in Nat \ {0}, NEW q \in Nat
  PROVE  n < q * m <=> n \div m < q
<1> DEFINE d == n \div m
<1>1. d \in Nat /\ d * m <= n /\ n < (d + 1) * m
  BY Quotient
<1> HIDE DEF d
<1>2. ASSUME d < q PROVE n < q * m
  <2>1. (d + 1) * m <= q * m /\ (d + 1) * m \in Nat /\ q * m \in Nat
    <3>1. d + 1 \in Nat /\ d + 1 <= q
      BY <1>1, <1>2
    <3>2. QED
      BY <3>1, MultipleMonotone
  <2>2. QED
    BY <1>1, <2>1
<1>3. ASSUME ~ (d < q) PROVE ~ (n < q * m)
  <2>1. q * m <= d * m /\ q * m \in Nat /\ d * m \in Nat
    <3>1. q <= d
      BY <1>1, <1>3
    <3>2. QED
      BY <1>1, <3>1, MultipleMonotone
  <2>2. QED
    BY <1>1, <2>1
<1>4. QED
  BY <1>2, <1>3 DEF d

-----------------------------------------------------------------------------
(* kprintf: C's integers.                                                  *)

LEMMA UnsignedIs ==
  ASSUME Printer!KprintfAssumption, NEW v \in Int, NEW b \in 1 .. LongBits,
         NEW q, q = Printer!Powers(2)
  PROVE  /\ ArePowers(q, 2)
         /\ Printer!Unsigned(v, b) \in 0 .. q[b] - 1
         /\ v \in 0 .. q[b] - 1 => Printer!Unsigned(v, b) = v
<1>1. ArePowers(q, 2)
  BY PowersAre
<1>2. q[b] \in Nat \ {0}
  <2>1. b \in 0 .. LongBits + 1
    BY Sizes
  <2>2. QED
    BY <1>1, <2>1 DEF ArePowers
<1>3. Printer!Unsigned(v, b) = v % q[b]
  BY Zenon DEF Printer!Unsigned
<1> DEFINE m == q[b]
<1>4. m \in Nat \ {0}
  BY <1>2
<1> HIDE DEF m
<1>5. v % m \in 0 .. m - 1
  BY <1>4, RemainderRange
<1>6. v \in 0 .. m - 1 => v % m = v
  BY <1>4, RemainderOfLess
<1>7. QED
  BY <1>1, <1>3, <1>5, <1>6 DEF m

LEMMA SignedIs ==
  ASSUME Printer!KprintfAssumption, NEW v \in Int, NEW b \in 1 .. LongBits,
         NEW q, q = Printer!Powers(2)
  PROVE  /\ Printer!Signed(v, b) \in -q[b - 1] .. q[b - 1] - 1
         /\ v \in 0 .. q[b - 1] - 1 => Printer!Signed(v, b) = v
<1> DEFINE m == q[b - 1]
           u == Printer!Unsigned(v, b)
<1>1. ArePowers(q, 2) /\ u \in 0 .. q[b] - 1 /\ (v \in 0 .. q[b] - 1 => u = v)
  BY UnsignedIs
<1>2. b - 1 \in 0 .. LongBits + 1 /\ b \in 1 .. LongBits + 1
  BY Sizes
<1>3. m \in Nat \ {0} /\ q[b] = 2 * m
  BY <1>1, <1>2 DEF ArePowers
<1>4. Printer!Signed(v, b) = IF u >= m THEN u - q[b] ELSE u
  BY Zenon DEF Printer!Signed
<1> HIDE DEF m, u
<1>5. u \in Int /\ 0 <= u /\ u < 2 * m
  BY <1>1, <1>3
<1>6. v \in 0 .. m - 1 => u = v
  BY <1>1, <1>3
<1>7. Printer!Signed(v, b) \in -m .. m - 1 /\ (v \in 0 .. m - 1 => Printer!Signed(v, b) = v)
  BY <1>3, <1>4, <1>5, <1>6
<1>8. QED
  BY <1>7 DEF m

\* The values of a type end at a power of 2.
TopExponent(signed, bits) == IF signed THEN bits - 1 ELSE bits

LEMMA AsIs ==
  ASSUME Printer!KprintfAssumption, NEW v \in Int, NEW b \in 2 .. LongBits,
         NEW signed \in BOOLEAN, NEW q, q = Printer!Powers(2),
         NEW t, t = TopExponent(signed, b)
  PROVE  /\ t \in 1 .. LongBits
         /\ Printer!As(Printer!Type(signed, b), v) \in Int
         /\ Printer!As(Printer!Type(signed, b), v) < q[t]
         /\ v \in 0 .. q[t] - 1 => Printer!As(Printer!Type(signed, b), v) = v
<1>1. ArePowers(q, 2) /\ b \in 1 .. LongBits
  BY Sizes, PowersAre
<1>2. CASE signed
  <2>1. t = b - 1 /\ t \in 1 .. LongBits /\ t \in 0 .. LongBits + 1
    BY <1>2, Sizes DEF TopExponent
  <2>2. Printer!As(Printer!Type(signed, b), v) = Printer!Signed(v, b)
    BY <1>2, Zenon DEF Printer!As, Printer!Type
  <2>3. q[t] \in Nat
    BY <1>1, <2>1 DEF ArePowers
  <2> DEFINE m == q[t]
             x == Printer!Signed(v, b)
  <2>4. x \in -m .. m - 1 /\ (v \in 0 .. m - 1 => x = v)
    BY <1>1, <2>1, SignedIs
  <2>5. m \in Nat
    BY <2>3
  <2> HIDE DEF m, x
  <2>6. x \in Int /\ x < m
    BY <2>4, <2>5
  <2>7. QED
    BY <2>1, <2>2, <2>4, <2>6 DEF m, x
<1>3. CASE ~ signed
  <2>1. t = b /\ t \in 1 .. LongBits /\ t \in 0 .. LongBits + 1
    BY <1>3, Sizes DEF TopExponent
  <2>2. Printer!As(Printer!Type(signed, b), v) = Printer!Unsigned(v, b)
    BY <1>3, Zenon DEF Printer!As, Printer!Type
  <2>3. q[t] \in Nat
    BY <1>1, <2>1 DEF ArePowers
  <2> DEFINE m == q[t]
             x == Printer!Unsigned(v, b)
  <2>4. x \in 0 .. m - 1 /\ (v \in 0 .. m - 1 => x = v)
    BY <1>1, <2>1, UnsignedIs
  <2>5. m \in Nat
    BY <2>3
  <2> HIDE DEF m, x
  <2>6. x \in Int /\ x < m
    BY <2>4, <2>5
  <2>7. QED
    BY <2>1, <2>2, <2>4, <2>6 DEF m, x
<1>4. QED
  BY <1>2, <1>3

-----------------------------------------------------------------------------
(* kprintf: the search for the largest power.                              *)

\* C's quotient of a number below a multiple is below the factor.
LEMMA CQuotientBelow ==
  ASSUME NEW x \in Int, NEW b \in Nat \ {0}, NEW m \in Nat \ {0}, x < m * b
  PROVE  Printer!Quotient(x, b) < m /\ Printer!Quotient(x, b) # m
<1>1. CASE x < 0
  <2> DEFINE y == (-x) \div b
  <2>1. Printer!Quotient(x, b) = -y
    BY <1>1 DEF Printer!Quotient
  <2>2. y \in Nat
    <3>1. -x \in Nat
      BY <1>1
    <3>2. QED
      BY <3>1, Quotient
  <2> HIDE DEF y
  <2>3. QED
    BY <2>1, <2>2
<1>2. CASE ~ (x < 0)
  <2> DEFINE y == x \div b
  <2>1. Printer!Quotient(x, b) = y
    BY <1>2 DEF Printer!Quotient
  <2>2. y \in Nat /\ y < m
    <3>1. x \in Nat
      BY <1>2
    <3>2. QED
      BY <3>1, Quotient, QuotientBelow
  <2> HIDE DEF y
  <2>3. QED
    BY <2>1, <2>2
<1>3. QED
  BY <1>1, <1>2

LEMMA DividesBack ==
  ASSUME Printer!KprintfAssumption, NEW base \in Nat, base >= 2,
         NEW p, p = Printer!Powers(base), NEW q, q = Printer!Powers(2),
         NEW b \in 2 .. LongBits, NEW signed \in BOOLEAN, NEW t, t = TopExponent(signed, b),
         NEW k \in 1 .. LongBits
  PROVE  Printer!Quotient(Printer!As(Printer!Type(signed, b), p[k + 1]), base) = p[k]
           <=> p[k + 1] < q[t]
<1> DEFINE x == Printer!As(Printer!Type(signed, b), p[k + 1])
           m == p[k]
           v == p[k + 1]
<1>1. base \in Nat \ {0} /\ ArePowers(p, base) /\ ArePowers(q, 2)
  BY PowersAre
<1>2. m \in Nat \ {0} /\ v = base * m /\ v \in Nat
  <2>1. k \in 0 .. LongBits + 1 /\ k + 1 \in 1 .. LongBits + 1 /\ k + 1 \in 0 .. LongBits + 1
        /\ (k + 1) - 1 = k
    BY Sizes
  <2>2. QED
    BY <1>1, <2>1 DEF ArePowers
<1>3. t \in 1 .. LongBits /\ x \in Int /\ x < q[t] /\ (v \in 0 .. q[t] - 1 => x = v)
  BY <1>2, AsIs
<1>4. q[t] \in Nat
  <2>1. t \in 0 .. LongBits + 1
    BY <1>3, Sizes
  <2>2. QED
    BY <1>1, <2>1 DEF ArePowers
<1> DEFINE top == q[t]
<1>5. top \in Nat /\ x < top /\ (v < top => x = v)
  BY <1>2, <1>3, <1>4
<1> HIDE DEF x, m, v, top
<1>6. CASE v < top
  <2>1. x = m * base + 0 /\ ~ (x < 0) /\ 0 \in 0 .. base - 1
    BY <1>1, <1>2, <1>5, <1>6
  <2>2. x \div base = m
    <3>1. (m * base + 0) \div base = m
      BY <1>1, <1>2, <2>1, QuotientIs
    <3>2. QED
      BY <2>1, <3>1
  <2>3. Printer!Quotient(x, base) = m
    BY <2>1, <2>2, Zenon DEF Printer!Quotient
  <2>4. QED
    BY <1>6, <2>3 DEF x, m, v, top
<1>7. CASE ~ (v < top)
  <2>1. x < m * base
    <3>1. m * base = v
      BY <1>1, <1>2
    <3>2. x < v
      BY <1>2, <1>3, <1>5, <1>7
    <3>3. QED
      BY <3>1, <3>2
  <2>2. Printer!Quotient(x, base) # m
    BY <1>1, <1>2, <1>3, <2>1, CQuotientBelow
  <2>3. QED
    BY <1>7, <2>2 DEF x, m, v, top
<1>8. QED
  BY <1>6, <1>7

\* The largest power found: its next is above every number of the type.
LEMMA LastPower ==
  ASSUME Printer!KprintfAssumption, NEW base \in Nat, base >= 2,
         NEW p, p = Printer!Powers(base), NEW q, q = Printer!Powers(2),
         NEW b \in 2 .. LongBits, NEW signed \in BOOLEAN, NEW t, t = TopExponent(signed, b),
         NEW last, last = Printer!LargestPower(base, Printer!Type(signed, b))
  PROVE  last \in 1 .. LongBits /\ p[last + 1] >= q[t]
<1> DEFINE Back(k) == Printer!Quotient(Printer!As(Printer!Type(signed, b), p[k + 1]), base) = p[k]
           Stops(k) == ~ Back(k) /\ \A j \in 1 .. k - 1 : Back(j)
           over == {k \in 0 .. LongBits - 1 : ~ Back(k + 1)}
<1>1. ArePowers(p, base) /\ ArePowers(q, 2)
  BY PowersAre
<1>2. \A k \in 1 .. LongBits : Back(k) <=> p[k + 1] < q[t]
  BY DividesBack
<1>3. t \in 1 .. LongBits /\ LongBits \in Nat /\ LongBits \in 1 .. LongBits
  <2>1. 0 \in Int
    OBVIOUS
  <2>2. QED
    BY <2>1, AsIs, Sizes
<1>4. \A k \in 1 .. LongBits : p[k + 1] \in Nat /\ q[t] \in Nat
  <2>1. t \in 0 .. LongBits + 1 /\ \A k \in 1 .. LongBits : k + 1 \in 0 .. LongBits + 1
    BY <1>3
  <2>2. QED
    BY <1>1, <2>1 DEF ArePowers
<1>5. ~ Back(LongBits)
  <2>1. LongBits + 1 \in 0 .. LongBits + 1 /\ t \in 0 .. LongBits + 1
    BY <1>3
  <2>2. q[LongBits + 1] <= p[LongBits + 1]
    BY <1>1, <2>1, PowersExceed
  <2>3. q[t] <= q[LongBits + 1]
    BY <1>1, <2>1, PowersGrow
  <2>4. q[t] \in Nat /\ p[LongBits + 1] \in Nat /\ q[LongBits + 1] \in Nat
    BY <1>1, <2>1 DEF ArePowers
  <2>5. ~ (p[LongBits + 1] < q[t])
    BY <2>2, <2>3, <2>4
  <2> HIDE DEF Back
  <2>6. QED
    BY <1>2, <1>3, <2>5
<1>6. \E k \in 1 .. LongBits : Stops(k)
  <2> HIDE DEF Back
  <2>1. LongBits - 1 \in Nat /\ LongBits - 1 \in 0 .. LongBits - 1 /\ LongBits - 1 \in over
    BY <1>3, <1>5
  <2>2. PICK i \in 0 .. LongBits - 1 : i \in over /\ \A j \in 0 .. i - 1 : j \notin over
    <3> HIDE DEF over
    <3>1. QED
      BY <2>1, FirstStop
  <2>3. i + 1 \in 1 .. LongBits /\ ~ Back(i + 1)
    BY <1>3, <2>2
  <2>4. ASSUME NEW j \in 1 .. (i + 1) - 1 PROVE Back(j)
    <3>1. j - 1 \in 0 .. i - 1 /\ j - 1 \in 0 .. LongBits - 1 /\ (j - 1) + 1 = j
      BY <1>3, <2>2
    <3>2. j - 1 \notin over
      BY <2>2, <3>1
    <3>3. QED
      BY <3>1, <3>2
  <2>5. QED
    BY <2>3, <2>4
<1> DEFINE l == CHOOSE k \in 1 .. LongBits : Stops(k)
<1>7. last = l
  BY Zenon DEF Printer!LargestPower
<1>8. l \in 1 .. LongBits /\ Stops(l)
  <2> HIDE DEF Stops
  <2>1. QED
    BY <1>6
<1>9. last \in 1 .. LongBits /\ ~ Back(last)
  <2> HIDE DEF l, Back
  <2>1. QED
    BY <1>7, <1>8
<1> HIDE DEF Back
<1>10. QED
  BY <1>2, <1>4, <1>9

-----------------------------------------------------------------------------
(* kprintf: the digits of a number.                                        *)

\* w has n digits.
Width(n, w, p) == n \in 1 .. LongBits /\ w < p[n] /\ (n = 1 \/ w >= p[n - 1])

LEMMA WidthExists ==
  ASSUME Printer!KprintfAssumption, NEW base \in Nat, base >= 2,
         NEW p, ArePowers(p, base), NEW w \in Nat, w < p[LongBits]
  PROVE  \E n \in Nat : Width(n, w, p)
<1> DEFINE above == {k \in 0 .. LongBits - 1 : w < p[k + 1]}
<1>1. LongBits \in Nat /\ 8 <= LongBits
  BY Sizes
<1>2. LongBits - 1 \in Nat /\ LongBits - 1 \in 0 .. LongBits - 1 /\ LongBits - 1 \in above
  BY <1>1
<1>3. PICK i \in 0 .. LongBits - 1 : i \in above /\ \A j \in 0 .. i - 1 : j \notin above
  <2> HIDE DEF above
  <2>1. QED
    BY <1>2, FirstStop
<1>4. i + 1 \in 1 .. LongBits /\ w < p[i + 1]
  BY <1>1, <1>3
<1>5. CASE i + 1 = 1
  BY <1>4, <1>5 DEF Width
<1>6. CASE i + 1 # 1
  <2>1. i - 1 \in 0 .. i - 1 /\ i - 1 \in 0 .. LongBits - 1 /\ (i - 1) + 1 = i /\ (i + 1) - 1 = i
        /\ i \in 0 .. LongBits + 1
    BY <1>1, <1>3, <1>6
  <2>2. ~ (w < p[i]) /\ p[i] \in Nat
    BY <1>3, <2>1 DEF ArePowers
  <2>3. w >= p[(i + 1) - 1]
    BY <2>1, <2>2
  <2>4. QED
    BY <1>4, <2>3 DEF Width
<1>7. QED
  BY <1>5, <1>6

LEMMA WidthUnique ==
  ASSUME Printer!KprintfAssumption, NEW base \in Nat, base >= 2,
         NEW p, ArePowers(p, base), NEW w \in Nat,
         NEW n, Width(n, w, p), NEW k \in 1 .. LongBits + 1, w < p[k]
  PROVE  n <= k /\ (k = 1 \/ w >= p[k - 1] => n = k)
<1>1. LongBits \in Nat /\ n \in 1 .. LongBits /\ w < p[n] /\ (n = 1 \/ w >= p[n - 1])
  BY Sizes DEF Width
<1>2. n - 1 \in 0 .. LongBits + 1 /\ k - 1 \in 0 .. LongBits + 1
      /\ n \in 0 .. LongBits + 1 /\ k \in 0 .. LongBits + 1
  BY <1>1
<1>3. p[n - 1] \in Nat /\ p[k - 1] \in Nat /\ p[n] \in Nat /\ p[k] \in Nat
  BY <1>2 DEF ArePowers
<1>4. n <= k
  <2>1. ASSUME k < n PROVE FALSE
    <3>1. k \in 0 .. n - 1
      BY <1>1, <2>1
    <3>2. p[k] <= p[n - 1]
      BY <1>2, <3>1, PowersGrow
    <3>3. w >= p[n - 1]
      BY <1>1, <2>1
    <3>4. QED
      BY <1>3, <3>2, <3>3
  <2>2. QED
    BY <1>1, <2>1
<1>5. ASSUME k = 1 \/ w >= p[k - 1] PROVE ~ (n < k)
  <2>1. ASSUME n < k PROVE FALSE
    <3>1. n \in 0 .. k - 1
      BY <1>1, <2>1
    <3>2. p[n] <= p[k - 1]
      BY <1>2, <3>1, PowersGrow
    <3>3. w >= p[k - 1]
      BY <1>1, <1>5, <2>1
    <3>4. QED
      BY <1>1, <1>3, <3>2, <3>3
  <2>2. QED
    BY <2>1
<1>6. QED
  BY <1>1, <1>4, <1>5

LEMMA NumeralIs ==
  ASSUME Printer!KprintfAssumption, NEW base \in Nat, base >= 2,
         NEW p, p = Printer!Powers(base), NEW w \in Nat, NEW n, Width(n, w, p)
  PROVE  Printer!Numeral(w, base) = [i \in 1 .. n |-> Printer!Letter((w \div p[n - i]) % base)]
<1> DEFINE P == Printer!Powers(base)
           Fits(k) == w < P[k] /\ (k = 1 \/ w >= P[k - 1])
           m == CHOOSE k \in 1 .. LongBits : Fits(k)
<1>1. ArePowers(P, base) /\ base \in Nat \ {0} /\ p = P
  BY PowersAre
<1>2. n \in 1 .. LongBits /\ Fits(n)
  BY <1>1, Zenon DEF Width
<1>3. m \in 1 .. LongBits /\ Fits(m)
  <2> HIDE DEF Fits
  <2>1. QED
    BY <1>2
<1>4. Printer!Numeral(w, base)
        = [i \in 1 .. m |-> Printer!Letter((w \div P[m - i]) % base)]
  BY Zenon DEF Printer!Numeral
<1>5. m = n
  <2> HIDE DEF m, P
  <2>1. m \in 1 .. LongBits + 1 /\ w < P[m] /\ (m = 1 \/ w >= P[m - 1])
    BY <1>3, Sizes
  <2>2. Width(n, w, P)
    BY <1>1
  <2>3. QED
    BY <1>1, <2>1, <2>2, WidthUnique
<1> HIDE DEF m, P
<1>6. QED
  BY <1>1, <1>4, <1>5

\* The next digit of the rest is the digit of the number.
LEMMA NextDigit ==
  ASSUME NEW w \in Nat, NEW m \in Nat \ {0}, NEW base \in Nat \ {0}
  PROVE  /\ (w % (base * m)) \div m = (w \div m) % base
         /\ (w % (base * m)) % m = w % m
         /\ (w \div m) % base \in 0 .. base - 1
<1> DEFINE k == base * m
           Q == w \div k
           R == w % k
           r == R \div m
           s == R % m
<1>1. k \in Nat \ {0}
  BY TimesIs
<1>2. Q \in Nat /\ R \in 0 .. k - 1 /\ w = Q * k + R
  <2> HIDE DEF k
  <2>1. QED
    BY <1>1, DivisionWithRest
<1>3. R \in Nat /\ R < base * m
  <2> HIDE DEF R, Q
  <2>1. QED
    BY <1>1, <1>2
<1> HIDE DEF R, Q
<1>4. r \in Nat /\ s \in 0 .. m - 1 /\ R = r * m + s /\ r < base
  BY <1>3, DivisionWithRest, QuotientBelow
<1> HIDE DEF r, s, k
<1>5. w = (Q * base + r) * m + s
  <2>1. Q * k = (Q * base) * m
    BY <1>2, Z3 DEF k
  <2>2. Q * base \in Nat
    BY <1>2, Z3
  <2> DEFINE y == Q * base
  <2>3. y \in Nat /\ w = y * m + (r * m + s)
    BY <1>2, <1>4, <2>1, <2>2
  <2> HIDE DEF y
  <2>4. y * m + (r * m + s) = (y + r) * m + s
    BY <1>4, <2>3, Z3
  <2>5. QED
    BY <2>3, <2>4 DEF y
<1> DEFINE q == Q * base + r
<1>6. q \in Nat /\ r \in 0 .. base - 1
  BY <1>2, <1>4, Z3
<1>7. q % base = r
  BY <1>2, <1>6, QuotientIs
<1>8. w \div m = q /\ w % m = s
  <2> HIDE DEF q
  <2>1. (q * m + s) \div m = q /\ (q * m + s) % m = s
    BY <1>4, <1>6, QuotientIs
  <2>2. w = q * m + s
    BY <1>5 DEF q
  <2>3. QED
    BY <2>1, <2>2
<1> HIDE DEF q
<1>9. QED
  BY <1>6, <1>7, <1>8 DEF r, s, R, k

\* What is printed for a digit of a number, and of a negative one.
Shown(neg, d) == IF neg THEN IF d = 0 THEN 48 ELSE 55 - d ELSE Printer!Letter(d)
\* The number of a size.
Number(neg, w) == IF neg THEN -w ELSE w

LEMMA DigitShown ==
  ASSUME NEW neg \in BOOLEAN, NEW d \in 0 .. 15
  PROVE  /\ Printer!DigitChar(Number(neg, d) % 256) = Shown(neg, d)
         /\ Number(neg, d) % 256 > 0 <=> d > 0
         /\ Shown(neg, d) \in Int
<1>1. CASE ~ neg
  <2>1. Number(neg, d) = d /\ Shown(neg, d) = Printer!Letter(d)
    BY <1>1 DEF Number, Shown
  <2>2. d % 256 = d
    OBVIOUS
  <2>3. Printer!DigitChar(d) = Printer!Letter(d)
    <3>1. d >= 10 => (65 + d - 10) % 256 = 55 + d
      OBVIOUS
    <3>2. QED
      BY <3>1 DEF Printer!DigitChar, Printer!Letter, Printer!Char
  <2>4. Printer!Letter(d) \in Int
    BY DEF Printer!Letter
  <2>5. QED
    BY <2>1, <2>2, <2>3, <2>4
<1>2. CASE neg
  <2>1. Number(neg, d) = -d /\ Shown(neg, d) = IF d = 0 THEN 48 ELSE 55 - d
    BY <1>2 DEF Number, Shown
  <2>2. CASE d = 0
    <3>1. (-d) % 256 = 0
      BY <2>2
    <3>2. QED
      BY <2>1, <2>2, <3>1 DEF Printer!DigitChar, Printer!Char
  <2>3. CASE d # 0
    <3>1. (-d) % 256 = 256 - d
      BY <2>3
    <3>2. (65 + (256 - d) - 10) % 256 = 55 - d
      BY <2>3
    <3>3. QED
      BY <2>1, <2>3, <3>1, <3>2 DEF Printer!DigitChar, Printer!Char
  <2>4. QED
    BY <2>2, <2>3
<1>3. QED
  BY <1>1, <1>2

\* One turn: the digit, and the rest, of a number and its negative alike.
LEMMA TurnOf ==
  ASSUME NEW neg \in BOOLEAN, NEW w \in Nat, NEW m \in Nat \ {0}
  PROVE  /\ Printer!Quotient(Number(neg, w), m) = Number(neg, w \div m)
         /\ Printer!Remainder(Number(neg, w), m) = Number(neg, w % m)
<1> DEFINE x == Number(neg, w)
           d == w \div m
           r == w % m
<1>1. d \in Nat /\ r \in Nat /\ w = d * m + r
  <2>1. d \in Nat /\ r \in 0 .. m - 1 /\ w = d * m + r
    BY DivisionWithRest
  <2> HIDE DEF d, r
  <2>2. QED
    BY <2>1
<1>2. d * m = m * d /\ d * m \in Nat /\ m * (-d) = -(m * d)
  <2> HIDE DEF d
  <2>1. QED
    BY <1>1, Z3
<1>3. CASE neg /\ w # 0
  <2>1. x = -w /\ x < 0 /\ -x = w
    BY <1>3 DEF Number
  <2>2. Printer!Quotient(x, m) = -d
    <3>1. Printer!Quotient(x, m) = -((-x) \div m)
      BY <2>1, Zenon DEF Printer!Quotient
    <3>2. QED
      BY <2>1, <3>1
  <2>3. Printer!Remainder(x, m) = x - m * (-d)
    BY <2>2 DEF Printer!Remainder
  <2> HIDE DEF x, d, r
  <2> DEFINE y == m * d
  <2>4. y \in Nat /\ w = y + r /\ Printer!Remainder(x, m) = x - (-y)
    BY <1>1, <1>2, <2>3
  <2> HIDE DEF y
  <2>5. Printer!Remainder(x, m) = -r
    BY <1>1, <2>1, <2>4
  <2>6. QED
    BY <1>3, <2>2, <2>5 DEF Number, x, d, r
<1>4. CASE ~ (neg /\ w # 0)
  <2>1. x = w /\ ~ (x < 0)
    BY <1>4 DEF Number
  <2>2. Printer!Quotient(x, m) = d
    <3>1. Printer!Quotient(x, m) = x \div m
      BY <2>1, Zenon DEF Printer!Quotient
    <3>2. QED
      BY <2>1, <3>1
  <2>3. Printer!Remainder(x, m) = x - m * d
    BY <2>2 DEF Printer!Remainder
  <2> HIDE DEF x
  <2>4. Printer!Remainder(x, m) = r
    <3> HIDE DEF d, r
    <3> DEFINE y == m * d
    <3>1. y \in Nat /\ w = y + r /\ Printer!Remainder(x, m) = x - y
      BY <1>1, <1>2, <2>3
    <3> HIDE DEF y
    <3>2. QED
      BY <1>1, <2>1, <3>1
  <2>5. Number(neg, d) = d /\ Number(neg, r) = r
    <3>1. CASE neg
      <4>1. d = 0 /\ r = 0
        <5>1. w = 0 /\ w \in 0 .. m - 1
          BY <1>4, <3>1
        <5>2. QED
          BY <5>1, RemainderOfLess
      <4>2. QED
        BY <3>1, <4>1 DEF Number
    <3>2. CASE ~ neg
      BY <3>2 DEF Number
    <3>3. QED
      BY <3>1, <3>2
  <2>6. QED
    BY <2>2, <2>4, <2>5 DEF x
<1>5. QED
  BY <1>3, <1>4

LEMMA AppendNext ==
  ASSUME NEW S, NEW k \in Nat, NEW g, \A j \in 1 .. k + 1 : g[j] \in S
  PROVE  Append([j \in 1 .. k |-> g[j]], g[k + 1]) = [j \in 1 .. k + 1 |-> g[j]]
<1> DEFINE s == [j \in 1 .. k |-> g[j]]
           t == [j \in 1 .. k + 1 |-> g[j]]
<1>1. s \in Seq(S) /\ Len(s) = k
  OBVIOUS
<1>2. t \in Seq(S) /\ Len(t) = k + 1
  OBVIOUS
<1>3. \A j \in 1 .. k : s[j] = g[j] /\ t[j] = g[j]
  OBVIOUS
<1>4. t[k + 1] = g[k + 1] /\ g[k + 1] \in S
  OBVIOUS
<1> HIDE DEF s, t
<1>5. Append(s, g[k + 1]) = t
  <2> DEFINE u == Append(s, g[k + 1])
  <2>1. u \in Seq(S) /\ Len(u) = k + 1 /\ u[k + 1] = g[k + 1] /\ \A j \in 1 .. k : u[j] = s[j]
    BY <1>1, <1>4, AppendProperties
  <2> HIDE DEF u
  <2>2. \A j \in 1 .. k + 1 : u[j] = t[j]
    BY <1>3, <1>4, <2>1
  <2>3. u = t
    BY <1>2, <2>1, <2>2, SeqEqual
  <2>4. QED
    BY <2>3 DEF u
<1>6. QED
  BY <1>5 DEF s, t

\* The digits of w, n of them, the highest first.
Digit(e, w, base, p) == (w \div p[e]) % base
ShownDigits(neg, w, base, p, n) == [j \in 1 .. n |-> Shown(neg, Digit(n - j, w, base, p))]
\* The loop when the powers from exponent e on are done.
Put(e, n) == IF e < n THEN n - e ELSE 0
After(e, neg, w, base, p, n) ==
  [value |-> Number(neg, w % p[e]),
   out |-> [j \in 1 .. Put(e, n) |-> ShownDigits(neg, w, base, p, n)[j]],
   started |-> e < n]

\* A number with n digits: the powers, a number, its sign.
Writes(base, p, w, n) ==
  /\ base \in 2 .. 16 /\ ArePowers(p, base)
  /\ w \in Nat \ {0} /\ Width(n, w, p)

LEMMA DigitIs ==
  ASSUME Printer!KprintfAssumption, NEW base, NEW p, NEW w, NEW n, Writes(base, p, w, n),
         NEW e \in 0 .. LongBits
  PROVE  /\ Digit(e, w, base, p) \in 0 .. base - 1
         /\ e >= n => Digit(e, w, base, p) = 0
         /\ e = n - 1 => Digit(e, w, base, p) > 0
         /\ (w % p[e + 1]) \div p[e] = Digit(e, w, base, p)
         /\ (w % p[e + 1]) % p[e] = w % p[e]
<1> DEFINE m == p[e]
<1>1. base \in Nat /\ base >= 2 /\ base <= 16 /\ base \in Nat \ {0} /\ ArePowers(p, base)
      /\ w \in Nat /\ w > 0 /\ n \in 1 .. LongBits /\ w < p[n] /\ (n = 1 \/ w >= p[n - 1])
      /\ LongBits \in Nat
  BY Sizes DEF Writes, Width
<1>2. m \in Nat \ {0} /\ p[e + 1] = base * m
  <2>1. e \in 0 .. LongBits + 1 /\ e + 1 \in 1 .. LongBits + 1 /\ (e + 1) - 1 = e
    BY <1>1
  <2>2. QED
    BY <1>1, <2>1 DEF ArePowers
<1>3. /\ (w % (base * m)) \div m = (w \div m) % base
      /\ (w % (base * m)) % m = w % m
      /\ (w \div m) % base \in 0 .. base - 1
  <2> HIDE DEF m
  <2>1. QED
    BY <1>1, <1>2, NextDigit
<1>4. ASSUME e >= n PROVE (w \div m) % base = 0
  <2>1. n \in 0 .. e /\ e \in 0 .. LongBits + 1 /\ n \in 0 .. LongBits + 1
    BY <1>1, <1>4
  <2>2. p[n] <= p[e] /\ p[n] \in Nat
    <3>1. p[n] <= p[e]
      BY <1>1, <2>1, PowersGrow
    <3>2. p[n] \in Nat
      BY <1>1, <2>1 DEF ArePowers
    <3>3. QED
      BY <3>1, <3>2
  <2>3. w \in 0 .. m - 1
    BY <1>1, <1>2, <2>2
  <2> HIDE DEF m
  <2>4. w \div m = 0
    BY <1>2, <2>3, RemainderOfLess
  <2>5. 0 \in 0 .. base - 1
    BY <1>1
  <2>6. QED
    BY <1>1, <2>4, <2>5, RemainderOfLess
<1>5. ASSUME e = n - 1 PROVE (w \div m) % base > 0
  <2>1. w < base * m /\ w >= m
    <3>1. n = e + 1
      BY <1>1, <1>5
    <3>2. w < base * m
      BY <1>1, <1>2, <3>1
    <3>3. w >= m
      <4>1. CASE n = 1
        <5>1. e = 0 /\ m = 1
          BY <1>1, <1>5, <4>1 DEF ArePowers
        <5>2. QED
          BY <1>1, <5>1
      <4>2. CASE n # 1
        BY <1>1, <1>5, <4>2
      <4>3. QED
        BY <4>1, <4>2
    <3>4. QED
      BY <3>2, <3>3
  <2> HIDE DEF m
  <2> DEFINE d == w \div m
  <2>2. d \in Nat /\ d < base
    BY <1>1, <1>2, <2>1, Quotient, QuotientBelow
  <2>3. ~ (d < 1)
    <3>1. ~ (w < 1 * m)
      BY <1>1, <1>2, <2>1
    <3>2. 1 \in Nat
      OBVIOUS
    <3>3. QED
      BY <1>1, <1>2, <3>1, <3>2, QuotientBelow
  <2> HIDE DEF d
  <2>4. d \in 0 .. base - 1 /\ d > 0
    BY <1>1, <2>2, <2>3
  <2>5. d % base = d
    BY <1>1, <2>4, RemainderOfLess
  <2>6. QED
    BY <2>4, <2>5 DEF d
<1> HIDE DEF m
<1>6. Digit(e, w, base, p) = (w \div m) % base
  BY Zenon DEF Digit, m
<1>7. QED
  <2>1. (w % p[e + 1]) \div m = (w \div m) % base /\ (w % p[e + 1]) % m = w % m
    BY <1>2, <1>3
  <2>2. QED
    BY <1>3, <1>4, <1>5, <1>6, <2>1, Zenon DEF m

LEMMA ShownDigitsAre ==
  ASSUME Printer!KprintfAssumption, NEW base, NEW p, NEW w, NEW n, Writes(base, p, w, n),
         NEW neg \in BOOLEAN
  PROVE  \A j \in 1 .. n : /\ ShownDigits(neg, w, base, p, n)[j] = Shown(neg, Digit(n - j, w, base, p))
                           /\ ShownDigits(neg, w, base, p, n)[j] \in Int
<1>1. base \in 2 .. 16 /\ n \in 1 .. LongBits /\ LongBits \in Nat
  BY Sizes DEF Writes, Width
<1> SUFFICES ASSUME NEW j \in 1 .. n
             PROVE /\ ShownDigits(neg, w, base, p, n)[j] = Shown(neg, Digit(n - j, w, base, p))
                   /\ ShownDigits(neg, w, base, p, n)[j] \in Int
  OBVIOUS
<1> DEFINE d == Digit(n - j, w, base, p)
<1>2. ShownDigits(neg, w, base, p, n)[j] = Shown(neg, d)
  BY DEF ShownDigits
<1>3. d \in 0 .. 15
  <2>1. n - j \in 0 .. LongBits
    BY <1>1
  <2>2. d \in 0 .. base - 1
    BY <2>1, DigitIs
  <2> HIDE DEF d
  <2>3. QED
    BY <1>1, <2>2
<1> HIDE DEF d
<1>4. Shown(neg, d) \in Int
  BY <1>3, DigitShown
<1>5. QED
  BY <1>2, <1>4 DEF d

\* One turn of the loop, from one power to the next.
LEMMA TurnAfter ==
  ASSUME Printer!KprintfAssumption, NEW base, NEW p, NEW w, NEW n, Writes(base, p, w, n),
         NEW neg \in BOOLEAN, NEW e \in 0 .. LongBits
  PROVE  Printer!PutDigit(After(e + 1, neg, w, base, p, n), p[e]) = After(e, neg, w, base, p, n)
<1> DEFINE s == After(e + 1, neg, w, base, p, n)
           g == ShownDigits(neg, w, base, p, n)
           d == Digit(e, w, base, p)
           v == w % p[e + 1]
           m == p[e]
           byte == Printer!Quotient(s.value, m) % 256
           put == s.started \/ byte > 0
<1>1. base \in 2 .. 16 /\ ArePowers(p, base) /\ n \in 1 .. LongBits /\ w \in Nat /\ LongBits \in Nat
      /\ base \in Nat
  BY Sizes DEF Writes, Width
<1>2. m \in Nat \ {0} /\ p[e + 1] \in Nat \ {0}
  <2>1. e \in 0 .. LongBits + 1 /\ e + 1 \in 0 .. LongBits + 1
    BY <1>1
  <2>2. QED
    BY <1>1, <2>1 DEF ArePowers
<1>3. /\ d \in 0 .. base - 1 /\ (e >= n => d = 0) /\ (e = n - 1 => d > 0)
      /\ v \div m = d /\ v % m = w % m
  BY DigitIs
<1>4. v \in Nat
  <2> DEFINE k == p[e + 1]
  <2>1. k \in Nat \ {0}
    BY <1>2
  <2> HIDE DEF k
  <2>2. w % k \in 0 .. k - 1
    BY <1>1, <2>1, DivisionWithRest
  <2>3. QED
    BY <2>2 DEF k
<1>5. /\ s.value = Number(neg, v) /\ s.started = (e + 1 < n)
      /\ s.out = [j \in 1 .. Put(e + 1, n) |-> g[j]]
  BY DEF After
<1> HIDE DEF d, v, m, s, g
<1>6. Printer!Quotient(s.value, m) = Number(neg, d) /\ Printer!Remainder(s.value, m) = Number(neg, w % m)
  <2>1. Printer!Quotient(Number(neg, v), m) = Number(neg, v \div m)
        /\ Printer!Remainder(Number(neg, v), m) = Number(neg, v % m)
    BY <1>2, <1>4, TurnOf
  <2>2. QED
    BY <1>3, <1>5, <2>1
<1>7. d \in 0 .. 15
  BY <1>1, <1>3
<1>8. byte = Number(neg, d) % 256
  BY <1>6
<1>9. Printer!DigitChar(byte) = Shown(neg, d) /\ (byte > 0 <=> d > 0) /\ Shown(neg, d) \in Int
  <2> HIDE DEF byte
  <2>1. /\ Printer!DigitChar(Number(neg, d) % 256) = Shown(neg, d)
        /\ Number(neg, d) % 256 > 0 <=> d > 0
        /\ Shown(neg, d) \in Int
    BY <1>7, DigitShown
  <2>2. QED
    BY <1>8, <2>1, Zenon
<1> HIDE DEF byte
<1>10. put <=> e < n
  <2>1. CASE e + 1 < n
    <3>1. e < n
      BY <1>1, <2>1
    <3>2. s.started
      BY <1>5, <2>1, Zenon
    <3>3. QED
      BY <3>1, <3>2, Zenon
  <2>2. CASE e = n - 1
    <3>1. e < n
      BY <1>1, <2>2
    <3>2. QED
      BY <1>3, <1>9, <2>2, <3>1
  <2>3. CASE e >= n
    <3>1. ~ (e < n) /\ ~ (e + 1 < n) /\ ~ (d > 0)
      BY <1>1, <1>3, <2>3
    <3>2. QED
      BY <1>5, <1>9, <3>1
  <2>4. QED
    BY <1>1, <2>1, <2>2, <2>3
<1>11. Printer!PutDigit(s, m)
         = [value |-> Printer!Remainder(s.value, m),
            out |-> IF put THEN Append(s.out, Printer!DigitChar(byte)) ELSE s.out,
            started |-> put]
  BY Zenon DEF Printer!PutDigit, byte
<1>12. (IF put THEN Append(s.out, Printer!DigitChar(byte)) ELSE s.out)
         = [j \in 1 .. Put(e, n) |-> g[j]]
  <2>1. CASE e < n
    <3> DEFINE k == Put(e + 1, n)
    <3>1. k \in Nat /\ Put(e, n) = k + 1 /\ k + 1 \in 1 .. n /\ n - (k + 1) = e
      BY <1>1, <2>1 DEF Put
    <3>2. \A j \in 1 .. n : g[j] = Shown(neg, Digit(n - j, w, base, p)) /\ g[j] \in Int
      BY ShownDigitsAre DEF g
    <3>3. g[k + 1] = Shown(neg, d)
      <4> HIDE DEF k
      <4>1. g[k + 1] = Shown(neg, Digit(n - (k + 1), w, base, p))
        BY <3>1, <3>2
      <4>2. QED
        BY <3>1, <4>1 DEF d
    <3> HIDE DEF k
    <3>4. \A j \in 1 .. k + 1 : g[j] \in Int
      BY <1>1, <3>1, <3>2
    <3>5. Append([j \in 1 .. k |-> g[j]], g[k + 1]) = [j \in 1 .. k + 1 |-> g[j]]
      BY <3>1, <3>4, AppendNext
    <3>6. s.out = [j \in 1 .. k |-> g[j]]
      BY <1>5 DEF k
    <3>7. Append(s.out, Printer!DigitChar(byte)) = [j \in 1 .. k + 1 |-> g[j]]
      BY <1>9, <3>3, <3>5, <3>6
    <3> HIDE DEF put
    <3>8. QED
      BY <1>10, <2>1, <3>1, <3>7
  <2>2. CASE ~ (e < n)
    <3>1. Put(e + 1, n) = Put(e, n)
      BY <1>1, <2>2 DEF Put
    <3> HIDE DEF put
    <3>2. QED
      BY <1>5, <1>10, <2>2, <3>1
  <2>3. QED
    BY <2>1, <2>2
<1>13. After(e, neg, w, base, p, n)
         = [value |-> Number(neg, w % m), out |-> [j \in 1 .. Put(e, n) |-> g[j]], started |-> e < n]
  BY Zenon DEF After, m, g
<1>14. put = (e < n)
  BY <1>10
<1> HIDE DEF put
<1>15. Printer!PutDigit(s, m) = After(e, neg, w, base, p, n)
  BY <1>6, <1>11, <1>12, <1>13, <1>14
<1>16. QED
  BY <1>15 DEF s, m

LEMMA Start ==
  ASSUME Printer!KprintfAssumption, NEW base, NEW p, NEW w, NEW n, Writes(base, p, w, n),
         NEW neg \in BOOLEAN, NEW last \in 0 .. LongBits, w < p[last + 1]
  PROVE  After(last + 1, neg, w, base, p, n)
           = [value |-> Number(neg, w), out |-> <<>>, started |-> FALSE]
<1> DEFINE m == p[last + 1]
<1>1. base \in Nat /\ base >= 2 /\ ArePowers(p, base) /\ w \in Nat /\ LongBits \in Nat
      /\ Width(n, w, p) /\ n \in 1 .. LongBits
  BY Sizes DEF Writes, Width
<1>2. last + 1 \in 1 .. LongBits + 1 /\ last + 1 \in 0 .. LongBits + 1
  BY <1>1
<1>3. n <= last + 1
  BY <1>1, <1>2, WidthUnique
<1>4. m \in Nat \ {0}
  BY <1>1, <1>2 DEF ArePowers
<1>5. w % m = w
  <2>1. w \in 0 .. m - 1
    BY <1>1, <1>4
  <2> HIDE DEF m
  <2>2. QED
    BY <1>4, <2>1, RemainderOfLess
<1>6. Put(last + 1, n) = 0 /\ ~ (last + 1 < n)
  BY <1>1, <1>2, <1>3 DEF Put
<1>7. [j \in 1 .. 0 |-> ShownDigits(neg, w, base, p, n)[j]] = <<>>
  OBVIOUS
<1> HIDE DEF m
<1>8. After(last + 1, neg, w, base, p, n)
        = [value |-> Number(neg, w % m),
           out |-> [j \in 1 .. Put(last + 1, n) |-> ShownDigits(neg, w, base, p, n)[j]],
           started |-> last + 1 < n]
  BY Zenon DEF After, m
<1>9. (last + 1 < n) = FALSE
  BY <1>6
<1>10. QED
  BY <1>5, <1>6, <1>7, <1>8, <1>9

LEMMA DigitsAre ==
  ASSUME Printer!KprintfAssumption, NEW base, NEW p, p = Printer!Powers(base),
         NEW w, NEW n, Writes(base, p, w, n),
         NEW neg \in BOOLEAN, NEW last \in 0 .. LongBits, w < p[last + 1]
  PROVE  Printer!Digits(Number(neg, w), base, last) = ShownDigits(neg, w, base, p, n)
<1> DEFINE N == last + 1
           first == [value |-> Number(neg, w), out |-> <<>>, started |-> FALSE]
           P == Printer!Powers(base)
           IsTurn(f) == f = [k \in 0 .. last + 1 |->
                               IF k = 0 THEN first ELSE Printer!PutDigit(f[k - 1], P[last + 1 - k])]
           T == CHOOSE f : IsTurn(f)
           F == [k \in 0 .. last + 1 |-> After(last + 1 - k, neg, w, base, p, n)]
<1>1. n \in 1 .. LongBits /\ LongBits \in Nat /\ last \in Nat
  BY Sizes DEF Writes, Width
<1>2. Printer!Digits(Number(neg, w), base, last) = T[last + 1].out
  BY Zenon DEF Printer!Digits
<1>3. After(last + 1, neg, w, base, p, n) = first
  BY Start
<1>4. ASSUME NEW k \in 1 .. last + 1
      PROVE  Printer!PutDigit(After(last + 1 - (k - 1), neg, w, base, p, n), P[last + 1 - k])
               = After(last + 1 - k, neg, w, base, p, n)
  <2> DEFINE e == last + 1 - k
  <2>1. e \in 0 .. LongBits /\ last + 1 - (k - 1) = e + 1
    BY <1>1
  <2> HIDE DEF e
  <2>2. Printer!PutDigit(After(e + 1, neg, w, base, p, n), p[e]) = After(e, neg, w, base, p, n)
    BY <2>1, TurnAfter
  <2>3. QED
    BY <2>1, <2>2 DEF e
<1> HIDE DEF first, P
<1>5. F[0] = first /\ \A k \in 1 .. last + 1 : F[k] = Printer!PutDigit(F[k - 1], P[last + 1 - k])
  <2>1. F[0] = first
    <3>1. 0 \in 0 .. last + 1 /\ last + 1 - 0 = last + 1
      BY <1>1
    <3>2. QED
      BY <1>3, <3>1
  <2>2. ASSUME NEW k \in 1 .. last + 1 PROVE F[k] = Printer!PutDigit(F[k - 1], P[last + 1 - k])
    <3>1. k \in 0 .. last + 1 /\ k - 1 \in 0 .. last + 1
      BY <1>1
    <3>2. QED
      BY <1>4, <3>1
  <2>3. QED
    BY <2>1, <2>2
<1>6. IsTurn(F)
  <2>1. F = [k \in 0 .. last + 1 |-> F[k]]
    OBVIOUS
  <2> HIDE DEF F
  <2>2. \A k \in 0 .. last + 1 :
          F[k] = IF k = 0 THEN first ELSE Printer!PutDigit(F[k - 1], P[last + 1 - k])
    BY <1>1, <1>5
  <2>3. QED
    BY <2>1, <2>2
<1>7. IsTurn(T)
  <2> HIDE DEF IsTurn, F
  <2>1. QED
    BY <1>6
<1> HIDE DEF T, F
<1>8. \A k \in 0 .. last + 1 :
        T[k] = IF k = 0 THEN first ELSE Printer!PutDigit(T[k - 1], P[last + 1 - k])
  BY <1>7
<1>9. \A k \in 0 .. last + 1 : T[k] = F[k]
  <2> DEFINE S == {k \in 0 .. last + 1 : T[k] = F[k]}
  <2>1. 0 \in S
    BY <1>1, <1>5, <1>8
  <2>2. ASSUME NEW k \in 1 .. last + 1, k - 1 \in S PROVE k \in S
    <3>1. k \in 0 .. last + 1 /\ k # 0
      BY <1>1
    <3>2. T[k] = Printer!PutDigit(T[k - 1], P[last + 1 - k])
      BY <1>8, <3>1
    <3>3. QED
      BY <1>5, <2>2, <3>1, <3>2
  <2>3. last + 1 \in Nat
    BY <1>1
  <2>4. \A k \in 0 .. last + 1 : k \in S
    <3> HIDE DEF S
    <3> DEFINE top == last + 1
    <3>1. top \in Nat /\ \A k \in 1 .. top : k - 1 \in S => k \in S
      BY <2>2, <2>3
    <3> HIDE DEF top
    <3>2. \A k \in 0 .. top : k \in S
      BY <2>1, <3>1, Climb
    <3>3. QED
      BY <3>2 DEF top
  <2>5. QED
    BY <2>4
<1>10. T[last + 1] = After(0, neg, w, base, p, n)
  <2>1. last + 1 \in 0 .. last + 1 /\ last + 1 - (last + 1) = 0
    BY <1>1
  <2>2. F[last + 1] = After(0, neg, w, base, p, n)
    BY <2>1 DEF F
  <2>3. QED
    BY <1>9, <2>1, <2>2
<1>11. After(0, neg, w, base, p, n).out = [j \in 1 .. Put(0, n) |-> ShownDigits(neg, w, base, p, n)[j]]
  BY DEF After
<1>12. Put(0, n) = n
  BY <1>1 DEF Put
<1>13. [j \in 1 .. n |-> ShownDigits(neg, w, base, p, n)[j]] = ShownDigits(neg, w, base, p, n)
  BY DEF ShownDigits
<1>14. QED
  BY <1>2, <1>10, <1>11, <1>12, <1>13

\* A number below the top of its type has as many digits as the loop turns.
LEMMA Fits ==
  ASSUME Printer!KprintfAssumption, NEW base \in 2 .. 16,
         NEW p, p = Printer!Powers(base), NEW q, q = Printer!Powers(2),
         NEW b \in 2 .. LongBits, NEW signed \in BOOLEAN, NEW t, t = TopExponent(signed, b),
         NEW last, last = Printer!LargestPower(base, Printer!Type(signed, b)),
         NEW w \in Nat, w <= q[t], w = q[t] => base = 10 /\ signed
  PROVE  /\ ArePowers(p, base)
         /\ last \in 0 .. LongBits /\ w < p[last + 1]
         /\ \E n \in 1 .. LongBits : Width(n, w, p)
<1>1. base \in Nat /\ base >= 2 /\ base \in Nat \ {0} /\ LongBits \in Nat
  BY Sizes
<1>2. ArePowers(p, base) /\ ArePowers(q, 2)
  BY <1>1, PowersAre
<1>3. t \in 1 .. LongBits
  <2>1. 0 \in Int
    OBVIOUS
  <2>2. QED
    BY <2>1, AsIs
<1>4. last \in 1 .. LongBits /\ p[last + 1] >= q[t]
  BY <1>1, LastPower
<1>5. last + 1 \in 0 .. LongBits + 1 /\ last + 1 \in 1 .. LongBits + 1 /\ t \in 0 .. LongBits + 1
      /\ LongBits \in 0 .. LongBits + 1 /\ LongBits \in 1 .. LongBits + 1
  BY <1>1, <1>3, <1>4
<1>6. p[last + 1] \in Nat /\ q[t] \in Nat /\ p[LongBits] \in Nat /\ q[LongBits] \in Nat
  BY <1>2, <1>5 DEF ArePowers
<1>7. ASSUME w = q[t], NEW k \in 1 .. LongBits + 1 PROVE w # p[k]
  <2>1. base = 10
    BY <1>7
  <2>2. ArePowers(p, 10)
    BY <1>2, <2>1
  <2>3. p[k] # q[t]
    BY <1>2, <1>5, <2>2, TwoAndTenDiffer
  <2>4. QED
    BY <1>7, <2>3
<1>8. w < p[last + 1]
  <2>1. w = q[t] => w # p[last + 1]
    BY <1>5, <1>7
  <2>2. QED
    BY <1>4, <1>6, <2>1
<1>9. w < p[LongBits]
  <2>1. q[t] <= q[LongBits]
    <3>1. t \in 0 .. LongBits
      BY <1>3
    <3>2. QED
      BY <1>2, <1>5, <3>1, PowersGrow
  <2>2. q[LongBits] <= p[LongBits]
    BY <1>1, <1>2, <1>5, PowersExceed
  <2>3. w = q[t] => w # p[LongBits]
    BY <1>5, <1>7
  <2>4. QED
    BY <1>6, <2>1, <2>2, <2>3
<1>10. PICK n \in Nat : Width(n, w, p)
  BY <1>1, <1>2, <1>9, WidthExists
<1>11. QED
  BY <1>2, <1>4, <1>8, <1>10 DEF Width

\* A number that is not negative prints as its numeral.
LEMMA PutNatural ==
  ASSUME Printer!KprintfAssumption, NEW base \in 2 .. 16,
         NEW q, q = Printer!Powers(2),
         NEW b \in 2 .. LongBits, NEW signed \in BOOLEAN, NEW t, t = TopExponent(signed, b),
         NEW w \in Nat, w < q[t], q[t] \in Nat
  PROVE  Printer!PutNumber(w, base, Printer!Type(signed, b)) = Printer!Numeral(w, base)
<1>1. PICK p : p = Printer!Powers(base)
  OBVIOUS
<1>2. PICK last : last = Printer!LargestPower(base, Printer!Type(signed, b))
  OBVIOUS
<1>3. base \in Nat /\ base >= 2 /\ base \in Nat \ {0}
  OBVIOUS
<1>4. PICK n \in 1 .. LongBits : /\ ArePowers(p, base) /\ last \in 0 .. LongBits
                                 /\ w < p[last + 1] /\ Width(n, w, p)
  <2>1. w <= q[t] /\ (w = q[t] => base = 10 /\ signed)
    OBVIOUS
  <2>2. QED
    BY <1>1, <1>2, <2>1, Fits
<1>5. Printer!Numeral(w, base) = [i \in 1 .. n |-> Printer!Letter((w \div p[n - i]) % base)]
  BY <1>3, <1>4, <1>1, NumeralIs
<1>6. Printer!PutNumber(w, base, Printer!Type(signed, b))
        = IF w \in 0 .. base - 1 THEN <<Printer!DigitChar(w)>>
          ELSE (IF w < 0 THEN <<Printer!Char.minus>> ELSE <<>>) \o Printer!Digits(w, base, last)
  BY <1>2, Zenon DEF Printer!PutNumber
<1>7. CASE w \in 0 .. base - 1
  <2>1. p[0] = 1 /\ p[1] = base
    <3>1. 1 \in 1 .. LongBits + 1
      BY Sizes
    <3>2. p[0] = 1 /\ p[1] = base * p[1 - 1]
      BY <1>4, <3>1 DEF ArePowers
    <3>3. QED
      BY <3>2
  <2>2. n = 1
    <3>1. 1 \in 1 .. LongBits + 1 /\ w < p[1]
      <4>1. QED
        BY <1>7, <2>1, Sizes
    <3>2. QED
      BY <1>3, <1>4, <3>1, WidthUnique
  <2>3. (w \div p[n - 1]) % base = w
    <3>1. w \div 1 = w
      OBVIOUS
    <3>2. w % base = w
      BY <1>3, <1>7, RemainderOfLess
    <3>3. n - 1 = 0
      BY <2>2
    <3>4. QED
      BY <2>1, <3>1, <3>2, <3>3
  <2>4. Printer!DigitChar(w) = Printer!Letter(w)
    <3>1. w \in 0 .. 15 /\ FALSE \in BOOLEAN
      BY <1>7
    <3>2. Number(FALSE, w) = w /\ Shown(FALSE, w) = Printer!Letter(w)
      BY DEF Number, Shown
    <3>3. w % 256 = w
      BY <3>1
    <3>4. Printer!DigitChar(Number(FALSE, w) % 256) = Shown(FALSE, w)
      BY <3>1, DigitShown
    <3>5. QED
      BY <3>2, <3>3, <3>4, Zenon
  <2>5. Printer!Numeral(w, base) = <<Printer!Letter(w)>>
    BY <1>5, <2>2, <2>3
  <2>6. QED
    BY <1>6, <1>7, <2>4, <2>5
<1>8. CASE w \notin 0 .. base - 1
  <2>1. w \in Nat \ {0} /\ ~ (w < 0)
    BY <1>8
  <2>2. Writes(base, p, w, n)
    BY <1>4, <2>1 DEF Writes
  <2>3. Printer!Digits(Number(FALSE, w), base, last) = ShownDigits(FALSE, w, base, p, n)
    <3>1. PICK neg \in BOOLEAN : neg = FALSE
      OBVIOUS
    <3>2. Printer!Digits(Number(neg, w), base, last) = ShownDigits(neg, w, base, p, n)
      BY <1>1, <1>4, <2>2, DigitsAre
    <3>3. QED
      BY <3>1, <3>2
  <2>4. Number(FALSE, w) = w
    BY DEF Number
  <2>5. ShownDigits(FALSE, w, base, p, n) = Printer!Numeral(w, base)
    <3>1. ShownDigits(FALSE, w, base, p, n)
            = [j \in 1 .. n |-> Printer!Letter((w \div p[n - j]) % base)]
      BY DEF ShownDigits, Shown, Digit
    <3>2. QED
      BY <1>5, <3>1
  <2> DEFINE s == ShownDigits(FALSE, w, base, p, n)
  <2>6. s \in Seq(Int)
    <3>1. \A j \in 1 .. n : s[j] \in Int
      BY <2>2, ShownDigitsAre
    <3>2. s = [j \in 1 .. n |-> s[j]] /\ n \in Nat
      <4>1. n \in Nat
        BY Sizes
      <4>2. QED
        BY <4>1 DEF ShownDigits
    <3> HIDE DEF s
    <3>3. [j \in 1 .. n |-> s[j]] \in Seq(Int)
      BY <3>1, <3>2
    <3>4. QED
      BY <3>2, <3>3
  <2> HIDE DEF s
  <2>7. Printer!PutNumber(w, base, Printer!Type(signed, b)) = <<>> \o s
    BY <1>6, <1>8, <2>1, <2>3, <2>4 DEF s
  <2>8. <<>> \o s = s
    BY <2>6
  <2>9. QED
    BY <2>5, <2>7, <2>8 DEF s
<1>9. QED
  BY <1>7, <1>8

\* What a negative number prints: a minus, and each digit d, but 0, as the
\* character 55 - d.
Negative(v) ==
  LET digits == Printer!Numeral(-v, 10)
  IN <<45>> \o [i \in DOMAIN digits |->
                  IF digits[i] = 48 THEN 48 ELSE 55 - (digits[i] - 48)]

\* A negative number prints, in decimal, a minus and the digits that Negative
\* gives.
LEMMA PutNegative ==
  ASSUME Printer!KprintfAssumption,
         NEW q, q = Printer!Powers(2),
         NEW b \in 2 .. LongBits, NEW t, t = TopExponent(TRUE, b),
         NEW w \in Nat \ {0}, w <= q[t], q[t] \in Nat
  PROVE  Printer!PutNumber(-w, 10, Printer!Type(TRUE, b)) = Negative(-w)
<1>1. PICK p : p = Printer!Powers(10)
  OBVIOUS
<1>2. PICK last : last = Printer!LargestPower(10, Printer!Type(TRUE, b))
  OBVIOUS
<1>3. PICK neg \in BOOLEAN : neg = TRUE
  OBVIOUS
<1>4. PICK n \in 1 .. LongBits : /\ ArePowers(p, 10) /\ last \in 0 .. LongBits
                                 /\ w < p[last + 1] /\ Width(n, w, p)
  <2>1. PICK base \in 2 .. 16 : base = 10
    OBVIOUS
  <2>2. w \in Nat /\ (w = q[t] => base = 10 /\ neg)
    BY <1>3, <2>1
  <2>3. /\ t = TopExponent(neg, b) /\ last = Printer!LargestPower(base, Printer!Type(neg, b))
        /\ p = Printer!Powers(base)
    BY <1>1, <1>2, <1>3, <2>1
  <2>4. /\ ArePowers(p, base) /\ last \in 0 .. LongBits /\ w < p[last + 1]
        /\ \E n \in 1 .. LongBits : Width(n, w, p)
    BY <2>2, <2>3, Fits
  <2>5. QED
    BY <2>1, <2>4
<1>5. Writes(10, p, w, n)
  BY <1>4 DEF Writes
<1> DEFINE s == ShownDigits(neg, w, 10, p, n)
           digits == Printer!Numeral(w, 10)
<1>6. Printer!Digits(-w, 10, last) = s
  <2>1. Printer!Digits(Number(neg, w), 10, last) = ShownDigits(neg, w, 10, p, n)
    BY <1>1, <1>4, <1>5, DigitsAre
  <2>2. Number(neg, w) = -w
    BY <1>3 DEF Number
  <2>3. QED
    BY <2>1, <2>2
<1>7. Printer!PutNumber(-w, 10, Printer!Type(TRUE, b)) = <<45>> \o s
  <2>1. Printer!PutNumber(-w, 10, Printer!Type(TRUE, b))
          = IF -w \in 0 .. 10 - 1 THEN <<Printer!DigitChar(-w)>>
            ELSE (IF -w < 0 THEN <<Printer!Char.minus>> ELSE <<>>)
                   \o Printer!Digits(-w, 10, last)
    BY <1>2, Zenon DEF Printer!PutNumber
  <2>2. -w \notin 0 .. 10 - 1 /\ -w < 0
    OBVIOUS
  <2>3. Printer!Char.minus = 45
    BY DEF Printer!Char
  <2> HIDE DEF s
  <2>4. QED
    BY <1>6, <2>1, <2>2, <2>3
<1>8. digits = [i \in 1 .. n |-> Printer!Letter(Digit(n - i, w, 10, p))]
  <2>1. PICK base \in Nat : base = 10
    OBVIOUS
  <2>2. base >= 2 /\ p = Printer!Powers(base) /\ w \in Nat
    BY <1>1, <2>1
  <2>3. Printer!Numeral(w, base) = [i \in 1 .. n |-> Printer!Letter((w \div p[n - i]) % base)]
    BY <1>4, <2>2, NumeralIs
  <2>4. QED
    BY <2>1, <2>3 DEF Digit
<1>9. -(-w) = w
  OBVIOUS
<1>10. Negative(-w)
         = <<45>> \o [i \in DOMAIN digits |-> IF digits[i] = 48 THEN 48 ELSE 55 - (digits[i] - 48)]
  <2>1. PICK v : v = -w
    OBVIOUS
  <2>2. Negative(v)
          = <<45>> \o [i \in DOMAIN Printer!Numeral(-v, 10) |->
                         IF Printer!Numeral(-v, 10)[i] = 48 THEN 48
                         ELSE 55 - (Printer!Numeral(-v, 10)[i] - 48)]
    BY Zenon DEF Negative
  <2>3. Printer!Numeral(-v, 10) = digits
    BY <1>9, <2>1
  <2> HIDE DEF digits
  <2>4. QED
    BY <2>1, <2>2, <2>3
<1>11. ASSUME NEW i \in 1 .. n
       PROVE  (IF digits[i] = 48 THEN 48 ELSE 55 - (digits[i] - 48)) = s[i]
  <2> DEFINE d == Digit(n - i, w, 10, p)
  <2>1. d \in 0 .. 9
    <3>1. n - i \in 0 .. LongBits
      BY Sizes
    <3>2. d \in 0 .. 10 - 1
      BY <1>5, <3>1, DigitIs
    <3> HIDE DEF d
    <3>3. QED
      BY <3>2
  <2>2. digits[i] = Printer!Letter(d)
    <3> HIDE DEF digits
    <3>1. QED
      BY <1>8
  <2>3. s[i] = Shown(neg, d)
    BY DEF ShownDigits
  <2> HIDE DEF d, s, digits
  <2>4. digits[i] = 48 + d
    BY <2>1, <2>2 DEF Printer!Letter
  <2>5. s[i] = IF d = 0 THEN 48 ELSE 55 - d
    BY <1>3, <2>3 DEF Shown
  <2>6. QED
    BY <2>1, <2>4, <2>5
<1>12. DOMAIN digits = 1 .. n
  <2> HIDE DEF digits
  <2>1. QED
    BY <1>8
<1>13. s = [i \in 1 .. n |-> s[i]]
  BY DEF ShownDigits
<1> HIDE DEF s, digits
<1>14. [i \in DOMAIN digits |-> IF digits[i] = 48 THEN 48 ELSE 55 - (digits[i] - 48)] = s
  BY <1>11, <1>12, <1>13
<1>15. QED
  BY <1>7, <1>10, <1>14

-----------------------------------------------------------------------------
(* kprintf: each conversion prints what is expected of it.                 *)

LEMMA SignedPrinted ==
  ASSUME Printer!KprintfAssumption, NEW v \in Int, NEW b, b = Bits \/ b = LongBits
  PROVE  Printer!PutNumber(Printer!Signed(v, Bits), 10, Printer!Type(TRUE, b))
           = IF Printer!Signed(v, Bits) < 0 THEN Negative(Printer!Signed(v, Bits))
             ELSE Printer!Numeral(Printer!Signed(v, Bits), 10)
<1>1. PICK q : q = Printer!Powers(2)
  OBVIOUS
<1>2. PICK neg \in BOOLEAN : neg = TRUE
  OBVIOUS
<1>3. PICK t : t = TopExponent(TRUE, b)
  OBVIOUS
<1> DEFINE x == Printer!Signed(v, Bits)
<1>4. b \in 2 .. LongBits /\ Bits \in 1 .. LongBits /\ Bits \in Nat /\ LongBits \in Nat
      /\ t = b - 1 /\ Bits - 1 \in 0 .. t
      /\ t \in 0 .. LongBits + 1 /\ Bits - 1 \in 0 .. LongBits + 1
  BY <1>3, Sizes DEF TopExponent
<1>5. 2 \in Nat /\ 2 >= 2 /\ 2 \in Nat \ {0} /\ ArePowers(q, 2)
  BY <1>1, PowersAre
<1>6. q[Bits - 1] <= q[t] /\ q[t] \in Nat /\ q[Bits - 1] \in Nat
  <2>1. q[Bits - 1] <= q[t]
    BY <1>4, <1>5, PowersGrow
  <2>2. q[t] \in Nat /\ q[Bits - 1] \in Nat
    BY <1>4, <1>5 DEF ArePowers
  <2>3. QED
    BY <2>1, <2>2
<1>7. x \in -q[Bits - 1] .. q[Bits - 1] - 1
  BY <1>1, <1>4, SignedIs
<1> HIDE DEF x
<1>8. CASE x < 0
  <2>1. PICK w : w = -x
    OBVIOUS
  <2>2. w \in Nat \ {0} /\ w <= q[t] /\ -w = x
    BY <1>6, <1>7, <1>8, <2>1
  <2>3. Printer!PutNumber(-w, 10, Printer!Type(TRUE, b)) = Negative(-w)
    BY <1>1, <1>3, <1>4, <1>6, <2>2, PutNegative
  <2>4. QED
    BY <1>8, <2>2, <2>3 DEF x
<1>9. CASE ~ (x < 0)
  <2>1. PICK base \in 2 .. 16 : base = 10
    OBVIOUS
  <2>2. x \in Nat /\ x < q[t]
    BY <1>6, <1>7, <1>9
  <2>3. t = TopExponent(neg, b)
    BY <1>2, <1>3
  <2>4. Printer!PutNumber(x, base, Printer!Type(neg, b)) = Printer!Numeral(x, base)
    BY <1>1, <1>4, <1>6, <2>2, <2>3, PutNatural
  <2>5. QED
    BY <1>2, <1>9, <2>1, <2>4 DEF x
<1>10. QED
  BY <1>8, <1>9

LEMMA UnsignedPrinted ==
  ASSUME Printer!KprintfAssumption, NEW v \in Int, NEW b, b = Bits \/ b = LongBits,
         NEW base \in 2 .. 16
  PROVE  Printer!PutNumber(Printer!Unsigned(v, b), base, Printer!Type(FALSE, b))
           = Printer!Numeral(Printer!Unsigned(v, b), base)
<1>1. PICK q : q = Printer!Powers(2)
  OBVIOUS
<1>2. PICK neg \in BOOLEAN : neg = FALSE
  OBVIOUS
<1> DEFINE x == Printer!Unsigned(v, b)
<1>3. b \in 2 .. LongBits /\ b \in 1 .. LongBits /\ b = TopExponent(neg, b)
      /\ b \in 0 .. LongBits + 1
  BY <1>2, Sizes DEF TopExponent
<1>4. ArePowers(q, 2) /\ x \in 0 .. q[b] - 1
  BY <1>1, <1>3, UnsignedIs
<1>5. q[b] \in Nat
  BY <1>3, <1>4 DEF ArePowers
<1> HIDE DEF x
<1>6. x \in Nat /\ x < q[b]
  BY <1>4, <1>5
<1>7. Printer!PutNumber(x, base, Printer!Type(neg, b)) = Printer!Numeral(x, base)
  BY <1>1, <1>3, <1>5, <1>6, PutNatural
<1>8. QED
  BY <1>2, <1>7 DEF x

\* What a directive prints.
Prints(d) ==
  LET int == Printer!Signed(d.args[1], Bits)
  IN IF d.format[1] = 37 /\ d.format[Len(d.format)] = 100
     THEN IF int < 0 THEN Negative(int) ELSE Printer!Numeral(int, 10)
     ELSE Printer!Expected(d)

\* The letter of a directive prints it.
LEMMA ConvertedIs ==
  ASSUME Printer!KprintfAssumption, NEW d,
         d.format[1] = 37, NEW c, c = d.format[Len(d.format)],
         c \in Printer!Conversions, Head(format) = c,
         c # 115 => d.args[1] \in Int,
         longval \in BOOLEAN, longval = \E i \in DOMAIN d.format : d.format[i] = 76
  PROVE  Printer!Converted(d.args[1]) = Prints(d)
<1> DEFINE arg == d.args[1]
           long == \E i \in DOMAIN d.format : d.format[i] = 76
           int == Printer!Signed(arg, Bits)
           uint == Printer!Unsigned(arg, IF long /\ c # 112 THEN LongBits ELSE Bits)
<1>1. Printer!ch = c
  BY DEF Printer!ch
<1>2. Printer!Converted(arg)
        = CASE c = 100 -> IF longval THEN Printer!kput_int64(arg, 10) ELSE Printer!kput_int(arg, 10)
            [] c = 117 -> IF longval THEN Printer!kput_uint64(arg, 10) ELSE Printer!kput_uint(arg, 10)
            [] c = 120 -> IF longval THEN Printer!kput_uint64(arg, 16) ELSE Printer!kput_uint(arg, 16)
            [] c = 112 -> Printer!kput_uint(arg, 16)
            [] c = 115 -> arg
  BY <1>1 DEF Printer!Converted, Printer!Char
<1>3. Prints(d)
        = CASE c = 115 -> arg
            [] c = 100 -> IF int < 0 THEN Negative(int) ELSE Printer!Numeral(int, 10)
            [] c = 117 -> Printer!Numeral(uint, 10)
            [] c \in {120, 112} -> Printer!Numeral(uint, 16)
  <2>1. c # 100 => Prints(d) = Printer!Expected(d)
    BY DEF Prints
  <2>2. c = 100 => Prints(d) = IF int < 0 THEN Negative(int) ELSE Printer!Numeral(int, 10)
    BY DEF Prints
  <2>3. c = 115 => Printer!Expected(d) = arg
    BY DEF Printer!Expected, Printer!Char
  <2>4. c = 117 => Printer!Expected(d) = Printer!Numeral(uint, 10)
    BY DEF Printer!Expected, Printer!Char
  <2>5. c \in {120, 112} => Printer!Expected(d) = Printer!Numeral(uint, 16)
    BY DEF Printer!Expected, Printer!Char
  <2>6. c \in {100, 117, 120, 112, 115}
    BY DEF Printer!Conversions, Printer!Char
  <2> HIDE DEF arg, int, uint
  <2>7. QED
    BY <2>1, <2>2, <2>3, <2>4, <2>5, <2>6
<1>4. c \in {100, 117, 120, 112, 115}
  BY DEF Printer!Conversions, Printer!Char
<1>5. longval <=> long
  OBVIOUS
<1>6. CASE c = 115
  <2> HIDE DEF arg, long, int, uint
  <2>1. Printer!Converted(arg) = arg
    BY <1>2, <1>6
  <2>2. Prints(d) = arg
    BY <1>3, <1>6
  <2>3. QED
    BY <2>1, <2>2 DEF arg
<1>7. CASE c # 115
  <2>1. arg \in Int
    BY <1>7
  <2>2. /\ Printer!kput_int(arg, 10) = Printer!PutNumber(int, 10, Printer!Type(TRUE, Bits))
        /\ Printer!kput_int64(arg, 10) = Printer!PutNumber(int, 10, Printer!Type(TRUE, LongBits))
    <3>1. Printer!kput_int(arg, 10) = Printer!PutNumber(int, 10, Printer!Type(TRUE, Bits))
      BY Zenon DEF Printer!kput_int
    <3>2. Printer!kput_int64(arg, 10) = Printer!PutNumber(int, 10, Printer!Type(TRUE, LongBits))
      BY Zenon DEF Printer!kput_int64
    <3> HIDE DEF int, arg
    <3>3. QED
      BY <3>1, <3>2, Zenon
  <2>3. ASSUME NEW b, b = Bits \/ b = LongBits
        PROVE  Printer!PutNumber(int, 10, Printer!Type(TRUE, b))
                 = IF int < 0 THEN Negative(int) ELSE Printer!Numeral(int, 10)
    <3> HIDE DEF arg
    <3>1. QED
      BY <2>1, <2>3, SignedPrinted
  <2>4. ASSUME NEW base \in 2 .. 16
        PROVE  /\ Printer!kput_uint(arg, base) = Printer!Numeral(Printer!Unsigned(arg, Bits), base)
               /\ Printer!kput_uint64(arg, base) = Printer!Numeral(Printer!Unsigned(arg, LongBits), base)
    <3> HIDE DEF arg, long, int, uint
    <3>1. Printer!kput_uint(arg, base)
            = Printer!PutNumber(Printer!Unsigned(arg, Bits), base, Printer!Type(FALSE, Bits))
      BY Zenon DEF Printer!kput_uint
    <3>2. Printer!kput_uint64(arg, base)
            = Printer!PutNumber(Printer!Unsigned(arg, LongBits), base, Printer!Type(FALSE, LongBits))
      BY Zenon DEF Printer!kput_uint64
    <3>3. /\ Printer!PutNumber(Printer!Unsigned(arg, Bits), base, Printer!Type(FALSE, Bits))
               = Printer!Numeral(Printer!Unsigned(arg, Bits), base)
          /\ Printer!PutNumber(Printer!Unsigned(arg, LongBits), base, Printer!Type(FALSE, LongBits))
               = Printer!Numeral(Printer!Unsigned(arg, LongBits), base)
      <4>1. ASSUME NEW b, b = Bits \/ b = LongBits
            PROVE  Printer!PutNumber(Printer!Unsigned(arg, b), base, Printer!Type(FALSE, b))
                     = Printer!Numeral(Printer!Unsigned(arg, b), base)
        BY <2>1, <4>1, UnsignedPrinted, Zenon
      <4>2. QED
        BY <4>1, Zenon
    <3>4. QED
      BY <3>1, <3>2, <3>3, Zenon
  <2> DEFINE signed == IF int < 0 THEN Negative(int) ELSE Printer!Numeral(int, 10)
             short == Printer!Unsigned(arg, Bits)
             wide == Printer!Unsigned(arg, LongBits)
  <2>5. Printer!kput_int(arg, 10) = signed /\ Printer!kput_int64(arg, 10) = signed
    <3> HIDE DEF int, arg
    <3>1. \A b : b = Bits \/ b = LongBits =>
                   Printer!PutNumber(int, 10, Printer!Type(TRUE, b)) = signed
      BY <2>3, Zenon
    <3>2. /\ Printer!PutNumber(int, 10, Printer!Type(TRUE, Bits)) = signed
          /\ Printer!PutNumber(int, 10, Printer!Type(TRUE, LongBits)) = signed
      BY <3>1, Zenon
    <3>3. QED
      BY <2>2, <3>2, Zenon
  <2>6. 10 \in 2 .. 16 /\ 16 \in 2 .. 16
    OBVIOUS
  <2>7. /\ Printer!kput_uint(arg, 10) = Printer!Numeral(short, 10)
        /\ Printer!kput_uint64(arg, 10) = Printer!Numeral(wide, 10)
        /\ Printer!kput_uint(arg, 16) = Printer!Numeral(short, 16)
        /\ Printer!kput_uint64(arg, 16) = Printer!Numeral(wide, 16)
    BY <2>4, <2>6
  <2>8. uint = IF long /\ c # 112 THEN wide ELSE short
    OBVIOUS
  <2>9. CASE c = 100
    <3>1. Printer!Converted(arg) = signed
      <4> HIDE DEF signed
      <4>1. QED
        BY <1>2, <2>5, <2>9
    <3>2. Prints(d) = signed
      <4> HIDE DEF arg, long, int, uint
      <4>1. QED
        BY <1>3, <2>9
    <3>3. QED
      BY <3>1, <3>2
  <2> HIDE DEF arg, long, int, uint, short, wide, signed
  <2>10. CASE c = 117
    <3>1. Prints(d) = Printer!Numeral(uint, 10)
      BY <1>3, <2>10
    <3>2. Printer!Converted(arg) = IF longval THEN Printer!Numeral(wide, 10) ELSE Printer!Numeral(short, 10)
      BY <1>2, <2>7, <2>10
    <3>3. uint = IF longval THEN wide ELSE short
      <4>1. c # 112
        BY <2>10
      <4>2. QED
        BY <1>5, <2>8, <4>1, Zenon
    <3>4. QED
      BY <3>1, <3>2, <3>3 DEF arg
  <2>11. CASE c = 120
    <3>1. Prints(d) = Printer!Numeral(uint, 16)
      BY <1>3, <2>11
    <3>2. Printer!Converted(arg) = IF longval THEN Printer!Numeral(wide, 16) ELSE Printer!Numeral(short, 16)
      BY <1>2, <2>7, <2>11
    <3>3. uint = IF longval THEN wide ELSE short
      <4>1. c # 112
        BY <2>11
      <4>2. QED
        BY <1>5, <2>8, <4>1, Zenon
    <3>4. QED
      BY <3>1, <3>2, <3>3 DEF arg
  <2>12. CASE c = 112
    <3>1. Prints(d) = Printer!Numeral(uint, 16) /\ uint = short
      BY <1>3, <2>8, <2>12
    <3>2. Printer!Converted(arg) = Printer!Numeral(short, 16)
      BY <1>2, <2>7, <2>12
    <3>3. QED
      BY <3>1, <3>2 DEF arg
  <2>13. QED
    BY <1>4, <1>7, <2>9, <2>10, <2>11, <2>12 DEF arg
<1>8. QED
  BY <1>6, <1>7

LEMMA NumeralType ==
  ASSUME Printer!KprintfAssumption, NEW base \in 2 .. 16, NEW q, q = Printer!Powers(2),
         NEW w \in Nat, w < q[LongBits]
  PROVE  Printer!Numeral(w, base) \in Seq(Int)
<1>1. PICK p : p = Printer!Powers(base)
  OBVIOUS
<1>2. base \in Nat /\ base >= 2 /\ base \in Nat \ {0} /\ LongBits \in Nat
      /\ LongBits \in 0 .. LongBits + 1
  BY Sizes
<1>3. ArePowers(p, base) /\ ArePowers(q, 2)
  BY <1>1, <1>2, PowersAre
<1>4. w < p[LongBits]
  <2>1. q[LongBits] <= p[LongBits]
    BY <1>2, <1>3, PowersExceed
  <2>2. q[LongBits] \in Nat /\ p[LongBits] \in Nat
    BY <1>2, <1>3 DEF ArePowers
  <2>3. QED
    BY <2>1, <2>2
<1>5. PICK n \in Nat : Width(n, w, p)
  BY <1>2, <1>3, <1>4, WidthExists
<1>6. Printer!Numeral(w, base) = [i \in 1 .. n |-> Printer!Letter((w \div p[n - i]) % base)]
  BY <1>1, <1>2, <1>5, NumeralIs
<1>7. ASSUME NEW i \in 1 .. n PROVE Printer!Letter((w \div p[n - i]) % base) \in Int
  <2> DEFINE m == p[n - i]
             d == w \div m
             r == d % base
  <2>1. m \in Nat \ {0}
    <3>1. n - i \in 0 .. LongBits + 1
      BY <1>2, <1>5 DEF Width
    <3>2. QED
      BY <1>3, <3>1 DEF ArePowers
  <2> HIDE DEF m
  <2>2. d \in Nat
    BY <2>1, Quotient
  <2> HIDE DEF d
  <2>3. r \in 0 .. base - 1
    BY <1>2, <2>2, RemainderRange
  <2> HIDE DEF r
  <2>4. Printer!Letter(r) \in Int
    BY <1>2, <2>3 DEF Printer!Letter
  <2>5. QED
    BY <2>4 DEF r, d, m
<1>8. [i \in 1 .. n |-> Printer!Letter((w \div p[n - i]) % base)] \in [1 .. n -> Int]
  BY <1>7
<1>9. QED
  BY <1>6, <1>8

LEMMA NegativeType ==
  ASSUME NEW v, Printer!Numeral(-v, 10) \in Seq(Int)
  PROVE  Negative(v) \in Seq(Int)
<1> DEFINE digits == Printer!Numeral(-v, 10)
           s == [i \in DOMAIN digits |-> IF digits[i] = 48 THEN 48 ELSE 55 - (digits[i] - 48)]
<1>1. Negative(v) = <<45>> \o s
  BY Zenon DEF Negative
<1>2. PICK n \in Nat : DOMAIN digits = 1 .. n /\ \A i \in 1 .. n : digits[i] \in Int
  OBVIOUS
<1> HIDE DEF digits
<1>3. s \in [1 .. n -> Int]
  BY <1>2
<1>4. s \in Seq(Int) /\ <<45>> \in Seq(Int)
  BY <1>3
<1> HIDE DEF s
<1>5. QED
  BY <1>1, <1>4

\* What is expected of a directive is characters.
LEMMA ExpectedType ==
  ASSUME Printer!KprintfAssumption, NEW d \in Directives
  PROVE  Printer!Expected(d) \in Seq(Int)
<1> DEFINE f == d.format
           c == f[Len(f)]
           arg == d.args[1]
           long == \E i \in DOMAIN f : f[i] = 76
           ib == IF long THEN LongBits ELSE Bits
           int == Printer!Signed(arg, ib)
           b == IF long /\ c # 112 THEN LongBits ELSE Bits
           uint == Printer!Unsigned(arg, b)
<1>1. Printer!Expected(d)
        = IF f[1] = 92 THEN <<Printer!Escapes[c]>>
          ELSE IF f[1] # 37 THEN f
          ELSE CASE c = 37 -> <<37>>
                 [] c = 115 -> arg
                 [] c = 100 -> IF int < 0 THEN <<45>> \o Printer!Numeral(-int, 10)
                                ELSE Printer!Numeral(int, 10)
                 [] c = 117 -> Printer!Numeral(uint, 10)
                 [] OTHER -> Printer!Numeral(uint, 16)
  BY DEF Printer!Expected, Printer!Char
<1>2. Printer!IsDirective(d)
  BY Sizes
<1>3. f \in Seq(Nat) /\ f # <<>>
  BY <1>2 DEF Printer!IsDirective
<1>4. f[1] = 92 => c \in DOMAIN Printer!Escapes
  BY <1>2 DEF Printer!IsDirective, Printer!Char
<1>5. \A e \in DOMAIN Printer!Escapes : Printer!Escapes[e] \in Int
  BY DEF Printer!Escapes, Printer!Char
<1>6. f[1] = 37 => \/ c = 37
                   \/ c = 115 /\ arg \in Seq(Nat)
                   \/ c # 115 /\ arg \in Int
  BY <1>2 DEF Printer!IsDirective, Printer!Char, Printer!Conversions
<1>7. PICK q : q = Printer!Powers(2)
  OBVIOUS
<1>8. LongBits \in Nat /\ Bits \in 1 .. LongBits /\ LongBits \in 1 .. LongBits
      /\ ArePowers(q, 2) /\ 2 \in Nat /\ 2 >= 2
  BY <1>7, Sizes, PowersAre
<1>9. ASSUME arg \in Int PROVE uint \in Nat /\ uint < q[LongBits]
  <2>1. b \in 1 .. LongBits
    <3> HIDE DEF long, c
    <3>1. QED
      BY <1>8
  <2> HIDE DEF b
  <2>2. uint \in 0 .. q[b] - 1
    <3> HIDE DEF arg
    <3>1. QED
      BY <1>7, <1>9, <2>1, UnsignedIs
  <2> HIDE DEF uint
  <2>3. b \in 0 .. LongBits /\ b \in 0 .. LongBits + 1 /\ LongBits \in 0 .. LongBits + 1
    BY <1>8, <2>1
  <2>4. q[b] <= q[LongBits]
    BY <1>8, <2>3, PowersGrow
  <2>5. q[b] \in Nat /\ q[LongBits] \in Nat
    BY <1>8, <2>3 DEF ArePowers
  <2>6. QED
    BY <2>2, <2>4, <2>5
<1>10. ASSUME arg \in Int PROVE int \in Int /\ int < q[LongBits] /\ -int < q[LongBits]
  <2> DEFINE e == ib - 1
  <2>0. ib \in 1 .. LongBits
    <3> HIDE DEF long
    <3>1. QED
      BY <1>8
  <2> HIDE DEF ib
  <2>1. int \in -q[e] .. q[e] - 1
    <3> HIDE DEF arg
    <3>1. QED
      BY <1>7, <1>8, <1>10, <2>0, SignedIs
  <2> HIDE DEF int
  <2>2. e \in 0 .. LongBits /\ e < LongBits /\ e \in 0 .. LongBits + 1 /\ LongBits \in 0 .. LongBits + 1
    BY <1>8, <2>0
  <2> HIDE DEF e
  <2>3. q[e] < q[LongBits]
    BY <1>8, <2>2, PowersGrow
  <2>4. q[e] \in Nat /\ q[LongBits] \in Nat
    BY <1>8, <2>2 DEF ArePowers
  <2>5. QED
    BY <2>1, <2>3, <2>4
<1>11. 10 \in 2 .. 16 /\ 16 \in 2 .. 16
  OBVIOUS
<1>12. ASSUME arg \in Int
       PROVE  Printer!Numeral(uint, 10) \in Seq(Int) /\ Printer!Numeral(uint, 16) \in Seq(Int)
  <2>1. uint \in Nat /\ uint < q[LongBits]
    BY <1>9, <1>12
  <2> HIDE DEF uint
  <2>2. QED
    BY <1>7, <1>11, <2>1, NumeralType
<1>13. ASSUME arg \in Int
       PROVE  (IF int < 0 THEN <<45>> \o Printer!Numeral(-int, 10)
                                ELSE Printer!Numeral(int, 10)) \in Seq(Int)
  <2>1. int \in Int /\ int < q[LongBits] /\ -int < q[LongBits]
    BY <1>10, <1>13
  <2> HIDE DEF int
  <2>2. CASE int < 0
    <3>1. -int \in Nat
      BY <2>1, <2>2
    <3>2. Printer!Numeral(-int, 10) \in Seq(Int)
      BY <1>7, <1>11, <2>1, <3>1, NumeralType
    <3>3. <<45>> \in Seq(Int)
      OBVIOUS
    <3>4. QED
      BY <2>2, <3>2, <3>3
  <2>3. CASE ~ (int < 0)
    <3>1. int \in Nat
      BY <2>1, <2>3
    <3>2. QED
      BY <1>7, <1>11, <2>1, <2>3, <3>1, NumeralType
  <2>4. QED
    BY <2>2, <2>3
<1> HIDE DEF f, c, arg, long, ib, int, b, uint
<1>14. \A x \in Int : <<x>> \in Seq(Int)
  OBVIOUS
<1>15. Seq(Nat) \subseteq Seq(Int)
  OBVIOUS
<1>16. CASE f[1] = 92
  <2>1. Printer!Expected(d) = <<Printer!Escapes[c]>>
    BY <1>1, <1>16
  <2>2. Printer!Escapes[c] \in Int
    BY <1>4, <1>5, <1>16
  <2>3. QED
    BY <1>14, <2>1, <2>2
<1>17. CASE f[1] # 92 /\ f[1] # 37
  <2>1. Printer!Expected(d) = f
    BY <1>1, <1>17
  <2>2. QED
    BY <1>3, <1>15, <2>1
<1>18. CASE f[1] = 37
  BY <1>1, <1>6, <1>12, <1>13, <1>14, <1>15, <1>18
<1>19. QED
  BY <1>16, <1>17, <1>18

\* What it prints is characters too; it is what is expected of it, if the
\* directive is not misprinted.
LEMMA PrintsType ==
  ASSUME Printer!KprintfAssumption, NEW d \in Directives
  PROVE  /\ Prints(d) \in Seq(Int)
         /\ ~ Printer!Misprinted(d) => Prints(d) = Printer!Expected(d)
<1> DEFINE f == d.format
           arg == d.args[1]
           long == \E i \in DOMAIN f : f[i] = 76
           int == Printer!Signed(arg, Bits)
           wide == Printer!Signed(arg, LongBits)
<1>1. CASE ~ (f[1] = 37 /\ f[Len(f)] = 100)
  <2>1. Prints(d) = Printer!Expected(d)
    BY <1>1 DEF Prints
  <2>2. QED
    BY <2>1, ExpectedType
<1>2. CASE f[1] = 37 /\ f[Len(f)] = 100
  <2>1. Prints(d) = IF int < 0 THEN Negative(int) ELSE Printer!Numeral(int, 10)
    BY <1>2 DEF Prints
  <2>2. Printer!IsDirective(d)
    BY Sizes
  <2>3. d.args \in Seq(Int) /\ Len(d.args) = 1
    BY <1>2, <2>2 DEF Printer!IsDirective, Printer!Char, Printer!Conversions
  <2>4. arg \in Int
    BY <2>3
  <2>5. PICK q : q = Printer!Powers(2)
    OBVIOUS
  <2>6. LongBits \in Nat /\ Bits \in 1 .. LongBits /\ ArePowers(q, 2) /\ 2 \in Nat /\ 2 >= 2
    BY <2>5, Sizes, PowersAre
  <2>7. int \in Int /\ int < q[LongBits] /\ -int < q[LongBits]
    <3> DEFINE e == Bits - 1
    <3>1. int \in -q[e] .. q[e] - 1
      <4> HIDE DEF arg
      <4>1. QED
        BY <2>4, <2>5, <2>6, SignedIs
    <3> HIDE DEF int
    <3>2. e \in 0 .. LongBits /\ e < LongBits /\ e \in 0 .. LongBits + 1 /\ LongBits \in 0 .. LongBits + 1
      BY <2>6
    <3> HIDE DEF e
    <3>3. q[e] < q[LongBits]
      BY <2>6, <3>2, PowersGrow
    <3>4. q[e] \in Nat /\ q[LongBits] \in Nat
      BY <2>6, <3>2 DEF ArePowers
    <3>5. QED
      BY <3>1, <3>3, <3>4
  <2>8. 10 \in 2 .. 16
    OBVIOUS
  <2>9. CASE int < 0
    <3>1. Negative(int) \in Seq(Int)
      <4> HIDE DEF int
      <4>1. -int \in Nat
        BY <2>7, <2>9
      <4>2. Printer!Numeral(-int, 10) \in Seq(Int)
        BY <2>5, <2>7, <2>8, <4>1, NumeralType
      <4>3. QED
        BY <4>2, NegativeType
    <3>2. Printer!Misprinted(d)
      BY <1>2, <2>9 DEF Printer!Misprinted, Printer!Char
    <3> HIDE DEF int
    <3>3. QED
      BY <2>1, <2>9, <3>1, <3>2
  <2>10. CASE ~ (int < 0)
    <3>1. Printer!Numeral(int, 10) \in Seq(Int)
      <4> HIDE DEF int
      <4>1. int \in Nat
        BY <2>7, <2>10
      <4>2. QED
        BY <2>5, <2>7, <2>8, <4>1, NumeralType
    <3>2. ~ Printer!Misprinted(d) => ~ long \/ wide = int
      BY <1>2 DEF Printer!Misprinted, Printer!Char
    <3>3. Printer!Expected(d)
            = LET v == Printer!Signed(arg, IF long THEN LongBits ELSE Bits)
              IN IF v < 0 THEN <<45>> \o Printer!Numeral(-v, 10) ELSE Printer!Numeral(v, 10)
      BY <1>2 DEF Printer!Expected, Printer!Char
    <3> HIDE DEF long
    <3>4. Printer!Signed(arg, IF long THEN LongBits ELSE Bits) = IF long THEN wide ELSE int
      OBVIOUS
    <3> HIDE DEF int, wide
    <3>5. ~ Printer!Misprinted(d) => Printer!Expected(d) = Printer!Numeral(int, 10)
      BY <2>10, <3>2, <3>3, <3>4
    <3>6. QED
      BY <2>1, <2>10, <3>1, <3>5
  <2>11. QED
    BY <2>9, <2>10
<1>3. QED
  BY <1>1, <1>2

-----------------------------------------------------------------------------
(* kprintf: what a format asks for.                                        *)

AskedSteps(f, s) ==
  /\ f \in [0 .. Len(s) -> Seq(Int)] /\ f[0] = <<>>
  /\ \A k \in 1 .. Len(s) : f[k] = f[k - 1] \o Printer!Expected(s[k])

LEMMA AskedIs ==
  ASSUME Printer!KprintfAssumption, NEW s \in Seq(Directives)
  PROVE  \E f : AskedSteps(f, s) /\ Printer!Asked(s) = f[Len(s)]
<1> DEFINE n == Len(s)
           S == Seq(Int)
           step == [k \in 1 .. n |-> [x \in S |-> x \o Printer!Expected(s[k])]]
           IsAsked(f) == f = [k \in 0 .. Len(s) |-> IF k = 0 THEN <<>>
                                                    ELSE f[k - 1] \o Printer!Expected(s[k])]
           p == CHOOSE f : IsAsked(f)
<1>1. n \in Nat /\ <<>> \in S
  OBVIOUS
<1>2. \A k \in 1 .. n : Printer!Expected(s[k]) \in Seq(Int)
  <2>1. \A k \in 1 .. n : s[k] \in Directives
    OBVIOUS
  <2>2. QED
    BY <2>1, ExpectedType
<1>3. PICK f : LoopStates(f, S, <<>>, n, step)
  <2>1. ASSUME NEW k \in 1 .. n, NEW x \in S PROVE step[k][x] \in S
    <3>1. step[k][x] = x \o Printer!Expected(s[k])
      BY <2>1
    <3>2. QED
      BY <1>2, <3>1
  <2> HIDE DEF n, S, step
  <2>2. QED
    BY <1>1, <2>1, Iterate
<1>4. f \in [0 .. n -> S] /\ f[0] = <<>>
  BY <1>3 DEF LoopStates
<1>5. \A k \in 1 .. n : f[k] = f[k - 1] \o Printer!Expected(s[k])
  <2> SUFFICES ASSUME NEW k \in 1 .. n PROVE f[k] = f[k - 1] \o Printer!Expected(s[k])
    OBVIOUS
  <2>1. k - 1 \in 0 .. n
    BY <1>1
  <2>2. f[k - 1] \in S
    BY <1>4, <2>1
  <2>3. f[k] = step[k][f[k - 1]]
    BY <1>3 DEF LoopStates
  <2>4. step[k][f[k - 1]] = f[k - 1] \o Printer!Expected(s[k])
    BY <2>2
  <2>5. QED
    BY <2>3, <2>4
<1>6. IsAsked(f)
  <2>1. f = [k \in 0 .. n |-> f[k]]
    BY <1>4
  <2>2. \A k \in 0 .. n : f[k] = IF k = 0 THEN <<>> ELSE f[k - 1] \o Printer!Expected(s[k])
    <3> SUFFICES ASSUME NEW k \in 0 .. n
                 PROVE  f[k] = IF k = 0 THEN <<>> ELSE f[k - 1] \o Printer!Expected(s[k])
      OBVIOUS
    <3>1. CASE k = 0
      BY <1>4, <3>1
    <3>2. CASE k # 0
      <4>1. k \in 1 .. n
        BY <1>1, <3>2
      <4>2. f[k] = f[k - 1] \o Printer!Expected(s[k])
        BY <1>5, <4>1, Zenon
      <4>3. QED
        BY <3>2, <4>2
    <3>3. QED
      BY <3>1, <3>2
  <2>3. QED
    BY <2>1, <2>2
<1>7. IsAsked(p)
  <2> HIDE DEF IsAsked
  <2>1. QED
    BY <1>6
<1>8. Printer!Asked(s) = p[Len(s)]
  BY Zenon DEF Printer!Asked
<1> HIDE DEF p
<1>9. \A k \in 0 .. n : p[k] = IF k = 0 THEN <<>> ELSE p[k - 1] \o Printer!Expected(s[k])
  BY <1>7
<1>10. \A k \in 0 .. n : p[k] = f[k]
  <2> DEFINE T == {k \in 0 .. n : p[k] = f[k]}
  <2>1. 0 \in T
    BY <1>1, <1>4, <1>9
  <2>2. ASSUME NEW k \in 1 .. n, k - 1 \in T PROVE k \in T
    <3>1. k \in 0 .. n /\ k # 0
      BY <1>1
    <3>2. p[k] = p[k - 1] \o Printer!Expected(s[k])
      BY <1>9, <3>1
    <3>3. f[k] = f[k - 1] \o Printer!Expected(s[k])
      BY <1>5
    <3>4. QED
      BY <2>2, <3>1, <3>2, <3>3
  <2>3. \A k \in 0 .. n : k \in T
    <3> HIDE DEF T, n
    <3>1. QED
      BY <1>1, <2>1, <2>2, Climb
  <2>4. QED
    BY <2>3
<1>11. n \in 0 .. n
  BY <1>1
<1>12. AskedSteps(f, s)
  BY <1>4, <1>5 DEF AskedSteps
<1>13. QED
  BY <1>8, <1>10, <1>11, <1>12

LEMMA AskedOfNone ==
  ASSUME Printer!KprintfAssumption
  PROVE  Printer!Asked(<<>>) = <<>>
<1>1. PICK s \in Seq(Directives) : s = <<>>
  <2>1. <<>> \in Seq(Directives)
    OBVIOUS
  <2>2. QED
    BY <2>1, Zenon
<1>2. PICK f : AskedSteps(f, s) /\ Printer!Asked(s) = f[Len(s)]
  BY AskedIs
<1>3. Len(s) = 0
  BY <1>1
<1>4. QED
  BY <1>1, <1>2, <1>3 DEF AskedSteps

\* One more directive asks for what is expected of it.
LEMMA AskedOfMore ==
  ASSUME Printer!KprintfAssumption, NEW s \in Seq(Directives), NEW d \in Directives
  PROVE  /\ Printer!Asked(s) \in Seq(Int)
         /\ Printer!Asked(Append(s, d)) = Printer!Asked(s) \o Printer!Expected(d)
<1>1. PICK n \in Nat : n = Len(s)
  OBVIOUS
<1>2. PICK r \in Seq(Directives) : r = Append(s, d)
  <2>1. Append(s, d) \in Seq(Directives)
    OBVIOUS
  <2>2. QED
    BY <2>1, Zenon
<1>3. Len(r) = n + 1 /\ r[n + 1] = d /\ \A k \in 1 .. n : r[k] = s[k]
  BY <1>1, <1>2
<1>4. PICK f : AskedSteps(f, s) /\ Printer!Asked(s) = f[n]
  BY <1>1, AskedIs
<1>5. PICK g : AskedSteps(g, r) /\ Printer!Asked(r) = g[n + 1]
  BY <1>2, <1>3, AskedIs
<1>6. f \in [0 .. n -> Seq(Int)] /\ f[0] = <<>>
      /\ \A k \in 1 .. n : f[k] = f[k - 1] \o Printer!Expected(s[k])
  BY <1>1, <1>4 DEF AskedSteps
<1>7. g[0] = <<>> /\ \A k \in 1 .. n + 1 : g[k] = g[k - 1] \o Printer!Expected(r[k])
  BY <1>3, <1>5 DEF AskedSteps
<1>8. \A k \in 0 .. n : g[k] = f[k]
  <2> DEFINE T == {k \in 0 .. n : g[k] = f[k]}
  <2>1. 0 \in T
    BY <1>6, <1>7
  <2>2. ASSUME NEW k \in 1 .. n, k - 1 \in T PROVE k \in T
    <3>1. k \in 1 .. n + 1 /\ k \in 0 .. n
      BY <1>1
    <3>2. g[k] = g[k - 1] \o Printer!Expected(s[k])
      BY <1>3, <1>7, <3>1
    <3>3. f[k] = f[k - 1] \o Printer!Expected(s[k])
      BY <1>6
    <3>4. QED
      BY <2>2, <3>1, <3>2, <3>3
  <2>3. \A k \in 0 .. n : k \in T
    <3> HIDE DEF T
    <3>1. QED
      BY <2>1, <2>2, Climb
  <2>4. QED
    BY <2>3
<1>9. n + 1 \in 1 .. n + 1 /\ (n + 1) - 1 = n /\ n \in 0 .. n
  OBVIOUS
<1>10. g[n + 1] = g[n] \o Printer!Expected(d)
  BY <1>3, <1>7, <1>9
<1>11. QED
  BY <1>2, <1>4, <1>5, <1>6, <1>8, <1>9, <1>10

-----------------------------------------------------------------------------
(* kprintf: the loop over the format.                                      *)

LEMMA Rest ==
  ASSUME NEW S, NEW f \in Seq(S), NEW k \in 0 .. Len(f) - 1,
         NEW r, r = SubSeq(f, k + 1, Len(f))
  PROVE  /\ r # <<>> /\ Head(r) = f[k + 1]
         /\ k + 1 = Len(f) => Tail(r) = <<>>
         /\ k + 1 < Len(f) => Tail(r) = SubSeq(f, (k + 1) + 1, Len(f))
<1>1. r \in Seq(S) /\ Len(r) = Len(f) - k /\ \A i \in 1 .. Len(f) - k : r[i] = f[k + i]
  BY SubSeqProperties
<1>2. r # <<>> /\ Head(r) = f[k + 1]
  <2>1. Len(r) >= 1 /\ r # <<>>
    <3>1. Len(f) \in Nat
      OBVIOUS
    <3>2. Len(f) - k >= 1
      BY <3>1
    <3>3. Len(r) >= 1
      BY <1>1, <3>2
    <3>4. r = <<>> => Len(r) = 0
      OBVIOUS
    <3>5. QED
      BY <3>3, <3>4
  <2>2. Head(r) = r[1] /\ 1 \in 1 .. Len(f) - k
    BY <1>1, <2>1, HeadTailProperties
  <2>3. r[1] = f[k + 1]
    BY <1>1, <2>2
  <2>4. QED
    BY <2>1, <2>2, <2>3
<1>3. Tail(r) \in Seq(S) /\ Len(Tail(r)) = Len(f) - k - 1
      /\ \A i \in 1 .. Len(f) - k - 1 : Tail(r)[i] = f[k + i + 1]
  <2>1. /\ Tail(r) \in Seq(S) /\ Len(Tail(r)) = Len(r) - 1
        /\ \A i \in 1 .. Len(Tail(r)) : Tail(r)[i] = r[i + 1]
    BY <1>1, <1>2, HeadTailProperties
  <2>2. Len(Tail(r)) = Len(f) - k - 1
    BY <1>1, <2>1
  <2>3. ASSUME NEW i \in 1 .. Len(f) - k - 1 PROVE Tail(r)[i] = f[k + i + 1]
    <3>1. Len(f) \in Nat /\ i + 1 \in 1 .. Len(f) - k /\ k + (i + 1) = k + i + 1
      OBVIOUS
    <3>2. Tail(r)[i] = r[i + 1]
      BY <2>1, <2>2
    <3>3. r[i + 1] = f[k + (i + 1)]
      BY <1>1, <3>1
    <3>4. QED
      BY <3>1, <3>2, <3>3
  <2>4. QED
    BY <2>1, <2>2, <2>3
<1>4. ASSUME k + 1 = Len(f) PROVE Tail(r) = <<>>
  <2>1. k \in Nat /\ Len(f) - k - 1 = 0
    <3>1. Len(f) \in Nat
      OBVIOUS
    <3>2. QED
      BY <1>4, <3>1
  <2>2. Tail(r) \in Seq(S) /\ Len(Tail(r)) = 0
    BY <1>3, <2>1
  <2>3. QED
    BY <2>2, EmptySeq
<1>5. ASSUME k + 1 < Len(f) PROVE Tail(r) = SubSeq(f, (k + 1) + 1, Len(f))
  <2> DEFINE t == SubSeq(f, (k + 1) + 1, Len(f))
  <2>1. t \in Seq(S) /\ Len(t) = Len(f) - k - 1 /\ \A i \in 1 .. Len(f) - k - 1 : t[i] = f[k + i + 1]
    BY <1>5, SubSeqProperties
  <2> HIDE DEF t
  <2>2. Tail(r) = t
    BY <1>3, <2>1, SeqEqual
  <2>3. QED
    BY <2>2 DEF t
<1>6. QED
  BY <1>2, <1>4, <1>5

\* The three kinds of directive: n characters f, the last one c.
KindOf(d, f, n, c) ==
  \/ n = 1 /\ f[1] \notin {37, 92} /\ d.args = <<>>
  \/ /\ n > 1 /\ f[1] = 92 /\ d.args = <<>> /\ c \in DOMAIN Printer!Escapes
     /\ \A i \in 2 .. n - 1 : f[i] \notin DOMAIN Printer!Escapes
  \/ /\ n > 1 /\ f[1] = 37 /\ c \in Printer!Conversions \cup {37}
     /\ \A i \in 2 .. n - 1 : f[i] \notin Printer!Conversions \cup {37}
     /\ c = 37 => d.args = <<>>
     /\ c # 37 => d.args \in Seq(Int) \cup Seq(Seq(Nat)) /\ Len(d.args) = 1
     /\ c # 37 /\ c # 115 => d.args[1] \in Int

LEMMA Kinds ==
  ASSUME Printer!KprintfAssumption, NEW d \in Directives, NEW f, f = d.format,
         NEW n, n = Len(f), NEW c, c = f[n]
  PROVE  f \in Seq(Nat) /\ n \in Nat \ {0} /\ KindOf(d, f, n, c)
<1>1. Printer!IsDirective(d)
  BY Sizes
<1>2. f \in Seq(Nat) /\ f # <<>>
  BY <1>1 DEF Printer!IsDirective
<1>3. n \in Nat \ {0}
  BY <1>2
<1>4. \/ /\ n = 1 /\ c \notin {37, 92} /\ d.args = <<>>
      \/ /\ n > 1 /\ f[1] = 92 /\ d.args = <<>> /\ c \in DOMAIN Printer!Escapes
         /\ \A i \in 2 .. n - 1 : f[i] \notin DOMAIN Printer!Escapes
      \/ /\ n > 1 /\ f[1] = 37 /\ c \in Printer!Conversions \cup {37}
         /\ \A i \in 2 .. n - 1 : f[i] \notin Printer!Conversions \cup {37}
         /\ IF c = 37 THEN d.args = <<>>
            ELSE Len(d.args) = 1 /\ d.args \in IF c = 115 THEN Seq(Seq(Nat)) ELSE Seq(Int)
  BY <1>1, Zenon DEF Printer!IsDirective, Printer!Char
<1>5. n = 1 => c = f[1]
  OBVIOUS
<1>6. c # 37 /\ c # 115 /\ d.args \in Seq(Int) /\ Len(d.args) = 1 => d.args[1] \in Int
  OBVIOUS
<1>7. QED
  BY <1>2, <1>3, <1>4, <1>5, <1>6 DEF KindOf

LEMMA DirectiveType ==
  ASSUME Printer!KprintfAssumption, NEW d \in Directives
  PROVE  /\ d.format \in Seq(Nat) /\ Len(d.format) \in Nat \ {0}
         /\ d.args \in Seq(Int) \cup Seq(Seq(Nat))
<1>1. PICK f : f = d.format
  OBVIOUS
<1>2. PICK n : n = Len(f)
  OBVIOUS
<1>3. PICK c : c = f[n]
  OBVIOUS
<1>4. f \in Seq(Nat) /\ n \in Nat \ {0} /\ (d.args = <<>> \/ d.args \in Seq(Int) \cup Seq(Seq(Nat)))
  BY <1>1, <1>2, <1>3, Kinds DEF KindOf
<1>5. <<>> \in Seq(Int)
  OBVIOUS
<1>6. QED
  BY <1>1, <1>2, <1>4, <1>5

LEMMA TextKind ==
  ASSUME Printer!KprintfAssumption, NEW d \in Directives, NEW f, f = d.format,
         f[1] # 37, f[1] # 92
  PROVE  Len(f) = 1 /\ d.args = <<>>
<1>1. PICK n : n = Len(f)
  OBVIOUS
<1>2. PICK c : c = f[n]
  OBVIOUS
<1>3. KindOf(d, f, n, c)
  BY <1>1, <1>2, Kinds
<1>4. QED
  BY <1>1, <1>3 DEF KindOf

\* None of the directives is misprinted.
Right(directives) == \A i \in 1 .. Len(directives) : ~ Printer!Misprinted(directives[i])

\* The directives before d are printed, and k characters of d are read.
Reading(before, d, k) ==
  /\ said = Append(before, d) /\ args = d.args
  /\ Right(before) => stdout = Printer!Asked(before)
  /\ k \in 0 .. Len(d.format) - 1
  /\ format = SubSeq(d.format, k + 1, Len(d.format))
  /\ state = IF k = 0 THEN 0 ELSE IF d.format[1] = 37 THEN 1 ELSE 2
  /\ state = 1 => longval = \E i \in 1 .. k : d.format[i] = 76

\* All directives said are printed.
AtEnd == /\ format = <<>> /\ args = <<>> /\ state = 0
         /\ Right(said) => stdout = Printer!Asked(said)

\* The loop of kprintf, as far as it has come.
PrinterInv ==
  /\ said \in Seq(Directives) /\ longval \in BOOLEAN
  /\ stdout \in Seq(Int) /\ printed = Len(stdout)
  /\ \/ AtEnd
     \/ \E before \in Seq(Directives), d \in Directives, k \in Nat : Reading(before, d, k)

\* A format starts with nothing said.
LEMMA PrinterInit ==
  ASSUME Printer!KprintfAssumption, Printer!Init PROVE PrinterInv
<1>1. said = <<>> /\ stdout = <<>> /\ args = <<>> /\ format = <<>> /\ state = 0
      /\ longval = FALSE /\ printed = 0
  BY DEF Printer!Init
<1>2. <<>> \in Seq(Directives) /\ <<>> \in Seq(Int) /\ Len(<<>>) = 0
  OBVIOUS
<1>3. AtEnd
  BY <1>1, AskedOfNone DEF AtEnd
<1>4. QED
  BY <1>1, <1>2, <1>3, Zenon DEF PrinterInv

\* Inside a directive, there is something to read.
LEMMA ReadingGoesOn ==
  ASSUME Printer!KprintfAssumption, NEW before \in Seq(Directives), NEW d \in Directives,
         NEW k \in Nat, Reading(before, d, k),
         NEW n, n = Len(d.format)
  PROVE  /\ format # <<>> /\ Printer!ch = d.format[k + 1]
         /\ k \in 0 .. n - 1 /\ n \in Nat \ {0}
         /\ k + 1 = n => Tail(format) = <<>>
         /\ k + 1 < n => Tail(format) = SubSeq(d.format, (k + 1) + 1, n)
<1>1. PICK f : f = d.format
  OBVIOUS
<1>2. f \in Seq(Nat) /\ n \in Nat \ {0}
  BY <1>1, DirectiveType
<1>3. k \in 0 .. Len(f) - 1 /\ format = SubSeq(f, k + 1, Len(f))
  BY <1>1 DEF Reading
<1>4. /\ format # <<>> /\ Head(format) = f[k + 1]
      /\ k + 1 = Len(f) => Tail(format) = <<>>
      /\ k + 1 < Len(f) => Tail(format) = SubSeq(f, (k + 1) + 1, Len(f))
  BY <1>2, <1>3, Rest
<1>5. QED
  BY <1>1, <1>2, <1>3, <1>4 DEF Printer!ch

LEMMA SayKeeps ==
  ASSUME Printer!KprintfAssumption, PrinterInv, NEW d \in Directives, Printer!Say(d)
  PROVE  PrinterInv'
<1>1. AtEnd
  <2>1. ASSUME NEW before \in Seq(Directives), NEW e \in Directives, NEW k \in Nat,
               Reading(before, e, k)
        PROVE  FALSE
    <3>1. format # <<>>
      BY <2>1, ReadingGoesOn
    <3>2. QED
      BY <3>1 DEF Printer!Say
  <2>2. QED
    BY <2>1 DEF PrinterInv
<1>2. PICK f : f = d.format
  OBVIOUS
<1>3. f \in Seq(Nat) /\ Len(f) \in Nat \ {0}
  BY <1>2, DirectiveType
<1>4. PICK before \in Seq(Directives) : before = said
  BY DEF PrinterInv
<1>5. Reading(before, d, 0)'
  <2>1. said' = Append(before, d) /\ (Right(before) => stdout' = Printer!Asked(before))
    BY <1>1, <1>4 DEF Printer!Say, AtEnd
  <2>2. args' = d.args
    <3>1. args' = <<>> \o d.args
      BY <1>1 DEF Printer!Say, AtEnd
    <3>2. <<>> \o d.args = d.args
      BY DirectiveType
    <3>3. QED
      BY <3>1, <3>2
  <2>3. 0 \in 0 .. Len(f) - 1
    BY <1>3
  <2>4. format' = SubSeq(f, 0 + 1, Len(f))
    <3>1. format' = f
      BY <1>2 DEF Printer!Say
    <3> DEFINE t == SubSeq(f, 0 + 1, Len(f))
    <3>2. t \in Seq(Nat) /\ Len(t) = Len(f) /\ \A i \in 1 .. Len(f) : t[i] = f[i]
      BY <1>3, SubSeqProperties
    <3> HIDE DEF t
    <3>3. t = f
      BY <1>3, <3>2, SeqEqual
    <3>4. QED
      BY <3>1, <3>3 DEF t
  <2>5. state' = 0
    BY <1>1 DEF Printer!Say, AtEnd
  <2>6. QED
    BY <1>2, <2>1, <2>2, <2>3, <2>4, <2>5 DEF Reading
<1>6. said' \in Seq(Directives) /\ 0 \in Nat
  BY DEF PrinterInv, Printer!Say
<1>7. longval' \in BOOLEAN /\ stdout' \in Seq(Int) /\ printed' = Len(stdout')
  BY DEF PrinterInv, Printer!Say
<1>8. QED
  BY <1>5, <1>6, <1>7 DEF PrinterInv

\* A character of a directive that is not its last.
LEMMA GoOn ==
  ASSUME Printer!KprintfAssumption, PrinterInv,
         NEW before \in Seq(Directives), NEW d \in Directives, NEW k \in Nat,
         Reading(before, d, k), k + 1 < Len(d.format),
         format' = Tail(format), UNCHANGED <<said, args, stdout, printed>>,
         state' = IF d.format[1] = 37 THEN 1 ELSE 2, longval' \in BOOLEAN,
         state' = 1 => longval' = \E i \in 1 .. k + 1 : d.format[i] = 76
  PROVE  PrinterInv'
<1>1. PICK n : n = Len(d.format)
  OBVIOUS
<1>2. n \in Nat \ {0} /\ k + 1 < n /\ Tail(format) = SubSeq(d.format, (k + 1) + 1, n)
  BY <1>1, ReadingGoesOn
<1>3. PICK l \in Nat : l = k + 1
  OBVIOUS
<1>4. l \in 0 .. n - 1 /\ l # 0
  BY <1>2, <1>3
<1>5. Reading(before, d, l)'
  BY <1>1, <1>2, <1>3, <1>4 DEF Reading
<1>6. said' \in Seq(Directives) /\ longval' \in BOOLEAN /\ stdout' \in Seq(Int) /\ printed' = Len(stdout')
  BY DEF PrinterInv
<1>7. QED
  BY <1>5, <1>6 DEF PrinterInv

\* The last character of a directive.
LEMMA Finish ==
  ASSUME Printer!KprintfAssumption, PrinterInv,
         NEW before \in Seq(Directives), NEW d \in Directives, NEW k \in Nat,
         Reading(before, d, k), k + 1 = Len(d.format),
         format' = Tail(format), said' = said, args' = <<>>,
         stdout' = stdout \o Prints(d), printed' = printed + Len(Prints(d)),
         state' = 0, longval' \in BOOLEAN
  PROVE  PrinterInv'
<1>1. PICK n : n = Len(d.format)
  OBVIOUS
<1>2. Tail(format) = <<>>
  BY <1>1, ReadingGoesOn
<1>3. said' = Append(before, d) /\ (Right(before) => stdout = Printer!Asked(before))
  BY DEF Reading
<1>4. ASSUME Right(said') PROVE stdout' = Printer!Asked(said')
  <2>1. PICK r \in Seq(Directives) : r = Append(before, d)
    <3>1. Append(before, d) \in Seq(Directives)
      OBVIOUS
    <3>2. QED
      BY <3>1, Zenon
  <2>2. PICK m \in Nat : m = Len(before)
    OBVIOUS
  <2>3. Len(r) = m + 1 /\ r[m + 1] = d /\ \A i \in 1 .. m : r[i] = before[i]
    BY <2>1, <2>2
  <2>4. \A i \in 1 .. m + 1 : ~ Printer!Misprinted(r[i])
    BY <1>3, <1>4, <2>1, <2>3 DEF Right
  <2>5. Right(before) /\ ~ Printer!Misprinted(d)
    BY <2>2, <2>3, <2>4 DEF Right
  <2>6. stdout' = Printer!Asked(before) \o Printer!Expected(d)
    BY <1>3, <2>5, PrintsType
  <2>7. QED
    BY <1>3, <2>6, AskedOfMore
<1>5. AtEnd'
  BY <1>2, <1>4 DEF AtEnd
<1>6. stdout' \in Seq(Int) /\ printed' = Len(stdout')
  <2> DEFINE e == Prints(d)
  <2>1. e \in Seq(Int)
    BY PrintsType
  <2>2. stdout \in Seq(Int) /\ printed = Len(stdout)
    BY DEF PrinterInv
  <2> HIDE DEF e
  <2>3. stdout \o e \in Seq(Int) /\ Len(stdout \o e) = Len(stdout) + Len(e)
    BY <2>1, <2>2
  <2>4. QED
    BY <2>2, <2>3 DEF e
<1>7. said' \in Seq(Directives)
  BY DEF PrinterInv
<1>8. QED
  BY <1>5, <1>6, <1>7 DEF PrinterInv

LEMMA TextKeeps ==
  ASSUME Printer!KprintfAssumption, PrinterInv,
         NEW before \in Seq(Directives), NEW d \in Directives, NEW k \in Nat,
         Reading(before, d, k), format' = Tail(format), said' = said, Printer!Text
  PROVE  PrinterInv'
<1>1. PICK f : f = d.format
  OBVIOUS
<1>2. PICK n : n = Len(f)
  OBVIOUS
<1>3. PICK c : c = f[n]
  OBVIOUS
<1>4. state = 0 /\ args' = args
  BY DEF Printer!Text
<1>5. k = 0
  BY <1>4 DEF Reading
<1>6. Printer!ch = f[1] /\ f \in Seq(Nat) /\ n \in Nat \ {0}
  <2>1. Printer!ch = f[k + 1]
    BY <1>1, <1>2, ReadingGoesOn
  <2>2. QED
    BY <1>1, <1>2, <1>5, <2>1, DirectiveType
<1>7. longval \in BOOLEAN
  BY DEF PrinterInv
<1>8. args = d.args
  BY DEF Reading
<1>9. CASE f[1] = 37
  <2>1. k + 1 < Len(d.format)
    <3>1. n > 1
      BY <1>1, <1>2, <1>3, <1>9, Kinds DEF KindOf
    <3>2. QED
      BY <1>1, <1>2, <1>5, <1>6, <3>1
  <2>2. state' = 1 /\ longval' = FALSE /\ UNCHANGED <<stdout, printed>>
    BY <1>6, <1>9 DEF Printer!Text, Printer!Quiet, Printer!Char
  <2>3. ~ \E i \in 1 .. k + 1 : d.format[i] = 76
    <3>1. \A i \in 1 .. k + 1 : i = 1
      BY <1>5
    <3>2. QED
      BY <1>1, <1>9, <3>1
  <2>4. state' = IF d.format[1] = 37 THEN 1 ELSE 2
    BY <1>1, <1>9, <2>2
  <2>5. longval' \in BOOLEAN /\ longval' = \E i \in 1 .. k + 1 : d.format[i] = 76
    BY <2>2, <2>3
  <2>6. UNCHANGED <<said, args, stdout, printed>>
    BY <1>4, <2>2
  <2>7. QED
    BY <2>1, <2>4, <2>5, <2>6, GoOn
<1>10. CASE f[1] = 92
  <2>1. k + 1 < Len(d.format)
    <3>1. n > 1
      BY <1>1, <1>2, <1>3, <1>10, Kinds DEF KindOf
    <3>2. QED
      BY <1>1, <1>2, <1>5, <1>6, <3>1
  <2>2. state' = 2 /\ longval' = longval /\ UNCHANGED <<stdout, printed>>
    BY <1>6, <1>10 DEF Printer!Text, Printer!Quiet, Printer!Char
  <2>3. state' = IF d.format[1] = 37 THEN 1 ELSE 2
    BY <1>1, <1>10, <2>2
  <2>4. state' # 1 /\ longval' \in BOOLEAN
    BY <1>7, <2>2
  <2>5. UNCHANGED <<said, args, stdout, printed>>
    BY <1>4, <2>2
  <2>6. QED
    BY <2>1, <2>3, <2>4, <2>5, GoOn
<1>11. CASE f[1] # 37 /\ f[1] # 92
  <2>1. n = 1 /\ d.args = <<>>
    <3>1. Len(f) = 1 /\ d.args = <<>>
      BY <1>1, <1>11, TextKind
    <3>2. QED
      BY <1>2, <3>1
  <2>2. k + 1 = Len(d.format)
    BY <1>1, <1>2, <1>5, <2>1
  <2>3. f = <<f[1]>>
    <3>1. Len(f) = 1 /\ f[1] \in Nat
      <4>1. Len(f) = 1 /\ f \in Seq(Nat)
        BY <1>2, <1>6, <2>1
      <4>2. 1 \in 1 .. Len(f)
        BY <4>1
      <4>3. QED
        BY <4>1, <4>2, ElementOfSeq
    <3>2. <<f[1]>> \in Seq(Nat) /\ Len(<<f[1]>>) = 1 /\ \A i \in 1 .. 1 : <<f[1]>>[i] = f[i]
      BY <3>1
    <3>3. QED
      BY <1>6, <3>1, <3>2, SeqEqual
  <2>4. Prints(d) = f
    BY <1>1, <1>11 DEF Prints, Printer!Expected, Printer!Char
  <2>5. stdout' = stdout \o f /\ printed' = printed + Len(f) /\ state' = 0 /\ longval' = longval
    <3>1. /\ stdout' = stdout \o <<f[1]>> /\ printed' = printed + Len(<<f[1]>>)
          /\ UNCHANGED <<state, longval>>
      BY <1>6, <1>11 DEF Printer!Text, Printer!Put, Printer!Char
    <3>2. QED
      BY <1>4, <2>3, <3>1
  <2>6. stdout' = stdout \o Prints(d) /\ printed' = printed + Len(Prints(d))
    BY <2>4, <2>5
  <2>7. args' = <<>> /\ longval' \in BOOLEAN
    BY <1>4, <1>7, <1>8, <2>1, <2>5
  <2>8. QED
    BY <2>2, <2>5, <2>6, <2>7, Finish
<1>12. QED
  BY <1>9, <1>10, <1>11

\* A conversion or escape that is read to before its letter.
LEMMA PassedOver ==
  ASSUME Printer!KprintfAssumption, NEW d \in Directives, NEW k \in Nat, k # 0,
         k \in 0 .. Len(d.format) - 1, NEW f, f = d.format, NEW n, n = Len(f), NEW c, c = f[n]
  PROVE  /\ n \in Nat \ {0} /\ KindOf(d, f, n, c) /\ n > 1
         /\ k + 1 = n \/ k + 1 \in 2 .. n - 1
<1>1. n \in Nat \ {0} /\ KindOf(d, f, n, c)
  BY Kinds
<1>2. k \in 0 .. n - 1
  OBVIOUS
<1>3. QED
  BY <1>1, <1>2

LEMMA EscapeKeeps ==
  ASSUME Printer!KprintfAssumption, PrinterInv,
         NEW before \in Seq(Directives), NEW d \in Directives, NEW k \in Nat,
         Reading(before, d, k), format' = Tail(format), said' = said, Printer!Escape
  PROVE  PrinterInv'
<1>1. PICK f : f = d.format
  OBVIOUS
<1>2. PICK n : n = Len(f)
  OBVIOUS
<1>3. PICK c : c = f[n]
  OBVIOUS
<1>4. state = 2 /\ args' = args /\ longval' = longval
  BY DEF Printer!Escape
<1>5. k # 0 /\ f[1] # 37 /\ k \in 0 .. Len(d.format) - 1 /\ args = d.args
  BY <1>1, <1>4 DEF Reading
<1>6. n \in Nat \ {0} /\ KindOf(d, f, n, c) /\ n > 1 /\ (k + 1 = n \/ k + 1 \in 2 .. n - 1)
  BY <1>1, <1>2, <1>3, <1>5, PassedOver
<1>7. f[1] = 92 /\ d.args = <<>> /\ c \in DOMAIN Printer!Escapes
      /\ \A i \in 2 .. n - 1 : f[i] \notin DOMAIN Printer!Escapes
  BY <1>5, <1>6 DEF KindOf
<1>8. Printer!ch = f[k + 1] /\ longval \in BOOLEAN
  BY <1>1, <1>2, ReadingGoesOn DEF PrinterInv
<1>9. CASE k + 1 = n
  <2>1. Printer!ch = c
    BY <1>3, <1>8, <1>9
  <2>2. Prints(d) = <<Printer!Escapes[c]>>
    BY <1>1, <1>2, <1>3, <1>7 DEF Prints, Printer!Expected, Printer!Char
  <2>3. /\ stdout' = stdout \o <<Printer!Escapes[c]>>
        /\ printed' = printed + Len(<<Printer!Escapes[c]>>) /\ state' = 0
    BY <1>7, <2>1 DEF Printer!Escape, Printer!Put
  <2>4. k + 1 = Len(d.format) /\ args' = <<>> /\ longval' \in BOOLEAN
    BY <1>1, <1>2, <1>4, <1>5, <1>7, <1>8, <1>9
  <2>5. stdout' = stdout \o Prints(d) /\ printed' = printed + Len(Prints(d))
    BY <2>2, <2>3
  <2>6. QED
    BY <2>3, <2>4, <2>5, Finish
<1>10. CASE k + 1 \in 2 .. n - 1
  <2>1. Printer!ch \notin DOMAIN Printer!Escapes
    BY <1>7, <1>8, <1>10
  <2>2. UNCHANGED <<stdout, printed, state>>
    BY <2>1 DEF Printer!Escape, Printer!Quiet
  <2>3. k + 1 < Len(d.format)
    BY <1>1, <1>2, <1>6, <1>10
  <2>4. state' = IF d.format[1] = 37 THEN 1 ELSE 2
    BY <1>1, <1>4, <1>5, <2>2
  <2>5. state' # 1 /\ longval' \in BOOLEAN
    BY <1>4, <1>8, <2>2
  <2>6. UNCHANGED <<said, args, stdout, printed>>
    BY <1>4, <2>2
  <2>7. QED
    BY <2>3, <2>4, <2>5, <2>6, GoOn
<1>11. QED
  BY <1>6, <1>9, <1>10

LEMMA ConversionKeeps ==
  ASSUME Printer!KprintfAssumption, PrinterInv,
         NEW before \in Seq(Directives), NEW d \in Directives, NEW k \in Nat,
         Reading(before, d, k), format' = Tail(format), said' = said, Printer!Conversion
  PROVE  PrinterInv'
<1>1. PICK f : f = d.format
  OBVIOUS
<1>2. PICK n : n = Len(f)
  OBVIOUS
<1>3. PICK c : c = f[n]
  OBVIOUS
<1>4. state = 1 /\ longval' = (longval \/ Printer!ch = 76)
  BY DEF Printer!Conversion, Printer!Char
<1>5. k # 0 /\ f[1] = 37 /\ k \in 0 .. Len(d.format) - 1 /\ args = d.args
  BY <1>1, <1>4 DEF Reading
<1>6. n \in Nat \ {0} /\ KindOf(d, f, n, c) /\ n > 1 /\ (k + 1 = n \/ k + 1 \in 2 .. n - 1)
  BY <1>1, <1>2, <1>3, <1>5, PassedOver
<1>7. /\ c \in Printer!Conversions \cup {37}
      /\ \A i \in 2 .. n - 1 : f[i] \notin Printer!Conversions \cup {37}
      /\ c = 37 => d.args = <<>>
      /\ c # 37 => d.args \in Seq(Int) \cup Seq(Seq(Nat)) /\ Len(d.args) = 1
      /\ c # 37 /\ c # 115 => d.args[1] \in Int
  BY <1>5, <1>6 DEF KindOf
<1>8. Printer!ch = f[k + 1] /\ longval \in BOOLEAN /\ format # <<>>
  BY <1>1, <1>2, ReadingGoesOn DEF PrinterInv
<1>9. longval' \in BOOLEAN
  BY <1>4
<1>10. longval <=> \E i \in 1 .. k : f[i] = 76
  BY <1>1, <1>4 DEF Reading
<1>11. CASE k + 1 = n
  <2>1. Printer!ch = c /\ k + 1 = Len(d.format)
    BY <1>1, <1>2, <1>3, <1>8, <1>11
  <2>2. CASE c = 37
    <3>1. Prints(d) = <<37>>
      BY <1>1, <1>2, <1>3, <1>5, <2>2 DEF Prints, Printer!Expected, Printer!Char
    <3>2. 37 \notin Printer!Conversions
      BY DEF Printer!Conversions, Printer!Char
    <3>3. stdout' = stdout \o <<37>> /\ printed' = printed + Len(<<37>>) /\ state' = 0 /\ args' = args
      BY <2>1, <2>2, <3>2 DEF Printer!Conversion, Printer!Put, Printer!Char
    <3>4. args' = <<>>
      BY <1>5, <1>7, <2>2, <3>3
    <3>5. stdout' = stdout \o Prints(d) /\ printed' = printed + Len(Prints(d))
      BY <3>1, <3>3
    <3>6. QED
      BY <1>9, <2>1, <3>3, <3>4, <3>5, Finish
  <2>3. CASE c # 37
    <3>1. c \in Printer!Conversions /\ c # 76
      BY <1>7, <2>3 DEF Printer!Conversions, Printer!Char
    <3>2. PICK a : a = d.args
      OBVIOUS
    <3>3. Head(args) = d.args[1] /\ Tail(args) = <<>>
      <4>1. a \in Seq(Int) \/ a \in Seq(Seq(Nat))
        BY <1>7, <2>3, <3>2
      <4>2. Len(a) = 1
        BY <1>7, <2>3, <3>2
      <4>3. Head(a) = a[1] /\ Tail(a) = <<>>
        <5>1. \A S : a \in Seq(S) => Head(a) = a[1] /\ Tail(a) \in Seq(S) /\ Len(Tail(a)) = 0
          <6> SUFFICES ASSUME NEW S, a \in Seq(S)
                       PROVE  Head(a) = a[1] /\ Tail(a) \in Seq(S) /\ Len(Tail(a)) = 0
            OBVIOUS
          <6>1. a # <<>>
            <7>1. a = <<>> => Len(a) = 0
              OBVIOUS
            <7>2. QED
              BY <4>2, <7>1
          <6>2. QED
            BY <4>2, <6>1, HeadTailProperties
        <5>2. \A S : \A t \in Seq(S) : Len(t) = 0 => t = <<>>
          OBVIOUS
        <5>3. QED
          BY <4>1, <5>1, <5>2, Zenon
      <4>4. QED
        BY <1>5, <3>2, <4>3
    <3>4. longval <=> \E i \in DOMAIN d.format : d.format[i] = 76
      <4>1. DOMAIN f = 1 .. k + 1
        BY <1>1, <1>2, <1>11, DirectiveType
      <4>2. f[k + 1] # 76
        BY <1>3, <1>11, <3>1
      <4>3. (\E i \in 1 .. k : f[i] = 76) <=> \E i \in 1 .. k + 1 : f[i] = 76
        BY <4>2
      <4>4. QED
        BY <1>1, <1>10, <4>1, <4>3
    <3>5. longval = \E i \in DOMAIN d.format : d.format[i] = 76
      BY <1>8, <3>4
    <3>6. d.format[1] = 37 /\ c = d.format[Len(d.format)] /\ Head(format) = c
          /\ (c # 115 => d.args[1] \in Int)
      BY <1>1, <1>2, <1>3, <1>5, <1>7, <2>1, <2>3 DEF Printer!ch
    <3>7. Printer!Converted(d.args[1]) = Prints(d)
      BY <1>8, <3>1, <3>5, <3>6, ConvertedIs
    <3>8. /\ stdout' = stdout \o Printer!Converted(Head(args))
          /\ printed' = printed + Len(Printer!Converted(Head(args)))
          /\ args' = Tail(args) /\ state' = 0
      BY <2>1, <3>1 DEF Printer!Conversion, Printer!Put
    <3>9. /\ stdout' = stdout \o Prints(d)
          /\ printed' = printed + Len(Prints(d)) /\ args' = <<>>
      BY <3>3, <3>7, <3>8
    <3>10. QED
      BY <1>9, <2>1, <3>8, <3>9, Finish
  <2>4. QED
    BY <2>2, <2>3
<1>12. CASE k + 1 \in 2 .. n - 1
  <2>1. Printer!ch \notin Printer!Conversions /\ Printer!ch # 37
    BY <1>7, <1>8, <1>12
  <2>2. UNCHANGED <<stdout, printed, args, state>>
    BY <2>1 DEF Printer!Conversion, Printer!Quiet, Printer!Char
  <2>3. k + 1 < Len(d.format)
    BY <1>1, <1>2, <1>6, <1>12
  <2>4. state' = IF d.format[1] = 37 THEN 1 ELSE 2
    BY <1>1, <1>4, <1>5, <2>2
  <2>5. longval' <=> \E i \in 1 .. k + 1 : f[i] = 76
    <3>1. (\E i \in 1 .. k + 1 : f[i] = 76) <=> (\E i \in 1 .. k : f[i] = 76) \/ f[k + 1] = 76
      OBVIOUS
    <3>2. QED
      BY <1>4, <1>8, <1>10, <3>1
  <2>6. longval' = \E i \in 1 .. k + 1 : d.format[i] = 76
    BY <1>1, <1>9, <2>5
  <2>7. UNCHANGED <<said, args, stdout, printed>>
    BY <2>2
  <2>8. QED
    BY <1>9, <2>3, <2>4, <2>6, <2>7, GoOn
<1>13. QED
  BY <1>6, <1>11, <1>12

LEMMA PrinterStep ==
  ASSUME Printer!KprintfAssumption, PrinterInv, [Printer!Next]_(Printer!vars)
  PROVE  PrinterInv'
<1>1. CASE UNCHANGED Printer!vars
  <2>1. /\ format' = format /\ args' = args /\ state' = state /\ longval' = longval
        /\ printed' = printed /\ stdout' = stdout /\ said' = said
    BY <1>1 DEF Printer!vars
  <2>2. AtEnd => AtEnd'
    BY <2>1, Zenon DEF AtEnd, Right
  <2>3. ASSUME NEW before \in Seq(Directives), NEW d \in Directives, NEW k \in Nat,
               Reading(before, d, k)
        PROVE  Reading(before, d, k)'
    BY <2>1, <2>3 DEF Reading
  <2>4. (\E before \in Seq(Directives), d \in Directives, k \in Nat : Reading(before, d, k))
          => (\E before \in Seq(Directives), d \in Directives, k \in Nat : Reading(before, d, k))'
    BY <2>3, Zenon
  <2>5. /\ said' \in Seq(Directives) /\ longval' \in BOOLEAN
        /\ stdout' \in Seq(Int) /\ printed' = Len(stdout')
    BY <2>1 DEF PrinterInv
  <2>6. QED
    BY <2>2, <2>4, <2>5, Zenon DEF PrinterInv
<1>2. ASSUME NEW d \in Directives, Printer!Say(d) PROVE PrinterInv'
  BY <1>2, SayKeeps
<1>3. CASE Printer!Turn
  <2>1. ~ AtEnd /\ format' = Tail(format) /\ said' = said
    BY <1>3 DEF Printer!Turn, AtEnd
  <2>2. PICK before \in Seq(Directives), d \in Directives, k \in Nat : Reading(before, d, k)
    BY <2>1 DEF PrinterInv
  <2>3. CASE Printer!Text
    BY <2>1, <2>2, <2>3, TextKeeps
  <2>4. CASE Printer!Conversion
    BY <2>1, <2>2, <2>4, ConversionKeeps
  <2>5. CASE Printer!Escape
    BY <2>1, <2>2, <2>5, EscapeKeeps
  <2>6. QED
    BY <1>3, <2>3, <2>4, <2>5 DEF Printer!Turn
<1>4. QED
  BY <1>1, <1>2, <1>3 DEF Printer!Next

\* kprintf prints what the directives of its format ask for, whatever the
\* sizes of the numbers, if none is %d of a negative number or %Ld of a number
\* that is no int: between two directives the output is what all the
\* directives before ask for.  With or without such directives every argument
\* is fetched, and the count that kprintf returns is the length of the output.
THEOREM FormatsAreFollowed == Printer!Spec => []FormatsAsDirected
<1>1. SUFFICES ASSUME Printer!KprintfAssumption PROVE Printer!Spec => []FormatsAsDirected
  BY LibraryAssumption
<1>2. Printer!Init => PrinterInv
  BY <1>1, PrinterInit
<1>3. PrinterInv /\ [Printer!Next]_(Printer!vars) => PrinterInv'
  BY <1>1, PrinterStep
<1>4. PrinterInv => FormatsAsDirected
  <2>1. SUFFICES ASSUME PrinterInv, format = <<>> PROVE AtEnd /\ printed = Len(stdout)
    <3>1. PrinterInv => DOMAIN said = 1 .. Len(said)
      BY DEF PrinterInv
    <3>2. QED
      BY <3>1 DEF FormatsAsDirected, Printer!FormatsAsDirected, AtEnd, Right
  <2>2. ASSUME NEW before \in Seq(Directives), NEW d \in Directives, NEW k \in Nat,
               Reading(before, d, k)
        PROVE  FALSE
    BY <1>1, <2>1, <2>2, ReadingGoesOn
  <2>3. QED
    BY <2>1, <2>2 DEF PrinterInv
<1>5. QED
  BY <1>2, <1>3, <1>4, PTL DEF Printer!Spec
=============================================================================
