----------------------------- MODULE KMallocProof -----------------------------
(***************************************************************************)
(* The heap with its headers in memory, for a heap and requests of any     *)
(* size, and clients that leave no remainder below a header: the links are *)
(* always those of two sorted lists, clients' words are left alone, and    *)
(* the memory implements the regions of RegionHeap.                        *)
(***************************************************************************)
EXTENDS KMalloc, FiniteSetTheorems, WellFoundedInduction, TLAPS

-----------------------------------------------------------------------------
(* Lists threaded through memory.                                          *)

\* The node of S after a, and the one before it: NULL if there is none.
After(S, a, b) == IF b = NULL THEN \A c \in S : c <= a
                  ELSE b \in S /\ a < b /\ \A c \in S : a < c => b <= c
Before(S, a, b) == IF b = NULL THEN \A c \in S : a <= c
                   ELSE b \in S /\ b < a /\ \A c \in S : c < a => c <= b

\* The links of m make a list of the nodes in S, sorted by address.
Threaded(m, list, S) ==
  /\ After(S, NULL, list)
  /\ \A a \in S : After(S, a, Succ(m, a)) /\ Before(S, a, Prev(m, a))

\* Nodes are a header apart.
Apart(S) == S \subseteq Addr /\ \A a, b \in S : a < b => a + Header <= b

Values == 0 .. HeapEnd
Memories == [Cells -> Values]

LEMMA Sizes == /\ HeapSize \in Nat /\ HeapSize >= 3 /\ HeapEnd \in Nat /\ HeapEnd = HeapSize + 1
               /\ Addr = 1 .. HeapSize /\ Cells = 1 .. HeapSize + 3
               /\ NULL = 0 /\ Header = 3 /\ HeapStart = 1 /\ NULL \notin Addr
  BY KMallocAssumption DEF HeapEnd, HeapStart, Addr, Cells, NULL, Header

\* A set of numbers with an element has a least one.
LEMMA LeastNumber ==
  ASSUME NEW B, B \subseteq Nat, B # {}
  PROVE  \E m \in B : \A k \in B : m <= k
<1> DEFINE T == {S \in FiniteSubsetsOf(Nat) : \E n \in B : S = 0 .. n}
<1>1. \A n \in B : 0 .. n \in T
  BY FS_Interval DEF FiniteSubsetsOf
<1>2. T # {} /\ T \subseteq FiniteSubsetsOf(Nat)
  BY <1>1
<1>3. PICK S \in T : \A R \in T : ~ (<<R, S>> \in StrictSubsetOrdering(Nat))
  <2> HIDE DEF T
  <2>1. QED
    BY <1>2, FS_StrictSubsetOrderingWellFounded, WFMin, Zenon
<1>4. PICK m \in B : S = 0 .. m
  BY <1>3
<1>5. ASSUME NEW k \in B, k < m PROVE FALSE
  <2>1. 0 .. k \in T
    BY <1>1
  <2>2. <<0 .. k, 0 .. m>> \in StrictSubsetOrdering(Nat)
    BY <1>5 DEF StrictSubsetOrdering
  <2>3. QED
    BY <1>3, <1>4, <2>1, <2>2
<1>6. QED
  BY <1>5

\* The walk along a list: the function that Path defines exists.
IsPath(path, n, m, list) ==
  path = [i \in 0 .. n |-> IF i = 0 THEN list
                           ELSE IF path[i - 1] = NULL THEN NULL ELSE Succ(m, path[i - 1])]

LEMMA PathsExist ==
  ASSUME NEW m, NEW list, NEW n \in Nat
  PROVE  \E path : IsPath(path, n, m, list)
<1> DEFINE B == {k \in Nat : ~ \E path : IsPath(path, k, m, list)}
<1>1. SUFFICES ASSUME B # {} PROVE FALSE
  OBVIOUS
<1>2. PICK k \in B : \A l \in B : k <= l
  <2>1. B \subseteq Nat
    OBVIOUS
  <2> HIDE DEF B
  <2>2. QED
    BY <1>1, <2>1, LeastNumber
<1>3. k # 0
  <2>1. IsPath([i \in 0 .. 0 |-> list], 0, m, list)
    BY DEF IsPath
  <2>2. QED
    BY <2>1
<1>4. k \in Nat /\ k - 1 \in Nat /\ k - 1 \notin B
  BY <1>2, <1>3
<1>5. PICK path : IsPath(path, k - 1, m, list)
  BY <1>4
<1> DEFINE longer == [i \in 0 .. k |->
                        IF i = k THEN IF path[k - 1] = NULL THEN NULL ELSE Succ(m, path[k - 1])
                        ELSE path[i]]
<1>6. IsPath(longer, k, m, list)
  <2>1. \A i \in 0 .. k - 1 :
          path[i] = IF i = 0 THEN list
                    ELSE IF path[i - 1] = NULL THEN NULL ELSE Succ(m, path[i - 1])
    BY <1>5 DEF IsPath
  <2>2. \A i \in 0 .. k :
          longer[i] = IF i = 0 THEN list
                      ELSE IF longer[i - 1] = NULL THEN NULL ELSE Succ(m, longer[i - 1])
    <3> SUFFICES ASSUME NEW i \in 0 .. k
                 PROVE  longer[i] = IF i = 0 THEN list
                                    ELSE IF longer[i - 1] = NULL THEN NULL
                                         ELSE Succ(m, longer[i - 1])
      OBVIOUS
    <3>1. CASE i = k
      <4>1. i # 0 /\ k - 1 \in 0 .. k /\ k - 1 # k
        BY <1>3, <1>4, <3>1
      <4>2. longer[i - 1] = path[k - 1]
        BY <3>1, <4>1
      <4>3. QED
        BY <3>1, <4>1, <4>2
    <3>2. CASE i # k
      <4>1. i \in 0 .. k - 1 /\ (i # 0 => i - 1 \in 0 .. k /\ i - 1 # k)
        BY <1>4, <3>2
      <4>2. longer[i] = path[i] /\ (i # 0 => longer[i - 1] = path[i - 1])
        BY <3>2, <4>1
      <4>3. QED
        BY <2>1, <4>1, <4>2
    <3>3. QED
      BY <3>1, <3>2
  <2>3. longer = [i \in 0 .. k |-> longer[i]]
    OBVIOUS
  <2> HIDE DEF longer
  <2>4. QED
    BY <2>2, <2>3 DEF IsPath
<1>7. QED
  BY <1>2, <1>6

LEMMA MaxNodesType == MaxNodes \in Nat /\ HeapStart + Header * MaxNodes > HeapEnd
  BY Sizes, SMT DEF MaxNodes

LEMMA PathIs ==
  ASSUME NEW m, NEW list
  PROVE  /\ Path(m, list)[0] = list
         /\ \A i \in 0 .. MaxNodes : i # 0 =>
              Path(m, list)[i] = IF Path(m, list)[i - 1] = NULL THEN NULL
                                 ELSE Succ(m, Path(m, list)[i - 1])
<1> DEFINE p == Path(m, list)
<1>1. p = CHOOSE path : IsPath(path, MaxNodes, m, list)
  BY Zenon DEF Path, IsPath
<1>2. IsPath(p, MaxNodes, m, list)
  BY <1>1, MaxNodesType, PathsExist, Zenon
<1> HIDE DEF p
<1>3. \A i \in 0 .. MaxNodes : p[i] = IF i = 0 THEN list
                                      ELSE IF p[i - 1] = NULL THEN NULL ELSE Succ(m, p[i - 1])
  BY <1>2 DEF IsPath
<1>4. 0 \in 0 .. MaxNodes
  BY MaxNodesType
<1>5. QED
  BY <1>3, <1>4 DEF p

\* The i-th node is far up the heap, and the nodes below it came before.
LEMMA PathAscends ==
  ASSUME NEW m, NEW list, NEW S, Apart(S), Threaded(m, list, S),
         NEW i \in 0 .. MaxNodes
  PROVE  LET p == Path(m, list)
         IN  \/ /\ p[i] = NULL
                /\ \A c \in S : \E j \in 0 .. i - 1 : p[j] = c
             \/ /\ p[i] \in S /\ p[i] >= HeapStart + Header * i
                /\ \A c \in S : c < p[i] => \E j \in 0 .. i - 1 : p[j] = c
<1> DEFINE p == Path(m, list)
           Ended(n) == p[n] = NULL /\ \A c \in S : \E j \in 0 .. n - 1 : p[j] = c
           At(n) == /\ p[n] \in S /\ p[n] >= HeapStart + Header * n
                    /\ \A c \in S : c < p[n] => \E j \in 0 .. n - 1 : p[j] = c
           B == {n \in 0 .. MaxNodes : ~ Ended(n) /\ ~ At(n)}
<1>1. SUFFICES ASSUME B # {} PROVE FALSE
  BY DEF p
<1>2. PICK n \in B : \A l \in B : n <= l
  <2>1. B \subseteq Nat
    OBVIOUS
  <2> HIDE DEF B
  <2>2. QED
    BY <1>1, <2>1, LeastNumber
<1>3. S \subseteq Nat /\ \A c \in S : c >= HeapStart /\ c # NULL /\ c > NULL
  BY Sizes DEF Apart
<1>4. n # 0
  <2> SUFFICES ASSUME n = 0 PROVE FALSE
    OBVIOUS
  <2>1. p[0] = list /\ After(S, NULL, list)
    BY PathIs DEF Threaded
  <2>2. CASE list = NULL
    <3>1. S = {}
      BY <1>3, <2>1, <2>2, Sizes DEF After
    <3>2. Ended(0)
      BY <2>1, <2>2, <3>1
    <3>3. QED
      BY <1>2, <3>2
  <2>3. CASE list # NULL
    <3>1. list \in S /\ \A c \in S : list <= c
      BY <1>3, <2>1, <2>3, Sizes DEF After
    <3>2. At(0)
      <4>1. p[0] >= HeapStart + Header * 0
        BY <1>3, <2>1, <3>1, Sizes
      <4>2. \A c \in S : ~ (c < p[0])
        BY <1>3, <2>1, <3>1
      <4>3. QED
        BY <2>1, <3>1, <4>1, <4>2
    <3>3. QED
      BY <1>2, <3>2
  <2>4. QED
    BY <2>2, <2>3
<1>5. n - 1 \in 0 .. MaxNodes /\ n \in 0 .. MaxNodes /\ n \in Nat /\ n - 1 \notin B
  BY <1>2, <1>4, MaxNodesType
<1>6. p[n] = IF p[n - 1] = NULL THEN NULL ELSE Succ(m, p[n - 1])
  BY <1>4, <1>5, PathIs
<1>7. \A j : j \in 0 .. n - 1 <=> j = n - 1 \/ j \in 0 .. (n - 1) - 1
  BY <1>4, <1>5
<1>8. CASE Ended(n - 1)
  <2>1. Ended(n)
    BY <1>6, <1>7, <1>8
  <2>2. QED
    BY <1>2, <2>1
<1>9. CASE At(n - 1)
  <2> DEFINE a == p[n - 1]
             b == p[n]
  <2>1. a \in S /\ a >= HeapStart + Header * (n - 1) /\ b = Succ(m, a)
    BY <1>3, <1>6, <1>9
  <2>2. After(S, a, b)
    BY <2>1 DEF Threaded
  <2>3. \A c \in S : c <= a => \E j \in 0 .. n - 1 : p[j] = c
    <3> SUFFICES ASSUME NEW c \in S, c <= a PROVE \E j \in 0 .. n - 1 : p[j] = c
      OBVIOUS
    <3>1. CASE c = a
      BY <1>7, <3>1
    <3>2. CASE c < a
      BY <1>7, <1>9, <3>2
    <3>3. a \in Nat /\ c \in Nat
      BY <1>3, <2>1
    <3> HIDE DEF a
    <3>4. c = a \/ c < a
      BY <3>3
    <3>5. QED
      BY <3>1, <3>2, <3>4
  <2> HIDE DEF a
  <2>4. CASE b = NULL
    <3>1. \A c \in S : c <= a
      BY <2>2, <2>4 DEF After
    <3>2. Ended(n)
      BY <2>3, <2>4, <3>1
    <3>3. QED
      BY <1>2, <3>2
  <2>5. CASE b # NULL
    <3>1. b \in S /\ a < b /\ \A c \in S : a < c => b <= c
      BY <2>2, <2>5 DEF After
    <3>2. b >= HeapStart + Header * n
      <4>1. a + Header <= b
        BY <2>1, <3>1 DEF Apart
      <4> HIDE DEF b
      <4>2. QED
        BY <1>3, <1>5, <2>1, <3>1, <4>1, Sizes
    <3>3. \A c \in S : c < b => c <= a
      <4> HIDE DEF b
      <4>1. QED
        BY <1>3, <2>1, <3>1
    <3>4. At(n)
      BY <2>3, <3>1, <3>2, <3>3
    <3>5. QED
      BY <1>2, <3>4
  <2>6. QED
    BY <2>4, <2>5
<1>10. QED
  BY <1>5, <1>8, <1>9

\* The places the walk visits are the nodes.
LEMMA NodesOfThreaded ==
  ASSUME NEW m, NEW list, NEW S, Apart(S), Threaded(m, list, S)
  PROVE  {Path(m, list)[i] : i \in 0 .. MaxNodes} \ {NULL} = S
<1> DEFINE p == Path(m, list)
<1>1. \A i \in 0 .. MaxNodes :
        \/ p[i] = NULL /\ \A c \in S : \E j \in 0 .. i - 1 : p[j] = c
        \/ /\ p[i] \in S /\ p[i] >= HeapStart + Header * i
           /\ \A c \in S : c < p[i] => \E j \in 0 .. i - 1 : p[j] = c
  BY PathAscends
<1>2. MaxNodes \in 0 .. MaxNodes /\ \A j \in 0 .. MaxNodes - 1 : j \in 0 .. MaxNodes
  BY MaxNodesType
<1>3. S \subseteq Nat /\ NULL \notin S /\ \A c \in S : c < HeapEnd
  BY Sizes DEF Apart
<1>4. p[MaxNodes] = NULL
  <2> HIDE DEF p
  <2>1. \A c \in S : ~ (c >= HeapStart + Header * MaxNodes)
    BY <1>3, MaxNodesType, Sizes
  <2>2. QED
    BY <1>1, <1>2, <2>1
<1> HIDE DEF p
<1>5. \A c \in S : \E j \in 0 .. MaxNodes : p[j] = c
  <2>1. p[MaxNodes] \notin S
    BY <1>3, <1>4
  <2>2. QED
    BY <1>1, <1>2, <2>1
<1>6. \A i \in 0 .. MaxNodes : p[i] = NULL \/ p[i] \in S
  BY <1>1
<1>7. {p[i] : i \in 0 .. MaxNodes} \ {NULL} = S
  BY <1>3, <1>5, <1>6
<1>8. QED
  BY <1>7 DEF p

\* The loops: they end at the first node where they stop, or past the end.
LEMMA WalkStops ==
  ASSUME NEW m, NEW list, NEW S, Apart(S), Threaded(m, list, S), NEW stops
  PROVE  LET w == WalkUntil(m, list, stops)
         IN  \/ /\ w = NULL /\ S \cap stops = {}
                /\ list = NULL \/ \E c \in S : Succ(m, c) = NULL
             \/ w \in S \cap stops /\ \A c \in S : c < w => c \notin stops
<1> DEFINE p == Path(m, list)
           ends == stops \cup {NULL}
           B == {i \in 0 .. MaxNodes : p[i] \in ends}
           Stop(i) == p[i] \in ends /\ \A j \in 0 .. i - 1 : p[j] \notin ends
           w == WalkUntil(m, list, stops)
<1>1. \A i \in 0 .. MaxNodes :
        \/ p[i] = NULL /\ \A c \in S : \E j \in 0 .. i - 1 : p[j] = c
        \/ /\ p[i] \in S /\ p[i] >= HeapStart + Header * i
           /\ \A c \in S : c < p[i] => \E j \in 0 .. i - 1 : p[j] = c
  BY PathAscends
<1>2. MaxNodes \in 0 .. MaxNodes
  BY MaxNodesType
<1>3. S \subseteq Nat /\ NULL \notin S /\ \A c \in S : c < HeapEnd
  BY Sizes DEF Apart
<1>4. B # {}
  <2> HIDE DEF p
  <2>1. \A c \in S : ~ (c >= HeapStart + Header * MaxNodes)
    BY <1>3, MaxNodesType, Sizes
  <2>2. p[MaxNodes] = NULL
    BY <1>1, <1>2, <2>1
  <2>3. QED
    BY <1>2, <2>2
<1>5. \E i \in 0 .. MaxNodes : Stop(i)
  <2> HIDE DEF p, ends
  <2>1. B \subseteq Nat
    OBVIOUS
  <2>2. PICK i \in B : \A k \in B : i <= k
    <3> HIDE DEF B
    <3>1. QED
      BY <1>4, <2>1, LeastNumber
  <2>3. \A j \in 0 .. i - 1 : j \in 0 .. MaxNodes /\ ~ (i <= j)
    <3>1. i \in 0 .. MaxNodes
      OBVIOUS
    <3> HIDE DEF B
    <3>2. QED
      BY <3>1, MaxNodesType
  <2>4. QED
    BY <2>2, <2>3
<1>6. PICK i \in 0 .. MaxNodes : Stop(i) /\ w = p[i]
  <2> DEFINE k == CHOOSE n \in 0 .. MaxNodes : Stop(n)
  <2>1. k \in 0 .. MaxNodes /\ Stop(k)
    <3> HIDE DEF Stop
    <3>1. QED
      BY <1>5
  <2>2. w = p[k]
    BY DEF WalkUntil
  <2> HIDE DEF k, Stop, w
  <2>3. QED
    BY <2>1, <2>2
<1>7. CASE p[i] = NULL
  <2>1. \A c \in S : \E j \in 0 .. i - 1 : p[j] = c
    BY <1>1, <1>3, <1>7
  <2>2. S \cap stops = {}
    <3> HIDE DEF p
    <3>1. QED
      BY <1>6, <2>1
  <2>3. CASE i = 0
    <3>1. list = NULL
      BY <1>7, <2>3, PathIs
    <3>2. QED
      BY <1>6, <1>7, <2>2, <3>1
  <2>4. CASE i # 0
    <3>1. i - 1 \in 0 .. MaxNodes /\ i - 1 \in 0 .. i - 1
      BY <2>4, MaxNodesType
    <3>2. p[i - 1] # NULL
      BY <1>6, <3>1
    <3>3. p[i - 1] \in S
      BY <1>1, <3>1, <3>2
    <3>4. Succ(m, p[i - 1]) = NULL
      BY <1>7, <2>4, <3>2, PathIs
    <3>5. QED
      BY <1>6, <1>7, <2>2, <3>3, <3>4
  <2>5. QED
    BY <2>3, <2>4
<1>8. CASE p[i] # NULL
  <2>1. p[i] \in S /\ \A c \in S : c < p[i] => \E j \in 0 .. i - 1 : p[j] = c
    BY <1>1, <1>8
  <2> HIDE DEF p
  <2>2. p[i] \in stops
    BY <1>6, <1>8
  <2>3. \A c \in S : c < p[i] => c \notin stops
    BY <1>6, <2>1
  <2>4. QED
    BY <1>6, <2>1, <2>2, <2>3
<1>9. QED
  BY <1>7, <1>8

-----------------------------------------------------------------------------
(* Nodes that come and go.                                                 *)

\* In a list without one of its nodes, the one before it is followed by the one
\* after it.
LEMMA OrderWithout ==
  ASSUME NEW S, S \subseteq Nat \ {NULL}, NEW node \in S, NEW prev, NEW next,
         After(S, node, next), Before(S, node, prev)
  PROVE  /\ \A a \in (S \ {node}) \cup {NULL} : \A x :
              After(S, a, x) => After(S \ {node}, a, IF a = prev THEN next ELSE x)
         /\ \A a \in S \ {node} : \A x :
              Before(S, a, x) => Before(S \ {node}, a, IF a = next THEN prev ELSE x)
<1>0. /\ \A c \in S : c \in Nat /\ c > 0
      /\ NULL = 0
  BY DEF NULL
<1>1. ASSUME NEW a \in (S \ {node}) \cup {NULL}, NEW x, After(S, a, x)
      PROVE  After(S \ {node}, a, IF a = prev THEN next ELSE x)
  <2>1. CASE a = prev
    <3>1. CASE next = NULL
      <4>1. \A c \in S : c <= node
        BY <3>1 DEF After
      <4>2. \A c \in S \ {node} : c <= a
        BY <1>0, <2>1, <4>1 DEF Before
      <4>3. QED
        BY <2>1, <3>1, <4>2 DEF After
    <3>2. CASE next # NULL
      <4>1. next \in S /\ node < next /\ \A c \in S : node < c => next <= c
        BY <3>2 DEF After
      <4>2. a < node /\ \A c \in S : c < node => c <= a
        BY <1>0, <2>1 DEF Before
      <4>3. \A c \in S \ {node} : a < c => next <= c
        BY <1>0, <1>1, <4>1, <4>2
      <4>4. QED
        BY <1>0, <1>1, <2>1, <3>2, <4>1, <4>2, <4>3 DEF After
    <3>3. QED
      BY <3>1, <3>2
  <2>2. CASE a # prev
    <3>1. x # node
      <4> SUFFICES ASSUME x = node PROVE FALSE
        OBVIOUS
      <4>1. a < node /\ \A c \in S : a < c => node <= c
        BY <1>0, <1>1 DEF After
      <4>2. CASE prev = NULL
        <5>1. a \in S /\ node <= a
          BY <2>2, <4>2 DEF Before
        <5>2. QED
          BY <1>0, <4>1, <5>1
      <4>3. CASE prev # NULL
        <5>1. prev \in S /\ prev < node /\ \A c \in S : c < node => c <= prev
          BY <4>3 DEF Before
        <5>2. a = NULL \/ a <= prev
          BY <4>1, <5>1
        <5>3. QED
          BY <1>0, <1>1, <2>2, <4>1, <5>1, <5>2
      <4>4. QED
        BY <4>2, <4>3
    <3>2. QED
      BY <1>1, <2>2, <3>1 DEF After
  <2>3. QED
    BY <2>1, <2>2
<1>2. ASSUME NEW a \in S \ {node}, NEW x, Before(S, a, x)
      PROVE  Before(S \ {node}, a, IF a = next THEN prev ELSE x)
  <2>1. CASE a = next
    <3>0. next \in S /\ node < next /\ \A c \in S : node < c => next <= c
      BY <1>0, <2>1 DEF After
    <3>1. CASE prev = NULL
      <4>1. \A c \in S : node <= c
        BY <3>1 DEF Before
      <4>2. \A c \in S \ {node} : a <= c
        BY <1>0, <2>1, <3>0, <4>1
      <4>3. QED
        BY <2>1, <3>1, <4>2 DEF Before
    <3>2. CASE prev # NULL
      <4>1. prev \in S /\ prev < node /\ \A c \in S : c < node => c <= prev
        BY <3>2 DEF Before
      <4>2. \A c \in S \ {node} : c < a => c <= prev
        BY <1>0, <2>1, <3>0, <4>1
      <4>3. prev # node /\ prev < a
        BY <1>0, <2>1, <3>0, <4>1
      <4>4. QED
        BY <2>1, <3>2, <4>1, <4>2, <4>3 DEF Before
    <3>3. QED
      BY <3>1, <3>2
  <2>2. CASE a # next
    <3>1. x # node
      <4> SUFFICES ASSUME x = node PROVE FALSE
        OBVIOUS
      <4>1. node < a /\ \A c \in S : c < a => c <= node
        BY <1>0, <1>2 DEF Before
      <4>2. CASE next = NULL
        <5>1. a <= node
          BY <4>2 DEF After
        <5>2. QED
          BY <1>0, <4>1, <5>1
      <4>3. CASE next # NULL
        <5>1. next \in S /\ node < next /\ \A c \in S : node < c => next <= c
          BY <4>3 DEF After
        <5>2. next <= a
          BY <4>1, <5>1
        <5>3. QED
          BY <1>0, <2>2, <4>1, <5>1, <5>2
      <4>4. QED
        BY <4>2, <4>3
    <3>2. QED
      BY <1>2, <2>2, <3>1 DEF Before
  <2>3. QED
    BY <2>1, <2>2
<1>3. QED
  BY <1>1, <1>2

\* A new node between the two that are next to its place.
LEMMA OrderWith ==
  ASSUME NEW S, S \subseteq Nat \ {NULL}, NEW node \in Nat \ {NULL}, node \notin S,
         NEW prev, NEW next, After(S, node, next), Before(S, node, prev)
  PROVE  /\ After(S \cup {node}, node, next) /\ Before(S \cup {node}, node, prev)
         /\ \A a \in S \cup {NULL} : \A x :
              After(S, a, x) => After(S \cup {node}, a, IF a = prev THEN node ELSE x)
         /\ \A a \in S : \A x :
              Before(S, a, x) => Before(S \cup {node}, a, IF a = next THEN node ELSE x)
<1>0. /\ \A c \in S : c \in Nat /\ c > 0
      /\ NULL = 0 /\ node > 0 /\ node \in Nat
  BY DEF NULL
<1>1. After(S \cup {node}, node, next) /\ Before(S \cup {node}, node, prev)
  BY <1>0 DEF After, Before
<1>2. ASSUME NEW a \in S \cup {NULL}, NEW x, After(S, a, x)
      PROVE  After(S \cup {node}, a, IF a = prev THEN node ELSE x)
  <2>1. CASE a = prev
    <3>1. a < node /\ \A c \in S : c < node => c <= a
      <4>1. CASE prev = NULL
        BY <1>0, <2>1, <4>1 DEF Before
      <4>2. CASE prev # NULL
        BY <2>1, <4>2 DEF Before
      <4>3. QED
        BY <4>1, <4>2
    <3>2. \A c \in S \cup {node} : a < c => node <= c
      BY <1>0, <1>2, <3>1
    <3>3. QED
      BY <1>0, <2>1, <3>1, <3>2 DEF After
  <2>2. CASE a # prev
    <3>1. CASE x = NULL
      <4>1. \A c \in S : c <= a
        BY <1>2, <3>1 DEF After
      <4>2. node <= a
        <5>1. CASE prev = NULL
          <6>1. a \in S
            BY <2>2, <5>1
          <6>2. QED
            BY <5>1, <6>1 DEF Before
        <5>2. CASE prev # NULL
          <6>1. prev \in S /\ \A c \in S : c < node => c <= prev
            BY <5>2 DEF Before
          <6>2. prev <= a
            BY <4>1, <6>1
          <6>3. a \in S /\ a # node
            BY <1>0, <1>2, <6>1, <6>2
          <6>4. ~ (a < node)
            BY <1>0, <2>2, <6>1, <6>2, <6>3
          <6>5. QED
            BY <1>0, <6>3, <6>4
        <5>3. QED
          BY <5>1, <5>2
      <4>3. QED
        BY <2>2, <3>1, <4>1, <4>2 DEF After
    <3>2. CASE x # NULL
      <4>1. x \in S /\ a < x /\ \A c \in S : a < c => x <= c
        BY <1>2, <3>2 DEF After
      <4>2. a < node => x <= node
        <5> SUFFICES ASSUME a < node PROVE x <= node
          OBVIOUS
        <5>1. prev # NULL
          <6> SUFFICES ASSUME prev = NULL PROVE FALSE
            OBVIOUS
          <6>1. a \in S /\ node <= a
            BY <2>2 DEF Before
          <6>2. QED
            BY <1>0, <6>1
        <5>2. prev \in S /\ prev < node /\ \A c \in S : c < node => c <= prev
          BY <5>1 DEF Before
        <5>3. a < prev
          BY <1>0, <1>2, <2>2, <5>2
        <5>4. x <= prev
          BY <4>1, <5>2, <5>3
        <5>5. QED
          BY <1>0, <4>1, <5>2, <5>4
      <4>3. QED
        BY <2>2, <3>2, <4>1, <4>2 DEF After
    <3>3. QED
      BY <3>1, <3>2
  <2>3. QED
    BY <2>1, <2>2
<1>3. ASSUME NEW a \in S, NEW x, Before(S, a, x)
      PROVE  Before(S \cup {node}, a, IF a = next THEN node ELSE x)
  <2>1. CASE a = next
    <3>1. node < a /\ \A c \in S : node < c => a <= c
      BY <1>0, <2>1 DEF After
    <3>2. \A c \in S \cup {node} : c < a => c <= node
      BY <1>0, <3>1
    <3>3. QED
      BY <1>0, <2>1, <3>1, <3>2 DEF Before
  <2>2. CASE a # next
    <3>1. CASE x = NULL
      <4>1. \A c \in S : a <= c
        BY <1>3, <3>1 DEF Before
      <4>2. a <= node
        <5>1. CASE next = NULL
          BY <5>1 DEF After
        <5>2. CASE next # NULL
          <6>1. next \in S /\ \A c \in S : node < c => next <= c
            BY <5>2 DEF After
          <6>2. ~ (node < a)
            BY <1>0, <2>2, <4>1, <6>1
          <6>3. QED
            BY <1>0, <6>2
        <5>3. QED
          BY <5>1, <5>2
      <4>3. QED
        BY <2>2, <3>1, <4>1, <4>2 DEF Before
    <3>2. CASE x # NULL
      <4>1. x \in S /\ x < a /\ \A c \in S : c < a => c <= x
        BY <1>3, <3>2 DEF Before
      <4>2. node < a => node <= x
        <5> SUFFICES ASSUME node < a PROVE node <= x
          OBVIOUS
        <5>1. next # NULL
          <6> SUFFICES ASSUME next = NULL PROVE FALSE
            OBVIOUS
          <6>1. a <= node
            BY DEF After
          <6>2. QED
            BY <1>0, <6>1
        <5>2. next \in S /\ node < next /\ \A c \in S : node < c => next <= c
          BY <5>1 DEF After
        <5>3. next < a
          BY <1>0, <2>2, <5>2
        <5>4. next <= x
          BY <4>1, <5>2, <5>3
        <5>5. QED
          BY <1>0, <4>1, <5>2, <5>4
      <4>3. QED
        BY <2>2, <3>2, <4>1, <4>2 DEF Before
    <3>3. QED
      BY <3>1, <3>2
  <2>3. QED
    BY <2>1, <2>2
<1>4. QED
  BY <1>1, <1>2, <1>3

-----------------------------------------------------------------------------
(* The list routines.                                                      *)

LinkCells(S) == {a + 1 : a \in S} \cup {a + 2 : a \in S}

\* Links are in cells of their own.
LEMMA LinksApart ==
  ASSUME NEW S, Apart(S)
  PROVE  /\ \A a \in S : {a, a + 1, a + 2} \subseteq Cells /\ a \in Nat /\ a # NULL
         /\ \A a, b \in S : a + 1 # b + 2 /\ a # b + 1 /\ a # b + 2
         /\ \A a, b \in S : a # b => a + 1 # b + 1 /\ a + 2 # b + 2
         /\ S \cap LinkCells(S) = {}
<1>1. /\ \A a \in S : a \in 1 .. HeapSize
      /\ \A a, b \in S : a < b => a + 3 <= b
      /\ Cells = 1 .. HeapSize + 3 /\ HeapSize \in Nat /\ NULL = 0
  BY Sizes DEF Apart
<1>2. \A a, b \in S : a + 1 # b + 2 /\ a # b + 1 /\ a # b + 2
  <2> SUFFICES ASSUME NEW a \in S, NEW b \in S PROVE a + 1 # b + 2 /\ a # b + 1 /\ a # b + 2
    OBVIOUS
  <2>1. a \in Nat /\ b \in Nat /\ (b < a => b + 3 <= a)
    BY <1>1
  <2>2. QED
    BY <2>1
<1>3. QED
  BY <1>1, <1>2 DEF LinkCells

\* Threads are in the links.
LEMMA ThreadKept ==
  ASSUME NEW m, NEW r, NEW list, NEW S, Threaded(m, list, S),
         \A c \in LinkCells(S) : r[c] = m[c]
  PROVE  Threaded(r, list, S)
<1>1. \A a \in S : Succ(r, a) = Succ(m, a) /\ Prev(r, a) = Prev(m, a)
  BY DEF LinkCells, Succ, Prev
<1>2. QED
  BY <1>1 DEF Threaded

LEMMA LinksTyped ==
  ASSUME NEW m, NEW list, NEW S, Apart(S), Threaded(m, list, S)
  PROVE  /\ list \in S \cup {NULL} /\ (list = NULL <=> S = {})
         /\ \A a \in S : Succ(m, a) \in S \cup {NULL} /\ Prev(m, a) \in S \cup {NULL}
         /\ S \cup {NULL} \subseteq Values /\ S \subseteq Nat \ {NULL}
<1>1. S \subseteq 1 .. HeapSize /\ HeapEnd = HeapSize + 1 /\ HeapSize \in Nat /\ NULL = 0
  BY Sizes DEF Apart
<1>2. list \in S \cup {NULL} /\ (list = NULL <=> S = {})
  <2>1. CASE list = NULL
    <3>1. \A c \in S : c <= 0
      BY <1>1, <2>1 DEF Threaded, After
    <3>2. S = {}
      BY <1>1, <3>1
    <3>3. QED
      BY <2>1, <3>2
  <2>2. CASE list # NULL
    BY <2>2 DEF Threaded, After
  <2>3. QED
    BY <2>1, <2>2
<1>3. \A a \in S : Succ(m, a) \in S \cup {NULL} /\ Prev(m, a) \in S \cup {NULL}
  BY DEF Threaded, After, Before
<1>4. QED
  BY <1>1, <1>2, <1>3 DEF Values

\* prev->next = v and next->prev = u, where there are such nodes.
Relinked(m, prev, v, next, u) == SetPrev(SetSucc(m, prev, v), next, u)

IsRelinked(r, S, m, prev, v, next, u) ==
  /\ r \in Memories
  /\ \A a \in S : /\ Succ(r, a) = IF a = prev THEN v ELSE Succ(m, a)
                  /\ Prev(r, a) = IF a = next THEN u ELSE Prev(m, a)
  /\ \A c \in Cells : (prev # NULL => c # prev + 2) /\ (next # NULL => c # next + 1)
                        => r[c] = m[c]

LEMMA RelinkedIs ==
  ASSUME NEW m \in Memories, NEW S \in SUBSET Addr, Apart(S), NEW prev \in S \cup {NULL},
         NEW next \in S \cup {NULL}, NEW u \in Values, NEW v \in Values
  PROVE  IsRelinked(Relinked(m, prev, v, next, u), S, m, prev, v, next, u)
<1> DEFINE q == SetSucc(m, prev, v)
           r == SetPrev(q, next, u)
<1>1. /\ \A a \in S : {a, a + 1, a + 2} \subseteq Cells /\ a \in Nat /\ a # NULL
      /\ \A a, b \in S : a + 1 # b + 2 /\ a # b + 1 /\ a # b + 2
      /\ \A a, b \in S : a # b => a + 1 # b + 1 /\ a + 2 # b + 2
  BY LinksApart
<1>2. /\ q \in Memories
      /\ \A c \in Cells : q[c] = IF prev # NULL /\ c = prev + 2 THEN v ELSE m[c]
  BY <1>1 DEF SetSucc, Memories
<1> HIDE DEF q
<1>3. /\ r \in Memories
      /\ \A c \in Cells : r[c] = IF next # NULL /\ c = next + 1 THEN u ELSE q[c]
  BY <1>1, <1>2 DEF SetPrev, Memories
<1> HIDE DEF r
<1>4. ASSUME NEW a \in S
      PROVE  /\ Succ(r, a) = IF a = prev THEN v ELSE Succ(m, a)
             /\ Prev(r, a) = IF a = next THEN u ELSE Prev(m, a)
  <2>1. a + 1 \in Cells /\ a + 2 \in Cells /\ a # NULL
    BY <1>1
  <2>2. next # NULL => a + 2 # next + 1
    BY <1>1
  <2>3. prev # NULL => a + 1 # prev + 2
    BY <1>1
  <2>4. (a + 2 = prev + 2 /\ prev # NULL) <=> a = prev
    BY <1>1
  <2>5. (a + 1 = next + 1 /\ next # NULL) <=> a = next
    BY <1>1
  <2>6. r[a + 2] = q[a + 2] /\ q[a + 2] = IF a = prev THEN v ELSE m[a + 2]
    BY <1>2, <1>3, <2>1, <2>2, <2>4
  <2>7. q[a + 1] = m[a + 1] /\ r[a + 1] = IF a = next THEN u ELSE q[a + 1]
    BY <1>2, <1>3, <2>1, <2>3, <2>5
  <2>8. QED
    BY <2>6, <2>7 DEF Succ, Prev
<1>5. \A c \in Cells : (prev # NULL => c # prev + 2) /\ (next # NULL => c # next + 1) => r[c] = m[c]
  BY <1>2, <1>3
<1>6. Relinked(m, prev, v, next, u) = r
  BY DEF Relinked, q, r
<1>7. QED
  BY <1>3, <1>4, <1>5, <1>6 DEF IsRelinked

\* A list operation leaves a list of the nodes in T, and writes only into
\* their links.
Makes(op, T, m) == /\ op.mem \in Memories /\ Threaded(op.mem, op.list, T)
                   /\ \A c \in Cells : c \notin LinkCells(T) => op.mem[c] = m[c]

\* kmalloc_delete_node takes a node off its list and writes only into links of
\* the others.
LEMMA DeleteNodeIs ==
  ASSUME NEW m \in Memories, NEW list \in Values, NEW S, Apart(S),
         Threaded(m, list, S), NEW node \in S
  PROVE  Makes(DeleteNode(m, list, node), S \ {node}, m)
<1> DEFINE prev == Prev(m, node)
           next == Succ(m, node)
           r == Relinked(m, prev, next, next, prev)
           first == IF prev = NULL THEN next ELSE list
           T == S \ {node}
           op == DeleteNode(m, list, node)
<1>1. /\ prev \in S \cup {NULL} /\ next \in S \cup {NULL}
      /\ prev \in Values /\ next \in Values /\ S \subseteq Nat \ {NULL}
  BY LinksTyped
<1>2. After(S, NULL, list) /\ After(S, node, next) /\ Before(S, node, prev)
  BY DEF Threaded
<1>3. prev # node /\ next # node
  BY <1>1, <1>2 DEF After, Before
<1>4. WalkUntil(m, list, {node}) # NULL
  <2> DEFINE w == WalkUntil(m, list, {node})
  <2>1. \/ w = NULL /\ S \cap {node} = {}
        \/ w \in S \cap {node}
    BY WalkStops
  <2> HIDE DEF w
  <2>2. w # NULL
    BY <1>1, <2>1
  <2>3. QED
    BY <2>2 DEF w
<1>5. op.mem = r /\ op.list = first
  BY <1>4 DEF DeleteNode, ListOp, Relinked
<1>6. /\ r \in Memories
      /\ \A a \in T : /\ Succ(r, a) = IF a = prev THEN next ELSE Succ(m, a)
                      /\ Prev(r, a) = IF a = next THEN prev ELSE Prev(m, a)
      /\ \A c \in Cells : (prev # NULL => c # prev + 2) /\ (next # NULL => c # next + 1) => r[c] = m[c]
  <2>1. Apart(T) /\ T \in SUBSET Addr
    BY DEF Apart
  <2>2. prev \in T \cup {NULL} /\ next \in T \cup {NULL}
    BY <1>1, <1>3
  <2>3. prev \in Values /\ next \in Values
    BY <1>1
  <2> HIDE DEF prev, next, T, r
  <2>4. IsRelinked(r, T, m, prev, next, next, prev)
    BY <2>1, <2>2, <2>3, RelinkedIs DEF r
  <2>5. QED
    BY <2>4 DEF IsRelinked
<1>7. \A a \in T : After(S, a, Succ(m, a)) /\ Before(S, a, Prev(m, a))
  BY DEF Threaded
<1>8. Threaded(r, first, T)
  <2> HIDE DEF prev, next, r
  <2>1. /\ \A a \in T \cup {NULL} : \A x : After(S, a, x) => After(T, a, IF a = prev THEN next ELSE x)
        /\ \A a \in T : \A x : Before(S, a, x) => Before(T, a, IF a = next THEN prev ELSE x)
    BY <1>1, <1>2, OrderWithout
  <2>2. After(T, NULL, first)
    BY <1>2, <2>1
  <2> HIDE DEF first, T
  <2>3. ASSUME NEW a \in T PROVE After(T, a, Succ(r, a)) /\ Before(T, a, Prev(r, a))
    <3>1. Succ(r, a) = (IF a = prev THEN next ELSE Succ(m, a)) /\ After(S, a, Succ(m, a))
      BY <1>6, <1>7
    <3>2. Prev(r, a) = (IF a = next THEN prev ELSE Prev(m, a)) /\ Before(S, a, Prev(m, a))
      BY <1>6, <1>7
    <3>3. QED
      BY <2>1, <3>1, <3>2, Zenon
  <2>4. QED
    BY <2>2, <2>3 DEF Threaded
<1>9. \A c \in Cells : c \notin LinkCells(T) => r[c] = m[c]
  <2>1. (prev # NULL => prev \in T) /\ (next # NULL => next \in T)
    BY <1>1, <1>3
  <2>2. (prev # NULL => prev + 2 \in LinkCells(T)) /\ (next # NULL => next + 1 \in LinkCells(T))
    BY <2>1 DEF LinkCells
  <2> HIDE DEF prev, next, r, T
  <2>3. QED
    BY <1>6, <2>2
<1>10. QED
  <2> HIDE DEF r, first, T, op
  <2>1. /\ op.mem \in Memories /\ Threaded(op.mem, op.list, T)
        /\ \A c \in Cells : c \notin LinkCells(T) => op.mem[c] = m[c]
    BY <1>5, <1>6, <1>8, <1>9
  <2>2. QED
    BY <2>1 DEF op, T, Makes

\* kmalloc_insert puts a node in its place, and writes only into links.
LEMMA InsertIs ==
  ASSUME NEW m \in Memories, NEW list \in Values, NEW S, NEW node \in Addr,
         node \notin S, Apart(S \cup {node}), Threaded(m, list, S),
         S = {} => Prev(m, node) = NULL /\ Succ(m, node) = NULL
  PROVE  Makes(Insert(m, list, node), S \cup {node}, m)
<1> DEFINE T == S \cup {node}
           op == Insert(m, list, node)
<1>1. Apart(S) /\ T \in SUBSET Addr /\ S \in SUBSET Addr
  BY DEF Apart
<1>2. /\ list \in S \cup {NULL} /\ (list = NULL <=> S = {})
      /\ S \cup {NULL} \subseteq Values /\ S \subseteq Nat \ {NULL}
  BY <1>1, LinksTyped
<1>3. node \in Nat /\ node # NULL /\ node \in Values /\ NULL = 0
  BY Sizes DEF Values
<1>4. CASE S = {}
  <2>1. op.mem = m /\ op.list = node
    BY <1>2, <1>4 DEF Insert, ListOp
  <2>2. T = {node}
    BY <1>4
  <2>3. Threaded(m, node, {node})
    BY <1>3, <1>4 DEF Threaded, After, Before
  <2>4. QED
    BY <2>1, <2>2, <2>3 DEF Makes
<1>5. CASE S # {}
  <2> DEFINE stops == {c \in Addr : Succ(m, c) = NULL \/ c >= node}
             curr == WalkUntil(m, list, stops)
             prev == IF node < curr THEN Prev(m, curr) ELSE curr
             next == IF node < curr THEN curr ELSE Succ(m, curr)
             first == SetPrev(m, node, prev)
             linked == SetSucc(first, node, next)
             r == Relinked(linked, prev, node, next, node)
             head == IF prev = NULL THEN node ELSE list
  <2>1. op.mem = r /\ op.list = head
    BY <1>2, <1>5 DEF Insert, ListOp, Relinked
  <2>2. curr \in S /\ curr \in stops /\ \A c \in S : c < curr => c \notin stops
    <3>1. \/ /\ curr = NULL /\ S \cap stops = {}
             /\ list = NULL \/ \E c \in S : Succ(m, c) = NULL
          \/ curr \in S \cap stops /\ \A c \in S : c < curr => c \notin stops
      BY <1>1, WalkStops
    <3>2. \A c \in S : c \in Addr
      BY <1>1
    <3> HIDE DEF curr
    <3>3. QED
      BY <1>2, <1>5, <3>1, <3>2
  <2>3. \A c \in S : c < curr => c < node
    BY <1>1, <1>2, <1>3, <2>2
  <2>4. Succ(m, curr) = NULL \/ curr >= node
    BY <2>2
  <2> HIDE DEF curr
  <2>5. curr \in Nat /\ curr # node /\ curr # NULL
    BY <1>2, <2>2
  <2>6. After(S, curr, Succ(m, curr)) /\ Before(S, curr, Prev(m, curr)) /\ After(S, NULL, list)
    BY <2>2 DEF Threaded
  <2>7. After(S, node, next) /\ Before(S, node, prev)
    <3>1. CASE node < curr
      <4>1. \A c \in S : node < c => curr <= c
        BY <1>2, <1>3, <2>3, <2>5
      <4>2. After(S, node, curr)
        BY <2>2, <2>5, <3>1, <4>1 DEF After
      <4> DEFINE b == Prev(m, curr)
      <4>3. Before(S, node, b)
        <5>0. Before(S, curr, b)
          BY <2>6
        <5> HIDE DEF b
        <5>1. CASE b = NULL
          <6>1. \A c \in S : node <= c
            BY <1>2, <1>3, <2>5, <3>1, <5>0, <5>1 DEF Before
          <6>2. QED
            BY <5>1, <6>1 DEF Before
        <5>2. CASE b # NULL
          <6>1. b \in S /\ b < curr /\ \A c \in S : c < curr => c <= b
            BY <5>0, <5>2 DEF Before
          <6>2. b < node /\ \A c \in S : c < node => c <= b
            BY <1>2, <1>3, <2>3, <2>5, <3>1, <6>1
          <6>3. QED
            BY <5>2, <6>1, <6>2 DEF Before
        <5>3. QED
          BY <5>1, <5>2
      <4>4. next = curr /\ prev = b
        BY <3>1
      <4>5. QED
        BY <4>2, <4>3, <4>4
    <3>2. CASE curr < node
      <4>1. Succ(m, curr) = NULL
        BY <1>3, <2>4, <2>5, <3>2
      <4>2. \A c \in S : c <= curr
        BY <2>6, <4>1 DEF After
      <4>3. prev = curr /\ next = NULL
        BY <1>3, <2>5, <3>2, <4>1
      <4>4. \A c \in S : c <= node
        BY <1>2, <1>3, <2>5, <3>2, <4>2
      <4>5. QED
        BY <1>3, <2>2, <2>5, <3>2, <4>2, <4>3, <4>4 DEF After, Before
    <3>3. QED
      BY <1>3, <2>5, <3>1, <3>2
  <2>8. prev \in S \cup {NULL} /\ next \in S \cup {NULL}
    BY <2>7 DEF After, Before
  <2>9. prev \in Values /\ next \in Values
    BY <1>2, <2>8
  <2> HIDE DEF prev, next
  <2>10. /\ node + 1 \in Cells /\ node + 2 \in Cells /\ node + 1 # node + 2
         /\ \A a \in S : a + 1 # node + 1 /\ a + 1 # node + 2 /\ a + 2 # node + 1 /\ a + 2 # node + 2
    <3>1. node \in T /\ \A a \in S : a \in T /\ a # node
      OBVIOUS
    <3> HIDE DEF T
    <3>2. QED
      BY <1>3, <3>1, LinksApart
  <2>11. first \in Memories /\ \A c \in Cells : first[c] = IF c = node + 1 THEN prev ELSE m[c]
    BY <1>3, <2>9, <2>10 DEF SetPrev, Memories
  <2> HIDE DEF first
  <2>12. linked \in Memories /\ \A c \in Cells : linked[c] = IF c = node + 2 THEN next ELSE first[c]
    BY <1>3, <2>9, <2>10, <2>11 DEF SetSucc, Memories
  <2> HIDE DEF linked
  <2>13. Prev(linked, node) = prev /\ Succ(linked, node) = next
    BY <2>10, <2>11, <2>12 DEF Prev, Succ
  <2>14. \A a \in S : Prev(linked, a) = Prev(m, a) /\ Succ(linked, a) = Succ(m, a)
    <3>1. \A a \in S : a + 1 \in Cells /\ a + 2 \in Cells
      BY <1>1, LinksApart
    <3>2. QED
      BY <2>10, <2>11, <2>12, <3>1 DEF Prev, Succ
  <2>15. /\ r \in Memories
         /\ \A a \in T : /\ Succ(r, a) = IF a = prev THEN node ELSE Succ(linked, a)
                         /\ Prev(r, a) = IF a = next THEN node ELSE Prev(linked, a)
         /\ \A c \in Cells : (prev # NULL => c # prev + 2) /\ (next # NULL => c # next + 1)
                               => r[c] = linked[c]
    <3>1. prev \in T \cup {NULL} /\ next \in T \cup {NULL}
      BY <2>8
    <3>2. Apart(T)
      OBVIOUS
    <3> HIDE DEF T, r
    <3>3. IsRelinked(r, T, linked, prev, node, next, node)
      BY <1>1, <1>3, <2>12, <3>1, <3>2, RelinkedIs DEF r
    <3>4. QED
      BY <3>3 DEF IsRelinked
  <2> HIDE DEF r
  <2>16. /\ After(T, node, next) /\ Before(T, node, prev)
         /\ \A a \in S \cup {NULL} : \A x : After(S, a, x) => After(T, a, IF a = prev THEN node ELSE x)
         /\ \A a \in S : \A x : Before(S, a, x) => Before(T, a, IF a = next THEN node ELSE x)
    BY <1>2, <1>3, <2>7, OrderWith
  <2>17. After(T, NULL, head)
    BY <2>6, <2>16
  <2>18. ASSUME NEW a \in T PROVE After(T, a, Succ(r, a)) /\ Before(T, a, Prev(r, a))
    <3>1. CASE a = node
      <4>1. node # prev /\ node # next
        BY <1>3, <2>8
      <4>2. Succ(r, node) = next /\ Prev(r, node) = prev
        BY <2>13, <2>15, <4>1
      <4>3. QED
        BY <2>16, <3>1, <4>2
    <3>2. CASE a # node
      <4>1. a \in S
        BY <3>2
      <4>2. After(S, a, Succ(m, a)) /\ Before(S, a, Prev(m, a))
        BY <4>1 DEF Threaded
      <4>3. /\ Succ(r, a) = (IF a = prev THEN node ELSE Succ(m, a))
            /\ Prev(r, a) = (IF a = next THEN node ELSE Prev(m, a))
        BY <2>14, <2>15, <4>1
      <4> HIDE DEF T
      <4>4. QED
        BY <2>16, <4>1, <4>2, <4>3, Zenon
    <3>3. QED
      BY <3>1, <3>2
  <2>19. Threaded(r, head, T)
    <3> HIDE DEF T, head
    <3>1. QED
      BY <2>17, <2>18 DEF Threaded
  <2>20. \A c \in Cells : c \notin LinkCells(T) => r[c] = m[c]
    <3>1. (prev # NULL => prev + 2 \in LinkCells(T)) /\ (next # NULL => next + 1 \in LinkCells(T))
      BY <2>8 DEF LinkCells
    <3>2. node + 1 \in LinkCells(T) /\ node + 2 \in LinkCells(T)
      BY DEF LinkCells
    <3> HIDE DEF T
    <3>3. QED
      BY <2>11, <2>12, <2>15, <3>1, <3>2
  <2> HIDE DEF op, head, T
  <2>21. /\ op.mem \in Memories /\ Threaded(op.mem, op.list, T)
         /\ \A c \in Cells : c \notin LinkCells(T) => op.mem[c] = m[c]
    BY <2>1, <2>15, <2>19, <2>20
  <2>22. QED
    BY <2>21 DEF op, T, Makes
<1>6. QED
  BY <1>4, <1>5

\* The first node of a list is one.
LEMMA FirstIs ==
  ASSUME NEW S \in SUBSET Addr, NEW list, After(S, NULL, list), NEW node \in S,
         \A c \in S : node <= c
  PROVE  list = node
<1>1. \A c \in S : c \in Nat /\ c > NULL /\ c # NULL
  BY Sizes
<1>2. list # NULL
  BY <1>1, Sizes DEF After
<1>3. list \in S /\ list <= node
  BY <1>1, <1>2 DEF After
<1>4. QED
  BY <1>1, <1>3

-----------------------------------------------------------------------------
(* The heap.                                                               *)

\* Regions lie in the heap, hold their headers, and do not overlap.
Placed(m, R) ==
  /\ R \in SUBSET Addr
  /\ \A a \in R : SizeOf(m, a) >= Header /\ a + SizeOf(m, a) <= HeapEnd
  /\ \A a, b \in R : a < b => a + SizeOf(m, a) <= b

\* The heap with the free regions F and the allocated ones A.
Shape(m, free, alloc, h, F, A) ==
  /\ m \in Memories
  /\ F \in SUBSET Addr /\ A \in SUBSET Addr /\ F \cap A = {} /\ F # {}
  /\ Threaded(m, free, F) /\ Threaded(m, alloc, A)
  /\ Placed(m, F \cup A)
  /\ h \in [{a + Header : a \in A} -> Nat]
  /\ \A a \in A : SizeOf(m, a) = h[a + Header] + Header

HeapInv ==
  fault = FALSE
    /\ Shape(mem, free_list, alloc_list, held, Nodes(free_list), Nodes(alloc_list))

LEMMA SizesTyped ==
  ASSUME NEW m \in Memories, NEW R, Placed(m, R)
  PROVE  /\ \A a \in R : SizeOf(m, a) \in Nat /\ a \in Nat /\ a \in Cells
         /\ Apart(R)
<1>1. \A a \in R : SizeOf(m, a) \in Nat /\ a \in Nat /\ a \in Cells
  BY Sizes DEF Placed, SizeOf, Memories, Values
<1>2. ASSUME NEW a \in R, NEW b \in R, a < b PROVE a + Header <= b
  <2>1. a + SizeOf(m, a) <= b /\ SizeOf(m, a) >= 3
    BY <1>2, Sizes DEF Placed
  <2>2. QED
    BY <1>1, <2>1, Sizes
<1>3. QED
  BY <1>1, <1>2 DEF Apart, Placed

LEMMA LinkCellsApart ==
  ASSUME NEW R, Apart(R), NEW X \in SUBSET R, NEW Y \in SUBSET R, X \cap Y = {}
  PROVE  LinkCells(X) \cap LinkCells(Y) = {} /\ R \cap LinkCells(X) = {}
<1>1. /\ \A a, b \in R : a + 1 # b + 2 /\ a # b + 1 /\ a # b + 2
      /\ \A a, b \in R : a # b => a + 1 # b + 1 /\ a + 2 # b + 2
  BY LinksApart
<1>2. LinkCells(X) \cap LinkCells(Y) = {}
  <2> SUFFICES ASSUME NEW c \in LinkCells(X), c \in LinkCells(Y) PROVE FALSE
    OBVIOUS
  <2>1. PICK a \in X : c = a + 1 \/ c = a + 2
    BY DEF LinkCells
  <2>2. PICK b \in Y : c = b + 1 \/ c = b + 2
    BY DEF LinkCells
  <2>3. a # b /\ a \in R /\ b \in R
    BY <2>1, <2>2
  <2>4. QED
    BY <1>1, <2>1, <2>2, <2>3
<1>3. R \cap LinkCells(X) = {}
  BY <1>1 DEF LinkCells
<1>4. QED
  BY <1>2, <1>3

\* The remainder of a region that is cut is in it.
LEMMA CutPlaced ==
  ASSUME NEW m \in Memories, NEW R, Placed(m, R), NEW f \in R, NEW need \in Nat,
         need >= Header, SizeOf(m, f) - need >= Header
  PROVE  /\ f + need \in Addr /\ f + need \notin R /\ Apart(R \cup {f + need})
         /\ f + need + Header <= f + SizeOf(m, f) /\ f + Header <= f + need
         /\ need \in Values /\ SizeOf(m, f) - need \in Values
<1> DEFINE rest == f + need
<1>1. /\ \A a \in R : SizeOf(m, a) \in Nat /\ a \in Nat
      /\ \A a, b \in R : a < b => a + SizeOf(m, a) <= b
      /\ f + SizeOf(m, f) <= HeapEnd /\ R \in SUBSET Addr
  BY SizesTyped DEF Placed
<1>2. rest + 3 <= f + SizeOf(m, f) /\ f + 3 <= rest /\ rest \in Nat
  BY <1>1, Sizes
<1>3. rest \in Addr
  <2>1. f \in 1 .. HeapSize
    BY <1>1, Sizes
  <2>2. QED
    BY <1>1, <1>2, <2>1, Sizes
<1>4. \A a \in R : a <= f \/ rest + 3 <= a
  BY <1>1, <1>2
<1>5. \A a \in R : a <= f => a + 3 <= rest
  <2> SUFFICES ASSUME NEW a \in R, a <= f PROVE a + 3 <= rest
    OBVIOUS
  <2>1. a \in Nat
    BY <1>1
  <2>2. QED
    BY <1>1, <1>2, <2>1
<1>6. rest \notin R
  BY <1>2, <1>4, <1>5
<1>7. Apart(R \cup {rest})
  <2>1. Apart(R)
    BY SizesTyped
  <2>2. \A a \in R : (a < rest => a + Header <= rest) /\ (rest < a => rest + Header <= a)
    BY <1>1, <1>2, <1>4, <1>5, Sizes
  <2> HIDE DEF rest
  <2>3. QED
    BY <1>2, <1>3, <2>1, <2>2 DEF Apart
<1>8. need \in Values /\ SizeOf(m, f) - need \in Values
  <2>1. SizeOf(m, f) \in Nat /\ SizeOf(m, f) <= HeapEnd
    BY <1>1, Sizes
  <2>2. QED
    BY <2>1, Sizes DEF Values
<1>9. QED
  BY <1>2, <1>3, <1>6, <1>7, <1>8, Sizes

\* kmalloc_split.
LEMMA SplitIs ==
  ASSUME NEW m \in Memories, NEW f \in Addr, NEW need \in Values, f + need \in Addr,
         f + Header <= f + need, m[f] - need \in Values
  PROVE  LET r == Split(m, f, need)
         IN  /\ r \in Memories
             /\ SizeOf(r, f) = need /\ SizeOf(r, f + need) = m[f] - need
             /\ \A a \in {f, f + need} : Succ(r, a) = NULL /\ Prev(r, a) = NULL
             /\ \A c \in Cells : /\ c \notin {f, f + 1, f + 2}
                                 /\ c \notin {f + need, f + need + 1, f + need + 2}
                                 => r[c] = m[c]
<1> DEFINE rest == f + need
           r == Split(m, f, need)
<1>1. /\ {f, f + 1, f + 2} \subseteq Cells /\ {rest, rest + 1, rest + 2} \subseteq Cells
      /\ f \in Nat /\ rest \in Nat /\ f + 3 <= rest
  BY Sizes
<1>2. NULL \in Values
  BY Sizes DEF Values
<1> HIDE DEF rest
<1>3. r = [m EXCEPT ![rest] = m[f] - need, ![rest + 1] = NULL, ![rest + 2] = NULL,
                    ![f] = need, ![f + 1] = NULL, ![f + 2] = NULL]
  BY DEF Split, rest
<1>4. r \in Memories
  BY <1>1, <1>2, <1>3 DEF Memories
<1> HIDE DEF r
<1>5. /\ r[f] = need /\ r[f + 1] = NULL /\ r[f + 2] = NULL
      /\ r[rest] = m[f] - need /\ r[rest + 1] = NULL /\ r[rest + 2] = NULL
  BY <1>1, <1>3 DEF Memories
<1>6. \A c \in Cells : c \notin {f, f + 1, f + 2} /\ c \notin {rest, rest + 1, rest + 2}
                         => r[c] = m[c]
  BY <1>1, <1>3 DEF Memories
<1>7. QED
  BY <1>4, <1>5, <1>6 DEF SizeOf, Succ, Prev, rest, r

-----------------------------------------------------------------------------
(* kmalloc.                                                                *)

HeaderCells(S) == S \cup LinkCells(S)

\* The node found, cut in two, one part back on the free list, the other one
\* on the alloc list.
IsTakenAndCut(m, free, alloc, F, A, f, n) ==
  LET need == n + Header
      rest == f + need
      taken == DeleteNode(m, free, f)
      cut == Split(taken.mem, f, need)
      kept == Insert(cut, taken.list, rest)
      used == Insert(kept.mem, alloc, f)
      G == (F \ {f}) \cup {rest}
      B == A \cup {f}
  IN  /\ SizeOf(cut, rest) > 0
      /\ used.mem \in Memories
      /\ G \in SUBSET Addr /\ B \in SUBSET Addr /\ G \cap B = {}
      /\ Threaded(used.mem, kept.list, G) /\ Threaded(used.mem, used.list, B)
      /\ SizeOf(used.mem, f) = need /\ SizeOf(used.mem, rest) = SizeOf(m, f) - need
      /\ \A a \in (F \cup A) \ {f} : SizeOf(used.mem, a) = SizeOf(m, a)
      /\ \A c \in Cells : c \notin HeaderCells(F \cup A \cup {rest}) => used.mem[c] = m[c]

LEMMA TakenAndCut ==
  ASSUME NEW m, NEW free, NEW alloc, NEW h, NEW F, NEW A, Shape(m, free, alloc, h, F, A),
         NEW f \in F, NEW n \in Nat, SizeOf(m, f) - (n + Header) >= Header
  PROVE  IsTakenAndCut(m, free, alloc, F, A, f, n)
<1> DEFINE need == n + Header
           rest == f + need
           R == F \cup A
           S == R \cup {rest}
           taken == DeleteNode(m, free, f)
           t == taken.mem
           E == F \ {f}
           cut == Split(t, f, need)
           kept == Insert(cut, taken.list, rest)
           k == kept.mem
           used == Insert(k, alloc, f)
           u == used.mem
           G == E \cup {rest}
           B == A \cup {f}
<1>1. /\ m \in Memories /\ F \in SUBSET Addr /\ A \in SUBSET Addr /\ F \cap A = {}
      /\ Threaded(m, free, F) /\ Threaded(m, alloc, A) /\ Placed(m, R)
  BY DEF Shape
<1>2. need \in Nat /\ need >= Header /\ need > 0
  BY Sizes
<1>3. /\ rest \in Addr /\ rest \notin R /\ Apart(S)
      /\ f + Header <= rest
      /\ need \in Values /\ SizeOf(m, f) - need \in Values
      /\ SizeOf(m, f) - need > 0
  <2>1. f \in R /\ R \in SUBSET Addr
    BY <1>1
  <2> HIDE DEF need, R
  <2>2. SizeOf(m, f) - need >= Header
    BY DEF need
  <2>3. SizeOf(m, f) \in Nat
    BY <1>1, <2>1, SizesTyped
  <2>4. /\ rest \in Addr /\ rest \notin R /\ Apart(S) /\ f + Header <= rest
        /\ need \in Values /\ SizeOf(m, f) - need \in Values
    BY <1>1, <1>2, <2>1, <2>2, CutPlaced, Zenon
  <2>5. SizeOf(m, f) - need > 0
    BY <1>2, <2>2, <2>3, Sizes
  <2>6. QED
    BY <2>4, <2>5
<1> HIDE DEF need
<1>4. /\ Apart(F) /\ Apart(A) /\ Apart(E) /\ Apart(G) /\ Apart(B)
      /\ F \in SUBSET S /\ A \in SUBSET S /\ E \in SUBSET S /\ G \in SUBSET S
      /\ B \in SUBSET S /\ {f} \in SUBSET S /\ {rest} \in SUBSET S
  BY <1>3 DEF Apart
<1>5. A \cap F = {} /\ A \cap E = {} /\ A \cap G = {} /\ B \cap G = {} /\ B \cap E = {}
      /\ {f} \cap E = {} /\ {f} \cap A = {} /\ {f} \cap G = {} /\ {rest} \cap E = {}
      /\ {rest} \cap A = {}
  BY <1>1, <1>3
<1>6. /\ \A X, Y \in SUBSET S : X \cap Y = {} => LinkCells(X) \cap LinkCells(Y) = {}
      /\ \A X \in SUBSET S : S \cap LinkCells(X) = {}
  <2> HIDE DEF S
  <2>1. \A X, Y \in SUBSET S : X \cap Y = {} => LinkCells(X) \cap LinkCells(Y) = {}
    BY <1>3, LinkCellsApart
  <2>2. \A X \in SUBSET S : S \cap LinkCells(X) = {}
    <3> SUFFICES ASSUME NEW X \in SUBSET S PROVE S \cap LinkCells(X) = {}
      OBVIOUS
    <3>1. {} \in SUBSET S /\ X \cap {} = {}
      OBVIOUS
    <3>2. QED
      BY <1>3, <3>1, LinkCellsApart
  <2>3. QED
    BY <2>1, <2>2
<1>7. /\ S \subseteq Cells /\ LinkCells(S) \subseteq Cells
      /\ \A X \in SUBSET S : LinkCells(X) \subseteq LinkCells(S)
  <2> HIDE DEF S
  <2>1. \A a \in S : {a, a + 1, a + 2} \subseteq Cells
    BY <1>3, LinksApart
  <2>2. QED
    BY <2>1 DEF LinkCells
<1>8. \A X \in SUBSET S : X \subseteq Cells /\ LinkCells(X) \subseteq Cells
  BY <1>7
\* Off the free list.
<1>9. /\ t \in Memories /\ Threaded(t, taken.list, E)
      /\ \A c \in Cells : c \notin LinkCells(E) => t[c] = m[c]
  <2>1. free \in Values /\ m \in Memories /\ Apart(F) /\ Threaded(m, free, F)
    BY <1>1, <1>4, LinksTyped
  <2>2. QED
    BY <2>1, DeleteNodeIs, Zenon DEF Makes
<1> HIDE DEF taken
<1>10. \A a \in S : t[a] = m[a]
  BY <1>4, <1>6, <1>7, <1>9
<1>11. Threaded(t, alloc, A)
  <2>1. \A c \in LinkCells(A) : c \in Cells /\ c \notin LinkCells(E)
    BY <1>4, <1>5, <1>6, <1>8
  <2> HIDE DEF t
  <2>2. QED
    BY <1>1, <1>9, <2>1, ThreadKept
\* The cut.
<1>12. t[f] = SizeOf(m, f) /\ f \in Addr
  BY <1>1, <1>10 DEF SizeOf
<1>13. /\ cut \in Memories
       /\ SizeOf(cut, f) = need /\ SizeOf(cut, rest) = SizeOf(m, f) - need
       /\ \A a \in {f, rest} : Succ(cut, a) = NULL /\ Prev(cut, a) = NULL
       /\ \A c \in Cells : c \notin HeaderCells({f, rest}) => cut[c] = t[c]
  <2> HIDE DEF t
  <2>1. LET r == Split(t, f, need)
        IN  /\ r \in Memories
            /\ SizeOf(r, f) = need /\ SizeOf(r, f + need) = t[f] - need
            /\ \A a \in {f, f + need} : Succ(r, a) = NULL /\ Prev(r, a) = NULL
            /\ \A c \in Cells : /\ c \notin {f, f + 1, f + 2}
                                /\ c \notin {f + need, f + need + 1, f + need + 2}
                                => r[c] = t[c]
    BY <1>3, <1>9, <1>12, SplitIs
  <2>2. HeaderCells({f, rest}) = {f, f + 1, f + 2} \cup {rest, rest + 1, rest + 2}
    BY DEF HeaderCells, LinkCells
  <2>3. QED
    BY <1>12, <2>1, <2>2
<1> HIDE DEF cut
<1>14. \A X \in SUBSET S : X \cap {f, rest} = {} =>
         /\ \A c \in LinkCells(X) : c \in Cells /\ c \notin HeaderCells({f, rest})
         /\ \A c \in X : c \in Cells /\ c \notin HeaderCells({f, rest})
  <2> SUFFICES ASSUME NEW X \in SUBSET S, X \cap {f, rest} = {}
               PROVE  /\ \A c \in LinkCells(X) : c \in Cells /\ c \notin HeaderCells({f, rest})
                      /\ \A c \in X : c \in Cells /\ c \notin HeaderCells({f, rest})
    OBVIOUS
  <2>1. {f, rest} \in SUBSET S
    OBVIOUS
  <2> HIDE DEF S
  <2>2. LinkCells(X) \cap LinkCells({f, rest}) = {} /\ S \cap LinkCells({f, rest}) = {}
        /\ S \cap LinkCells(X) = {}
    BY <1>6, <2>1
  <2>3. QED
    BY <1>8, <2>1, <2>2 DEF HeaderCells
<1>15. E \cap {f, rest} = {} /\ A \cap {f, rest} = {}
  BY <1>5
<1>16. Threaded(cut, taken.list, E) /\ Threaded(cut, alloc, A)
  <2>1. /\ \A c \in LinkCells(E) : cut[c] = t[c]
        /\ \A c \in LinkCells(A) : cut[c] = t[c]
    BY <1>4, <1>13, <1>14, <1>15
  <2> HIDE DEF t, E
  <2>2. QED
    BY <1>9, <1>11, <2>1, ThreadKept
<1>17. \A a \in R \ {f} : cut[a] = m[a]
  <2>1. \A a \in R \ {f} : a \in S /\ a \notin {f, rest}
    BY <1>3
  <2>2. \A a \in S : a \notin {f, rest} => a \in Cells /\ a \notin HeaderCells({f, rest})
    <3> SUFFICES ASSUME NEW a \in S, a \notin {f, rest}
                 PROVE  a \in Cells /\ a \notin HeaderCells({f, rest})
      OBVIOUS
    <3>1. {a} \in SUBSET S /\ {a} \cap {f, rest} = {}
      OBVIOUS
    <3>2. QED
      BY <1>14, <3>1
  <2>3. QED
    BY <1>10, <1>13, <2>1, <2>2
\* The remainder on the free list.
<1>18. /\ k \in Memories /\ Threaded(k, kept.list, G)
       /\ \A c \in Cells : c \notin LinkCells(G) => k[c] = cut[c]
  <2>0. /\ taken.list \in Values /\ Apart(E \cup {rest})
        /\ cut \in Memories /\ Threaded(cut, taken.list, E)
    BY <1>1, <1>4, <1>13, <1>16, LinksTyped
  <2>1. /\ rest \notin E /\ rest \in Addr
        /\ Prev(cut, rest) = NULL /\ Succ(cut, rest) = NULL
    BY <1>3, <1>13
  <2> HIDE DEF E, rest
  <2>2. QED
    BY <2>0, <2>1, InsertIs, Zenon DEF Makes
<1> HIDE DEF kept
<1>19. /\ Threaded(k, alloc, A) /\ \A a \in S : k[a] = cut[a]
       /\ Succ(k, f) = NULL /\ Prev(k, f) = NULL
  <2>1. \A c \in LinkCells(A) : c \in Cells /\ c \notin LinkCells(G)
    BY <1>4, <1>5, <1>6, <1>8
  <2>2. \A a \in S : a \in Cells /\ a \notin LinkCells(G)
    BY <1>4, <1>6, <1>7
  <2>3. \A c \in LinkCells({f}) : c \in Cells /\ c \notin LinkCells(G)
    BY <1>4, <1>5, <1>6, <1>8
  <2>4. f + 1 \in LinkCells({f}) /\ f + 2 \in LinkCells({f})
    BY DEF LinkCells
  <2>5. Succ(cut, f) = NULL /\ Prev(cut, f) = NULL
    BY <1>13
  <2>6. Succ(k, f) = NULL /\ Prev(k, f) = NULL
    BY <1>18, <2>3, <2>4, <2>5 DEF Succ, Prev
  <2> HIDE DEF k, G, S
  <2>7. \A c \in LinkCells(A) : k[c] = cut[c]
    BY <1>18, <2>1
  <2>8. Threaded(k, alloc, A)
    BY <1>16, <2>7, ThreadKept
  <2>9. QED
    BY <1>18, <2>2, <2>6, <2>8
\* The node on the alloc list.
<1>20. /\ u \in Memories /\ Threaded(u, used.list, B)
       /\ \A c \in Cells : c \notin LinkCells(B) => u[c] = k[c]
  <2>1. f \notin A /\ f \in Addr /\ A \in SUBSET Addr
    BY <1>1
  <2>2. alloc \in Values
    BY <1>1, <1>4, LinksTyped
  <2> HIDE DEF k
  <2>3. QED
    BY <1>4, <1>18, <1>19, <2>1, <2>2, InsertIs, Zenon DEF Makes
<1> HIDE DEF used
<1>21. Threaded(u, kept.list, G) /\ \A a \in S : u[a] = k[a]
  <2>1. \A c \in LinkCells(G) : c \in Cells /\ c \notin LinkCells(B)
    BY <1>4, <1>5, <1>6, <1>8
  <2>2. \A a \in S : a \in Cells /\ a \notin LinkCells(B)
    BY <1>4, <1>6, <1>7
  <2> HIDE DEF u, k, G, B, S
  <2>3. \A c \in LinkCells(G) : u[c] = k[c]
    BY <1>20, <2>1
  <2>4. QED
    BY <1>18, <1>20, <2>2, <2>3, ThreadKept
<1>22. /\ SizeOf(u, f) = need /\ SizeOf(u, rest) = SizeOf(m, f) - need
       /\ \A a \in R \ {f} : SizeOf(u, a) = SizeOf(m, a)
  <2>1. f \in S /\ rest \in S /\ \A a \in R \ {f} : a \in S
    OBVIOUS
  <2> HIDE DEF u, k, S
  <2>2. QED
    BY <1>13, <1>17, <1>19, <1>21, <2>1 DEF SizeOf
<1>23. \A c \in Cells : c \notin HeaderCells(S) => u[c] = m[c]
  <2> SUFFICES ASSUME NEW c \in Cells, c \notin HeaderCells(S) PROVE u[c] = m[c]
    OBVIOUS
  <2>1. c \notin LinkCells(E) /\ c \notin LinkCells(G) /\ c \notin LinkCells(B)
        /\ c \notin HeaderCells({f, rest})
    BY <1>4, <1>7 DEF HeaderCells, LinkCells
  <2> HIDE DEF u, k, t
  <2>2. QED
    BY <1>9, <1>13, <1>18, <1>20, <2>1
<1>24. G \in SUBSET Addr /\ B \in SUBSET Addr /\ G \cap B = {} /\ SizeOf(cut, rest) > 0
  BY <1>1, <1>3, <1>5, <1>13
<1>25. QED
  <2> HIDE DEF u, G, B, S, rest
  <2>1. /\ SizeOf(cut, rest) > 0
        /\ u \in Memories
        /\ G \in SUBSET Addr /\ B \in SUBSET Addr /\ G \cap B = {}
        /\ Threaded(u, kept.list, G) /\ Threaded(u, used.list, B)
        /\ SizeOf(u, f) = need /\ SizeOf(u, rest) = SizeOf(m, f) - need
        /\ \A a \in R \ {f} : SizeOf(u, a) = SizeOf(m, a)
        /\ \A c \in Cells : c \notin HeaderCells(S) => u[c] = m[c]
    BY <1>20, <1>21, <1>22, <1>23, <1>24
  <2>2. QED
    BY <2>1, Zenon DEF IsTakenAndCut, u, G, B, E, S, R, rest, used, kept, k, cut, t, taken, need

\* The cut regions lie in the heap as the whole one did.
LEMMA CutsPlaced ==
  ASSUME NEW m \in Memories, NEW u \in Memories, NEW R, Placed(m, R), NEW f \in R,
         NEW need \in Nat, need >= Header, SizeOf(m, f) - need >= Header,
         SizeOf(u, f) = need, SizeOf(u, f + need) = SizeOf(m, f) - need,
         \A a \in R \ {f} : SizeOf(u, a) = SizeOf(m, a)
  PROVE  Placed(u, R \cup {f + need})
<1> DEFINE rest == f + need
           S == R \cup {rest}
<1>1. /\ \A a \in R : SizeOf(m, a) \in Nat /\ a \in Nat
      /\ \A a \in R : SizeOf(m, a) >= 3 /\ a + SizeOf(m, a) <= HeapEnd
      /\ \A a, b \in R : a < b => a + SizeOf(m, a) <= b
      /\ R \in SUBSET Addr
  BY SizesTyped, Sizes DEF Placed
<1>2. rest \in Addr /\ rest \notin R /\ rest \in Nat
  <2>1. rest \in Addr /\ rest \notin R
    BY CutPlaced, Zenon
  <2> HIDE DEF rest
  <2>2. QED
    BY <2>1, Sizes
<1>3. /\ SizeOf(u, f) = need /\ SizeOf(u, rest) = SizeOf(m, f) - need
      /\ \A a \in R \ {f} : SizeOf(u, a) = SizeOf(m, a)
      /\ need >= 3 /\ SizeOf(m, f) - need >= 3 /\ rest = f + need
      /\ SizeOf(m, f) \in Nat /\ f \in Nat /\ f + SizeOf(m, f) <= HeapEnd
  BY <1>1, Sizes
<1> HIDE DEF rest
<1>4. HeapEnd \in Nat
  BY Sizes
<1>5. ASSUME NEW a \in S PROVE SizeOf(u, a) >= 3 /\ a + SizeOf(u, a) <= HeapEnd
  <2>1. CASE a = f
    BY <1>3, <1>4, <2>1
  <2>2. CASE a = rest
    BY <1>2, <1>3, <1>4, <2>2
  <2>3. CASE a # f /\ a # rest
    BY <1>1, <1>3, <2>3
  <2>4. QED
    BY <2>1, <2>2, <2>3
<1>6. ASSUME NEW a \in S, NEW b \in S, a < b PROVE a + SizeOf(u, a) <= b
  <2>1. CASE a = f /\ b = rest
    BY <1>3, <2>1
  <2>2. CASE a = f /\ b # rest
    <3>1. b \in R /\ f + SizeOf(m, f) <= b /\ b \in Nat
      BY <1>1, <1>6, <2>2
    <3>2. QED
      BY <1>3, <2>2, <3>1
  <2>3. CASE a = rest /\ b # rest
    <3>1. b \in R /\ b \in Nat /\ f < b
      BY <1>1, <1>2, <1>3, <1>6, <2>3
    <3>2. f + SizeOf(m, f) <= b
      BY <1>1, <3>1
    <3>3. QED
      BY <1>3, <2>3, <3>1, <3>2
  <2>4. CASE a # f /\ a # rest /\ b = rest
    <3>1. a \in R /\ a \in Nat /\ SizeOf(u, a) = SizeOf(m, a) /\ SizeOf(m, a) \in Nat
      BY <1>1, <1>3, <2>4
    <3>2. CASE a < f
      <4>1. a + SizeOf(m, a) <= f
        BY <1>1, <3>1, <3>2
      <4>2. QED
        BY <1>3, <2>4, <3>1, <4>1
    <3>3. CASE f < a
      <4>1. f + SizeOf(m, f) <= a
        BY <1>1, <3>1, <3>3
      <4>2. QED
        BY <1>3, <1>6, <2>4, <3>1, <4>1
    <3>4. QED
      BY <1>3, <2>4, <3>1, <3>2, <3>3
  <2>5. CASE a # f /\ a # rest /\ b # rest
    BY <1>1, <1>3, <1>6, <2>5
  <2>6. CASE a = rest /\ b = rest
    BY <1>2, <1>6, <2>6
  <2>7. QED
    BY <2>1, <2>2, <2>3, <2>4, <2>5, <2>6
<1>7. S \in SUBSET Addr
  BY <1>1, <1>2
<1>8. Placed(u, S)
  <2> HIDE DEF S
  <2>1. Header = 3
    BY Sizes
  <2>2. QED
    BY <1>5, <1>6, <1>7, <2>1 DEF Placed
<1>9. QED
  BY <1>8 DEF rest

\* The words of a block after its header are in no header.
LEMMA PayloadApart ==
  ASSUME NEW m \in Memories, NEW R, Placed(m, R), NEW a \in R,
         NEW c \in a + Header .. a + SizeOf(m, a) - 1
  PROVE  c \in Cells /\ c \notin HeaderCells(R)
<1>1. /\ \A b \in R : SizeOf(m, b) \in Nat /\ b \in Nat /\ b >= 1
      /\ \A b \in R : SizeOf(m, b) >= 3 /\ b + SizeOf(m, b) <= HeapEnd
      /\ \A b, d \in R : b < d => b + SizeOf(m, b) <= d
  <2>1. \A b \in R : SizeOf(m, b) \in Nat /\ b \in Nat
    BY SizesTyped
  <2>2. R \in SUBSET Addr
    BY DEF Placed
  <2>3. QED
    BY <2>1, <2>2, Sizes DEF Placed
<1>2. c \in Nat /\ a + 3 <= c /\ c < a + SizeOf(m, a) /\ c \in Cells
  BY <1>1, Sizes
<1>3. ASSUME NEW b \in R PROVE c # b /\ c # b + 1 /\ c # b + 2
  <2>1. CASE b = a
    BY <1>1, <1>2, <2>1
  <2>2. CASE b < a
    <3>1. b + SizeOf(m, b) <= a
      BY <1>1, <2>2
    <3>2. QED
      BY <1>1, <1>2, <3>1
  <2>3. CASE a < b
    <3>1. a + SizeOf(m, a) <= b
      BY <1>1, <2>3
    <3>2. QED
      BY <1>1, <1>2, <3>1
  <2>4. QED
    BY <1>1, <2>1, <2>2, <2>3
<1>4. QED
  BY <1>2, <1>3 DEF HeaderCells, LinkCells

\* kmalloc takes f, the first free region that n and a header fit in; the
\* rest of it stays free.
Takes(n, f, F, A) ==
  LET need == n + Header
      rest == f + need
      G == (F \ {f}) \cup {rest}
      B == A \cup {f}
  IN  /\ f \in F /\ rest \in Addr /\ rest \notin F \cup A
      /\ SizeOf(mem, f) - need >= Header
      /\ \A g \in F : g < f => ~ (SizeOf(mem, g) >= need)
      /\ Shape(mem', free_list', alloc_list', held', G, B)
      /\ SizeOf(mem', f) = need /\ SizeOf(mem', rest) = SizeOf(mem, f) - need
      /\ \A a \in (F \cup A) \ {f} : SizeOf(mem', a) = SizeOf(mem, a)
      /\ \A c \in Cells : c \notin HeaderCells((F \cup A) \cup {rest}) => mem'[c] = mem[c]
      /\ held' = [b \in DOMAIN held \cup {f + Header} |->
                    IF b = f + Header THEN n ELSE held[b]]
      /\ fault' = fault

LEMMA KmallocTakes ==
  ASSUME Roomy, NEW F, NEW A, Shape(mem, free_list, alloc_list, held, F, A),
         NEW n \in Requests, Kmalloc(n)
  PROVE  \E f \in F : Takes(n, f, F, A)
<1> DEFINE need == n + Header
           f == FindBySize(mem, free_list, need)
           rest == f + need
           R == F \cup A
           taken == DeleteNode(mem, free_list, f)
           cut == Split(taken.mem, f, need)
           kept == Insert(cut, taken.list, rest)
           used == Insert(kept.mem, alloc_list, f)
           G == (F \ {f}) \cup {rest}
           B == A \cup {f}
<1>1. /\ f # NULL /\ SizeOf(mem, f) - need >= Header
      /\ held' = [b \in DOMAIN held \cup {f + Header} |->
                    IF b = f + Header THEN n ELSE held[b]]
      /\ fault' = fault
  BY DEF Kmalloc
<1>2. SizeOf(cut, rest) > 0 =>
        mem' = used.mem /\ free_list' = kept.list /\ alloc_list' = used.list
  BY Zenon DEF Kmalloc
<1>3. /\ mem \in Memories /\ F \in SUBSET Addr /\ A \in SUBSET Addr /\ F \cap A = {}
      /\ Threaded(mem, free_list, F) /\ Placed(mem, R)
      /\ held \in [{a + Header : a \in A} -> Nat]
      /\ \A a \in A : SizeOf(mem, a) = held[a + Header] + Header
  BY DEF Shape
<1>4. Apart(F) /\ n \in Nat /\ need \in Nat /\ need >= Header
  <2>1. Apart(R)
    BY <1>3, SizesTyped
  <2>2. QED
    BY <2>1, Sizes, KMallocAssumption DEF Apart
\* The first fit.
<1>5. f \in F /\ \A g \in F : g < f => ~ (SizeOf(mem, g) >= need)
  <2> DEFINE stops == {c \in Addr : SizeOf(mem, c) >= need}
           w == WalkUntil(mem, free_list, stops)
  <2>1. \/ w = NULL
        \/ w \in F \cap stops /\ \A c \in F : c < w => c \notin stops
    <3> HIDE DEF stops
    <3>1. QED
      BY <1>3, <1>4, WalkStops
  <2>2. f = w
    BY DEF FindBySize
  <2>3. \A c \in F : c \in Addr
    BY <1>3
  <2> HIDE DEF f, need, w
  <2>4. QED
    BY <1>1, <2>1, <2>2, <2>3
<1>6. /\ SizeOf(cut, rest) > 0
      /\ used.mem \in Memories
      /\ G \in SUBSET Addr /\ B \in SUBSET Addr /\ G \cap B = {}
      /\ Threaded(used.mem, kept.list, G) /\ Threaded(used.mem, used.list, B)
      /\ SizeOf(used.mem, f) = need /\ SizeOf(used.mem, rest) = SizeOf(mem, f) - need
      /\ \A a \in R \ {f} : SizeOf(used.mem, a) = SizeOf(mem, a)
      /\ \A c \in Cells : c \notin HeaderCells(R \cup {rest}) => used.mem[c] = mem[c]
  <2>1. IsTakenAndCut(mem, free_list, alloc_list, F, A, f, n)
    <3> HIDE DEF f
    <3>1. QED
      BY <1>1, <1>4, <1>5, TakenAndCut, Zenon
  <2> HIDE DEF f
  <2>2. QED
    BY <2>1, Zenon DEF IsTakenAndCut
<1> HIDE DEF taken, cut, kept, used, f
<1>7. /\ mem' \in Memories
      /\ Threaded(mem', free_list', G) /\ Threaded(mem', alloc_list', B)
      /\ SizeOf(mem', f) = need /\ SizeOf(mem', rest) = SizeOf(mem, f) - need
      /\ \A a \in R \ {f} : SizeOf(mem', a) = SizeOf(mem, a)
      /\ \A c \in Cells : c \notin HeaderCells(R \cup {rest}) => mem'[c] = mem[c]
  BY <1>2, <1>6
<1>8. Placed(mem', R \cup {rest}) /\ rest \in Addr /\ rest \notin R
  <2>1. f \in R
    BY <1>5
  <2> HIDE DEF need, R
  <2>2. QED
    BY <1>1, <1>3, <1>4, <1>7, <2>1, CutsPlaced, CutPlaced, Zenon
<1>9. G \cup B = R \cup {rest}
  BY <1>5
<1>10. held' \in [{a + Header : a \in B} -> Nat]
  <2>1. {a + Header : a \in B} = DOMAIN held \cup {f + Header}
    BY <1>3
  <2>2. QED
    BY <1>1, <1>3, <1>4, <2>1
<1>11. ASSUME NEW a \in B PROVE SizeOf(mem', a) = held'[a + Header] + Header
  <2>1. CASE a = f
    BY <1>1, <1>7, <2>1
  <2>2. CASE a # f
    <3>1. a \in A /\ a \in R \ {f} /\ a \in Nat /\ f \in Nat
      BY <1>3, <1>5, <2>2, Sizes
    <3>2. a + Header \in DOMAIN held /\ a + Header # f + Header
      BY <1>3, <2>2, <3>1, Sizes
    <3>3. held'[a + Header] = held[a + Header]
      BY <1>1, <3>2
    <3>4. SizeOf(mem', a) = SizeOf(mem, a) /\ SizeOf(mem, a) = held[a + Header] + Header
      BY <1>3, <1>7, <3>1
    <3>5. QED
      BY <3>3, <3>4
  <2>3. QED
    BY <2>1, <2>2
<1>12. Shape(mem', free_list', alloc_list', held', G, B)
  <2>1. G # {} /\ Placed(mem', G \cup B)
    BY <1>8, <1>9
  <2> HIDE DEF G, B
  <2>2. QED
    BY <1>6, <1>7, <1>10, <1>11, <2>1 DEF Shape
<1>13. QED
  <2>1. Takes(n, f, F, A)
    BY <1>1, <1>5, <1>7, <1>8, <1>12, Zenon DEF Takes
  <2>2. QED
    BY <1>5, <2>1

-----------------------------------------------------------------------------
(* kfree.                                                                  *)

\* A region that joins its neighbours: above it, below it, both or neither.
JoinsPrev(m, node, prev) == prev # NULL /\ prev + SizeOf(m, prev) = node
JoinsNext(m, node, next) == node + SizeOf(m, node) = next
Above(m, node, next) == IF JoinsNext(m, node, next) THEN {next} ELSE {}
Start(m, node, prev) == IF JoinsPrev(m, node, prev) THEN prev ELSE node
Total(m, node, prev, next) ==
  (IF JoinsPrev(m, node, prev) THEN SizeOf(m, prev) ELSE 0) + SizeOf(m, node)
    + (IF JoinsNext(m, node, next) THEN SizeOf(m, next) ELSE 0)

\* The merged region starts with its first part and ends with its last one.
IsTotal(m, R, node, prev, next) ==
  LET start == Start(m, node, prev)
      total == Total(m, node, prev, next)
  IN  /\ total \in Values /\ total >= Header /\ start + total <= HeapEnd
      /\ start \in R /\ start <= node
      /\ JoinsNext(m, node, next) => next \in R /\ node < next
      /\ JoinsPrev(m, node, prev) => prev \in R /\ prev < node
      /\ \A b \in R : start < b => \/ b = node \/ b \in Above(m, node, next)
                                   \/ start + total <= b

LEMMA TotalIs ==
  ASSUME NEW m \in Memories, NEW R, Placed(m, R), NEW node \in R,
         NEW prev \in R \cup {NULL}, NEW next \in R \cup {NULL}
  PROVE  IsTotal(m, R, node, prev, next)
<1> DEFINE s == SizeOf(m, node)
           sp == SizeOf(m, prev)
           sn == SizeOf(m, next)
           start == Start(m, node, prev)
           total == Total(m, node, prev, next)
           JP == JoinsPrev(m, node, prev)
           JN == JoinsNext(m, node, next)
           Goal == /\ total \in Values /\ total >= 3 /\ start + total <= HeapEnd
                   /\ start \in R /\ start <= node
                   /\ \A b \in R : start < b => \/ b = node \/ b \in Above(m, node, next)
                                                \/ start + total <= b
<1>1. /\ \A a \in R : SizeOf(m, a) \in Nat /\ a \in Nat /\ a >= 1
      /\ \A a \in R : SizeOf(m, a) >= 3 /\ a + SizeOf(m, a) <= HeapEnd
      /\ \A a, b \in R : a < b => a + SizeOf(m, a) <= b
  <2>1. \A b \in R : SizeOf(m, b) \in Nat /\ b \in Nat
    BY SizesTyped
  <2>2. R \in SUBSET Addr
    BY DEF Placed
  <2>3. QED
    BY <2>1, <2>2, Sizes DEF Placed
<1>2. HeapEnd \in Nat /\ Header = 3 /\ NULL = 0
  BY Sizes
<1>3. s \in Nat /\ s >= 3 /\ node \in Nat /\ node >= 1 /\ node + s <= HeapEnd
      /\ \A b \in R : node < b => node + s <= b
  BY <1>1
<1>4. ASSUME JN
      PROVE  /\ next \in R /\ node < next /\ sn \in Nat /\ next = node + s
             /\ next + sn <= HeapEnd /\ \A b \in R : next < b => next + sn <= b
  <2>1. next = node + s
    BY <1>4 DEF JoinsNext
  <2>2. next # NULL /\ node < next
    BY <1>2, <1>3, <2>1
  <2>3. next \in R
    BY <2>2
  <2> HIDE DEF s
  <2>4. QED
    BY <1>1, <2>1, <2>2, <2>3
<1>5. ASSUME JP
      PROVE  /\ prev \in R /\ prev < node /\ sp \in Nat /\ sp >= 3 /\ node = prev + sp
             /\ prev \in Nat /\ prev >= 1 /\ \A b \in R : prev < b => node <= b
  <2>1. node = prev + sp /\ prev \in R
    BY <1>5 DEF JoinsPrev
  <2>2. sp \in Nat /\ sp >= 3 /\ prev \in Nat /\ prev >= 1
    BY <1>1, <2>1
  <2>3. prev < node
    BY <1>3, <2>1, <2>2
  <2>4. \A b \in R : prev < b => node <= b
    BY <1>1, <2>1
  <2> HIDE DEF sp
  <2>5. QED
    BY <2>1, <2>2, <2>3, <2>4
<1> HIDE DEF s, sp, sn
<1>6. CASE JP /\ JN
  <2>1. start = prev /\ total = sp + s + sn /\ Above(m, node, next) = {next}
    BY <1>6 DEF Start, Total, Above, s, sp, sn
  <2> HIDE DEF start, total, JP, JN
  <2>2. start + total = next + sn /\ total >= 3 /\ total \in Nat
    BY <1>3, <1>4, <1>5, <1>6, <2>1
  <2>3. ASSUME NEW b \in R, start < b
        PROVE  b = node \/ b = next \/ start + total <= b
    <3>1. b \in Nat /\ node <= b
      BY <1>1, <1>5, <1>6, <2>1, <2>3
    <3>2. b # node => next <= b
      BY <1>3, <1>4, <1>6, <3>1
    <3>3. b # node /\ b # next => next + sn <= b
      BY <1>4, <1>3, <1>6, <3>1, <3>2
    <3>4. QED
      BY <2>2, <3>3
  <2>4. Goal
    <3>1. start \in R /\ start <= node
      BY <1>3, <1>5, <1>6, <2>1
    <3>2. start + total <= HeapEnd /\ total \in Values
      BY <1>2, <1>3, <1>4, <1>5, <1>6, <2>1, <2>2 DEF Values
    <3>3. QED
      BY <2>1, <2>2, <2>3, <3>1, <3>2
  <2>5. QED
    BY <1>2, <1>4, <1>5, <2>4 DEF IsTotal, start, total, JP, JN
<1>7. CASE JP /\ ~JN
  <2>1. start = prev /\ total = sp + s + 0 /\ Above(m, node, next) = {}
    BY <1>7 DEF Start, Total, Above, s, sp, sn
  <2> HIDE DEF start, total, JP, JN
  <2>2. start + total = node + s /\ total >= 3 /\ total \in Nat
    BY <1>3, <1>5, <1>7, <2>1
  <2>3. ASSUME NEW b \in R, start < b
        PROVE  b = node \/ start + total <= b
    <3>1. b \in Nat /\ node <= b
      BY <1>1, <1>5, <1>7, <2>1, <2>3
    <3>2. QED
      BY <1>3, <2>2, <3>1
  <2>4. Goal
    <3>1. start \in R /\ start <= node
      BY <1>3, <1>5, <1>7, <2>1
    <3>2. start + total <= HeapEnd /\ total \in Values
      BY <1>2, <1>3, <1>5, <1>7, <2>1, <2>2 DEF Values
    <3>3. QED
      BY <2>1, <2>2, <2>3, <3>1, <3>2
  <2>5. QED
    BY <1>2, <1>4, <1>5, <2>4 DEF IsTotal, start, total, JP, JN
<1>8. CASE ~JP /\ JN
  <2>1. start = node /\ total = 0 + s + sn /\ Above(m, node, next) = {next}
    BY <1>8 DEF Start, Total, Above, s, sp, sn
  <2> HIDE DEF start, total, JP, JN
  <2>2. start + total = next + sn /\ total >= 3 /\ total \in Nat
    BY <1>3, <1>4, <1>8, <2>1
  <2>3. ASSUME NEW b \in R, start < b
        PROVE  b = next \/ start + total <= b
    <3>1. b \in Nat /\ next <= b
      BY <1>1, <1>3, <1>4, <1>8, <2>1, <2>3
    <3>2. b # next => next + sn <= b
      BY <1>4, <1>3, <1>8, <3>1
    <3>3. QED
      BY <2>2, <3>2
  <2>4. Goal
    <3>1. start \in R /\ start <= node
      BY <1>3, <2>1
    <3>2. start + total <= HeapEnd /\ total \in Values
      BY <1>2, <1>3, <1>4, <1>8, <2>1, <2>2 DEF Values
    <3>3. QED
      BY <2>1, <2>2, <2>3, <3>1, <3>2
  <2>5. QED
    BY <1>2, <1>4, <1>5, <2>4 DEF IsTotal, start, total, JP, JN
<1>9. CASE ~JP /\ ~JN
  <2>1. start = node /\ total = 0 + s + 0 /\ Above(m, node, next) = {}
    BY <1>9 DEF Start, Total, Above, s, sp, sn
  <2> HIDE DEF start, total, JP, JN
  <2>2. total = s
    BY <1>3, <2>1
  <2>3. Goal
    BY <1>2, <1>3, <2>1, <2>2 DEF Values
  <2>4. QED
    BY <1>2, <1>4, <1>5, <2>3 DEF IsTotal, start, total, JP, JN
<1>10. QED
  BY <1>6, <1>7, <1>8, <1>9

\* kmalloc_merge_into leaves the merged region on the free list, and writes
\* only into links and the size of the merged region.
IsMerged(op, m, F, node, prev, next) ==
  LET start == Start(m, node, prev)
  IN  /\ op.mem \in Memories
      /\ Threaded(op.mem, op.list, (F \ Above(m, node, next)) \cup {start})
      /\ op.mem[start] = Total(m, node, prev, next)
      /\ \A c \in Cells : c \notin LinkCells(F \cup {node}) /\ c # start => op.mem[c] = m[c]

LEMMA MergeIs ==
  ASSUME NEW m \in Memories, NEW R, Placed(m, R), NEW F \in SUBSET R, NEW free \in Values,
         Threaded(m, free, F), NEW node \in R, node \notin F,
         Prev(m, node) = NULL, Succ(m, node) = NULL,
         NEW prev \in F \cup {NULL}, NEW next \in F \cup {NULL}
  PROVE  IsMerged(MergeInto(m, free, node, prev, next), m, F, node, prev, next)
<1> DEFINE start == Start(m, node, prev)
           total == Total(m, node, prev, next)
           JP == JoinsPrev(m, node, prev)
           JN == JoinsNext(m, node, next)
           above == Above(m, node, next)
           E == F \ above
           L == F \cup {node}
           without == IF JN THEN DeleteNode(m, free, next) ELSE ListOp(m, free)
           w == without.mem
           grown == SetSize(w, start, total)
           placed == Insert(grown, without.list, node)
           op == MergeInto(m, free, node, prev, next)
<1>1. op = IF JP THEN ListOp(grown, without.list) ELSE placed
  BY DEF MergeInto, JoinsPrev, JoinsNext, Start, Total
<1>2. /\ Apart(R) /\ Apart(F) /\ Apart(E) /\ Apart(L) /\ Apart(E \cup {node})
      /\ F \in SUBSET Addr /\ E \in SUBSET Addr /\ node \in Addr
  <2>1. Apart(R)
    BY SizesTyped
  <2>2. QED
    BY <2>1 DEF Apart
<1>3. /\ total \in Values /\ start \in R
      /\ JN => next \in F /\ node < next
      /\ JP => prev \in F /\ prev < node
      /\ start \in L /\ (JP => start = prev /\ start \in E) /\ (~JP => start = node)
  <2>1. prev \in R \cup {NULL} /\ next \in R \cup {NULL}
    OBVIOUS
  <2>2. /\ total \in Values /\ start \in R
        /\ JN => next \in R /\ node < next
        /\ JP => prev \in R /\ prev < node
    BY <2>1, TotalIs DEF IsTotal
  <2>3. \A a \in R : a \in Nat /\ a # NULL
    BY <1>2, Sizes DEF Apart
  <2>4. (JN => next \in F) /\ (JP => prev \in F /\ start = prev) /\ (~JP => start = node)
    BY <2>2, <2>3 DEF Start
  <2>5. JP => prev \notin above
    <3>1. SUFFICES ASSUME JP, JN PROVE prev # next
      BY DEF Above
    <3>2. prev < node /\ node < next /\ prev \in Nat /\ next \in Nat /\ node \in Nat
      BY <2>2, <2>3, <2>4, <3>1
    <3>3. QED
      BY <3>2
  <2> HIDE DEF JP, JN, start, total, above
  <2>6. QED
    BY <2>2, <2>4, <2>5
\* The region above leaves the list.
<1>4. /\ w \in Memories /\ Threaded(w, without.list, E)
      /\ \A c \in Cells : c \notin LinkCells(E) => w[c] = m[c]
  <2>1. CASE JN
    <3>1. without = DeleteNode(m, free, next) /\ E = F \ {next} /\ next \in F
      BY <1>3, <2>1 DEF Above
    <3> DEFINE d == DeleteNode(m, free, next)
               T == F \ {next}
    <3>2. next \in F /\ Apart(F)
      BY <1>2, <3>1
    <3>3. Makes(d, T, m)
      BY <3>2, DeleteNodeIs, Zenon
    <3> HIDE DEF d, T, E, without
    <3>4. without = d /\ E = T
      BY <3>1 DEF d, T
    <3>5. QED
      BY <3>3, <3>4 DEF Makes
  <2>2. CASE ~JN
    <3>1. w = m /\ without.list = free /\ E = F
      BY <2>2 DEF Above, ListOp
    <3> HIDE DEF E, without
    <3>2. QED
      BY <3>1
  <2>3. QED
    BY <2>1, <2>2
<1> HIDE DEF without, JN, JP, start, total, above
<1>5. /\ L \in SUBSET R /\ E \in SUBSET L /\ {node} \in SUBSET L /\ {start} \in SUBSET L
      /\ E \cap {node} = {} /\ L \subseteq Cells /\ LinkCells(L) \subseteq Cells
      /\ \A X \in SUBSET L : LinkCells(X) \subseteq LinkCells(L)
  <2>1. L \in SUBSET R /\ E \in SUBSET L /\ {node} \in SUBSET L /\ {start} \in SUBSET L
        /\ E \cap {node} = {}
    BY <1>3
  <2> HIDE DEF L
  <2>2. \A a \in L : {a, a + 1, a + 2} \subseteq Cells
    BY <1>2, LinksApart
  <2>3. QED
    BY <2>1, <2>2 DEF LinkCells
<1>6. L \cap LinkCells(L) = {} /\ LinkCells(E) \cap LinkCells({node}) = {}
  <2> HIDE DEF L, E
  <2>1. LinkCells(E) \cap LinkCells({node}) = {}
    BY <1>2, <1>5, LinkCellsApart
  <2>2. L \cap LinkCells(L) = {}
    BY <1>2, LinksApart
  <2>3. QED
    BY <2>1, <2>2
\* The merged region gets its size.
<1>7. /\ grown \in Memories /\ grown[start] = total
      /\ \A c \in Cells : c # start => grown[c] = w[c]
  <2>1. start \in Cells
    BY <1>3, <1>5
  <2>2. QED
    BY <1>3, <1>4, <2>1 DEF SetSize, Memories
<1> HIDE DEF grown
<1>8. Threaded(grown, without.list, E)
  <2>1. \A c \in LinkCells(E) : c \in Cells /\ c # start
    BY <1>3, <1>5, <1>6
  <2> HIDE DEF E, w
  <2>2. \A c \in LinkCells(E) : grown[c] = w[c]
    BY <1>7, <2>1
  <2>3. QED
    BY <1>4, <2>2, ThreadKept
<1>9. \A c \in Cells : c \notin LinkCells(L) /\ c # start => grown[c] = m[c]
  <2>1. \A c \in LinkCells(E) : c \in LinkCells(L)
    BY <1>5
  <2> HIDE DEF E, w, L
  <2>2. QED
    BY <1>4, <1>7, <2>1
<1>10. CASE JP
  <2>1. op.mem = grown /\ op.list = without.list /\ E \cup {start} = E
    BY <1>1, <1>3, <1>10 DEF ListOp
  <2> HIDE DEF E, L
  <2>2. Threaded(op.mem, op.list, E \cup {start})
    BY <1>8, <2>1
  <2>3. op.mem \in Memories /\ op.mem[start] = total
        /\ \A c \in Cells : c \notin LinkCells(L) /\ c # start => op.mem[c] = m[c]
    BY <1>7, <1>9, <2>1
  <2> HIDE DEF op
  <2>4. QED
    BY <2>2, <2>3, Zenon DEF IsMerged, E, L, op, start, total, above
<1>11. CASE ~JP
  <2>1. op = placed /\ start = node
    BY <1>1, <1>3, <1>11
  <2>2. Prev(grown, node) = NULL /\ Succ(grown, node) = NULL
    <3>1. node + 1 \in LinkCells({node}) /\ node + 2 \in LinkCells({node})
      BY DEF LinkCells
    <3>2. \A c \in LinkCells({node}) : c \in Cells /\ c \notin LinkCells(E) /\ c # start
      BY <1>3, <1>5, <1>6
    <3> HIDE DEF w, E
    <3>3. grown[node + 1] = m[node + 1] /\ grown[node + 2] = m[node + 2]
      BY <1>4, <1>7, <3>1, <3>2
    <3>4. QED
      BY <3>3 DEF Prev, Succ
  <2>3. without.list \in Values /\ node \notin E
    BY <1>2, <1>4, LinksTyped
  <2>4. /\ placed.mem \in Memories /\ Threaded(placed.mem, placed.list, E \cup {node})
        /\ \A c \in Cells : c \notin LinkCells(E \cup {node}) => placed.mem[c] = grown[c]
    <3>1. /\ Apart(E \cup {node}) /\ node \in Addr /\ node \notin E
          /\ grown \in Memories /\ without.list \in Values /\ Threaded(grown, without.list, E)
          /\ Prev(grown, node) = NULL /\ Succ(grown, node) = NULL
      BY <1>2, <1>7, <1>8, <2>2, <2>3
    <3> HIDE DEF E
    <3>2. Makes(placed, E \cup {node}, grown)
      BY <3>1, InsertIs, Zenon
    <3>3. QED
      BY <3>2 DEF Makes
  <2>5. E \cup {node} \in SUBSET L /\ node \in L /\ node \in Cells
    BY <1>5
  <2>6. node \notin LinkCells(E \cup {node})
    BY <1>5, <1>6, <2>5
  <2>7. \A c \in LinkCells(E \cup {node}) : c \in LinkCells(L)
    BY <1>5, <2>5
  <2> HIDE DEF E, L, placed
  <2>8. placed.mem[start] = total
    BY <1>7, <2>1, <2>4, <2>5, <2>6
  <2>9. \A c \in Cells : c \notin LinkCells(L) /\ c # start => placed.mem[c] = m[c]
    BY <1>9, <2>4, <2>7
  <2> HIDE DEF op
  <2>10. /\ op.mem \in Memories /\ Threaded(op.mem, op.list, E \cup {start})
         /\ op.mem[start] = total
         /\ \A c \in Cells : c \notin LinkCells(L) /\ c # start => op.mem[c] = m[c]
    BY <2>1, <2>4, <2>8, <2>9
  <2>11. QED
    BY <2>10, Zenon DEF IsMerged, E, L, op, start, total, above
<1>12. QED
  BY <1>10, <1>11

\* What kfree passes to kmalloc_merge_into.
AreNeighbours(m, F, node, prev, next) ==
  \/ /\ prev = NULL /\ \A f \in F : node < f
     /\ next \in F /\ \A f \in F : next <= f
  \/ /\ prev \in F /\ \E f \in F : f < node
     /\ node <= prev + SizeOf(m, prev) \/ \A f \in F : f <= prev
     /\ \A f \in F : f < prev => ~ (node <= f + SizeOf(m, f))
     /\ After(F, prev, next)

LEMMA NeighboursFound ==
  ASSUME NEW m \in Memories, NEW F, F # {}, Apart(F), NEW free, Threaded(m, free, F),
         NEW node \in Addr, node \notin F
  PROVE  LET prev == IF node < free THEN NULL ELSE FindByAddr(m, free, node)
             next == IF prev = NULL THEN free ELSE Succ(m, prev)
         IN  AreNeighbours(m, F, node, prev, next)
<1> DEFINE stops == {c \in Addr : Succ(m, c) = NULL \/ node <= c + SizeOf(m, c)}
           p == WalkUntil(m, free, stops)
           prev == IF node < free THEN NULL ELSE FindByAddr(m, free, node)
           next == IF prev = NULL THEN free ELSE Succ(m, prev)
<1>1. /\ free \in F /\ \A f \in F : free <= f /\ f \in Nat /\ f \in Addr /\ f # NULL
      /\ \A f \in F : After(F, f, Succ(m, f))
      /\ node \in Nat
  <2>1. free \in F \cup {NULL} /\ free # NULL
    BY LinksTyped
  <2>2. F \subseteq Addr /\ After(F, NULL, free) /\ \A f \in F : After(F, f, Succ(m, f))
    BY DEF Threaded, Apart
  <2>3. \A f \in F : f > NULL
    BY <2>2, Sizes
  <2>4. QED
    BY <2>1, <2>2, <2>3, Sizes DEF After
<1>2. CASE node < free
  <2>1. prev = NULL /\ next = free
    BY <1>2
  <2>2. \A f \in F : node < f
    BY <1>1, <1>2
  <2> HIDE DEF prev, next
  <2>3. AreNeighbours(m, F, node, prev, next)
    BY <1>1, <2>1, <2>2 DEF AreNeighbours
  <2>4. QED
    BY <2>3 DEF prev, next
<1>3. CASE ~ (node < free)
  <2>1. prev = p
    BY <1>3 DEF FindByAddr
  <2>2. \/ /\ p = NULL /\ F \cap stops = {}
           /\ free = NULL \/ \E c \in F : Succ(m, c) = NULL
        \/ p \in F \cap stops /\ \A c \in F : c < p => c \notin stops
    <3> HIDE DEF stops
    <3>1. QED
      BY WalkStops
  <2> HIDE DEF p
  <2>3. /\ p \in F /\ p # NULL
        /\ Succ(m, p) = NULL \/ node <= p + SizeOf(m, p)
        /\ \A c \in F : c < p => ~ (node <= c + SizeOf(m, c))
    BY <1>1, <2>2
  <2>4. next = Succ(m, p) /\ After(F, p, next)
    BY <1>1, <2>1, <2>3
  <2>5. Succ(m, p) = NULL => \A f \in F : f <= p
    BY <2>4 DEF After
  <2>6. free < node
    BY <1>1, <1>3
  <2> HIDE DEF prev, next
  <2>7. AreNeighbours(m, F, node, prev, next)
    BY <1>1, <2>1, <2>3, <2>4, <2>5, <2>6 DEF AreNeighbours
  <2>8. QED
    BY <2>7 DEF prev, next
<1>4. QED
  BY <1>2, <1>3

\* The node off the alloc list, its links cleared.
IsCleared(cl, list, m, F, A, node) ==
  /\ cl \in Memories
  /\ Threaded(cl, list, A \ {node})
  /\ Prev(cl, node) = NULL /\ Succ(cl, node) = NULL
  /\ \A a \in F \cup A : cl[a] = m[a]
  /\ \A c \in Cells : c \notin LinkCells(A) => cl[c] = m[c]

Cleared(off, node) == SetSucc(SetPrev(off.mem, node, NULL), node, NULL)

LEMMA ClearedIs ==
  ASSUME NEW m \in Memories, NEW list \in Values, NEW A, NEW F, Apart(F \cup A),
         Threaded(m, list, A), NEW node \in A
  PROVE  LET off == DeleteNode(m, list, node)
         IN  IsCleared(Cleared(off, node), off.list, m, F, A, node)
<1> DEFINE off == DeleteNode(m, list, node)
           E == A \ {node}
           R == F \cup A
           o == off.mem
           q == SetPrev(o, node, NULL)
           r == SetSucc(q, node, NULL)
<1>1. Apart(R) /\ Apart(A) /\ A \in SUBSET R /\ E \in SUBSET R /\ {node} \in SUBSET R
      /\ E \cap {node} = {} /\ E \in SUBSET A /\ {node} \in SUBSET A
  BY DEF Apart
<1>2. Makes(off, E, m)
  BY <1>1, DeleteNodeIs, Zenon
<1> HIDE DEF off
<1>3. /\ o \in Memories /\ Threaded(o, off.list, E)
      /\ \A c \in Cells : c \notin LinkCells(E) => o[c] = m[c]
  BY <1>2 DEF Makes
<1>4. /\ \A a \in R : {a, a + 1, a + 2} \subseteq Cells /\ a \in Nat /\ a # NULL
      /\ R \cap LinkCells(A) = {} /\ LinkCells(E) \cap LinkCells({node}) = {}
      /\ \A c \in LinkCells(E) : c \in LinkCells(A)
      /\ \A c \in LinkCells({node}) : c \in LinkCells(A)
  <2> HIDE DEF R, E
  <2>1. \A a \in R : {a, a + 1, a + 2} \subseteq Cells /\ a \in Nat /\ a # NULL
    BY <1>1, LinksApart
  <2>2. LinkCells(E) \cap LinkCells({node}) = {}
    BY <1>1, LinkCellsApart
  <2>3. R \cap LinkCells(A) = {}
    <3>1. {} \in SUBSET R /\ A \cap {} = {}
      OBVIOUS
    <3>2. QED
      BY <1>1, <3>1, LinkCellsApart
  <2>4. QED
    BY <1>1, <2>1, <2>2, <2>3 DEF LinkCells
<1>5. node + 1 \in Cells /\ node + 2 \in Cells /\ node # NULL /\ node \in Nat /\ NULL \in Values
  BY <1>1, <1>4, Sizes DEF Values
<1> HIDE DEF o
<1>6. q \in Memories /\ \A c \in Cells : q[c] = IF c = node + 1 THEN NULL ELSE o[c]
  BY <1>3, <1>5 DEF SetPrev, Memories
<1> HIDE DEF q
<1>7. r \in Memories /\ \A c \in Cells : r[c] = IF c = node + 2 THEN NULL ELSE q[c]
  BY <1>5, <1>6 DEF SetSucc, Memories
<1> HIDE DEF r
<1>8. Prev(r, node) = NULL /\ Succ(r, node) = NULL
  BY <1>5, <1>6, <1>7 DEF Prev, Succ
<1>9. node + 1 \in LinkCells({node}) /\ node + 2 \in LinkCells({node})
  BY DEF LinkCells
<1>10. \A c \in LinkCells(E) : c \in Cells /\ r[c] = o[c]
  <2>1. \A c \in LinkCells(E) : c # node + 1 /\ c # node + 2
    BY <1>4, <1>9
  <2>2. \A c \in LinkCells(E) : c \in Cells
    BY <1>1, <1>4 DEF LinkCells
  <2> HIDE DEF E
  <2>3. QED
    BY <1>6, <1>7, <2>1, <2>2
<1>11. Threaded(r, off.list, E)
  <2> HIDE DEF E
  <2>1. QED
    BY <1>3, <1>10, ThreadKept
<1>12. \A c \in Cells : c \notin LinkCells(A) => r[c] = m[c]
  <2> HIDE DEF E
  <2>1. QED
    BY <1>3, <1>4, <1>6, <1>7, <1>9
<1>13. \A a \in R : r[a] = m[a]
  <2> HIDE DEF R
  <2>1. QED
    BY <1>4, <1>12
<1>14. Cleared(off, node) = r
  BY DEF Cleared, r, q, o
<1> HIDE DEF E
<1>15. IsCleared(Cleared(off, node), off.list, m, F, A, node)
  BY <1>7, <1>8, <1>11, <1>12, <1>13, <1>14 DEF IsCleared, E
<1>16. QED
  BY <1>15 DEF off

\* What joins depends on the sizes alone.
SameJoins(u, m, node, prev, next) ==
  /\ Start(u, node, prev) = Start(m, node, prev)
  /\ Above(u, node, next) = Above(m, node, next)
  /\ Total(u, node, prev, next) = Total(m, node, prev, next)

LEMMA JoinsKept ==
  ASSUME NEW m \in Memories, NEW u, NEW R, Placed(m, R), \A a \in R : SizeOf(u, a) = SizeOf(m, a),
         NEW node \in R, NEW prev \in R \cup {NULL}, NEW next \in R \cup {NULL}
  PROVE  SameJoins(u, m, node, prev, next)
<1>1. JoinsPrev(u, node, prev) <=> JoinsPrev(m, node, prev)
  BY DEF JoinsPrev
<1>2. JoinsNext(u, node, next) <=> JoinsNext(m, node, next)
  BY DEF JoinsNext
<1>3. (JoinsPrev(m, node, prev) => prev \in R) /\ (JoinsNext(m, node, next) => next \in R)
  <2>1. JoinsNext(m, node, next) => next \in R
    BY TotalIs DEF IsTotal
  <2>2. QED
    BY <2>1 DEF JoinsPrev
<1>4. /\ JoinsPrev(m, node, prev) => SizeOf(u, prev) = SizeOf(m, prev)
      /\ JoinsNext(m, node, next) => SizeOf(u, next) = SizeOf(m, next)
      /\ SizeOf(u, node) = SizeOf(m, node)
  BY <1>3
<1>5. /\ Start(u, node, prev) = Start(m, node, prev)
      /\ Above(u, node, next) = Above(m, node, next)
  BY <1>1, <1>2 DEF Start, Above
<1>6. (IF JoinsPrev(u, node, prev) THEN SizeOf(u, prev) ELSE 0)
        = (IF JoinsPrev(m, node, prev) THEN SizeOf(m, prev) ELSE 0)
  BY <1>1, <1>4
<1>7. (IF JoinsNext(u, node, next) THEN SizeOf(u, next) ELSE 0)
        = (IF JoinsNext(m, node, next) THEN SizeOf(m, next) ELSE 0)
  BY <1>2, <1>4
<1>8. Total(u, node, prev, next) = Total(m, node, prev, next)
  BY <1>4, <1>6, <1>7, Zenon DEF Total
<1>9. QED
  BY <1>5, <1>8 DEF SameJoins

LEMMA MergedPlaced ==
  ASSUME NEW m \in Memories, NEW R, Placed(m, R), NEW node \in R,
         NEW prev \in R \cup {NULL}, NEW next \in R \cup {NULL}, NEW u,
         SizeOf(u, Start(m, node, prev)) = Total(m, node, prev, next),
         \A a \in R \ {Start(m, node, prev)} : SizeOf(u, a) = SizeOf(m, a),
         NEW Q \in SUBSET R, Q \cap Above(m, node, next) = {},
         node \in Q => node = Start(m, node, prev)
  PROVE  Placed(u, Q)
<1> DEFINE start == Start(m, node, prev)
           total == Total(m, node, prev, next)
<1>1. /\ total >= Header /\ start + total <= HeapEnd
      /\ start \in R /\ start <= node
      /\ \A b \in R : start < b => b = node \/ b \in Above(m, node, next) \/ start + total <= b
  BY TotalIs DEF IsTotal
<1>2. /\ R \in SUBSET Addr
      /\ \A a \in R : SizeOf(m, a) >= Header /\ a + SizeOf(m, a) <= HeapEnd
      /\ \A a, b \in R : a < b => a + SizeOf(m, a) <= b
      /\ \A a \in R : a \in Nat
  BY Sizes DEF Placed
<1>3. /\ SizeOf(u, start) = total
      /\ \A a \in R \ {start} : SizeOf(u, a) = SizeOf(m, a)
      /\ node \in Q => node = start
  OBVIOUS
<1> HIDE DEF start, total
<1>4. Q \in SUBSET Addr
  BY <1>2
<1>5. \A a \in Q : SizeOf(u, a) >= Header /\ a + SizeOf(u, a) <= HeapEnd
  BY <1>1, <1>2, <1>3
<1>6. ASSUME NEW a \in Q, NEW b \in Q, a < b PROVE a + SizeOf(u, a) <= b
  <2>1. CASE a = start
    <3>1. b # node /\ b \notin Above(m, node, next) /\ b \in R
      BY <1>2, <1>3, <1>6, <2>1
    <3>2. QED
      BY <1>1, <1>3, <1>6, <2>1, <3>1
  <2>2. CASE a # start
    BY <1>2, <1>3, <1>6, <2>2
  <2>3. QED
    BY <2>1, <2>2
<1>7. QED
  BY <1>4, <1>5, <1>6 DEF Placed

\* kfree returns a node to the free list, merged with its neighbours.
Frees(node, prev, next, F, A) ==
  LET start == Start(mem, node, prev)
      above == Above(mem, node, next)
  IN  /\ node \in A /\ prev \in F \cup {NULL} /\ next \in F \cup {NULL}
      /\ AreNeighbours(mem, F, node, prev, next)
      /\ Shape(mem', free_list', alloc_list', held', (F \ above) \cup {start}, A \ {node})
      /\ SizeOf(mem', start) = Total(mem, node, prev, next)
      /\ \A a \in (F \cup A) \ {start} : SizeOf(mem', a) = SizeOf(mem, a)
      /\ \A c \in Cells : c \notin HeaderCells(F \cup A) => mem'[c] = mem[c]
      /\ held' = [c \in DOMAIN held \ {node + Header} |-> held[c]]
      /\ fault' = fault

LEMMA KfreeFrees ==
  ASSUME NEW F, NEW A, Shape(mem, free_list, alloc_list, held, F, A),
         NEW b \in DOMAIN held, Kfree(b)
  PROVE  \E prev, next : Frees(b - Header, prev, next, F, A)
<1> DEFINE node == b - Header
           R == F \cup A
           off == DeleteNode(mem, alloc_list, node)
           cl == Cleared(off, node)
           prev == IF node < free_list THEN NULL ELSE FindByAddr(cl, free_list, node)
           next == IF prev = NULL THEN free_list ELSE Succ(cl, prev)
           merged == MergeInto(cl, free_list, node, prev, next)
           start == Start(mem, node, prev)
           above == Above(mem, node, next)
           total == Total(mem, node, prev, next)
           G == (F \ above) \cup {start}
           B == A \ {node}
<1>1. /\ mem \in Memories /\ F \in SUBSET Addr /\ A \in SUBSET Addr /\ F \cap A = {}
      /\ F # {} /\ Threaded(mem, free_list, F) /\ Threaded(mem, alloc_list, A)
      /\ Placed(mem, R) /\ held \in [{a + Header : a \in A} -> Nat]
      /\ \A a \in A : SizeOf(mem, a) = held[a + Header] + Header
  BY DEF Shape
<1>2. node \in A /\ node + Header = b /\ node \in Nat
  <2>1. PICK a \in A : b = a + Header
    BY <1>1
  <2>2. a \in Nat
    BY <1>1, Sizes
  <2>3. node = a
    BY <2>1, <2>2, Sizes
  <2>4. QED
    BY <2>1, <2>2, <2>3
<1>3. Apart(R) /\ Apart(F) /\ Apart(A) /\ alloc_list \in Values /\ free_list \in Values
      /\ free_list # NULL
  <2>1. Apart(R)
    BY <1>1, SizesTyped
  <2>2. Apart(F) /\ Apart(A)
    BY <2>1 DEF Apart
  <2>3. QED
    BY <1>1, <2>1, <2>2, LinksTyped
<1>4. /\ held' = [c \in DOMAIN held \ {b} |-> held[c]]
      /\ alloc_list' = off.list
      /\ mem' = merged.mem /\ free_list' = IF prev = NULL THEN node ELSE merged.list
      /\ fault' = fault
  BY <1>3, Zenon DEF Kfree, Cleared
\* Off the alloc list.
<1>5. IsCleared(cl, off.list, mem, F, A, node)
  <2> HIDE DEF node
  <2>1. QED
    BY <1>1, <1>2, <1>3, ClearedIs, Zenon
<1> HIDE DEF node, off, cl, R
<1>6. /\ cl \in Memories /\ Threaded(cl, off.list, B)
      /\ Prev(cl, node) = NULL /\ Succ(cl, node) = NULL
      /\ \A a \in R : SizeOf(cl, a) = SizeOf(mem, a)
      /\ \A c \in Cells : c \notin LinkCells(A) => cl[c] = mem[c]
  BY <1>5 DEF IsCleared, SizeOf, R
<1>7. Placed(cl, R) /\ node \in R /\ F \in SUBSET R /\ A \in SUBSET R /\ R = F \cup A
  BY <1>1, <1>2, <1>6 DEF Placed, R
<1>8. \A X \in SUBSET R : LinkCells(X) \subseteq Cells /\ R \cap LinkCells(X) = {}
  <2>1. \A a \in R : {a, a + 1, a + 2} \subseteq Cells
    BY <1>3, LinksApart
  <2>2. ASSUME NEW X \in SUBSET R PROVE R \cap LinkCells(X) = {}
    <3>1. {} \in SUBSET R /\ X \cap {} = {}
      OBVIOUS
    <3>2. QED
      BY <1>3, <3>1, LinkCellsApart
  <2>3. QED
    BY <2>1, <2>2 DEF LinkCells
<1>9. Threaded(cl, free_list, F)
  <2>1. LinkCells(F) \cap LinkCells(A) = {}
    BY <1>1, <1>3, <1>7, LinkCellsApart
  <2>2. \A c \in LinkCells(F) : cl[c] = mem[c]
    BY <1>6, <1>7, <1>8, <2>1
  <2>3. QED
    BY <1>1, <2>2, ThreadKept
\* Its neighbours.
<1>10. AreNeighbours(cl, F, node, prev, next)
  <2>1. node \in Addr /\ node \notin F
    BY <1>1, <1>2
  <2>2. QED
    BY <1>1, <1>3, <1>6, <1>9, <2>1, NeighboursFound, Zenon
<1> HIDE DEF prev, next, merged, start, above, total
<1>11. prev \in F \cup {NULL} /\ next \in F \cup {NULL}
       /\ prev \in R \cup {NULL} /\ next \in R \cup {NULL}
  BY <1>7, <1>10 DEF AreNeighbours, After
<1>12. AreNeighbours(mem, F, node, prev, next)
  <2>1. \A f \in F : SizeOf(cl, f) = SizeOf(mem, f)
    BY <1>6, <1>7
  <2>2. QED
    BY <1>10, <2>1 DEF AreNeighbours
\* The merge.
<1>13. IsMerged(merged, cl, F, node, prev, next)
  <2>1. node \notin F
    BY <1>1, <1>2
  <2>2. QED
    BY <1>3, <1>6, <1>7, <1>9, <1>11, <2>1, MergeIs, Zenon DEF merged
<1>14. /\ Start(cl, node, prev) = start /\ Above(cl, node, next) = above
       /\ Total(cl, node, prev, next) = total
  <2>1. Placed(mem, R) /\ node \in R /\ \A a \in R : SizeOf(cl, a) = SizeOf(mem, a)
    BY <1>1, <1>6, <1>7
  <2>2. SameJoins(cl, mem, node, prev, next)
    BY <1>1, <1>11, <2>1, JoinsKept
  <2>3. QED
    BY <2>2 DEF SameJoins, start, above, total
<1>15. /\ mem' \in Memories /\ Threaded(mem', merged.list, G) /\ mem'[start] = total
       /\ \A c \in Cells : c \notin LinkCells(F \cup {node}) /\ c # start => mem'[c] = cl[c]
  BY <1>4, <1>13, <1>14 DEF IsMerged
<1>16. /\ start \in R /\ start <= node /\ (start = node \/ start = prev)
       /\ start = node \/ start \in F
  <2>1. start \in R /\ start <= node
    <3>1. IsTotal(mem, R, node, prev, next)
      BY <1>1, <1>7, <1>11, TotalIs
    <3>2. QED
      BY <3>1 DEF IsTotal, start
  <2>2. start = node \/ (start = prev /\ prev # NULL)
    BY DEF start, Start, JoinsPrev
  <2>3. QED
    BY <1>11, <2>1, <2>2
<1>17. \A a \in R \ {start} : SizeOf(mem', a) = SizeOf(mem, a)
  <2>1. F \cup {node} \in SUBSET R
    BY <1>7
  <2>2. \A a \in R : a \in Cells /\ a \notin LinkCells(F \cup {node})
    <3>1. \A a \in R : a \in Cells
      BY <1>3, LinksApart
    <3>2. QED
      BY <1>8, <2>1, <3>1
  <2>3. QED
    BY <1>6, <1>15, <2>2 DEF SizeOf
<1>18. SizeOf(mem', start) = total
  BY <1>15 DEF SizeOf
\* The lists.
<1>19. Threaded(mem', alloc_list', B)
  <2>1. B \in SUBSET R /\ F \cup {node} \in SUBSET R /\ B \cap (F \cup {node}) = {}
    BY <1>1, <1>7
  <2>2. LinkCells(B) \cap LinkCells(F \cup {node}) = {}
    BY <1>3, <2>1, LinkCellsApart, Zenon
  <2>3. \A c \in LinkCells(B) : c \in Cells /\ c # start
    BY <1>8, <1>16, <2>1
  <2>4. \A c \in LinkCells(B) : mem'[c] = cl[c]
    BY <1>15, <2>2, <2>3
  <2> HIDE DEF B
  <2>5. QED
    BY <1>4, <1>6, <2>4, ThreadKept
<1>20. G \in SUBSET Addr /\ B \in SUBSET Addr /\ G \cap B = {} /\ G # {} /\ start \in G
       /\ G \cup B \in SUBSET R
  BY <1>1, <1>2, <1>7, <1>16
<1>21. Threaded(mem', free_list', G)
  <2>1. CASE prev # NULL
    BY <1>4, <1>15, <2>1
  <2>2. CASE prev = NULL
    <3>1. start = node /\ \A f \in F : node < f
      <4>1. \A f \in F : f # NULL
        BY <1>1, Sizes
      <4>2. \A f \in F : node < f
        BY <1>12, <2>2, <4>1 DEF AreNeighbours
      <4>3. QED
        BY <2>2, <4>2 DEF start, Start, JoinsPrev
    <3>2. \A c \in G : node <= c
      <4>1. \A f \in F : f \in Nat
        BY <1>1, Sizes
      <4>2. QED
        BY <1>2, <3>1, <4>1
    <3>3. After(G, NULL, merged.list)
      BY <1>15 DEF Threaded
    <3>4. node \in G
      BY <3>1
    <3> HIDE DEF G
    <3>5. merged.list = node
      BY <1>20, <3>2, <3>3, <3>4, FirstIs
    <3>6. QED
      BY <1>4, <1>15, <2>2, <3>5
  <2>3. QED
    BY <2>1, <2>2
<1>22. Placed(mem', G \cup B)
  <2>1. node \in G \cup B => node = start
    <3>1. node \notin F
      BY <1>1, <1>2
    <3>2. QED
      BY <3>1
  <2>2. (G \cup B) \cap above = {}
    <3>1. above \cap A = {}
      BY <1>1, <1>11, Sizes DEF above, Above
    <3>2. start \notin above
      <4>1. SUFFICES ASSUME JoinsNext(mem, node, next) PROVE start # next
        BY DEF above, Above
      <4>2. next \in R /\ node < next
        BY <1>1, <1>7, <1>11, <4>1, TotalIs DEF IsTotal
      <4>3. start \in Nat /\ next \in Nat
        BY <1>1, <1>7, <1>16, <4>2, Sizes
      <4>4. QED
        BY <1>2, <1>16, <4>2, <4>3
    <3>3. QED
      BY <3>1, <3>2
  <2> DEFINE Q == G \cup B
  <2>3. Q \in SUBSET R /\ Q \cap above = {} /\ (node \in Q => node = start)
    BY <1>20, <2>1, <2>2
  <2> HIDE DEF Q
  <2>4. Placed(mem', Q)
    BY <1>1, <1>7, <1>11, <1>17, <1>18, <2>3, MergedPlaced, Zenon DEF start, above, total
  <2>5. QED
    BY <2>4 DEF Q
\* What clients hold.
<1>23. held' \in [{a + Header : a \in B} -> Nat]
  <2>1. \A a \in A : a \in Nat
    BY <1>1, Sizes
  <2>2. {a + Header : a \in B} = DOMAIN held \ {b}
    BY <1>1, <1>2, <2>1, Sizes
  <2>3. QED
    BY <1>1, <1>4, <2>2
<1>24. ASSUME NEW a \in B PROVE SizeOf(mem', a) = held'[a + Header] + Header
  <2>1. a \in A /\ a # node /\ a \in Nat /\ a # start
    BY <1>1, <1>16, <1>24, Sizes
  <2>2. a + Header \in DOMAIN held /\ a + Header # b
    BY <1>1, <1>2, <2>1, Sizes
  <2>3. held'[a + Header] = held[a + Header]
    BY <1>4, <2>2
  <2>4. SizeOf(mem', a) = SizeOf(mem, a)
    BY <1>7, <1>17, <2>1
  <2>5. QED
    BY <1>1, <2>1, <2>3, <2>4
<1>25. Shape(mem', free_list', alloc_list', held', G, B)
  <2> HIDE DEF G, B
  <2>1. QED
    BY <1>15, <1>19, <1>20, <1>21, <1>22, <1>23, <1>24 DEF Shape
<1>26. \A c \in Cells : c \notin HeaderCells(R) => mem'[c] = mem[c]
  <2> SUFFICES ASSUME NEW c \in Cells, c \notin HeaderCells(R) PROVE mem'[c] = mem[c]
    OBVIOUS
  <2>1. c \notin R /\ c \notin LinkCells(F \cup {node}) /\ c \notin LinkCells(A)
    BY <1>7 DEF HeaderCells, LinkCells
  <2>2. QED
    BY <1>6, <1>15, <1>16, <2>1
<1>27. Frees(node, prev, next, F, A)
  BY <1>2, <1>4, <1>7, <1>11, <1>12, <1>17, <1>18, <1>25, <1>26, Zenon
     DEF Frees, start, above, total
<1>28. QED
  BY <1>27 DEF node

-----------------------------------------------------------------------------
(* The invariant.                                                          *)

LEMMA ShapeNodes ==
  ASSUME NEW m, NEW free, NEW alloc, NEW h, NEW F, NEW A, Shape(m, free, alloc, h, F, A)
  PROVE  /\ {Path(m, free)[i] : i \in 0 .. MaxNodes} \ {NULL} = F
         /\ {Path(m, alloc)[i] : i \in 0 .. MaxNodes} \ {NULL} = A
<1>1. Threaded(m, free, F) /\ Threaded(m, alloc, A) /\ m \in Memories /\ Placed(m, F \cup A)
  BY DEF Shape
<1>2. Apart(F) /\ Apart(A)
  <2>1. Apart(F \cup A)
    BY <1>1, SizesTyped
  <2>2. QED
    BY <2>1 DEF Apart
<1>3. QED
  BY <1>1, <1>2, NodesOfThreaded

\* A client writes into no header.
LEMMA WritesKeep ==
  ASSUME NEW F, NEW A, Shape(mem, free_list, alloc_list, held, F, A),
         NEW b \in DOMAIN held, ClientWrites(b)
  PROVE  /\ Shape(mem', free_list', alloc_list', held', F, A)
         /\ \A a \in F \cup A : SizeOf(mem', a) = SizeOf(mem, a)
<1> DEFINE R == F \cup A
<1>1. /\ mem \in Memories /\ F \in SUBSET Addr /\ A \in SUBSET Addr /\ F \cap A = {}
      /\ F # {} /\ Threaded(mem, free_list, F) /\ Threaded(mem, alloc_list, A)
      /\ Placed(mem, R) /\ held \in [{a + Header : a \in A} -> Nat]
      /\ \A a \in A : SizeOf(mem, a) = held[a + Header] + Header
  BY DEF Shape
<1>2. PICK a \in A : b = a + Header
  BY <1>1
<1>3. /\ a \in R /\ a \in Nat /\ held[b] \in Nat
      /\ b + held[b] - 1 = a + SizeOf(mem, a) - 1 /\ b = a + Header
  BY <1>1, <1>2, Sizes
<1>4. /\ mem' = [c \in Cells |-> IF c \in b .. b + held[b] - 1 THEN Fill ELSE mem[c]]
      /\ free_list' = free_list /\ alloc_list' = alloc_list /\ held' = held
  BY DEF ClientWrites
<1>5. Fill \in Values
  BY KMallocAssumption, Sizes DEF Values
<1>6. mem' \in Memories
  BY <1>1, <1>4, <1>5 DEF Memories
<1>7. \A c \in Cells : c \in HeaderCells(R) => mem'[c] = mem[c]
  <2>1. \A c \in a + Header .. a + SizeOf(mem, a) - 1 : c \notin HeaderCells(R)
    BY <1>1, <1>3, PayloadApart
  <2>2. \A c \in b .. b + held[b] - 1 : c \notin HeaderCells(R)
    BY <1>3, <2>1
  <2> HIDE DEF R
  <2>3. QED
    BY <1>4, <2>2
<1>8. \A c \in HeaderCells(R) : mem'[c] = mem[c]
  <2>1. Apart(R)
    BY <1>1, SizesTyped
  <2> HIDE DEF R
  <2>2. \A d \in R : {d, d + 1, d + 2} \subseteq Cells
    BY <2>1, LinksApart
  <2>3. QED
    BY <1>7, <2>2 DEF HeaderCells, LinkCells
<1>9. Threaded(mem', free_list, F) /\ Threaded(mem', alloc_list, A)
  <2>1. /\ \A c \in LinkCells(F) : c \in HeaderCells(R)
        /\ \A c \in LinkCells(A) : c \in HeaderCells(R)
    BY DEF HeaderCells, LinkCells
  <2>2. QED
    BY <1>1, <1>8, <2>1, ThreadKept
<1>10. \A d \in R : SizeOf(mem', d) = SizeOf(mem, d)
  BY <1>8 DEF HeaderCells, SizeOf
<1>11. Placed(mem', R)
  <2> HIDE DEF R
  <2>1. QED
    BY <1>1, <1>10 DEF Placed
<1>12. \A d \in A : SizeOf(mem', d) = held[d + Header] + Header
  BY <1>1, <1>10
<1>13. QED
  BY <1>1, <1>4, <1>6, <1>9, <1>10, <1>11, <1>12 DEF Shape

LEMMA InitHeapInv == Init => HeapInv
<1> SUFFICES ASSUME Init PROVE HeapInv
  OBVIOUS
<1>1. /\ free_list = 1 /\ alloc_list = 0 /\ fault = FALSE /\ held = <<>>
      /\ mem = [c \in Cells |-> IF c = 1 THEN HeapSize ELSE 0]
  BY Sizes DEF Init
<1>2. mem \in Memories /\ 1 \in Addr /\ 1 \in Cells /\ 2 \in Cells /\ 3 \in Cells
  BY <1>1, Sizes DEF Memories, Values
<1>3. mem[1] = HeapSize /\ mem[2] = 0 /\ mem[3] = 0
  BY <1>1, <1>2
<1>4. Threaded(mem, free_list, {1}) /\ Threaded(mem, alloc_list, {})
  BY <1>1, <1>3, Sizes DEF Threaded, After, Before, Succ, Prev
<1>5. Placed(mem, {1} \cup {})
  BY <1>2, <1>3, Sizes DEF Placed, SizeOf
<1>6. held \in [{a + Header : a \in {}} -> Nat]
  <2>1. DOMAIN held = {} /\ {a + Header : a \in {}} = {}
    BY <1>1
  <2>2. held = [x \in {} |-> 0]
    BY <1>1
  <2>3. QED
    BY <2>1, <2>2
<1>7. Shape(mem, free_list, alloc_list, held, {1}, {})
  BY <1>2, <1>4, <1>5, <1>6 DEF Shape
<1>8. Nodes(free_list) = {1} /\ Nodes(alloc_list) = {}
  BY <1>7, ShapeNodes DEF Nodes
<1>9. QED
  BY <1>1, <1>7, <1>8 DEF HeapInv

LEMMA NextHeapInv == Roomy /\ HeapInv /\ [Next]_vars => HeapInv'
<1> SUFFICES ASSUME Roomy, HeapInv, [Next]_vars PROVE HeapInv'
  OBVIOUS
<1> DEFINE F == Nodes(free_list)
           A == Nodes(alloc_list)
<1>1. Shape(mem, free_list, alloc_list, held, F, A) /\ fault = FALSE
  BY DEF HeapInv
<1>2. ASSUME NEW G, NEW B, Shape(mem', free_list', alloc_list', held', G, B), fault' = fault
      PROVE  HeapInv'
  <2>1. Nodes(free_list)' = G /\ Nodes(alloc_list)' = B
    BY <1>2, ShapeNodes DEF Nodes
  <2>2. QED
    BY <1>1, <1>2, <2>1 DEF HeapInv
<1> HIDE DEF F, A
<1>3. ASSUME NEW n \in Requests, Kmalloc(n) PROVE HeapInv'
  <2>1. PICK f \in F : Takes(n, f, F, A)
    BY <1>1, <1>3, KmallocTakes
  <2>2. QED
    BY <1>2, <2>1, Zenon DEF Takes
<1>4. ASSUME NEW b \in DOMAIN held, Kfree(b) PROVE HeapInv'
  <2>1. PICK prev, next : Frees(b - Header, prev, next, F, A)
    BY <1>1, <1>4, KfreeFrees
  <2>2. QED
    BY <1>2, <2>1, Zenon DEF Frees
<1>5. ASSUME NEW b \in DOMAIN held, ClientWrites(b) PROVE HeapInv'
  <2>1. fault' = fault
    BY <1>5 DEF ClientWrites
  <2>2. QED
    BY <1>1, <1>2, <1>5, <2>1, WritesKeep
<1>6. CASE UNCHANGED vars
  <2>1. Shape(mem', free_list', alloc_list', held', F, A) /\ fault' = fault
    BY <1>1, <1>6 DEF vars
  <2>2. QED
    BY <1>2, <2>1
<1>7. QED
  BY <1>3, <1>4, <1>5, <1>6 DEF Next

LEMMA HeapInvLists == HeapInv => ListsOK
<1> SUFFICES ASSUME HeapInv PROVE ListsOK
  OBVIOUS
<1> DEFINE F == Nodes(free_list)
           A == Nodes(alloc_list)
           R == F \cup A
<1>1. /\ mem \in Memories /\ F \in SUBSET Addr /\ A \in SUBSET Addr /\ F \cap A = {}
      /\ Threaded(mem, free_list, F) /\ Threaded(mem, alloc_list, A)
      /\ Placed(mem, R) /\ held \in [{a + Header : a \in A} -> Nat]
      /\ fault = FALSE
  BY DEF HeapInv, Shape
<1>2. Apart(F) /\ Apart(A) /\ \A a \in A : a + Header <= HeapEnd /\ a \in Nat
  <2>1. Apart(R) /\ \A a \in R : SizeOf(mem, a) \in Nat /\ a \in Nat
    BY <1>1, SizesTyped
  <2>2. \A a \in R : SizeOf(mem, a) >= Header /\ a + SizeOf(mem, a) <= HeapEnd
    BY <1>1 DEF Placed
  <2>3. \A a \in R : a + Header <= HeapEnd
    BY <2>1, <2>2, Sizes
  <2>4. QED
    BY <2>1, <2>3 DEF Apart
<1>3. TypeOK
  <2>1. mem \in [Cells -> 0 .. HeapEnd]
    BY <1>1 DEF Memories, Values
  <2>2. {free_list, alloc_list} \subseteq Addr \cup {NULL}
    BY <1>1, <1>2, LinksTyped
  <2>3. DOMAIN held \subseteq Addr \cup {HeapEnd}
    <3>1. \A a \in A : a + Header \in Addr \cup {HeapEnd}
      BY <1>2, Sizes
    <3>2. QED
      BY <1>1, <3>1
  <2>4. QED
    BY <1>1, <2>1, <2>2, <2>3 DEF TypeOK
<1>4. ASSUME NEW list, NEW S, Apart(S), Threaded(mem, list, S), Nodes(list) = S
      PROVE  Linked(list)
  <2>1. /\ \A a \in S : a \in Nat /\ a # NULL
        /\ After(S, NULL, list)
        /\ \A a \in S : After(S, a, Succ(mem, a)) /\ Before(S, a, Prev(mem, a))
    BY <1>4, LinksTyped DEF Threaded
  <2>2. ASSUME NEW a \in S PROVE a = list <=> Prev(mem, a) = NULL
    <3>1. (\A c \in S : a <= c) => a = list
      BY <2>1, Sizes DEF After
    <3>2. a = list => \A c \in S : a <= c
      BY <2>1, Sizes DEF After
    <3>3. Prev(mem, a) = NULL <=> \A c \in S : a <= c
      BY <2>1 DEF Before
    <3>4. QED
      BY <3>1, <3>2, <3>3
  <2>3. ASSUME NEW a \in S, Succ(mem, a) # NULL
        PROVE  Succ(mem, a) > a /\ Prev(mem, Succ(mem, a)) = a
    <3> DEFINE b == Succ(mem, a)
               c == Prev(mem, b)
    <3>1. b \in S /\ a < b /\ \A d \in S : a < d => b <= d
      BY <2>1, <2>3 DEF After
    <3>2. Before(S, b, c)
      BY <2>1, <3>1
    <3> HIDE DEF b, c
    <3>3. c \in S /\ c < b /\ a <= c
      BY <2>1, <3>1, <3>2 DEF Before
    <3>4. c = a
      BY <2>1, <3>1, <3>3
    <3>5. QED
      BY <2>1, <3>1, <3>4 DEF b, c
  <2>4. QED
    BY <1>4, <2>2, <2>3 DEF Linked
<1>5. Linked(free_list) /\ Linked(alloc_list)
  BY <1>1, <1>2, <1>4
<1>6. QED
  BY <1>1, <1>3, <1>5 DEF ListsOK

\* Whatever clients ask for, free and write, both lists stay what the loops
\* of lib/kmalloc.c assume of them, for a heap of any size.
THEOREM ListsStayLinked == Roomy /\ Spec => []ListsOK
<1>1. Roomy /\ Init => Roomy /\ HeapInv
  BY InitHeapInv
<1>2. (Roomy /\ HeapInv) /\ [Next]_vars => (Roomy /\ HeapInv)'
  BY NextHeapInv
<1>3. Roomy /\ HeapInv => ListsOK
  BY HeapInvLists
<1>4. QED
  BY <1>1, <1>2, <1>3, PTL DEF Spec

LEMMA StepKeepsPayload ==
  ASSUME Roomy, HeapInv, [Next]_vars,
         NEW b \in DOMAIN held, b \in DOMAIN held', held' # held,
         NEW c \in b .. b + held[b] - 1
  PROVE  mem'[c] = mem[c]
<1> DEFINE F == Nodes(free_list)
           A == Nodes(alloc_list)
<1>1. Shape(mem, free_list, alloc_list, held, F, A)
  BY DEF HeapInv
<1> HIDE DEF F, A
<1>2. /\ mem \in Memories /\ Placed(mem, F \cup A) /\ A \in SUBSET Addr /\ F \cap A = {}
      /\ held \in [{a + Header : a \in A} -> Nat]
      /\ \A a \in A : SizeOf(mem, a) = held[a + Header] + Header
  BY <1>1 DEF Shape
<1>3. PICK a \in A : b = a + Header
  BY <1>2
<1>4. /\ a \in Nat /\ held[b] \in Nat /\ SizeOf(mem, a) = held[b] + 3 /\ b = a + 3
  BY <1>2, <1>3, Sizes
<1>5. c \in a + Header .. a + SizeOf(mem, a) - 1
  BY <1>4, Sizes
<1>6. ASSUME NEW n \in Requests, Kmalloc(n) PROVE mem'[c] = mem[c]
  <2>1. PICK f \in F : Takes(n, f, F, A)
    BY <1>1, <1>6, KmallocTakes
  <2> DEFINE need == n + Header
             rest == f + need
             G == (F \ {f}) \cup {rest}
             B == A \cup {f}
             S == (F \cup A) \cup {rest}
  <2>2. /\ Shape(mem', free_list', alloc_list', held', G, B)
        /\ \A d \in (F \cup A) \ {f} : SizeOf(mem', d) = SizeOf(mem, d)
        /\ \A d \in Cells : d \notin HeaderCells(S) => mem'[d] = mem[d]
    BY <2>1, Zenon DEF Takes
  <2>3. mem' \in Memories /\ Placed(mem', G \cup B) /\ G \cup B = S
    BY <2>2 DEF Shape
  <2>4. SizeOf(mem', a) = SizeOf(mem, a)
    BY <1>2, <2>2
  <2>5. a \in S
    OBVIOUS
  <2> HIDE DEF S, G, B
  <2>6. c \in Cells /\ c \notin HeaderCells(S)
    BY <1>5, <2>3, <2>4, <2>5, PayloadApart
  <2>7. QED
    BY <2>2, <2>6
<1>7. ASSUME NEW d \in DOMAIN held, Kfree(d) PROVE mem'[c] = mem[c]
  <2>1. PICK prev, next : Frees(d - Header, prev, next, F, A)
    BY <1>1, <1>7, KfreeFrees
  <2>2. \A e \in Cells : e \notin HeaderCells(F \cup A) => mem'[e] = mem[e]
    BY <2>1, Zenon DEF Frees
  <2> DEFINE R == F \cup A
  <2>3. a \in R /\ Placed(mem, R)
    BY <1>2
  <2> HIDE DEF R
  <2>4. c \in Cells /\ c \notin HeaderCells(R)
    BY <1>2, <1>5, <2>3, PayloadApart
  <2>5. QED
    BY <2>2, <2>4 DEF R
<1>8. ~ (\E d \in DOMAIN held : ClientWrites(d)) /\ ~ UNCHANGED vars
  BY DEF ClientWrites, vars
<1>9. QED
  BY <1>6, <1>7, <1>8 DEF Next

\* kmalloc and kfree leave the words of every block that a client keeps.
THEOREM PayloadIsKept == Roomy /\ Spec => PayloadKept
<1>1. Roomy /\ Init => Roomy /\ HeapInv
  BY InitHeapInv
<1>2. (Roomy /\ HeapInv) /\ [Next]_vars => (Roomy /\ HeapInv)'
  BY NextHeapInv
<1>3. (Roomy /\ HeapInv) /\ [Next]_vars =>
        [\A b \in DOMAIN held \cap DOMAIN held' :
           held' # held => \A c \in b .. b + held[b] - 1 : mem'[c] = mem[c]]_vars
  BY StepKeepsPayload
<1>4. QED
  BY <1>1, <1>2, <1>3, PTL DEF Spec, PayloadKept

-----------------------------------------------------------------------------
(* The regions.                                                            *)

\* Addresses and sizes as RegionHeap counts them.
Shifted(S) == {a - HeapStart : a \in S}
SizesAt(m, R) == [r \in 0 .. HeapSize - 1 |->
                    IF r + HeapStart \in R THEN SizeOf(m, r + HeapStart) ELSE 0]

LEMMA ShiftedIs ==
  ASSUME NEW S \in SUBSET Addr
  PROVE  /\ \A a \in S : a \in Nat /\ a - 1 \in Shifted(S)
         /\ \A x \in Shifted(S) : x \in Nat /\ x + 1 \in S /\ x <= HeapSize - 1
<1>1. \A a \in S : a \in 1 .. HeapSize
  BY Sizes
<1>2. \A a \in S : a - 1 \in Shifted(S)
  BY Sizes DEF Shifted
<1>3. ASSUME NEW x \in Shifted(S) PROVE x \in Nat /\ x + 1 \in S /\ x <= HeapSize - 1
  <2>1. PICK a \in S : x = a - 1
    BY Sizes DEF Shifted
  <2>2. x + 1 = a /\ a \in 1 .. HeapSize
    BY <1>1, <2>1
  <2>3. QED
    BY <2>1, <2>2, Sizes
<1>4. QED
  BY <1>1, <1>2, <1>3

LEMMA SizesAtIs ==
  ASSUME NEW m, NEW R \in SUBSET Addr
  PROVE  /\ \A a \in R : a - 1 \in 0 .. HeapSize - 1 /\ SizesAt(m, R)[a - 1] = SizeOf(m, a)
         /\ \A x \in 0 .. HeapSize - 1 :
              SizesAt(m, R)[x] = IF x + 1 \in R THEN SizeOf(m, x + 1) ELSE 0
         /\ DOMAIN SizesAt(m, R) = 0 .. HeapSize - 1
<1>1. \A x \in 0 .. HeapSize - 1 :
        SizesAt(m, R)[x] = IF x + 1 \in R THEN SizeOf(m, x + 1) ELSE 0
  BY Sizes DEF SizesAt
<1>2. ASSUME NEW a \in R
      PROVE  a - 1 \in 0 .. HeapSize - 1 /\ SizesAt(m, R)[a - 1] = SizeOf(m, a)
  <2>1. a \in 1 .. HeapSize /\ HeapSize \in Nat
    BY Sizes
  <2>2. a - 1 \in 0 .. HeapSize - 1 /\ (a - 1) + 1 = a
    BY <2>1
  <2>3. QED
    BY <1>1, <2>2
<1>3. QED
  BY <1>1, <1>2 DEF SizesAt

LEMMA InitRegions == Init => Region!Init
<1> SUFFICES ASSUME Init PROVE Region!Init
  OBVIOUS
<1> DEFINE F == Nodes(free_list)
           A == Nodes(alloc_list)
<1>1. Shape(mem, free_list, alloc_list, held, F, A)
  BY InitHeapInv DEF HeapInv
<1>2. /\ F \in SUBSET Addr /\ A \in SUBSET Addr
      /\ free_list \in F \cup {NULL} /\ (A = {} <=> alloc_list = NULL)
      /\ After(F, free_list, Succ(mem, free_list)) /\ After(F, NULL, free_list)
  <2>1. Threaded(mem, free_list, F) /\ Threaded(mem, alloc_list, A) /\ Placed(mem, F \cup A)
        /\ mem \in Memories /\ F # {} /\ F \in SUBSET Addr /\ A \in SUBSET Addr
    BY <1>1 DEF Shape
  <2>2. Apart(F) /\ Apart(A)
    <3>1. Apart(F \cup A)
      BY <2>1, SizesTyped
    <3>2. QED
      BY <3>1 DEF Apart
  <2>3. free_list \in F
    BY <2>1, <2>2, LinksTyped
  <2>4. QED
    BY <2>1, <2>2, <2>3, LinksTyped DEF Threaded
<1> HIDE DEF F, A
<1>3. free_list = 1 /\ alloc_list = NULL /\ mem[1] = HeapSize /\ mem[3] = NULL
  BY Sizes DEF Init
<1>4. F = {1} /\ A = {}
  <2>1. Succ(mem, free_list) = NULL
    BY <1>3 DEF Succ
  <2>2. \A c \in F : c <= 1 /\ c \in Nat /\ c >= 1
    BY <1>2, <1>3, <2>1, Sizes DEF After
  <2>3. 1 \in F
    BY <1>2, <1>3, Sizes
  <2>4. \A c \in F : c = 1
    BY <2>2
  <2>5. F = {1}
    BY <2>3, <2>4
  <2>6. QED
    BY <1>2, <1>3, <2>5
<1>5. Shifted(F) = {0} /\ Shifted(A) = {}
  BY <1>4, Sizes DEF Shifted
<1>6. SizesAt(mem, F \cup A) = [a \in 0 .. HeapSize - 1 |-> IF a = 0 THEN HeapSize ELSE 0]
  <2>1. \A a \in 0 .. HeapSize - 1 : (a + 1 \in F \cup A <=> a = 0)
    BY <1>4
  <2>2. \A a \in 0 .. HeapSize - 1 :
          (IF a + 1 \in F \cup A THEN SizeOf(mem, a + 1) ELSE 0)
            = IF a = 0 THEN HeapSize ELSE 0
    BY <1>3, <2>1 DEF SizeOf
  <2>3. SizesAt(mem, F \cup A) = [a \in 0 .. HeapSize - 1 |->
                                    IF a + 1 \in F \cup A THEN SizeOf(mem, a + 1) ELSE 0]
    BY Sizes DEF SizesAt
  <2>4. QED
    BY <2>2, <2>3
<1>7. QED
  BY <1>5, <1>6 DEF Region!Init, Region!Addr, Shifted, SizesAt, F, A

LEMMA KmallocRegions ==
  ASSUME Roomy, HeapInv, NEW n \in Requests, Kmalloc(n)
  PROVE  Region!Malloc(n)
<1> DEFINE F == Nodes(free_list)
           A == Nodes(alloc_list)
           R == F \cup A
           z == SizesAt(mem, R)
<1>1. Shape(mem, free_list, alloc_list, held, F, A)
  BY DEF HeapInv
<1>2. PICK f \in F : Takes(n, f, F, A)
  BY <1>1, KmallocTakes
<1> DEFINE need == n + Header
           rest == f + need
           G == (F \ {f}) \cup {rest}
           B == A \cup {f}
           S == R \cup {rest}
           f0 == f - 1
           top == f0 + need
<1>3. /\ rest \in Addr /\ rest \notin R
      /\ SizeOf(mem, f) - need >= Header
      /\ \A g \in F : g < f => ~ (SizeOf(mem, g) >= need)
      /\ Shape(mem', free_list', alloc_list', held', G, B)
      /\ SizeOf(mem', f) = need /\ SizeOf(mem', rest) = SizeOf(mem, f) - need
      /\ \A a \in R \ {f} : SizeOf(mem', a) = SizeOf(mem, a)
  BY <1>2, Zenon DEF Takes
<1>4. Nodes(free_list)' = G /\ Nodes(alloc_list)' = B /\ G \cup B = S
  BY <1>3, ShapeNodes DEF Nodes
<1>5. /\ mem \in Memories /\ F \in SUBSET Addr /\ A \in SUBSET Addr /\ R \in SUBSET Addr
      /\ S \in SUBSET Addr /\ Placed(mem, R)
  BY <1>1, <1>3 DEF Shape
<1>6. /\ need \in Nat /\ n \in Nat /\ need = n + Header /\ f \in R /\ f \in Nat /\ f >= 1
      /\ SizeOf(mem, f) \in Nat /\ f0 \in Nat /\ rest = top + 1 /\ f = f0 + 1 /\ rest = f + need
  <2>1. n \in Nat /\ f \in R /\ f \in 1 .. HeapSize
    BY <1>5, Sizes, KMallocAssumption
  <2>2. SizeOf(mem, f) \in Nat
    BY <1>5, <2>1, SizesTyped
  <2>3. QED
    BY <2>1, <2>2, Sizes
<1> HIDE DEF F, A, need, rest, f0
<1>7. \A a \in R : a - 1 \in 0 .. HeapSize - 1 /\ z[a - 1] = SizeOf(mem, a)
  <2> HIDE DEF R
  <2>1. QED
    BY <1>5, SizesAtIs
<1>8. f0 \in Shifted(F) /\ z[f0] = SizeOf(mem, f) /\ f0 \in 0 .. HeapSize - 1
  <2>1. f0 = f - 1
    BY DEF f0
  <2> HIDE DEF R, z
  <2>2. QED
    BY <1>5, <1>6, <1>7, <2>1, ShiftedIs
<1>9. ASSUME NEW g \in Shifted(F), z[g] >= need PROVE f0 <= g
  <2>1. g \in Nat /\ g + 1 \in F /\ g + 1 \in R
    BY <1>5, ShiftedIs
  <2>2. z[g] = SizeOf(mem, g + 1)
    <3>1. (g + 1) - 1 = g
      BY <2>1
    <3> HIDE DEF z, R
    <3>2. QED
      BY <1>7, <2>1, <3>1
  <2>3. ~ (g + 1 < f)
    BY <1>3, <1>9, <2>1, <2>2
  <2>4. QED
    BY <1>6, <2>1, <2>3
<1>10. Shifted(G) = (Shifted(F) \ {f0}) \cup {top}
  <2>1. G \in SUBSET Addr
    BY <1>3 DEF Shape
  <2>2. ASSUME NEW x \in Shifted(G) PROVE x \in (Shifted(F) \ {f0}) \cup {top}
    <3>1. x \in Nat /\ x + 1 \in G
      BY <2>1, ShiftedIs
    <3>2. CASE x + 1 = rest
      BY <1>6, <3>1, <3>2
    <3>3. CASE x + 1 # rest
      <4>1. x + 1 \in F /\ x + 1 # f
        BY <3>1, <3>3
      <4>2. (x + 1) - 1 = x /\ x # f0
        BY <1>6, <3>1, <4>1
      <4>3. (x + 1) - 1 \in Shifted(F)
        BY <1>5, <4>1, ShiftedIs
      <4>4. QED
        BY <4>2, <4>3
    <3>4. QED
      BY <3>2, <3>3
  <2>3. ASSUME NEW x \in (Shifted(F) \ {f0}) \cup {top} PROVE x \in Shifted(G)
    <3>1. CASE x = top
      <4>1. rest \in G /\ rest - 1 = x
        BY <1>6, <3>1
      <4>2. QED
        BY <2>1, <4>1, ShiftedIs
    <3>2. CASE x # top
      <4>1. x \in Nat /\ x + 1 \in F /\ x # f0
        BY <1>5, <2>3, <3>2, ShiftedIs
      <4>2. x + 1 \in G /\ (x + 1) - 1 = x
        BY <1>6, <4>1
      <4>3. (x + 1) - 1 \in Shifted(G)
        BY <2>1, <4>2, ShiftedIs
      <4>4. QED
        BY <4>2, <4>3
    <3>3. QED
      BY <3>1, <3>2
  <2>4. QED
    BY <2>2, <2>3
<1>11. Shifted(B) = Shifted(A) \cup {f0}
  BY Sizes DEF Shifted, f0
<1>12. SizesAt(mem', S) = [z EXCEPT ![f0] = need, ![top] = z[f0] - need]
  <2> DEFINE y == SizesAt(mem', S)
             e == [z EXCEPT ![f0] = need, ![top] = z[f0] - need]
             I == 0 .. HeapSize - 1
  <2>1. /\ \A x \in I : y[x] = IF x + 1 \in S THEN SizeOf(mem', x + 1) ELSE 0
        /\ \A x \in I : z[x] = IF x + 1 \in R THEN SizeOf(mem, x + 1) ELSE 0
        /\ y = [x \in I |-> y[x]] /\ z = [x \in I |-> z[x]]
    <3> HIDE DEF R, S
    <3>1. /\ \A x \in I : y[x] = IF x + 1 \in S THEN SizeOf(mem', x + 1) ELSE 0
          /\ \A x \in I : z[x] = IF x + 1 \in R THEN SizeOf(mem, x + 1) ELSE 0
      BY <1>5, SizesAtIs
    <3>2. y = [x \in I |-> y[x]] /\ z = [x \in I |-> z[x]]
      BY DEF SizesAt
    <3>3. QED
      BY <3>1, <3>2
  <2> HIDE DEF z, y
  <2>2. ASSUME NEW x \in I
        PROVE  y[x] = IF x = top THEN z[f0] - need ELSE IF x = f0 THEN need ELSE z[x]
    <3>1. CASE x = top
      <4>1. x + 1 = rest /\ rest \in S
        BY <1>6, <3>1
      <4>2. QED
        BY <1>3, <1>8, <2>1, <3>1, <4>1
    <3>2. CASE x = f0 /\ x # top
      <4>1. x + 1 = f /\ f \in S
        BY <1>6, <3>2
      <4>2. QED
        BY <1>3, <2>1, <3>2, <4>1
    <3>3. CASE x # f0 /\ x # top
      <4>1. x + 1 # f /\ x + 1 # rest
        BY <1>6, <3>3
      <4>2. x + 1 \in S <=> x + 1 \in R
        BY <4>1
      <4>3. x + 1 \in R => SizeOf(mem', x + 1) = SizeOf(mem, x + 1)
        BY <1>3, <4>1
      <4> HIDE DEF S, R
      <4>4. QED
        BY <2>1, <3>3, <4>2, <4>3
    <3>4. QED
      BY <3>1, <3>2, <3>3
  <2>3. f0 # top
    BY <1>6, Sizes
  <2>4. \A x \in I : e[x] = IF x = top THEN z[f0] - need ELSE IF x = f0 THEN need ELSE z[x]
    BY <2>1, <2>3
  <2>5. e = [x \in I |-> e[x]]
    BY <2>1
  <2> HIDE DEF e
  <2>6. y = e
    BY <2>1, <2>2, <2>4, <2>5
  <2>7. QED
    BY <2>6 DEF y, e
<1> DEFINE free0 == Shifted(F)
           alloc0 == Shifted(A)
<1>13. /\ f0 \in free0 /\ z[f0] >= need /\ \A g \in free0 : z[g] >= need => f0 <= g
       /\ z[f0] - need >= Header
  <2>1. z[f0] >= need
    BY <1>3, <1>6, <1>8, Sizes
  <2>2. QED
    BY <1>3, <1>8, <1>9, <2>1
<1>14. /\ Shifted(Nodes(free_list)') = (free0 \ {f0}) \cup {f0 + need}
       /\ Shifted(Nodes(alloc_list)') = alloc0 \cup {f0}
       /\ SizesAt(mem', Nodes(free_list)' \cup Nodes(alloc_list)')
            = [z EXCEPT ![f0] = need, ![f0 + need] = z[f0] - need]
  BY <1>4, <1>10, <1>11, <1>12
<1>15. z[f0] - need > 0 /\ z[f0] - need >= 3
  BY <1>6, <1>8, <1>13 DEF Header
<1>16. [z EXCEPT ![f0] = need, ![f0 + need] = z[f0] - need] \in Region!Split(f0, need)
  <2>1. Region!Split(f0, need) = {[z EXCEPT ![f0] = need, ![f0 + need] = z[f0] - need]}
    BY <1>13, Zenon DEF Region!Split, Shifted, SizesAt, R, F, A
  <2>2. QED
    BY <2>1, Zenon
<1>17. (IF z[f0] - need > 0 THEN {f0 + need} ELSE {}) = {f0 + need}
  BY <1>15, Zenon
<1>18. /\ Region!FirstFit(f0, need)
       /\ Roomy => z[f0] - need >= Header
       /\ Shifted(Nodes(free_list)')
            = (free0 \ {f0}) \cup (IF z[f0] - need > 0 THEN {f0 + need} ELSE {})
       /\ SizesAt(mem', Nodes(free_list)' \cup Nodes(alloc_list)') \in Region!Split(f0, need)
  <2>1. Region!FirstFit(f0, need)
    BY <1>13, Zenon DEF Region!FirstFit, Shifted, SizesAt, R, F, A
  <2>2. QED
    BY <1>13, <1>14, <1>16, <1>17, <2>1, Zenon
<1>19. QED
  BY <1>13, <1>14, <1>18, Zenon DEF Region!Malloc, Shifted, SizesAt, need, R, F, A

LEMMA KfreeRegions ==
  ASSUME HeapInv, NEW b \in DOMAIN held, Kfree(b)
  PROVE  Region!Kfree(b - Header - HeapStart)
<1> DEFINE F == Nodes(free_list)
           A == Nodes(alloc_list)
           R == F \cup A
           z == SizesAt(mem, R)
           node == b - Header
<1>1. Shape(mem, free_list, alloc_list, held, F, A)
  BY DEF HeapInv
<1>2. PICK prev, next : Frees(node, prev, next, F, A)
  BY <1>1, KfreeFrees
<1> DEFINE start == Start(mem, node, prev)
           above == Above(mem, node, next)
           total == Total(mem, node, prev, next)
           JP == JoinsPrev(mem, node, prev)
           JN == JoinsNext(mem, node, next)
           G == (F \ above) \cup {start}
           B == A \ {node}
           Q == G \cup B
           b0 == node - HeapStart
           p0 == prev - HeapStart
           q0 == next - HeapStart
           free0 == Shifted(F)
           alloc0 == Shifted(A)
<1>3. /\ node \in A /\ prev \in F \cup {NULL} /\ next \in F \cup {NULL}
      /\ AreNeighbours(mem, F, node, prev, next)
      /\ Shape(mem', free_list', alloc_list', held', G, B)
      /\ SizeOf(mem', start) = total
      /\ \A a \in R \ {start} : SizeOf(mem', a) = SizeOf(mem, a)
  BY <1>2, Zenon DEF Frees
<1>4. Nodes(free_list)' = G /\ Nodes(alloc_list)' = B
  BY <1>3, ShapeNodes DEF Nodes
<1>5. /\ mem \in Memories /\ F \in SUBSET Addr /\ A \in SUBSET Addr /\ R \in SUBSET Addr
      /\ Placed(mem, R) /\ F \cap A = {}
      /\ G \in SUBSET Addr /\ B \in SUBSET Addr
  BY <1>1, <1>3 DEF Shape
<1> HIDE DEF F, A, node
<1>6. /\ \A a \in R : a \in Nat /\ a >= 1 /\ SizeOf(mem, a) \in Nat
      /\ \A a \in R : a - 1 \in 0 .. HeapSize - 1 /\ z[a - 1] = SizeOf(mem, a)
  <2> HIDE DEF R
  <2>1. \A a \in R : a - 1 \in 0 .. HeapSize - 1 /\ z[a - 1] = SizeOf(mem, a)
    BY <1>5, SizesAtIs
  <2>2. \A a \in R : a \in Nat /\ SizeOf(mem, a) \in Nat
    BY <1>5, SizesTyped
  <2>3. \A a \in R : a >= 1
    BY <1>5, Sizes
  <2>4. QED
    BY <2>1, <2>2, <2>3
<1>7. /\ node \in R /\ prev \in R \cup {NULL} /\ next \in R \cup {NULL}
      /\ b0 = node - 1 /\ p0 = prev - 1 /\ q0 = next - 1 /\ NULL = 0 /\ HeapStart = 1
      /\ node \in Nat /\ prev \in Nat /\ next \in Nat
  BY <1>3, <1>6, Sizes
<1> HIDE DEF b0, p0, q0
<1>8. /\ b0 \in alloc0 /\ z[b0] = SizeOf(mem, node) /\ b0 \in 0 .. HeapSize - 1
      /\ prev \in F => p0 \in free0 /\ z[p0] = SizeOf(mem, prev)
      /\ next \in F => q0 \in free0 /\ z[q0] = SizeOf(mem, next)
      /\ \A f \in free0 : f \in Nat /\ f + 1 \in F /\ z[f] = SizeOf(mem, f + 1)
  <2>1. \A f \in free0 : f \in Nat /\ f + 1 \in F /\ (f + 1) - 1 = f
    BY <1>5, ShiftedIs
  <2>2. \A f \in F : f \in R
    OBVIOUS
  <2> HIDE DEF z, R
  <2>3. \A f \in free0 : z[f] = SizeOf(mem, f + 1)
    BY <1>6, <2>1, <2>2
  <2>4. QED
    BY <1>3, <1>5, <1>6, <1>7, <2>1, <2>2, <2>3, ShiftedIs
<1> HIDE DEF free0, alloc0, z
<1>9. \A x : Region!End(x) = x + z[x]
  BY Zenon DEF Region!End, z, SizesAt, R, F, A
\* The same neighbours join.
<1>10. Region!JoinsPrev(b0, p0) <=> JP
  <2>1. CASE prev = NULL
    <3>1. p0 = -1
      BY <1>7, <2>1
    <3>2. QED
      BY <2>1, <3>1 DEF JoinsPrev, Region!JoinsPrev, Region!NULL
  <2>2. CASE prev # NULL
    <3>1. prev \in F /\ prev \in R /\ p0 # -1
      BY <1>3, <1>6, <1>7, <2>2
    <3>2. z[p0] = SizeOf(mem, prev) /\ SizeOf(mem, prev) \in Nat
      BY <1>6, <1>8, <3>1
    <3>3. p0 + z[p0] = b0 <=> prev + SizeOf(mem, prev) = node
      BY <1>7, <3>2
    <3>4. QED
      BY <1>9, <2>2, <3>1, <3>3 DEF JoinsPrev, Region!JoinsPrev, Region!NULL
  <2>3. QED
    BY <2>1, <2>2
<1>11. /\ JN => next \in F /\ next \in R
       /\ Region!JoinsNext(b0, q0) <=> JN
  <2>1. SizeOf(mem, node) \in Nat
    BY <1>6, <1>7
  <2>2. CASE next = NULL
    <3>1. q0 = -1 /\ ~JN
      BY <1>6, <1>7, <2>1, <2>2 DEF JoinsNext
    <3>2. QED
      BY <3>1 DEF Region!JoinsNext, Region!NULL
  <2>3. CASE next # NULL
    <3>1. next \in F /\ next \in R /\ q0 # -1
      BY <1>3, <1>6, <1>7, <2>3
    <3>2. b0 + z[b0] = q0 <=> node + SizeOf(mem, node) = next
      BY <1>7, <1>8, <2>1
    <3>3. QED
      BY <1>9, <3>1, <3>2 DEF JoinsNext, Region!JoinsNext, Region!NULL
  <2>4. QED
    BY <2>2, <2>3
<1>12. Region!Neighbours(b0, p0, q0)
  <2> DEFINE z0 == z
  <2>1. CASE /\ prev = NULL /\ \A f \in F : node < f
             /\ next \in F /\ \A f \in F : next <= f
    <3>1. p0 = -1 /\ q0 \in free0
      BY <1>7, <1>8, <2>1
    <3>2. \A f \in free0 : b0 < f /\ q0 <= f
      <4> SUFFICES ASSUME NEW f \in free0 PROVE b0 < f /\ q0 <= f
        OBVIOUS
      <4>1. f \in Nat /\ f + 1 \in F /\ node < f + 1 /\ next <= f + 1
        BY <1>8, <2>1
      <4>2. QED
        BY <1>7, <4>1
    <3>3. QED
      BY <3>1, <3>2, Zenon DEF Region!Neighbours, Region!NULL, free0, Shifted, F
  <2>2. CASE /\ prev \in F /\ \E f \in F : f < node
             /\ node <= prev + SizeOf(mem, prev) \/ \A f \in F : f <= prev
             /\ \A f \in F : f < prev => ~ (node <= f + SizeOf(mem, f))
             /\ After(F, prev, next)
    <3>1. prev \in R /\ SizeOf(mem, prev) \in Nat /\ z[p0] = SizeOf(mem, prev)
      BY <1>6, <1>8, <2>2
    <3>2. \E f \in free0 : f < b0
      <4>1. PICK f \in F : f < node
        BY <2>2
      <4>2. f \in Nat /\ f - 1 \in free0
        BY <1>5, ShiftedIs DEF free0
      <4>3. f - 1 < b0
        BY <1>7, <4>1, <4>2
      <4>4. QED
        BY <4>2, <4>3
    <3>3. (\A f \in F : f <= prev) => \A f \in free0 : f <= p0
      <4> SUFFICES ASSUME \A f \in F : f <= prev, NEW f \in free0 PROVE f <= p0
        OBVIOUS
      <4>1. f \in Nat /\ f + 1 \in F /\ f + 1 <= prev
        BY <1>8
      <4>2. QED
        BY <1>7, <4>1
    <3>4. node <= prev + SizeOf(mem, prev) => b0 <= p0 + z[p0]
      BY <1>7, <3>1
    <3>5. \A f \in free0 : f < p0 => b0 > f + z[f]
      <4> SUFFICES ASSUME NEW f \in free0, f < p0 PROVE b0 > f + z[f]
        OBVIOUS
      <4>1. f \in Nat /\ f + 1 \in F /\ f + 1 \in R /\ z[f] = SizeOf(mem, f + 1)
        BY <1>8
      <4>2. z[f] \in Nat /\ f + 1 < prev
        BY <1>6, <1>7, <4>1
      <4>3. ~ (node <= (f + 1) + z[f])
        BY <2>2, <4>1, <4>2
      <4>4. QED
        BY <1>7, <4>1, <4>2, <4>3
    <3>6. Region!FindByAddr(p0, b0)
      <4>1. p0 \in free0
        BY <1>8, <2>2
      <4>2. b0 <= p0 + z[p0] \/ \A f \in free0 : f <= p0
        BY <2>2, <3>3, <3>4
      <4>3. b0 <= Region!End(p0) \/ \A f \in free0 : f <= p0
        BY <1>9, <4>2
      <4>4. \A f \in free0 : f < p0 => b0 > Region!End(f)
        BY <1>9, <3>5
      <4>5. QED
        BY <4>1, <4>3, <4>4, Zenon DEF Region!FindByAddr, free0, Shifted, F
    <3>7. Region!FreeNext(p0, q0)
      <4>1. CASE next = NULL
        <5>1. q0 = -1 /\ \A f \in F : f <= prev
          BY <1>7, <2>2, <4>1 DEF After
        <5>2. QED
          BY <3>3, <5>1, Zenon DEF Region!FreeNext, Region!NULL, free0, Shifted, F
      <4>2. CASE next # NULL
        <5>1. next \in F /\ prev < next /\ \A f \in F : prev < f => next <= f
          BY <2>2, <4>2 DEF After
        <5>2. q0 \in free0 /\ q0 > p0
          BY <1>7, <1>8, <5>1
        <5>3. \A f \in free0 : f > p0 => q0 <= f
          <6> SUFFICES ASSUME NEW f \in free0, f > p0 PROVE q0 <= f
            OBVIOUS
          <6>1. f \in Nat /\ f + 1 \in F /\ prev < f + 1
            BY <1>7, <1>8
          <6>2. next <= f + 1
            BY <5>1, <6>1
          <6>3. QED
            BY <1>7, <6>1, <6>2
        <5>4. QED
          BY <5>2, <5>3, Zenon DEF Region!FreeNext, free0, Shifted, F
      <4>3. QED
        BY <4>1, <4>2
    <3>8. QED
      BY <3>2, <3>6, <3>7, Zenon DEF Region!Neighbours, free0, Shifted, F
  <2>3. QED
    BY <1>3, <2>1, <2>2, Zenon DEF AreNeighbours

\* The merged region.
<1> DEFINE start0 == IF Region!JoinsPrev(b0, p0) THEN p0 ELSE b0
           above0 == IF Region!JoinsNext(b0, q0) THEN {q0} ELSE {}
           total0 == (IF Region!JoinsPrev(b0, p0) THEN z[p0] ELSE 0) + z[b0]
                       + (IF Region!JoinsNext(b0, q0) THEN z[q0] ELSE 0)
           I == 0 .. HeapSize - 1
<1>13. /\ start \in R /\ start \in Nat /\ start0 = start - 1 /\ (start = node <=> ~JP)
       /\ JP => start = prev /\ start # node
       /\ start = node \/ start \in F
  <2>1. JP => prev \in F /\ prev # NULL
    BY <1>3 DEF JoinsPrev
  <2>2. IsTotal(mem, R, node, prev, next)
    BY <1>5, <1>7, TotalIs
  <2>3. start \in R /\ (JP => prev < node)
    BY <2>2 DEF IsTotal
  <2>4. (JP => start = prev) /\ (~JP => start = node)
    BY DEF Start
  <2>5. start0 = IF JP THEN p0 ELSE b0
    BY <1>10
  <2> HIDE DEF start, start0, JP
  <2>6. JP => prev # node
    BY <1>7, <2>3
  <2>7. QED
    BY <1>6, <1>7, <2>1, <2>3, <2>4, <2>5, <2>6
<1>14. above0 = IF JN THEN {q0} ELSE {}
  BY <1>11
<1>15. /\ above = IF JN THEN {next} ELSE {}
       /\ start \notin above /\ node \notin above /\ above \in SUBSET F
  <2>1. above = IF JN THEN {next} ELSE {}
    BY DEF Above
  <2>2. IsTotal(mem, R, node, prev, next)
    BY <1>5, <1>7, TotalIs
  <2>3. start <= node /\ (JN => next \in R /\ node < next)
    BY <2>2 DEF IsTotal
  <2> HIDE DEF start, above, JN
  <2>4. JN => start # next /\ node # next
    BY <1>7, <1>13, <2>3
  <2>5. QED
    BY <1>11, <2>1, <2>4
<1>16. total0 = total
  <2>1. JP => z[p0] = SizeOf(mem, prev)
    BY <1>8, <1>13, <1>3 DEF JoinsPrev
  <2>2. JN => z[q0] = SizeOf(mem, next)
    BY <1>8, <1>11
  <2>3. (IF Region!JoinsPrev(b0, p0) THEN z[p0] ELSE 0) = IF JP THEN SizeOf(mem, prev) ELSE 0
    BY <1>10, <2>1
  <2>4. (IF Region!JoinsNext(b0, q0) THEN z[q0] ELSE 0) = IF JN THEN SizeOf(mem, next) ELSE 0
    BY <1>11, <2>2
  <2>5. z[b0] = SizeOf(mem, node)
    BY <1>8
  <2>6. QED
    BY <2>3, <2>4, <2>5, Zenon DEF Total
<1> HIDE DEF start, above, total, JP, JN, start0, above0, total0
<1>17. \A x \in Nat : x \in above0 <=> x + 1 \in above
  <2>1. JN => q0 = next - 1 /\ next \in Nat
    BY <1>7
  <2>2. QED
    BY <1>14, <1>15, <2>1
<1>18. Shifted(G) = (free0 \ above0) \cup {start0}
  <2>1. ASSUME NEW x \in Shifted(G) PROVE x \in (free0 \ above0) \cup {start0}
    <3>1. x \in Nat /\ x + 1 \in G
      BY <1>5, <2>1, ShiftedIs
    <3>2. CASE x + 1 = start
      BY <1>13, <3>1, <3>2
    <3>3. CASE x + 1 # start
      <4>1. x + 1 \in F /\ x \notin above0 /\ (x + 1) - 1 = x
        BY <1>17, <3>1, <3>3
      <4>2. (x + 1) - 1 \in free0
        BY <1>5, <4>1, ShiftedIs DEF free0
      <4>3. QED
        BY <4>1, <4>2
    <3>4. QED
      BY <3>2, <3>3
  <2>2. ASSUME NEW x \in (free0 \ above0) \cup {start0} PROVE x \in Shifted(G)
    <3>1. CASE x = start0
      <4>1. start \in G /\ start - 1 = x
        BY <1>13, <3>1
      <4>2. QED
        BY <1>5, <4>1, ShiftedIs
    <3>2. CASE x # start0
      <4>1. x \in Nat /\ x + 1 \in F /\ x + 1 \notin above /\ (x + 1) - 1 = x
        BY <1>8, <1>17, <2>2, <3>2
      <4>2. (x + 1) - 1 \in Shifted(G)
        BY <1>5, <4>1, ShiftedIs
      <4>3. QED
        BY <4>1, <4>2
    <3>3. QED
      BY <3>1, <3>2
  <2>3. QED
    BY <2>1, <2>2
<1>19. Shifted(B) = alloc0 \ {b0}
  <2>1. \A a \in A : a \in Nat
    BY <1>5, Sizes
  <2>2. QED
    BY <1>7, <2>1 DEF Shifted, alloc0
<1>20. SizesAt(mem', Q) = [a \in I |-> IF a = start0 THEN total0
                                       ELSE IF a = b0 \/ a \in above0 THEN 0 ELSE z[a]]
  <2> DEFINE y == SizesAt(mem', Q)
  <2>1. Q \in SUBSET Addr
    BY <1>5
  <2>2. /\ \A x \in I : y[x] = IF x + 1 \in Q THEN SizeOf(mem', x + 1) ELSE 0
        /\ \A x \in I : z[x] = IF x + 1 \in R THEN SizeOf(mem, x + 1) ELSE 0
        /\ y = [x \in I |-> y[x]]
    <3> HIDE DEF Q, R
    <3>1. y = [x \in I |-> y[x]]
      BY DEF SizesAt
    <3>2. QED
      BY <1>5, <2>1, <3>1, SizesAtIs DEF z
  <2> HIDE DEF y
  <2>3. ASSUME NEW x \in I
        PROVE  y[x] = IF x = start0 THEN total0
                      ELSE IF x = b0 \/ x \in above0 THEN 0 ELSE z[x]
    <3>0. x \in Nat /\ x + 1 \in Nat
      OBVIOUS
    <3>1. CASE x = start0
      <4>1. x + 1 = start /\ start \in Q
        BY <1>13, <3>1
      <4>2. QED
        BY <1>3, <1>16, <2>2, <3>1, <4>1
    <3>2. CASE x # start0 /\ (x = b0 \/ x \in above0)
      <4>1. x + 1 # start
        BY <1>13, <3>0, <3>2
      <4>2. x + 1 = node \/ x + 1 \in above
        BY <1>7, <1>17, <3>0, <3>2
      <4>3. x + 1 \notin Q
        <5>1. node \notin F
          BY <1>3, <1>5
        <5>2. QED
          BY <1>5, <1>15, <4>1, <4>2, <5>1
      <4>4. QED
        BY <2>2, <3>2, <4>3
    <3>3. CASE x # start0 /\ x # b0 /\ x \notin above0
      <4>1. x + 1 # start /\ x + 1 # node /\ x + 1 \notin above
        BY <1>7, <1>13, <1>17, <3>0, <3>3
      <4>2. x + 1 \in Q <=> x + 1 \in R
        BY <4>1
      <4>3. x + 1 \in R => SizeOf(mem', x + 1) = SizeOf(mem, x + 1)
        BY <1>3, <4>1
      <4> HIDE DEF Q, R
      <4>4. QED
        BY <2>2, <3>3, <4>2, <4>3
    <3>4. QED
      BY <3>1, <3>2, <3>3
  <2>4. QED
    BY <2>2, <2>3 DEF y
<1>21. /\ Shifted(Nodes(free_list)') = (free0 \ above0) \cup {start0}
       /\ Shifted(Nodes(alloc_list)') = alloc0 \ {b0}
       /\ SizesAt(mem', Nodes(free_list)' \cup Nodes(alloc_list)')
            = [a \in I |-> IF a = start0 THEN total0
                           ELSE IF a = b0 \/ a \in above0 THEN 0 ELSE z[a]]
  BY <1>4, <1>18, <1>19, <1>20
<1>22. Region!MergeInto(b0, p0, q0)
  BY <1>21, Zenon
     DEF Region!MergeInto, Region!Addr, Shifted, SizesAt, free0, z, start0, above0, total0, R, F, A
<1>23. b0 \in alloc0 /\ p0 \in free0 \cup {-1} /\ q0 \in free0 \cup {-1}
  BY <1>3, <1>7, <1>8
<1>24. Shifted(Nodes(alloc_list)') = alloc0 \ {b0}
  BY <1>21
<1>25. QED
  BY <1>12, <1>22, <1>23, <1>24, Zenon
     DEF Region!Kfree, Region!NULL, Shifted, free0, alloc0, F, A, b0, node

LEMMA WritesStutter ==
  ASSUME HeapInv, Shape(mem', free_list', alloc_list', held', Nodes(free_list), Nodes(alloc_list)),
         \A a \in Nodes(free_list) \cup Nodes(alloc_list) : SizeOf(mem', a) = SizeOf(mem, a)
  PROVE  UNCHANGED Region!vars
<1> DEFINE F == Nodes(free_list)
           A == Nodes(alloc_list)
           R == F \cup A
<1>1. Nodes(free_list)' = F /\ Nodes(alloc_list)' = A
  BY ShapeNodes DEF Nodes
<1> HIDE DEF F, A
<1>2. SizesAt(mem', R) = SizesAt(mem, R)
  <2>1. \A a \in R : SizeOf(mem', a) = SizeOf(mem, a)
    BY DEF F, A
  <2> HIDE DEF R
  <2>2. \A r \in 0 .. HeapSize - 1 :
          (IF r + HeapStart \in R THEN SizeOf(mem', r + HeapStart) ELSE 0)
            = IF r + HeapStart \in R THEN SizeOf(mem, r + HeapStart) ELSE 0
    BY <2>1
  <2>3. QED
    BY <2>2 DEF SizesAt
<1>3. /\ Shifted(Nodes(free_list)') = Shifted(F)
      /\ Shifted(Nodes(alloc_list)') = Shifted(A)
      /\ SizesAt(mem', Nodes(free_list)' \cup Nodes(alloc_list)') = SizesAt(mem, R)
  BY <1>1, <1>2
<1>4. QED
  BY <1>3, Zenon DEF Region!vars, Shifted, SizesAt, R, F, A

LEMMA StepRegions ==
  ASSUME Roomy, HeapInv, [Next]_vars
  PROVE  [Region!Next]_Region!vars
<1>1. Shape(mem, free_list, alloc_list, held, Nodes(free_list), Nodes(alloc_list))
  BY DEF HeapInv
<1>2. ASSUME NEW n \in Requests, Kmalloc(n) PROVE Region!Next
  <2>1. Region!Malloc(n)
    BY <1>2, KmallocRegions
  <2>2. QED
    BY <2>1, Zenon DEF Region!Next
<1>3. ASSUME NEW b \in DOMAIN held, Kfree(b) PROVE Region!Next
  <2>1. Region!Kfree(b - Header - HeapStart)
    BY <1>3, KfreeRegions
  <2>2. b - Header - HeapStart \in {a - HeapStart : a \in Nodes(alloc_list)}
    BY <2>1, Zenon DEF Region!Kfree
  <2>3. QED
    BY <2>1, <2>2, Zenon DEF Region!Next
<1>4. ASSUME NEW b \in DOMAIN held, ClientWrites(b) PROVE UNCHANGED Region!vars
  BY <1>1, <1>4, WritesKeep, WritesStutter, Zenon
<1>5. CASE UNCHANGED vars
  <2>1. Shape(mem', free_list', alloc_list', held', Nodes(free_list), Nodes(alloc_list))
        /\ mem' = mem
    BY <1>1, <1>5 DEF vars
  <2>2. UNCHANGED Region!vars
    BY <2>1, WritesStutter
  <2>3. QED
    BY <2>2
<1>6. QED
  BY <1>2, <1>3, <1>4, <1>5, Zenon DEF Next

\* The headers and links in memory implement the regions: what RegionHeap
\* promises, and what it is proved to implement, holds of the lists.
THEOREM MemoryImplementsRegions == Roomy /\ Spec => IsRegionHeap
<1>1. Roomy /\ Init => Roomy /\ HeapInv
  BY InitHeapInv
<1>2. (Roomy /\ HeapInv) /\ [Next]_vars => (Roomy /\ HeapInv)'
  BY NextHeapInv
<1>3. Init => Region!Init
  BY InitRegions
<1>4. (Roomy /\ HeapInv) /\ [Next]_vars => [Region!Next]_Region!vars
  BY StepRegions
<1>5. QED
  BY <1>1, <1>2, <1>3, <1>4, PTL DEF Spec, IsRegionHeap, Region!Spec

-----------------------------------------------------------------------------
(* What the regions are proved to do, brought down to memory.              *)

Proved == INSTANCE RegionHeapProof
  WITH free <- {a - HeapStart : a \in Nodes(free_list)},
       alloc <- {a - HeapStart : a \in Nodes(alloc_list)},
       size <- [r \in 0 .. HeapSize - 1 |->
                  IF r + HeapStart \in Nodes(free_list) \cup Nodes(alloc_list)
                  THEN SizeOf(mem, r + HeapStart) ELSE 0]

\* KMalloc's regions are those the proofs of RegionHeapProof are about.
LEMMA SameMalloc == \A n : Region!Malloc(n) <=> Proved!Malloc(n)
  BY Zenon
     DEF Region!Malloc, Proved!Malloc, Region!FirstFit, Proved!FirstFit,
         Region!Split, Proved!Split, Region!End, Proved!End

LEMMA SameKfree == \A b : Region!Kfree(b) <=> Proved!Kfree(b)
  BY Zenon
     DEF Region!Kfree, Proved!Kfree, Region!Neighbours, Proved!Neighbours,
         Region!FindByAddr, Proved!FindByAddr, Region!FreeNext, Proved!FreeNext,
         Region!MergeInto, Proved!MergeInto, Region!JoinsPrev, Proved!JoinsPrev,
         Region!JoinsNext, Proved!JoinsNext, Region!End, Proved!End,
         Region!Addr, Proved!Addr, Region!NULL, Proved!NULL

LEMMA SameRegions == Region!Spec <=> Proved!Spec
<1>1. Region!Init <=> Proved!Init
  BY DEF Region!Init, Proved!Init, Region!Addr, Proved!Addr
<1>2. [Region!Next]_Region!vars <=> [Proved!Next]_Proved!vars
  BY SameMalloc, SameKfree, Zenon DEF Region!Next, Proved!Next, Region!vars, Proved!vars
<1>3. QED
  BY <1>1, <1>2, PTL DEF Region!Spec, Proved!Spec

LEMMA SameBlocks == Region!IsHeap <=> Proved!IsHeap
<1>1. Region!Live = Proved!Live
  BY DEF Region!Live, Proved!Live, Region!Block, Proved!Block
<1>2. Region!H!Init <=> Proved!H!Init
  BY <1>1 DEF Region!H!Init, Proved!H!Init
<1>3. [Region!H!Next]_(Region!Live) <=> [Proved!H!Next]_(Proved!Live)
  BY <1>1, Zenon
     DEF Region!H!Next, Proved!H!Next, Region!H!Malloc, Proved!H!Malloc,
         Region!H!Free, Proved!H!Free, Region!H!Blocks, Proved!H!Blocks,
         Region!H!Disjoint, Proved!H!Disjoint,
         Region!Live, Proved!Live, Region!Block, Proved!Block
<1>4. QED
  BY <1>2, <1>3, PTL DEF Region!IsHeap, Proved!IsHeap, Region!H!Spec, Proved!H!Spec

\* Every block that kmalloc returns, at the place and of the length the header
\* in memory says, is its client's alone: the heap in memory is a Heap.
THEOREM MemoryIsHeap == Roomy /\ Spec => Region!IsHeap
<1>1. Proved!HeapAssumption
  BY KMallocAssumption DEF Proved!HeapAssumption, Header
<1>2. Roomy /\ Proved!Spec => Proved!IsHeap
  BY <1>1, Proved!RegionsImplementHeap
<1>3. QED
  BY <1>2, SameRegions, SameBlocks, MemoryImplementsRegions, PTL DEF IsRegionHeap

=============================================================================
