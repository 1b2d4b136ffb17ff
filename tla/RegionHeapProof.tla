-------------------------- MODULE RegionHeapProof --------------------------
(***************************************************************************)
(* The regions of the allocator tile the heap after every sequence of      *)
(* kmalloc and kfree, and a block belongs to one client at a time, for     *)
(* every heap size, header size and set of request sizes, if no request    *)
(* leaves a remainder below a header (Roomy).                              *)
(***************************************************************************)
EXTENDS RegionHeap, TLAPS

IInv == TypeOK /\ NoOverlap /\ Covered

\* The invariant in the form the steps use it: bounds of a region, and how
\* two regions lie to each other.
LEMMA RegionFacts ==
  ASSUME IInv
  PROVE  /\ \A r \in Regions : /\ r \in Addr
                               /\ size[r] \in Header .. HeapSize
                               /\ r + size[r] <= HeapSize
         /\ \A r, s \in Regions : r < s => r + size[r] <= s
         /\ \A r \in Regions : r + size[r] = HeapSize \/ r + size[r] \in Regions
         /\ 0 \in Regions
         /\ free \cap alloc = {} /\ Regions = free \cup alloc
         /\ \A r \in Regions : r # NULL
         /\ size \in [Addr -> 0 .. HeapSize]
  BY HeapAssumption
     DEF IInv, TypeOK, NoOverlap, Covered, Regions, End, Addr, NULL

LEMMA InitIInv == Init => IInv
<1> SUFFICES ASSUME Init PROVE IInv
  OBVIOUS
<1>1. 0 \in Addr /\ size \in [Addr -> 0 .. HeapSize] /\ size[0] = HeapSize
  BY HeapAssumption DEF Init, Addr
<1>2. QED
  BY <1>1, HeapAssumption
     DEF Init, IInv, TypeOK, NoOverlap, Covered, Regions, End

-----------------------------------------------------------------------------
\* One free region is cut in two at top.
LEMMA SplitTiles ==
  ASSUME IInv, NEW f \in free, NEW need \in Int, NEW top \in Int,
         top = f + need, need >= Header, size[f] - need >= Header,
         free' = (free \ {f}) \cup {top},
         alloc' = alloc \cup {f},
         size' = [size EXCEPT ![f] = need, ![top] = size[f] - need]
  PROVE  IInv'
<1> USE HeapAssumption
<1>1. f \in Regions /\ f \notin alloc /\ f \in Addr
      /\ size[f] \in Header .. HeapSize /\ f + size[f] <= HeapSize
  BY RegionFacts
<1>2. top \in Addr /\ top > f /\ top < f + size[f]
  BY <1>1 DEF Addr
<1>3. \A r \in Regions : /\ r # top
                         /\ r > f => r > top
                         /\ r < top => r <= f
  <2>1. ASSUME NEW r \in Regions, r > f PROVE r > top
    <3>1. f + size[f] <= r /\ r \in Addr
      BY <1>1, <2>1, RegionFacts
    <3>2. QED
      BY <1>1, <1>2, <3>1 DEF Addr
  <2>2. \A r \in Regions : r \in Addr
    BY RegionFacts
  <2>3. QED
    BY <1>1, <1>2, <2>1, <2>2 DEF Addr
<1>4. size \in [Addr -> 0 .. HeapSize]
  BY RegionFacts
<1>5. size'[f] = need /\ size'[top] = size[f] - need
  BY <1>1, <1>2, <1>4 DEF Addr
<1>6. \A r \in Addr : r # f /\ r # top => size'[r] = size[r]
  BY <1>4
<1>7. size' \in [Addr -> 0 .. HeapSize]
  <2>1. need \in 0 .. HeapSize /\ size[f] - need \in 0 .. HeapSize
    BY <1>1
  <2>2. QED
    BY <1>4, <2>1
<1>8. Regions' = Regions \cup {top}
  BY <1>1 DEF Regions
<1>9. \A r \in Regions : r # f => size'[r] = size[r]
  BY <1>3, <1>6, RegionFacts
<1>10. TypeOK'
  BY <1>1, <1>2, <1>7 DEF TypeOK, IInv
<1>11. NoOverlap'
  <2>1. (free \cap alloc)' = {}
    BY <1>1, <1>2, <1>3, RegionFacts DEF Addr, Regions
  <2>2. ASSUME NEW r \in Regions', NEW s \in Regions', r < s
        PROVE  r + size'[r] <= s
    <3>1. CASE r = f
      <4>1. s = top \/ (s \in Regions /\ s > top /\ s \in Addr)
        BY <1>3, <1>8, <2>2, <3>1, RegionFacts
      <4>2. QED
        BY <1>2, <1>5, <3>1, <4>1 DEF Addr
    <3>2. CASE r = top
      <4>1. s \in Regions /\ s > f /\ s \in Addr
        BY <1>1, <1>2, <1>8, <2>2, <3>2, RegionFacts DEF Addr
      <4>2. f + size[f] <= s
        BY <1>1, <4>1, RegionFacts
      <4>3. QED
        BY <1>1, <1>2, <1>5, <3>2, <4>1, <4>2 DEF Addr
    <3>3. CASE r # f /\ r # top
      <4>1. r \in Regions /\ size'[r] = size[r] /\ r \in Addr
            /\ size[r] \in Header .. HeapSize
        BY <1>8, <1>9, <3>3, RegionFacts
      <4>2. CASE s \in Regions
        BY <2>2, <4>1, <4>2, RegionFacts
      <4>3. CASE s = top
        <5>1. r < f
          BY <1>1, <1>3, <2>2, <3>3, <4>1, <4>3 DEF Addr
        <5>2. r + size[r] <= f
          BY <1>1, <4>1, <5>1, RegionFacts
        <5>3. QED
          BY <1>1, <1>2, <4>1, <4>3, <5>2 DEF Addr
      <4>4. QED
        BY <1>8, <4>2, <4>3
    <3>4. QED
      BY <3>1, <3>2, <3>3
  <2>3. QED
    BY <2>1, <2>2 DEF NoOverlap, End
<1>12. Covered'
  <2>1. ASSUME NEW r \in Regions'
        PROVE  /\ size'[r] >= Header
               /\ r + size'[r] = HeapSize \/ r + size'[r] \in Regions'
    <3>1. CASE r = f
      BY <1>5, <1>8, <3>1
    <3>2. CASE r = top
      <4>1. top + size'[top] = f + size[f]
        BY <1>1, <1>5 DEF Addr
      <4>2. QED
        BY <1>1, <1>5, <1>8, <3>2, <4>1, RegionFacts
    <3>3. CASE r # f /\ r # top
      BY <1>8, <1>9, <3>3, RegionFacts
    <3>4. QED
      BY <3>1, <3>2, <3>3
  <2>2. QED
    BY <1>8, <2>1, RegionFacts DEF Covered, End
<1>13. QED
  BY <1>10, <1>11, <1>12 DEF IInv

\* Then the remainder is a region of its own.
LEMMA RoomySplit ==
  ASSUME Roomy, IInv, NEW n \in Requests, Malloc(n)
  PROVE  \E f \in free :
           /\ size[f] - (n + Header) >= Header
           /\ free' = (free \ {f}) \cup {f + (n + Header)}
           /\ alloc' = alloc \cup {f}
           /\ size' = [size EXCEPT ![f] = n + Header,
                                  ![f + (n + Header)] = size[f] - (n + Header)]
<1>1. PICK f \in free :
        /\ size[f] - (n + Header) >= Header
        /\ free' = (free \ {f}) \cup
             (IF size[f] - (n + Header) > 0 THEN {f + (n + Header)} ELSE {})
        /\ alloc' = alloc \cup {f}
        /\ size' \in Split(f, n + Header)
  BY DEF Malloc
<1>2. size[f] - (n + Header) > 0
  <2>1. size[f] \in Int /\ n \in Int /\ Header \in Nat \ {0}
    BY HeapAssumption, RegionFacts
  <2>2. QED
    BY <1>1, <2>1
<1>3. QED
  BY <1>1, <1>2 DEF Split

LEMMA MallocTiles ==
  ASSUME Roomy, IInv, NEW n \in Requests, Malloc(n)
  PROVE  IInv'
<1> DEFINE need == n + Header
<1>1. PICK f \in free :
        /\ size[f] - need >= Header
        /\ free' = (free \ {f}) \cup {f + need}
        /\ alloc' = alloc \cup {f}
        /\ size' = [size EXCEPT ![f] = need, ![f + need] = size[f] - need]
  BY RoomySplit
<1>2. need \in Int /\ need >= Header /\ f + need \in Int
  BY HeapAssumption, RegionFacts DEF Addr
<1> HIDE DEF need
<1>3. QED
  BY <1>1, <1>2, SplitTiles

-----------------------------------------------------------------------------
\* One free region takes the place of all regions between start and finish,
\* of which b was the only allocated one.
LEMMA MergeTiles ==
  ASSUME IInv, NEW b \in alloc, NEW start \in Regions, NEW finish \in Int,
         NEW gone,
         gone = {r \in Regions : start < r /\ r < finish},
         b = start \/ b \in gone,
         gone \cap alloc \subseteq {b}, start \in alloc => start = b,
         start + size[start] <= finish,
         finish = HeapSize \/ finish \in Regions,
         free' = (free \ gone) \cup {start},
         alloc' = alloc \ {b},
         size' = [a \in Addr |-> IF a = start THEN finish - start
                                 ELSE IF a \in gone THEN 0 ELSE size[a]]
  PROVE  IInv'
<1> USE HeapAssumption
<1>1. /\ start \in Addr /\ size[start] \in Header .. HeapSize
      /\ finish <= HeapSize
  BY RegionFacts DEF Addr
<1>2. Regions' = Regions \ gone
  <2>1. b \in Regions /\ start \notin gone
    BY <1>1, RegionFacts DEF Addr
  <2>2. alloc \ {b} = (alloc \ gone) \ {b}
    OBVIOUS
  <2>3. Regions' = ((free \ gone) \cup {start}) \cup (alloc \ {b})
    BY DEF Regions
  <2>4. QED
    BY <2>1, <2>2, <2>3, RegionFacts
<1>3. start \in Regions'
  BY <1>1, <1>2 DEF Addr
<1>4. \A r \in Regions' : /\ r \in Regions /\ r \in Addr
                          /\ r > start => r >= finish
  BY <1>2, RegionFacts DEF Addr
<1>5. size'[start] = finish - start
  BY <1>1
<1>6. \A r \in Regions' : r # start => size'[r] = size[r]
  BY <1>2, <1>4
<1>7. size' \in [Addr -> 0 .. HeapSize]
  <2>1. finish - start \in 0 .. HeapSize /\ 0 \in 0 .. HeapSize
    BY <1>1 DEF Addr
  <2>2. size \in [Addr -> 0 .. HeapSize]
    BY RegionFacts
  <2>3. QED
    BY <2>1, <2>2
<1>8. TypeOK'
  BY <1>1, <1>7 DEF TypeOK, IInv
<1>9. NoOverlap'
  <2>1. (free \cap alloc)' = {}
    BY RegionFacts
  <2>2. ASSUME NEW r \in Regions', NEW s \in Regions', r < s
        PROVE  r + size'[r] <= s
    <3>1. CASE r = start
      BY <1>1, <1>4, <1>5, <2>2, <3>1 DEF Addr
    <3>2. CASE r # start
      BY <1>4, <1>6, <2>2, <3>2, RegionFacts
    <3>3. QED
      BY <3>1, <3>2
  <2>3. QED
    BY <2>1, <2>2 DEF NoOverlap, End
<1>10. Covered'
  <2>1. 0 \in Regions'
    BY <1>1, <1>2, RegionFacts DEF Addr
  <2>2. ASSUME NEW r \in Regions'
        PROVE  /\ size'[r] >= Header
               /\ r + size'[r] = HeapSize \/ r + size'[r] \in Regions'
    <3>1. CASE r = start
      <4>1. finish - start >= Header /\ start + (finish - start) = finish
        BY <1>1 DEF Addr
      <4>2. finish \in Regions => finish \in Regions'
        BY <1>2
      <4>3. QED
        BY <1>5, <3>1, <4>1, <4>2
    <3>2. CASE r # start
      <4>1. /\ r \in Regions /\ size'[r] = size[r] /\ r \in Addr
            /\ size[r] \in Header .. HeapSize
        BY <1>4, <1>6, <3>2, RegionFacts
      <4>2. r + size[r] = HeapSize \/ r + size[r] \in Regions
        BY <4>1, RegionFacts
      <4>3. r < start => r + size[r] <= start
        BY <4>1, RegionFacts
      <4>4. r > start => r >= finish
        BY <1>4
      <4>5. r + size[r] \notin gone
        BY <1>1, <3>2, <4>1, <4>3, <4>4 DEF Addr
      <4>6. QED
        BY <1>2, <4>1, <4>2, <4>5
    <3>3. QED
      BY <3>1, <3>2
  <2>3. QED
    BY <2>1, <2>2 DEF Covered, End
<1>11. QED
  BY <1>8, <1>9, <1>10 DEF IInv

\* kfree is such a merge, whichever neighbours join; the blocks that stay
\* allocated keep their size.
LEMMA KfreeMerges ==
  ASSUME IInv, NEW b \in alloc, Kfree(b)
  PROVE  IInv' /\ \A r \in alloc' : size'[r] = size[r]
<1> USE HeapAssumption
<1>1. PICK prev, next \in free \cup {NULL} : MergeInto(b, prev, next)
  BY DEF Kfree
<1>2. /\ b \in Regions /\ b \in Addr /\ b \notin free
      /\ size[b] \in Header .. HeapSize
      /\ \A f \in free : /\ f \in Regions /\ f \in Addr /\ f \notin alloc
                         /\ size[f] \in Header .. HeapSize
  BY RegionFacts
<1> DEFINE start == IF JoinsPrev(b, prev) THEN prev ELSE b
           finish == IF JoinsNext(b, next) THEN next + size[next]
                                           ELSE b + size[b]
           gone == {r \in Regions : start < r /\ r < finish}
<1>3. JoinsPrev(b, prev) => prev \in free /\ prev + size[prev] = b /\ prev < b
  BY <1>2 DEF JoinsPrev, End, Addr
<1>4. JoinsNext(b, next) => next \in free /\ b + size[b] = next /\ b < next
  BY <1>2 DEF JoinsNext, End, Addr
<1>5. /\ start \in Regions /\ start \in Addr
      /\ size[start] \in Header .. HeapSize
      /\ start = b \/ start + size[start] = b
      /\ start # b => start \in free
  BY <1>2, <1>3
<1>6. /\ finish \in Int /\ b + size[b] <= finish
      /\ finish = HeapSize \/ finish \in Regions
  <2>1. \A r \in Regions : r + size[r] = HeapSize \/ r + size[r] \in Regions
    BY RegionFacts
  <2>2. CASE JoinsNext(b, next)
    <3>1. /\ finish = next + size[next] /\ b + size[b] = next
          /\ next \in Regions /\ next \in Int /\ size[next] \in Nat
      BY <1>2, <1>4, <2>2 DEF Addr
    <3>2. QED
      BY <2>1, <3>1
  <2>3. CASE ~JoinsNext(b, next)
    <3>1. finish = b + size[b] /\ b \in Int /\ size[b] \in Nat
      BY <1>2, <2>3 DEF Addr
    <3>2. QED
      BY <1>2, <2>1, <3>1
  <2>4. QED
    BY <2>2, <2>3
<1>7. finish - start =
        (IF JoinsPrev(b, prev) THEN size[prev] ELSE 0) + size[b]
          + (IF JoinsNext(b, next) THEN size[next] ELSE 0)
  <2>1. CASE JoinsPrev(b, prev) /\ JoinsNext(b, next)
    BY <1>2, <1>3, <1>4, <2>1 DEF Addr
  <2>2. CASE JoinsPrev(b, prev) /\ ~JoinsNext(b, next)
    BY <1>2, <1>3, <1>4, <2>2 DEF Addr
  <2>3. CASE ~JoinsPrev(b, prev) /\ JoinsNext(b, next)
    BY <1>2, <1>3, <1>4, <2>3 DEF Addr
  <2>4. CASE ~JoinsPrev(b, prev) /\ ~JoinsNext(b, next)
    BY <1>2, <1>3, <1>4, <2>4 DEF Addr
  <2>5. QED
    BY <2>1, <2>2, <2>3, <2>4
\* Between the ends of the merged region only its own parts start.
<1>8. \A r \in Regions : start < r /\ r < finish
                           <=> \/ start # b /\ r = b
                               \/ JoinsNext(b, next) /\ r = next
  <2>1. \A r \in Regions : r \in Addr
    BY RegionFacts
  <2>2. \A r \in Regions : r > start /\ start # b => r >= b
    BY <1>5, RegionFacts
  <2>3. \A r \in Regions : r > b => r >= b + size[b]
    BY <1>2, RegionFacts
  <2>4. JoinsNext(b, next) =>
          \A r \in Regions : r > next => r >= next + size[next]
    BY <1>2, <1>4, RegionFacts
  <2>5. start # b => start < b
    BY <1>2, <1>5 DEF Addr
  <2>6. CASE JoinsNext(b, next)
    <3>1. finish = next + size[next] /\ next = b + size[b]
          /\ next \in Addr /\ size[next] \in Header .. HeapSize
      BY <1>2, <1>4, <2>6
    <3> HIDE DEF start, finish
    <3>2. QED
      BY <1>2, <1>5, <2>1, <2>2, <2>3, <2>4, <2>5, <2>6, <3>1 DEF Addr
  <2>7. CASE ~JoinsNext(b, next)
    <3>1. finish = b + size[b]
      BY <2>7
    <3> HIDE DEF start, finish
    <3>2. QED
      BY <1>2, <1>5, <2>1, <2>2, <2>3, <2>5, <2>7, <3>1 DEF Addr
  <2>8. QED
    BY <2>6, <2>7
<1>9. /\ b = start \/ b \in gone
      /\ gone \cap alloc \subseteq {b}
      /\ start \in alloc => start = b
      /\ start + size[start] <= finish
  <2>1. start + size[start] <= finish
    BY <1>2, <1>5, <1>6 DEF Addr
  <2> HIDE DEF start, finish
  <2>2. QED
    BY <1>2, <1>4, <1>5, <1>8, <2>1
<1>10. free' = (free \ gone) \cup {start}
  <2>1. free' = (free \ (IF JoinsNext(b, next) THEN {next} ELSE {}))
                  \cup {start}
    BY <1>1 DEF MergeInto
  <2>2. \A f \in free : f \in gone <=> JoinsNext(b, next) /\ f = next
    <3> HIDE DEF start, finish
    <3>1. QED
      BY <1>2, <1>8
  <2>3. QED
    BY <2>1, <2>2
<1>11. size' = [a \in Addr |-> IF a = start THEN finish - start
                               ELSE IF a \in gone THEN 0 ELSE size[a]]
  <2>1. size' = [a \in Addr |->
                  IF a = start THEN finish - start
                  ELSE IF a = b \/ a \in (IF JoinsNext(b, next) THEN {next}
                                                                ELSE {})
                       THEN 0 ELSE size[a]]
    BY <1>1, <1>7 DEF MergeInto
  <2>2. \A a \in Addr : a # start =>
          (a \in gone <=> (a = b \/ (JoinsNext(b, next) /\ a = next)))
    <3> HIDE DEF start, finish
    <3>1. QED
      BY <1>2, <1>4, <1>8
  <2>3. \A a \in Addr : a # start =>
          (a \in gone <=> (a = b \/ a \in (IF JoinsNext(b, next) THEN {next}
                                                               ELSE {})))
    <3> HIDE DEF start, finish, gone
    <3>1. QED
      BY <2>2
  <2> HIDE DEF start, finish, gone
  <2>4. QED
    BY <2>1, <2>3
<1>12. alloc' = alloc \ {b}
  BY DEF Kfree
<1>13. gone = {r \in Regions : start < r /\ r < finish}
  OBVIOUS
<1> HIDE DEF start, finish, gone
<1>14. IInv'
  BY <1>5, <1>6, <1>9, <1>10, <1>11, <1>12, <1>13, MergeTiles
<1>15. \A r \in alloc' : size'[r] = size[r]
  BY <1>9, <1>11, <1>12, RegionFacts
<1>16. QED
  BY <1>14, <1>15

LEMMA NextIInv == Roomy /\ IInv /\ [Next]_vars => IInv'
<1> SUFFICES ASSUME Roomy, IInv, [Next]_vars PROVE IInv'
  OBVIOUS
<1>1. CASE UNCHANGED vars
  BY <1>1 DEF vars, IInv, TypeOK, NoOverlap, Covered, Regions, End
<1>2. QED
  BY <1>1, MallocTiles, KfreeMerges DEF Next

\* If no request ever leaves a remainder below a header, then after any
\* sequence of kmalloc and kfree the nodes of the two lists tile the heap: no
\* overlap, no byte lost, every node inside the heap.
THEOREM RegionsTile == Roomy /\ Spec => [](TypeOK /\ Tiling)
<1>1. IInv => TypeOK /\ Tiling
  BY DEF IInv, Tiling
<1>2. Roomy /\ Init => Roomy /\ IInv
  BY InitIInv
<1>3. (Roomy /\ IInv) /\ [Next]_vars => (Roomy /\ IInv)'
  BY NextIInv
<1>4. QED
  BY <1>1, <1>2, <1>3, PTL DEF Spec

-----------------------------------------------------------------------------
\* kmalloc hands out a block that meets no live one.
LEMMA MallocImplements ==
  ASSUME Roomy, IInv, NEW n \in Requests, Malloc(n)
  PROVE  H!Malloc
<1> USE HeapAssumption
<1> DEFINE need == n + Header
<1>1. PICK f \in free :
        /\ size[f] - need >= Header
        /\ alloc' = alloc \cup {f}
        /\ size' = [size EXCEPT ![f] = need, ![f + need] = size[f] - need]
  BY RoomySplit
<1>2. /\ f \in Addr /\ f \notin alloc /\ f \in Regions
      /\ size[f] \in Header .. HeapSize /\ f + size[f] <= HeapSize
      /\ size \in [Addr -> 0 .. HeapSize] /\ need \in Int /\ n \in Nat
  BY RegionFacts
<1>3. \A r \in alloc : /\ r \in Addr /\ r # f
                       /\ size[r] \in Header .. HeapSize
                       /\ r + size[r] <= f \/ f + size[f] <= r
  <2>1. ASSUME NEW r \in alloc
        PROVE  /\ r \in Addr /\ r # f
               /\ size[r] \in Header .. HeapSize
               /\ r + size[r] <= f \/ f + size[f] <= r
    <3>1. r \in Regions /\ r \in Addr /\ r # f
          /\ size[r] \in Header .. HeapSize
      BY <1>2, RegionFacts
    <3>2. r < f \/ f < r
      BY <1>2, <3>1 DEF Addr
    <3>3. QED
      BY <1>2, <3>1, <3>2, RegionFacts
  <2>2. QED
    BY <2>1
<1>4. \A r \in alloc : size'[r] = size[r]
  <2>1. ASSUME NEW r \in alloc PROVE r # f + need
    <3>1. r \in Addr /\ size[r] \in Header .. HeapSize
          /\ (r + size[r] <= f \/ f + size[f] <= r)
      BY <1>3
    <3>2. QED
      BY <1>1, <1>2, <3>1 DEF Addr
  <2>2. QED
    BY <1>1, <1>2, <1>3, <2>1
<1>5. size'[f] = need
  BY <1>1, <1>2 DEF Addr
<1> DEFINE b == [at |-> f + Header, len |-> n]
<1>6. Live' = Live \cup {b}
  <2>1. \A r \in alloc : Block(r)' = Block(r)
    BY <1>4 DEF Block
  <2>2. [at |-> f + Header, len |-> size'[f] - Header] = b
    BY <1>2, <1>5
  <2>3. QED
    BY <1>1, <2>1, <2>2 DEF Live, Block
<1>7. b \in H!Blocks /\ b.at + b.len <= HeapSize
  BY <1>1, <1>2 DEF H!Blocks, Addr
<1>8. ASSUME NEW c \in Live
      PROVE  b # c /\ H!Disjoint(b, c)
  <2>1. PICK r \in alloc : c = [at |-> r + Header, len |-> size[r] - Header]
    BY DEF Live, Block
  <2>2. c.at = r + Header /\ c.len = size[r] - Header
    BY <2>1
  <2>3. b.at = f + Header /\ b.len = n
    OBVIOUS
  <2>4. b.at # c.at
    BY <1>2, <1>3, <2>2, <2>3 DEF Addr
  <2>5. b.at + b.len <= c.at \/ c.at + c.len <= b.at
    <3>1. r \in Addr /\ size[r] \in Header .. HeapSize
          /\ (r + size[r] <= f \/ f + size[f] <= r)
      BY <1>3
    <3>2. n = need - Header /\ need <= size[f]
      BY <1>1, <1>2
    <3>3. QED
      BY <1>2, <2>2, <2>3, <3>1, <3>2 DEF Addr
  <2>6. QED
    BY <2>4, <2>5 DEF H!Disjoint
<1> HIDE DEF b
<1>9. QED
  <2>1. b.len \in Requests
    BY DEF b
  <2>2. QED
    BY <1>6, <1>7, <1>8, <2>1 DEF H!Malloc

\* kfree takes exactly the block of b from the client.
LEMMA KfreeImplements ==
  ASSUME IInv, NEW b \in alloc, Kfree(b)
  PROVE  H!Free
<1> USE HeapAssumption
<1>1. alloc' = alloc \ {b}
  BY DEF Kfree
<1>2. \A r \in alloc' : size'[r] = size[r]
  BY KfreeMerges
<1>3. \A r \in alloc : r \in Int
  BY RegionFacts DEF Addr
<1>4. \A r \in alloc' : Block(r)' = Block(r)
  BY <1>2 DEF Block
<1>5. \A r \in alloc : r # b => Block(r) # Block(b)
  <2>1. ASSUME NEW r \in alloc, r # b PROVE Block(r).at # Block(b).at
    BY <1>3, <2>1 DEF Block
  <2>2. QED
    BY <2>1
<1>6. Live' = {Block(r)' : r \in alloc'}
  BY DEF Live, Block
<1>7. Live' = Live \ {Block(b)}
  BY <1>1, <1>4, <1>5, <1>6 DEF Live
<1>8. Block(b) \in Live
  BY DEF Live
<1>9. QED
  BY <1>7, <1>8 DEF H!Free

\* Every behaviour of the allocator is one of the promised heap, if no request
\* ever leaves a remainder below a header: no block is handed out over a live
\* one, for every heap size and all such requests.
THEOREM RegionsImplementHeap == Roomy /\ Spec => IsHeap
<1>1. Init => H!Init
  BY DEF Init, H!Init, Live
<1>2. Roomy /\ IInv /\ [Next]_vars => [H!Next]_Live
  <2> SUFFICES ASSUME Roomy, IInv, [Next]_vars PROVE [H!Next]_Live
    OBVIOUS
  <2>1. CASE UNCHANGED vars
    BY <2>1 DEF vars, Live, Block
  <2>2. ASSUME NEW n \in Requests, Malloc(n) PROVE [H!Next]_Live
    BY <2>2, MallocImplements DEF H!Next
  <2>3. ASSUME NEW b \in alloc, Kfree(b) PROVE [H!Next]_Live
    BY <2>3, KfreeImplements DEF H!Next
  <2>4. QED
    BY <2>1, <2>2, <2>3 DEF Next
<1>3. Roomy /\ Init => Roomy /\ IInv
  BY InitIInv
<1>4. (Roomy /\ IInv) /\ [Next]_vars => (Roomy /\ IInv)'
  BY NextIInv
<1>5. QED
  BY <1>1, <1>2, <1>3, <1>4, PTL DEF Spec, IsHeap, H!Spec
=============================================================================
