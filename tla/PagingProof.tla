----------------------------- MODULE PagingProof -----------------------------
(***************************************************************************)
(* The page allocator and the page tables built on it, for every memory    *)
(* map, word size, page size, kernel and number of table entries: pages    *)
(* have one owner, memory is used up before a page past its end is given   *)
(* out, and a mapping is found again whatever was mapped since.            *)
(***************************************************************************)
EXTENDS Paging, FiniteSetTheorems, WellFoundedInduction, TLAPS

-----------------------------------------------------------------------------
(* Numbers.                                                                *)

\* A set of numbers with an element has a least one.  (Theorem SmallestNatural
\* of the library says so of a predicate; this is about a set.)
LEMMA LeastNumber ==
  ASSUME NEW B, B \subseteq Nat, B # {}
  PROVE  \E m \in B : \A k \in B : m <= k
<1> DEFINE T == {S \in FiniteSubsetsOf(Nat) : \E n \in B : S = 0 .. n}
<1>1. \A n \in B : 0 .. n \in T
  BY FS_Interval DEF FiniteSubsetsOf
<1>2. T # {} /\ T \subseteq FiniteSubsetsOf(Nat)
  BY <1>1
<1>3. PICK S \in T : \A R \in T : ~ (<<R, S>> \in StrictSubsetOrdering(Nat))
  <2> HIDE DEF T
  <2>1. QED
    BY <1>2, FS_StrictSubsetOrderingWellFounded, WFMin, Zenon
<1>4. PICK m \in B : S = 0 .. m
  BY <1>3
<1>5. ASSUME NEW k \in B, k < m PROVE FALSE
  <2>1. 0 .. k \in T
    BY <1>1
  <2>2. <<0 .. k, 0 .. m>> \in StrictSubsetOrdering(Nat)
    BY <1>5 DEF StrictSubsetOrdering
  <2>3. QED
    BY <1>3, <1>4, <2>1, <2>2
<1>6. QED
  BY <1>5

\* Min and Max of FiniteSetsExt, for sets of numbers with a bound.
LEMMA MinIsLeast ==
  ASSUME NEW B, B \subseteq Nat, B # {}
  PROVE  Min(B) \in B /\ \A k \in B : Min(B) <= k
<1>1. \E m \in B : \A k \in B : m <= k
  BY LeastNumber
<1>2. QED
  BY <1>1 DEF Min

LEMMA MaxIsGreatest ==
  ASSUME NEW n \in Nat, NEW B, B \subseteq 0 .. n, B # {}
  PROVE  Max(B) \in B /\ \A k \in B : Max(B) >= k
<1> DEFINE Below == {n - k : k \in B}
<1>1. Below \subseteq Nat
  OBVIOUS
<1>2. PICK m \in Below : \A k \in Below : m <= k
  <2>1. Below # {}
    OBVIOUS
  <2>2. QED
    <3> HIDE DEF Below
    <3>1. QED
      BY <1>1, <2>1, LeastNumber
<1>3. PICK x \in B : m = n - x
  BY <1>2
<1>4. \A y \in B : x >= y
  <2> SUFFICES ASSUME NEW y \in B PROVE x >= y
    OBVIOUS
  <2>1. n - y \in Below
    OBVIOUS
  <2>2. n - x <= n - y
    BY <1>2, <1>3, <2>1
  <2>3. x \in 0 .. n /\ y \in 0 .. n
    OBVIOUS
  <2>4. QED
    BY <2>2, <2>3
<1>5. QED
  BY <1>4 DEF Max

\* Multiples and quotients by a number that is a parameter.
LEMMA MultipleMonotone ==
  ASSUME NEW a \in Nat, NEW b \in Nat, NEW m \in Nat, a <= b
  PROVE  a * m \in Nat /\ a * m <= b * m
  BY Z3

LEMMA Quotient ==
  ASSUME NEW n \in Nat, NEW m \in Nat \ {0}
  PROVE  /\ n \div m \in Nat
         /\ (n \div m) * m <= n /\ n < (n \div m + 1) * m
  BY SMT

LEMMA QuotientIs ==
  ASSUME NEW m \in Nat \ {0}, NEW q \in Nat, NEW r \in 0 .. m - 1
  PROVE  (q * m + r) \div m = q /\ (q * m + r) % m = r
  BY Z3

LEMMA DivisionWithRest ==
  ASSUME NEW n \in Nat, NEW m \in Nat \ {0}
  PROVE  /\ n \div m \in Nat /\ n % m \in 0 .. m - 1
         /\ n = (n \div m) * m + (n % m)
<1> DEFINE q == n \div m
           r == n - q * m
<1>1. q \in Nat /\ r \in 0 .. m - 1 /\ n = q * m + r
  BY Quotient, Z3
<1>2. n % m = r
  <2> HIDE DEF q, r
  <2>1. QED
    BY <1>1, QuotientIs
<1>3. QED
  BY <1>1, <1>2

LEMMA QuotientMonotone ==
  ASSUME NEW n \in Nat, NEW k \in Nat, NEW m \in Nat \ {0}, n <= k
  PROVE  n \div m <= k \div m
<1> DEFINE p == n \div m
           q == k \div m
<1>1. p \in Nat /\ p * m <= n
  BY Quotient
<1>2. q \in Nat /\ k < (q + 1) * m
  BY Quotient
<1> HIDE DEF p, q
<1>3. ASSUME q + 1 <= p PROVE FALSE
  <2>1. (q + 1) * m <= p * m
    BY <1>1, <1>2, <1>3, MultipleMonotone
  <2>2. (q + 1) * m \in Nat /\ p * m \in Nat
    BY <1>1, <1>2, MultipleMonotone
  <2> QED
    BY <1>1, <1>2, <2>1, <2>2
<1>4. p <= q
  BY <1>1, <1>2, <1>3
<1>5. QED
  BY <1>4 DEF p, q

LEMMA RemainderOfLess ==
  ASSUME NEW n \in Nat, NEW m \in Nat, n < m
  PROVE  n % m = n
<1>1. n \in 0 .. m - 1 /\ m \in Nat \ {0}
  OBVIOUS
<1>2. (0 * m + n) % m = n
  BY <1>1, QuotientIs
<1>3. QED
  BY <1>2

\* Rounding up to whole words loses no bit.
LEMMA WordsHoldBits ==
  ASSUME NEW n \in Nat
  PROVE  num_words(n) \in Nat /\ n <= num_words(n) * WordBits
<1> DEFINE t == n + WordBits - 1
           q == t \div WordBits
<1>1. WordBits \in Nat \ {0} /\ t \in Nat
  BY PhysMemAssumption
<1>2. q \in Nat /\ t < (q + 1) * WordBits
  BY <1>1, Quotient
<1>3. (q + 1) * WordBits = q * WordBits + WordBits
  <2> HIDE DEF q
  <2>1. QED
    BY <1>1, <1>2
<1>4. q * WordBits \in Nat
  <2> HIDE DEF q
  <2>1. QED
    BY <1>1, <1>2
<1>5. num_words(n) = q
  BY DEF num_words
<1>6. QED
  <2> HIDE DEF q
  <2>1. QED
    BY <1>1, <1>2, <1>3, <1>4, <1>5

-----------------------------------------------------------------------------
(* Pages.                                                                  *)

\* The page of an address below 4 GB is the one whose units hold it.
LEMMA PageOfUnit ==
  ASSUME NEW unit \in Nat, unit < AddrUnits
  PROVE  /\ Page(unit) \in Nat
         /\ unit \in Units(Page(unit))
         /\ Page(unit) = unit \div PageUnits
<1>1. AddrUnits \in Nat /\ PageUnits \in Nat \ {0}
  BY PhysMemAssumption
<1>2. Page(unit) = unit \div PageUnits
  BY <1>1, RemainderOfLess DEF Page
<1>3. /\ unit \div PageUnits \in Nat
      /\ (unit \div PageUnits) * PageUnits <= unit
      /\ unit < (unit \div PageUnits + 1) * PageUnits
  BY <1>1, Quotient
<1>4. ASSUME NEW q \in Nat, q * PageUnits <= unit, unit < (q + 1) * PageUnits
      PROVE  unit \in Units(q)
  <2>1. q * PageUnits \in Nat /\ (q + 1) * PageUnits \in Nat
    BY <1>1, MultipleMonotone
  <2>2. QED
    BY <1>4, <2>1 DEF Units
<1>5. QED
  BY <1>2, <1>3, <1>4

\* Every address has a page number, below that of 4 GB.
LEMMA PageInRange ==
  ASSUME NEW addr \in Nat
  PROVE  Page(addr) \in 0 .. AddrUnits \div PageUnits
<1>1. AddrUnits \in Nat \ {0} /\ PageUnits \in Nat \ {0}
  BY PhysMemAssumption
<1>2. addr % AddrUnits \in Nat /\ addr % AddrUnits <= AddrUnits
  BY <1>1, DivisionWithRest
<1>3. (addr % AddrUnits) \div PageUnits <= AddrUnits \div PageUnits
  BY <1>1, <1>2, QuotientMonotone
<1>4. (addr % AddrUnits) \div PageUnits \in Nat /\ AddrUnits \div PageUnits \in Nat
  BY <1>1, <1>2, Quotient
<1>5. QED
  BY <1>3, <1>4 DEF Page

\* A page outside the two reserved ranges has no unit in low memory or in the
\* kernel.
LEMMA PageOutside ==
  ASSUME NEW p \in Nat, p \notin Low, p \notin KernelPages
  PROVE  \A unit \in Units(p) : /\ unit >= LowPages * PageUnits
                                /\ unit \notin KernelStart .. KernelEnd - 1
<1> DEFINE a == p * PageUnits
<1>1. /\ AddrUnits \in Nat \ {0} /\ PageUnits \in Nat \ {0} /\ LowPages \in Nat \ {0}
      /\ KernelStart \in Nat /\ KernelStart % PageUnits = 0
      /\ KernelEnd \in KernelStart .. AddrUnits - 1
  BY PhysMemAssumption
<1>2. a \in Nat /\ LowPages * PageUnits <= a
  <2>1. LowPages <= p
    BY <1>1 DEF Low
  <2>2. QED
    BY <1>1, <2>1, MultipleMonotone
<1>3. LowPages * PageUnits \in Nat /\ (p + 1) * PageUnits = a + PageUnits
  BY <1>1, MultipleMonotone
<1>4. SUFFICES ASSUME NEW unit \in Units(p)
               PROVE  unit >= LowPages * PageUnits /\ unit \notin KernelStart .. KernelEnd - 1
  OBVIOUS
<1>5. unit \in a .. a + PageUnits - 1
  <2>1. unit \in a .. (p + 1) * PageUnits - 1
    BY DEF Units
  <2>2. QED
    <3> HIDE DEF a
    <3>1. QED
      BY <1>1, <1>2, <1>3, <2>1
<1>6. ASSUME unit \in KernelStart .. KernelEnd - 1 PROVE FALSE
  <2> DEFINE k == KernelStart \div PageUnits
  <2>1. k \in Nat /\ KernelStart = k * PageUnits
    <3>1. k \in Nat /\ KernelStart = k * PageUnits + (KernelStart % PageUnits)
      BY <1>1, DivisionWithRest
    <3>2. KernelStart = k * PageUnits + 0
      BY <1>1, <3>1
    <3>3. k * PageUnits \in Nat
      BY <1>1, <3>1, MultipleMonotone
    <3>4. QED
      BY <3>1, <3>2, <3>3
  <2>2. KernelStart <= a
    <3> HIDE DEF k
    <3>1. ASSUME p + 1 <= k PROVE FALSE
      <4>1. (p + 1) * PageUnits <= KernelStart
        BY <1>1, <2>1, <3>1, MultipleMonotone
      <4>2. QED
        BY <1>1, <1>2, <1>3, <1>5, <1>6, <4>1
    <3>2. k <= p
      BY <2>1, <3>1
    <3>3. QED
      BY <1>1, <2>1, <3>2, MultipleMonotone
  <2>3. a \in KernelStart .. KernelEnd /\ a < AddrUnits
    <3> HIDE DEF a
    <3>1. QED
      BY <1>1, <1>2, <1>5, <1>6, <2>2
  <2>4. (p * PageUnits + 0) \div PageUnits = p /\ (p * PageUnits + 0) % PageUnits = 0
    <3>1. 0 \in 0 .. PageUnits - 1
      BY <1>1
    <3>2. QED
      BY <1>1, <3>1, QuotientIs
  <2>5. a = p * PageUnits + 0
    BY <1>2
  <2>6. a \div PageUnits = p /\ a % PageUnits = 0
    BY <2>4, <2>5
  <2>7. Page(a) = p
    BY <1>2, <2>3, <2>6, PageOfUnit
  <2>8. QED
    <3> HIDE DEF a
    <3>1. QED
      BY <2>3, <2>6, <2>7 DEF KernelPages
<1>7. QED
  <2> HIDE DEF a
  <2>1. QED
    BY <1>1, <1>2, <1>3, <1>5, <1>6

-----------------------------------------------------------------------------
(* The inductive invariant of the allocator.                               *)

Counted == pc # "data_structs" => num_bits = SizeBytes \div PageUnits

NoneHanded == pc # "ready" => handed = <<>>

\* A page can always be found: the word after the bitmap has a clear bit that
\* no guard lets anyone set.
Hole == pc # "data_structs" => \E bit \in 1 .. WordBits - 1 : AfterBit(bit) \notin used

HasUsableUnit(page) == Below4GB => \E unit \in Units(page) : Usable(unit)

\* A page is only ever cleared as part of a usable region.
FreeUsable == pc # "data_structs" => \A page \in FreePages : HasUsableUnit(page)

Reserved == pc = "ready" => \A page \in FreePages : page \notin Low \cup KernelPages

\* A page given away stays marked, so that it is not given away again.
GivenMarked == \A i \in Memory : handed[i] \in used
GivenUsable == \A i \in Memory : HasUsableUnit(handed[i]) /\ handed[i] \notin Low \cup KernelPages
GivenOnce == \A i, j \in Memory : handed[i] = handed[j] => i = j

Bitmap == TypeOK /\ Counted /\ NoneHanded /\ Hole
Given == FreeUsable /\ Reserved /\ GivenMarked /\ GivenUsable /\ GivenOnce

AllocInv == Bitmap /\ Given /\ LostOnlyWhenFull

\* The constants are numbers.
LEMMA Sizes ==
  /\ WordBits \in Nat \ {0} /\ PageUnits \in Nat \ {0}
  /\ AddrUnits \in Nat \ {0} /\ LowPages \in Nat \ {0}
  /\ KernelStart \in Nat /\ KernelEnd \in KernelStart .. AddrUnits - 1
  /\ AddrUnits \div PageUnits \in Nat
  BY PhysMemAssumption, Quotient

\* The bits of the bitmap and of the word that follows it: w is the first of
\* that word.
LEMMA BitmapShape ==
  ASSUME num_bits \in Nat
  PROVE  \E w \in Nat : /\ num_bits <= w
                        /\ w = num_words(num_bits) * WordBits
                        /\ MapBits = 0 .. w - 1
                        /\ \A bit : AfterBit(bit) = w + bit
<1> DEFINE w == num_words(num_bits) * WordBits
<1>1. w \in Nat /\ num_bits <= w
  <2>1. num_words(num_bits) \in Nat /\ num_bits <= w
    BY WordsHoldBits
  <2>2. QED
    BY <2>1, Sizes, MultipleMonotone
<1>2. MapBits = 0 .. w - 1
  BY DEF MapBits
<1>3. \A bit : AfterBit(bit) = w + bit
  BY DEF AfterBit
<1>4. w = num_words(num_bits) * WordBits
  OBVIOUS
<1>5. QED
  <2> HIDE DEF w
  <2>1. QED
    BY <1>1, <1>2, <1>3, <1>4

LEMMA RegionsAvailable ==
  ASSUME TypeOK
  PROVE  /\ \A i \in DOMAIN map : map[i] \in Region
         /\ Available \subseteq Region
         /\ \A i \in DOMAIN map : map[i].available => map[i] \in Available
<1>1. map \in Seq(Region)
  BY PhysMemAssumption DEF TypeOK
<1>2. \A i \in DOMAIN map : map[i] \in Region
  BY <1>1
<1>3. QED
  BY <1>2 DEF Available

\* The size of the memory is a 32-bit number, and no region below 4 GB ends
\* above it.
LEMMA SizeIsLargest ==
  ASSUME TypeOK
  PROVE  /\ SizeBytes \in 0 .. AddrUnits - 1
         /\ \A r \in Available : r.addr + r.len < AddrUnits => r.addr + r.len <= SizeBytes
<1> DEFINE ends == {(r.addr + r.len) % AddrUnits : r \in Available}
           all == {0} \cup ends
<1>1. \A r \in Available : r.addr \in Nat /\ r.len \in Nat \ {0}
  BY RegionsAvailable DEF Region
<1>2. \A r \in Available : (r.addr + r.len) % AddrUnits \in 0 .. AddrUnits - 1
  <2> SUFFICES ASSUME NEW r \in Available
               PROVE  (r.addr + r.len) % AddrUnits \in 0 .. AddrUnits - 1
    OBVIOUS
  <2>1. r.addr + r.len \in Nat
    BY <1>1
  <2>2. QED
    BY <2>1, Sizes, DivisionWithRest
<1>3. all \subseteq 0 .. AddrUnits - 1 /\ all # {}
  BY <1>2, Sizes
<1>4. AddrUnits - 1 \in Nat
  BY Sizes
<1>5. Max(all) \in all /\ \A k \in all : Max(all) >= k
  <2> HIDE DEF all
  <2>1. QED
    BY <1>3, <1>4, MaxIsGreatest
<1>6. SizeBytes = Max(all)
  BY DEF SizeBytes
<1>7. ASSUME NEW r \in Available, r.addr + r.len < AddrUnits
      PROVE  r.addr + r.len \in all
  <2>1. r.addr + r.len \in Nat
    BY <1>1
  <2>2. (r.addr + r.len) % AddrUnits = r.addr + r.len
    BY <1>7, <2>1, Sizes, RemainderOfLess
  <2>3. QED
    BY <2>2
<1>8. QED
  <2> HIDE DEF all
  <2>1. ASSUME NEW r \in Available, r.addr + r.len < AddrUnits
        PROVE  r.addr + r.len <= SizeBytes
    BY <1>5, <1>6, <1>7, <2>1, <1>3
  <2>2. SizeBytes \in 0 .. AddrUnits - 1
    BY <1>3, <1>5, <1>6
  <2>3. QED
    BY <2>1, <2>2

\* bitmap_first_clear ends, at the first clear bit.
LEMMA FirstClearIs ==
  ASSUME num_bits \in Nat, NEW bit \in 1 .. WordBits - 1, AfterBit(bit) \notin used
  PROVE  /\ FirstClear \in (0 .. AfterBit(WordBits - 1)) \ used
         /\ \A k \in (0 .. AfterBit(WordBits - 1)) \ used : FirstClear <= k
<1> DEFINE clear == (0 .. AfterBit(WordBits - 1)) \ used
<1>1. PICK w \in Nat : \A b : AfterBit(b) = w + b
  BY BitmapShape
<1>2. w + bit \in 0 .. w + (WordBits - 1) /\ w + (WordBits - 1) \in Nat
  BY Sizes
<1>3. clear \subseteq Nat /\ clear # {}
  BY <1>1, <1>2
<1>4. FirstClear = Min(clear)
  BY DEF FirstClear
<1>5. QED
  <2> HIDE DEF clear
  <2>1. FirstClear \in clear /\ \A k \in clear : FirstClear <= k
    BY <1>3, <1>4, MinIsLeast
  <2>2. QED
    BY <2>1 DEF clear

LEMMA CountsAreNumbers ==
  /\ \A r \in Region : Cardinality(Steps(r)) \in Nat
  /\ Cardinality(Low) \in Nat /\ Cardinality(KernelPages) \in Nat
<1>1. ASSUME NEW b \in Int, NEW S, S \subseteq 0 .. b
      PROVE  Cardinality(S) \in Nat
  <2>1. IsFiniteSet(0 .. b)
    BY FS_Interval
  <2>2. IsFiniteSet(S)
    BY <1>1, <2>1, FS_Subset
  <2>3. QED
    BY <2>2, FS_CardinalityType
<1>2. ASSUME NEW r \in Region PROVE Cardinality(Steps(r)) \in Nat
  <2>1. Steps(r) \subseteq 0 .. r.len - 1 /\ r.len - 1 \in Int
    BY DEF Steps, Region
  <2>2. QED
    BY <1>1, <2>1
<1>3. Low \subseteq 0 .. LowPages /\ LowPages \in Int
  BY Sizes DEF Low
<1>4. KernelPages \subseteq 0 .. AddrUnits \div PageUnits
  <2>1. \A a \in KernelStart .. KernelEnd : a \in Nat
    BY Sizes
  <2>2. QED
    BY <2>1, PageInRange DEF KernelPages
<1>5. AddrUnits \div PageUnits \in Int
  BY Sizes
<1>6. Cardinality(Low) \in Nat
  BY <1>1, <1>3, Zenon
<1>7. Cardinality(KernelPages) \in Nat
  BY <1>1, <1>4, <1>5, Zenon
<1>8. QED
  BY <1>2, <1>6, <1>7

LEMMA BitmapInit == Init => Bitmap
<1> SUFFICES ASSUME Init PROVE Bitmap
  OBVIOUS
<1>1. /\ pc = "data_structs" /\ map \in Maps /\ region = 1 /\ num_bits = 0
      /\ used = {} /\ alloc_pages = 0 /\ handed = <<>>
  BY DEF Init
<1>2. Len(map) \in Nat
  <2>1. map \in Seq(Region)
    BY <1>1, PhysMemAssumption
  <2>2. QED
    BY <2>1
<1>3. region \in 1 .. Len(map) + 1
  BY <1>1, <1>2
<1>4. num_bits \in 0 .. AddrUnits \div PageUnits
  BY <1>1, Sizes
<1>5. handed \in Seq(0 .. AfterBit(WordBits - 1))
  BY <1>1
<1>6. used \subseteq 0 .. AfterBit(WordBits - 1) /\ alloc_pages \in Int
  BY <1>1
<1>7. TypeOK
  BY <1>1, <1>3, <1>4, <1>5, <1>6 DEF TypeOK
<1>8. QED
  BY <1>1, <1>7 DEF Bitmap, Counted, NoneHanded, Hole

\* memory_build_data_structs leaves every bit of the map set, and a clear bit
\* after it.
LEMMA BitmapBuild == Bitmap /\ BuildDataStructs => Bitmap' /\ FreePages' = {}
<1> SUFFICES ASSUME Bitmap, BuildDataStructs PROVE Bitmap' /\ FreePages' = {}
  OBVIOUS
<1>1. /\ pc = "data_structs" /\ pc' = "build_map"
      /\ map' = map /\ region' = region /\ handed' = handed
      /\ alloc_pages' = num_bits'
  BY DEF BuildDataStructs
<1>2. TypeOK /\ handed = <<>>
  BY <1>1 DEF Bitmap, NoneHanded
<1>3. num_bits' = SizeBytes \div PageUnits
  BY DEF BuildDataStructs
<1>4. num_bits' \in 0 .. AddrUnits \div PageUnits /\ num_bits' \in Nat
  <2> DEFINE size == SizeBytes
  <2>1. size \in 0 .. AddrUnits - 1
    BY <1>2, SizeIsLargest
  <2> HIDE DEF size
  <2>2. size \in Nat /\ size <= AddrUnits
    BY <2>1, Sizes
  <2>3. size \div PageUnits <= AddrUnits \div PageUnits
    BY <2>2, Sizes, QuotientMonotone
  <2>4. size \div PageUnits \in Nat
    BY <2>2, Sizes, Quotient
  <2>5. size \div PageUnits \in 0 .. AddrUnits \div PageUnits
    BY <2>3, <2>4, Sizes
  <2>6. QED
    BY <1>3, <2>4, <2>5 DEF size
<1> DEFINE w == num_words(num_bits') * WordBits
<1>5. w \in Nat /\ num_bits' <= w
  <2>1. num_words(num_bits') \in Nat /\ num_bits' <= w
    BY <1>4, WordsHoldBits
  <2>2. QED
    BY <2>1, Sizes, MultipleMonotone
<1>6. MapBits' = 0 .. w - 1
  BY DEF MapBits
<1>7. \A bit : AfterBit(bit)' = w + bit
  BY DEF AfterBit
<1>8. AfterBit(WordBits - 1)' = w + (WordBits - 1)
  BY <1>7
<1>9. PICK after \in Afters : used' = MapBits' \cup {AfterBit(bit)' : bit \in after}
  BY DEF BuildDataStructs
<1>10. after \subseteq 0 .. WordBits - 1 /\ ~ (1 .. WordBits - 1 \subseteq after)
  BY <1>9, PhysMemAssumption
<1>11. used' = (0 .. w - 1) \cup {w + bit : bit \in after}
  BY <1>6, <1>7, <1>9
<1> HIDE DEF w
<1>12. used' \subseteq 0 .. AfterBit(WordBits - 1)'
  <2>1. 0 .. w - 1 \subseteq 0 .. w + (WordBits - 1)
    BY <1>5, Sizes
  <2>2. \A bit \in after : w + bit \in 0 .. w + (WordBits - 1)
    BY <1>5, <1>10, Sizes
  <2>3. QED
    BY <1>8, <1>11, <2>1, <2>2
<1>13. Hole'
  <2>1. PICK bit \in 1 .. WordBits - 1 : bit \notin after
    BY <1>10
  <2>2. w + bit \notin 0 .. w - 1
    BY <1>5
  <2>3. \A b \in after : w + b # w + bit
    BY <1>5, <1>10, <2>1
  <2>4. AfterBit(bit)' \notin used'
    BY <1>7, <1>11, <2>2, <2>3
  <2>5. QED
    BY <2>1, <2>4 DEF Hole
<1>14. TypeOK'
  <2>1. alloc_pages' \in Int
    BY <1>1, <1>4
  <2>2. handed' \in Seq(0 .. AfterBit(WordBits - 1)')
    BY <1>1, <1>2
  <2>3. map' \in Maps /\ region' \in 1 .. Len(map') + 1
    BY <1>1, <1>2 DEF TypeOK
  <2>4. QED
    BY <1>1, <1>4, <1>12, <2>1, <2>2, <2>3 DEF TypeOK
<1>15. Counted'
  BY <1>1, <1>3 DEF Counted, SizeBytes, Available
<1>16. FreePages' = {}
  <2>1. 0 .. num_bits' - 1 \subseteq 0 .. w - 1
    <3> DEFINE n == num_bits'
    <3>1. n \in Nat /\ w \in Nat /\ n <= w
      BY <1>4, <1>5
    <3> HIDE DEF n
    <3>2. 0 .. n - 1 \subseteq 0 .. w - 1
      BY <3>1
    <3>3. QED
      BY <3>2 DEF n
  <2>2. 0 .. num_bits' - 1 \subseteq used'
    BY <1>11, <2>1
  <2>3. QED
    BY <2>2 DEF FreePages
<1>17. NoneHanded'
  BY <1>1, <1>2 DEF NoneHanded
<1>18. QED
  BY <1>13, <1>14, <1>15, <1>16, <1>17 DEF Bitmap

\* What the steps after it do to the bitmap: they set no bit past num_bits, and
\* leave its size alone.
LEMMA BitmapKept ==
  ASSUME Bitmap, pc # "data_structs", pc' # "data_structs",
         num_bits' = num_bits, map' = map,
         region' \in 1 .. Len(map) + 1,
         pc' \in {"build_map", "mark_kernel", "ready"},
         used' \subseteq used \cup 0 .. num_bits,
         alloc_pages' \in Int, handed' \in Seq(0 .. AfterBit(WordBits - 1)),
         pc' # "ready" => handed' = <<>>
  PROVE  Bitmap'
<1>1. TypeOK /\ num_bits \in Nat
  BY Sizes DEF Bitmap, TypeOK
<1>2. PICK w \in Nat : num_bits <= w /\ \A bit : AfterBit(bit) = w + bit
  BY <1>1, BitmapShape
<1>3. \A bit : AfterBit(bit)' = AfterBit(bit)
  BY DEF AfterBit
<1>4. 0 .. num_bits \subseteq 0 .. AfterBit(WordBits - 1)
  BY <1>1, <1>2, Sizes
<1>5. used' \subseteq 0 .. AfterBit(WordBits - 1)'
  <2>1. used \subseteq 0 .. AfterBit(WordBits - 1)
    BY <1>1 DEF TypeOK
  <2>2. QED
    BY <1>3, <1>4, <2>1
<1>6. Hole'
  <2>1. PICK bit \in 1 .. WordBits - 1 : AfterBit(bit) \notin used
    BY DEF Bitmap, Hole
  <2>2. AfterBit(bit) \notin 0 .. num_bits
    BY <1>1, <1>2, <2>1, Sizes
  <2>3. AfterBit(bit)' \notin used'
    BY <1>3, <2>1, <2>2
  <2>4. QED
    BY <2>1, <2>3 DEF Hole
<1>7. TypeOK'
  BY <1>1, <1>3, <1>5 DEF TypeOK
<1>8. Counted'
  BY DEF Bitmap, Counted, SizeBytes, Available
<1>9. QED
  BY <1>6, <1>7, <1>8 DEF Bitmap, NoneHanded

\* The pages cleared for a region are pages of its units.
LEMMA ClearedUsable ==
  ASSUME TypeOK, Below4GB, NEW r \in Available, NEW page \in PagesOf(r)
  PROVE  \E unit \in Units(page) : /\ unit \in r.addr .. r.addr + r.len - 1
                                  /\ page = unit \div PageUnits
<1>1. r.addr \in Nat /\ r.len \in Nat \ {0}
  BY RegionsAvailable DEF Region
<1>2. PICK j \in 0 .. r.len - 1 : page = Page(r.addr + j)
  BY DEF PagesOf, Steps
<1>3. r.addr + r.len < AddrUnits
  BY DEF Below4GB
<1> DEFINE unit == r.addr + j
<1>4. unit \in Nat /\ unit < AddrUnits /\ unit \in r.addr .. r.addr + r.len - 1
  BY <1>1, <1>2, <1>3, Sizes
<1>5. page = Page(unit)
  BY <1>2
<1>6. QED
  <2> HIDE DEF unit
  <2>1. QED
    BY <1>4, <1>5, PageOfUnit

\* The pages cleared and marked are numbers, so that the guards of bitmap_set
\* and bitmap_clr keep them within the bitmap.
LEMMA PagesAreNumbers ==
  ASSUME TypeOK
  PROVE  /\ \A r \in Available : PagesOf(r) \subseteq Nat
         /\ Low \cup KernelPages \subseteq Nat
<1>1. \A r \in Available : PagesOf(r) \subseteq Nat
  <2> SUFFICES ASSUME NEW r \in Available, NEW j \in Steps(r)
               PROVE  Page(r.addr + j) \in Nat
    BY DEF PagesOf
  <2>1. r.addr + j \in Nat
    BY RegionsAvailable DEF Region, Steps
  <2>2. QED
    BY <2>1, Sizes, PageInRange
<1>2. \A a \in KernelStart .. KernelEnd : Page(a) \in Nat
  <2> SUFFICES ASSUME NEW a \in KernelStart .. KernelEnd PROVE Page(a) \in Nat
    OBVIOUS
  <2>1. a \in Nat
    BY Sizes
  <2>2. QED
    BY <2>1, Sizes, PageInRange
<1>3. Low \subseteq Nat
  BY Sizes DEF Low
<1>4. QED
  BY <1>1, <1>2, <1>3 DEF KernelPages

\* One turn of the loop over the memory map.
LEMMA BitmapBuildMap == Bitmap /\ BuildMap => Bitmap'
<1> SUFFICES ASSUME Bitmap, BuildMap PROVE Bitmap'
  OBVIOUS
<1>1. /\ pc = "build_map" /\ pc' \in {"build_map", "mark_kernel"}
      /\ map' = map /\ num_bits' = num_bits /\ handed' = handed
  BY DEF BuildMap
<1>2. TypeOK /\ handed = <<>>
  BY <1>1 DEF Bitmap, NoneHanded
<1>3. map \in Seq(Region)
  BY <1>2, PhysMemAssumption DEF TypeOK
<1>4. region' \in 1 .. Len(map) + 1
  <2>1. region \in 1 .. Len(map) + 1
    BY <1>2 DEF TypeOK
  <2>2. CASE region \in DOMAIN map /\ region' = region + 1
    BY <1>3, <2>1, <2>2
  <2>3. CASE region' = region
    BY <2>1, <2>3
  <2>4. QED
    BY <2>2, <2>3 DEF BuildMap
<1>5. used' \subseteq used \cup 0 .. num_bits
  BY DEF BuildMap, Clear
<1>6. alloc_pages' \in Int
  <2>1. alloc_pages \in Int
    BY <1>2 DEF TypeOK
  <2>2. CASE region \in DOMAIN map /\ alloc_pages' = alloc_pages - Cardinality(Steps(map[region]))
    <3>1. map[region] \in Region
      BY <1>2, <2>2, RegionsAvailable
    <3>2. Cardinality(Steps(map[region])) \in Nat
      BY <3>1, CountsAreNumbers
    <3>3. QED
      BY <2>1, <2>2, <3>2
  <2>3. CASE alloc_pages' = alloc_pages
    BY <2>1, <2>3
  <2>4. QED
    BY <2>2, <2>3 DEF BuildMap, Clear
<1>7. handed' \in Seq(0 .. AfterBit(WordBits - 1))
  BY <1>1, <1>2
<1>8. QED
  BY <1>1, <1>2, <1>4, <1>5, <1>6, <1>7, BitmapKept

LEMMA BitmapMarkKernel == Bitmap /\ MarkKernel => Bitmap'
<1> SUFFICES ASSUME Bitmap, MarkKernel PROVE Bitmap'
  OBVIOUS
<1>1. /\ pc = "mark_kernel" /\ pc' = "ready" /\ region' = region
      /\ map' = map /\ num_bits' = num_bits /\ handed' = handed
  BY DEF MarkKernel
<1>2. TypeOK /\ handed = <<>>
  BY <1>1 DEF Bitmap, NoneHanded
<1>3. region' \in 1 .. Len(map) + 1
  BY <1>1, <1>2 DEF TypeOK
<1>4. used' \subseteq used \cup 0 .. num_bits
  <2>1. \A num \in Low \cup KernelPages : InRange(num) => num \in 0 .. num_bits
    BY <1>2, PagesAreNumbers, Sizes DEF InRange, TypeOK
  <2>2. used' = used \cup {num \in Low \cup KernelPages : InRange(num)}
    BY DEF MarkKernel
  <2>3. QED
    BY <2>1, <2>2
<1>5. alloc_pages' \in Int
  BY <1>2, CountsAreNumbers DEF TypeOK, MarkKernel
<1>6. handed' \in Seq(0 .. AfterBit(WordBits - 1))
  BY <1>1, <1>2
<1>7. QED
  BY <1>1, <1>2, <1>3, <1>4, <1>5, <1>6, BitmapKept

\* memory_find_and_alloc_page finds a clear bit, the first one.
LEMMA FoundIsClear ==
  ASSUME Bitmap, pc # "data_structs"
  PROVE  /\ FirstClear \in 0 .. AfterBit(WordBits - 1) /\ FirstClear \in Nat
         /\ FirstClear \notin used
         /\ \A page \in FreePages : FirstClear <= page
<1>1. num_bits \in Nat
  BY Sizes DEF Bitmap, TypeOK
<1>2. PICK bit \in 1 .. WordBits - 1 : AfterBit(bit) \notin used
  BY DEF Bitmap, Hole
<1>3. /\ FirstClear \in (0 .. AfterBit(WordBits - 1)) \ used
      /\ \A k \in (0 .. AfterBit(WordBits - 1)) \ used : FirstClear <= k
  BY <1>1, <1>2, FirstClearIs
<1>4. PICK w \in Nat : num_bits <= w /\ \A b : AfterBit(b) = w + b
  BY <1>1, BitmapShape
<1>5. 0 .. num_bits - 1 \subseteq 0 .. AfterBit(WordBits - 1)
  BY <1>1, <1>4, Sizes
<1>6. QED
  BY <1>3, <1>5 DEF FreePages

LEMMA BitmapAllocPage == Bitmap /\ AllocPage => Bitmap'
<1> SUFFICES ASSUME Bitmap, AllocPage PROVE Bitmap'
  OBVIOUS
<1>1. /\ pc = "ready" /\ pc' = pc /\ region' = region
      /\ map' = map /\ num_bits' = num_bits
      /\ handed' = Append(handed, FirstClear)
      /\ alloc_pages' = alloc_pages + 1
  BY DEF AllocPage
<1>2. TypeOK
  BY DEF Bitmap
<1>3. FirstClear \in 0 .. AfterBit(WordBits - 1) /\ FirstClear \in Nat
  BY <1>1, FoundIsClear
<1>4. region' \in 1 .. Len(map) + 1
  BY <1>1, <1>2 DEF TypeOK
<1>5. used' \subseteq used \cup 0 .. num_bits
  <2>1. InRange(FirstClear) => FirstClear \in 0 .. num_bits
    BY <1>2, <1>3, Sizes DEF InRange, TypeOK
  <2>2. QED
    BY <2>1 DEF AllocPage
<1>6. alloc_pages' \in Int
  BY <1>1, <1>2 DEF TypeOK
<1>7. handed' \in Seq(0 .. AfterBit(WordBits - 1))
  BY <1>1, <1>2, <1>3 DEF TypeOK
<1>8. QED
  BY <1>1, <1>4, <1>5, <1>6, <1>7, BitmapKept

LEMMA BitmapNext == Bitmap /\ [Next]_vars => Bitmap'
<1> SUFFICES ASSUME Bitmap, [Next]_vars PROVE Bitmap'
  OBVIOUS
<1>1. CASE UNCHANGED vars
  BY <1>1 DEF vars, Bitmap, TypeOK, Counted, NoneHanded, Hole, AfterBit, SizeBytes, Available
<1>2. QED
  BY <1>1, BitmapBuild, BitmapBuildMap, BitmapMarkKernel, BitmapAllocPage DEF Next

\* No turn of the loop over the map, and no step after it, frees a page
\* that is not part of a usable region.
LEMMA FreeUsableNext == Bitmap /\ FreeUsable /\ [Next]_vars => FreeUsable'
<1> SUFFICES ASSUME Bitmap, FreeUsable, [Next]_vars, pc' # "data_structs",
                    NEW page \in FreePages'
             PROVE  HasUsableUnit(page)'
  BY DEF FreeUsable
<1>1. TypeOK
  BY DEF Bitmap
<1>2. CASE BuildDataStructs
  BY <1>2, BitmapBuild
<1>3. CASE pc # "data_structs" /\ map' = map /\ page \in FreePages
  BY <1>3 DEF FreeUsable, HasUsableUnit, Below4GB, Available, Usable
<1>4. CASE BuildMap
  <2>1. pc # "data_structs" /\ map' = map /\ num_bits' = num_bits
    BY <1>4 DEF BuildMap
  <2>2. CASE page \in FreePages
    BY <1>3, <2>1, <2>2
  <2>3. CASE page \notin FreePages
    <3>1. page \in used \ used' /\ page \in 0 .. num_bits - 1
      BY <2>1, <2>3 DEF FreePages
    <3>2. /\ region \in DOMAIN map /\ map[region].available
          /\ page \in PagesOf(map[region])
      BY <1>4, <3>1 DEF BuildMap, Clear
    <3>3. map[region] \in Available
      BY <1>1, <3>2, RegionsAvailable
    <3>4. HasUsableUnit(page)
      BY <1>1, <3>2, <3>3, ClearedUsable DEF HasUsableUnit, Usable
    <3>5. QED
      BY <2>1, <3>4 DEF HasUsableUnit, Below4GB, Available, Usable
  <2>4. QED
    BY <2>2, <2>3
<1>5. CASE MarkKernel \/ AllocPage \/ UNCHANGED vars
  <2>1. /\ pc # "data_structs" /\ map' = map /\ num_bits' = num_bits
        /\ used \subseteq used'
    BY <1>5 DEF MarkKernel, AllocPage, vars
  <2>2. page \in FreePages
    BY <2>1 DEF FreePages
  <2>3. QED
    BY <1>3, <2>1, <2>2
<1>6. QED
  BY <1>2, <1>4, <1>5 DEF Next

\* What memory_mark_kernel_as_used marks stays marked.
LEMMA ReservedNext == Bitmap /\ Reserved /\ [Next]_vars => Reserved'
<1> SUFFICES ASSUME Bitmap, Reserved, [Next]_vars, pc' = "ready",
                    NEW page \in FreePages'
             PROVE  page \notin Low \cup KernelPages
  BY DEF Reserved, Low, KernelPages, Page
<1>1. CASE MarkKernel
  <2>1. used' = used \cup {num \in Low \cup KernelPages : InRange(num)} /\ num_bits' = num_bits
    BY <1>1 DEF MarkKernel
  <2>2. page \in 0 .. num_bits - 1 /\ page \notin used'
    BY <2>1 DEF FreePages
  <2>3. num_bits \in Nat
    BY Sizes DEF Bitmap, TypeOK
  <2>4. InRange(page)
    BY <2>2, <2>3 DEF InRange
  <2>5. QED
    BY <2>1, <2>2, <2>4
<1>2. CASE AllocPage \/ UNCHANGED vars
  <2>1. pc = "ready" /\ num_bits' = num_bits /\ used \subseteq used'
    BY <1>2 DEF AllocPage, vars
  <2>2. page \in FreePages
    BY <2>1 DEF FreePages
  <2>3. QED
    BY <2>1, <2>2 DEF Reserved
<1>3. CASE BuildDataStructs \/ BuildMap
  BY <1>3 DEF BuildDataStructs, BuildMap
<1>4. QED
  BY <1>1, <1>2, <1>3 DEF Next

\* While there are pages to give, the one given is the first of them.
LEMMA FoundBelow ==
  ASSUME Bitmap, pc = "ready", FirstClear < num_bits
  PROVE  FirstClear \in FreePages
<1>1. FirstClear \in Nat /\ FirstClear \notin used
  BY FoundIsClear
<1>2. num_bits \in Nat
  BY Sizes DEF Bitmap, TypeOK
<1>3. QED
  BY <1>1, <1>2 DEF FreePages

LEMMA GivenNext ==
  Bitmap /\ Given /\ [Next]_vars => (GivenMarked /\ GivenUsable /\ GivenOnce)'
<1> SUFFICES ASSUME Bitmap, Given, [Next]_vars
             PROVE  (GivenMarked /\ GivenUsable /\ GivenOnce)'
  OBVIOUS
<1>1. CASE AllocPage
  <2>1. /\ pc = "ready" /\ map' = map /\ num_bits' = num_bits
        /\ handed' = Append(handed, FirstClear)
        /\ used' = IF InRange(FirstClear) THEN used \cup {FirstClear} ELSE used
    BY <1>1 DEF AllocPage
  <2> DEFINE n == Len(handed)
  <2>2. /\ n \in Nat /\ DOMAIN handed = 1 .. n /\ DOMAIN handed' = 1 .. n + 1
        /\ \A i \in 1 .. n : handed'[i] = handed[i]
        /\ handed'[n + 1] = FirstClear
    <3>1. handed \in Seq(0 .. AfterBit(WordBits - 1))
      BY DEF Bitmap, TypeOK
    <3>2. QED
      BY <2>1, <3>1
  <2> HIDE DEF n
  <2>3. num_bits \in Nat /\ FirstClear \in Nat /\ FirstClear \notin used
    BY <2>1, FoundIsClear, Sizes DEF Bitmap, TypeOK
  <2>4. \A i \in Memory' : i \in Memory \/ (i = n + 1 /\ FirstClear < num_bits)
    BY <2>1, <2>2 DEF Memory
  <2>5. \A i \in Memory : i \in 1 .. n /\ handed'[i] = handed[i] /\ handed[i] \in used
    BY <2>2 DEF Memory, Given, GivenMarked
  <2>6. FirstClear < num_bits => FirstClear \in used'
    BY <2>1, <2>3 DEF InRange
  <2>7. FirstClear < num_bits =>
          HasUsableUnit(FirstClear) /\ FirstClear \notin Low \cup KernelPages
    BY <2>1, FoundBelow DEF Given, FreeUsable, Reserved
  <2>8. GivenMarked'
    BY <2>1, <2>2, <2>4, <2>5, <2>6 DEF GivenMarked
  <2>9. GivenUsable'
    <3>1. \A i \in Memory' : /\ HasUsableUnit(handed'[i])
                             /\ handed'[i] \notin Low \cup KernelPages
      <4>1. \A i \in Memory : HasUsableUnit(handed[i]) /\ handed[i] \notin Low \cup KernelPages
        BY DEF Given, GivenUsable
      <4>2. \A i \in Memory : /\ HasUsableUnit(handed'[i])
                              /\ handed'[i] \notin Low \cup KernelPages
        BY <2>5, <4>1
      <4>3. QED
        BY <2>2, <2>4, <2>7, <4>2
    <3>2. \A i \in Memory' : HasUsableUnit(handed[i])' <=> HasUsableUnit(handed'[i])
      BY <2>1 DEF HasUsableUnit, Below4GB, Available, Usable, Units
    <3>3. QED
      BY <3>1, <3>2 DEF GivenUsable, Low, KernelPages, Page
  <2>10. GivenOnce'
    <3>1. \A i \in Memory : handed[i] # FirstClear
      BY <2>3, <2>5
    <3>2. \A i, j \in Memory : handed[i] = handed[j] => i = j
      BY DEF Given, GivenOnce
    <3>3. QED
      BY <2>2, <2>4, <2>5, <3>1, <3>2 DEF GivenOnce
  <2>11. QED
    BY <2>8, <2>9, <2>10
<1>2. CASE UNCHANGED vars
  BY <1>2 DEF vars, Given, GivenMarked, GivenUsable, GivenOnce, Memory, HasUsableUnit,
              Below4GB, Available, Usable, Units, Low, KernelPages, Page
<1>3. CASE BuildDataStructs \/ BuildMap \/ MarkKernel
  <2>1. handed' = <<>>
    BY <1>3 DEF BuildDataStructs, BuildMap, MarkKernel, Bitmap, NoneHanded
  <2>2. Memory' = {}
    BY <2>1 DEF Memory
  <2>3. QED
    BY <2>2 DEF GivenMarked, GivenUsable, GivenOnce
<1>4. QED
  BY <1>1, <1>2, <1>3 DEF Next

\* A page past the end of memory is given only when no page is left, and no page
\* is ever given back.
LEMMA LostNext ==
  Bitmap /\ LostOnlyWhenFull /\ [Next]_vars => LostOnlyWhenFull'
<1> SUFFICES ASSUME Bitmap, LostOnlyWhenFull, [Next]_vars PROVE LostOnlyWhenFull'
  OBVIOUS
<1>1. CASE AllocPage
  <2>1. /\ pc = "ready" /\ num_bits' = num_bits
        /\ handed' = Append(handed, FirstClear) /\ used \subseteq used'
    BY <1>1 DEF AllocPage
  <2>2. FreePages' \subseteq FreePages
    BY <2>1 DEF FreePages
  <2>3. num_bits \in Nat /\ FirstClear \in Nat
        /\ \A page \in FreePages : FirstClear <= page
    BY <2>1, FoundIsClear, Sizes DEF Bitmap, TypeOK
  <2>4. FirstClear > num_bits => FreePages = {}
    BY <2>3 DEF FreePages
  <2>5. handed \in Seq(0 .. AfterBit(WordBits - 1))
    BY DEF Bitmap, TypeOK
  <2>6. ASSUME NEW i \in DOMAIN handed', handed'[i] > num_bits' PROVE FreePages = {}
    <3>1. (i \in DOMAIN handed /\ handed'[i] = handed[i]) \/ handed'[i] = FirstClear
      BY <2>1, <2>5
    <3>2. QED
      BY <2>1, <2>4, <2>6, <3>1 DEF LostOnlyWhenFull
  <2>7. QED
    BY <2>2, <2>6 DEF LostOnlyWhenFull
<1>2. CASE UNCHANGED vars
  BY <1>2 DEF vars, LostOnlyWhenFull, FreePages
<1>3. CASE BuildDataStructs \/ BuildMap \/ MarkKernel
  <2>1. handed' = <<>>
    BY <1>3 DEF BuildDataStructs, BuildMap, MarkKernel, Bitmap, NoneHanded
  <2>2. QED
    BY <2>1 DEF LostOnlyWhenFull
<1>4. QED
  BY <1>1, <1>2, <1>3 DEF Next

LEMMA AllocInvInit == Init => AllocInv
<1> SUFFICES ASSUME Init PROVE AllocInv
  OBVIOUS
<1>1. pc = "data_structs" /\ handed = <<>>
  BY DEF Init
<1>2. Memory = {}
  BY <1>1 DEF Memory
<1>3. Given
  BY <1>1, <1>2 DEF Given, FreeUsable, Reserved, GivenMarked, GivenUsable, GivenOnce
<1>4. LostOnlyWhenFull
  BY <1>1 DEF LostOnlyWhenFull
<1>5. QED
  BY <1>3, <1>4, BitmapInit DEF AllocInv

LEMMA AllocInvNext == AllocInv /\ [Next]_vars => AllocInv'
  BY BitmapNext, FreeUsableNext, ReservedNext, GivenNext, LostNext DEF AllocInv, Given

LEMMA AllocInvOwned == AllocInv => PagesOwned
<1> SUFFICES ASSUME AllocInv, NEW i \in Memory
             PROVE  /\ Below4GB => \E unit \in Units(handed[i]) : Usable(unit)
                    /\ \A unit \in Units(handed[i]) : /\ unit >= LowPages * PageUnits
                                                      /\ unit \notin KernelStart .. KernelEnd - 1
                    /\ \A j \in Memory : handed[i] = handed[j] => i = j
  BY DEF PagesOwned
<1>1. HasUsableUnit(handed[i]) /\ handed[i] \notin Low \cup KernelPages
  BY DEF AllocInv, Given, GivenUsable
<1>2. handed[i] \in Nat
  <2>1. handed \in Seq(0 .. AfterBit(WordBits - 1)) /\ i \in DOMAIN handed
    BY DEF AllocInv, Bitmap, TypeOK, Memory
  <2> DEFINE last == AfterBit(WordBits - 1)
  <2>2. handed[i] \in 0 .. last
    <3> HIDE DEF last
    <3>1. \A S : handed \in Seq(S) => handed[i] \in S
      BY <2>1
    <3>2. QED
      BY <2>1, <3>1 DEF last
  <2>3. QED
    <3> HIDE DEF last
    <3>1. QED
      BY <2>2
<1>3. \A unit \in Units(handed[i]) : /\ unit >= LowPages * PageUnits
                                     /\ unit \notin KernelStart .. KernelEnd - 1
  BY <1>1, <1>2, PageOutside
<1>4. QED
  BY <1>1, <1>3 DEF HasUsableUnit, AllocInv, Given, GivenOnce

\* With a regular memory, the pages freed and reserved have bits in the map.
LEMMA RegularPages ==
  ASSUME Bitmap, pc # "data_structs", Regular
  PROVE  /\ \A r \in Available : \A page \in PagesOf(r) : page < num_bits
         /\ \A page \in Low \cup KernelPages : page < num_bits
<1>1. TypeOK /\ num_bits \in Nat /\ num_bits = SizeBytes \div PageUnits
  BY Sizes DEF Bitmap, TypeOK, Counted
<1>2. ASSUME NEW r \in Available, NEW page \in PagesOf(r) PROVE page < num_bits
  <2>1. /\ r.addr \in Nat /\ r.len \in Nat \ {0} /\ r.addr + r.len < AddrUnits
        /\ r.addr % PageUnits = 0 /\ r.len % PageUnits = 0
    BY <1>1, RegionsAvailable DEF Region, Regular, Below4GB
  <2>2. PICK unit \in r.addr .. r.addr + r.len - 1 : page = unit \div PageUnits
    BY <1>1, <1>2, ClearedUsable DEF Regular
  <2> DEFINE a == r.addr \div PageUnits
             l == r.len \div PageUnits
             last == r.addr + r.len
  <2>3. a \in Nat /\ l \in Nat /\ last = (a + l) * PageUnits
    <3>1. /\ a \in Nat /\ r.addr = a * PageUnits + (r.addr % PageUnits)
          /\ l \in Nat /\ r.len = l * PageUnits + (r.len % PageUnits)
      BY <2>1, Sizes, DivisionWithRest
    <3>2. a * PageUnits \in Nat /\ l * PageUnits \in Nat
      BY <3>1, Sizes, MultipleMonotone
    <3> HIDE DEF a, l
    <3>3. r.addr = a * PageUnits /\ r.len = l * PageUnits
      BY <2>1, <3>1, <3>2
    <3>4. (a + l) * PageUnits = a * PageUnits + l * PageUnits
      BY <3>1, Sizes
    <3>5. QED
      BY <3>1, <3>3, <3>4
  <2>4. a + l <= num_bits
    <3>1. last <= SizeBytes /\ last \in Nat /\ SizeBytes \in Nat
      BY <1>1, <2>1, SizeIsLargest, Sizes
    <3>2. last \div PageUnits <= num_bits
      <4> HIDE DEF last
      <4>1. QED
        BY <1>1, <3>1, Sizes, QuotientMonotone
    <3>3. last \div PageUnits = a + l
      <4> HIDE DEF a, l, last
      <4>1. ((a + l) * PageUnits + 0) \div PageUnits = a + l
        <5>1. a + l \in Nat /\ 0 \in 0 .. PageUnits - 1
          BY <2>3, Sizes
        <5>2. QED
          BY <5>1, Sizes, QuotientIs
      <4>2. (a + l) * PageUnits + 0 = last
        BY <2>3, <3>1
      <4>3. QED
        BY <4>1, <4>2
    <3>4. QED
      BY <3>2, <3>3
  <2>5. page < a + l
    <3>1. unit \in Nat /\ unit < last
      BY <2>1, <2>2
    <3>2. page \in Nat /\ page * PageUnits <= unit
      BY <2>2, <3>1, Sizes, Quotient
    <3> HIDE DEF a, l, last
    <3>3. ASSUME a + l <= page PROVE FALSE
      <4>1. last <= page * PageUnits
        BY <2>3, <3>2, <3>3, Sizes, MultipleMonotone
      <4>2. page * PageUnits \in Nat /\ last \in Nat
        BY <2>3, <3>2, Sizes, MultipleMonotone
      <4>3. QED
        BY <3>1, <3>2, <4>1, <4>2
    <3>4. QED
      BY <2>3, <3>2, <3>3
  <2>6. page \in Nat
    BY <1>1, PagesAreNumbers, <1>2
  <2>7. QED
    <3> HIDE DEF a, l
    <3>1. QED
      BY <1>1, <2>3, <2>4, <2>5, <2>6
<1>3. ASSUME NEW page \in Low PROVE page < num_bits
  BY <1>1, Sizes DEF Low, Regular
<1>4. ASSUME NEW page \in KernelPages PROVE page < num_bits
  <2>1. PICK addr \in KernelStart .. KernelEnd : page = Page(addr)
    BY DEF KernelPages
  <2>2. /\ addr \in Nat /\ addr < AddrUnits /\ addr <= KernelEnd
        /\ KernelEnd \in Nat /\ KernelEnd < AddrUnits
    BY Sizes
  <2>3. page = addr \div PageUnits /\ Page(KernelEnd) = KernelEnd \div PageUnits
    BY <2>1, <2>2, PageOfUnit
  <2>4. addr \div PageUnits <= KernelEnd \div PageUnits
    BY <2>2, Sizes, QuotientMonotone
  <2>5. Page(KernelEnd) < num_bits
    BY DEF Regular
  <2>6. page \in Nat /\ Page(KernelEnd) \in Nat
    BY <2>2, <2>3, Sizes, Quotient
  <2>7. page <= Page(KernelEnd)
    BY <2>3, <2>4
  <2>8. QED
    BY <1>1, <2>5, <2>6, <2>7
<1>5. QED
  BY <1>2, <1>3, <1>4

\* A step that sets and clears only bits of the map leaves the next word alone.
LEMMA AfterUntouched ==
  ASSUME Bitmap, num_bits' = num_bits,
         \A bit \in Nat : bit >= num_bits => (bit \in used' <=> bit \in used)
  PROVE  After' = After
<1>1. num_bits \in Nat
  BY Sizes DEF Bitmap, TypeOK
<1>2. PICK w \in Nat : num_bits <= w /\ \A bit : AfterBit(bit) = w + bit
  BY <1>1, BitmapShape
<1>3. \A bit : AfterBit(bit)' = AfterBit(bit)
  BY DEF AfterBit
<1>4. \A bit \in 0 .. WordBits - 1 : AfterBit(bit) \in used' <=> AfterBit(bit) \in used
  <2> SUFFICES ASSUME NEW bit \in 0 .. WordBits - 1
               PROVE  AfterBit(bit) \in used' <=> AfterBit(bit) \in used
    OBVIOUS
  <2>1. AfterBit(bit) \in Nat /\ AfterBit(bit) >= num_bits
    BY <1>1, <1>2
  <2>2. QED
    BY <2>1
<1>5. QED
  BY <1>3, <1>4 DEF After

LEMMA AfterKeptStep ==
  ASSUME Bitmap, [Next]_vars, pc # "data_structs", Regular,
         pc = "ready" => FreePages # {}
  PROVE  After' = After
<1>1. TypeOK /\ num_bits \in Nat
  BY Sizes DEF Bitmap, TypeOK
<1>2. CASE BuildMap
  <2>1. num_bits' = num_bits
    BY <1>2 DEF BuildMap
  <2>2. CASE region \in DOMAIN map /\ map[region].available /\ Clear(map[region])
    <3>1. map[region] \in Available
      BY <1>1, <2>2, RegionsAvailable
    <3>2. \A page \in PagesOf(map[region]) : page < num_bits /\ page \in Nat
      BY <1>1, <1>2, <3>1, RegularPages, PagesAreNumbers
    <3>3. used' = used \ {num \in PagesOf(map[region]) : InRange(num)}
      BY <2>2 DEF Clear
    <3>4. \A bit \in Nat : bit >= num_bits => (bit \in used' <=> bit \in used)
      BY <1>1, <3>2, <3>3
    <3>5. QED
      BY <2>1, <3>4, AfterUntouched
  <2>3. CASE used' = used
    BY <2>1, <2>3, AfterUntouched
  <2>4. QED
    BY <1>2, <2>2, <2>3 DEF BuildMap
<1>3. CASE MarkKernel
  <2>1. /\ num_bits' = num_bits
        /\ used' = used \cup {num \in Low \cup KernelPages : InRange(num)}
    BY <1>3 DEF MarkKernel
  <2>2. \A page \in Low \cup KernelPages : page < num_bits /\ page \in Nat
    BY <1>1, RegularPages, PagesAreNumbers
  <2>3. \A bit \in Nat : bit >= num_bits => (bit \in used' <=> bit \in used)
    BY <1>1, <2>1, <2>2
  <2>4. QED
    BY <2>1, <2>3, AfterUntouched
<1>4. CASE AllocPage
  <2>1. /\ pc = "ready" /\ num_bits' = num_bits
        /\ used' = IF InRange(FirstClear) THEN used \cup {FirstClear} ELSE used
    BY <1>4 DEF AllocPage
  <2>2. FirstClear \in Nat /\ FirstClear < num_bits
    <3>1. PICK page \in FreePages : TRUE
      BY <2>1
    <3>2. FirstClear \in Nat /\ FirstClear <= page
      BY <2>1, <3>1, FoundIsClear
    <3>3. page \in 0 .. num_bits - 1
      BY DEF FreePages
    <3>4. QED
      BY <1>1, <3>2, <3>3
  <2>3. \A bit \in Nat : bit >= num_bits => (bit \in used' <=> bit \in used)
    BY <1>1, <2>1, <2>2
  <2>4. QED
    BY <2>1, <2>3, AfterUntouched
<1>5. CASE UNCHANGED vars
  BY <1>5 DEF vars, After, AfterBit
<1>6. CASE BuildDataStructs
  BY <1>6 DEF BuildDataStructs
<1>7. QED
  BY <1>2, <1>3, <1>4, <1>5, <1>6 DEF Next

-----------------------------------------------------------------------------
(* The inductive invariant of the tables.                                  *)

Unstarted == pc # "ready" => dir = <<>> /\ memory = <<>> /\ mapped = <<>> /\ next = 0

\* Entry i of directory d.
Present(d, i) == memory[dir[d]][i].present
TableAt(d, i) == memory[dir[d]][i].page_addr

\* What holds while all directories are in memory.  The directories and tables
\* in memory are pages in use, so that no new one is one of them; directories
\* are no tables, and a table in memory is that of one entry of one directory.
TablesUsed == \A t \in DOMAIN memory : t < num_bits => t \in used
DirsApart == \A d, e \in DOMAIN dir : dir[d] = dir[e] => d = e
TablesHeld ==
  \A d \in DOMAIN dir, i \in Index :
    Present(d, i) => /\ TableAt(d, i) \in DOMAIN memory
                     /\ \A e \in DOMAIN dir : dir[e] # TableAt(d, i)
OneUser ==
  \A d, e \in DOMAIN dir : \A i, k \in Index :
    Present(d, i) /\ Present(e, k) /\ TableAt(d, i) = TableAt(e, k) /\ TableAt(d, i) < num_bits
      => d = e /\ i = k

\* The entry that page_map wrote is still there.
EntryKept(m) ==
  LET idx == page_directory_for_virtual(m[2]) IN
  /\ m[1] \in DOMAIN dir /\ m[2] \in PageNumber /\ m = <<m[1], m[2]>>
  /\ Present(m[1], idx)
  /\ TableAt(m[1], idx) < num_bits
       => memory[TableAt(m[1], idx)][page_table_for_virtual(m[2])] =
            [present |-> TRUE, page_addr |-> mapped[m]]
EntriesKept == \A m \in DOMAIN mapped : EntryKept(m)

Kept == TablesUsed /\ DirsApart /\ TablesHeld /\ OneUser /\ EntriesKept

KernelMapped == maps = 0 => \A v \in 0 .. next - 1 : /\ <<Kernel, v>> \in DOMAIN mapped
                                                     /\ mapped[<<Kernel, v>>] = v

Tables == PTypeOK /\ Unstarted
PagingInv == AllocInv /\ Tables /\ KernelMapped /\ (DirectoriesFit => Kept)

-----------------------------------------------------------------------------
(* The count of pages in use.                                              *)

\* The bits cleared so far are those of the regions visited.
Visited ==
  /\ pc = "data_structs" => region = 1
  /\ pc = "mark_kernel" => region \notin DOMAIN map
  /\ pc \in {"build_map", "mark_kernel"} =>
       \A page \in 0 .. num_bits - 1 :
         page \notin used
           <=> \E i \in DOMAIN map :
                 i < region /\ map[i].available /\ page \in PagesOf(map[i])

Counting == pc # "data_structs" /\ Regular /\ Plain /\ Memory = DOMAIN handed
              => num_bits - alloc_pages = Cardinality(FreePages)

\* In a region of whole pages the loop's steps are the starts of its pages.
LEMMA StepStartsPage ==
  ASSUME TypeOK, Regular, NEW r \in Available, NEW j \in Steps(r)
  PROVE  Page(r.addr + j) \in Nat /\ Page(r.addr + j) * PageUnits = r.addr + j
<1>1. /\ r.addr \in Nat /\ r.len \in Nat \ {0} /\ r.addr + r.len < AddrUnits
      /\ r.addr % PageUnits = 0 /\ r.len % PageUnits = 0
  BY RegionsAvailable DEF Region, Regular, Below4GB
<1>2. j \in Nat /\ j % PageUnits = 0 /\ j < r.len
  BY <1>1 DEF Steps
<1> DEFINE a == r.addr \div PageUnits
           l == j \div PageUnits
           unit == r.addr + j
<1>3. /\ a \in Nat /\ r.addr = a * PageUnits + (r.addr % PageUnits)
      /\ l \in Nat /\ j = l * PageUnits + (j % PageUnits)
  BY <1>1, <1>2, Sizes, DivisionWithRest
<1>4. a * PageUnits \in Nat /\ l * PageUnits \in Nat
  BY <1>3, Sizes, MultipleMonotone
<1>5. r.addr = a * PageUnits /\ j = l * PageUnits
  <2> HIDE DEF a, l
  <2>1. QED
    BY <1>1, <1>2, <1>3, <1>4
<1>6. unit = (a + l) * PageUnits /\ unit \in Nat /\ unit < AddrUnits
  <2>1. (a + l) * PageUnits = a * PageUnits + l * PageUnits
    <3> HIDE DEF a, l
    <3>1. QED
      BY <1>3, Sizes
  <2>2. r.addr + j \in Nat /\ r.addr + j < AddrUnits
    <3>1. /\ r.addr \in Nat /\ r.len \in Nat /\ r.addr + r.len < AddrUnits
          /\ AddrUnits \in Nat /\ j \in Nat /\ j < r.len
      BY <1>1, <1>2, Sizes
    <3>2. QED
      BY <3>1
  <2>3. r.addr + j = a * PageUnits + l * PageUnits
    <3> HIDE DEF a, l
    <3>1. QED
      BY <1>5
  <2> HIDE DEF a, l
  <2>4. QED
    BY <2>1, <2>2, <2>3
<1>7. Page(unit) = unit \div PageUnits
  <2> HIDE DEF unit
  <2>1. QED
    BY <1>6, PageOfUnit
<1>8. unit \div PageUnits = a + l
  <2> HIDE DEF a, l, unit
  <2>1. a + l \in Nat /\ 0 \in 0 .. PageUnits - 1
    BY <1>3, Sizes
  <2>2. ((a + l) * PageUnits + 0) \div PageUnits = a + l
    BY <2>1, Sizes, QuotientIs
  <2>3. QED
    BY <1>6, <2>2
<1>9. Page(unit) = a + l /\ a + l \in Nat
  <2>1. a + l \in Nat
    <3> HIDE DEF a, l
    <3>1. QED
      BY <1>3
  <2>2. QED
    BY <1>7, <1>8, <2>1
<1>10. Page(unit) \in Nat /\ Page(unit) * PageUnits = unit
  <2> HIDE DEF a, l, unit
  <2>1. QED
    BY <1>6, <1>9
<1>11. QED
  BY <1>10

\* Each visit of the loop is of another page.
LEMMA VisitsCounted ==
  ASSUME TypeOK, Regular, NEW r \in Available
  PROVE  IsFiniteSet(PagesOf(r)) /\ Cardinality(PagesOf(r)) = Cardinality(Steps(r))
<1> DEFINE f == [j \in Steps(r) |-> Page(r.addr + j)]
<1>1. r.addr \in Nat /\ r.len \in Nat \ {0}
  BY RegionsAvailable DEF Region
<1>2. IsFiniteSet(Steps(r))
  <2>1. IsFiniteSet(0 .. r.len - 1)
    BY <1>1, FS_Interval
  <2>2. Steps(r) \subseteq 0 .. r.len - 1
    BY DEF Steps
  <2>3. QED
    BY <2>1, <2>2, FS_Subset
<1>3. f \in Surjection(Steps(r), PagesOf(r))
  BY DEF Surjection, PagesOf
<1>4. ASSUME NEW i \in Steps(r), NEW j \in Steps(r), f[i] = f[j] PROVE i = j
  <2>1. f[i] * PageUnits = r.addr + i /\ f[j] * PageUnits = r.addr + j
    BY StepStartsPage
  <2>2. r.addr + i = r.addr + j
    BY <1>4, <2>1
  <2>3. i \in Nat /\ j \in Nat
    BY <1>1 DEF Steps
  <2>4. QED
    BY <1>1, <2>2, <2>3
<1>5. f \in Injection(Steps(r), PagesOf(r))
  <2>1. f \in [Steps(r) -> PagesOf(r)]
    BY DEF PagesOf
  <2>2. \A i, j \in Steps(r) : f[i] = f[j] => i = j
    <3> HIDE DEF f
    <3>1. QED
      BY <1>4
  <2> HIDE DEF f
  <2>3. QED
    BY <2>1, <2>2 DEF Injection, IsInjective
<1>6. QED
  <2> HIDE DEF f
  <2>1. QED
    BY <1>2, <1>3, <1>5, FS_Surjection

\* Regions that do not overlap share no page.
LEMMA RegionsShareNoPage ==
  ASSUME TypeOK, Regular, Plain, NEW i \in DOMAIN map, NEW k \in DOMAIN map,
         i # k, map[i].available, map[k].available, NEW page \in PagesOf(map[i])
  PROVE  page \notin PagesOf(map[k])
<1> SUFFICES ASSUME page \in PagesOf(map[k]) PROVE FALSE
  OBVIOUS
<1> DEFINE r == map[i]
           s == map[k]
<1>1. r \in Available /\ s \in Available /\ r \in Region /\ s \in Region
  BY RegionsAvailable
<1>2. r.addr + r.len <= s.addr \/ s.addr + s.len <= r.addr
  BY DEF Plain
<1> HIDE DEF r, s
<1>3. /\ r.addr \in Nat /\ r.len \in Nat /\ s.addr \in Nat /\ s.len \in Nat
  BY <1>1 DEF Region
<1>4. PICK j \in Steps(r) : page = Page(r.addr + j)
  BY DEF PagesOf, r
<1>5. PICK l \in Steps(s) : page = Page(s.addr + l)
  BY DEF PagesOf, s
<1>6. r.addr + j = s.addr + l
  BY <1>1, <1>4, <1>5, StepStartsPage
<1>7. j \in 0 .. r.len - 1 /\ l \in 0 .. s.len - 1
  BY DEF Steps
<1>8. QED
  BY <1>2, <1>3, <1>6, <1>7

\* A page with a usable unit is visited.
LEMMA UsableVisited ==
  ASSUME TypeOK, Regular, NEW page \in Nat, NEW unit \in Units(page), Usable(unit)
  PROVE  \E i \in DOMAIN map : map[i].available /\ page \in PagesOf(map[i])
<1>1. PICK r \in Available : unit \in r.addr .. r.addr + r.len - 1
  BY DEF Usable
<1>2. PICK i \in DOMAIN map : map[i] = r /\ map[i].available
  BY <1>1 DEF Available
<1>3. /\ r.addr \in Nat /\ r.len \in Nat \ {0} /\ r.addr + r.len < AddrUnits
      /\ r.addr % PageUnits = 0
  BY <1>1, RegionsAvailable DEF Region, Regular, Below4GB
<1> DEFINE start == page * PageUnits
           a == r.addr \div PageUnits
           j == start - r.addr
<1>4. start \in Nat /\ unit \in start .. (page + 1) * PageUnits - 1
  BY Sizes, MultipleMonotone DEF Units
<1>5. a \in Nat /\ r.addr = a * PageUnits /\ a * PageUnits \in Nat
  <2>1. a \in Nat /\ r.addr = a * PageUnits + (r.addr % PageUnits)
    BY <1>3, Sizes, DivisionWithRest
  <2>2. a * PageUnits \in Nat
    BY <2>1, Sizes, MultipleMonotone
  <2> HIDE DEF a
  <2>3. QED
    BY <1>3, <2>1, <2>2
<1>6. r.addr <= start
  <2> HIDE DEF start, a
  <2>1. (page + 1) * PageUnits \in Nat
    BY Sizes, MultipleMonotone
  <2>2. ASSUME page + 1 <= a PROVE FALSE
    <3>1. (page + 1) * PageUnits <= a * PageUnits
      BY <1>5, <2>2, Sizes, MultipleMonotone
    <3>2. QED
      BY <1>1, <1>3, <1>4, <1>5, <2>1, <3>1
  <2>3. a <= page
    BY <1>5, <2>2
  <2>4. a * PageUnits <= page * PageUnits
    BY <1>5, <2>3, Sizes, MultipleMonotone
  <2>5. QED
    BY <1>5, <2>4 DEF start
<1>7. j \in 0 .. r.len - 1
  <2> HIDE DEF start
  <2>1. QED
    BY <1>1, <1>3, <1>4, <1>6
<1>8. j % PageUnits = 0
  <2>1. page - a \in Nat /\ j = (page - a) * PageUnits
    <3>1. ASSUME page < a PROVE FALSE
      <4>1. page + 1 <= a
        BY <1>5, <3>1
      <4>2. (page + 1) * PageUnits <= a * PageUnits
        BY <1>5, <4>1, Sizes, MultipleMonotone
      <4>3. (page + 1) * PageUnits = page * PageUnits + PageUnits
        BY Sizes
      <4> HIDE DEF a
      <4>4. QED
        BY <1>4, <1>5, <1>6, <4>2, <4>3, Sizes
    <3>2. (page - a) * PageUnits = page * PageUnits - a * PageUnits
      <4> HIDE DEF a
      <4>1. QED
        BY <1>5, Sizes
    <3> HIDE DEF a
    <3>3. QED
      BY <1>5, <3>1, <3>2
  <2>2. ((page - a) * PageUnits + 0) % PageUnits = 0
    <3>1. 0 \in 0 .. PageUnits - 1
      BY Sizes
    <3> HIDE DEF a
    <3>2. QED
      BY <2>1, <3>1, Sizes, QuotientIs
  <2> HIDE DEF a, j
  <2>3. (page - a) * PageUnits + 0 = j
    BY <2>1, <1>7
  <2>4. QED
    BY <2>2, <2>3
<1>9. j \in Steps(r) /\ r.addr + j = start
  <2>1. j \in Steps(r)
    BY <1>7, <1>8 DEF Steps
  <2>2. r.addr + j = start
    <3> HIDE DEF start
    <3>1. QED
      BY <1>3, <1>4
  <2>3. QED
    BY <2>1, <2>2
<1>10. Page(r.addr + j) = page
  <2>1. start < AddrUnits
    <3> HIDE DEF start
    <3>1. QED
      BY <1>1, <1>3, <1>4, Sizes
  <2>2. Page(start) = start \div PageUnits
    <3> HIDE DEF start
    <3>1. QED
      BY <1>4, <2>1, PageOfUnit
  <2>3. (page * PageUnits + 0) \div PageUnits = page
    <3>1. 0 \in 0 .. PageUnits - 1
      BY Sizes
    <3>2. QED
      BY <3>1, Sizes, QuotientIs
  <2>4. page * PageUnits + 0 = start
    BY <1>4
  <2>5. QED
    BY <1>9, <2>2, <2>3, <2>4
<1>11. page \in PagesOf(r)
  <2> HIDE DEF j, start
  <2>1. QED
    BY <1>9, <1>10 DEF PagesOf
<1>12. QED
  BY <1>2, <1>11

\* What each step does to the bitmap and to the count.
LEMMA CountBuild ==
  ASSUME Bitmap, Visited, BuildDataStructs PROVE (Visited /\ Counting)'
<1>1. /\ pc = "data_structs" /\ pc' = "build_map" /\ map' = map /\ region' = region
      /\ alloc_pages' = num_bits'
  BY DEF BuildDataStructs
<1>2. FreePages' = {} /\ num_bits' \in Nat
  <2>1. Bitmap'
    BY BitmapBuild
  <2>2. QED
    BY <2>1, BitmapBuild, Sizes DEF Bitmap, TypeOK
<1>3. region = 1
  BY <1>1 DEF Visited
<1>4. 0 .. num_bits' - 1 \subseteq used'
  BY <1>2 DEF FreePages
<1>5. \A i \in DOMAIN map : ~ (i < 1)
  <2>1. map \in Seq(Region)
    BY PhysMemAssumption DEF Bitmap, TypeOK
  <2>2. QED
    BY <2>1
<1>6. Visited'
  BY <1>1, <1>3, <1>4, <1>5 DEF Visited
<1>7. Cardinality(FreePages') = 0
  BY <1>2, FS_EmptySet
<1>8. Counting'
  <2>1. num_bits' - alloc_pages' = Cardinality(FreePages')
    BY <1>1, <1>2, <1>7
  <2>2. QED
    BY <2>1 DEF Counting, FreePages
<1>9. QED
  BY <1>6, <1>8

LEMMA CountBuildMap ==
  ASSUME Bitmap, Visited, Counting, BuildMap PROVE (Visited /\ Counting)'
<1>1. /\ pc = "build_map" /\ pc' \in {"build_map", "mark_kernel"}
      /\ map' = map /\ num_bits' = num_bits /\ handed' = handed
  BY DEF BuildMap
<1>2. TypeOK /\ handed = <<>> /\ num_bits \in Nat /\ alloc_pages \in Int
  BY <1>1, Sizes DEF Bitmap, NoneHanded, TypeOK
<1>3. region \in Nat /\ \A i \in DOMAIN map : i \in Nat
  <2>1. map \in Seq(Region)
    BY <1>2, PhysMemAssumption DEF TypeOK
  <2>2. QED
    BY <1>2, <2>1 DEF TypeOK
<1>4. \A page \in 0 .. num_bits - 1 :
        page \notin used <=> \E i \in DOMAIN map :
                               i < region /\ map[i].available /\ page \in PagesOf(map[i])
  BY <1>1 DEF Visited
<1>5. CASE region \in DOMAIN map /\ region' = region + 1 /\ pc' = pc
           /\ map[region].available /\ Clear(map[region])
  <2> DEFINE r == map[region]
  <2>1. r \in Available /\ PagesOf(r) \subseteq Nat
    BY <1>2, <1>5, RegionsAvailable, PagesAreNumbers
  <2>2. /\ used' = used \ {num \in PagesOf(r) : InRange(num)}
        /\ alloc_pages' = alloc_pages - Cardinality(Steps(r))
    BY <1>5 DEF Clear
  <2>3. \A page \in 0 .. num_bits - 1 : page \notin used' <=> page \notin used \/ page \in PagesOf(r)
    <3>1. \A page \in 0 .. num_bits - 1 : InRange(page)
      BY <1>2 DEF InRange
    <3> HIDE DEF r
    <3>2. QED
      BY <2>2, <3>1
  <2>4. \A i \in DOMAIN map : i < region' <=> i < region \/ i = region
    BY <1>3, <1>5
  <2>5. Visited'
    <3>1. \A page \in 0 .. num_bits - 1 :
            page \notin used' <=> \E i \in DOMAIN map :
                                    i < region' /\ map[i].available /\ page \in PagesOf(map[i])
      BY <1>4, <1>5, <2>3, <2>4
    <3>2. \A i : PagesOf(map[i])' = PagesOf(map'[i])
      BY DEF PagesOf, Page, Steps
    <3>3. QED
      BY <1>1, <1>5, <3>1, <3>2 DEF Visited
  <2>6. ASSUME Regular, Plain PROVE num_bits' - alloc_pages' = Cardinality(FreePages')
    <3>1. num_bits - alloc_pages = Cardinality(FreePages)
      BY <1>1, <1>2, <2>6 DEF Counting, Memory
    <3>2. PagesOf(r) \subseteq 0 .. num_bits - 1
      BY <1>1, <1>2, <2>1, <2>6, RegularPages
    <3>3. FreePages' = FreePages \cup PagesOf(r)
      BY <1>1, <2>3, <3>2 DEF FreePages
    <3>4. FreePages \cap PagesOf(r) = {}
      <4> SUFFICES ASSUME NEW page \in FreePages, page \in PagesOf(r) PROVE FALSE
        OBVIOUS
      <4>1. PICK i \in DOMAIN map : i < region /\ map[i].available /\ page \in PagesOf(map[i])
        BY <1>4 DEF FreePages
      <4>2. i # region
        BY <1>3, <4>1
      <4>3. QED
        BY <1>2, <1>5, <2>6, <4>1, <4>2, RegionsShareNoPage
    <3>5. IsFiniteSet(FreePages)
      <4>1. IsFiniteSet(0 .. num_bits - 1)
        BY <1>2, FS_Interval
      <4>2. QED
        BY <4>1, FS_Subset DEF FreePages
    <3>6. IsFiniteSet(PagesOf(r)) /\ Cardinality(PagesOf(r)) = Cardinality(Steps(r))
      BY <1>2, <2>1, <2>6, VisitsCounted
    <3>7. /\ Cardinality(FreePages \cup PagesOf(r))
              = Cardinality(FreePages) + Cardinality(PagesOf(r)) - Cardinality(FreePages \cap PagesOf(r))
          /\ Cardinality(FreePages) \in Nat /\ Cardinality(PagesOf(r)) \in Nat
      BY <3>5, <3>6, FS_Union, FS_CardinalityType
    <3>8. Cardinality(FreePages \cap PagesOf(r)) = 0
      BY <3>4, FS_EmptySet
    <3> HIDE DEF r
    <3>9. QED
      BY <1>1, <1>2, <2>2, <3>1, <3>3, <3>6, <3>7, <3>8
  <2>7. Counting'
    BY <1>1, <2>6 DEF Counting, Regular, Plain, Below4GB, Available, Page, KernelPages, Low, Usable, Units
  <2>8. QED
    BY <2>5, <2>7
<1>6. CASE used' = used /\ alloc_pages' = alloc_pages
           /\ \/ region \in DOMAIN map /\ ~ map[region].available /\ region' = region + 1 /\ pc' = pc
              \/ region \notin DOMAIN map /\ region' = region
  <2>1. \A i \in DOMAIN map : map[i].available => (i < region' <=> i < region)
    <3>1. CASE region' = region
      BY <3>1
    <3>2. CASE ~ map[region].available /\ region' = region + 1
      <4>1. ASSUME NEW i \in DOMAIN map, map[i].available PROVE i < region' <=> i < region
        <5>1. i # region
          BY <3>2, <4>1
        <5>2. QED
          BY <1>3, <3>2, <5>1
      <4>2. QED
        BY <4>1
    <3>3. QED
      BY <1>6, <3>1, <3>2
  <2>2. Visited'
    <3>1. \A i : PagesOf(map[i])' = PagesOf(map'[i])
      BY DEF PagesOf, Page, Steps
    <3>2. pc' = "mark_kernel" => region' \notin DOMAIN map'
      BY <1>1, <1>6
    <3>3. \A page \in 0 .. num_bits - 1 :
            page \notin used' <=> \E i \in DOMAIN map :
                                    i < region' /\ map[i].available /\ page \in PagesOf(map[i])
      BY <1>4, <1>6, <2>1
    <3>4. QED
      BY <1>1, <3>1, <3>2, <3>3 DEF Visited
  <2>3. Counting'
    BY <1>1, <1>6 DEF Counting, Regular, Plain, Below4GB, Available, Page, KernelPages, Low,
                      Usable, Units, FreePages, Memory
  <2>4. QED
    BY <2>2, <2>3
<1>7. QED
  BY <1>1, <1>5, <1>6 DEF BuildMap

\* The pages that memory_init takes back are free when it does, and counted once.
LEMMA TakenOnce == TypeOK => Low \cap KernelPages = {}
<1> SUFFICES ASSUME TypeOK, NEW page \in Low, page \in KernelPages PROVE FALSE
  OBVIOUS
<1>1. PICK addr \in KernelStart .. KernelEnd : page = Page(addr)
  BY DEF KernelPages
<1>2. addr \in Nat /\ addr < AddrUnits /\ KernelStart <= addr
  BY Sizes
<1>3. page = addr \div PageUnits
  BY <1>1, <1>2, PageOfUnit
<1>4. page \in Nat /\ page + 1 <= LowPages
  BY Sizes DEF Low
<1>5. addr < (page + 1) * PageUnits
  BY <1>2, <1>3, Sizes, Quotient
<1>6. /\ (page + 1) * PageUnits \in Nat
      /\ (page + 1) * PageUnits <= LowPages * PageUnits
      /\ LowPages * PageUnits \in Nat
  BY <1>4, Sizes, MultipleMonotone
<1>7. LowPages * PageUnits <= KernelStart
  BY PhysMemAssumption
<1>8. KernelStart \in Nat
  BY Sizes
<1>9. QED
  BY <1>2, <1>5, <1>6, <1>7, <1>8

LEMMA CountMarkKernel ==
  ASSUME Bitmap, Visited, Counting, MarkKernel PROVE (Visited /\ Counting)'
<1>1. /\ pc = "mark_kernel" /\ pc' = "ready" /\ map' = map /\ num_bits' = num_bits
      /\ handed' = handed
      /\ used' = used \cup {num \in Low \cup KernelPages : InRange(num)}
      /\ alloc_pages' = alloc_pages + Cardinality(Low) + Cardinality(KernelPages)
  BY DEF MarkKernel
<1>2. TypeOK /\ handed = <<>> /\ num_bits \in Nat /\ alloc_pages \in Int
  BY <1>1, Sizes DEF Bitmap, NoneHanded, TypeOK
<1>3. \A i \in DOMAIN map : i < region
  <2>1. map \in Seq(Region) /\ region \in 1 .. Len(map) + 1 /\ region \notin DOMAIN map
    BY <1>1, <1>2, PhysMemAssumption DEF TypeOK, Visited
  <2>2. QED
    BY <2>1
<1>4. Visited'
  BY <1>1 DEF Visited
<1>5. ASSUME Regular, Plain PROVE num_bits' - alloc_pages' = Cardinality(FreePages')
  <2> DEFINE taken == Low \cup KernelPages
  <2>1. num_bits - alloc_pages = Cardinality(FreePages)
    BY <1>1, <1>2, <1>5 DEF Counting, Memory
  <2>2. \A page \in taken : page \in Nat /\ page < num_bits
    BY <1>1, <1>2, <1>5, RegularPages, PagesAreNumbers
  <2>3. taken \subseteq FreePages
    <3> SUFFICES ASSUME NEW page \in taken PROVE page \in FreePages
      OBVIOUS
    <3>1. page \in 0 .. num_bits - 1 /\ page \in Nat
      BY <1>2, <2>2
    <3>2. PICK unit \in Units(page) : Usable(unit)
      BY <1>5 DEF Plain
    <3>3. \E i \in DOMAIN map : map[i].available /\ page \in PagesOf(map[i])
      BY <1>2, <1>5, <3>1, <3>2, UsableVisited
    <3>4. page \notin used
      BY <1>1, <1>3, <3>1, <3>3 DEF Visited
    <3>5. QED
      BY <3>1, <3>4 DEF FreePages
  <2>4. FreePages' = FreePages \ taken
    <3>1. \A page \in taken : InRange(page)
      BY <1>2, <2>2 DEF InRange
    <3>2. used' = used \cup taken
      BY <1>1, <3>1
    <3> HIDE DEF taken
    <3>3. QED
      BY <1>1, <3>2 DEF FreePages
  <2>5. IsFiniteSet(FreePages)
    <3>1. IsFiniteSet(0 .. num_bits - 1)
      BY <1>2, FS_Interval
    <3>2. QED
      BY <3>1, FS_Subset DEF FreePages
  <2>6. IsFiniteSet(Low) /\ IsFiniteSet(KernelPages)
    BY <2>3, <2>5, FS_Subset
  <2>7. /\ Cardinality(taken) = Cardinality(Low) + Cardinality(KernelPages)
                                  - Cardinality(Low \cap KernelPages)
        /\ Cardinality(Low) \in Nat /\ Cardinality(KernelPages) \in Nat
    BY <2>6, FS_Union, FS_CardinalityType
  <2>8. Cardinality(Low \cap KernelPages) = 0
    BY <1>2, TakenOnce, FS_EmptySet
  <2> HIDE DEF taken
  <2>9. /\ Cardinality(FreePages \ taken)
             = Cardinality(FreePages) - Cardinality(FreePages \cap taken)
        /\ FreePages \cap taken = taken /\ Cardinality(FreePages) \in Nat
    BY <2>3, <2>5, FS_Difference, FS_CardinalityType
  <2>10. Cardinality(FreePages')
           = Cardinality(FreePages) - (Cardinality(Low) + Cardinality(KernelPages))
    <3>1. Cardinality(taken) = Cardinality(Low) + Cardinality(KernelPages)
      BY <2>7, <2>8
    <3>2. Cardinality(FreePages') = Cardinality(FreePages) - Cardinality(taken)
      BY <2>4, <2>9
    <3>3. QED
      BY <3>1, <3>2
  <2>11. alloc_pages' = alloc_pages + Cardinality(Low) + Cardinality(KernelPages)
         /\ num_bits' = num_bits
    BY <1>1
  <2>12. QED
    BY <1>2, <2>1, <2>7, <2>9, <2>10, <2>11
<1>6. Counting'
  BY <1>1, <1>5 DEF Counting, Regular, Plain, Below4GB, Available, Page, KernelPages, Low,
                    Usable, Units
<1>7. QED
  BY <1>4, <1>6

LEMMA CountAllocPage ==
  ASSUME Bitmap, Visited, Counting, AllocPage PROVE (Visited /\ Counting)'
<1>1. /\ pc = "ready" /\ pc' = pc /\ map' = map /\ num_bits' = num_bits
      /\ handed' = Append(handed, FirstClear)
      /\ used' = IF InRange(FirstClear) THEN used \cup {FirstClear} ELSE used
      /\ alloc_pages' = alloc_pages + 1
  BY DEF AllocPage
<1>2. /\ num_bits \in Nat /\ alloc_pages \in Int
      /\ handed \in Seq(0 .. AfterBit(WordBits - 1))
  BY Sizes DEF Bitmap, TypeOK
<1>3. Visited'
  BY <1>1 DEF Visited
<1> DEFINE n == Len(handed)
<1>4. /\ n \in Nat /\ DOMAIN handed = 1 .. n /\ DOMAIN handed' = 1 .. n + 1
      /\ \A i \in 1 .. n : handed'[i] = handed[i]
      /\ handed'[n + 1] = FirstClear
  BY <1>1, <1>2
<1> HIDE DEF n
<1>5. ASSUME Regular, Plain, Memory' = DOMAIN handed'
      PROVE  num_bits' - alloc_pages' = Cardinality(FreePages')
  <2>1. Memory = DOMAIN handed /\ FirstClear < num_bits
    <3>1. \A i \in 1 .. n + 1 : handed'[i] < num_bits
      BY <1>1, <1>4, <1>5 DEF Memory
    <3>2. \A i \in 1 .. n : i \in 1 .. n + 1
      BY <1>4
    <3>3. n + 1 \in 1 .. n + 1
      BY <1>4
    <3>4. QED
      BY <1>4, <3>1, <3>2, <3>3 DEF Memory
  <2>2. num_bits - alloc_pages = Cardinality(FreePages)
    BY <1>1, <1>5, <2>1 DEF Counting
  <2>3. FirstClear \in FreePages
    BY <1>1, <1>2, <2>1, FoundIsClear DEF FreePages
  <2>4. InRange(FirstClear)
    BY <1>1, <1>2, <2>1, FoundIsClear DEF InRange
  <2>5. FreePages' = FreePages \ {FirstClear}
    BY <1>1, <2>4 DEF FreePages
  <2>6. IsFiniteSet(FreePages)
    <3>1. IsFiniteSet(0 .. num_bits - 1)
      BY <1>2, FS_Interval
    <3>2. QED
      BY <3>1, FS_Subset DEF FreePages
  <2>7. Cardinality(FreePages \ {FirstClear}) = Cardinality(FreePages) - 1
    BY <2>3, <2>6, FS_RemoveElement
  <2>8. Cardinality(FreePages) \in Nat
    BY <2>6, FS_CardinalityType
  <2>9. QED
    BY <1>1, <1>2, <2>2, <2>5, <2>7, <2>8
<1>6. Counting'
  BY <1>1, <1>5 DEF Counting, Regular, Plain, Below4GB, Available, Page, KernelPages, Low,
                    Usable, Units
<1>7. QED
  BY <1>3, <1>6

CountInv == Visited /\ Counting

LEMMA CountInvNext == Bitmap /\ CountInv /\ [Next]_vars => CountInv'
<1> SUFFICES ASSUME Bitmap, CountInv, [Next]_vars PROVE CountInv'
  OBVIOUS
<1>1. CASE UNCHANGED vars
  BY <1>1 DEF vars, CountInv, Visited, Counting, Regular, Plain, Below4GB, Available, Page,
              KernelPages, Low, Usable, Units, FreePages, Memory, PagesOf, Steps
<1>2. QED
  BY <1>1, CountBuild, CountBuildMap, CountMarkKernel, CountAllocPage DEF Next, CountInv

-----------------------------------------------------------------------------
(* Virtual addresses.                                                      *)

\* The two indices of a page are entries, and tell it from every other page.
LEMMA VirtualParts ==
  ASSUME NEW v \in PageNumber
  PROVE  /\ page_directory_for_virtual(v) \in Index
         /\ page_table_for_virtual(v) \in Index
         /\ v = page_directory_for_virtual(v) * Entries + page_table_for_virtual(v)
<1> DEFINE q == v \div Entries
           r == v % Entries
<1>1. Entries \in Nat \ {0}
  BY PagingAssumption
<1>2. v \in Nat /\ v < Entries * Entries
  BY <1>1 DEF PageNumber
<1>3. q \in Nat /\ r \in 0 .. Entries - 1 /\ v = q * Entries + r
  BY <1>1, <1>2, DivisionWithRest
<1>4. q < Entries
  <2> HIDE DEF q, r
  <2>1. ASSUME Entries <= q PROVE FALSE
    <3>1. Entries * Entries <= q * Entries
      BY <1>1, <1>3, <2>1, MultipleMonotone
    <3>2. q * Entries \in Nat /\ Entries * Entries \in Nat
      BY <1>1, <1>3, MultipleMonotone
    <3>3. QED
      BY <1>2, <1>3, <3>1, <3>2
  <2>2. QED
    BY <1>1, <1>3, <2>1
<1>5. q % Entries = q
  <2> HIDE DEF q
  <2>1. QED
    BY <1>1, <1>3, <1>4, RemainderOfLess
<1>6. page_directory_for_virtual(v) = q /\ page_table_for_virtual(v) = r
  BY <1>5 DEF page_directory_for_virtual, page_table_for_virtual
<1>7. QED
  <2> HIDE DEF q, r
  <2>1. QED
    BY <1>1, <1>3, <1>4, <1>6 DEF Index

-----------------------------------------------------------------------------
(* page_map.                                                               *)

DirsTyped == DOMAIN dir \subseteq Dirs /\ \A d \in DOMAIN dir : dir[d] \in DOMAIN memory
MemoryTyped == DOMAIN memory \subseteq PageNumber /\ \A t \in DOMAIN memory : memory[t] \in [Index -> Entry]

\* What page_map does to the tables: the entry of the directory names table t,
\* that of the table is set, and all else that was there is there.
Sets(d, v, p, t) ==
  LET idx == page_directory_for_virtual(v)
      j == page_table_for_virtual(v)
      old == memory[dir[d]] IN
  /\ t \in PageNumber
  /\ DOMAIN memory' = DOMAIN memory \cup {t}
  /\ \A u \in DOMAIN memory' : memory'[u] \in [Index -> Entry]
  /\ memory'[t][j] = [present |-> TRUE, page_addr |-> p]
  /\ t # dir[d] => /\ memory'[dir[d]] = [old EXCEPT ![idx] = [present |-> TRUE, page_addr |-> t]]
                   /\ t \in DOMAIN memory => \A l \in Index : l # j => memory'[t][l] = memory[t][l]
  /\ \A u \in DOMAIN memory : u # t /\ u # dir[d] => memory'[u] = memory[u]

LEMMA PageMapSets ==
  ASSUME DirsTyped, MemoryTyped, NEW d \in DOMAIN dir, NEW v \in PageNumber, NEW p \in PageNumber,
         PageMap(d, v, p)
  PROVE  \E t \in PageNumber :
           /\ Sets(d, v, p, t)
           /\ IF Present(d, page_directory_for_virtual(v))
              THEN t = TableAt(d, page_directory_for_virtual(v)) /\ UNCHANGED vars
              ELSE NewPage(t)
<1> DEFINE idx == page_directory_for_virtual(v)
           j == page_table_for_virtual(v)
<1>1. PICK t \in PageNumber, stale \in Garbage :
        /\ IF Present(d, idx) THEN t = TableAt(d, idx) /\ UNCHANGED vars ELSE NewPage(t)
        /\ memory' = SetEntry(SetEntry(Holding(memory, t, stale), dir[d], idx, t), t, j, p)
  BY DEF PageMap, Present, TableAt
<1>2. stale \in [Index -> Entry] /\ idx \in Index /\ j \in Index
  BY VirtualParts, PagingAssumption
<1> DEFINE held == Holding(memory, t, stale)
           named == SetEntry(held, dir[d], idx, t)
<1>3. /\ DOMAIN held = DOMAIN memory \cup {t}
      /\ \A u \in DOMAIN memory : held[u] = memory[u]
      /\ \A u \in DOMAIN held : held[u] \in [Index -> Entry]
  BY <1>2 DEF Holding, With, MemoryTyped
<1>4. dir[d] \in DOMAIN memory /\ memory[dir[d]] \in [Index -> Entry]
  BY DEF DirsTyped, MemoryTyped
<1> DEFINE naming == [present |-> TRUE, page_addr |-> t]
           entry == [present |-> TRUE, page_addr |-> p]
<1>5. naming \in Entry /\ entry \in Entry
  BY DEF Entry
<1>6. named = [held EXCEPT ![dir[d]] = [held[dir[d]] EXCEPT ![idx] = naming]]
  BY DEF SetEntry
<1>7. memory' = [named EXCEPT ![t] = [named[t] EXCEPT ![j] = entry]]
  BY <1>1 DEF SetEntry
<1> HIDE DEF idx, j, held, named, naming, entry
<1>8. /\ DOMAIN named = DOMAIN memory \cup {t}
      /\ named[dir[d]] = [memory[dir[d]] EXCEPT ![idx] = naming]
      /\ \A u \in DOMAIN memory : u # dir[d] => named[u] = memory[u]
      /\ \A u \in DOMAIN named : named[u] \in [Index -> Entry]
  <2>1. DOMAIN named = DOMAIN held /\ dir[d] \in DOMAIN held /\ held[dir[d]] = memory[dir[d]]
    BY <1>3, <1>4, <1>6
  <2>2. named[dir[d]] = [memory[dir[d]] EXCEPT ![idx] = naming]
    BY <1>6, <2>1
  <2>3. [memory[dir[d]] EXCEPT ![idx] = naming] \in [Index -> Entry]
    BY <1>4, <1>5
  <2>4. \A u \in DOMAIN held : u # dir[d] => named[u] = held[u]
    BY <1>6
  <2>5. QED
    BY <1>3, <2>1, <2>2, <2>3, <2>4
<1>9. /\ DOMAIN memory' = DOMAIN named /\ t \in DOMAIN named
      /\ memory'[t] = [named[t] EXCEPT ![j] = entry]
      /\ \A u \in DOMAIN named : u # t => memory'[u] = named[u]
  BY <1>7, <1>8
<1>10. named[t] \in [Index -> Entry] /\ [named[t] EXCEPT ![j] = entry] \in [Index -> Entry]
  BY <1>5, <1>8, <1>9
<1>11. memory'[t][j] = entry /\ \A l \in Index : l # j => memory'[t][l] = named[t][l]
  BY <1>2, <1>9, <1>10
<1>12. \A u \in DOMAIN memory' : memory'[u] \in [Index -> Entry]
  BY <1>8, <1>9, <1>10
<1>13. t # dir[d] => /\ memory'[dir[d]] = [memory[dir[d]] EXCEPT ![idx] = naming]
                     /\ t \in DOMAIN memory => \A l \in Index : l # j => memory'[t][l] = memory[t][l]
  BY <1>4, <1>8, <1>9, <1>11
<1>14. \A u \in DOMAIN memory : u # t /\ u # dir[d] => memory'[u] = memory[u]
  BY <1>8, <1>9
<1>15. Sets(d, v, p, t)
  BY <1>8, <1>9, <1>11, <1>12, <1>13, <1>14 DEF Sets, idx, j, naming, entry
<1>16. QED
  BY <1>1, <1>15 DEF idx

\* The page NewPage finds for a directory or a table: in memory it is no page in
\* use; otherwise it is past the end, if addresses do not wrap there.
LEMMA NewPageFree ==
  ASSUME Bitmap, pc = "ready", AfterBit(WordBits - 1) < AddrUnits \div PageUnits,
         NEW t, NewPage(t)
  PROVE  /\ t \in Nat /\ num_bits \in Nat
         /\ t < num_bits => t \notin used /\ t \in used'
<1>1. FirstClear \in 0 .. AfterBit(WordBits - 1) /\ FirstClear \in Nat /\ FirstClear \notin used
  BY FoundIsClear
<1>2. num_bits \in Nat /\ AddrUnits \div PageUnits \in Nat
  BY Sizes DEF Bitmap, TypeOK
<1> DEFINE limit == AddrUnits \div PageUnits
           end == AfterBit(WordBits - 1)
<1>3. t = FirstClear % limit /\ AllocPage
  BY DEF NewPage
<1>4. end \in Int
  <2>1. PICK w \in Nat : \A b : AfterBit(b) = w + b
    BY <1>2, BitmapShape
  <2>2. QED
    BY <2>1, Sizes
<1>5. FirstClear < limit /\ limit \in Nat /\ limit # 0
  <2> HIDE DEF limit, end
  <2>1. FirstClear \in 0 .. end /\ end < limit /\ limit \in Nat
    BY <1>1, <1>2 DEF limit, end
  <2>2. QED
    BY <1>4, <2>1
<1> HIDE DEF limit, end
<1>6. t = FirstClear
  BY <1>1, <1>3, <1>5, RemainderOfLess
<1>7. used' = IF InRange(FirstClear) THEN used \cup {FirstClear} ELSE used
  BY <1>3 DEF AllocPage
<1>8. QED
  BY <1>1, <1>2, <1>6, <1>7 DEF InRange

\* What page_map's table may be: no directory, and in memory the table of no
\* other entry.
LEMMA TableIsOwn ==
  ASSUME Bitmap, DirsTyped, MemoryTyped, pc = "ready", DirectoriesFit, Kept, num_bits \in Nat,
         NEW d \in DOMAIN dir, NEW idx \in Index, NEW t,
         IF Present(d, idx) THEN t = TableAt(d, idx) /\ UNCHANGED vars ELSE NewPage(t)
  PROVE  /\ \A e \in DOMAIN dir : dir[e] # t
         /\ t < num_bits => /\ t \in used'
                            /\ \A e \in DOMAIN dir, i \in Index :
                                 Present(e, i) /\ TableAt(e, i) = t => e = d /\ i = idx
<1>1. CASE Present(d, idx)
  <2>1. t = TableAt(d, idx) /\ used' = used
    BY <1>1 DEF vars
  <2>2. t \in DOMAIN memory /\ \A e \in DOMAIN dir : dir[e] # t
    BY <1>1, <2>1 DEF Kept, TablesHeld
  <2>3. t < num_bits => t \in used'
    BY <2>1, <2>2 DEF Kept, TablesUsed
  <2>4. QED
    BY <1>1, <2>1, <2>2, <2>3 DEF Kept, OneUser
<1>2. CASE ~Present(d, idx)
  <2>1. NewPage(t)
    BY <1>2
  <2>2. t \in Nat /\ (t < num_bits => t \notin used /\ t \in used')
    BY <2>1, NewPageFree DEF DirectoriesFit
  <2>3. t < num_bits => t \notin DOMAIN memory
    BY <2>2 DEF Kept, TablesUsed
  <2>4. \A e \in DOMAIN dir : dir[e] \in DOMAIN memory /\ dir[e] < num_bits
    BY DEF DirsTyped, DirectoriesFit
  <2>5. QED
    BY <2>2, <2>3, <2>4 DEF Kept, TablesHeld
<1>3. QED
  BY <1>1, <1>2

\* After page_map, one directory entry names its table, and all others name what
\* they named.
LEMMA SetsEntries ==
  ASSUME DirsTyped, MemoryTyped, DirsApart, NEW d \in DOMAIN dir, NEW v \in PageNumber,
         NEW p \in PageNumber, NEW t, Sets(d, v, p, t), \A e \in DOMAIN dir : dir[e] # t,
         NEW e \in DOMAIN dir, NEW i \in Index
  PROVE  memory'[dir[e]][i] = IF e = d /\ i = page_directory_for_virtual(v)
                              THEN [present |-> TRUE, page_addr |-> t] ELSE memory[dir[e]][i]
<1> DEFINE idx == page_directory_for_virtual(v)
           naming == [present |-> TRUE, page_addr |-> t]
<1>1. idx \in Index /\ dir[e] \in DOMAIN memory /\ dir[e] # t
      /\ memory[dir[d]] \in [Index -> Entry]
  BY VirtualParts DEF DirsTyped, MemoryTyped
<1>2. /\ memory'[dir[d]] = [memory[dir[d]] EXCEPT ![idx] = naming]
      /\ \A u \in DOMAIN memory : u # t /\ u # dir[d] => memory'[u] = memory[u]
  BY DEF Sets
<1> HIDE DEF idx, naming
<1>3. CASE e = d
  BY <1>1, <1>2, <1>3 DEF idx, naming
<1>4. CASE e # d
  <2>1. dir[e] # dir[d]
    BY <1>4 DEF DirsApart
  <2>2. QED
    BY <1>1, <1>2, <1>4, <2>1
<1>5. QED
  BY <1>3, <1>4

\* page_map, by whoever calls it, keeps mappings.
LEMMA SetsKeeps ==
  ASSUME DirsTyped, MemoryTyped, DirectoriesFit, Kept, num_bits \in Nat,
         NEW d \in DOMAIN dir, NEW v \in PageNumber, NEW p \in PageNumber,
         NEW t \in PageNumber, Sets(d, v, p, t),
         \A e \in DOMAIN dir : dir[e] # t,
         t < num_bits => /\ t \in used'
                         /\ \A e \in DOMAIN dir, i \in Index :
                              Present(e, i) /\ TableAt(e, i) = t
                                => e = d /\ i = page_directory_for_virtual(v),
         Present(d, page_directory_for_virtual(v)) => t = TableAt(d, page_directory_for_virtual(v)),
         used \subseteq used', num_bits' = num_bits, dir' = dir,
         mapped' = With(mapped, <<d, v>>, p)
  PROVE  Kept'
<1> DEFINE idx == page_directory_for_virtual(v)
           j == page_table_for_virtual(v)
           entry == [present |-> TRUE, page_addr |-> p]
<1>1. idx \in Index /\ j \in Index /\ v = idx * Entries + j
  BY VirtualParts
<1>2. /\ DOMAIN memory' = DOMAIN memory \cup {t}
      /\ memory'[t][j] = entry
      /\ t \in DOMAIN memory => \A l \in Index : l # j => memory'[t][l] = memory[t][l]
      /\ \A u \in DOMAIN memory : u # t /\ u # dir[d] => memory'[u] = memory[u]
  BY DEF Sets
<1>3. DirsApart /\ TablesUsed /\ TablesHeld /\ OneUser /\ EntriesKept
  BY DEF Kept
<1>4. ASSUME NEW e \in DOMAIN dir, NEW i \in Index
      PROVE  memory'[dir[e]][i] = IF e = d /\ i = idx
                                  THEN [present |-> TRUE, page_addr |-> t] ELSE memory[dir[e]][i]
  BY <1>3, SetsEntries
<1>5. ASSUME NEW e \in DOMAIN dir, NEW i \in Index
      PROVE  \/ e = d /\ i = idx /\ Present(e, i)' /\ TableAt(e, i)' = t
             \/ /\ ~ (e = d /\ i = idx)
                /\ (Present(e, i)' <=> Present(e, i)) /\ TableAt(e, i)' = TableAt(e, i)
  BY <1>4 DEF Present, TableAt
<1> HIDE DEF idx, j, entry
<1>6. TablesUsed'
  BY <1>2, <1>3 DEF TablesUsed
<1>7. DirsApart'
  BY <1>3 DEF DirsApart
<1>8. TablesHeld'
  <2> SUFFICES ASSUME NEW e \in DOMAIN dir, NEW i \in Index, Present(e, i)'
               PROVE  /\ TableAt(e, i)' \in DOMAIN memory'
                      /\ \A f \in DOMAIN dir : dir[f] # TableAt(e, i)'
    BY DEF TablesHeld
  <2>1. CASE e = d /\ i = idx
    BY <1>2, <1>5, <2>1
  <2>2. CASE ~ (e = d /\ i = idx)
    <3>1. Present(e, i) /\ TableAt(e, i)' = TableAt(e, i)
      BY <1>5, <2>2
    <3>2. QED
      BY <1>2, <1>3, <3>1 DEF TablesHeld
  <2>3. QED
    BY <2>1, <2>2
<1>9. OneUser'
  <2> SUFFICES ASSUME NEW e \in DOMAIN dir, NEW f \in DOMAIN dir, NEW i \in Index, NEW k \in Index,
                      Present(e, i)', Present(f, k)', TableAt(e, i)' = TableAt(f, k)',
                      TableAt(e, i)' < num_bits
               PROVE  e = f /\ i = k
    BY DEF OneUser
  <2>1. ASSUME NEW g \in DOMAIN dir, NEW l \in Index, Present(g, l)', TableAt(g, l)' = t,
               t < num_bits
        PROVE  g = d /\ l = idx
    BY <1>5, <2>1 DEF idx
  <2>2. CASE TableAt(e, i)' = t
    BY <2>1, <2>2
  <2>3. CASE TableAt(e, i)' # t
    <3>1. Present(e, i) /\ TableAt(e, i)' = TableAt(e, i)
      BY <1>5, <2>3
    <3>2. Present(f, k) /\ TableAt(f, k)' = TableAt(f, k)
      BY <1>5, <2>3
    <3>3. TableAt(e, i) = TableAt(f, k) /\ TableAt(e, i) < num_bits
      BY <3>1, <3>2
    <3>4. QED
      BY <1>3, <3>1, <3>2, <3>3 DEF OneUser
  <2>4. QED
    BY <2>2, <2>3
<1>10. /\ DOMAIN mapped' = DOMAIN mapped \cup {<<d, v>>} /\ mapped'[<<d, v>>] = p
       /\ \A m \in DOMAIN mapped : m # <<d, v>> => mapped'[m] = mapped[m]
  BY DEF With
<1>11. EntryKept(<<d, v>>)'
  <2>1. Present(d, idx)' /\ TableAt(d, idx)' = t
    BY <1>1, <1>5
  <2>2. QED
    BY <1>2, <1>10, <2>1 DEF EntryKept, idx, j, entry
<1>12. ASSUME NEW m \in DOMAIN mapped, m # <<d, v>> PROVE EntryKept(m)'
  <2> DEFINE e == m[1]
             w == m[2]
             i == page_directory_for_virtual(w)
             l == page_table_for_virtual(w)
             u == TableAt(e, i)
  <2>1. /\ e \in DOMAIN dir /\ w \in PageNumber /\ m = <<e, w>> /\ Present(e, i)
        /\ u < num_bits => memory[u][l] = [present |-> TRUE, page_addr |-> mapped[m]]
    BY <1>3 DEF EntriesKept, EntryKept
  <2>2. i \in Index /\ l \in Index /\ w = i * Entries + l
    BY <2>1, VirtualParts
  <2>3. u \in DOMAIN memory /\ \A f \in DOMAIN dir : dir[f] # u
    BY <1>3, <2>1, <2>2 DEF TablesHeld
  <2>4. mapped'[m] = mapped[m]
    BY <1>10, <1>12
  <2>5. Present(e, i)' /\ TableAt(e, i)' = u
    <3>1. CASE e = d /\ i = idx
      BY <1>5, <2>1, <2>2, <3>1 DEF idx
    <3>2. CASE ~ (e = d /\ i = idx)
      BY <1>5, <2>1, <2>2, <3>2
    <3>3. QED
      BY <3>1, <3>2
  <2>6. ASSUME u < num_bits PROVE memory'[u][l] = memory[u][l]
    <3>1. CASE u = t
      <4>1. e = d /\ i = idx
        BY <2>1, <2>2, <2>6, <3>1 DEF idx
      <4>2. l # j
        <5> HIDE DEF e, w, i, l, u
        <5>1. m = <<e, w>> /\ w = i * Entries + l
          BY <2>1, <2>2
        <5>2. QED
          BY <1>1, <1>12, <4>1, <5>1
      <4>3. QED
        BY <1>2, <2>2, <2>3, <3>1, <4>2
    <3>2. CASE u # t
      BY <1>2, <2>3, <3>2
    <3>3. QED
      BY <3>1, <3>2
  <2> HIDE DEF u
  <2>7. QED
    BY <2>1, <2>4, <2>5, <2>6 DEF EntryKept
<1>13. EntriesKept'
  BY <1>10, <1>11, <1>12 DEF EntriesKept
<1>14. QED
  BY <1>6, <1>7, <1>8, <1>9, <1>13 DEF Kept

-----------------------------------------------------------------------------
(* The invariant of the whole, and what it gives.                          *)

LEMMA PagingInvInit == PInit => PagingInv
<1> SUFFICES ASSUME PInit PROVE PagingInv
  OBVIOUS
<1>1. /\ Init /\ next = 0 /\ dir = <<>> /\ memory = <<>> /\ mapped = <<>> /\ maps = 0
  BY DEF PInit
<1>2. AllocInv
  BY <1>1, AllocInvInit
<1>3. TypeOK /\ num_bits = 0
  BY <1>1, <1>2 DEF AllocInv, Bitmap, Init
<1>4. DOMAIN dir = {} /\ DOMAIN memory = {} /\ DOMAIN mapped = {}
  BY <1>1
<1>5. Unstarted
  BY <1>1 DEF Unstarted
<1>6. Kept /\ DirsTyped /\ MemoryTyped
  BY <1>4 DEF Kept, TablesUsed, DirsApart, TablesHeld, OneUser, EntriesKept, DirsTyped, MemoryTyped
<1>7. next \in 0 .. num_bits /\ maps \in 0 .. MaxMaps
  BY <1>1, <1>3, PagingAssumption
<1>8. KernelMapped
  BY <1>1 DEF KernelMapped
<1>9. PTypeOK
  BY <1>3, <1>6, <1>7 DEF PTypeOK, DirsTyped, MemoryTyped
<1>10. QED
  BY <1>2, <1>5, <1>6, <1>8, <1>9 DEF PagingInv, Tables

\* page_map, by whoever calls it.
LEMMA PageMapKeeps ==
  ASSUME PagingInv, pc = "ready",
         NEW d \in DOMAIN dir, NEW v \in PageNumber, NEW p \in PageNumber, PageMap(d, v, p)
  PROVE  /\ [Next]_vars /\ pc' = "ready" /\ num_bits' = num_bits
         /\ (DirsTyped /\ MemoryTyped)' /\ (DirectoriesFit => Kept)'
         /\ mapped' = With(mapped, <<d, v>>, p)
<1> DEFINE idx == page_directory_for_virtual(v)
<1>1. Bitmap /\ DirsTyped /\ MemoryTyped /\ (DirectoriesFit => Kept)
  BY DEF PagingInv, AllocInv, Tables, PTypeOK, DirsTyped, MemoryTyped
<1>2. PICK t \in PageNumber :
        /\ Sets(d, v, p, t)
        /\ IF Present(d, idx) THEN t = TableAt(d, idx) /\ UNCHANGED vars ELSE NewPage(t)
  BY <1>1, PageMapSets
<1>3. mapped' = With(mapped, <<d, v>>, p) /\ dir' = dir
  BY DEF PageMap
<1>4. UNCHANGED vars \/ AllocPage
  BY <1>2 DEF NewPage
<1>5. used \subseteq used' /\ pc' = "ready" /\ num_bits' = num_bits /\ [Next]_vars
  BY <1>4 DEF AllocPage, vars, Next
<1>6. DirsTyped' /\ MemoryTyped'
  BY <1>1, <1>2, <1>3 DEF Sets, DirsTyped, MemoryTyped
<1>7. ASSUME DirectoriesFit' PROVE Kept'
  <2>1. DirectoriesFit
    BY <1>3, <1>5, <1>7 DEF DirectoriesFit, AfterBit, num_words
  <2>2. num_bits \in Nat /\ idx \in Index
    BY <1>1, Sizes, VirtualParts DEF Bitmap, TypeOK
  <2>3. /\ \A e \in DOMAIN dir : dir[e] # t
        /\ t < num_bits => /\ t \in used'
                           /\ \A e \in DOMAIN dir, i \in Index :
                                Present(e, i) /\ TableAt(e, i) = t => e = d /\ i = idx
    BY <1>1, <1>2, <2>1, <2>2, TableIsOwn
  <2>4. Present(d, idx) => t = TableAt(d, idx)
    BY <1>2
  <2>5. QED
    BY <1>1, <1>2, <1>3, <1>5, <2>1, <2>2, <2>3, <2>4, SetsKeeps
<1>8. QED
  BY <1>3, <1>5, <1>6, <1>7

LEMMA PageNumbers ==
  ASSUME TypeOK
  PROVE  /\ num_bits \in Nat /\ 0 .. num_bits - 1 \subseteq PageNumber
         /\ Virtuals \subseteq PageNumber /\ Frames \subseteq PageNumber
<1>1. num_bits \in 0 .. AddrUnits \div PageUnits
  BY DEF TypeOK
<1>2. Entries \in Nat /\ AddrUnits \div PageUnits <= Entries * Entries
  BY PagingAssumption
<1>3. Entries * Entries \in Nat
  BY <1>2, MultipleMonotone
<1> DEFINE all == Entries * Entries
           limit == AddrUnits \div PageUnits
<1>4. num_bits \in Nat /\ 0 .. num_bits - 1 \subseteq 0 .. all - 1
  <2>1. limit \in Nat
    BY Sizes
  <2> HIDE DEF all, limit
  <2>2. all \in Nat /\ num_bits \in 0 .. limit /\ limit <= all
    BY <1>1, <1>2, <1>3 DEF all, limit
  <2>3. QED
    BY <2>1, <2>2
<1>5. QED
  BY <1>4, PagingAssumption DEF PageNumber

LEMMA SetUpKeeps == PagingInv /\ SetUp => PagingInv'
<1> SUFFICES ASSUME PagingInv, SetUp PROVE PagingInv'
  OBVIOUS
<1>1. /\ Kernel \in DOMAIN dir /\ next < num_bits /\ next' = next + 1 /\ maps' = maps
      /\ PageMap(Kernel, next, next)
  BY DEF SetUp
<1>2. TypeOK /\ next \in 0 .. num_bits /\ maps \in 0 .. MaxMaps
  BY DEF PagingInv, Tables, PTypeOK
<1>3. pc = "ready"
  BY <1>1 DEF PagingInv, Tables, Unstarted
<1>4. next \in PageNumber /\ next \in Nat /\ num_bits \in Nat
  BY <1>1, <1>2, PageNumbers
<1>5. /\ [Next]_vars /\ pc' = "ready" /\ num_bits' = num_bits
      /\ (DirsTyped /\ MemoryTyped)' /\ (DirectoriesFit => Kept)'
      /\ mapped' = With(mapped, <<Kernel, next>>, next)
  BY <1>1, <1>3, <1>4, PageMapKeeps
<1>6. AllocInv'
  BY <1>5, AllocInvNext DEF PagingInv
<1>7. next' \in 0 .. num_bits' /\ maps' \in 0 .. MaxMaps
  BY <1>1, <1>2, <1>4, <1>5
<1>8. PTypeOK'
  BY <1>5, <1>6, <1>7 DEF PTypeOK, DirsTyped, MemoryTyped, AllocInv, Bitmap
<1>9. KernelMapped'
  <2> SUFFICES ASSUME maps = 0, NEW v \in 0 .. next
               PROVE  <<Kernel, v>> \in DOMAIN mapped' /\ mapped'[<<Kernel, v>>] = v
    BY <1>1, <1>4 DEF KernelMapped
  <2>1. /\ DOMAIN mapped' = DOMAIN mapped \cup {<<Kernel, next>>}
        /\ mapped'[<<Kernel, next>>] = next
        /\ \A m \in DOMAIN mapped : m # <<Kernel, next>> => mapped'[m] = mapped[m]
    BY <1>5 DEF With
  <2>2. CASE v = next
    BY <2>1, <2>2
  <2>3. CASE v \in 0 .. next - 1
    <3>1. <<Kernel, v>> \in DOMAIN mapped /\ mapped[<<Kernel, v>>] = v
      BY <2>3 DEF PagingInv, KernelMapped
    <3>2. <<Kernel, v>> # <<Kernel, next>>
      BY <1>4, <2>3
    <3>3. QED
      BY <2>1, <3>1, <3>2
  <2>4. QED
    BY <1>4, <2>2, <2>3
<1>10. Unstarted'
  BY <1>5 DEF Unstarted
<1>11. QED
  BY <1>5, <1>6, <1>8, <1>9, <1>10 DEF PagingInv, Tables

LEMMA MapKeeps ==
  ASSUME PagingInv, NEW d \in Dirs, NEW v \in Virtuals, NEW p \in Frames, Map(d, v, p)
  PROVE  PagingInv'
<1>1. /\ d \in DOMAIN dir /\ maps < MaxMaps /\ maps' = maps + 1 /\ next' = next
      /\ PageMap(d, v, p)
  BY DEF Map
<1>2. TypeOK /\ next \in 0 .. num_bits /\ maps \in 0 .. MaxMaps
  BY DEF PagingInv, Tables, PTypeOK
<1>3. pc = "ready"
  BY <1>1 DEF PagingInv, Tables, Unstarted
<1>4. v \in PageNumber /\ p \in PageNumber
  BY <1>2, PageNumbers
<1>5. /\ [Next]_vars /\ pc' = "ready" /\ num_bits' = num_bits
      /\ (DirsTyped /\ MemoryTyped)' /\ (DirectoriesFit => Kept)'
  BY <1>1, <1>3, <1>4, PageMapKeeps
<1>6. AllocInv'
  BY <1>5, AllocInvNext DEF PagingInv
<1>7. next' \in 0 .. num_bits' /\ maps' \in 0 .. MaxMaps /\ maps' # 0
  BY <1>1, <1>2, <1>5, PagingAssumption
<1>8. PTypeOK'
  BY <1>5, <1>6, <1>7 DEF PTypeOK, DirsTyped, MemoryTyped, AllocInv, Bitmap
<1>9. KernelMapped' /\ Unstarted'
  BY <1>5, <1>7 DEF KernelMapped, Unstarted
<1>10. QED
  BY <1>5, <1>6, <1>8, <1>9 DEF PagingInv, Tables

LEMMA NewDirectoryKeeps ==
  ASSUME PagingInv, NEW d \in Dirs, NewDirectory(d)
  PROVE  PagingInv'
<1>1. PICK page \in PageNumber :
        NewPage(page) /\ dir' = With(dir, d, page) /\ memory' = With(memory, page, Zeros)
  BY DEF NewDirectory
<1>2. /\ pc = "ready" /\ d \notin DOMAIN dir /\ AllocPage
      /\ next' = next /\ mapped' = mapped /\ maps' = maps
  BY <1>1 DEF NewDirectory, NewPage
<1>3. pc' = "ready" /\ num_bits' = num_bits /\ used \subseteq used' /\ Next
  BY <1>2 DEF AllocPage, Next
<1>4. AllocInv'
  BY <1>3, AllocInvNext DEF PagingInv
<1>5. /\ DOMAIN dir' = DOMAIN dir \cup {d} /\ dir'[d] = page
      /\ \A e \in DOMAIN dir : dir'[e] = dir[e]
      /\ DOMAIN memory' = DOMAIN memory \cup {page} /\ memory'[page] = Zeros
      /\ \A u \in DOMAIN memory : u # page => memory'[u] = memory[u]
  BY <1>1, <1>2 DEF With
<1>6. Bitmap /\ DirsTyped /\ MemoryTyped /\ (DirectoriesFit => Kept)
  BY DEF PagingInv, AllocInv, Tables, PTypeOK, DirsTyped, MemoryTyped
<1>7. Zeros \in [Index -> Entry] /\ \A i \in Index : ~ Zeros[i].present
  <2>1. Entries \in Nat \ {0} /\ Entries * Entries \in Nat \ {0}
    BY PagingAssumption, MultipleMonotone
  <2>2. 0 \in PageNumber
    BY <2>1 DEF PageNumber
  <2>3. QED
    BY <2>2 DEF Zeros, Entry
<1>8. DirsTyped' /\ MemoryTyped'
  BY <1>5, <1>6, <1>7 DEF DirsTyped, MemoryTyped
<1>9. ASSUME DirectoriesFit' PROVE Kept'
  <2>1. DirectoriesFit /\ page < num_bits
    BY <1>3, <1>5, <1>9 DEF DirectoriesFit, AfterBit, num_words
  <2>2. page \in Nat /\ num_bits \in Nat /\ page \notin used /\ page \in used'
    BY <1>1, <1>2, <1>6, <2>1, NewPageFree DEF DirectoriesFit
  <2>3. TablesUsed /\ DirsApart /\ TablesHeld /\ OneUser /\ EntriesKept
    BY <1>6, <2>1 DEF Kept
  <2>4. page \notin DOMAIN memory
    BY <2>1, <2>2, <2>3 DEF TablesUsed
  <2>5. \A u \in DOMAIN memory : memory'[u] = memory[u]
    BY <1>5, <2>4
  <2>6. \A e \in DOMAIN dir : dir[e] \in DOMAIN memory /\ dir[e] # page
    BY <1>6, <2>4 DEF DirsTyped
  <2>7. ASSUME NEW e \in DOMAIN dir', NEW i \in Index
        PROVE  \/ e = d /\ ~ Present(e, i)'
               \/ /\ e \in DOMAIN dir
                  /\ (Present(e, i)' <=> Present(e, i)) /\ TableAt(e, i)' = TableAt(e, i)
    BY <1>5, <1>7, <2>5, <2>6 DEF Present, TableAt
  <2>8. TablesUsed'
    BY <1>3, <1>5, <2>2, <2>3 DEF TablesUsed
  <2>9. DirsApart'
    BY <1>2, <1>5, <2>3, <2>6 DEF DirsApart
  <2>10. TablesHeld'
    <3> SUFFICES ASSUME NEW e \in DOMAIN dir', NEW i \in Index, Present(e, i)'
                 PROVE  /\ TableAt(e, i)' \in DOMAIN memory'
                        /\ \A f \in DOMAIN dir' : dir'[f] # TableAt(e, i)'
      BY DEF TablesHeld
    <3>1. e \in DOMAIN dir /\ Present(e, i) /\ TableAt(e, i)' = TableAt(e, i)
      BY <2>7
    <3>2. TableAt(e, i) \in DOMAIN memory /\ \A f \in DOMAIN dir : dir[f] # TableAt(e, i)
      BY <2>3, <3>1 DEF TablesHeld
    <3>3. QED
      BY <1>5, <2>4, <3>1, <3>2
  <2>11. OneUser'
    <3> SUFFICES ASSUME NEW e \in DOMAIN dir', NEW f \in DOMAIN dir', NEW i \in Index, NEW k \in Index,
                        Present(e, i)', Present(f, k)', TableAt(e, i)' = TableAt(f, k)',
                        TableAt(e, i)' < num_bits
                 PROVE  e = f /\ i = k
      BY <1>3 DEF OneUser
    <3>1. /\ e \in DOMAIN dir /\ Present(e, i) /\ TableAt(e, i)' = TableAt(e, i)
          /\ f \in DOMAIN dir /\ Present(f, k) /\ TableAt(f, k)' = TableAt(f, k)
      BY <2>7
    <3>2. TableAt(e, i) = TableAt(f, k) /\ TableAt(e, i) < num_bits
      BY <3>1
    <3>3. QED
      BY <2>3, <3>1, <3>2 DEF OneUser
  <2>12. EntriesKept'
    <3>1. ASSUME NEW m \in DOMAIN mapped PROVE EntryKept(m)'
      <4> DEFINE e == m[1]
                 i == page_directory_for_virtual(m[2])
                 l == page_table_for_virtual(m[2])
                 u == TableAt(e, i)
      <4>1. /\ e \in DOMAIN dir /\ m[2] \in PageNumber /\ m = <<m[1], m[2]>> /\ Present(e, i)
            /\ u < num_bits => memory[u][l] = [present |-> TRUE, page_addr |-> mapped[m]]
        BY <2>3 DEF EntriesKept, EntryKept
      <4>2. i \in Index
        BY <4>1, VirtualParts
      <4>3. u \in DOMAIN memory
        BY <2>3, <4>1, <4>2 DEF TablesHeld
      <4>4. e \in DOMAIN dir' /\ e # d
        BY <1>2, <1>5, <4>1
      <4>5. Present(e, i)' /\ TableAt(e, i)' = u
        BY <2>7, <4>1, <4>2, <4>4
      <4>6. memory'[u] = memory[u]
        BY <2>5, <4>3
      <4> HIDE DEF u
      <4>7. QED
        BY <1>2, <1>3, <4>1, <4>4, <4>5, <4>6 DEF EntryKept
    <3>2. QED
      BY <1>2, <3>1 DEF EntriesKept
  <2>13. QED
    BY <2>8, <2>9, <2>10, <2>11, <2>12 DEF Kept
<1>10. PTypeOK'
  BY <1>2, <1>3, <1>4, <1>8 DEF PTypeOK, DirsTyped, MemoryTyped, AllocInv, Bitmap, PagingInv, Tables
<1>11. KernelMapped' /\ Unstarted'
  BY <1>2, <1>3 DEF KernelMapped, Unstarted, PagingInv
<1>12. QED
  BY <1>4, <1>9, <1>10, <1>11 DEF PagingInv, Tables

\* memory_init, and pages given to others.
LEMMA AllocatorKeeps ==
  ASSUME PagingInv, [Next]_vars, UNCHANGED tables
  PROVE  PagingInv'
<1>1. AllocInv'
  BY AllocInvNext DEF PagingInv
<1>2. /\ next' = next /\ dir' = dir /\ memory' = memory /\ mapped' = mapped /\ maps' = maps
  BY DEF tables
<1>3. DirsTyped /\ MemoryTyped /\ KernelMapped /\ next \in 0 .. num_bits /\ maps \in 0 .. MaxMaps
  BY DEF PagingInv, Tables, PTypeOK, DirsTyped, MemoryTyped
<1>4. TypeOK' /\ num_bits' \in Nat
  BY <1>1, Sizes DEF AllocInv, Bitmap, TypeOK
<1>5. (DirectoriesFit => Kept)' /\ Unstarted' /\ next' \in 0 .. num_bits'
  <2>1. CASE pc = "ready"
    <3>1. used \subseteq used' /\ num_bits' = num_bits /\ pc' = "ready"
      BY <2>1 DEF Next, BuildDataStructs, BuildMap, MarkKernel, AllocPage, vars
    <3>2. DirectoriesFit' => DirectoriesFit
      BY <1>2, <3>1 DEF DirectoriesFit, AfterBit, num_words
    <3>3. Kept => Kept'
      BY <1>2, <3>1 DEF Kept, TablesUsed, DirsApart, TablesHeld, OneUser, EntriesKept, EntryKept,
         Present, TableAt
    <3>4. QED
      BY <1>2, <1>3, <3>1, <3>2, <3>3 DEF PagingInv, Unstarted
  <2>2. CASE pc # "ready"
    <3>1. dir = <<>> /\ memory = <<>> /\ mapped = <<>> /\ next = 0
      BY <2>2 DEF PagingInv, Tables, Unstarted
    <3>2. DOMAIN dir' = {} /\ DOMAIN memory' = {} /\ DOMAIN mapped' = {}
      BY <1>2, <3>1
    <3>3. Kept'
      BY <3>2 DEF Kept, TablesUsed, DirsApart, TablesHeld, OneUser, EntriesKept
    <3>4. QED
      BY <1>2, <1>4, <3>1, <3>3 DEF Unstarted
  <2>3. QED
    BY <2>1, <2>2
<1>6. (DirsTyped /\ MemoryTyped /\ KernelMapped)'
  BY <1>2, <1>3 DEF DirsTyped, MemoryTyped, KernelMapped
<1>7. PTypeOK'
  BY <1>2, <1>3, <1>4, <1>5, <1>6 DEF PTypeOK, DirsTyped, MemoryTyped
<1>8. QED
  BY <1>1, <1>5, <1>6, <1>7 DEF PagingInv, Tables

\* The steps of the whole are steps of the allocator, or leave it alone.
LEMMA PagingInvNext == PagingInv /\ [PNext]_pvars => PagingInv' /\ [Next]_vars
<1> SUFFICES ASSUME PagingInv, [PNext]_pvars PROVE PagingInv' /\ [Next]_vars
  OBVIOUS
<1>1. CASE (BuildDataStructs \/ BuildMap \/ MarkKernel \/ AllocPage) /\ UNCHANGED tables
  <2>1. [Next]_vars /\ UNCHANGED tables
    BY <1>1 DEF Next
  <2>2. QED
    BY <2>1, AllocatorKeeps
<1>2. CASE UNCHANGED pvars
  <2>1. [Next]_vars /\ UNCHANGED tables
    BY <1>2 DEF pvars
  <2>2. QED
    BY <2>1, AllocatorKeeps
<1>3. ASSUME NEW d \in Dirs, NewDirectory(d) PROVE PagingInv' /\ [Next]_vars
  <2>1. [Next]_vars
    BY <1>3 DEF NewDirectory, NewPage, Next
  <2>2. QED
    BY <1>3, <2>1, NewDirectoryKeeps
<1>4. CASE SetUp
  <2>1. [Next]_vars
    BY <1>4 DEF SetUp, PageMap, NewPage, Next
  <2>2. QED
    BY <1>4, <2>1, SetUpKeeps
<1>5. ASSUME NEW d \in Dirs, NEW v \in Virtuals, NEW p \in Frames, Map(d, v, p)
      PROVE  PagingInv' /\ [Next]_vars
  <2>1. [Next]_vars
    BY <1>5 DEF Map, PageMap, NewPage, Next
  <2>2. QED
    BY <1>5, <2>1, MapKeeps
<1>6. QED
  BY <1>1, <1>2, <1>3, <1>4, <1>5 DEF PNext

LEMMA PagingInvTranslates == PagingInv => Translates /\ Identity
<1> SUFFICES ASSUME PagingInv PROVE Translates /\ Identity
  OBVIOUS
<1>1. ASSUME DirectoriesFit, NEW m \in DOMAIN mapped
      PROVE  TableLost(m[1], m[2]) \/ PhysicalForVirtual(m[1], m[2]) = mapped[m]
  <2> DEFINE idx == page_directory_for_virtual(m[2])
  <2>1. EntryKept(m) /\ TablesHeld
    BY <1>1 DEF PagingInv, Kept, EntriesKept
  <2>2. m[1] \in DOMAIN dir /\ m[2] \in PageNumber /\ Present(m[1], idx)
    BY <2>1 DEF EntryKept
  <2>3. TableAt(m[1], idx) \in DOMAIN memory
    BY <2>1, <2>2, VirtualParts DEF TablesHeld
  <2>4. TableAt(m[1], idx) \in Nat /\ num_bits \in Nat
    <3>1. Entries * Entries \in Nat
      BY PagingAssumption, MultipleMonotone
    <3>2. PageNumber \subseteq Nat
      BY <3>1 DEF PageNumber
    <3>3. DOMAIN memory \subseteq PageNumber /\ num_bits \in Nat
      BY PageNumbers DEF PagingInv, Tables, PTypeOK
    <3> HIDE DEF idx
    <3>4. QED
      BY <2>3, <3>2, <3>3
  <2>5. CASE TableAt(m[1], idx) < num_bits
    BY <2>1, <2>2, <2>5 DEF EntryKept, PhysicalForVirtual, Present, TableAt
  <2>6. CASE ~ (TableAt(m[1], idx) < num_bits)
    BY <2>2, <2>4, <2>6 DEF TableLost, Present, TableAt
  <2>7. QED
    BY <2>5, <2>6
<1>2. Translates
  BY <1>1 DEF Translates, PagingInv, Tables
<1>3. ASSUME SetUpDone, maps = 0, DirectoriesFit, NEW v \in 0 .. num_bits - 1
      PROVE  TableLost(Kernel, v) \/ PhysicalForVirtual(Kernel, v) = v
  <2>1. <<Kernel, v>> \in DOMAIN mapped /\ mapped[<<Kernel, v>>] = v
    BY <1>3 DEF SetUpDone, PagingInv, KernelMapped
  <2>2. \/ TableLost(<<Kernel, v>>[1], <<Kernel, v>>[2])
        \/ PhysicalForVirtual(<<Kernel, v>>[1], <<Kernel, v>>[2]) = mapped[<<Kernel, v>>]
    BY <1>1, <1>3, <2>1
  <2>3. QED
    BY <2>1, <2>2
<1>4. QED
  BY <1>2, <1>3 DEF Identity

-----------------------------------------------------------------------------
(* The theorems.                                                           *)

LEMMA PagingInvariant == PSpec => []PagingInv
<1>1. PInit => PagingInv
  BY PagingInvInit
<1>2. PagingInv /\ [PNext]_pvars => PagingInv'
  BY PagingInvNext
<1>3. QED
  BY <1>1, <1>2, PTL DEF PSpec

\* memory_find_and_alloc_page: a page of memory given away has one owner, is
\* outside the first 64 KB and the kernel, and, unless a region lies above
\* 4 GB, holds usable memory; pages taken for directories and tables included.
THEOREM PagesHaveOneOwner == PSpec => []PagesOwned
<1>1. PagingInv => PagesOwned
  BY AllocInvOwned DEF PagingInv
<1>2. QED
  BY <1>1, PagingInvariant, PTL

\* bitmap_first_clear: no page past the end of memory is given away while a page
\* of memory is free.
THEOREM MemoryUsedUpFirst == PSpec => []LostOnlyWhenFull
<1>1. PagingInv => LostOnlyWhenFull
  BY DEF PagingInv, AllocInv
<1>2. QED
  BY <1>1, PagingInvariant, PTL

\* bitmap_set and bitmap_clr, whose guards let the bit after the last one
\* through: the heap word after the bitmap is left alone while there are pages
\* to give, if the memory is regular.
THEOREM NextWordKept == PSpec => AfterKept
<1>1. PagingInv /\ [PNext]_pvars
        => [pc # "data_structs" /\ Regular /\ (pc = "ready" => FreePages # {})
              => After' = After]_vars
  <2> SUFFICES ASSUME PagingInv, [PNext]_pvars, pc # "data_structs", Regular,
                      pc = "ready" => FreePages # {}
               PROVE  After' = After
    OBVIOUS
  <2>1. Bitmap /\ [Next]_vars
    BY PagingInvNext DEF PagingInv, AllocInv
  <2>2. QED
    BY <2>1, AfterKeptStep
<1>2. QED
  BY <1>1, PagingInvariant, PTL DEF PSpec, AfterKept

\* memory_init and memory_find_and_alloc_page: the count of free pages is that
\* of the clear bits, as long as there is memory to give, if the memory map is of
\* whole pages below 4 GB, its regions do not overlap, and the low pages and the
\* kernel are in them.
THEOREM CountOfFreePages == PSpec => []CountExact
<1>1. PInit => CountInv
  <2> SUFFICES ASSUME PInit PROVE CountInv
    OBVIOUS
  <2>1. pc = "data_structs" /\ region = 1
    BY DEF PInit, Init
  <2>2. QED
    BY <2>1 DEF CountInv, Visited, Counting
<1>2. PagingInv /\ CountInv /\ [PNext]_pvars => CountInv'
  <2> SUFFICES ASSUME PagingInv, CountInv, [PNext]_pvars PROVE CountInv'
    OBVIOUS
  <2>1. Bitmap /\ [Next]_vars
    BY PagingInvNext DEF PagingInv, AllocInv
  <2>2. QED
    BY <2>1, CountInvNext
<1>3. CountInv => CountExact
  <2> SUFFICES ASSUME CountInv, pc = "ready", Regular, Plain, Memory = DOMAIN handed
               PROVE  num_bits - alloc_pages = Cardinality(FreePages)
    BY DEF CountExact
  <2>1. pc # "data_structs"
    OBVIOUS
  <2>2. QED
    BY <2>1 DEF CountInv, Counting
<1>4. QED
  BY <1>1, <1>2, <1>3, PagingInvariant, PTL DEF PSpec

\* page_map and page_physical_for_virtual: a mapping is found again until the
\* same page is mapped again in the same directory, unless memory ran out before
\* its table or a directory was made.
THEOREM MappingsAreFound == PSpec => []Translates
<1>1. PagingInv => Translates
  BY PagingInvTranslates
<1>2. QED
  BY <1>1, PagingInvariant, PTL

\* page_setup_kernel: the kernel's directory maps all of memory to itself, as far
\* as there was memory for its tables.
THEOREM KernelSeesMemory == PSpec => []Identity
<1>1. PagingInv => Identity
  BY PagingInvTranslates
<1>2. QED
  BY <1>1, PagingInvariant, PTL
=============================================================================
