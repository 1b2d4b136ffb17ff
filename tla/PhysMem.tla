------------------------------- MODULE PhysMem -------------------------------
(***************************************************************************)
(* The physical page allocator: memory_init of memory.c builds a bitmap of *)
(* the machine's pages (a set bit is a page in use) from the memory map    *)
(* GRUB hands over, and memory_find_and_alloc_page gives pages away.       *)
(*                                                                         *)
(* Addresses are counted in units, PageUnits to a page, so that regions    *)
(* need not start or end on a page boundary; 32-bit addresses wrap at      *)
(* AddrUnits.  The bitmap is a function on the bits of its words and of    *)
(* the heap word that follows them: bitmap_first_clear and the guards of   *)
(* bitmap_set and bitmap_clr reach that word.                              *)
(***************************************************************************)
EXTENDS Integers, Sequences, FiniteSets, FiniteSetsExt

CONSTANTS WordBits,      \* bits in a word of the bitmap (32)
          PageUnits,     \* address units in a page
          AddrUnits,     \* address units below 2^32
          LowPages,      \* pages reserved below 64 KB
          KernelStart, KernelEnd,  \* addresses of the linker's symbols
          Maps,          \* the memory maps GRUB may hand over
          Afters,        \* what the word after the bitmap may hold: sets of bits
          MaxHanded      \* bound: pages asked for

\* A memory map is a sequence of regions [addr, len, available].
Region == [addr : Nat, len : Nat \ {0}, available : BOOLEAN]

ASSUME PhysMemAssumption ==
  /\ {WordBits, PageUnits, AddrUnits, LowPages} \subseteq Nat \ {0}
  /\ AddrUnits % PageUnits = 0
  /\ KernelStart \in Nat /\ KernelStart % PageUnits = 0
  /\ KernelEnd \in KernelStart .. AddrUnits - 1
  /\ LowPages * PageUnits <= KernelStart
  /\ Maps \subseteq Seq(Region)
  /\ \A after \in Afters : after \subseteq 0 .. WordBits - 1
                           /\ ~ (1 .. WordBits - 1 \subseteq after)
  /\ MaxHanded \in Nat

VARIABLES pc,            \* how far memory_init is
          map,           \* the memory map
          region,        \* the entry of it that is read next
          num_bits,      \* bits in the bitmap: memory_total_pages
          used,          \* the bits that are set
          alloc_pages,   \* memory_alloc_pages
          handed         \* the pages given away, in order

vars == <<pc, map, region, num_bits, used, alloc_pages, handed>>

Page(addr) == (addr % AddrUnits) \div PageUnits
Available == {map[i] : i \in {j \in DOMAIN map : map[j].available}}

num_words(bits) == (bits + WordBits - 1) \div WordBits
MapBits == 0 .. num_words(num_bits) * WordBits - 1
AfterBit(bit) == num_words(num_bits) * WordBits + bit

\* bitmap_set, bitmap_clr: out-of-range numbers are ignored.  The last number
\* let through is num_bits itself, one past the last page.
InRange(num) == num <= num_bits

Init == /\ pc = "data_structs"
        /\ map \in Maps
        /\ region = 1
        /\ num_bits = 0
        /\ used = {}
        /\ alloc_pages = 0
        /\ handed = <<>>

\* multiboot_size_bytes: the highest end of an available region, cut to 32 bits.
SizeBytes == Max({0} \cup {(r.addr + r.len) % AddrUnits : r \in Available})

\* memory_build_data_structs: every bit of the bitmap's words is set, and the
\* word after them holds whatever the heap has there.
BuildDataStructs ==
  /\ pc = "data_structs"
  /\ num_bits' = SizeBytes \div PageUnits
  /\ alloc_pages' = num_bits'
  /\ \E after \in Afters : used' = MapBits' \cup {AfterBit(bit)' : bit \in after}
  /\ pc' = "build_map"
  /\ UNCHANGED <<map, region, handed>>

\* The pages the inner loop visits: that of every page-long step from the start.
Steps(r) == {j \in 0 .. r.len - 1 : j % PageUnits = 0}
PagesOf(r) == {Page(r.addr + j) : j \in Steps(r)}

\* Mutant: the loop runs to len inclusive, one page too far.
ClearInclusive(r) ==
  /\ used' = used \ {num \in PagesOf(r) \cup {Page(r.addr + r.len)} : InRange(num)}
  /\ alloc_pages' = alloc_pages - Cardinality(Steps(r))

\* The pages of an available region are cleared; each visit lowers the count,
\* whether or not the bit was there to clear.
Clear(r) ==
  /\ used' = used \ {num \in PagesOf(r) : InRange(num)}
  /\ alloc_pages' = alloc_pages - Cardinality(Steps(r))

\* memory_build_map_from_multiboot: one turn of its loop, and its end.
BuildMap ==
  /\ pc = "build_map"
  /\ \/ /\ region \in DOMAIN map
        /\ region' = region + 1
        /\ IF map[region].available THEN Clear(map[region])
                                    ELSE UNCHANGED <<used, alloc_pages>>
        /\ UNCHANGED pc
     \/ /\ region \notin DOMAIN map
        /\ pc' = "mark_kernel"
        /\ UNCHANGED <<region, used, alloc_pages>>
  /\ UNCHANGED <<map, num_bits, handed>>

\* memory_mark_kernel_as_used: each page counts as allocated once more,
\* whether or not it was free.
Low == 0 .. LowPages - 1
KernelPages == {Page(addr) : addr \in {a \in KernelStart .. KernelEnd : a % PageUnits = 0}}

\* Mutant: the kernel ends one page early.
MarkKernelShort ==
  /\ pc = "mark_kernel"
  /\ LET taken == Low \cup (KernelPages \ {Page(KernelEnd)})
     IN  /\ used' = used \cup {num \in taken : InRange(num)}
         /\ alloc_pages' = alloc_pages + Cardinality(taken)
  /\ pc' = "ready"
  /\ UNCHANGED <<map, region, num_bits, handed>>

MarkKernel ==
  /\ pc = "mark_kernel"
  /\ used' = used \cup {num \in Low \cup KernelPages : InRange(num)}
  /\ alloc_pages' = alloc_pages + Cardinality(Low) + Cardinality(KernelPages)
  /\ pc' = "ready"
  /\ UNCHANGED <<map, region, num_bits, handed>>

\* Mutant: the last word is left out of the walk.
FirstClearShort == Min((0 .. AfterBit(WordBits - 1)) \
                         (used \cup (AfterBit(-WordBits) .. AfterBit(-1))))

\* bitmap_first_clear walks the words with no bound: with the map full, the
\* page it finds is that of a clear bit in the word after the map.
FirstClear == Min((0 .. AfterBit(WordBits - 1)) \ used)

\* Mutant: the page found is not marked.
AllocPageForgets ==
  /\ pc = "ready" /\ Len(handed) < MaxHanded
  /\ handed' = Append(handed, FirstClear)
  /\ alloc_pages' = alloc_pages + 1
  /\ UNCHANGED <<pc, map, region, num_bits, used>>

\* memory_find_and_alloc_page: a page past the map is handed out like any
\* other, but its bit cannot be set.
AllocPage ==
  /\ pc = "ready" /\ Len(handed) < MaxHanded
  /\ handed' = Append(handed, FirstClear)
  /\ used' = IF InRange(FirstClear) THEN used \cup {FirstClear} ELSE used
  /\ alloc_pages' = alloc_pages + 1
  /\ UNCHANGED <<pc, map, region, num_bits>>

Next == BuildDataStructs \/ BuildMap \/ MarkKernel \/ AllocPage

Spec == Init /\ [][Next]_vars
-----------------------------------------------------------------------------
TypeOK == /\ pc \in {"data_structs", "build_map", "mark_kernel", "ready"}
          /\ map \in Maps /\ region \in 1 .. Len(map) + 1
          /\ num_bits \in 0 .. AddrUnits \div PageUnits
          /\ used \subseteq 0 .. AfterBit(WordBits - 1)
          /\ alloc_pages \in Int
          /\ handed \in Seq(0 .. AfterBit(WordBits - 1))

Units(page) == page * PageUnits .. (page + 1) * PageUnits - 1
Usable(unit) == \E r \in Available : unit \in r.addr .. r.addr + r.len - 1
FreePages == (0 .. num_bits - 1) \ used
Memory == {i \in DOMAIN handed : handed[i] < num_bits}

\* No region is cut when its addresses become 32 bits wide.
Below4GB == \A r \in Available : r.addr + r.len < AddrUnits

\* What an owner of a page relies on: it holds usable memory, unless a region
\* above 4 GB has freed pages at its wrapped addresses; it is outside the
\* first 64 KB (where the bitmap's own descriptor is, at address 0) and the
\* kernel's image and heap, and nobody else has it.
PagesOwned ==
  \A i \in Memory :
    /\ Below4GB => \E unit \in Units(handed[i]) : Usable(unit)
    /\ \A unit \in Units(handed[i]) : unit >= LowPages * PageUnits
                                      /\ unit \notin KernelStart .. KernelEnd - 1
    /\ \A j \in Memory : handed[i] = handed[j] => i = j

\* An address past the machine's memory is given out only once every page
\* that memory_init left free has been: no page is ever lost.
LostOnlyWhenFull ==
  (\E i \in DOMAIN handed : handed[i] > num_bits) => FreePages = {}

\* Regions of whole pages below 4 GB, and a memory that reaches past the
\* kernel and the low pages.
Regular == /\ Below4GB
           /\ \A r \in Available : r.addr % PageUnits = 0 /\ r.len % PageUnits = 0
           /\ LowPages <= num_bits /\ Page(KernelEnd) < num_bits

\* The available regions do not overlap, and hold the pages that memory_init
\* takes back.
Plain == /\ \A i, j \in DOMAIN map :
              map[i].available /\ map[j].available /\ i # j
                => map[i].addr + map[i].len <= map[j].addr \/ map[j].addr + map[j].len <= map[i].addr
         /\ \A page \in Low \cup KernelPages : \E unit \in Units(page) : Usable(unit)

\* The count of free pages memory_init prints is that of the clear bits, and
\* stays so while there is memory to give, if the memory is regular and plain.
CountExact ==
  pc = "ready" /\ Regular /\ Plain /\ Memory = DOMAIN handed
    => num_bits - alloc_pages = Cardinality(FreePages)

\* While there is memory to give, and if the memory is regular, the heap word
\* after the bitmap, which the guards of bitmap_set and bitmap_clr do not
\* exclude, is left alone.
After == {bit \in 0 .. WordBits - 1 : AfterBit(bit) \in used}
AfterKept ==
  [][pc # "data_structs" /\ Regular /\ (pc = "ready" => FreePages # {}) => After' = After]_vars
=============================================================================
