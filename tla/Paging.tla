-------------------------------- MODULE Paging --------------------------------
(***************************************************************************)
(* Page directories and page tables as memory.c builds them, on the pages  *)
(* that the allocator of PhysMem gives out: page_setup_kernel, page_map,   *)
(* and page_physical_for_virtual.  They are reached by their physical      *)
(* address: paging stays off (page_turn_on does nothing).                  *)
(*                                                                         *)
(* A virtual page number is a directory index and a table index of Entries *)
(* values each; page numbers stand for page-aligned addresses.  A page     *)
(* past the end of memory, which the allocator gives out again and again   *)
(* once it has no other, is a directory or a table like any other; it is   *)
(* taken to hold what is written there.                                    *)
(***************************************************************************)
EXTENDS PhysMem

CONSTANTS Entries,      \* entries of a directory and of a table (1024)
          Dirs, Kernel, \* the directories; the kernel's is one of them
          Garbage,      \* what a page may hold when it becomes a table
          Virtuals, Frames, \* bound: what page_map maps after the set-up
          MaxMaps       \* bound: calls of page_map after the set-up

Index == 0 .. Entries - 1
PageNumber == 0 .. Entries * Entries - 1
Entry == [present : BOOLEAN, page_addr : PageNumber]

ASSUME PagingAssumption ==
  /\ Entries \in Nat \ {0}
  /\ AddrUnits \div PageUnits <= Entries * Entries
  /\ Kernel \in Dirs
  /\ Garbage \subseteq [Index -> Entry] /\ Garbage # {}
  /\ Virtuals \subseteq PageNumber /\ Frames \subseteq PageNumber
  /\ MaxMaps \in Nat

VARIABLES next,     \* page_setup_kernel: the page it maps next
          dir,      \* dir[d]: the page of directory d, once made
          memory,   \* the pages used as directories and tables,
                    \* page -> [index -> entry]
          mapped,   \* for the properties: what page_map was last told,
                    \* <<directory, virtual page>> -> physical page
          maps      \* calls of page_map after the set-up

tables == <<next, dir, memory, mapped, maps>>
pvars == <<vars, tables>>

page_directory_for_virtual(v) == (v \div Entries) % Entries
page_table_for_virtual(v) == v % Entries

PInit == /\ Init
         /\ next = 0
         /\ dir = <<>>
         /\ memory = <<>>
         /\ mapped = <<>>
         /\ maps = 0
-----------------------------------------------------------------------------
With(f, x, v) == [y \in DOMAIN f \cup {x} |-> IF y = x THEN v ELSE f[y]]

\* memory_find_and_alloc_page, for a directory or a table.  The address of the
\* page is cut to 32 bits.
NewPage(page) == page = FirstClear % (AddrUnits \div PageUnits) /\ AllocPage

SetEntry(pages, page, index, addr) ==
  [pages EXCEPT ![page][index] = [present |-> TRUE, page_addr |-> addr]]

\* A page is used as a table, with whatever it held before.
Holding(pages, page, stale) ==
  IF page \in DOMAIN pages THEN pages ELSE With(pages, page, stale)

\* Mutant: the directory entry is marked present, and keeps the page it named.
PageMapStale(d, v, p) ==
  LET idx == page_directory_for_virtual(v)
      table == memory[dir[d]][idx].page_addr
  IN /\ mapped' = With(mapped, <<d, v>>, p)
     /\ \E stale \in Garbage :
          memory' = SetEntry(SetEntry(Holding(memory, table, stale), dir[d], idx, table),
                             table, page_table_for_virtual(v), p)
     /\ UNCHANGED <<vars, dir>>

\* page_map: the entry of the directory, with a new table if it has none, then
\* the entry of the table.
PageMap(d, v, p) ==
  LET idx == page_directory_for_virtual(v)
      entry == memory[dir[d]][idx]
  IN /\ mapped' = With(mapped, <<d, v>>, p)
     /\ \E table \in PageNumber, stale \in Garbage :
          /\ IF entry.present THEN table = entry.page_addr /\ UNCHANGED vars
                              ELSE NewPage(table)
          /\ memory' = SetEntry(SetEntry(Holding(memory, table, stale), dir[d], idx, table),
                                table, page_table_for_virtual(v), p)
     /\ UNCHANGED dir

\* page_setup_kernel: a page for the kernel's directory, cleared.  Whoever
\* makes another directory is taken to clear it too.
Zeros == [index \in Index |-> [present |-> FALSE, page_addr |-> 0]]
NewDirectory(d) ==
  /\ pc = "ready" /\ d \notin DOMAIN dir
  /\ DOMAIN dir = {} => d = Kernel
  /\ \E page \in PageNumber :
       /\ NewPage(page)
       /\ dir' = With(dir, d, page)
       /\ memory' = With(memory, page, Zeros)
  /\ UNCHANGED <<next, mapped, maps>>

\* Mutant: the last page is left out.
SetUpShort == /\ Kernel \in DOMAIN dir /\ next < num_bits
              /\ next' = IF next = num_bits - 2 THEN num_bits ELSE next + 1
              /\ PageMap(Kernel, next, next)
              /\ UNCHANGED maps

\* page_setup_kernel: one turn of its loop.
SetUp == /\ Kernel \in DOMAIN dir /\ next < num_bits
         /\ next' = next + 1
         /\ PageMap(Kernel, next, next)
         /\ UNCHANGED maps

\* page_init has not begun, or is done.
OutsideSetUp == DOMAIN dir = {} \/ next = num_bits
SetUpDone == Kernel \in DOMAIN dir /\ next = num_bits

\* After page_init, page_map for anyone.
Map(d, v, p) == /\ SetUpDone /\ d \in DOMAIN dir /\ maps < MaxMaps
                /\ maps' = maps + 1
                /\ PageMap(d, v, p)
                /\ UNCHANGED next

PNext == \/ /\ BuildDataStructs \/ BuildMap \/ MarkKernel
            /\ UNCHANGED tables
         \/ /\ OutsideSetUp
            /\ \/ AllocPage /\ UNCHANGED tables
               \/ \E d \in Dirs : NewDirectory(d)
         \/ SetUp
         \/ \E d \in Dirs, v \in Virtuals, p \in Frames : Map(d, v, p)

PSpec == PInit /\ [][PNext]_pvars
-----------------------------------------------------------------------------
\* page_physical_for_virtual: the page, or Panic.
Panic == Entries * Entries

PhysicalForVirtual(d, v) ==
  LET above == memory[dir[d]][page_directory_for_virtual(v)]
      entry == memory[above.page_addr][page_table_for_virtual(v)]
  IN IF above.present /\ entry.present THEN entry.page_addr ELSE Panic
-----------------------------------------------------------------------------
PTypeOK == /\ TypeOK
           /\ next \in 0 .. num_bits /\ maps \in 0 .. MaxMaps
           /\ DOMAIN dir \subseteq Dirs
           /\ \A d \in DOMAIN dir : dir[d] \in DOMAIN memory
           /\ DOMAIN memory \subseteq PageNumber
           /\ \A t \in DOMAIN memory : memory[t] \in [Index -> Entry]

\* All directories are in memory; and past its end, as far as the allocator
\* goes, addresses do not wrap.
DirectoriesFit == /\ \A d \in DOMAIN dir : dir[d] < num_bits
                  /\ AfterBit(WordBits - 1) < AddrUnits \div PageUnits

\* The table of a virtual page was put past the end of memory.
TableLost(d, v) == LET above == memory[dir[d]][page_directory_for_virtual(v)]
                   IN above.present /\ above.page_addr >= num_bits

\* A mapping made by page_map is what page_physical_for_virtual finds, until
\* the same address is mapped again in the same directory: tables made later,
\* on pages with old contents, maps in other directories and pages given to
\* others do not touch it.  Nor do the tables that end up sharing a page past
\* the end of memory: only what is mapped in those may be lost, as long as no
\* directory is there too.
Translates ==
  /\ PTypeOK
  /\ DirectoriesFit => \A m \in DOMAIN mapped : \/ TableLost(m[1], m[2])
                                               \/ PhysicalForVirtual(m[1], m[2]) = mapped[m]

\* Once set up, the kernel's directory maps every page of memory to itself, the
\* pages of its own tables included, as long as no one maps it elsewhere; all
\* but those whose tables did not fit in memory.
Identity ==
  (SetUpDone /\ maps = 0 /\ DirectoriesFit)
    => \A v \in 0 .. num_bits - 1 : \/ TableLost(Kernel, v)
                                    \/ PhysicalForVirtual(Kernel, v) = v
=============================================================================
