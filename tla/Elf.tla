-------------------------------- MODULE Elf --------------------------------
(***************************************************************************)
(* The ELF loader, lib/elf.c: the checks of the header and one turn of the *)
(* loop over the program headers at a time.  The two call-backs of the     *)
(* caller are external: virt_alloc returns the memory at the address asked *)
(* for, or NULL, and virt_copy writes a byte of the file at a time, where  *)
(* NULL is an address like any other.                                      *)
(***************************************************************************)
EXTENDS Integers, Sequences, FiniteSetsExt, SequencesExt

CONSTANTS Images,     \* files: [wrong : the header fields with a value that
                      \* is not expected, segments : sequence of segments]
          MemSize     \* addresses 0 .. MemSize - 1; 0 is NULL

Fields == {"magic", "class", "data", "ident_version", "osabi", "abiver", "type",
           "machine", "version", "flags", "header_size", "program_header_size",
           "section_header_size"}
Segment == [load : BOOLEAN, offset : Nat, vaddr : 1 .. MemSize - 1,
            filesz : Nat, memsz : Nat]

\* Assumed by the modules that give the constants their values.
ElfAssumption ==
  /\ MemSize \in Nat \ {0}
  /\ \A image \in Images :
       /\ image.wrong \subseteq Fields
       /\ image.segments \in Seq(Segment)
       /\ \A s \in ToSet(image.segments) : s.vaddr + s.memsz <= MemSize

NULL == 0
VARIABLES image,
          i,          \* the loop's counter
          rc,         \* what read_elf returns, or Running
          start,      \* *start_addr has been set
          memory,     \* address -> offset in the file of the byte there, or Old
          allocated,  \* addresses virt_alloc has returned
          refused     \* virt_alloc has returned NULL

vars == <<image, i, rc, start, memory, allocated, refused>>

Running == 1
Old == -1
Init == /\ image \in Images
        /\ i = 0 /\ rc = Running /\ start = FALSE
        /\ memory = [a \in 0 .. MemSize - 1 |-> Old]
        /\ allocated = {} /\ refused = FALSE
-----------------------------------------------------------------------------
\* The checks of validate_header, in their order, with what each returns: the
\* last two share their values with the flags and the machine.
Checks == << <<"magic", -100>>, <<"class", -101>>, <<"data", -102>>,
             <<"ident_version", -103>>, <<"osabi", -104>>, <<"abiver", -105>>,
             <<"type", -106>>, <<"machine", -107>>, <<"version", -103>>,
             <<"flags", -108>>, <<"header_size", -109>>,
             <<"program_header_size", -109 + 1>>, <<"section_header_size", -109 + 2>> >>

validate_header ==
  LET failed == {k \in DOMAIN Checks : Checks[k][1] \in image.wrong}
  IN IF failed = {} THEN 0 ELSE Checks[Min(failed)][2]

\* read_elf, before its loop.
Validate == /\ rc = Running /\ ~start
            /\ IF validate_header < 0
               THEN rc' = validate_header /\ UNCHANGED start
               ELSE start' = TRUE /\ UNCHANGED rc
            /\ UNCHANGED <<image, i, memory, allocated, refused>>

\* virt_copy(dest, src, len), on what there is of memory.
Copied(dest, src, len) ==
  [a \in DOMAIN memory |-> IF a \in dest .. dest + len - 1 THEN src + (a - dest)
                                                         ELSE memory[a]]

\* Mutant: as much is copied as was allocated.
handle_program_header_all(s) ==
  IF s.load
  THEN \E ptr \in {s.vaddr, NULL} :
         /\ allocated' = allocated \cup ptr .. (IF ptr = NULL THEN -1 ELSE ptr + s.memsz - 1)
         /\ refused' = (refused \/ ptr = NULL)
         /\ memory' = Copied(ptr, s.offset, s.memsz)
  ELSE UNCHANGED <<memory, allocated, refused>>

\* handle_program_header: what virt_alloc returned is not looked at.
handle_program_header(s) ==
  IF s.load
  THEN \E ptr \in {s.vaddr, NULL} :
         /\ allocated' = allocated \cup ptr .. (IF ptr = NULL THEN -1 ELSE ptr + s.memsz - 1)
         /\ refused' = (refused \/ ptr = NULL)
         /\ memory' = Copied(ptr, s.offset, s.filesz)
  ELSE UNCHANGED <<memory, allocated, refused>>

\* One turn of the loop, and its end.
Load == /\ rc = Running /\ start
        /\ IF i < Len(image.segments)
           THEN i' = i + 1 /\ handle_program_header(image.segments[i + 1]) /\ UNCHANGED rc
           ELSE rc' = 0 /\ UNCHANGED <<i, memory, allocated, refused>>
        /\ UNCHANGED <<image, start>>

Next == Validate \/ Load

Spec == Init /\ [][Next]_vars
-----------------------------------------------------------------------------
\* A file with anything wrong in its header is refused before anything is
\* allocated or written.  Otherwise, when read_elf returns and every allocation
\* was granted, each loadable segment has its bytes of the file at its
\* address, the later one where two overlap, and no other byte has changed: so
\* what a segment has in memory beyond its part of the file (its zeros) is
\* left as virt_alloc gave it.
Loads(s, a) == s.load /\ a \in s.vaddr .. s.vaddr + s.filesz - 1
Loaded ==
  /\ image.wrong # {} => ~start /\ \A a \in DOMAIN memory : memory[a] = Old
  /\ (rc = 0 /\ ~refused) =>
       \A a \in DOMAIN memory :
         LET from == {k \in DOMAIN image.segments : Loads(image.segments[k], a)}
             last == image.segments[Max(from)]
         IN memory[a] = IF from = {} THEN Old ELSE last.offset + (a - last.vaddr)
  /\ rc < 0 <=> (image.wrong # {} /\ rc # Running)
=============================================================================
