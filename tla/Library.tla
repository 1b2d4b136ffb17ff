------------------------------ MODULE Library ------------------------------
(***************************************************************************)
(* Parts of lib side by side: kprintf, and the memory and string functions *)
(* on one memory, both of kstdlib.c, and read_elf of elf.c with the memory *)
(* of its caller.  They share no state; no action of one changes another's.*)
(***************************************************************************)
EXTENDS Integers

CONSTANTS Bits, LongBits,      \* the sizes of the numbers that are printed
          Directives, MaxDirectives,
          StringSize, Byte,    \* the memory of the strings
          Images, TaskSize     \* the files, and the memory they are loaded to

VARIABLES format, args, state, longval, printed, stdout, said,
          mem, call, result,
          image, turn, rc, start, memory, allocated, refused

Printer == INSTANCE Kprintf WITH count <- printed
String == INSTANCE KString WITH MemSize <- StringSize
Loader == INSTANCE Elf WITH MemSize <- TaskSize, i <- turn

ASSUME LibraryAssumption ==
  Printer!KprintfAssumption /\ String!KStringAssumption /\ Loader!ElfAssumption

\* The output is what the directives ask for, with no negative %d, as Kprintf
\* says.
FormatsAsDirected == Printer!FormatsAsDirected
\* Each call of a memory or string function leaves and returns what KString
\* says of it.
CallsKept == String!CallsKept
\* read_elf refuses a file untouched or loads its segments, as Elf says.
Loaded == Loader!Loaded
=============================================================================
