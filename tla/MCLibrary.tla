----------------------------- MODULE MCLibrary -----------------------------
\* The library for TLC.  Its parts share no state and one call is made at a
\* time, so a behaviour is a call of kprintf, a call of a memory or string
\* function, or a call of read_elf.
EXTENDS Library

VARIABLE job

-----------------------------------------------------------------------------
\* kprintf.  Numbers of one digit and of several, on both sides of every
\* power of the base and of the limits of both sizes.
Ints == {0, 1, 9, 10, 15, 16, 26, 99, 100, 101, 110, 127, 128, 200, 255,
         -1, -9, -10, -101, -128}
Longs == Ints \cup {1000, 1001, 4096, 9999, 10000, 32767, 32768, 40960, 65535,
                    -1000, -32768}

\* Text, %%, a backslash and n, %s; %d, %u, %x and %p; with l, with a width,
\* with L; %Lp, and a letter between a backslash and n.
With(f, arguments) == {[format |-> f, args |-> <<a>>] : a \in arguments}
Without(f) == {[format |-> f, args |-> <<>>]}
MCDirectives ==
  Without(<<65>>) \cup Without(<<37, 37>>) \cup Without(<<92, 110>>)
    \cup With(<<37, 115>>, {<<>>, <<65, 66>>})
    \cup UNION {With(<<37, c>>, Ints) : c \in {100, 117, 120, 112}}
    \cup With(<<37, 108, 120>>, {16, 255}) \cup With(<<37, 48, 56, 120>>, {16, 255})
    \cup UNION {With(<<37, 76, c>>, Longs) : c \in {100, 117, 120}}
    \cup With(<<37, 76, 112>>, {256}) \cup Without(<<92, 81, 110>>)
-----------------------------------------------------------------------------
\* read_elf: one field wrong or two; segments apart, overlapping, longer in
\* memory than in the file, empty, and not loadable.
ASegment(load, offset, vaddr, filesz, memsz) ==
  [load |-> load, offset |-> offset, vaddr |-> vaddr, filesz |-> filesz, memsz |-> memsz]
Segments == {ASegment(TRUE, 4, 1, 2, 2), ASegment(TRUE, 6, 4, 1, 3),
             ASegment(TRUE, 9, 2, 3, 3), ASegment(TRUE, 4, 5, 0, 2),
             ASegment(FALSE, 1, 3, 2, 2)}
Fields == {"magic", "class", "data", "ident_version", "osabi", "abiver", "type",
           "machine", "version", "flags", "header_size", "program_header_size",
           "section_header_size"}
MCImages ==
  [wrong : {{f, g} : f, g \in Fields}, segments : {<<ASegment(TRUE, 4, 1, 2, 2)>>}]
    \cup [wrong : {{}}, segments : UNION {[1 .. n -> Segments] : n \in 0 .. 3}]
-----------------------------------------------------------------------------
printer == <<format, args, state, longval, printed, stdout, said>>
string == <<mem, call, result>>
loader == <<image, turn, rc, start, memory, allocated, refused>>
allVars == <<job, printer, string, loader>>

AnImage == [wrong |-> {}, segments |-> <<>>]

MCInit ==
  /\ job \in {"kprintf", "strings", "read_elf"}
  /\ Printer!Init
  /\ IF job = "strings" THEN String!Init
     ELSE mem = <<>> /\ call = String!NoCall /\ result = 0
  /\ IF job = "read_elf" THEN Loader!Init
     ELSE /\ image = AnImage /\ turn = 0 /\ rc = Loader!Running /\ start = FALSE
          /\ memory = <<>> /\ allocated = {} /\ refused = FALSE

MCNext ==
  /\ \/ job = "kprintf" /\ Printer!Next /\ UNCHANGED <<string, loader>>
     \/ job = "strings" /\ String!Next /\ UNCHANGED <<printer, loader>>
     \/ job = "read_elf" /\ Loader!Next /\ UNCHANGED <<printer, string>>
  /\ UNCHANGED job

MCSpec == MCInit /\ [][MCNext]_allVars
=============================================================================
