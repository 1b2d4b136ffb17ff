----------------------------- MODULE KernelLoop -----------------------------
(***************************************************************************)
(* The two users of the keyboard's FIFO: the loop at the end of kmain,     *)
(* which polls it with interrupts enabled, and the keyboard's interrupt    *)
(* handler, which adds to it between any two instructions of the loop.     *)
(*                                                                         *)
(* The handler is one step: nothing else touches the FIFO while it runs.   *)
(* The loop is cut where the handler can make a difference: the tests, the *)
(* copy, and the load and the store that `fifo->num_entries--' compiles to *)
(* without optimisation (the Makefile passes no -O).                       *)
(***************************************************************************)
EXTENDS Fifo

CONSTANTS NoChar,     \* the -1 keyboard_getchar returns on an empty FIFO
          MaxTyped    \* bound: how many characters are typed

ASSUME LoopAssumption == MaxTyped \in Nat /\ NoChar \notin Entry

VARIABLES pc,         \* where the loop of kmain is
          loaded,     \* the register num_entries was loaded into
          typed,      \* characters the decoder has handed to fifo_add so far
          \* What the properties compare the FIFO with:
          accepted,   \* the characters fifo_add stored, oldest first
          taken,      \* how many entries fifo_get has copied out
          overrun,    \* fifo_add has overwritten an entry not yet copied
          lost        \* increments of num_entries that fifo_get's store undid

loopVars == <<pc, loaded, taken>>
vars == <<fvars, loopVars, typed, accepted, overrun, lost>>

KInit == /\ Init
         /\ pc = "poll" /\ loaded = 0
         /\ typed = 0
         /\ accepted = <<>> /\ taken = 0 /\ overrun = FALSE /\ lost = 0

-----------------------------------------------------------------------------
\* The interrupt: keyboard_handle_rcvd_char has decoded e and calls fifo_add.
KeyboardInterrupt(e) ==
  /\ typed < MaxTyped
  /\ typed' = typed + 1
  /\ FifoAdd(e)
  /\ IF num_entries < MaxEntries
     THEN /\ accepted' = Append(accepted, e)
          /\ overrun' = (overrun \/ Len(accepted) - taken >= MaxEntries)
     ELSE UNCHANGED <<accepted, overrun>>
  /\ UNCHANGED <<out, loopVars, lost>>

-----------------------------------------------------------------------------
\* Mutant of keyboard_haschar: the last entry is not seen.
PollOne == /\ pc = "poll"
           /\ pc' = IF num_entries <= 1 THEN "poll" ELSE "getchar"
           /\ UNCHANGED <<fvars, loaded, taken, typed, accepted, overrun, lost>>

\* kmain: keyboard_haschar, which is not fifo_empty.
Poll == /\ pc = "poll"
        /\ pc' = IF FifoEmpty THEN "poll" ELSE "getchar"
        /\ UNCHANGED <<fvars, loaded, taken, typed, accepted, overrun, lost>>

\* keyboard_getchar asks fifo_empty again, and fifo_get tests num_entries > 0
\* once more.
Getchar == /\ pc = "getchar"
           /\ IF FifoEmpty
              THEN /\ out' = NoChar /\ pc' = "putc"
              ELSE /\ pc' = "get" /\ UNCHANGED out
           /\ UNCHANGED <<fifoVars, loaded, taken, typed, accepted, overrun, lost>>

\* fifo_get: the test and the copy; a failed test returns at once.
GetCopy == /\ pc = "get"
           /\ IF num_entries > 0
              THEN /\ out' = entries[read_pos]
                   /\ taken' = taken + 1
                   /\ pc' = "load"
              ELSE pc' = "putc" /\ UNCHANGED <<out, taken>>
           /\ UNCHANGED <<fifoVars, loaded, typed, accepted, overrun, lost>>

\* fifo_get: the load half of num_entries--.
GetLoad == /\ pc = "load"
           /\ loaded' = num_entries
           /\ pc' = "store"
           /\ UNCHANGED <<fvars, taken, typed, accepted, overrun, lost>>

\* Mutant of fifo_get: the count is stored back without being decremented.
GetStoreSame == /\ pc = "store"
                /\ num_entries' = loaded
                /\ lost' = lost + (num_entries - loaded)
                /\ pc' = "advance"
                /\ UNCHANGED <<read_pos, write_pos, entries, out, loaded, taken,
                               typed, accepted, overrun>>

\* fifo_get: the store half, which forgets what fifo_add counted in between.
GetStore == /\ pc = "store"
            /\ num_entries' = loaded - 1
            /\ lost' = lost + (num_entries - loaded)
            /\ pc' = "advance"
            /\ UNCHANGED <<read_pos, write_pos, entries, out, loaded, taken,
                           typed, accepted, overrun>>

\* Mutant of fifo_get: the read position does not wrap with the write
\* position, it stays one slot behind at the end of the buffer.
GetAdvanceStuck == /\ pc = "advance"
                   /\ read_pos' = IF read_pos = MaxEntries - 1
                                  THEN read_pos ELSE read_pos + 1
                   /\ pc' = "putc"
                   /\ UNCHANGED <<write_pos, num_entries, entries, out, loaded,
                                  taken, typed, accepted, overrun, lost>>

\* fifo_get: read_pos is the loop's own.
GetAdvance == /\ pc = "advance"
              /\ read_pos' = (read_pos + 1) % MaxEntries
              /\ pc' = "putc"
              /\ UNCHANGED <<write_pos, num_entries, entries, out, loaded,
                             taken, typed, accepted, overrun, lost>>

\* putc(ch), and round again.
Putc == /\ pc = "putc"
        /\ pc' = "poll"
        /\ UNCHANGED <<fvars, loaded, taken, typed, accepted, overrun, lost>>

MainLoop == Poll \/ Getchar \/ GetCopy \/ GetLoad \/ GetStore \/ GetAdvance
              \/ Putc

KNext == MainLoop \/ \E e \in Entry : KeyboardInterrupt(e)

KSpec == KInit /\ [][KNext]_vars

\* The loop is the kernel's only thread: it always runs again after an
\* interrupt.  Nobody has to type.
FairSpec == KSpec /\ WF_vars(MainLoop)
-----------------------------------------------------------------------------
Labels == {"poll", "getchar", "get", "load", "store", "advance", "putc"}

KTypeOK == /\ read_pos \in Slots /\ write_pos \in Slots
           /\ num_entries \in 0 .. MaxEntries
           /\ entries \in [Slots -> Entry]
           /\ out \in Entry \cup {NoChar}
           /\ pc \in Labels
           /\ loaded \in 0 .. MaxEntries
           /\ typed \in 0 .. MaxTyped
           /\ accepted \in Seq(Entry)
           /\ taken \in Nat
           /\ overrun \in BOOLEAN
           /\ lost \in Nat

\* How many accepted characters the loop has not copied.
Waiting == Len(accepted) - taken

\* The count may lag behind the truth (a decrement that overwrites an
\* increment, see LagExact) but it never runs ahead of it: whatever the
\* interleaving, fifo_get copies only entries that fifo_add has stored.
NeverAhead ==
  /\ pc \in {"load", "store"} => num_entries <= Waiting + 1
  /\ pc \notin {"load", "store"} => num_entries <= Waiting
  /\ taken <= Len(accepted)

\* The character handed to putc is the next one accepted, in order and once
\* each, however the handler interleaves with fifo_get, until fifo_add
\* overwrites an entry that nobody has read.  In particular the two later
\* tests never fail once haschar was true: no -1 reaches the screen.
InOrder == pc = "putc" =>
             /\ taken \in DOMAIN accepted
             /\ ~overrun => out = accepted[taken]

\* The count lags behind the characters that wait by exactly the increments
\* that the store of fifo_get has undone, and for good: nothing corrects it.
\* Only after that can fifo_add overwrite an entry that nobody has read: its
\* test keeps the unread entries safe as long as no increment is lost.
LagExact ==
  /\ num_entries + lost = Waiting + IF pc \in {"load", "store"} THEN 1 ELSE 0
  /\ overrun => lost > 0

\* When the typing stops, the loop empties what the count admits to.
Drains == <>[](num_entries = 0 /\ pc = "poll")
=============================================================================
