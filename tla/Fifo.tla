-------------------------------- MODULE Fifo --------------------------------
(***************************************************************************)
(* The ring buffer of lib/fifo.c, called by one caller at a time.  An      *)
(* entry is one value (entry_size is 1 for the only FIFO of the kernel),   *)
(* and kmemcpy of an entry is one assignment.  What happens when fifo_get  *)
(* is interrupted half-way is in module KernelLoop.                        *)
(***************************************************************************)
EXTENDS Integers, Sequences

CONSTANTS Entry,       \* the values an entry can hold
          MaxEntries   \* fifo_init's max_entries; the kernel passes 32

\* fifo_get and fifo_add divide by max_entries.
ASSUME FifoAssumption == MaxEntries \in Nat \ {0}

VARIABLES read_pos, write_pos, num_entries,
          entries,     \* the max_entries slots
          out          \* the caller's buffer that fifo_get fills

fifoVars == <<read_pos, write_pos, num_entries, entries>>
fvars == <<read_pos, write_pos, num_entries, entries, out>>

Slots == 0 .. MaxEntries - 1

\* fifo_init: the slots come from kmalloc, which clears nothing.
FifoInit == /\ read_pos = 0
            /\ write_pos = 0
            /\ num_entries = 0
            /\ entries \in [Slots -> Entry]

\* Mutants of fifo_add: one slot too many; the position is not advanced.
FifoAddOverfull(e) ==
  IF num_entries <= MaxEntries
  THEN /\ entries' = [entries EXCEPT ![write_pos] = e]
       /\ num_entries' = num_entries + 1
       /\ write_pos' = (write_pos + 1) % MaxEntries
       /\ UNCHANGED read_pos
  ELSE UNCHANGED fifoVars

FifoAddShift(e) ==
  IF num_entries < MaxEntries
  THEN /\ entries' = [entries EXCEPT ![write_pos] = e]
       /\ num_entries' = num_entries + 1
       /\ write_pos' = write_pos % MaxEntries
       /\ UNCHANGED read_pos
  ELSE UNCHANGED fifoVars

\* fifo_add: an entry that finds the buffer full is dropped with a message.
FifoAdd(e) ==
  IF num_entries < MaxEntries
  THEN /\ entries' = [entries EXCEPT ![write_pos] = e]
       /\ num_entries' = num_entries + 1
       /\ write_pos' = (write_pos + 1) % MaxEntries
       /\ UNCHANGED read_pos
  ELSE UNCHANGED fifoVars

\* fifo_get: on an empty buffer the caller's buffer is left as it was.
FifoGet ==
  IF num_entries > 0
  THEN /\ out' = entries[read_pos]
       /\ num_entries' = num_entries - 1
       /\ read_pos' = (read_pos + 1) % MaxEntries
       /\ UNCHANGED <<write_pos, entries>>
  ELSE UNCHANGED fvars

\* fifo_empty only reads, like fifo_full, fifo_avail and fifo_size.
FifoEmpty == num_entries = 0

Init == FifoInit /\ out \in Entry

Add(e) == FifoAdd(e) /\ UNCHANGED out

Next == FifoGet \/ \E e \in Entry : Add(e)

Spec == Init /\ [][Next]_fvars
-----------------------------------------------------------------------------
\* The slot that is i places after the one read next.
SlotAfter(i) == (read_pos + i) % MaxEntries

\* The queue the ring buffer stands for: the entries it holds, oldest first.
Contents == [i \in 1 .. num_entries |-> entries[SlotAfter(i - 1)]]

TypeOK == /\ read_pos \in Slots
          /\ write_pos \in Slots
          /\ num_entries \in 0 .. MaxEntries
          /\ entries \in [Slots -> Entry]
          /\ out \in Entry

\* The two positions and the count are kept by three separate assignments
\* of fifo_add and fifo_get: whatever the sequence of calls, the slot written
\* next is the one num_entries places after the slot read next.
PositionsAgree == write_pos = SlotAfter(num_entries)

\* fifo_add and fifo_get implement a bounded queue: entries come out in the
\* order they went in, none lost, none twice, across every wrap-around of the
\* two positions.
Q == INSTANCE CharQueue WITH queue <- Contents, Capacity <- MaxEntries
IsQueue == Q!Spec
=============================================================================
