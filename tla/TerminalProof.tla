---------------------------- MODULE TerminalProof ----------------------------
(***************************************************************************)
(* The path of a character, in three stages.                               *)
(*                                                                         *)
(* Fifo alone: its positions stay in step, and it implements CharQueue,    *)
(* for every buffer size and every set of entries.                         *)
(*                                                                         *)
(* KernelLoop: however the keyboard interrupt interleaves with fifo_get,   *)
(* the count never promises an entry that is not there, and what the loop  *)
(* takes is what was stored, in order, while nothing was overwritten.      *)
(*                                                                         *)
(* Terminal: how far the cursor that the loop and the interrupt share can  *)
(* be when the loop is not printing, and how far cells are written, for a  *)
(* screen and a tab of any size and a message of any length; and that only *)
(* a message inside a backspace takes either further.  What KernelLoop     *)
(* promises is kept by the loop with its putc opened up.                   *)
(***************************************************************************)
EXTENDS Terminal, SequenceTheorems, TLAPS

-----------------------------------------------------------------------------
(* The FIFO.                                                               *)

\* Division with remainder by a positive number, for a dividend below twice
\* the divisor: all that (pos + i) % max_entries ever needs.
LEMMA ModOnce ==
  ASSUME NEW m \in Nat \ {0}, NEW k \in 0 .. (2 * m - 1)
  PROVE  k % m = IF k < m THEN k ELSE k - m
<1>1. CASE k < m
  BY <1>1, SMT
<1>2. CASE k >= m
  <2>1. k = m * 1 + (k - m) /\ k - m \in 0 .. m - 1
    BY <1>2, SMT
  <2>2. QED
    BY <2>1, <1>2, SMT
<1>3. QED
  BY <1>1, <1>2, SMT

\* The wrap-around of fifo.c written without the remainder: the place i
\* slots after pos, for i up to a full turn of the buffer.
LEMMA WrapOnce ==
  ASSUME NEW pos \in Slots, NEW i \in 0 .. MaxEntries
  PROVE  /\ (pos + i) % MaxEntries \in Slots
         /\ (pos + i) % MaxEntries =
              IF pos + i < MaxEntries THEN pos + i ELSE pos + i - MaxEntries
<1>1. pos + i \in 0 .. (2 * MaxEntries - 1)
  BY FifoAssumption DEF Slots
<1>2. (pos + i) % MaxEntries =
        IF pos + i < MaxEntries THEN pos + i ELSE pos + i - MaxEntries
  <2> DEFINE Reduced(k) == IF k < MaxEntries THEN k ELSE k - MaxEntries
  <2>1. \A k \in 0 .. (2 * MaxEntries - 1) : k % MaxEntries = Reduced(k)
    BY FifoAssumption, ModOnce
  <2>2. (pos + i) % MaxEntries = Reduced(pos + i)
    <3> HIDE DEF Reduced
    <3>1. QED
      BY <1>1, <2>1, Zenon
  <2>3. QED
    BY <2>2, <1>1, FifoAssumption, SMT DEF Slots
<1>3. QED
  BY <1>1, <1>2, FifoAssumption DEF Slots

IInv == TypeOK /\ PositionsAgree

LEMMA InitIInv == Init => IInv
<1> SUFFICES ASSUME Init PROVE IInv
  OBVIOUS
<1>1. 0 \in Slots /\ 0 \in 0 .. MaxEntries
  BY FifoAssumption DEF Slots
<1>2. (0 + 0) % MaxEntries = 0
  BY <1>1, WrapOnce, FifoAssumption DEF Slots
<1>3. QED
  BY <1>1, <1>2 DEF Init, FifoInit, IInv, TypeOK, PositionsAgree, SlotAfter

\* What one call does to the positions, with the remainders resolved.
LEMMA NextIInv == IInv /\ [Next]_fvars => IInv'
<1> SUFFICES ASSUME IInv, [Next]_fvars PROVE IInv'
  OBVIOUS
<1> USE FifoAssumption
<1>0. /\ read_pos \in Slots /\ write_pos \in Slots
      /\ num_entries \in 0 .. MaxEntries
      /\ 1 \in 0 .. MaxEntries
      /\ write_pos = (read_pos + num_entries) % MaxEntries
  BY DEF IInv, TypeOK, PositionsAgree, SlotAfter
<1>1. (read_pos + num_entries) % MaxEntries
        = IF read_pos + num_entries < MaxEntries
          THEN read_pos + num_entries ELSE read_pos + num_entries - MaxEntries
  BY <1>0, WrapOnce, Zenon
<1>2. CASE num_entries > 0 /\ FifoGet
  <2>1. /\ (read_pos + 1) % MaxEntries \in Slots
        /\ (read_pos + 1) % MaxEntries = IF read_pos + 1 < MaxEntries
             THEN read_pos + 1 ELSE read_pos + 1 - MaxEntries
    BY <1>0, WrapOnce, Zenon
  <2>2. /\ read_pos' = (read_pos + 1) % MaxEntries
        /\ num_entries' = num_entries - 1
        /\ num_entries' \in 0 .. MaxEntries
        /\ write_pos' = write_pos /\ entries' = entries
        /\ out' = entries[read_pos]
    BY <1>0, <1>2 DEF FifoGet
  <2>3. (read_pos' + num_entries') % MaxEntries
          = IF read_pos' + num_entries' < MaxEntries
            THEN read_pos' + num_entries'
            ELSE read_pos' + num_entries' - MaxEntries
    BY <2>1, <2>2, WrapOnce, Zenon
  <2>4. write_pos' = (read_pos' + num_entries') % MaxEntries
    BY <1>0, <1>1, <1>2, <2>1, <2>2, <2>3 DEF Slots
  <2>5. QED
    BY <1>0, <2>1, <2>2, <2>4
       DEF IInv, TypeOK, PositionsAgree, SlotAfter
<1>3. ASSUME NEW e \in Entry, Add(e), num_entries < MaxEntries
      PROVE  IInv'
  <2>1. /\ (write_pos + 1) % MaxEntries \in Slots
        /\ (write_pos + 1) % MaxEntries = IF write_pos + 1 < MaxEntries
             THEN write_pos + 1 ELSE write_pos + 1 - MaxEntries
    BY <1>0, WrapOnce, Zenon
  <2>2. /\ write_pos' = (write_pos + 1) % MaxEntries
        /\ num_entries' = num_entries + 1
        /\ num_entries' \in 0 .. MaxEntries
        /\ read_pos' = read_pos /\ out' = out
        /\ entries' = [entries EXCEPT ![write_pos] = e]
    BY <1>0, <1>3 DEF Add, FifoAdd
  <2>3. (read_pos' + num_entries') % MaxEntries
          = IF read_pos' + num_entries' < MaxEntries
            THEN read_pos' + num_entries'
            ELSE read_pos' + num_entries' - MaxEntries
    BY <1>0, <2>2, WrapOnce, Zenon
  <2>4. write_pos' = (read_pos' + num_entries') % MaxEntries
    BY <1>0, <1>1, <1>3, <2>1, <2>2, <2>3 DEF Slots
  <2>5. QED
    BY <1>0, <2>1, <2>2, <2>4
       DEF IInv, TypeOK, PositionsAgree, SlotAfter
<1>4. CASE UNCHANGED fvars
  BY <1>4 DEF fvars, IInv, TypeOK, PositionsAgree, SlotAfter
<1>5. FifoGet => UNCHANGED fvars \/ num_entries > 0
  BY DEF FifoGet
<1>6. ASSUME NEW e \in Entry, Add(e)
      PROVE  UNCHANGED fvars \/ num_entries < MaxEntries
  BY <1>6 DEF Add, FifoAdd, fifoVars, fvars
<1>7. QED
  BY <1>2, <1>3, <1>4, <1>5, <1>6 DEF Next

\* fifo.c keeps its two positions and its count in range and in step, for
\* every buffer size and every sequence of fifo_add and fifo_get.
THEOREM FifoConsistent == Spec => [](TypeOK /\ PositionsAgree)
<1>1. QED
  BY InitIInv, NextIInv, PTL DEF Spec, IInv

\* fifo_get takes the head of the queue.
LEMMA GetTakes ==
  ASSUME IInv, FifoGet, num_entries > 0
  PROVE  Q!Take
<1> USE FifoAssumption
<1>0. /\ read_pos \in Slots /\ num_entries \in 1 .. MaxEntries
      /\ 0 \in 0 .. MaxEntries /\ 1 \in 0 .. MaxEntries
  BY DEF IInv, TypeOK
<1>1. /\ out' = entries[read_pos] /\ entries' = entries
      /\ num_entries' = num_entries - 1
      /\ read_pos' = (read_pos + 1) % MaxEntries
  BY DEF FifoGet
<1>2. SlotAfter(0) = read_pos
  <2>1. (read_pos + 0) % MaxEntries = IF read_pos + 0 < MaxEntries
          THEN read_pos + 0 ELSE read_pos + 0 - MaxEntries
    BY <1>0, WrapOnce, Zenon
  <2>2. QED
    BY <1>0, <2>1 DEF SlotAfter, Slots
<1>3. Contents # <<>> /\ Head(Contents) = entries[read_pos]
  BY <1>0, <1>2 DEF Contents
<1>4. ASSUME NEW i \in 1 .. num_entries - 1
      PROVE  (read_pos' + (i - 1)) % MaxEntries = (read_pos + i) % MaxEntries
  <2>1. i - 1 \in 0 .. MaxEntries /\ i \in 0 .. MaxEntries
    BY <1>0
  <2>2. read_pos' \in Slots
    BY <1>0, <1>1, WrapOnce
  <2>3. (read_pos' + (i - 1)) % MaxEntries =
          IF read_pos' + (i - 1) < MaxEntries
          THEN read_pos' + (i - 1) ELSE read_pos' + (i - 1) - MaxEntries
    BY <2>1, <2>2, WrapOnce, Zenon
  <2>4. (read_pos + i) % MaxEntries = IF read_pos + i < MaxEntries
          THEN read_pos + i ELSE read_pos + i - MaxEntries
    BY <1>0, <2>1, WrapOnce, Zenon
  <2>5. (read_pos + 1) % MaxEntries = IF read_pos + 1 < MaxEntries
          THEN read_pos + 1 ELSE read_pos + 1 - MaxEntries
    BY <1>0, WrapOnce, Zenon
  <2>6. QED
    BY <1>0, <1>1, <2>1, <2>3, <2>4, <2>5 DEF Slots
<1>5. Contents' = [i \in 1 .. num_entries - 1 |-> entries[SlotAfter(i)]]
  BY <1>0, <1>1, <1>4 DEF Contents, SlotAfter
<1>6. Tail(Contents) = [i \in 1 .. num_entries - 1 |-> entries[SlotAfter(i)]]
  BY <1>0 DEF Contents
<1>7. QED
  BY <1>1, <1>3, <1>5, <1>6 DEF Q!Take

\* fifo_add on a buffer with room appends to the queue.
LEMMA AddPuts ==
  ASSUME IInv, NEW e \in Entry, Add(e), num_entries < MaxEntries
  PROVE  Q!Put(e)
<1> USE FifoAssumption
<1>0. /\ read_pos \in Slots /\ write_pos \in Slots
      /\ num_entries \in 0 .. MaxEntries
      /\ write_pos = SlotAfter(num_entries)
      /\ entries \in [Slots -> Entry]
  BY DEF IInv, TypeOK, PositionsAgree
<1>1. /\ entries' = [entries EXCEPT ![write_pos] = e]
      /\ num_entries' = num_entries + 1
      /\ read_pos' = read_pos /\ out' = out
  BY DEF Add, FifoAdd
<1>2. ASSUME NEW i \in 1 .. num_entries
      PROVE  SlotAfter(i - 1) \in Slots /\ SlotAfter(i - 1) # write_pos
  <2>1. i - 1 \in 0 .. MaxEntries
    BY <1>0
  <2>2. /\ (read_pos + (i - 1)) % MaxEntries \in Slots
        /\ (read_pos + (i - 1)) % MaxEntries =
             IF read_pos + (i - 1) < MaxEntries
             THEN read_pos + (i - 1) ELSE read_pos + (i - 1) - MaxEntries
    BY <1>0, <2>1, WrapOnce, Zenon
  <2>3. (read_pos + num_entries) % MaxEntries =
          IF read_pos + num_entries < MaxEntries
          THEN read_pos + num_entries ELSE read_pos + num_entries - MaxEntries
    BY <1>0, WrapOnce, Zenon
  <2>4. QED
    BY <1>0, <2>2, <2>3 DEF SlotAfter, Slots
<1>3. \A i \in 1 .. num_entries :
         entries'[SlotAfter(i - 1)] = entries[SlotAfter(i - 1)]
  BY <1>0, <1>1, <1>2
<1>4. entries'[SlotAfter(num_entries)] = e
  BY <1>0, <1>1
<1>5. Contents' = [i \in 1 .. num_entries + 1 |-> entries'[SlotAfter(i - 1)]]
  BY <1>1 DEF Contents, SlotAfter
<1>6. Contents' = Append(Contents, e)
  <2>1. Contents \in Seq(Entry) /\ Len(Contents) = num_entries
    BY <1>0, <1>2 DEF Contents
  <2>2. /\ Append(Contents, e) \in Seq(Entry)
        /\ Len(Append(Contents, e)) = num_entries + 1
        /\ \A i \in 1 .. num_entries : Append(Contents, e)[i] = Contents[i]
        /\ Append(Contents, e)[num_entries + 1] = e
    BY <2>1, AppendProperties
  <2>3. ASSUME NEW i \in 1 .. num_entries + 1
        PROVE  entries'[SlotAfter(i - 1)] = Append(Contents, e)[i]
    <3>1. CASE i \in 1 .. num_entries
      BY <1>0, <1>3, <2>2, <3>1 DEF Contents
    <3>2. CASE i = num_entries + 1
      <4>1. i - 1 = num_entries
        BY <1>0, <3>2
      <4>2. QED
        BY <1>4, <2>2, <3>2, <4>1
    <3>3. i \in 1 .. num_entries \/ i = num_entries + 1
      BY <1>0
    <3>4. QED
      BY <3>1, <3>2, <3>3
  <2>4. Append(Contents, e) =
          [i \in 1 .. num_entries + 1 |-> Append(Contents, e)[i]]
    <3> DEFINE a == Append(Contents, e)
    <3>1. a \in Seq(Entry) /\ Len(a) = num_entries + 1
      BY <2>2
    <3>2. a = [i \in 1 .. Len(a) |-> a[i]]
      <4> HIDE DEF a
      <4>1. QED
        BY <3>1, LenProperties
    <3>3. QED
      BY <3>1, <3>2, Zenon
  <2>5. QED
    BY <1>5, <2>3, <2>4, Zenon
<1>7. Len(Contents) < MaxEntries
  BY <1>0 DEF Contents
<1>8. QED
  BY <1>1, <1>6, <1>7 DEF Q!Put

\* Every behaviour of fifo.c is a behaviour of the bounded queue: nothing is
\* lost, duplicated or reordered, at any wrap-around, for every size.
THEOREM FifoImplementsQueue == Spec => IsQueue
<1>1. Init => Q!Init
  <2>1. Init => Contents = <<>>
    BY DEF Init, FifoInit, Contents
  <2>2. QED
    BY <2>1 DEF Init, Q!Init
<1>2. IInv /\ [Next]_fvars => [Q!Next]_(Q!vars)
  <2> SUFFICES ASSUME IInv, [Next]_fvars PROVE [Q!Next]_(Q!vars)
    OBVIOUS
  <2>1. CASE UNCHANGED fvars
    BY <2>1 DEF fvars, Contents, SlotAfter, Q!vars
  <2>2. CASE FifoGet
    BY <2>1, <2>2, GetTakes DEF FifoGet, Q!Next
  <2>3. ASSUME NEW e \in Entry, Add(e) PROVE [Q!Next]_(Q!vars)
    <3>1. CASE num_entries < MaxEntries
      BY <2>3, <3>1, AddPuts DEF Q!Next
    <3>2. CASE ~(num_entries < MaxEntries)
      BY <2>1, <2>3, <3>2 DEF Add, FifoAdd, fifoVars, fvars
    <3>3. QED
      BY <3>1, <3>2
  <2>4. QED
    BY <2>1, <2>2, <2>3 DEF Next
<1>3. QED
  BY <1>1, <1>2, InitIInv, NextIInv, PTL DEF Spec, IsQueue, Q!Spec
-----------------------------------------------------------------------------
(* The loop and the interrupt.                                             *)

\* What the loop has established about the count, at each of its steps.  The
\* interrupt can only raise num_entries, so none of it is undone, and the
\* decrement that is stored is at most one below the truth.
LoopInv ==
  /\ pc \in {"getchar", "get", "load", "store"} => num_entries >= 1
  /\ pc = "store" => loaded >= 1 /\ loaded <= num_entries

KIInv == KTypeOK /\ NeverAhead /\ LoopInv /\ LagExact

LEMMA ModInSlots == \A k \in Nat : k % MaxEntries \in Slots
  BY FifoAssumption DEF Slots

LEMMA KInitIInv == KInit => KIInv
<1> SUFFICES ASSUME KInit PROVE KIInv
  OBVIOUS
<1>1. KTypeOK
  <2>1. accepted \in Seq(Entry)
    BY DEF KInit
  <2>2. 0 \in Slots /\ 0 \in 0 .. MaxEntries /\ 0 \in 0 .. MaxTyped
    BY FifoAssumption, LoopAssumption DEF Slots
  <2>3. QED
    BY <2>1, <2>2 DEF KInit, Init, FifoInit, KTypeOK, Labels
<1>2. NeverAhead /\ LoopInv /\ LagExact
  BY DEF KInit, Init, FifoInit, NeverAhead, LoopInv, LagExact, Waiting
<1>3. QED
  BY <1>1, <1>2 DEF KIInv

LEMMA KNextIInv == KIInv /\ [KNext]_vars => KIInv'
<1> SUFFICES ASSUME KIInv, [KNext]_vars PROVE KIInv'
  OBVIOUS
<1> USE FifoAssumption, LoopAssumption
<1>0. KTypeOK /\ NeverAhead /\ LoopInv /\ LagExact
  BY DEF KIInv
<1>1. ASSUME NEW e \in Entry, KeyboardInterrupt(e)
      PROVE  KIInv'
  <2>1. CASE num_entries < MaxEntries
    <3>1. /\ num_entries' = num_entries + 1
          /\ accepted' = Append(accepted, e)
          /\ entries' = [entries EXCEPT ![write_pos] = e]
          /\ write_pos' = (write_pos + 1) % MaxEntries
          /\ overrun' = (overrun \/ Len(accepted) - taken >= MaxEntries)
          /\ typed' = typed + 1 /\ typed < MaxTyped
          /\ UNCHANGED <<read_pos, out, pc, loaded, taken, lost>>
      BY <1>0, <1>1, <2>1
         DEF KeyboardInterrupt, FifoAdd, loopVars, KTypeOK
    <3>2. accepted' \in Seq(Entry) /\ Len(accepted') = Len(accepted) + 1
      BY <1>0, <1>1, <3>1 DEF KTypeOK
    <3>3. write_pos' \in Slots
      <4>1. write_pos + 1 \in Nat
        BY <1>0 DEF KTypeOK, Slots
      <4>2. QED
        BY <3>1, <4>1, ModInSlots
    <3>4. KTypeOK'
      BY <1>0, <1>1, <2>1, <3>1, <3>2, <3>3 DEF KTypeOK
    <3>5. NeverAhead' /\ LoopInv' /\ LagExact'
      BY <1>0, <2>1, <3>1, <3>2
         DEF KTypeOK, NeverAhead, LoopInv, LagExact, Waiting
    <3>6. QED
      BY <3>4, <3>5 DEF KIInv
  <2>2. CASE ~(num_entries < MaxEntries)
    <3>1. typed' = typed + 1 /\ typed < MaxTyped
      BY <1>1 DEF KeyboardInterrupt
    <3>2. UNCHANGED <<fvars, loopVars, accepted, overrun, lost>>
      BY <1>1, <2>2 DEF KeyboardInterrupt, FifoAdd, fifoVars, fvars
    <3>3. KTypeOK'
      BY <1>0, <3>1, <3>2 DEF KTypeOK, fvars, loopVars
    <3>4. NeverAhead' /\ LoopInv' /\ LagExact'
      BY <1>0, <3>2 DEF NeverAhead, LoopInv, LagExact, Waiting, fvars, loopVars
    <3>5. QED
      BY <3>3, <3>4 DEF KIInv
  <2>3. QED
    BY <2>1, <2>2
<1>2. CASE Poll
  BY <1>0, <1>2 DEF Poll, FifoEmpty, KIInv, KTypeOK, NeverAhead, LoopInv,
                    LagExact, Waiting, Labels, fvars
<1>3. CASE Getchar
  BY <1>0, <1>3 DEF Getchar, FifoEmpty, KIInv, KTypeOK, NeverAhead, LoopInv,
                    LagExact, Waiting, Labels, fifoVars
<1>4. CASE GetCopy
  <2>1. /\ num_entries >= 1
        /\ out' = entries[read_pos] /\ taken' = taken + 1 /\ pc' = "load"
        /\ UNCHANGED <<fifoVars, loaded, typed, accepted, overrun, lost>>
    BY <1>0, <1>4 DEF GetCopy, LoopInv, KTypeOK
  <2>2. KTypeOK'
    BY <1>0, <2>1 DEF KTypeOK, Labels, fifoVars
  <2>3. NeverAhead' /\ LoopInv' /\ LagExact'
    BY <1>0, <1>4, <2>1
       DEF GetCopy, KTypeOK, NeverAhead, LoopInv, LagExact, Waiting, fifoVars
  <2>4. QED
    BY <2>2, <2>3 DEF KIInv
<1>5. CASE GetLoad
  BY <1>0, <1>5 DEF GetLoad, KIInv, KTypeOK, NeverAhead, LoopInv, LagExact, Waiting, Labels, fvars
<1>6. CASE GetStore
  <2>1. KTypeOK'
    BY <1>0, <1>6 DEF GetStore, KTypeOK, LoopInv, Labels
  <2>2. NeverAhead' /\ LoopInv' /\ LagExact'
    BY <1>0, <1>6 DEF GetStore, KTypeOK, NeverAhead, LoopInv, LagExact, Waiting
  <2>3. QED
    BY <2>1, <2>2 DEF KIInv
<1>7. CASE GetAdvance
  <2>1. read_pos' \in Slots
    <3>1. read_pos + 1 \in Nat
      BY <1>0 DEF KTypeOK, Slots
    <3>2. QED
      BY <1>7, <3>1, ModInSlots DEF GetAdvance
  <2>2. KTypeOK'
    BY <1>0, <1>7, <2>1 DEF GetAdvance, KTypeOK, Labels
  <2>3. NeverAhead' /\ LoopInv' /\ LagExact'
    BY <1>0, <1>7 DEF GetAdvance, NeverAhead, LoopInv, LagExact, Waiting
  <2>4. QED
    BY <2>2, <2>3 DEF KIInv
<1>8. CASE Putc
  BY <1>0, <1>8 DEF Putc, KIInv, KTypeOK, NeverAhead, LoopInv, LagExact, Waiting, Labels, fvars
<1>9. CASE UNCHANGED vars
  BY <1>0, <1>9 DEF vars, fvars, loopVars, KIInv, KTypeOK, NeverAhead,
                    LoopInv, LagExact, Waiting
<1>10. QED
  BY <1>1, <1>2, <1>3, <1>4, <1>5, <1>6, <1>7, <1>8, <1>9
     DEF KNext, MainLoop

\* Every variable of the FIFO stays in range under every interleaving of the
\* loop of kmain with the keyboard interrupt: no index outside the buffer.
THEOREM LoopTypeCorrect == KSpec => []KTypeOK
<1>1. KIInv => KTypeOK
  BY DEF KIInv
<1>2. QED
  BY KInitIInv, KNextIInv, <1>1, PTL DEF KSpec

\* The count never runs ahead of the entries that are there: the unprotected
\* decrement of fifo_get can delay characters but never invents one.
THEOREM CountNeverAhead == KSpec => []NeverAhead
<1>1. KIInv => NeverAhead
  BY DEF KIInv
<1>2. QED
  BY KInitIInv, KNextIInv, <1>1, PTL DEF KSpec

\* The count lags by exactly the increments that fifo_get undid, for every
\* size of the buffer; an unread entry is overwritten only after such a loss.
THEOREM LagIsLoss == KSpec => []LagExact
<1>1. KIInv => LagExact
  BY DEF KIInv
<1>2. QED
  BY KInitIInv, KNextIInv, <1>1, PTL DEF KSpec

-----------------------------------------------------------------------------
(* The order of the characters.                                            *)

\* Division with remainder.
LEMMA RemainderIs ==
  ASSUME NEW m \in Nat \ {0}, NEW q \in Nat, NEW rest \in 0 .. m - 1
  PROVE  (q * m + rest) % m = rest
  BY Z3

LEMMA Remainder ==
  ASSUME NEW n \in Nat, NEW m \in Nat \ {0}
  PROVE  \E q \in Nat : n % m \in 0 .. m - 1 /\ n = q * m + (n % m)
<1>1. PICK q \in Nat, rest \in 0 .. m - 1 : n = q * m + rest
  <2>1. n \div m \in Nat /\ (n \div m) * m <= n /\ n < (n \div m + 1) * m
    BY SMT
  <2>2. n - (n \div m) * m \in 0 .. m - 1
    BY <2>1, Z3
  <2>3. n = (n \div m) * m + (n - (n \div m) * m)
    BY <2>1, Z3
  <2>4. QED
    BY <2>1, <2>2, <2>3
<1>2. n % m = rest
  <2>1. (q * m + rest) % m = rest
    BY RemainderIs
  <2>2. QED
    BY <1>1, <2>1
<1>3. QED
  BY <1>1, <1>2

\* Numbers less than m apart, but not equal, have different remainders.
LEMMA ApartDiffer ==
  ASSUME NEW m \in Nat \ {0}, NEW a \in Nat, NEW b \in Nat, a < b, b - a < m
  PROVE  a % m # b % m
<1>1. PICK q \in Nat : a % m \in 0 .. m - 1 /\ a = q * m + (a % m)
  BY Remainder
<1>2. PICK p \in Nat : b % m \in 0 .. m - 1 /\ b = p * m + (b % m)
  BY Remainder
<1> DEFINE rest == a % m
           s == b % m
<1>3. rest \in Nat /\ s \in Nat /\ a = q * m + rest /\ b = p * m + s
  BY <1>1, <1>2
<1> HIDE DEF rest, s
<1>4. ASSUME rest = s PROVE FALSE
  <2>1. p * m \in Nat /\ q * m \in Nat
    OBVIOUS
  <2>2. p > q
    <3>1. ASSUME p <= q PROVE p * m <= q * m
      BY <3>1, Z3
    <3>2. QED
      BY <1>3, <1>4, <2>1, <3>1
  <2>3. p * m >= q * m + m
    <3>1. (q + 1) * m <= p * m
      BY <2>2, Z3
    <3>2. (q + 1) * m = q * m + m
      BY Z3
    <3>3. QED
      BY <3>1, <3>2
  <2>4. QED
    BY <1>3, <1>4, <2>1, <2>3
<1>5. QED
  BY <1>4 DEF rest, s

\* Advancing a position is counting on.
LEMMA Advance ==
  ASSUME NEW m \in Nat \ {0}, NEW n \in Nat
  PROVE  ((n % m) + 1) % m = (n + 1) % m
<1>1. PICK q \in Nat : n % m \in 0 .. m - 1 /\ n = q * m + (n % m)
  BY Remainder
<1> DEFINE rest == n % m
<1>2. rest \in 0 .. m - 1 /\ n = q * m + rest
  BY <1>1
<1> HIDE DEF rest
<1>3. CASE rest + 1 < m
  <2>1. rest + 1 \in 0 .. m - 1 /\ 0 \in Nat
    BY <1>2, <1>3
  <2>2. (q * m + (rest + 1)) % m = rest + 1
    BY <2>1, RemainderIs
  <2>3. (0 * m + (rest + 1)) % m = rest + 1
    BY <2>1, RemainderIs
  <2>4. n + 1 = q * m + (rest + 1) /\ rest + 1 = 0 * m + (rest + 1)
    BY <1>2
  <2>5. QED
    BY <2>2, <2>3, <2>4 DEF rest
<1>4. CASE rest + 1 = m
  <2>1. 0 \in 0 .. m - 1 /\ q + 1 \in Nat /\ 1 \in Nat
    OBVIOUS
  <2>2. ((q + 1) * m + 0) % m = 0
    BY <2>1, RemainderIs
  <2>3. (1 * m + 0) % m = 0
    BY <2>1, RemainderIs
  <2>4. n + 1 = (q + 1) * m + 0 /\ rest + 1 = 1 * m + 0
    BY <1>2, <1>4, Z3
  <2>5. QED
    BY <2>2, <2>3, <2>4 DEF rest
<1>5. QED
  BY <1>2, <1>3, <1>4

\* The loop has copied an entry and not yet printed it.
Copied == {"load", "store", "advance", "putc"}

\* The two positions are the numbers of characters accepted and read, wrapped;
\* read_pos is advanced last.
PositionsCount ==
  /\ write_pos = Len(accepted) % MaxEntries
  /\ read_pos = (IF pc \in {"load", "store", "advance"} THEN taken - 1 ELSE taken) % MaxEntries

\* Until one is overwritten, the slots hold the characters that wait.
SlotsHold ==
  ~overrun => /\ Waiting <= MaxEntries
              /\ \A k \in taken .. Len(accepted) - 1 :
                   entries[k % MaxEntries] = accepted[k + 1]

\* The loop only prints what it has copied: the tests after haschar never fail.
OutIsTaken ==
  pc \in Copied => taken \in 1 .. Len(accepted) /\ (~overrun => out = accepted[taken])

OrderInv == PositionsCount /\ SlotsHold /\ OutIsTaken

LEMMA OrderInit == KInit => OrderInv
<1> SUFFICES ASSUME KInit PROVE OrderInv
  OBVIOUS
<1>1. /\ read_pos = 0 /\ write_pos = 0 /\ pc = "poll" /\ taken = 0 /\ accepted = <<>>
  BY DEF KInit, Init, FifoInit
<1>2. 0 % MaxEntries = 0
  <2>1. 0 \in 0 .. MaxEntries - 1 /\ 0 \in Nat
    BY FifoAssumption
  <2>2. (0 * MaxEntries + 0) % MaxEntries = 0
    BY <2>1, FifoAssumption, RemainderIs
  <2>3. 0 * MaxEntries + 0 = 0
    BY FifoAssumption
  <2>4. QED
    BY <2>2, <2>3
<1>3. Len(accepted) = 0
  BY <1>1
<1>4. PositionsCount
  BY <1>1, <1>2, <1>3 DEF PositionsCount
<1>5. SlotsHold /\ OutIsTaken
  BY <1>1, <1>3, FifoAssumption DEF SlotsHold, OutIsTaken, Copied, Waiting
<1>6. QED
  BY <1>4, <1>5 DEF OrderInv

\* fifo_add, between any two steps of the loop.
LEMMA OrderInterrupt ==
  ASSUME KIInv, OrderInv, NEW e \in Entry, KeyboardInterrupt(e)
  PROVE  OrderInv'
<1>1. KTypeOK /\ NeverAhead
  BY DEF KIInv
<1> DEFINE n == Len(accepted)
<1>2. /\ n \in Nat /\ taken \in Nat /\ taken <= n /\ MaxEntries \in Nat \ {0}
      /\ accepted \in Seq(Entry)
  BY <1>1, FifoAssumption DEF KTypeOK, NeverAhead
<1>3. CASE num_entries < MaxEntries
  <2>1. /\ entries' = [entries EXCEPT ![write_pos] = e]
        /\ write_pos' = (write_pos + 1) % MaxEntries
        /\ accepted' = Append(accepted, e)
        /\ overrun' = (overrun \/ n - taken >= MaxEntries)
        /\ read_pos' = read_pos /\ out' = out /\ pc' = pc /\ taken' = taken
    BY <1>3 DEF KeyboardInterrupt, FifoAdd, loopVars
  <2>2. /\ Len(accepted') = n + 1 /\ accepted'[n + 1] = e
        /\ \A k \in 1 .. n : accepted'[k] = accepted[k]
    BY <1>2, <2>1
  <2>2a. ~overrun' => ~overrun /\ ~ (n - taken >= MaxEntries)
    BY <2>1, Zenon
  <2>2b. ~overrun' => n - taken < MaxEntries
    <3> HIDE DEF n
    <3>1. QED
      BY <1>2, <2>2a
  <2> HIDE DEF n
  <2>3. PositionsCount'
    <3>1. write_pos = n % MaxEntries
      BY DEF OrderInv, PositionsCount, n
    <3>2. ((n % MaxEntries) + 1) % MaxEntries = (n + 1) % MaxEntries
      BY <1>2, Advance
    <3>3. write_pos' = Len(accepted') % MaxEntries
      BY <2>1, <2>2, <3>1, <3>2
    <3>4. QED
      BY <2>1, <3>3 DEF OrderInv, PositionsCount
  <2>4. SlotsHold'
    <3> SUFFICES ASSUME ~overrun'
                 PROVE  /\ n + 1 - taken <= MaxEntries
                        /\ \A k \in taken .. n : entries'[k % MaxEntries] = accepted'[k + 1]
      <4>1. taken' = taken /\ (n + 1) - 1 = n /\ Len(accepted') = n + 1
        BY <1>2, <2>1, <2>2
      <4>2. Len(accepted') - taken' = n + 1 - taken /\ Len(accepted') - 1 = n
        BY <1>2, <4>1
      <4>3. QED
        BY <4>1, <4>2 DEF SlotsHold, Waiting
    <3>1. ~overrun /\ n - taken < MaxEntries
      BY <2>2a, <2>2b
    <3>2. write_pos = n % MaxEntries /\ entries \in [Slots -> Entry] /\ write_pos \in Slots
      BY <1>1 DEF OrderInv, PositionsCount, n, KTypeOK
    <3>3. ASSUME NEW k \in taken .. n - 1
          PROVE  entries'[k % MaxEntries] = accepted'[k + 1]
      <4>1. entries[k % MaxEntries] = accepted[k + 1]
        BY <3>1 DEF OrderInv, SlotsHold, n
      <4>2. k \in Nat /\ k < n /\ n - k < MaxEntries
        BY <1>2, <3>1
      <4>3. k % MaxEntries # n % MaxEntries
        BY <1>2, <4>2, ApartDiffer
      <4>4. k % MaxEntries \in Slots
        BY <4>2, ModInSlots
      <4>5. entries'[k % MaxEntries] = entries[k % MaxEntries]
        BY <2>1, <3>2, <4>3, <4>4
      <4>6. k + 1 \in 1 .. n
        BY <1>2, <4>2
      <4>7. QED
        BY <2>2, <4>1, <4>5, <4>6
    <3>4. entries'[n % MaxEntries] = accepted'[n + 1]
      BY <2>1, <2>2, <3>2
    <3>5. QED
      <4>1. n + 1 - taken <= MaxEntries
        BY <1>2, <3>1
      <4>2. \A k \in taken .. n : k \in taken .. n - 1 \/ k = n
        BY <1>2
      <4>3. QED
        BY <3>3, <3>4, <4>1, <4>2
  <2>5. OutIsTaken'
    <3> SUFFICES ASSUME pc \in Copied
                 PROVE  taken \in 1 .. n + 1 /\ (~overrun' => out = accepted'[taken])
      BY <2>1, <2>2 DEF OutIsTaken
    <3>1. taken \in 1 .. n /\ (~overrun => out = accepted[taken])
      BY DEF OrderInv, OutIsTaken, n
    <3>2. taken \in 1 .. n + 1 /\ accepted'[taken] = accepted[taken]
      BY <1>2, <2>2, <3>1
    <3>3. QED
      BY <2>2a, <3>1, <3>2
  <2>6. QED
    BY <2>3, <2>4, <2>5 DEF OrderInv
<1>4. CASE ~ (num_entries < MaxEntries)
  <2>1. UNCHANGED <<fvars, loopVars, accepted, overrun>>
    BY <1>4 DEF KeyboardInterrupt, FifoAdd, fifoVars, fvars
  <2>2. QED
    BY <2>1 DEF fvars, loopVars, OrderInv, PositionsCount, SlotsHold, OutIsTaken, Waiting
<1>5. QED
  BY <1>3, <1>4

LEMMA OrderNext == KIInv /\ OrderInv /\ [KNext]_vars => OrderInv'
<1> SUFFICES ASSUME KIInv, OrderInv, [KNext]_vars PROVE OrderInv'
  OBVIOUS
<1>1. KTypeOK /\ NeverAhead /\ LoopInv /\ PositionsCount /\ SlotsHold /\ OutIsTaken
  BY DEF KIInv, OrderInv
<1>2. ASSUME NEW e \in Entry, KeyboardInterrupt(e) PROVE OrderInv'
  BY <1>2, OrderInterrupt
<1>3. CASE Poll \/ Putc
  <2>1. /\ UNCHANGED <<fvars, taken, accepted, overrun>>
        /\ pc' \in {"poll", "getchar"} /\ pc \in {"poll", "putc"}
    BY <1>3 DEF Poll, Putc
  <2>2. QED
    BY <1>1, <2>1 DEF fvars, OrderInv, PositionsCount, SlotsHold, OutIsTaken, Waiting, Copied
<1>4. CASE Getchar
  <2>1. /\ UNCHANGED <<fvars, taken, accepted, overrun>>
        /\ pc' = "get" /\ pc = "getchar"
    BY <1>1, <1>4 DEF Getchar, FifoEmpty, LoopInv, fvars, fifoVars
  <2>2. QED
    BY <1>1, <2>1 DEF fvars, OrderInv, PositionsCount, SlotsHold, OutIsTaken, Waiting, Copied
<1>5. CASE GetCopy
  <2>1. /\ UNCHANGED <<fifoVars, accepted, overrun>> /\ num_entries >= 1
        /\ pc = "get" /\ pc' = "load" /\ taken' = taken + 1 /\ out' = entries[read_pos]
    BY <1>1, <1>5 DEF GetCopy, LoopInv, KTypeOK
  <2>2. taken \in Nat /\ Len(accepted) \in Nat /\ taken + 1 <= Len(accepted)
    BY <1>1, <2>1 DEF KTypeOK, NeverAhead, Waiting
  <2>3. PositionsCount'
    BY <1>1, <2>1, <2>2 DEF PositionsCount, fifoVars
  <2>4. SlotsHold'
    <3> SUFFICES ASSUME ~overrun PROVE SlotsHold'
      BY <2>1 DEF SlotsHold
    <3>1. /\ Len(accepted) - taken <= MaxEntries
          /\ \A k \in taken .. Len(accepted) - 1 :
               entries[k % MaxEntries] = accepted[k + 1]
      BY <1>1 DEF SlotsHold, Waiting
    <3>2. /\ Len(accepted) - (taken + 1) <= MaxEntries
          /\ \A k \in taken + 1 .. Len(accepted) - 1 : k \in taken .. Len(accepted) - 1
      BY <2>2, <3>1, FifoAssumption
    <3>3. QED
      BY <2>1, <3>1, <3>2 DEF SlotsHold, Waiting, fifoVars
  <2>5. OutIsTaken'
    <3>1. ~overrun => entries[taken % MaxEntries] = accepted[taken + 1]
      BY <1>1, <2>2 DEF SlotsHold
    <3>2. read_pos = taken % MaxEntries
      BY <1>1, <2>1 DEF PositionsCount
    <3>3. QED
      BY <2>1, <2>2, <3>1, <3>2 DEF OutIsTaken, Copied
  <2>6. QED
    BY <2>3, <2>4, <2>5 DEF OrderInv
<1>6. CASE GetLoad \/ GetStore
  <2>1. /\ UNCHANGED <<read_pos, write_pos, entries, out, taken, accepted, overrun>>
        /\ pc \in {"load", "store"} /\ pc' \in {"store", "advance"}
    BY <1>6 DEF GetLoad, GetStore, fvars
  <2>2. QED
    BY <1>1, <2>1 DEF OrderInv, PositionsCount, SlotsHold, OutIsTaken, Waiting, Copied
<1>7. CASE GetAdvance
  <2>1. /\ UNCHANGED <<write_pos, entries, out, taken, accepted, overrun>>
        /\ pc = "advance" /\ pc' = "putc" /\ read_pos' = (read_pos + 1) % MaxEntries
    BY <1>7 DEF GetAdvance
  <2>2. taken \in Nat \ {0}
    BY <1>1, <2>1 DEF OutIsTaken, Copied, KTypeOK
  <2>3. read_pos' = taken % MaxEntries
    <3>1. read_pos = (taken - 1) % MaxEntries
      BY <1>1, <2>1 DEF PositionsCount
    <3>2. (((taken - 1) % MaxEntries) + 1) % MaxEntries = ((taken - 1) + 1) % MaxEntries
      <4>1. taken - 1 \in Nat
        BY <2>2
      <4>2. QED
        BY <4>1, FifoAssumption, Advance
    <3>3. (taken - 1) + 1 = taken
      BY <2>2
    <3>4. QED
      BY <2>1, <3>1, <3>2, <3>3
  <2>4. QED
    BY <1>1, <2>1, <2>3 DEF OrderInv, PositionsCount, SlotsHold, OutIsTaken, Waiting, Copied
<1>8. CASE UNCHANGED vars
  BY <1>1, <1>8 DEF vars, fvars, loopVars, OrderInv, PositionsCount, SlotsHold,
                    OutIsTaken, Waiting
<1>9. QED
  BY <1>2, <1>3, <1>4, <1>5, <1>6, <1>7, <1>8 DEF KNext, MainLoop

\* keyboard_getchar: the characters printed are those accepted, in order and
\* once each, until an unread entry is overwritten; no -1 reaches putc.
THEOREM CharactersInOrder == KSpec => []InOrder
<1>1. KInit => KIInv /\ OrderInv
  BY KInitIInv, OrderInit
<1>2. (KIInv /\ OrderInv) /\ [KNext]_vars => (KIInv /\ OrderInv)'
  BY KNextIInv, OrderNext
<1>3. KIInv /\ OrderInv => InOrder
  <2> SUFFICES ASSUME KIInv, OrderInv, pc = "putc"
               PROVE  taken \in DOMAIN accepted /\ (~overrun => out = accepted[taken])
    BY DEF InOrder
  <2>1. taken \in 1 .. Len(accepted) /\ (~overrun => out = accepted[taken])
    BY DEF OrderInv, OutIsTaken, Copied
  <2>2. accepted \in Seq(Entry)
    BY DEF KIInv, KTypeOK
  <2>3. QED
    BY <2>1, <2>2
<1>4. QED
  BY <1>1, <1>2, <1>3, PTL DEF KSpec
-----------------------------------------------------------------------------
(* The cursor.                                                             *)

\* Where the column may be one further still, and the row the height.
ColumnOver == {"col?", "wrap"}
RowOver == {"row?", "scroll"}
Writing == {"glyph", "cell", "col"}

\* The cursor at each place of console_putch, and the registers: the rows they
\* were loaded with are on the screen when they are used.
CursorNear ==
  /\ row \in 0 .. Height /\ col \in 0 .. Bytes - 1
  /\ at \notin RowOver => row < Height
  /\ at \in {"cell", "row+1", "clear", "setrow"} => r \in 0 .. Height - 1
  /\ at \in {"newcol", "args2", "setrow", "setcol"} => c \in 0 .. Bytes - 1

\* Without a message inside a backspace: how far right the column is, and that a
\* tab adds to it below the width and a backspace takes from it above 0.
Unraced ==
  /\ col <= IF at \in ColumnOver THEN Width + 1 ELSE Width
  /\ at \in Writing => (out = Tab => col < Width) /\ (out = Backspace => col > 0)
  /\ at = "newcol" => /\ c <= Width
                      /\ out = Tab => c < Width
                      /\ out = Backspace => c > 0
  /\ at \in {"args2", "setrow", "setcol"} => c <= Width
  /\ left > 0 => ~ InBackspace

\* Where the loop is, and the branches it can have taken.
InBranch == /\ pc # "putc" => at = "start"
            /\ at = "tab?" => out = Tab
            /\ at = "back?" => out = Backspace

TInv == /\ CursorNear /\ InBranch /\ (~ raced => Unraced)
        /\ left \in Nat /\ raced \in BOOLEAN
        /\ furthest \in 0 .. Cell(Height, LastCol)

LEMMA Extent ==
  /\ Width \in Nat \ {0} /\ Height \in Nat \ {0} /\ MessageLength \in Nat
  /\ Bytes \in Nat /\ Width + 1 < Bytes /\ Height + 1 < Bytes
  /\ Tab # Backspace
  BY TerminalAssumption

\* The cell under the cursor, in a row of the screen or the one after it.
LEMMA CellNear ==
  ASSUME NEW k \in 0 .. Height, NEW j \in Nat, NEW last \in Nat,
         j <= last \/ (k < Height /\ j <= Width + 1), Width <= last
  PROVE  Cell(k, j) \in 0 .. Cell(Height, last)
<1>1. /\ k * Width \in Nat /\ Height * Width \in Nat
      /\ (k + 1) * Width = k * Width + Width
  BY Extent, Z3
<1>2. k * Width <= Height * Width
  BY Extent, Z3
<1>3. k < Height => (k + 1) * Width <= Height * Width
  BY Extent, Z3
<1>4. CASE k < Height /\ j <= Width + 1
  BY <1>1, <1>3, <1>4, Extent DEF Cell
<1>5. CASE j <= last
  BY <1>1, <1>2, <1>5, Extent DEF Cell
<1>6. QED
  BY <1>4, <1>5

LEMMA LastColIs ==
  ASSUME raced \in BOOLEAN
  PROVE  LastCol \in Nat /\ Width <= LastCol
  BY Extent DEF LastCol

LEMMA FurtherNear ==
  ASSUME TInv, NEW cell \in 0 .. Cell(Height, LastCol)
  PROVE  Further(cell) \in 0 .. Cell(Height, LastCol)
  BY DEF TInv, Further

\* The cell of the screen that the cursor is at.
LEMMA CursorCell ==
  ASSUME TInv, NEW k \in 0 .. Height, k < Height \/ (at \notin ColumnOver)
  PROVE  Cell(k, col) \in 0 .. Cell(Height, LastCol)
<1>1. col \in 0 .. Bytes - 1 /\ (~ raced => Unraced) /\ raced \in BOOLEAN
  BY DEF TInv, CursorNear
<1>2. LastCol \in Nat /\ Width <= LastCol
  BY <1>1, LastColIs
<1>3. col <= LastCol \/ (k < Height /\ col <= Width + 1)
  <2>1. CASE raced
    BY <1>1, <2>1, Extent DEF LastCol
  <2>2. CASE ~ raced
    BY <1>1, <2>2, Extent DEF LastCol, Unraced
  <2>3. QED
    BY <2>1, <2>2
<1>4. QED
  BY <1>1, <1>2, <1>3, Extent, CellNear

LEMMA TInitTInv == TInit => TInv
<1> SUFFICES ASSUME TInit PROVE TInv
  OBVIOUS
<1>1. /\ row \in 0 .. Height - 1 /\ col = 0 /\ furthest = 0 /\ at = "start"
      /\ left = 0 /\ raced = FALSE
  BY DEF TInit
<1>2. CursorNear /\ InBranch
  BY <1>1, Extent DEF CursorNear, RowOver, InBranch
<1>3. Unraced
  BY <1>1, Extent DEF Unraced, ColumnOver, Writing, InBackspace
<1>4. Cell(0, 0) \in 0 .. Cell(Height, LastCol)
  <2>1. LastCol \in Nat /\ Width <= LastCol
    BY <1>1, LastColIs
  <2>2. 0 \in 0 .. Height /\ 0 \in Nat /\ 0 <= LastCol
    BY <2>1, Extent
  <2>3. QED
    BY <2>1, <2>2, CellNear
<1>5. Cell(0, 0) = 0
  BY Extent DEF Cell
<1>6. QED
  BY <1>1, <1>2, <1>3, <1>4, <1>5 DEF TInv

\* One character of the message.
LEMMA PrintNear == TInv /\ PrintChar => TInv'
<1> SUFFICES ASSUME TInv, PrintChar PROVE TInv'
  OBVIOUS
<1> DEFINE newline == left = 1
           next == (col + 1) % Bytes
           down == newline \/ next >= Width
           below == IF row + 1 >= Height THEN Height - 1 ELSE row + 1
           cell == IF newline THEN Cell(below, 0) ELSE Cell(row, col)
<1>1. /\ left > 0 /\ left' = left - 1 /\ UNCHANGED <<at, r, c, raced, pc, out>>
      /\ row' = IF down THEN below ELSE row
      /\ col' = IF down THEN 0 ELSE next
      /\ furthest' = Further(cell)
  BY DEF PrintChar, putch, vars, fvars, loopVars
<1>2. /\ row \in 0 .. Height /\ col \in 0 .. Bytes - 1 /\ left \in Nat /\ raced \in BOOLEAN
      /\ at \notin RowOver => row < Height
      /\ CursorNear /\ InBranch /\ (~ raced => Unraced)
  BY DEF TInv, CursorNear
<1>3. below \in 0 .. Height - 1
  BY <1>2, Extent
<1>4. next \in 0 .. Bytes - 1
  BY <1>2, Extent, SMT
<1>5. cell \in 0 .. Cell(Height, LastCol)
  <2>1. row < Height \/ at \notin ColumnOver
    BY <1>2 DEF ColumnOver, RowOver
  <2>2. Cell(row, col) \in 0 .. Cell(Height, LastCol)
    BY <1>2, <2>1, CursorCell
  <2>3. Cell(below, 0) \in 0 .. Cell(Height, LastCol)
    <3>1. LastCol \in Nat /\ Width <= LastCol
      BY <1>2, LastColIs
    <3>2. below \in 0 .. Height /\ 0 \in Nat /\ 0 <= LastCol
      BY <1>3, <3>1, Extent
    <3> HIDE DEF below
    <3>3. QED
      BY <3>1, <3>2, CellNear
  <2>4. QED
    BY <2>2, <2>3
<1> HIDE DEF below, cell, next
<1>6. furthest' \in 0 .. Cell(Height, LastCol)
  BY <1>1, <1>5, FurtherNear
<1>7. furthest' \in 0 .. Cell(Height, LastCol)'
  BY <1>1, <1>6 DEF Cell, LastCol
<1>8. /\ row' \in 0 .. Height /\ (at \notin RowOver => row' < Height)
      /\ col' \in 0 .. Bytes - 1 /\ col' < Width
  BY <1>1, <1>2, <1>3, <1>4, Extent
<1>9. CursorNear' /\ InBranch'
  BY <1>1, <1>2, <1>8 DEF CursorNear, InBranch
<1>10. ASSUME ~ raced PROVE Unraced'
  <2>1. Unraced /\ ~ InBackspace
    BY <1>1, <1>2, <1>10 DEF Unraced
  <2>2. ~ InBackspace'
    BY <1>1, <2>1 DEF InBackspace
  <2>3. at' \in Writing => out' # Backspace
    BY <2>2 DEF InBackspace, Writing
  <2>4. /\ col' < Width /\ col' \in 0 .. Bytes - 1
        /\ col' <= IF at' \in ColumnOver THEN Width + 1 ELSE Width
    BY <1>8, Extent
  <2>5. QED
    BY <1>1, <2>1, <2>2, <2>3, <2>4 DEF Unraced
<1>11. QED
  BY <1>1, <1>2, <1>7, <1>9, <1>10 DEF TInv

\* The steps that write a cell.
LEMMA WriteNear == TInv /\ (WriteGlyph \/ ClearLine) /\ UNCHANGED <<left, raced>> => TInv'
<1> SUFFICES ASSUME TInv, WriteGlyph \/ ClearLine, UNCHANGED <<left, raced>> PROVE TInv'
  OBVIOUS
<1>1. /\ furthest' = Further(Cell(r, col)) /\ UNCHANGED <<row, col, r, c, out, pc>>
      /\ at \in {"cell", "clear"} /\ at' = (IF at = "cell" THEN "col" ELSE "args")
      /\ pc = "putc" /\ left' = left /\ raced' = raced
  BY DEF WriteGlyph, ClearLine, Step, vars, fvars, loopVars
<1>2. CursorNear /\ InBranch /\ (~ raced => Unraced) /\ raced \in BOOLEAN
  BY DEF TInv
<1>3. r \in 0 .. Height /\ r < Height
  BY <1>1, <1>2, Extent DEF CursorNear
<1>4. furthest' \in 0 .. Cell(Height, LastCol)
  <2>1. Cell(r, col) \in 0 .. Cell(Height, LastCol)
    BY <1>3, CursorCell
  <2>2. QED
    BY <1>1, <2>1, FurtherNear
<1>5. furthest' \in 0 .. Cell(Height, LastCol)'
  BY <1>1, <1>4 DEF Cell, LastCol
<1>6. CursorNear' /\ InBranch'
  BY <1>1, <1>2 DEF CursorNear, InBranch, RowOver
<1>7. ASSUME ~ raced PROVE Unraced'
  BY <1>1, <1>2, <1>7 DEF Unraced, ColumnOver, Writing, InBackspace
<1>8. QED
  BY <1>1, <1>2, <1>5, <1>6, <1>7 DEF TInv

\* The steps that only move the cursor, or read it.
LEMMA PutchNear == TInv /\ Putch /\ left = 0 /\ UNCHANGED <<left, raced>> => TInv'
<1> SUFFICES ASSUME TInv, Putch, left = 0, UNCHANGED <<left, raced>> PROVE TInv'
  OBVIOUS
<1>1. /\ CursorNear /\ InBranch /\ (~ raced => Unraced) /\ raced \in BOOLEAN
      /\ furthest \in 0 .. Cell(Height, LastCol)
  BY DEF TInv
<1>2. CASE /\ furthest' = furthest
           /\ CursorNear' /\ InBranch' /\ (~ raced => Unraced')
  <2>1. furthest' \in 0 .. Cell(Height, LastCol)'
    BY <1>1, <1>2 DEF Cell, LastCol
  <2>2. left' \in Nat /\ raced' \in BOOLEAN /\ raced' = raced
    BY <1>1
  <2>3. QED
    BY <1>2, <2>1, <2>2 DEF TInv
<1>3. WriteGlyph \/ ClearLine => TInv'
  BY WriteNear
<1>4. UNCHANGED vars => UNCHANGED <<out, pc>>
  BY DEF vars, fvars, loopVars
<1>5. StoreCol => furthest' = furthest /\ CursorNear' /\ InBranch' /\ (~ raced => Unraced')
  <2> SUFFICES ASSUME StoreCol
               PROVE  furthest' = furthest /\ CursorNear' /\ InBranch' /\ (~ raced => Unraced')
    OBVIOUS
  <2>1. /\ at = "newcol" /\ at' = AfterCol /\ UNCHANGED <<row, furthest, r, c, out, pc>>
        /\ col' = (IF out = Backspace THEN c + Bytes - 1 ELSE c + 1) % Bytes
        /\ pc = "putc"
    BY <1>4 DEF StoreCol, Step
  <2>2. c \in 0 .. Bytes - 1
    BY <1>1, <2>1 DEF CursorNear
  <2>3. col' \in 0 .. Bytes - 1
    <3>1. \A k \in Nat : k % Bytes \in 0 .. Bytes - 1
      BY Extent
    <3>2. (IF out = Backspace THEN c + Bytes - 1 ELSE c + 1) \in Nat
      BY <2>2, Extent
    <3>3. QED
      BY <2>1, <3>1, <3>2
  <2>4. at' \in {"tab?", "args", "col?"}
        /\ (at' = "tab?" => out = Tab)
        /\ (at' = "col?" => out # Tab /\ out # Backspace)
    BY <2>1 DEF AfterCol
  <2>5. CursorNear' /\ InBranch'
    BY <1>1, <2>1, <2>3, <2>4 DEF CursorNear, InBranch, RowOver
  <2>6. ASSUME ~ raced PROVE Unraced'
    <3>1. /\ c <= Width /\ (out = Tab => c < Width) /\ (out = Backspace => c > 0)
      <4>1. Unraced
        BY <1>1, <2>6
      <4>2. QED
        BY <2>1, <4>1 DEF Unraced
    <3>2. CASE out = Backspace
      <4>1. c + Bytes - 1 = Bytes * 1 + (c - 1) /\ c - 1 \in 0 .. Bytes - 1
        BY <2>2, <3>1, <3>2, Extent
      <4>2. col' = c - 1
        <5>1. c + Bytes - 1 \in 0 .. (2 * Bytes - 1) /\ Bytes \in Nat \ {0}
          BY <2>2, <3>1, <3>2, Extent
        <5>2. PICK k \in 0 .. (2 * Bytes - 1) : k = c + Bytes - 1
          BY <5>1
        <5>3. k % Bytes = IF k < Bytes THEN k ELSE k - Bytes
          BY <5>1, ModOnce
        <5>4. col' = k % Bytes
          BY <2>1, <3>2, <5>2
        <5>5. QED
          BY <2>2, <3>1, <3>2, <5>2, <5>3, <5>4, Extent
      <4>3. at' # "col?"
        BY <2>4, <3>2
      <4>4. col' <= Width
        BY <2>2, <3>1, <4>2, Extent
      <4>5. QED
        BY <2>1, <2>4, <4>3, <4>4 DEF Unraced, ColumnOver, Writing, InBackspace
    <3>3. CASE out # Backspace
      <4>1. col' = c + 1
        <5>1. c + 1 \in 0 .. (2 * Bytes - 1) /\ Bytes \in Nat \ {0} /\ c + 1 < Bytes
          BY <2>2, <3>1, Extent
        <5>2. PICK k \in 0 .. (2 * Bytes - 1) : k = c + 1
          BY <5>1
        <5>3. k % Bytes = IF k < Bytes THEN k ELSE k - Bytes
          BY <5>1, ModOnce
        <5>4. col' = k % Bytes
          BY <2>1, <3>3, <5>2
        <5>5. QED
          BY <5>1, <5>2, <5>3, <5>4
      <4>2. at' = "tab?" => col' <= Width
        BY <2>2, <2>4, <3>1, <4>1, Extent
      <4>3. at' = "args" => out = Tab \/ out = Backspace
        BY <2>1 DEF AfterCol
      <4>4. at' = "args" => col' <= Width
        BY <2>2, <3>1, <3>3, <4>1, <4>3, Extent
      <4>5. at' = "col?" => col' <= Width + 1
        BY <2>2, <3>1, <4>1, Extent
      <4>6. QED
        BY <2>1, <2>4, <4>2, <4>4, <4>5 DEF Unraced, ColumnOver, Writing, InBackspace
    <3>4. QED
      BY <3>2, <3>3
  <2>7. QED
    BY <2>1, <2>5, <2>6
<1>6. Begin => furthest' = furthest /\ CursorNear' /\ InBranch' /\ (~ raced => Unraced')
  <2> SUFFICES ASSUME Begin
               PROVE  furthest' = furthest /\ CursorNear' /\ InBranch' /\ (~ raced => Unraced')
    OBVIOUS
  <2>1. /\ at = "start" /\ at' = Branch /\ pc = "putc"
        /\ UNCHANGED <<row, col, furthest, r, c, out, pc>>
    BY <1>4 DEF Begin, Step, screen
  <2>2. /\ at' \in {"tab?", "row", "back?", "last", "glyph"}
        /\ at' = "tab?" => out = Tab
        /\ at' = "back?" => out = Backspace
        /\ at' = "glyph" => out # Tab /\ out # Backspace
    BY <2>1 DEF Branch
  <2>3. CursorNear' /\ InBranch'
    BY <1>1, <2>1, <2>2 DEF CursorNear, InBranch, RowOver
  <2>4. ASSUME ~ raced PROVE Unraced'
    BY <1>1, <2>1, <2>2, <2>4 DEF Unraced, ColumnOver, Writing, InBackspace
  <2>5. QED
    BY <2>1, <2>3, <2>4
<1> DEFINE Keeps == furthest' = furthest /\ CursorNear' /\ InBranch' /\ (~ raced => Unraced')
<1>7. ASSUME TestTab \/ TestBack \/ IndexRow \/ LoadCol PROVE Keeps
  <2>1. /\ UNCHANGED <<row, col, furthest, out, pc>> /\ pc = "putc"
        /\ at' \in {"glyph", "args", "cell", "newcol"}
        /\ at' = "glyph" => (at = "tab?" /\ col < Width) \/ (at = "back?" /\ col > 0)
        /\ at' = "args" => at \in {"tab?", "back?"}
        /\ at' = "cell" => at = "glyph" /\ r' = row
        /\ at' = "newcol" => at = "col" /\ c' = col
    BY <1>4, <1>7 DEF TestTab, TestBack, IndexRow, LoadCol, Step, Reads
  <2>2. CursorNear' /\ InBranch'
    BY <1>1, <2>1, Extent DEF CursorNear, InBranch, RowOver
  <2>3. ASSUME ~ raced PROVE Unraced'
    BY <1>1, <2>1, <2>3, Extent DEF Unraced, ColumnOver, Writing, InBackspace, InBranch
  <2>4. QED
    BY <2>1, <2>2, <2>3
<1>8. ASSUME TestCol \/ Wrap \/ LoadRow \/ StoreRow PROVE Keeps
  <2>1. /\ UNCHANGED <<furthest, out, pc>> /\ pc = "putc"
        /\ \/ at = "col?" /\ at' = "wrap" /\ UNCHANGED <<row, col>>
           \/ at = "col?" /\ at' = "args" /\ col < Width /\ UNCHANGED <<row, col>>
           \/ at = "wrap" /\ at' = "row" /\ col' = 0 /\ row' = row
           \/ at = "row" /\ at' = "row+1" /\ r' = row /\ UNCHANGED <<row, col>>
           \/ at = "row+1" /\ at' = "row?" /\ row' = r + 1 /\ col' = col
    BY <1>1, <1>4, <1>8, Extent DEF TestCol, Wrap, LoadRow, StoreRow, Step, Reads, CursorNear
  <2>2. CursorNear' /\ InBranch'
    BY <1>1, <2>1, Extent DEF CursorNear, InBranch, RowOver
  <2>3. ASSUME ~ raced PROVE Unraced'
    BY <1>1, <2>1, <2>3, Extent DEF Unraced, ColumnOver, Writing, InBackspace, CursorNear
  <2>4. QED
    BY <2>1, <2>2, <2>3
<1>9. ASSUME TestRow \/ Scroll \/ LastRow \/ ResetCol \/ ClearRow PROVE Keeps
  <2>1. /\ UNCHANGED <<furthest, out, pc>> /\ pc = "putc"
        /\ at' \in {"scroll", "col=0", "args", "line", "clear"}
        /\ col' = col \/ col' = 0
        /\ at' = "scroll" => row' = row
        /\ at' # "scroll" => row' \in 0 .. Height - 1
        /\ at' = "clear" => r' \in 0 .. Height - 1
        /\ at \in {"row?", "scroll", "last", "col=0", "line"}
    BY <1>1, <1>4, <1>9, Extent
       DEF TestRow, Scroll, AfterRow, LastRow, ResetCol, ClearRow, Step, Reads, CursorNear, RowOver
  <2>2. c' = c
    BY <1>9 DEF TestRow, Scroll, LastRow, ResetCol, ClearRow
  <2>3. CursorNear' /\ InBranch'
    BY <1>1, <2>1, Extent DEF CursorNear, InBranch, RowOver
  <2>4. ASSUME ~ raced PROVE Unraced'
    BY <1>1, <2>1, <2>4, Extent DEF Unraced, ColumnOver, Writing, InBackspace, CursorNear
  <2>5. QED
    BY <2>1, <2>3, <2>4
<1>10. ASSUME ArgCol \/ ArgRow \/ SetRow \/ SetCol \/ End PROVE Keeps
  <2>1. /\ UNCHANGED <<furthest, out>>
        /\ \/ /\ pc' = pc /\ pc = "putc"
              /\ \/ at = "args" /\ at' = "args2" /\ c' = col /\ UNCHANGED <<row, col>>
                 \/ at = "args2" /\ at' = "setrow" /\ r' = row /\ UNCHANGED <<row, col, c>>
                 \/ at = "setrow" /\ at' = "setcol" /\ row' = r /\ UNCHANGED <<col, c>>
                 \/ at = "setcol" /\ at' = "end" /\ col' = c /\ UNCHANGED row
           \/ at = "end" /\ at' = "start" /\ UNCHANGED <<row, col>>
    BY <1>4, <1>10 DEF ArgCol, ArgRow, SetRow, SetCol, End, Putc, Step, Reads, screen, fvars
  <2>2. CursorNear' /\ InBranch'
    BY <1>1, <2>1, Extent DEF CursorNear, InBranch, RowOver
  <2>3. ASSUME ~ raced PROVE Unraced'
    BY <1>1, <2>1, <2>3, Extent DEF Unraced, ColumnOver, Writing, InBackspace, CursorNear
  <2>4. QED
    BY <2>1, <2>2, <2>3
<1> HIDE DEF Keeps
<1>11. WriteGlyph \/ ClearLine \/ Keeps
  BY <1>5, <1>6, <1>7, <1>8, <1>9, <1>10 DEF Putch, Keeps
<1>12. QED
  BY <1>2, <1>3, <1>11 DEF Keeps

LEMMA TNextTInv == TInv /\ [TNext]_tvars => TInv'
<1> SUFFICES ASSUME TInv, [TNext]_tvars PROVE TInv'
  OBVIOUS
<1>1. /\ CursorNear /\ InBranch /\ (~ raced => Unraced) /\ raced \in BOOLEAN /\ left \in Nat
      /\ furthest \in 0 .. Cell(Height, LastCol)
  BY DEF TInv
<1>2. CASE UNCHANGED <<screen, putch, left, raced>> /\ pc # "putc"
  <2>1. /\ UNCHANGED <<row, col, furthest, at, r, c, left, raced>> /\ at = "start"
    BY <1>1, <1>2 DEF screen, putch, InBranch
  <2>2. CursorNear' /\ InBranch' /\ furthest' \in 0 .. Cell(Height, LastCol)'
    BY <1>1, <2>1 DEF CursorNear, InBranch, Cell, LastCol
  <2>3. ASSUME ~ raced PROVE Unraced'
    BY <1>1, <2>1, <2>3 DEF Unraced, ColumnOver, Writing, InBackspace
  <2>4. QED
    BY <1>1, <2>1, <2>2, <2>3 DEF TInv
<1>3. CASE Loop
  <2>1. Poll \/ Getchar \/ GetCopy \/ GetLoad \/ GetStore \/ GetAdvance => pc # "putc"
    BY DEF Poll, Getchar, GetCopy, GetLoad, GetStore, GetAdvance
  <2>2. QED
    BY <1>2, <1>3, <2>1, PutchNear DEF Loop
<1>4. ASSUME NEW e \in Entry, Interrupt(e) PROVE TInv'
  <2>1. /\ UNCHANGED <<row, col, furthest, at, r, c, out, pc>> /\ left = 0
        /\ \/ UNCHANGED <<left, raced>>
           \/ left' = MessageLength + 1 /\ raced' = (raced \/ InBackspace)
    BY <1>4 DEF Interrupt, KeyboardInterrupt, screen, putch, loopVars
  <2>2. CursorNear' /\ InBranch' /\ left' \in Nat /\ raced' \in BOOLEAN
    <3>1. CursorNear' /\ InBranch'
      BY <1>1, <2>1, Extent DEF CursorNear, InBranch
    <3>2. MessageLength + 1 \in Nat
      BY Extent
    <3>3. raced' \in BOOLEAN
      BY <1>1, <2>1, Zenon
    <3>4. left' \in Nat
      BY <1>1, <2>1, <3>2, Zenon
    <3>5. QED
      BY <3>1, <3>3, <3>4
  <2>3. ASSUME ~ raced' PROVE Unraced'
    <3>1. ~ raced /\ (left' > 0 => ~ InBackspace)
      <4>1. ~ raced /\ (left' = left \/ ~ InBackspace)
        <5>1. CASE UNCHANGED <<left, raced>>
          <6>1. left' = left /\ raced' = raced
            BY <5>1
          <6>2. QED
            BY <6>1, <2>3, Zenon
        <5>2. CASE raced' = (raced \/ InBackspace)
          BY <5>2, <2>3, Zenon
        <5>3. QED
          BY <2>1, <5>1, <5>2
      <4>2. ~ (left > 0)
        BY <2>1
      <4>3. QED
        BY <4>1, <4>2, Zenon
    <3>2. QED
      BY <1>1, <2>1, <3>1 DEF Unraced, ColumnOver, Writing, InBackspace
  <2>4. furthest' \in 0 .. Cell(Height, LastCol)'
    <3>1. Cell(Height, LastCol) <= Cell(Height, LastCol)'
      <4>1. LastCol \in Nat /\ LastCol' \in Nat /\ LastCol <= LastCol'
        <5>1. CASE raced' <=> raced
          <6>1. LastCol' = LastCol
            BY <5>1, Zenon DEF LastCol
          <6>2. LastCol \in Nat
            BY <1>1, LastColIs
          <6>3. QED
            BY <6>1, <6>2
        <5>2. CASE ~ raced /\ raced'
          BY <5>2, Extent DEF LastCol
        <5>3. (raced' <=> raced) \/ (~ raced /\ raced')
          BY <2>1, Zenon
        <5>4. QED
          BY <5>1, <5>2, <5>3
      <4>2. Height * Width \in Nat
        BY Extent
      <4>3. QED
        BY <4>1, <4>2 DEF Cell
    <3>2. Cell(Height, LastCol) \in Nat /\ Cell(Height, LastCol)' \in Nat
      <4>1. LastCol \in Nat /\ LastCol' \in Nat
        BY Extent DEF LastCol
      <4>2. Height * Width \in Nat
        BY Extent
      <4>3. QED
        BY <4>1, <4>2 DEF Cell
    <3>3. QED
      BY <1>1, <2>1, <3>1, <3>2
  <2>5. QED
    BY <2>2, <2>3, <2>4 DEF TInv
<1>5. CASE UNCHANGED tvars
  <2>1. UNCHANGED <<row, col, furthest, at, r, c, left, raced, out, pc>>
    BY <1>5 DEF tvars, screen, putch, vars, fvars, loopVars
  <2>2. CursorNear' /\ InBranch' /\ furthest' \in 0 .. Cell(Height, LastCol)'
    BY <1>1, <2>1 DEF CursorNear, InBranch, Cell, LastCol
  <2>3. ASSUME ~ raced PROVE Unraced'
    BY <1>1, <2>1, <2>3 DEF Unraced, InBackspace
  <2>4. QED
    BY <1>1, <2>1, <2>2, <2>3 DEF TInv
<1>6. QED
  BY <1>3, <1>4, <1>5, PrintNear DEF TNext

LEMMA CursorInvariant == TSpec => []TInv
<1>1. QED
  BY TInitTInv, TNextTInv, PTL DEF TSpec

\* console_putch, whole: whatever the message of fifo_add did to row and col in
\* between, the cursor is in a row of the screen, no further than just after its
\* end, whenever the loop is outside console_putch; only a message inside a
\* backspace can have sent it further.
THEOREM CursorComesBack == TSpec => []CursorBack
<1>1. TInv => CursorBack
  <2> SUFFICES ASSUME TInv, at = "start"
               PROVE  row \in 0 .. Height - 1 /\ col \in 0 .. LastCol
    BY DEF CursorBack
  <2>1. /\ row \in 0 .. Height - 1 /\ col \in 0 .. Bytes - 1 /\ raced \in BOOLEAN
        /\ ~ raced => col <= Width
    BY Extent DEF TInv, CursorNear, Unraced, ColumnOver, RowOver
  <2>2. QED
    BY <2>1, Extent DEF LastCol
<1>2. QED
  BY <1>1, CursorInvariant, PTL

\* console_putch and console_clear_line: no cell is written further than the row
\* after the screen and one, or than the largest column of that row once a
\* message was printed inside a backspace.
THEOREM WritesStayNear == TSpec => []WritesNear
<1>1. TInv => WritesNear
  <2> SUFFICES ASSUME TInv PROVE WritesNear
    OBVIOUS
  <2>1. Cell(Height, LastCol) \in Nat
    BY LastColIs, Extent DEF Cell, TInv
  <2>2. QED
    BY <2>1 DEF TInv, WritesNear
<1>2. QED
  BY <1>1, CursorInvariant, PTL

\* A putc that takes many steps, and an interrupt that prints, are still the
\* loop and the interrupt of KernelLoop: what holds there holds here.
THEOREM TerminalIsKernelLoop == TSpec => KSpec
<1>1. TInit => KInit
  BY DEF TInit
<1>2. [TNext]_tvars => [KNext]_vars
  <2>1. Putch => UNCHANGED vars \/ Putc
    BY DEF Putch, Begin, TestTab, TestBack, IndexRow, WriteGlyph, LoadCol, StoreCol, TestCol, Wrap,
       LoadRow, StoreRow, TestRow, Scroll, LastRow, ResetCol, ClearRow, ClearLine, ArgCol, ArgRow, SetRow, SetCol, End, Step
  <2>2. Loop => UNCHANGED vars \/ MainLoop
    BY <2>1 DEF Loop, MainLoop
  <2>3. PrintChar => UNCHANGED vars
    BY DEF PrintChar
  <2>4. \A e \in Entry : Interrupt(e) => KeyboardInterrupt(e)
    BY DEF Interrupt
  <2>5. UNCHANGED tvars => UNCHANGED vars
    BY DEF tvars
  <2>6. QED
    BY <2>2, <2>3, <2>4, <2>5 DEF TNext, KNext
<1>3. QED
  BY <1>1, <1>2, PTL DEF TSpec, KSpec

\* kmain with its putc opened up: the characters printed are those accepted, in
\* order, until an unread entry is overwritten; the count lags by the lost
\* increments; every index is in the buffer.
THEOREM PrintedInOrder == TSpec => [](KTypeOK /\ InOrder /\ LagExact)
<1>1. QED
  BY TerminalIsKernelLoop, LoopTypeCorrect, CharactersInOrder, LagIsLoss, PTL
=============================================================================
