--------------------------- MODULE InterruptsProof ---------------------------
(***************************************************************************)
(* For any lines and any depth of nesting: handlers run one at a time, and *)
(* the end-of-interrupt commands a stub writes after its handler end       *)
(* nothing but that handler's interrupt.                                   *)
(***************************************************************************)
EXTENDS Interrupts, SequenceTheorems, TLAPS

Frame == [irq : 0 .. 15, phase : Phases]
Ending == {"eoi", "eoi slave", "iret"}

\* An interrupted stub has enabled interrupts and waits to finish.
BelowEnding == \A i \in 1 .. Len(frames) - 1 : frames[i].phase \in Ending

\* Interrupts stay off from the gate to the stub's sti.
HandlerOff == Running /\ Top.phase \in {"body", "sti"} => ~enabled

\* The invariant is inductive because a request is taken only where IF is set,
\* hence after the running stub's handler has ended what was in service.
IInv == TypeOK /\ BelowEnding /\ HandlerOff /\ InServiceOfTop

\* Of at most one line, the highest is that line.
LEMMA EndedAlone ==
  ASSUME NEW x \in Int, NEW t, \A y \in t : y = x
  PROVE  Ended(t) = t
<1>1. \A line \in t : \A other \in t : line <= other
  OBVIOUS
<1> QED BY <1>1 DEF Ended

\* The command of a line's handler to the slave, if the line is the slave's,
\* and to the master leaves nothing of the line and its cascade in service.
LEMMA HandlerEndsLine ==
  ASSUME NEW irq \in 0 .. 15, NEW s \in SUBSET {irq, MasterLine(irq)}
  PROVE  EoiMaster(IF irq >= 8 THEN EoiSlave(s) ELSE s) = {}
<1>1. CASE irq >= 8
  <2>1. irq \in Slave /\ MasterLine(irq) = 2 /\ 2 \in Master /\ 2 \notin Slave
    BY <1>1 DEF Slave, Master, MasterLine, CASCADE
  <2>2. irq \in Int /\ \A line \in s \cap Slave : line = irq
    BY <2>1
  <2>3. Ended(s \cap Slave) = s \cap Slave
    BY <2>2, EndedAlone
  <2>4. EoiSlave(s) \subseteq {2}
    BY <2>1, <2>3 DEF EoiSlave
  <2>5. EoiSlave(s) \cap Master = EoiSlave(s)
    BY <2>1, <2>4
  <2>6. Ended(EoiSlave(s)) = EoiSlave(s)
    <3>1. 2 \in Int /\ \A line \in EoiSlave(s) : line = 2
      BY <2>4
    <3> QED BY <3>1, EndedAlone
  <2>7. EoiMaster(EoiSlave(s)) = {}
    BY <2>5, <2>6 DEF EoiMaster
  <2> QED BY <1>1, <2>7
<1>2. CASE ~ (irq >= 8)
  <2>1. irq \in Master /\ MasterLine(irq) = irq
    BY <1>2 DEF Slave, Master, MasterLine
  <2>2. irq \in Int /\ \A line \in s : line = irq
    BY <2>1
  <2>5. s \cap Master = s
    BY <2>1, <2>2
  <2>3. Ended(s) = s
    BY <2>2, EndedAlone
  <2>4. EoiMaster(s) = {}
    BY <2>5, <2>3 DEF EoiMaster
  <2> QED BY <1>2, <2>4
<1> QED BY <1>1, <1>2

\* With nothing in service the second pair of commands does nothing.
LEMMA IdleStaysIdle == EoiMaster({}) = {} /\ EoiSlave({}) = {}
BY DEF EoiMaster, EoiSlave, Ended

\* What a change of a phase does to a frame.
LEMMA FramePhase ==
  ASSUME NEW r \in Frame, NEW p \in Phases
  PROVE  /\ [r EXCEPT !.phase = p] \in Frame
         /\ [r EXCEPT !.phase = p].phase = p
         /\ [r EXCEPT !.phase = p].irq = r.irq
BY DEF Frame

\* What a change of the running stub's phase does to the stack.
LEMMA PhaseSet ==
  ASSUME NEW s \in Seq(Frame), s # <<>>, NEW p \in Phases
  PROVE  LET t == [s EXCEPT ![Len(s)].phase = p]
         IN /\ t \in Seq(Frame) /\ Len(t) = Len(s) /\ t # <<>>
            /\ \A i \in 1 .. Len(s) - 1 : t[i] = s[i]
            /\ t[Len(t)].phase = p
<1> DEFINE r == [s[Len(s)] EXCEPT !.phase = p]
           t == [s EXCEPT ![Len(s)] = r]
<1>1. Len(s) \in 1 .. Len(s) /\ Len(s) \in Nat
  BY EmptySeq, LenProperties
<1>2. s[Len(s)] \in Frame
  BY <1>1, ElementOfSeq
<1>3. r \in Frame /\ r.phase = p
  BY <1>2, FramePhase
<1>4. [s EXCEPT ![Len(s)].phase = p] = t
  OBVIOUS
<1> HIDE DEF r
<1>5. /\ t \in Seq(Frame) /\ Len(t) = Len(s)
      /\ \A j \in 1 .. Len(s) : t[j] = IF j = Len(s) THEN r ELSE s[j]
  BY <1>1, <1>3, ExceptSeq
<1> HIDE DEF t
<1>6. t[Len(t)].phase = p
  BY <1>1, <1>3, <1>5
<1>7. \A i \in 1 .. Len(s) - 1 : t[i] = s[i]
  BY <1>1, <1>5
<1>8. t # <<>>
  BY <1>5, <1>1, EmptySeq
<1> QED BY <1>4, <1>5, <1>6, <1>7, <1>8

-----------------------------------------------------------------------------
\* The parts of the invariant that speak of the stack and of what is in
\* service follow from the running stub's phase; the cases below share them.

\* The processor enters a stub: nothing is in service, and what it interrupts
\* has passed its sti.
LEMMA EnterKeeps ==
  ASSUME IInv, enabled, NEW irq \in 0 .. 15, Len(frames) < MaxDepth,
         frames' = Append(frames, [irq |-> irq, phase |-> "body"]),
         enabled' = FALSE, isr' \subseteq isr \cup {irq, MasterLine(irq)}
  PROVE  /\ frames' \in Seq(Frame) /\ Len(frames') <= MaxDepth
         /\ isr' \subseteq 0 .. 15
         /\ BelowEnding' /\ HandlerOff' /\ InServiceOfTop'
<1> DEFINE f == [irq |-> irq, phase |-> "body"]
<1>1. f \in Frame
  BY DEF Frame, Phases
<1>2. frames \in Seq(Frame)
  BY DEF IInv, TypeOK, Frame
<1>3. /\ frames' \in Seq(Frame) /\ frames' # <<>>
      /\ Len(frames') = Len(frames) + 1
      /\ \A i \in 1 .. Len(frames) : frames'[i] = frames[i]
      /\ frames'[Len(frames) + 1] = f
  BY <1>1, <1>2, AppendProperties
<1>4. Len(frames) \in Nat
  BY <1>2, LenProperties
<1>5. MaxDepth \in Nat
  BY InterruptsAssumption
<1>6. Len(frames') <= MaxDepth
  BY <1>3, <1>4, <1>5
<1>7. Running' /\ Top'.phase = "body" /\ Top'.irq = irq
  BY <1>3 DEF Running, Top
<1>8. isr = {}
  BY DEF IInv, HandlerOff, InServiceOfTop
<1>9. \A i \in 1 .. Len(frames) : frames[i].phase \in Ending
  <2>1. ASSUME frames # <<>>
        PROVE  Top.phase \in Ending
    <3>0. Len(frames) \in 1 .. Len(frames)
      BY <1>2, <1>4, <2>1, EmptySeq
    <3>1. Top \in Frame
      BY <1>2, <3>0, ElementOfSeq DEF Top
    <3>2. Top.phase \notin {"body", "sti"}
      BY <2>1 DEF IInv, HandlerOff, Running
    <3>3. Top.phase \in Phases
      BY <3>1 DEF Frame
    <3> QED BY <3>2, <3>3 DEF Phases, Ending
  <2>2. \A i \in 1 .. Len(frames) - 1 : frames[i].phase \in Ending
    BY DEF IInv, BelowEnding
  <2>3. frames = <<>> => Len(frames) = 0
    BY <1>2, EmptySeq
  <2> QED BY <1>4, <2>1, <2>2, <2>3 DEF Top
<1>10. BelowEnding'
  BY <1>3, <1>4, <1>9 DEF BelowEnding
<1>11. HandlerOff'
  BY DEF HandlerOff
<1>12. MasterLine(irq) \in 0 .. 15
  BY DEF MasterLine, Slave, CASCADE
<1>13. InServiceOfTop' /\ isr' \subseteq 0 .. 15
  BY <1>7, <1>8, <1>12 DEF InServiceOfTop, MasterLine
<1> QED BY <1>3, <1>6, <1>10, <1>11, <1>13

\* The running stub goes on to its next phase with nothing in service.
LEMMA PhaseKeeps ==
  ASSUME IInv, Running, NEW p \in Phases, SetPhase(p), isr' = {},
         p \in {"body", "sti"} => ~enabled'
  PROVE  /\ frames' \in Seq(Frame) /\ Len(frames') <= MaxDepth
         /\ isr' \subseteq 0 .. 15
         /\ BelowEnding' /\ HandlerOff' /\ InServiceOfTop'
<1>1. frames \in Seq(Frame) /\ frames # <<>>
  BY DEF IInv, TypeOK, Frame, Running
<1>2. /\ frames' \in Seq(Frame) /\ Len(frames') = Len(frames) /\ frames' # <<>>
      /\ \A i \in 1 .. Len(frames) - 1 : frames'[i] = frames[i]
      /\ frames'[Len(frames')].phase = p
  BY <1>1, PhaseSet DEF SetPhase
<1>3. Len(frames') <= MaxDepth
  BY <1>2 DEF IInv, TypeOK
<1>4. BelowEnding'
  BY <1>2 DEF BelowEnding, IInv
<1>5. HandlerOff'
  BY <1>2 DEF HandlerOff, Top
<1>6. InServiceOfTop'
  BY DEF InServiceOfTop
<1> QED BY <1>2, <1>3, <1>4, <1>5, <1>6

\* After the handler nothing is in service.
LEMMA NothingInService ==
  ASSUME IInv, ~ (Running /\ Top.phase = "body")
  PROVE  isr = {}
BY DEF IInv, InServiceOfTop

LEMMA InitIInv == Init => IInv
<1> SUFFICES ASSUME Init PROVE IInv
  OBVIOUS
<1>1. frames \in Seq(Frame) /\ Len(frames) = 0
  BY EmptySeq DEF Init
<1>2. TypeOK
  <2>1. MaxDepth \in Nat /\ Len(frames) <= MaxDepth
    BY <1>1, InterruptsAssumption
  <2>2. enabled \in BOOLEAN /\ mask \subseteq Irqs /\ irr \subseteq Irqs /\ isr \subseteq 0 .. 15
    BY DEF Init
  <2> QED BY <1>1, <2>1, <2>2 DEF TypeOK, Frame
<1>3. BelowEnding
  BY <1>1 DEF BelowEnding
<1> QED BY <1>2, <1>3 DEF Init, IInv, HandlerOff, InServiceOfTop

LEMMA StepIInv == IInv /\ [Next]_vars => IInv'
<1> SUFFICES ASSUME IInv, [Next]_vars PROVE IInv'
  OBVIOUS
<1>0. /\ enabled \in BOOLEAN /\ mask \subseteq Irqs /\ irr \subseteq Irqs
      /\ isr \subseteq 0 .. 15 /\ frames \in Seq(Frame) /\ Len(frames) <= MaxDepth
  BY DEF IInv, TypeOK, Frame
<1>a. \A irq \in Irqs : irq \in 0 .. 15
  BY InterruptsAssumption
<1>1. ASSUME NEW irq \in Irqs, Accept(irq) PROVE IInv'
  <2>1. /\ enabled /\ Len(frames) < MaxDepth /\ irq \in 0 .. 15
        /\ frames' = Append(frames, [irq |-> irq, phase |-> "body"])
        /\ enabled' = FALSE /\ isr' \subseteq isr \cup {irq, MasterLine(irq)}
    BY <1>1, <1>a DEF Accept, Takes, Push
  <2>2. /\ frames' \in Seq(Frame) /\ Len(frames') <= MaxDepth
        /\ isr' \subseteq 0 .. 15
        /\ BelowEnding' /\ HandlerOff' /\ InServiceOfTop'
    BY <2>1, EnterKeeps
  <2>3. enabled' \in BOOLEAN /\ mask' \subseteq Irqs /\ irr' \subseteq Irqs
    BY <1>0, <1>1 DEF Accept
  <2> QED BY <2>2, <2>3 DEF IInv, TypeOK, Frame
<1>2. ASSUME NEW irq \in Irqs, AcceptSpurious(irq) PROVE IInv'
  <2> DEFINE line == IF irq \in Slave THEN 15 ELSE 7
  <2>1. line \in 0 .. 15 /\ (irq \in Slave => MasterLine(line) = CASCADE)
    BY DEF Slave, MasterLine
  <2>2. /\ enabled /\ Len(frames) < MaxDepth
        /\ frames' = Append(frames, [irq |-> line, phase |-> "body"])
        /\ enabled' = FALSE /\ isr' \subseteq isr \cup {line, MasterLine(line)}
    BY <1>2, <2>1 DEF AcceptSpurious, Takes, Push
  <2> HIDE DEF line
  <2>3. /\ frames' \in Seq(Frame) /\ Len(frames') <= MaxDepth
        /\ isr' \subseteq 0 .. 15
        /\ BelowEnding' /\ HandlerOff' /\ InServiceOfTop'
    BY <2>1, <2>2, EnterKeeps
  <2>4. enabled' \in BOOLEAN /\ mask' \subseteq Irqs /\ irr' \subseteq Irqs
    BY <1>0, <1>2 DEF AcceptSpurious
  <2> QED BY <2>3, <2>4 DEF IInv, TypeOK, Frame
<1>3. CASE Handle
  <2>1. Running /\ SetPhase("sti") /\ Top.phase = "body" /\ UNCHANGED <<enabled, mask, irr>>
    BY <1>3 DEF Handle
  <2>2. Top.irq \in 0 .. 15
    <3>1. Len(frames) \in 1 .. Len(frames)
      BY <1>0, <2>1, EmptySeq, LenProperties DEF Running
    <3>2. Top \in Frame
      BY <1>0, <3>1, ElementOfSeq DEF Top
    <3> QED BY <3>2 DEF Frame
  <2>3. isr \in SUBSET {Top.irq, MasterLine(Top.irq)}
    BY DEF IInv, InServiceOfTop
  <2>4. isr' = {}
    BY <1>3, <2>2, <2>3, HandlerEndsLine DEF Handle
  <2>5. ~enabled'
    BY <2>1 DEF IInv, HandlerOff
  <2>6. /\ frames' \in Seq(Frame) /\ Len(frames') <= MaxDepth
        /\ isr' \subseteq 0 .. 15
        /\ BelowEnding' /\ HandlerOff' /\ InServiceOfTop'
    BY <2>1, <2>4, <2>5, PhaseKeeps DEF Phases
  <2> QED BY <1>0, <2>1, <2>6 DEF IInv, TypeOK, Frame
<1>4. CASE StubSti \/ StubEoiMaster \/ StubEoiSlave
  <2>1. PICK p \in {"eoi", "eoi slave", "iret"} : SetPhase(p)
    BY <1>4 DEF StubSti, StubEoiMaster, StubEoiSlave
  <2>2. Running /\ Top.phase # "body"
    BY <1>4 DEF StubSti, StubEoiMaster, StubEoiSlave
  <2>3. isr = {}
    BY <2>2, NothingInService
  <2>4. isr' = {}
    BY <1>4, <2>3, IdleStaysIdle DEF StubSti, StubEoiMaster, StubEoiSlave
  <2>5. /\ frames' \in Seq(Frame) /\ Len(frames') <= MaxDepth
        /\ isr' \subseteq 0 .. 15
        /\ BelowEnding' /\ HandlerOff' /\ InServiceOfTop'
    BY <2>1, <2>2, <2>4, PhaseKeeps DEF Phases
  <2>6. enabled' \in BOOLEAN /\ UNCHANGED <<mask, irr>>
    BY <1>0, <1>4 DEF StubSti, StubEoiMaster, StubEoiSlave
  <2> QED BY <1>0, <2>5, <2>6 DEF IInv, TypeOK, Frame
<1>5. CASE StubIret
  <2>1. /\ Running /\ Top.phase = "iret" /\ enabled' = TRUE
        /\ frames' = SubSeq(frames, 1, Len(frames) - 1)
        /\ UNCHANGED <<mask, irr, isr>>
    BY <1>5 DEF StubIret
  <2>2. Len(frames) \in Nat /\ Len(frames) > 0
    BY <1>0, <2>1, EmptySeq, LenProperties DEF Running
  <2>3. /\ frames' \in Seq(Frame) /\ Len(frames') = Len(frames) - 1
        /\ \A i \in 1 .. Len(frames) - 1 : frames'[i] = frames[i]
    <3> DEFINE n == Len(frames) - 1
    <3>1. n \in 0 .. Len(frames) /\ 1 \in 1 .. Len(frames) + 1
      BY <2>2
    <3>2. /\ SubSeq(frames, 1, n) \in Seq(Frame)
          /\ Len(SubSeq(frames, 1, n)) = IF 1 <= n THEN n - 1 + 1 ELSE 0
          /\ \A i \in 1 .. n - 1 + 1 : SubSeq(frames, 1, n)[i] = frames[1 + i - 1]
      BY <1>0, <3>1, SubSeqProperties
    <3>0. n \in Nat
      BY <2>2
    <3>3. n \in Nat /\ n - 1 + 1 = n /\ (n = 0 \/ 1 <= n)
      <4> HIDE DEF n
      <4> QED BY <3>0
    <3>4. \A i \in 1 .. n : 1 + i - 1 = i
      BY <3>3
    <3>5. frames' = SubSeq(frames, 1, n)
      BY <2>1
    <3>6. /\ frames' \in Seq(Frame) /\ Len(frames') = n
          /\ \A i \in 1 .. n : frames'[i] = frames[i]
      <4> HIDE DEF n
      <4> QED BY <3>2, <3>3, <3>4, <3>5
    <3> QED BY <3>6
  <2>4. isr' = {}
    BY <2>1, NothingInService
  <2>5. MaxDepth \in Nat
    BY InterruptsAssumption
  <2>6. Len(frames') <= MaxDepth
    BY <1>0, <2>2, <2>3, <2>5
  <2>7. \A i \in 1 .. Len(frames') : frames'[i].phase \in Ending
    BY <2>2, <2>3 DEF IInv, BelowEnding
  <2>8. BelowEnding'
    BY <2>2, <2>3, <2>7 DEF BelowEnding
  <2>9. HandlerOff'
    <3>1. Running' => Len(frames') \in 1 .. Len(frames')
      BY <2>2, <2>3, EmptySeq DEF Running
    <3> QED BY <2>7, <3>1 DEF HandlerOff, Top, Ending
  <2>10. InServiceOfTop'
    BY <2>4 DEF InServiceOfTop
  <2> QED BY <1>0, <2>1, <2>3, <2>4, <2>6, <2>8, <2>9, <2>10 DEF IInv, TypeOK, Frame
<1>6. CASE MainCli \/ MainSti
  <2>1. /\ ~Running /\ enabled' \in BOOLEAN /\ UNCHANGED <<mask, irr, isr, frames>>
    BY <1>6 DEF MainCli, MainSti
  <2>2. ~Running'
    BY <2>1 DEF Running
  <2> QED BY <2>1, <2>2 DEF IInv, TypeOK, BelowEnding, HandlerOff, InServiceOfTop, Top, Running
<1>7. ASSUME NEW irq \in Irqs,
             Raise(irq) \/ PicEnableInterrupt(irq) \/ PicDisableInterrupt(irq)
      PROVE  IInv'
  <2>1. UNCHANGED <<enabled, isr, frames>> /\ mask' \subseteq Irqs /\ irr' \subseteq Irqs
    BY <1>0, <1>7 DEF Raise, PicEnableInterrupt, PicDisableInterrupt
  <2> QED BY <2>1 DEF IInv, TypeOK, BelowEnding, HandlerOff, InServiceOfTop, Top, Running
<1>8. CASE UNCHANGED vars
  BY <1>8 DEF vars, IInv, TypeOK, BelowEnding, HandlerOff, InServiceOfTop, Top, Running
<1> QED BY <1>1, <1>2, <1>3, <1>4, <1>5, <1>6, <1>7, <1>8 DEF Next, AcceptAny, Stub
-----------------------------------------------------------------------------
\* The state of the controllers, the processor's flag and the stack of stubs
\* always has its type, whatever devices do.
THEOREM InterruptsTypeCorrect == Spec => []TypeOK
<1>1. IInv => TypeOK
  BY DEF IInv
<1> QED BY InitIInv, StepIInv, <1>1, PTL DEF Spec

\* int_handler and what it calls run one at a time, with interrupts off, for
\* any set of lines and however deep the stubs nest.
THEOREM HandlersRunAlone == Spec => []HandlersExclusive
<1>1. IInv => HandlersExclusive
  <2> SUFFICES ASSUME IInv, NEW i \in DOMAIN frames, frames[i].phase \in {"body", "sti"}
               PROVE  i = Len(frames) /\ ~enabled
    BY DEF HandlersExclusive
  <2>1. frames \in Seq(Frame)
    BY DEF IInv, TypeOK, Frame
  <2>2. i \in 1 .. Len(frames) /\ Len(frames) \in Nat
    BY <2>1, LenProperties
  <2>3. i \notin 1 .. Len(frames) - 1
    BY DEF IInv, BelowEnding, Ending
  <2>4. i = Len(frames)
    BY <2>2, <2>3
  <2>5. Running
    BY <2>1, <2>2, EmptySeq DEF Running
  <2> QED BY <2>4, <2>5 DEF IInv, HandlerOff, Top
<1> QED BY InitIInv, StepIInv, <1>1, PTL DEF Spec

\* The second end-of-interrupt of a stub, written with interrupts enabled,
\* ends no other line's interrupt, because nothing is in service but what the
\* running handler has not ended yet.
THEOREM SecondEoiHarmless == Spec => [](InServiceOfTop /\ SecondEoiIdle)
<1>1. IInv => InServiceOfTop /\ SecondEoiIdle
  BY DEF IInv, InServiceOfTop, SecondEoiIdle
<1> QED BY InitIInv, StepIInv, <1>1, PTL DEF Spec
=============================================================================
