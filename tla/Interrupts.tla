----------------------------- MODULE Interrupts -----------------------------
(***************************************************************************)
(* From an interrupt request to the iret: the two 8259s as pic.c programs  *)
(* them, the processor's interrupt flag, the stubs of asm/intr.S (macro    *)
(* INTR2 of intr.h) and int_handler.                                       *)
(*                                                                         *)
(* A stub ends the interrupt twice: int_handler calls pic_end_interrupt,   *)
(* then the stub enables interrupts and writes the end-of-interrupt        *)
(* command to both controllers again.  A request can be taken between the  *)
(* sti and the iret, so stubs nest.                                        *)
(***************************************************************************)
EXTENDS Integers, Sequences

CONSTANTS Irqs,       \* the request lines in use, of 0 .. 15
          MaxDepth    \* bound: how many stubs are on the stack at most

ASSUME InterruptsAssumption == /\ Irqs \subseteq (0 .. 15) \ {2}
                               /\ MaxDepth \in Nat \ {0}

VARIABLES enabled,    \* eflags.IF: the processor takes interrupts
          mask,       \* lines masked by pic_setmask
          irr,        \* requests latched by the controllers
          isr,        \* lines in service, of the master (0 .. 7) and the
                      \* slave (8 .. 15)
          frames      \* the stubs on the stack, the running one last

vars == <<enabled, mask, irr, isr, frames>>

CASCADE == 2
Master == 0 .. 7
Slave == 8 .. 15
MasterLine(irq) == IF irq \in Slave THEN CASCADE ELSE irq

Running == frames # <<>>
Top == frames[Len(frames)]
SetPhase(phase) == frames' = [frames EXCEPT ![Len(frames)].phase = phase]

\* init_handler, pic_init: interrupts off, every line masked but the cascade.
Init == /\ enabled = FALSE
        /\ mask = Irqs
        /\ irr = {} /\ isr = {}
        /\ frames = <<>>
-----------------------------------------------------------------------------
(* The controllers.  Of the requests pending the one of highest priority   *)
(* reaches the processor, if nothing of the same or higher priority is in  *)
(* service.  Priority falls with the number; the slave's lines have that   *)
(* of the cascade.                                                         *)

Before(a, b) == \/ MasterLine(a) < MasterLine(b)
                \/ MasterLine(a) = MasterLine(b) /\ a < b

Requested(irq) ==
  /\ irq \in irr \ mask
  /\ \A other \in irr \ mask : other = irq \/ Before(irq, other)
  /\ \A line \in isr \cap Master : MasterLine(irq) < line
  /\ irq \in Slave => \A line \in isr \cap Slave : irq < line

\* A device raises its line.
Raise(irq) == /\ irq \notin irr
              /\ irr' = irr \cup {irq}
              /\ UNCHANGED <<enabled, mask, isr, frames>>

\* A non-specific end of interrupt: the highest line in service ends.
Ended(lines) == {line \in lines : \A other \in lines : line <= other}
\* Mutant: the specific command for line 0.
EoiMasterZero(served) == served \ {0}
EoiMaster(served) == served \ Ended(served \cap Master)
EoiSlave(served) == served \ Ended(served \cap Slave)
-----------------------------------------------------------------------------
(* The processor.  The gates of the IDT are interrupt gates (type 0x8e):   *)
(* taking an interrupt clears IF.                                          *)

Takes(irq) == enabled /\ Len(frames) < MaxDepth /\ Requested(irq)
Interruptible == \E irq \in Irqs : Takes(irq)

Push(irq) == frames' = Append(frames, [irq |-> irq, phase |-> "body"])

\* Mutant of init_handler: trap gates, which leave IF set.
AcceptTrapGate(irq) == /\ Takes(irq)
                       /\ Push(irq)
                       /\ irr' = irr \ {irq}
                       /\ isr' = isr \cup {irq, MasterLine(irq)}
                       /\ UNCHANGED <<enabled, mask>>

\* Mutant of INTR2: the stub passes on the vector, not the line.
AcceptVector(irq) == /\ Takes(irq)
                     /\ Push(irq + 32)
                     /\ irr' = irr \ {irq}
                     /\ isr' = isr \cup {irq, MasterLine(irq)}
                     /\ enabled' = FALSE
                     /\ UNCHANGED mask

\* The stub of the line is entered.
Accept(irq) == /\ Takes(irq)
               /\ Push(irq)
               /\ irr' = irr \ {irq}
               /\ isr' = isr \cup {irq, MasterLine(irq)}
               /\ enabled' = FALSE
               /\ UNCHANGED mask

\* The request went away before it was acknowledged: the controller answers
\* with its lowest line, and does not mark it in service.
AcceptSpurious(irq) == /\ Takes(irq)
                       /\ Push(IF irq \in Slave THEN 15 ELSE 7)
                       /\ irr' = irr \ {irq}
                       /\ isr' = IF irq \in Slave THEN isr \cup {CASCADE} ELSE isr
                       /\ enabled' = FALSE
                       /\ UNCHANGED mask

\* Mutant of pic_end_interrupt: only the master is told.
HandleMasterOnly == /\ Running /\ Top.phase = "body"
                    /\ isr' = EoiMaster(isr)
                    /\ SetPhase("sti")
                    /\ UNCHANGED <<enabled, mask, irr>>

\* int_handler: the registered handler, or a message, and pic_end_interrupt.
Handle == /\ Running /\ Top.phase = "body"
          /\ isr' = EoiMaster(IF Top.irq >= 8 THEN EoiSlave(isr) ELSE isr)
          /\ SetPhase("sti")
          /\ UNCHANGED <<enabled, mask, irr>>

\* The stub: sti, whose effect starts after the next instruction.
StubSti == /\ Running /\ Top.phase = "sti"
           /\ enabled' = TRUE
           /\ SetPhase("eoi")
           /\ UNCHANGED <<mask, irr, isr>>

\* The stub: outb %al, $0x20.
StubEoiMaster == /\ Running /\ Top.phase = "eoi" /\ ~Interruptible
                 /\ isr' = EoiMaster(isr)
                 /\ SetPhase("eoi slave")
                 /\ UNCHANGED <<enabled, mask, irr>>

\* The stub: outb %al, $0xa0.
StubEoiSlave == /\ Running /\ Top.phase = "eoi slave" /\ ~Interruptible
                /\ isr' = EoiSlave(isr)
                /\ SetPhase("iret")
                /\ UNCHANGED <<enabled, mask, irr>>

\* The stub: popa, iret.  The flags restored are those of an interruptible
\* context.
StubIret == /\ Running /\ Top.phase = "iret" /\ ~Interruptible
            /\ frames' = SubSeq(frames, 1, Len(frames) - 1)
            /\ enabled' = TRUE
            /\ UNCHANGED <<mask, irr, isr>>

Stub == Handle \/ StubSti \/ StubEoiMaster \/ StubEoiSlave \/ StubIret
-----------------------------------------------------------------------------
(* kmain and what it calls: interrupts are switched, and lines unmasked    *)
(* and masked while they are off.                                          *)

MainCli == /\ ~Running /\ enabled /\ ~Interruptible
           /\ enabled' = FALSE
           /\ UNCHANGED <<mask, irr, isr, frames>>

MainSti == /\ ~Running /\ ~enabled
           /\ enabled' = TRUE
           /\ UNCHANGED <<mask, irr, isr, frames>>

PicEnableInterrupt(irq) == /\ ~Running /\ ~enabled
                           /\ mask' = mask \ {irq}
                           /\ UNCHANGED <<enabled, irr, isr, frames>>

PicDisableInterrupt(irq) == /\ ~Running /\ ~enabled
                            /\ mask' = mask \cup {irq}
                            /\ UNCHANGED <<enabled, irr, isr, frames>>

AcceptAny == \E irq \in Irqs : Accept(irq) \/ AcceptSpurious(irq)

Next == \/ AcceptAny
        \/ Stub
        \/ MainCli \/ MainSti
        \/ \E irq \in Irqs : \/ Raise(irq)
                             \/ PicEnableInterrupt(irq)
                             \/ PicDisableInterrupt(irq)

Spec == Init /\ [][Next]_vars

\* The processor runs: a stub goes on, a request that can be taken is taken,
\* and kmain's sections with interrupts off are short.
FairSpec == Spec /\ WF_vars(Stub) /\ WF_vars(AcceptAny) /\ WF_vars(MainSti)
-----------------------------------------------------------------------------
Phases == {"body", "sti", "eoi", "eoi slave", "iret"}

TypeOK == /\ enabled \in BOOLEAN
          /\ mask \subseteq Irqs /\ irr \subseteq Irqs
          /\ isr \subseteq 0 .. 15
          /\ frames \in Seq([irq : 0 .. 15, phase : Phases])
          /\ Len(frames) <= MaxDepth

\* Handlers do not nest: a stub is interrupted only after its int_handler has
\* returned, so ps2_handler and fifo_add run alone whatever arrives.
HandlersExclusive ==
  \A i \in DOMAIN frames :
    frames[i].phase \in {"body", "sti"} => i = Len(frames) /\ ~enabled

\* A line is in service only while its own handler runs: it is the running
\* stub's line, with its cascade, that a controller waits for.
InServiceOfTop ==
  isr # {} => /\ Running /\ Top.phase = "body"
              /\ isr \subseteq {Top.irq, MasterLine(Top.irq)}

\* The second pair of end-of-interrupt commands of every stub, written with
\* interrupts enabled, never ends another line's interrupt: at that point
\* nothing is in service, however deep the stubs nest.
SecondEoiIdle == Running /\ Top.phase \in {"eoi", "eoi slave"} => isr = {}

\* The line of highest priority is always answered once it is unmasked.
Highest == {irq \in Irqs : \A other \in Irqs : other = irq \/ Before(irq, other)}
HighestServed == \A irq \in Highest : irq \in irr ~> (irq \notin irr \/ irq \in mask)
=============================================================================
