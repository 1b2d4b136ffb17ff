-------------------------------- MODULE Ps2 --------------------------------
(***************************************************************************)
(* The keyboard's driver, ps2.c: ps2_init with interrupts off, byte by     *)
(* byte, and afterwards ps2_handler at each interrupt.  It shares the 8042 *)
(* controller with a keyboard that sends whenever its port is enabled, in  *)
(* the middle of ps2_init too.                                             *)
(*                                                                         *)
(* ps2_init is straight-line code, so it is written as the sequence of the *)
(* operations it performs on the controller.  The waits for the command    *)
(* port, (status & 2) == 1, are never true and have no operation; what     *)
(* gives the controller its time is delay_8042 alone, which is taken to be *)
(* long enough for the controller to take one byte.                        *)
(***************************************************************************)
EXTENDS Integers, Sequences

\* A byte is the set of its one bits.  Those of the configuration byte:
KINT == 0      \* interrupt when the keyboard's data is there
AUXINT == 1    \* the same for the second port
KOFF == 4      \* the keyboard's port is disabled
AUXOFF == 5
XLATE == 6     \* translation to scan code set 1

CONSTANTS ScanCodes,   \* bytes the keyboard sends
          Found,       \* configurations the firmware may leave behind
          Tests,       \* answers to the self test
          MaxSent      \* bound: bytes the keyboard sends

ASSUME Ps2Assumption == /\ ScanCodes \cup Found \cup Tests \subseteq SUBSET (0 .. 7)
                        /\ MaxSent \in Nat

VARIABLES
  \* ps2.c and what it calls
  pc,           \* operations of ps2_init done
  cfg,          \* the local variable
  registered,   \* handlers[33] is ps2_handler
  enabled, masked,   \* eflags.IF; IRQ1 in the 8259's mask
  handed,       \* bytes passed to keyboard_send_char
  \* the 8042 and the 8259
  input,        \* the byte written and not yet taken, or None
  awaits,       \* the command 0x60 was taken, and its data byte is due
  owed,         \* the answer to a command taken, not yet in output, or None
  output,       \* the byte to be read at port 0x60, or None
  latch,        \* what port 0x60 reads when there is no new byte
  config,
  irr,          \* IRQ1 is requested
  sent,         \* number of bytes the keyboard has sent
  \* for the properties
  found,        \* config as ps2_init found it
  dropped,      \* bytes written over before the controller took them
  raced         \* ps2_init read a scan code as an answer

cpu == <<pc, cfg, registered, enabled, masked, handed>>
controller == <<input, awaits, owed, output, latch, config, irr, sent>>
ps2_vars == <<cpu, controller, found, dropped, raced>>

None == [from |-> "none", bits |-> {}, n |-> 0]
Answer(bits) == [from |-> "controller", bits |-> bits, n |-> 0]
Command(c) == [op |-> "command", byte |-> c]
-----------------------------------------------------------------------------
(* ps2_init.                                                               *)

Delay == [op |-> "delay"]
ReadAnswer == [op |-> "read"]
WriteConfig(clear, set) == [op |-> "data", clear |-> clear, set |-> set]

\* Mutant: no delay either.
ps2_write_reg_hasty(c) == <<Command(c)>>

ps2_write_reg(c) == <<Delay, Command(c)>>
ps2_write_reg2(c, clear, set) == <<Command(c), Delay, WriteConfig(clear, set)>>
ps2_read_reg(reg) == <<Command(reg), Delay, ReadAnswer>>

ps2_disable_ports == ps2_write_reg("ad") \o ps2_write_reg("a7")

\* Mutant: the answer is read twice.
ps2_test_selftest_twice ==
  ps2_write_reg("aa") \o <<Delay, [op |-> "test"], Delay, [op |-> "test"]>>

\* The answer decides which message is printed.
ps2_test_selftest == ps2_write_reg("aa") \o <<Delay, [op |-> "test"], Delay>>

\* Mutant: bit 6 is left as it was.
ps2_init_translated ==
  <<[op |-> "mask"]>> \o ps2_disable_ports \o <<[op |-> "flush"]>>
    \o ps2_read_reg("20") \o ps2_write_reg2("60", {KINT, AUXINT}, {})
    \o ps2_test_selftest
    \o ps2_write_reg("ae")
    \o ps2_read_reg("20") \o ps2_write_reg2("60", {}, {KINT, AUXINT})
    \o <<[op |-> "register"], [op |-> "unmask"], [op |-> "sti"]>>

ps2_init ==
  <<[op |-> "mask"]>> \o ps2_disable_ports \o <<[op |-> "flush"]>>
    \o ps2_read_reg("20") \o ps2_write_reg2("60", {KINT, AUXINT, XLATE}, {})
    \o ps2_test_selftest
    \o ps2_write_reg("ae")
    \o ps2_read_reg("20") \o ps2_write_reg2("60", {}, {KINT, AUXINT})
    \o <<[op |-> "register"], [op |-> "unmask"], [op |-> "sti"]>>

Done == pc = Len(ps2_init)
At(op) == ~Done /\ ps2_init[pc + 1].op = op

\* kmain has unmasked IRQ1, with interrupts off; a key may have been pressed.
Ps2Init == /\ pc = 0 /\ cfg = {} /\ registered = FALSE
           /\ enabled = FALSE /\ masked = FALSE
           /\ handed = <<>>
           /\ input = None /\ awaits = FALSE /\ owed = None /\ latch = None
           /\ output = None /\ irr = FALSE /\ sent = 0
           /\ config \in Found
           /\ found = config
           /\ dropped = {} /\ raced = FALSE
-----------------------------------------------------------------------------
(* The controller's side.                                                  *)

\* IRQ1 is the output buffer's flag, where the configuration allows it; the
\* 8259 latches its rising edge.
Line(out, bits) == out # None /\ KINT \in bits
Latched(out, bits) == irr \/ (Line(out, bits) /\ ~Line(output, config))

\* Port 0x60 is read.  The request of a byte read by polling may stay latched.
DataRead == IF output = None THEN latch ELSE output
Read == /\ latch' = DataRead
        /\ output' = None
        /\ irr' \in {irr, FALSE}

\* A byte is written, over the last one if that has not been taken.
Write(byte) ==
  /\ input' = byte
  /\ dropped' = IF input = None THEN dropped ELSE dropped \cup {input.byte}

\* The controller takes a byte, unless it still has an answer to give.
Execute(config1) == /\ config' = config1
                    /\ irr' = Latched(output, config1)
                    /\ awaits' = FALSE /\ UNCHANGED owed
Owe(bits) == owed' = Answer(bits) /\ awaits' = FALSE /\ UNCHANGED <<config, irr>>

Take == /\ input # None /\ owed = None
        /\ input' = None
        /\ \/ input.byte = "ad" /\ Execute(config \cup {KOFF})
           \/ input.byte = "ae" /\ Execute(config \ {KOFF})
           \/ input.byte = "a7" /\ Execute(config \cup {AUXOFF})
           \/ input.byte = "data" /\ Execute(IF awaits THEN input.bits ELSE config)
           \/ input.byte = "20" /\ Owe(config)
           \/ input.byte = "aa" /\ \E bits \in Tests : Owe(bits)
           \/ input.byte = "60" /\ awaits' = TRUE /\ UNCHANGED <<config, irr, owed>>
        /\ UNCHANGED <<cpu, output, latch, sent, found, dropped, raced>>

\* It answers when the output buffer is free.
Reply == /\ owed # None /\ output = None
         /\ output' = owed /\ owed' = None
         /\ irr' = Latched(output', config)
         /\ UNCHANGED <<cpu, input, awaits, latch, config, sent, found, dropped, raced>>

\* The keyboard sends a byte; the output buffer must be free.
Send(code) == /\ sent < MaxSent /\ KOFF \notin config
              /\ output = None /\ owed = None
              /\ sent' = sent + 1
              /\ output' = [from |-> "keyboard", bits |-> code, n |-> sent']
              /\ irr' = Latched(output', config)
              /\ UNCHANGED <<cpu, input, awaits, owed, latch, config, found, dropped, raced>>
-----------------------------------------------------------------------------
(* The processor's side: the operations of ps2_init, then interrupts.      *)

Continue == pc' = pc + 1
\* What most operations leave alone.
Kept == UNCHANGED <<registered, enabled, masked, handed, awaits, owed, config, sent, found>>

DoCommand == /\ At("command") /\ Continue
             /\ Write(ps2_init[pc + 1])
             /\ Kept /\ UNCHANGED <<cfg, output, latch, irr, raced>>

\* delay_8042
DoDelay == /\ At("delay") /\ Continue
           /\ input = None
           /\ Kept /\ UNCHANGED <<cfg, input, output, latch, irr, dropped, raced>>

\* cfg = cfg & ~... or cfg | ..., written to the data port.
DoData == /\ At("data") /\ Continue
          /\ cfg' = (cfg \ ps2_init[pc + 1].clear) \cup ps2_init[pc + 1].set
          /\ Write([byte |-> "data", bits |-> cfg'])
          /\ Kept /\ UNCHANGED <<output, latch, irr, raced>>

\* ps2_read_data, and the end of ps2_read_reg: wait for the data register to
\* become full.
DoRead == /\ At("read") \/ At("test")
          /\ output # None
          /\ Continue /\ Read
          /\ cfg' = IF At("read") THEN output.bits ELSE cfg
          /\ raced' = (raced \/ output.from = "keyboard")
          /\ Kept /\ UNCHANGED <<input, dropped>>

\* ps2_flush: one turn of its loop.
DoFlush == /\ At("flush")
           /\ \/ output # None /\ Read /\ UNCHANGED pc
              \/ output = None /\ Continue /\ UNCHANGED <<output, latch, irr>>
           /\ Kept /\ UNCHANGED <<cfg, input, dropped, raced>>

\* pic_disable_interrupt, register_handler, pic_enable_interrupt,
\* kenable_interrupts
DoSwitch == /\ \/ At("mask") /\ masked' = TRUE /\ UNCHANGED <<registered, enabled>>
               \/ At("register") /\ registered' = TRUE /\ UNCHANGED <<enabled, masked>>
               \/ At("unmask") /\ masked' = FALSE /\ UNCHANGED <<registered, enabled>>
               \/ At("sti") /\ enabled' = TRUE /\ UNCHANGED <<registered, masked>>
            /\ Continue
            /\ UNCHANGED <<cfg, handed, controller, found, dropped, raced>>

Driver == DoCommand \/ DoDelay \/ DoData \/ DoRead \/ DoFlush \/ DoSwitch

\* Mutants: the data port is read twice; it is read only if bit 1 of the
\* status, which is of the input buffer, is set.
ps2_handler_twice ==
  /\ handed' = handed \o <<DataRead, DataRead>>
  /\ latch' = DataRead /\ output' = None

ps2_handler_status ==
  IF input # None
  THEN handed' = Append(handed, DataRead) /\ latch' = DataRead /\ output' = None
  ELSE UNCHANGED <<handed, latch, output>>

\* ps2_handler: what port 0x60 reads goes to the decoder, new or not.
ps2_handler == /\ handed' = Append(handed, DataRead)
               /\ latch' = DataRead /\ output' = None

\* IRQ1 is taken: int_handler calls the registered handler, if there is one.
Interrupt == /\ irr /\ enabled /\ ~masked
             /\ irr' = FALSE
             /\ IF registered THEN ps2_handler ELSE UNCHANGED <<handed, latch, output>>
             /\ UNCHANGED <<pc, cfg, registered, enabled, masked, input, awaits,
                            owed, config, sent, found, dropped, raced>>

Controller == Take \/ Reply

Ps2Next == Driver \/ Interrupt \/ Controller \/ \E code \in ScanCodes : Send(code)

\* The processor and the controller go on; nobody has to press a key.
Ps2Spec == Ps2Init /\ [][Ps2Next]_ps2_vars /\ WF_ps2_vars(Driver) /\ WF_ps2_vars(Interrupt) /\ WF_ps2_vars(Controller)
-----------------------------------------------------------------------------
\* The driver never sees whether the controller has taken a byte.  Its delays
\* are placed so that only two can be written over, both followed at once by
\* ps2_read_reg: that disables the second port and that enables the
\* keyboard's.
CommandsAtRisk == dropped \subseteq {"a7", "ae"}

\* Once ps2_init is done and the controller has taken everything, the
\* keyboard's port is enabled with its interrupt and without translation
\* (keyboard.c decodes set 2), the second port is disabled, and what the
\* firmware had set otherwise is kept: unless a command was written over or a
\* key was taken for an answer.
ConfigIntended ==
  (Done /\ input = None /\ dropped = {} /\ ~raced)
    => config = (found \ {KOFF, XLATE}) \cup {KINT, AUXINT, AUXOFF}

\* Whatever the keyboard sends while ps2_init runs, the decoder is handed at
\* most one byte that is not a scan code (an answer left over, or an old byte
\* read for a request left over), and that is the first; from then on it gets
\* the keyboard's bytes, each once, in order, without a gap.
CleanAfterFirst ==
  \A i \in DOMAIN handed \ {1} :
    /\ handed[i].from = "keyboard"
    /\ handed[i - 1].from = "keyboard" => handed[i].n = handed[i - 1].n + 1

\* ps2_init, whose waits for an answer have no limit, comes to its end.
InitEnds == <>Done

\* Every byte sent after ps2_init reaches the decoder: the one interrupt of
\* each byte is not missed.
KeysArrive ==
  \A n \in 1 .. MaxSent :
    (Done /\ output.n = n) ~> (\E i \in DOMAIN handed : handed[i].n = n)
=============================================================================
