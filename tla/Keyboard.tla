------------------------------ MODULE Keyboard ------------------------------
(***************************************************************************)
(* The scan code decoder of keyboard.c, fed by a PS/2 keyboard (code set   *)
(* 2) that sends each press, repeat and release as a sequence of bytes.    *)
(* The decoder sees one byte per interrupt.                                *)
(*                                                                         *)
(* A character is abstracted to the charmap it was looked up in and the    *)
(* code it was looked up with; which codes have a character in a charmap   *)
(* is a constant.                                                          *)
(***************************************************************************)
EXTENDS Integers, Sequences

CONSTANTS Plain,      \* codes of ordinary keys, at least one per case below
          Extended,   \* second codes of the keys sent with an e0 prefix
          Mapped      \* Mapped[charmap]: the codes with a character in it

\* Scan codes keyboard_handle_rcvd_char tests for.
ALT == 17
CTRL == 20
LSHIFT == 18
RSHIFT == 89
CAPS == 88
NUM == 119
F0 == 240
E0 == 224
E1 == 225

Modifiers == {ALT, CTRL, LSHIFT, RSHIFT, CAPS, NUM}
Prefixes == {F0, E0, E1}
Shifts == {LSHIFT, RSHIFT}

\* Codes of make bytes are below 132 (F7 is 83h), out of the way of prefixes.
ASSUME KeyboardAssumption ==
  /\ Plain \subseteq (0 .. 131) \ Modifiers
  /\ Extended \subseteq 0 .. 127
  /\ Mapped \in [{"lower", "shift", "ctrl"} -> SUBSET (0 .. 127)]

VARIABLES state, alt, ctrl, shift, shift_lock, num_lock,   \* the handler
          added,     \* what it passed to fifo_add during the current event
          held,      \* keys down, each named by the bytes of its press
          forgotten, \* a shift key went up under another, none down since
          pending,   \* bytes of the current event not yet received
          event      \* the current event: [kind, key]

handler == <<state, alt, ctrl, shift, shift_lock, num_lock>>
vars == <<handler, added, held, forgotten, pending, event>>

\* keyboard_init_handler; num_lock is left as kmain's stack had it.
Init == /\ state = 0 /\ alt = 0 /\ ctrl = 0 /\ shift = 0
        /\ shift_lock = 0 /\ num_lock \in {0, 1}
        /\ added = <<>>
        /\ held = {} /\ forgotten = FALSE /\ pending = <<>>
        /\ event = [kind |-> "none", key |-> <<>>]
-----------------------------------------------------------------------------
\* Mutant of charmap_lookup: shift and shift_lock do not cancel.
CharmapLookupOr(val) ==
  LET map == IF ctrl = 1 THEN "ctrl"
             ELSE IF shift = 1 \/ shift_lock = 1 THEN "shift" ELSE "lower"
  IN IF alt = 1 THEN {}
     ELSE {<<map, val>> : v \in {val} \cap Mapped[map]}

\* charmap_lookup: the charmap the modifiers select, no character under alt.
\* The index is a signed char, so a code from 80h on reads outside the table.
CharmapLookup(val) ==
  LET map == IF ctrl = 1 THEN "ctrl"
             ELSE IF shift # shift_lock THEN "shift" ELSE "lower"
  IN IF alt = 1 THEN {}
     ELSE {<<map, val>> : v \in {val} \cap Mapped[map]}

\* keyboard_handle_rcvd_char in state 0 with a code that is no modifier: the
\* character goes to the FIFO.  Outside the table there may be one or not.
Translate(val) ==
  LET found == IF val < 128 THEN {CharmapLookup(val)}
               ELSE {{}, {<<"outside", val>>}}
  IN \E chars \in found :
       added' = IF chars = {} THEN added
                ELSE Append(added, CHOOSE c \in chars : TRUE)

\* The flag of a modifier is set on its code and cleared on f0 and its code.
SetFlag(val, on) ==
  /\ alt' = IF val = ALT THEN on ELSE alt
  /\ ctrl' = IF val = CTRL THEN on ELSE ctrl
  /\ shift_lock' = IF val = CAPS THEN on ELSE shift_lock
  /\ num_lock' = IF val = NUM THEN on ELSE num_lock
  /\ shift' = IF val \in Shifts THEN on ELSE shift

FlagsKept == UNCHANGED <<alt, ctrl, shift, shift_lock, num_lock>>

\* state 0: a code or a prefix.
RcvdCode(val) ==
  /\ state = 0
  /\ SetFlag(val, 1)
  /\ state' = CASE val = F0 -> 1
                [] val = E0 -> 2
                [] val = E1 -> 4
                [] OTHER -> 0
  /\ IF val \in Modifiers \cup Prefixes THEN UNCHANGED added ELSE Translate(val)

\* Mutant: the release of a right shift is not recognised.
RcvdReleasedNoRight(val) ==
  /\ state = 1
  /\ IF val = RSHIFT THEN FlagsKept ELSE SetFlag(val, 0)
  /\ state' = 0
  /\ UNCHANGED added

\* Mutant: a code after f0 that is no modifier is looked up.
RcvdReleasedTypes(val) ==
  /\ state = 1
  /\ SetFlag(val, 0)
  /\ state' = 0
  /\ IF val \in Modifiers THEN UNCHANGED added ELSE Translate(val)

\* state 1: the code after f0.
RcvdReleased(val) ==
  /\ state = 1
  /\ SetFlag(val, 0)
  /\ state' = 0
  /\ UNCHANGED added

\* Mutant: the state is not reset after an extended press.
RcvdExtendedStays(val) ==
  /\ state = 2
  /\ state' = IF val = F0 THEN 3 ELSE 2
  /\ FlagsKept /\ UNCHANGED added

\* state 2: after e0.
RcvdExtended(val) ==
  /\ state = 2
  /\ state' = IF val = F0 THEN 3 ELSE 0
  /\ FlagsKept /\ UNCHANGED added

\* state 3: after e0 f0.
RcvdExtendedReleased(val) ==
  /\ state = 3
  /\ state' = 0
  /\ FlagsKept /\ UNCHANGED added

\* state 4: after e1, until 77.
RcvdPause(val) ==
  /\ state = 4
  /\ state' = IF val = NUM THEN 0 ELSE 4
  /\ FlagsKept /\ UNCHANGED added

\* keyboard_handle_rcvd_char, called by ps2_handler with the next byte.
RcvdChar == /\ pending # <<>>
            /\ LET val == Head(pending) IN
                 \/ RcvdCode(val)
                 \/ RcvdReleased(val)
                 \/ RcvdExtended(val)
                 \/ RcvdExtendedReleased(val)
                 \/ RcvdPause(val)
            /\ pending' = Tail(pending)
            /\ UNCHANGED <<held, forgotten, event>>
-----------------------------------------------------------------------------
\* The keyboard.
OrdinaryKeys == {<<code>> : code \in Plain}
Keys == OrdinaryKeys \cup {<<code>> : code \in Modifiers}
          \cup {<<E0, code>> : code \in Extended}
BreakBytes(key) == IF Len(key) = 2 THEN <<E0, F0, key[2]>> ELSE <<F0, key[1]>>
PauseBytes == <<E1, CTRL, NUM, E1, F0, CTRL, F0, NUM>>

Happens(kind, key, bytes) == /\ pending = <<>>
                             /\ pending' = bytes
                             /\ event' = [kind |-> kind, key |-> key]
                             /\ added' = <<>>
                             /\ UNCHANGED handler

ShiftKeys == {<<code>> : code \in Shifts}

\* A key goes down, or repeats while it is down.
Press(key) == /\ Happens("press", key, key)
              /\ held' = held \cup {key}
              /\ forgotten' = (forgotten /\ key \notin ShiftKeys)

Release(key) == /\ key \in held
                /\ Happens("release", key, BreakBytes(key))
                /\ held' = held \ {key}
                /\ forgotten' = IF key \in ShiftKeys THEN held' \cap ShiftKeys # {}
                                ELSE forgotten

\* Pause has no release of its own.
PressPause == /\ Happens("pause", <<E1>>, PauseBytes)
              /\ UNCHANGED <<held, forgotten>>

Next == \/ RcvdChar
        \/ \E key \in Keys : Press(key) \/ Release(key)
        \/ PressPause

Spec == Init /\ [][Next]_vars
-----------------------------------------------------------------------------
Flag == {0, 1}

TypeOK == /\ state \in 0 .. 4
          /\ {alt, ctrl, shift, shift_lock, num_lock} \subseteq Flag
          /\ held \subseteq Keys /\ forgotten \in BOOLEAN
          /\ event.kind \in {"none", "press", "release", "pause"}

Settled == pending = <<>>
Down(code) == <<code>> \in held

\* Shift as the keys have it, but for what the one flag both keys share cannot
\* tell: after one of two shift keys went up, that the other is still down.
Shifted == held \cap ShiftKeys # {} /\ ~forgotten

\* The decoder is back in its initial state after every event, so that the
\* next byte is read as what it is: prefixes, releases of extended keys and
\* the eight bytes of Pause included.
Framed == TypeOK /\ (Settled => state = 0)

\* alt, ctrl and shift_lock say whether their key is down, through every
\* interleaving of presses, repeats and releases with extended keys and Pause,
\* whose sequences contain the same codes; shift whether a shift key is, unless
\* another was released since the last press of one.
ModifiersTrack ==
  Settled => /\ alt = 1 <=> Down(ALT)
             /\ ctrl = 1 <=> Down(CTRL)
             /\ shift_lock = 1 <=> Down(CAPS)
             /\ shift = 1 <=> Shifted

\* Only the press of an ordinary key gives a character, and at most one; no
\* release, extended key, modifier or Pause does.
OneCharPerPress ==
  added # <<>> => /\ Len(added) = 1
                  /\ event.kind = "press" /\ event.key \in OrdinaryKeys

\* The charmap a character comes from is the one the keys held down ask for:
\* none under alt, the control characters under ctrl, else upper case with a
\* shift key or caps lock down but not both.  The exception is a shift key held
\* from before another one's release.
CharmapFits ==
  \A i \in DOMAIN added :
    LET map == added[i][1] IN
      \/ map = "outside"
      \/ /\ ~Down(ALT)
         /\ map = CASE Down(CTRL) -> "ctrl"
                    [] ~Down(CTRL) /\ ~(Shifted <=> Down(CAPS)) -> "shift"
                    [] ~Down(CTRL) /\ (Shifted <=> Down(CAPS)) -> "lower"
=============================================================================
