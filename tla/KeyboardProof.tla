---------------------------- MODULE KeyboardProof ----------------------------
(***************************************************************************)
(* The keyboard's two halves.  The scan code decoder, for every set of     *)
(* keys and every charmap: it is back in its initial state after each      *)
(* event, whatever keys are pressed, repeated and released in between, its *)
(* flags follow the modifiers, and a character comes only from a press,    *)
(* out of the charmap the keys ask for.  The PS/2 driver against its       *)
(* controller, for every set of scan codes, firmware configurations and    *)
(* test answers, and any number of keys: which commands can be lost, what  *)
(* configuration the driver leaves, and what the decoder gets to see.      *)
(***************************************************************************)
EXTENDS Keyboard, Ps2, SequenceTheorems, TLAPS

\* How far the decoder is in the bytes of a press, of a release and of Pause:
\* what is still to come, and the state that what came has led to.  The key is
\* down from its first byte on, and up from the first of its release.
InPress(key) ==
  \/ \E code \in Plain \cup Modifiers :
       key = <<code>> /\ Down(code) /\ pending = <<code>> /\ state = 0
  \/ \E code \in Extended :
       /\ key = <<E0, code>>
       /\ \/ pending = <<E0, code>> /\ state = 0
          \/ pending = <<code>> /\ state = 2

InRelease(key) ==
  \/ \E code \in Plain \cup Modifiers :
       /\ key = <<code>> /\ ~ Down(code)
       /\ \/ pending = <<F0, code>> /\ state = 0
          \/ pending = <<code>> /\ state = 1
  \/ \E code \in Extended :
       /\ key = <<E0, code>>
       /\ \/ pending = <<E0, F0, code>> /\ state = 0
          \/ pending = <<F0, code>> /\ state = 2
          \/ pending = <<code>> /\ state = 3

InPause ==
  \/ pending = PauseBytes /\ state = 0
  \/ pending = <<CTRL, NUM, E1, F0, CTRL, F0, NUM>> /\ state = 4
  \/ pending = <<NUM, E1, F0, CTRL, F0, NUM>> /\ state = 4
  \/ pending = <<E1, F0, CTRL, F0, NUM>> /\ state = 0
  \/ pending = <<F0, CTRL, F0, NUM>> /\ state = 4
  \/ pending = <<CTRL, F0, NUM>> /\ state = 4
  \/ pending = <<F0, NUM>> /\ state = 4
  \/ pending = <<NUM>> /\ state = 4

Between == pending = <<>> /\ state = 0

Reading == \/ Between
           \/ event.kind = "press" /\ InPress(event.key)
           \/ event.kind = "release" /\ InRelease(event.key)
           \/ event.kind = "pause" /\ event.key = <<E1>> /\ InPause

\* A flag follows its key, but for the key whose event is being received.
Tracks(flag, code) ==
  pending = <<>> \/ event.key # <<code>> => (flag = 1 <=> Down(code))

\* shift likewise, for both its keys; what forgotten is from the first byte of
\* the event of one of them on, the flag follows at the last.
ShiftTracks ==
  /\ pending = <<>> \/ event.key \notin ShiftKeys => (shift = 1 <=> Shifted)
  /\ event.kind = "press" /\ event.key \in ShiftKeys => ~ forgotten
  /\ event.kind = "release" /\ event.key \in ShiftKeys => ~ Shifted

FlagsTrack == Tracks(alt, ALT) /\ Tracks(ctrl, CTRL) /\ Tracks(shift_lock, CAPS) /\ ShiftTracks

\* The charmap the flags select.
Selected == IF ctrl = 1 THEN "ctrl" ELSE IF shift # shift_lock THEN "shift" ELSE "lower"

Chosen(char) == char[1] = "outside" \/ (alt = 0 /\ char[1] = Selected)

Typed == added # <<>> => /\ pending = <<>>
                         /\ Len(added) = 1 /\ DOMAIN added = {1}
                         /\ event.kind = "press" /\ event.key \in OrdinaryKeys
                         /\ Chosen(added[1])

Inv == TypeOK /\ Reading /\ FlagsTrack /\ Typed

LEMMA InitInv == Init => Inv
<1> SUFFICES ASSUME Init PROVE Inv
  OBVIOUS
<1>1. TypeOK
  <2>1. forgotten = FALSE
    BY DEF Init
  <2>2. forgotten \in BOOLEAN
    BY <2>1, Zenon
  <2>3. QED
    BY <2>2 DEF Init, TypeOK, Flag
<1>2. Reading /\ FlagsTrack /\ Typed
  <2>1. /\ pending = <<>> /\ state = 0 /\ added = <<>> /\ held = {} /\ event.kind = "none"
        /\ alt = 0 /\ ctrl = 0 /\ shift = 0 /\ shift_lock = 0
    BY DEF Init
  <2>2. ~ Shifted
    BY <2>1 DEF Shifted
  <2>3. QED
    BY <2>1, <2>2 DEF Reading, Between, FlagsTrack, Tracks, ShiftTracks, Typed, Down
<1>3. QED
  BY <1>1, <1>2 DEF Inv

-----------------------------------------------------------------------------
(* The codes.                                                              *)

LEMMA Codes ==
  /\ Plain \subseteq 0 .. 131 /\ Plain \cap Modifiers = {}
  /\ Extended \subseteq 0 .. 127
  /\ Modifiers \subseteq 0 .. 127
  /\ \A code \in Plain \cup Modifiers \cup Extended : code \in 0 .. 131 /\ code \notin Prefixes
  BY KeyboardAssumption
     DEF Modifiers, Prefixes, ALT, CTRL, LSHIFT, RSHIFT, CAPS, NUM, F0, E0, E1

\* One byte in each state.
LEMMA ByteRead ==
  ASSUME RcvdChar, NEW val, val = Head(pending)
  PROVE  /\ pending' = Tail(pending) /\ held' = held /\ forgotten' = forgotten /\ event' = event
         /\ state = 0 => RcvdCode(val)
         /\ state = 1 => RcvdReleased(val)
         /\ state = 2 => RcvdExtended(val)
         /\ state = 3 => RcvdExtendedReleased(val)
         /\ state = 4 => RcvdPause(val)
  BY DEF RcvdChar, RcvdCode, RcvdReleased, RcvdExtended, RcvdExtendedReleased, RcvdPause

\* A byte that changes no flag and gives no character.
Quiet == /\ UNCHANGED <<alt, ctrl, shift, shift_lock, num_lock, added, held, forgotten, event>>
         /\ pending # <<>>
         /\ pending' # <<>> \/ \A code \in Modifiers : event.key # <<code>>

LEMMA QuietKeeps == Inv /\ Quiet /\ Reading' /\ state' \in 0 .. 4 => Inv'
<1> SUFFICES ASSUME Inv, Quiet, Reading', state' \in 0 .. 4 PROVE Inv'
  OBVIOUS
<1>1. TypeOK'
  BY DEF Inv, TypeOK, Quiet
<1>2. added' = <<>>
  BY DEF Inv, Typed, Quiet
<1>3. ALT \in Modifiers /\ CTRL \in Modifiers /\ CAPS \in Modifiers /\ Shifts \subseteq Modifiers
  BY DEF Modifiers, Shifts
<1>4. FlagsTrack'
  BY <1>3 DEF Inv, FlagsTrack, Tracks, ShiftTracks, Shifted, ShiftKeys, Quiet, Down
<1>5. QED
  BY <1>1, <1>2, <1>4 DEF Inv, Typed

\* A prefix in state 0.
LEMMA PrefixRead ==
  ASSUME Inv, RcvdChar, state = 0, NEW val \in Prefixes, Head(pending) = val
  PROVE  /\ UNCHANGED <<alt, ctrl, shift, shift_lock, num_lock, added, held, forgotten, event>>
         /\ pending' = Tail(pending)
         /\ state' = IF val = F0 THEN 1 ELSE IF val = E0 THEN 2 ELSE 4
<1>1. RcvdCode(val) /\ pending' = Tail(pending) /\ held' = held /\ forgotten' = forgotten /\ event' = event
  BY ByteRead
<1>2. val \notin Modifiers
  BY DEF Prefixes, Modifiers, ALT, CTRL, LSHIFT, RSHIFT, CAPS, NUM, F0, E0, E1
<1>3. UNCHANGED <<alt, ctrl, shift, shift_lock, num_lock, added>>
  BY <1>1, <1>2 DEF RcvdCode, SetFlag, Modifiers, Shifts
<1>4. state' = IF val = F0 THEN 1 ELSE IF val = E0 THEN 2 ELSE 4
  BY <1>1 DEF RcvdCode, Prefixes, F0, E0, E1
<1>5. QED
  BY <1>1, <1>3, <1>4

\* A byte in the states that only skip.
LEMMA SkipRead ==
  ASSUME RcvdChar, state \in {2, 3, 4}
  PROVE  /\ UNCHANGED <<alt, ctrl, shift, shift_lock, num_lock, added, held, forgotten, event>>
         /\ pending' = Tail(pending)
         /\ state' = IF state = 2 /\ Head(pending) = F0 THEN 3
                     ELSE IF state = 4 /\ Head(pending) # NUM THEN 4 ELSE 0
  BY ByteRead DEF RcvdExtended, RcvdExtendedReleased, RcvdPause, FlagsKept

-----------------------------------------------------------------------------
(* The bytes of each event.                                                *)

\* The one byte of a modifier that goes down.
LEMMA ModifierDown ==
  ASSUME Inv, RcvdChar, NEW code \in Modifiers, event.key = <<code>>, pending = <<code>>,
         state = 0, event.kind = "press", Down(code)
  PROVE  Inv'
<1>1. RcvdCode(code) /\ pending' = <<>> /\ held' = held /\ forgotten' = forgotten /\ event' = event
  BY ByteRead
<1>2. code \notin Prefixes
  BY Codes
<1>3. SetFlag(code, 1) /\ state' = 0 /\ added' = added
  BY <1>1, <1>2 DEF RcvdCode, Prefixes
<1>4. TypeOK'
  BY <1>1, <1>3 DEF Inv, TypeOK, Flag, SetFlag
<1>5. Reading'
  BY <1>1, <1>3 DEF Reading, Between
<1>6. FlagsTrack'
  BY <1>1, <1>3 DEF Inv, FlagsTrack, Tracks, ShiftTracks, Shifted, ShiftKeys, SetFlag, Down, Shifts,
     ALT, CTRL, CAPS, NUM, LSHIFT, RSHIFT
<1>7. added' = <<>>
  BY <1>3 DEF Inv, Typed
<1>8. QED
  BY <1>4, <1>5, <1>6, <1>7 DEF Inv, Typed

\* The last byte of the release of an ordinary key or a modifier.
LEMMA KeyUp ==
  ASSUME Inv, RcvdChar, NEW code \in Plain \cup Modifiers, event.key = <<code>>,
         pending = <<code>>, state = 1, event.kind = "release", ~ Down(code)
  PROVE  Inv'
<1>1. RcvdReleased(code) /\ pending' = <<>> /\ held' = held /\ forgotten' = forgotten /\ event' = event
  BY ByteRead
<1>2. SetFlag(code, 0) /\ state' = 0 /\ added' = added
  BY <1>1 DEF RcvdReleased
<1>3. TypeOK'
  BY <1>1, <1>2 DEF Inv, TypeOK, Flag, SetFlag
<1>4. Reading'
  BY <1>1, <1>2 DEF Reading, Between
<1>5. FlagsTrack'
  BY <1>1, <1>2 DEF Inv, FlagsTrack, Tracks, ShiftTracks, Shifted, ShiftKeys, SetFlag, Down, Shifts,
     ALT, CTRL, CAPS, NUM, LSHIFT, RSHIFT
<1>6. added' = <<>>
  BY <1>2 DEF Inv, Typed
<1>7. QED
  BY <1>3, <1>4, <1>5, <1>6 DEF Inv, Typed

\* The character an ordinary code gives, if it gives one.
LEMMA Translated ==
  ASSUME Inv, RcvdChar, NEW code \in Plain, pending = <<code>>, state = 0
  PROVE  added' = <<>> \/ \E char : added' = <<char>> /\ Chosen(char)
<1>1. added = <<>> /\ code \notin Modifiers /\ code \notin Prefixes
  BY Codes DEF Inv, Typed
<1>2. Translate(code)
  BY <1>1, ByteRead DEF RcvdCode
<1>3. PICK chars \in (IF code < 128 THEN {CharmapLookup(code)} ELSE {{}, {<<"outside", code>>}}) :
        added' = IF chars = {} THEN added ELSE Append(added, CHOOSE c \in chars : TRUE)
  BY <1>2 DEF Translate
<1>4. \A char \in chars : Chosen(char)
  <2>1. CASE chars = CharmapLookup(code)
    <3>1. \A char \in CharmapLookup(code) : alt # 1 /\ char[1] = Selected
      BY DEF CharmapLookup, Selected
    <3>2. alt \in {0, 1}
      BY DEF Inv, TypeOK, Flag
    <3>3. QED
      BY <2>1, <3>1, <3>2 DEF Chosen
  <2>2. CASE chars = {} \/ chars = {<<"outside", code>>}
    BY <2>2 DEF Chosen
  <2>3. QED
    BY <1>3, <2>1, <2>2
<1>5. CASE chars = {}
  BY <1>1, <1>3, <1>5
<1>6. CASE chars # {}
  <2>1. PICK char \in chars : char = CHOOSE c \in chars : TRUE
    BY <1>6
  <2>2. added' = <<char>>
    BY <1>1, <1>3, <1>6, <2>1
  <2>3. QED
    BY <1>4, <2>2
<1>7. QED
  BY <1>5, <1>6

\* The one byte of an ordinary key that goes down.
LEMMA OrdinaryDown ==
  ASSUME Inv, RcvdChar, NEW code \in Plain, event.key = <<code>>, pending = <<code>>,
         state = 0, event.kind = "press"
  PROVE  Inv'
<1>1. RcvdCode(code) /\ pending' = <<>> /\ held' = held /\ forgotten' = forgotten /\ event' = event
  BY ByteRead
<1>2. code \notin Prefixes /\ code \notin Modifiers
  BY Codes
<1>3. state' = 0 /\ UNCHANGED <<alt, ctrl, shift, shift_lock, num_lock>>
  BY <1>1, <1>2 DEF RcvdCode, SetFlag, Prefixes, Modifiers, Shifts
<1>4. TypeOK'
  BY <1>1, <1>3 DEF Inv, TypeOK, Flag
<1>5. Reading'
  BY <1>1, <1>3 DEF Reading, Between
<1>6. FlagsTrack'
  BY <1>1, <1>2, <1>3 DEF Inv, FlagsTrack, Tracks, ShiftTracks, Shifted, ShiftKeys, Shifts, Down, Modifiers
<1>7. Typed'
  <2>1. CASE added' = <<>>
    BY <2>1 DEF Typed
  <2>2. CASE added' # <<>>
    <3>1. PICK char : added' = <<char>> /\ Chosen(char)
      BY <2>2, Translated
    <3>2. Chosen(added'[1])
      BY <3>1
    <3>3. Chosen(added[1])'
      BY <1>3, <3>2 DEF Chosen, Selected
    <3>4. Len(added)' = 1 /\ (DOMAIN added)' = {1}
      BY <3>1
    <3>5. event'.kind = "press" /\ event'.key \in OrdinaryKeys
      BY <1>1 DEF OrdinaryKeys
    <3>6. QED
      BY <1>1, <3>3, <3>4, <3>5 DEF Typed
  <2>3. QED
    BY <2>1, <2>2
<1>8. QED
  BY <1>4, <1>5, <1>6, <1>7 DEF Inv

\* A byte of a press.
LEMMA PressRead ==
  ASSUME Inv, RcvdChar, event.kind = "press", InPress(event.key)
  PROVE  Inv'
<1>1. ASSUME NEW code \in Plain \cup Modifiers, event.key = <<code>>, Down(code),
             pending = <<code>>, state = 0
      PROVE  Inv'
  BY <1>1, ModifierDown, OrdinaryDown
<1>2. ASSUME NEW code \in Extended, event.key = <<E0, code>>, pending = <<E0, code>>, state = 0
      PROVE  Inv'
  <2>1. Head(pending) = E0 /\ Tail(pending) = <<code>> /\ E0 # F0 /\ E0 \in Prefixes
    BY <1>2 DEF E0, F0, Prefixes
  <2>2. UNCHANGED <<alt, ctrl, shift, shift_lock, num_lock, added, held, forgotten, event>>
        /\ pending' = <<code>> /\ state' = 2
    BY <1>2, <2>1, PrefixRead
  <2>3. Quiet
    BY <1>2, <2>2 DEF Quiet
  <2>4. InPress(event.key)'
    BY <1>2, <2>2 DEF InPress
  <2>5. Reading'
    BY <2>2, <2>4 DEF Reading
  <2>6. QED
    BY <2>2, <2>3, <2>5, QuietKeeps
<1>3. ASSUME NEW code \in Extended, event.key = <<E0, code>>, pending = <<code>>, state = 2
      PROVE  Inv'
  <2>1. Head(pending) = code /\ Tail(pending) = <<>> /\ code # F0
    BY <1>3, Codes DEF F0
  <2>2. UNCHANGED <<alt, ctrl, shift, shift_lock, num_lock, added, held, forgotten, event>>
        /\ pending' = <<>> /\ state' = 0
    BY <1>3, <2>1, SkipRead
  <2>3. Quiet
    BY <1>3, <2>2 DEF Quiet
  <2>4. Reading'
    BY <2>2 DEF Reading, Between
  <2>5. QED
    BY <2>2, <2>3, <2>4, QuietKeeps
<1>4. QED
  BY <1>1, <1>2, <1>3 DEF InPress

\* A byte of a release.
LEMMA ReleaseRead ==
  ASSUME Inv, RcvdChar, event.kind = "release", InRelease(event.key)
  PROVE  Inv'
<1>1. ASSUME NEW code \in Plain \cup Modifiers, event.key = <<code>>, ~ Down(code),
             pending = <<F0, code>>, state = 0
      PROVE  Inv'
  <2>1. Head(pending) = F0 /\ Tail(pending) = <<code>> /\ F0 \in Prefixes
    BY <1>1 DEF Prefixes
  <2>2. UNCHANGED <<alt, ctrl, shift, shift_lock, num_lock, added, held, forgotten, event>>
        /\ pending' = <<code>> /\ state' = 1
    BY <1>1, <2>1, PrefixRead
  <2>3. Quiet
    BY <1>1, <2>2 DEF Quiet
  <2>4. InRelease(event.key)'
    BY <1>1, <2>2 DEF InRelease, Down
  <2>5. Reading'
    BY <2>2, <2>4 DEF Reading
  <2>6. QED
    BY <2>2, <2>3, <2>5, QuietKeeps
<1>2. ASSUME NEW code \in Plain \cup Modifiers, event.key = <<code>>, ~ Down(code),
             pending = <<code>>, state = 1
      PROVE  Inv'
  BY <1>2, KeyUp
<1>3. ASSUME NEW code \in Extended, event.key = <<E0, code>>,
             pending = <<E0, F0, code>>, state = 0
      PROVE  Inv'
  <2>1. Head(pending) = E0 /\ Tail(pending) = <<F0, code>> /\ E0 # F0 /\ E0 \in Prefixes
    BY <1>3 DEF E0, F0, Prefixes
  <2>2. UNCHANGED <<alt, ctrl, shift, shift_lock, num_lock, added, held, forgotten, event>>
        /\ pending' = <<F0, code>> /\ state' = 2
    BY <1>3, <2>1, PrefixRead
  <2>3. Quiet
    BY <1>3, <2>2 DEF Quiet
  <2>4. InRelease(event.key)'
    BY <1>3, <2>2 DEF InRelease
  <2>5. Reading'
    BY <2>2, <2>4 DEF Reading
  <2>6. QED
    BY <2>2, <2>3, <2>5, QuietKeeps
<1>4. ASSUME NEW code \in Extended, event.key = <<E0, code>>, pending = <<F0, code>>, state = 2
      PROVE  Inv'
  <2>1. Head(pending) = F0 /\ Tail(pending) = <<code>>
    BY <1>4
  <2>2. UNCHANGED <<alt, ctrl, shift, shift_lock, num_lock, added, held, forgotten, event>>
        /\ pending' = <<code>> /\ state' = 3
    BY <1>4, <2>1, SkipRead
  <2>3. Quiet
    BY <1>4, <2>2 DEF Quiet
  <2>4. InRelease(event.key)'
    BY <1>4, <2>2 DEF InRelease
  <2>5. Reading'
    BY <2>2, <2>4 DEF Reading
  <2>6. QED
    BY <2>2, <2>3, <2>5, QuietKeeps
<1>5. ASSUME NEW code \in Extended, event.key = <<E0, code>>, pending = <<code>>, state = 3
      PROVE  Inv'
  <2>1. Tail(pending) = <<>>
    BY <1>5
  <2>2. UNCHANGED <<alt, ctrl, shift, shift_lock, num_lock, added, held, forgotten, event>>
        /\ pending' = <<>> /\ state' = 0
    BY <1>5, <2>1, SkipRead
  <2>3. Quiet
    BY <1>5, <2>2 DEF Quiet
  <2>4. Reading'
    BY <2>2 DEF Reading, Between
  <2>5. QED
    BY <2>2, <2>3, <2>4, QuietKeeps
<1>6. QED
  BY <1>1, <1>2, <1>3, <1>4, <1>5 DEF InRelease

\* A byte of Pause: e1 is read as a prefix, the others are skipped up to 77.
LEMMA PauseRead ==
  ASSUME Inv, RcvdChar, event.kind = "pause", event.key = <<E1>>, InPause
  PROVE  Inv'
<1>1. E1 \in Prefixes /\ E1 # F0 /\ E1 # E0 /\ E1 # NUM /\ F0 # NUM /\ CTRL # NUM
  BY DEF Prefixes, E1, E0, F0, NUM, CTRL
<1>2. \A code \in Modifiers : event.key # <<code>>
  BY Codes DEF Prefixes
<1>3. /\ UNCHANGED <<alt, ctrl, shift, shift_lock, num_lock, added, held, forgotten, event>>
      /\ InPause' \/ Between'
      /\ state' \in 0 .. 4
  <2>1. CASE state = 0 /\ pending = PauseBytes
    <3>1. Head(pending) = E1 /\ Tail(pending) = <<CTRL, NUM, E1, F0, CTRL, F0, NUM>>
      BY <2>1 DEF PauseBytes
    <3>2. UNCHANGED <<alt, ctrl, shift, shift_lock, num_lock, added, held, forgotten, event>>
          /\ pending' = <<CTRL, NUM, E1, F0, CTRL, F0, NUM>> /\ state' = 4
      BY <1>1, <2>1, <3>1, PrefixRead
    <3>3. InPause'
      BY <3>2 DEF InPause
    <3>4. QED
      BY <3>2, <3>3
  <2>2. CASE state = 0 /\ pending = <<E1, F0, CTRL, F0, NUM>>
    <3>1. Head(pending) = E1 /\ Tail(pending) = <<F0, CTRL, F0, NUM>>
      BY <2>2
    <3>2. UNCHANGED <<alt, ctrl, shift, shift_lock, num_lock, added, held, forgotten, event>>
          /\ pending' = <<F0, CTRL, F0, NUM>> /\ state' = 4
      BY <1>1, <2>2, <3>1, PrefixRead
    <3>3. InPause'
      BY <3>2 DEF InPause
    <3>4. QED
      BY <3>2, <3>3
  <2>3. CASE state = 4
    <3>1. /\ UNCHANGED <<alt, ctrl, shift, shift_lock, num_lock, added, held, forgotten, event>>
          /\ pending' = Tail(pending)
          /\ state' = IF Head(pending) # NUM THEN 4 ELSE 0
      BY <2>3, SkipRead
    <3>2. CASE pending = <<CTRL, NUM, E1, F0, CTRL, F0, NUM>>
      <4>1. pending' = <<NUM, E1, F0, CTRL, F0, NUM>> /\ state' = 4
        BY <1>1, <3>1, <3>2
      <4>2. InPause'
        BY <4>1 DEF InPause
      <4>3. QED
        BY <3>1, <4>1, <4>2
    <3>3. CASE pending = <<NUM, E1, F0, CTRL, F0, NUM>>
      <4>1. pending' = <<E1, F0, CTRL, F0, NUM>> /\ state' = 0
        BY <3>1, <3>3
      <4>2. InPause'
        BY <4>1 DEF InPause
      <4>3. QED
        BY <3>1, <4>1, <4>2
    <3>4. CASE pending = <<F0, CTRL, F0, NUM>>
      <4>1. pending' = <<CTRL, F0, NUM>> /\ state' = 4
        BY <1>1, <3>1, <3>4
      <4>2. InPause'
        BY <4>1 DEF InPause
      <4>3. QED
        BY <3>1, <4>1, <4>2
    <3>5. CASE pending = <<CTRL, F0, NUM>>
      <4>1. pending' = <<F0, NUM>> /\ state' = 4
        BY <1>1, <3>1, <3>5
      <4>2. InPause'
        BY <4>1 DEF InPause
      <4>3. QED
        BY <3>1, <4>1, <4>2
    <3>6. CASE pending = <<F0, NUM>>
      <4>1. pending' = <<NUM>> /\ state' = 4
        BY <1>1, <3>1, <3>6
      <4>2. InPause'
        BY <4>1 DEF InPause
      <4>3. QED
        BY <3>1, <4>1, <4>2
    <3>7. CASE pending = <<NUM>>
      <4>1. pending' = <<>> /\ state' = 0
        BY <3>1, <3>7
      <4>2. QED
        BY <3>1, <4>1 DEF Between
    <3>8. QED
      BY <2>3, <3>2, <3>3, <3>4, <3>5, <3>6, <3>7 DEF InPause
  <2>4. QED
    BY <2>1, <2>2, <2>3 DEF InPause
<1>4. Quiet
  BY <1>2, <1>3 DEF Quiet, RcvdChar
<1>5. Reading'
  BY <1>3 DEF Reading
<1>6. QED
  BY <1>3, <1>4, <1>5, QuietKeeps

\* A byte of any event.
LEMMA ReadInv == Inv /\ RcvdChar => Inv'
<1> SUFFICES ASSUME Inv, RcvdChar PROVE Inv'
  OBVIOUS
<1>1. ~ Between
  BY DEF RcvdChar, Between
<1>2. QED
  BY <1>1, PressRead, ReleaseRead, PauseRead DEF Inv, Reading

\* The keyboard starts the next event.
LEMMA HappensInv ==
  ASSUME Inv, NEW kind, NEW key, NEW bytes, Happens(kind, key, bytes), bytes # <<>>,
         Reading', held' \subseteq Keys, kind \in {"press", "release", "pause"},
         \/ held' = held /\ forgotten' = forgotten /\ kind = "pause" /\ key = <<E1>>
         \/ kind = "press" /\ held' = held \cup {key} /\ forgotten' = (forgotten /\ key \notin ShiftKeys)
         \/ /\ kind = "release" /\ held' = held \ {key}
            /\ forgotten' = IF key \in ShiftKeys THEN held' \cap ShiftKeys # {} ELSE forgotten
  PROVE  Inv'
<1>1. /\ pending = <<>> /\ pending' = bytes /\ added' = <<>>
      /\ event' = [kind |-> kind, key |-> key] /\ UNCHANGED handler
  BY DEF Happens
<1>2. UNCHANGED <<state, alt, ctrl, shift, shift_lock, num_lock>>
  BY <1>1 DEF handler
<1>3. TypeOK'
  BY <1>1, <1>2 DEF Inv, TypeOK
<1>4. \A code \in Modifiers : event'.key # <<code>> => (Down(code)' <=> Down(code))
  BY <1>1 DEF Down
<1>5. ALT \in Modifiers /\ CTRL \in Modifiers /\ CAPS \in Modifiers /\ Shifts \subseteq Modifiers
  BY DEF Modifiers, Shifts
<1>6. (Tracks(alt, ALT) /\ Tracks(ctrl, CTRL) /\ Tracks(shift_lock, CAPS))'
  BY <1>1, <1>2, <1>4, <1>5 DEF Inv, FlagsTrack, Tracks
<1>7. ShiftTracks'
  <2>1. shift' = shift /\ (shift = 1 <=> Shifted)
    BY <1>1, <1>2 DEF Inv, FlagsTrack, ShiftTracks
  <2>2. key = <<E1>> => key \notin ShiftKeys
    BY DEF ShiftKeys, Shifts, E1, LSHIFT, RSHIFT
  <2>3. CASE key \notin ShiftKeys
    <3>1. forgotten' <=> forgotten
      <4>1. (forgotten' <=> forgotten) \/ (forgotten' <=> (forgotten /\ key \notin ShiftKeys))
        BY <2>3
      <4>2. QED
        BY <2>3, <4>1, Zenon
    <3>2. held' \cap ShiftKeys = held \cap ShiftKeys
      BY <2>3
    <3>3. Shifted' <=> Shifted
      BY <3>1, <3>2 DEF Shifted
    <3>4. event'.key \notin ShiftKeys
      BY <1>1, <2>3
    <3>5. QED
      BY <2>1, <3>3, <3>4 DEF ShiftTracks
  <2>4. CASE key \in ShiftKeys /\ kind = "press"
    <3>1. forgotten' = FALSE
      BY <2>4
    <3>2. QED
      BY <1>1, <2>4, <3>1 DEF ShiftTracks
  <2>5. CASE key \in ShiftKeys /\ kind = "release"
    <3>1. forgotten' = (held' \cap ShiftKeys # {})
      BY <2>5
    <3>2. ~ Shifted'
      BY <3>1 DEF Shifted
    <3>3. QED
      BY <1>1, <2>5, <3>2 DEF ShiftTracks
  <2>6. QED
    BY <2>2, <2>3, <2>4, <2>5
<1>8. QED
  BY <1>1, <1>3, <1>6, <1>7 DEF Inv, FlagsTrack, Typed

LEMMA KeyBytes ==
  ASSUME NEW key \in Keys
  PROVE  \/ \E code \in Plain \cup Modifiers : key = <<code>> /\ BreakBytes(key) = <<F0, code>>
         \/ \E code \in Extended : key = <<E0, code>> /\ BreakBytes(key) = <<E0, F0, code>>
  BY DEF Keys, OrdinaryKeys, BreakBytes

LEMMA PressInv == ASSUME Inv, NEW key \in Keys, Press(key) PROVE Inv'
<1>1. Happens("press", key, key) /\ held' = held \cup {key}
      /\ forgotten' = (forgotten /\ key \notin ShiftKeys)
  BY DEF Press
<1>2. pending = <<>> /\ pending' = key /\ state' = 0
  BY <1>1 DEF Happens, handler, Inv, Reading, Between, InPress, InRelease, InPause, PauseBytes
<1>3. key # <<>> /\ InPress(key)'
  BY <1>1, <1>2, KeyBytes DEF InPress, Down
<1>4. event' = [kind |-> "press", key |-> key]
  BY <1>1 DEF Happens
<1>5. Reading'
  BY <1>3, <1>4 DEF Reading, InPress
<1>6. held' \subseteq Keys
  BY <1>1 DEF Inv, TypeOK
<1>7. QED
  BY <1>1, <1>3, <1>5, <1>6, HappensInv

LEMMA ReleaseInv == ASSUME Inv, NEW key \in Keys, Release(key) PROVE Inv'
<1>1. Happens("release", key, BreakBytes(key)) /\ held' = held \ {key}
      /\ forgotten' = IF key \in ShiftKeys THEN held' \cap ShiftKeys # {} ELSE forgotten
  BY DEF Release
<1>2. pending = <<>> /\ pending' = BreakBytes(key) /\ state' = 0
  BY <1>1 DEF Happens, handler, Inv, Reading, Between, InPress, InRelease, InPause, PauseBytes
<1>3. BreakBytes(key) # <<>> /\ InRelease(key)'
  BY <1>1, <1>2, KeyBytes DEF InRelease, Down
<1>4. event' = [kind |-> "release", key |-> key]
  BY <1>1 DEF Happens
<1>5. Reading'
  BY <1>3, <1>4 DEF Reading, InRelease
<1>6. held' \subseteq Keys
  BY <1>1 DEF Inv, TypeOK
<1>7. QED
  BY <1>1, <1>3, <1>5, <1>6, HappensInv

LEMMA PauseInv == Inv /\ PressPause => Inv'
<1> SUFFICES ASSUME Inv, PressPause PROVE Inv'
  OBVIOUS
<1>1. Happens("pause", <<E1>>, PauseBytes) /\ held' = held /\ forgotten' = forgotten
  BY DEF PressPause
<1>2. pending = <<>> /\ pending' = PauseBytes /\ state' = 0
  BY <1>1 DEF Happens, handler, Inv, Reading, Between, InPress, InRelease, InPause, PauseBytes
<1>3. PauseBytes # <<>> /\ InPause'
  BY <1>2 DEF InPause, PauseBytes
<1>4. event' = [kind |-> "pause", key |-> <<E1>>]
  BY <1>1 DEF Happens
<1>5. Reading'
  BY <1>3, <1>4 DEF Reading
<1>6. held' \subseteq Keys
  BY <1>1 DEF Inv, TypeOK
<1>7. QED
  BY <1>1, <1>3, <1>5, <1>6, HappensInv

LEMMA NextInv == Inv /\ [Next]_vars => Inv'
<1> SUFFICES ASSUME Inv, [Next]_vars PROVE Inv'
  OBVIOUS
<1>1. CASE RcvdChar
  BY <1>1, ReadInv
<1>2. ASSUME NEW key \in Keys, Press(key) \/ Release(key) PROVE Inv'
  BY <1>2, PressInv, ReleaseInv
<1>3. CASE PressPause
  BY <1>3, PauseInv
<1>4. CASE UNCHANGED vars
  <2>1. UNCHANGED <<state, alt, ctrl, shift, shift_lock, num_lock, added, held, forgotten, pending, event>>
    BY <1>4 DEF vars, handler
  <2>2. Shifted' <=> Shifted
    <3>1. held' = held /\ (forgotten' <=> forgotten)
      BY <2>1
    <3>2. QED
      BY <3>1, Zenon DEF Shifted
  <2>3. TypeOK'
    BY <2>1 DEF Inv, TypeOK
  <2>4. Reading'
    BY <2>1 DEF Inv, Reading, Between, InPress, InRelease, InPause, Down
  <2>5. (Tracks(alt, ALT) /\ Tracks(ctrl, CTRL) /\ Tracks(shift_lock, CAPS))'
    BY <2>1 DEF Inv, FlagsTrack, Tracks, Down
  <2>6. ShiftTracks'
    BY <2>1, <2>2 DEF Inv, FlagsTrack, ShiftTracks
  <2>7. Typed'
    BY <2>1 DEF Inv, Typed, Chosen, Selected
  <2>8. QED
    BY <2>3, <2>4, <2>5, <2>6, <2>7 DEF Inv, FlagsTrack
<1>5. QED
  BY <1>1, <1>2, <1>3, <1>4 DEF Next

LEMMA InvAlways == Spec => []Inv
  BY InitInv, NextInv, PTL DEF Spec
-----------------------------------------------------------------------------
(* What is read off the invariant.                                         *)

LEMMA SettledReading == ASSUME Inv, pending = <<>> PROVE state = 0
  BY DEF Inv, Reading, Between, InPress, InRelease, InPause, PauseBytes

\* keyboard_handle_rcvd_char is back in state 0 when the bytes of an event
\* have all arrived, whatever the events and in whatever order.
THEOREM DecoderIsFramed == Spec => []Framed
<1>1. Inv => Framed
  BY SettledReading DEF Framed, Settled, Inv
<1>2. QED
  BY <1>1, InvAlways, PTL

\* Between events alt, ctrl and shift_lock say whether their key is down, and
\* shift whether a shift key is, unless another was released since the last
\* press of one.
THEOREM FlagsFollowKeys == Spec => []ModifiersTrack
<1>1. Inv => ModifiersTrack
  BY DEF Inv, FlagsTrack, Tracks, ShiftTracks, ModifiersTrack, Settled
<1>2. QED
  BY <1>1, InvAlways, PTL

\* What reaches the FIFO during one event is nothing, or one character and
\* then the event is the press of an ordinary key.
THEOREM CharactersArePresses == Spec => []OneCharPerPress
<1>1. Inv => OneCharPerPress
  BY DEF Inv, Typed, OneCharPerPress
<1>2. QED
  BY <1>1, InvAlways, PTL

\* charmap_lookup takes the charmap that the keys held down ask for, but for a
\* shift key held from before another one's release.
THEOREM CharmapIsAskedFor == Spec => []CharmapFits
<1>1. ASSUME Inv, NEW i \in DOMAIN added
      PROVE  LET map == added[i][1] IN
             \/ map = "outside"
             \/ /\ ~Down(ALT)
                /\ map = CASE Down(CTRL) -> "ctrl"
                           [] ~Down(CTRL) /\ ~(Shifted <=> Down(CAPS)) -> "shift"
                           [] ~Down(CTRL) /\ (Shifted <=> Down(CAPS)) -> "lower"
  <2>1. added # <<>>
    BY <1>1
  <2>2. pending = <<>> /\ i = 1 /\ Chosen(added[1])
    BY <1>1, <2>1 DEF Inv, Typed
  <2>3. /\ alt = 1 <=> Down(ALT)
        /\ ctrl = 1 <=> Down(CTRL)
        /\ shift_lock = 1 <=> Down(CAPS)
        /\ shift = 1 <=> Shifted
    BY <1>1, <2>2 DEF Inv, FlagsTrack, Tracks, ShiftTracks
  <2>4. {alt, ctrl, shift, shift_lock} \subseteq {0, 1}
    BY <1>1 DEF Inv, TypeOK, Flag
  <2>5. shift # shift_lock <=> ~(Shifted <=> Down(CAPS))
    BY <2>3, <2>4
  <2>6. Selected = CASE Down(CTRL) -> "ctrl"
                     [] ~Down(CTRL) /\ ~(Shifted <=> Down(CAPS)) -> "shift"
                     [] ~Down(CTRL) /\ (Shifted <=> Down(CAPS)) -> "lower"
    BY <2>3, <2>5 DEF Selected
  <2>7. QED
    BY <2>2, <2>3, <2>4, <2>6 DEF Chosen
<1>2. Inv => CharmapFits
  BY <1>1 DEF CharmapFits
<1>3. QED
  BY <1>2, InvAlways, PTL

-----------------------------------------------------------------------------
(* The driver: ps2_init, written out.                                      *)

Program ==
  <<[op |-> "mask"],
    Delay, Command("ad"), Delay, Command("a7"),
    [op |-> "flush"],
    Command("20"), Delay, ReadAnswer,
    Command("60"), Delay, WriteConfig({KINT, AUXINT, XLATE}, {}),
    Delay, Command("aa"), Delay, [op |-> "test"], Delay,
    Delay, Command("ae"),
    Command("20"), Delay, ReadAnswer,
    Command("60"), Delay, WriteConfig({}, {KINT, AUXINT}),
    [op |-> "register"], [op |-> "unmask"], [op |-> "sti"]>>

Operations == {Program[k] : k \in 1 .. 28}

LEMMA ProgramType == Program \in Seq(Operations) /\ Len(Program) = 28
<1>1. Len(Program) = 28 /\ DOMAIN Program = 1 .. 28
  BY DEF Program
<1>2. Program \in [1 .. 28 -> Operations]
  <2>1. Program = [k \in 1 .. 28 |-> Program[k]]
    BY DEF Program
  <2>2. QED
    BY <2>1 DEF Operations
<1>3. QED
  BY <1>1, <1>2, SeqDef

\* The operations of the program after the m-th up to the n-th.
IsPart(q, m, n) == /\ q \in Seq(Operations) /\ Len(q) = n - m
                   /\ \A k \in 1 .. n - m : q[k] = Program[m + k]

LEMMA Joined ==
  ASSUME NEW l \in Nat, NEW m \in Nat, NEW n \in Nat, l <= m, m <= n,
         NEW p, NEW q, IsPart(p, l, m), IsPart(q, m, n)
  PROVE  IsPart(p \o q, l, n)
<1>1. /\ p \in Seq(Operations) /\ Len(p) = m - l
      /\ \A k \in 1 .. m - l : p[k] = Program[l + k]
  BY DEF IsPart
<1>2. /\ q \in Seq(Operations) /\ Len(q) = n - m
      /\ \A k \in 1 .. n - m : q[k] = Program[m + k]
  BY DEF IsPart
<1>3. /\ p \o q \in Seq(Operations) /\ Len(p \o q) = n - l
      /\ \A k \in 1 .. n - l : (p \o q)[k] = IF k <= m - l THEN p[k] ELSE q[k - (m - l)]
  <2>1. /\ p \o q \in Seq(Operations)
        /\ Len(p \o q) = Len(p) + Len(q)
        /\ \A k \in 1 .. Len(p) + Len(q) :
             (p \o q)[k] = IF k <= Len(p) THEN p[k] ELSE q[k - Len(p)]
    BY <1>1, <1>2, ConcatProperties, Zenon
  <2>2. Len(p) + Len(q) = n - l
    BY <1>1, <1>2
  <2>3. QED
    BY <1>1, <2>1, <2>2
<1>4. ASSUME NEW k \in 1 .. n - l PROVE (p \o q)[k] = Program[l + k]
  <2>1. CASE k <= m - l
    BY <1>1, <1>3, <2>1
  <2>2. CASE ~(k <= m - l)
    <3>1. PICK j \in 1 .. n - m : j = k - (m - l) /\ m + j = l + k
      BY <2>2
    <3>2. (p \o q)[k] = q[j]
      BY <1>3, <2>2, <3>1
    <3>3. q[j] = Program[m + j]
      BY <1>2
    <3>4. QED
      BY <3>1, <3>2, <3>3
  <2>3. QED
    BY <2>1, <2>2, Zenon
<1>5. QED
  BY <1>3, <1>4 DEF IsPart

LEMMA Straight == IsPart(ps2_init, 0, 28)
<1>1. \A k \in 1 .. 28 : Program[k] \in Operations
  BY DEF Operations
<1>2. /\ IsPart(<<Program[1]>>, 0, 1)
      /\ IsPart(<<Program[2], Program[3]>>, 1, 3)
      /\ IsPart(<<Program[4], Program[5]>>, 3, 5)
      /\ IsPart(<<Program[6]>>, 5, 6)
      /\ IsPart(<<Program[7], Program[8], Program[9]>>, 6, 9)
      /\ IsPart(<<Program[10], Program[11], Program[12]>>, 9, 12)
  BY <1>1 DEF IsPart
<1>3. /\ IsPart(<<Program[13], Program[14]>>, 12, 14)
      /\ IsPart(<<Program[15], Program[16], Program[17]>>, 14, 17)
      /\ IsPart(<<Program[18], Program[19]>>, 17, 19)
      /\ IsPart(<<Program[20], Program[21], Program[22]>>, 19, 22)
      /\ IsPart(<<Program[23], Program[24], Program[25]>>, 22, 25)
      /\ IsPart(<<Program[26], Program[27], Program[28]>>, 25, 28)
  BY <1>1 DEF IsPart
<1>4. /\ <<[op |-> "mask"]>> = <<Program[1]>>
      /\ ps2_write_reg("ad") = <<Program[2], Program[3]>>
      /\ ps2_write_reg("a7") = <<Program[4], Program[5]>>
      /\ <<[op |-> "flush"]>> = <<Program[6]>>
      /\ ps2_read_reg("20") = <<Program[7], Program[8], Program[9]>>
      /\ ps2_write_reg2("60", {KINT, AUXINT, XLATE}, {}) = <<Program[10], Program[11], Program[12]>>
  BY DEF ps2_write_reg, ps2_read_reg, ps2_write_reg2, Program
<1>5. /\ ps2_write_reg("aa") = <<Program[13], Program[14]>>
      /\ <<Delay, [op |-> "test"], Delay>> = <<Program[15], Program[16], Program[17]>>
      /\ ps2_write_reg("ae") = <<Program[18], Program[19]>>
      /\ ps2_read_reg("20") = <<Program[20], Program[21], Program[22]>>
      /\ ps2_write_reg2("60", {}, {KINT, AUXINT}) = <<Program[23], Program[24], Program[25]>>
      /\ <<[op |-> "register"], [op |-> "unmask"], [op |-> "sti"]>>
           = <<Program[26], Program[27], Program[28]>>
  BY DEF ps2_write_reg, ps2_read_reg, ps2_write_reg2, Program
<1>6. /\ IsPart(<<[op |-> "mask"]>>, 0, 1)
      /\ IsPart(ps2_write_reg("ad"), 1, 3) /\ IsPart(ps2_write_reg("a7"), 3, 5)
      /\ IsPart(<<[op |-> "flush"]>>, 5, 6)
      /\ IsPart(ps2_read_reg("20"), 6, 9)
      /\ IsPart(ps2_write_reg2("60", {KINT, AUXINT, XLATE}, {}), 9, 12)
  BY <1>2, <1>4, Zenon
<1>7. /\ IsPart(ps2_write_reg("aa"), 12, 14)
      /\ IsPart(<<Delay, [op |-> "test"], Delay>>, 14, 17)
      /\ IsPart(ps2_write_reg("ae"), 17, 19)
      /\ IsPart(ps2_read_reg("20"), 19, 22)
      /\ IsPart(ps2_write_reg2("60", {}, {KINT, AUXINT}), 22, 25)
      /\ IsPart(<<[op |-> "register"], [op |-> "unmask"], [op |-> "sti"]>>, 25, 28)
  BY <1>3, <1>5, Zenon
<1>8. IsPart(ps2_disable_ports, 1, 5) /\ IsPart(ps2_test_selftest, 12, 17)
  BY <1>6, <1>7, Joined DEF ps2_disable_ports, ps2_test_selftest
<1> DEFINE a == <<[op |-> "mask"]>> \o ps2_disable_ports
           b == a \o <<[op |-> "flush"]>>
           c == b \o ps2_read_reg("20")
           d == c \o ps2_write_reg2("60", {KINT, AUXINT, XLATE}, {})
           e == d \o ps2_test_selftest
           f == e \o ps2_write_reg("ae")
           g == f \o ps2_read_reg("20")
           h == g \o ps2_write_reg2("60", {}, {KINT, AUXINT})
<1>9. ps2_init = h \o <<[op |-> "register"], [op |-> "unmask"], [op |-> "sti"]>>
  BY DEF ps2_init
<1>10. IsPart(a, 0, 5)
  BY <1>6, <1>8, Joined
<1>11. IsPart(b, 0, 6)
  <2> HIDE DEF a
  <2> QED BY <1>6, <1>10, Joined
<1>12. IsPart(c, 0, 9)
  <2> HIDE DEF b
  <2> QED BY <1>6, <1>11, Joined
<1>13. IsPart(d, 0, 12)
  <2> HIDE DEF c
  <2> QED BY <1>6, <1>12, Joined
<1>14. IsPart(e, 0, 17)
  <2> HIDE DEF d
  <2> QED BY <1>8, <1>13, Joined
<1>15. IsPart(f, 0, 19)
  <2> HIDE DEF e
  <2> QED BY <1>7, <1>14, Joined
<1>16. IsPart(g, 0, 22)
  <2> HIDE DEF f
  <2> QED BY <1>7, <1>15, Joined
<1>17. IsPart(h, 0, 25)
  <2> HIDE DEF g
  <2> QED BY <1>7, <1>16, Joined
<1>18. QED
  <2> HIDE DEF h
  <2> QED BY <1>7, <1>9, <1>17, Joined

LEMMA Written == Len(ps2_init) = 28 /\ \A k \in 1 .. 28 : ps2_init[k] = Program[k]
<1>1. Len(ps2_init) = 28 /\ \A k \in 1 .. 28 : ps2_init[k] = Program[0 + k]
  BY Straight DEF IsPart
<1>2. \A k \in 1 .. 28 : 0 + k = k
  OBVIOUS
<1>3. QED
  BY <1>1, <1>2

\* Where ps2_init performs each operation.
LEMMA Positions ==
  ASSUME pc \in 0 .. 28
  PROVE  /\ Done <=> pc = 28
         /\ At("mask") <=> pc = 0
         /\ At("delay") <=> pc \in {1, 3, 7, 10, 12, 14, 16, 17, 20, 23}
         /\ At("command") <=> pc \in {2, 4, 6, 9, 13, 18, 19, 22}
         /\ At("flush") <=> pc = 5
         /\ At("read") <=> pc \in {8, 21}
         /\ At("data") <=> pc \in {11, 24}
         /\ At("test") <=> pc = 15
         /\ At("register") <=> pc = 25
         /\ At("unmask") <=> pc = 26
         /\ At("sti") <=> pc = 27
<1>1. /\ Program[1].op = "mask"
      /\ \A k \in {2, 4, 8, 11, 13, 15, 17, 18, 21, 24} : Program[k].op = "delay"
      /\ \A k \in {3, 5, 7, 10, 14, 19, 20, 23} : Program[k].op = "command"
      /\ Program[6].op = "flush"
      /\ \A k \in {9, 22} : Program[k].op = "read"
      /\ \A k \in {12, 25} : Program[k].op = "data"
      /\ Program[16].op = "test"
      /\ Program[26].op = "register" /\ Program[27].op = "unmask" /\ Program[28].op = "sti"
  BY DEF Program, Delay, Command, ReadAnswer, WriteConfig
<1>2. Done <=> pc = 28
  BY Written DEF Done
<1>3. pc # 28 => pc + 1 \in 1 .. 28 /\ ps2_init[pc + 1] = Program[pc + 1]
  <2>1. pc # 28 => pc + 1 \in 1 .. 28
    OBVIOUS
  <2>2. QED
    BY <2>1, Written, Zenon
<1> DEFINE op == Program[pc + 1].op
<1>4. \A o : At(o) <=> pc # 28 /\ op = o
  BY <1>2, <1>3, Zenon DEF At
<1>5. /\ pc = 0 => op = "mask"
      /\ pc \in {1, 3, 7, 10, 12, 14, 16, 17, 20, 23} => op = "delay"
      /\ pc \in {2, 4, 6, 9, 13, 18, 19, 22} => op = "command"
      /\ pc = 5 => op = "flush"
      /\ pc \in {8, 21} => op = "read"
      /\ pc \in {11, 24} => op = "data"
      /\ pc = 15 => op = "test"
      /\ pc = 25 => op = "register"
      /\ pc = 26 => op = "unmask"
      /\ pc = 27 => op = "sti"
  BY <1>1
<1> HIDE DEF op
<1>6. QED
  BY <1>2, <1>4, <1>5

\* What each operation writes.
LEMMA Operands ==
  ASSUME pc \in 0 .. 28
  PROVE  /\ pc = 2 => ps2_init[pc + 1] = Command("ad")
         /\ pc = 4 => ps2_init[pc + 1] = Command("a7")
         /\ pc \in {6, 19} => ps2_init[pc + 1] = Command("20")
         /\ pc \in {9, 22} => ps2_init[pc + 1] = Command("60")
         /\ pc = 13 => ps2_init[pc + 1] = Command("aa")
         /\ pc = 18 => ps2_init[pc + 1] = Command("ae")
         /\ pc = 11 => ps2_init[pc + 1] = WriteConfig({KINT, AUXINT, XLATE}, {})
         /\ pc = 24 => ps2_init[pc + 1] = WriteConfig({}, {KINT, AUXINT})
<1>1. pc # 28 => pc + 1 \in 1 .. 28 /\ ps2_init[pc + 1] = Program[pc + 1]
  <2>1. pc # 28 => pc + 1 \in 1 .. 28
    OBVIOUS
  <2>2. QED
    BY <2>1, Written, Zenon
<1>2. /\ Program[3] = Command("ad") /\ Program[5] = Command("a7")
      /\ Program[7] = Command("20") /\ Program[20] = Command("20")
      /\ Program[10] = Command("60") /\ Program[23] = Command("60")
      /\ Program[14] = Command("aa") /\ Program[19] = Command("ae")
      /\ Program[12] = WriteConfig({KINT, AUXINT, XLATE}, {})
      /\ Program[25] = WriteConfig({}, {KINT, AUXINT})
  BY DEF Program
<1>3. QED
  BY <1>1, <1>2

\* The records that are not None.
LEMMA NotNone ==
  /\ \A c : Command(c) # None /\ Command(c).byte = c
  /\ \A b : [byte |-> "data", bits |-> b] # None
  /\ \A b : Answer(b) # None /\ Answer(b).from = "controller" /\ Answer(b).bits = b
  /\ \A b, k : [from |-> "keyboard", bits |-> b, n |-> k] # None
  /\ None.from = "none"
<1>1. ASSUME NEW c PROVE Command(c) # None /\ Command(c).byte = c
  BY DEF Command, None
<1>2. ASSUME NEW b PROVE [byte |-> "data", bits |-> b] # None
  BY DEF None
<1>3. ASSUME NEW b PROVE Answer(b) # None /\ Answer(b).from = "controller" /\ Answer(b).bits = b
  BY DEF Answer, None
<1>4. ASSUME NEW b, NEW k PROVE [from |-> "keyboard", bits |-> b, n |-> k] # None
  BY DEF None
<1>5. None.from = "none"
  BY DEF None
<1>6. QED
  BY <1>1, <1>2, <1>3, <1>4, <1>5, Zenon

-----------------------------------------------------------------------------
(* What the driver has made of the controller, at each of its operations.  *)

Data == [byte |-> "data", bits |-> cfg]

Flags == /\ irr \in BOOLEAN /\ raced \in BOOLEAN /\ enabled \in BOOLEAN
         /\ registered \in BOOLEAN /\ awaits \in BOOLEAN

Ps2Typed == /\ pc \in 0 .. 28 /\ sent \in Nat
            /\ Flags
            /\ owed = None \/ owed.from = "controller"
            /\ \/ output = None
               \/ output.from = "controller"
               \/ output.from = "keyboard" /\ output.n = sent

\* A byte that waits to be taken is the last one written.
Waiting == \/ input = None
           \/ pc = 3 /\ input = Command("ad")
           \/ pc \in {5, 6} /\ input = Command("a7")
           \/ pc \in {7, 20} /\ input = Command("20")
           \/ pc \in {10, 23} /\ input = Command("60")
           \/ pc = 14 /\ input = Command("aa")
           \/ pc = 19 /\ input = Command("ae")
           \/ pc \in {12} \cup (25 .. 28) /\ input = Data

\* The controller expects the data byte when it is written, and while it waits.
Expected == /\ pc \in {10, 11, 23, 24} /\ input = None => awaits
            /\ pc \in {12} \cup (25 .. 28) /\ input # None => awaits

InputInv == Ps2Typed /\ Waiting /\ Expected /\ CommandsAtRisk

\* What goes through port 0x60, and the configuration.
Byte == [from : {"none", "keyboard", "controller"}, bits : SUBSET (0 .. 7), n : Nat]

Bytes == /\ cfg \in SUBSET (0 .. 7) /\ config \in SUBSET (0 .. 7)
         /\ owed \in Byte /\ output \in Byte /\ latch \in Byte
         /\ handed \in Seq(Byte)

C1 == found \cup {KOFF}
C2 == C1 \cup {AUXOFF}
C3 == C2 \ {KINT, AUXINT, XLATE}
C4 == C3 \ {KOFF}
C5 == C4 \cup {KINT, AUXINT}

Clean == dropped = {} /\ ~raced

ConfigAt ==
  /\ pc \in 0 .. 2 => config = found
  /\ pc = 3 => config = IF input = None THEN C1 ELSE found
  /\ pc = 4 => config = C1
  /\ pc \in {5, 6} => config = IF input = None THEN C2 ELSE C1
  /\ pc \in 7 .. 11 => config = C2
  /\ pc = 12 => config = IF input = None THEN C3 ELSE C2
  /\ pc \in 13 .. 18 => config = C3
  /\ pc = 19 => config = IF input = None THEN C4 ELSE C3
  /\ pc \in 20 .. 24 => config = C4
  /\ pc \in 25 .. 28 => config = IF input = None THEN C5 ELSE C4

CfgAt ==
  /\ pc \in {9, 10, 11} => cfg = C2
  /\ pc = 12 => cfg = C3
  /\ pc \in {22, 23, 24} => cfg = C4
  /\ pc \in 25 .. 28 => cfg = C5

\* An answer is outstanding.
Answering == owed # None \/ output.from = "controller"

\* There is an answer just when it was asked for, and it is the right one.
AnswersAt ==
  /\ Answering => \/ pc \in {7, 14, 20} /\ input = None
                  \/ pc \in {8, 15, 21}
  /\ owed # None => output.from # "controller"
  /\ pc \in {7, 8} => /\ owed # None => owed.bits = C2
                      /\ output.from = "controller" => output.bits = C2
  /\ pc \in {20, 21} => /\ owed # None => owed.bits = C4
                        /\ output.from = "controller" => output.bits = C4

ConfigInv == Clean => ConfigAt /\ CfgAt /\ AnswersAt

\* From its last wait on ps2_init is not owed an answer any more, and nothing
\* is handed over before it is done.
Ps2Settled == (pc = 23 /\ input = None) \/ pc \in 24 .. 28

SettledInv == /\ Ps2Settled => owed = None
              /\ enabled => pc = 28
              /\ pc \in 26 .. 28 => registered
              /\ pc < 28 => handed = <<>>

\* The old byte that port 0x60 reads is the keyboard's last.
LatchInv == output = None /\ latch.from = "keyboard" => latch.n = sent

\* After the first byte handed over, a request for IRQ1 stands for a new byte
\* of the keyboard, the one after the last that was handed over.
StreamInv ==
  handed # <<>> =>
    /\ output.from # "controller"
    /\ irr => output # None
    /\ handed[Len(handed)].from = "keyboard" =>
         handed[Len(handed)].n = IF output = None THEN sent ELSE sent - 1

HandInv == SettledInv /\ LatchInv /\ StreamInv /\ CleanAfterFirst

-----------------------------------------------------------------------------
(* Types, and what waits in the input buffer.                              *)

LEMMA InitInput == Ps2Init => InputInv
<1> SUFFICES ASSUME Ps2Init PROVE InputInv
  OBVIOUS
<1>1. /\ pc = 0 /\ sent = 0 /\ irr = FALSE /\ raced = FALSE /\ enabled = FALSE
      /\ registered = FALSE /\ awaits = FALSE /\ owed = None /\ output = None
      /\ input = None /\ dropped = {}
  BY DEF Ps2Init
<1>2. Ps2Typed
  <2>1. Flags
    BY <1>1, Zenon DEF Flags
  <2>2. QED
    BY <1>1, <2>1 DEF Ps2Typed
<1>3. Waiting /\ Expected /\ CommandsAtRisk
  BY <1>1 DEF Waiting, Expected, CommandsAtRisk
<1>4. QED
  BY <1>2, <1>3 DEF InputInv

LEMMA CommandStep ==
  ASSUME InputInv, DoCommand
  PROVE  InputInv'
<1>1. /\ pc \in 0 .. 28 /\ pc \in {2, 4, 6, 9, 13, 18, 19, 22} /\ pc' = pc + 1
      /\ input' = ps2_init[pc + 1]
      /\ dropped' = IF input = None THEN dropped ELSE dropped \cup {input.byte}
      /\ UNCHANGED <<sent, irr, raced, enabled, registered, awaits, owed, output>>
  BY Positions DEF InputInv, Ps2Typed, DoCommand, Continue, Write, Kept
<1>2. Ps2Typed'
  <2>1. Flags'
    BY <1>1, Zenon DEF InputInv, Ps2Typed, Flags
  <2>2. QED
    BY <1>1, <2>1 DEF InputInv, Ps2Typed
<1>3. /\ pc = 2 => pc' = 3 /\ input' = Command("ad")
      /\ pc = 4 => pc' = 5 /\ input' = Command("a7")
      /\ pc = 6 => pc' = 7 /\ input' = Command("20")
      /\ pc = 9 => pc' = 10 /\ input' = Command("60")
      /\ pc = 13 => pc' = 14 /\ input' = Command("aa")
      /\ pc = 18 => pc' = 19 /\ input' = Command("ae")
      /\ pc = 19 => pc' = 20 /\ input' = Command("20")
      /\ pc = 22 => pc' = 23 /\ input' = Command("60")
  BY <1>1, Operands
<1>4. input' # None
  BY <1>1, <1>3, NotNone
<1>5. Waiting'
  BY <1>1, <1>3 DEF Waiting
<1>6. Expected'
  BY <1>1, <1>3, <1>4 DEF Expected
<1>7. input = None \/ (pc = 6 /\ input = Command("a7")) \/ (pc = 19 /\ input = Command("ae"))
  BY <1>1 DEF InputInv, Waiting
<1>8. CommandsAtRisk'
  <2>1. Command("a7").byte = "a7" /\ Command("ae").byte = "ae"
    BY NotNone, Zenon
  <2>2. dropped' = dropped \/ dropped' = dropped \cup {"a7"} \/ dropped' = dropped \cup {"ae"}
    BY <1>1, <1>7, <2>1
  <2>3. QED
    BY <2>2 DEF InputInv, CommandsAtRisk
<1>9. QED
  BY <1>2, <1>5, <1>6, <1>8 DEF InputInv

LEMMA DelayStep ==
  ASSUME InputInv, DoDelay
  PROVE  InputInv'
<1>1. /\ pc \in 0 .. 28 /\ pc \in {1, 3, 7, 10, 12, 14, 16, 17, 20, 23} /\ pc' = pc + 1
      /\ input = None
      /\ UNCHANGED <<input, dropped, sent, irr, raced, enabled, registered, awaits, owed, output>>
  BY Positions DEF InputInv, Ps2Typed, DoDelay, Continue, Kept
<1>2. Ps2Typed' /\ Waiting' /\ CommandsAtRisk'
  <2>1. Flags'
    BY <1>1, Zenon DEF InputInv, Ps2Typed, Flags
  <2>2. QED
    BY <1>1, <2>1 DEF InputInv, Ps2Typed, Waiting, CommandsAtRisk
<1>3. Expected'
  BY <1>1 DEF InputInv, Expected
<1>4. QED
  BY <1>2, <1>3 DEF InputInv

LEMMA DataStep ==
  ASSUME InputInv, DoData
  PROVE  InputInv'
<1>1. /\ pc \in 0 .. 28 /\ pc \in {11, 24} /\ pc' = pc + 1
      /\ input' = [byte |-> "data", bits |-> cfg']
      /\ dropped' = IF input = None THEN dropped ELSE dropped \cup {input.byte}
      /\ UNCHANGED <<sent, irr, raced, enabled, registered, awaits, owed, output>>
  BY Positions DEF InputInv, Ps2Typed, DoData, Continue, Write, Kept
<1>2. input = None
  BY <1>1 DEF InputInv, Waiting
<1>3. Ps2Typed' /\ CommandsAtRisk'
  <2>1. Flags'
    BY <1>1, <1>2, Zenon DEF InputInv, Ps2Typed, Flags
  <2>2. QED
    BY <1>1, <1>2, <2>1 DEF InputInv, Ps2Typed, CommandsAtRisk
<1>4. Waiting' /\ Expected'
  BY <1>1, <1>2 DEF InputInv, Waiting, Expected, Data
<1>5. QED
  BY <1>3, <1>4 DEF InputInv

LEMMA ReadStep ==
  ASSUME InputInv, DoRead
  PROVE  InputInv'
<1>1. /\ pc \in 0 .. 28 /\ pc \in {8, 15, 21} /\ pc' = pc + 1
      /\ output # None /\ output' = None
      /\ irr' \in {irr, FALSE}
      /\ raced' = (raced \/ output.from = "keyboard")
      /\ UNCHANGED <<input, dropped, sent, enabled, registered, awaits, owed>>
  BY Positions DEF InputInv, Ps2Typed, DoRead, Continue, Read, Kept
<1>2. input = None
  BY <1>1 DEF InputInv, Waiting
<1>3. raced' \in BOOLEAN /\ irr' \in BOOLEAN
  <2>1. raced \in BOOLEAN /\ irr \in BOOLEAN
    BY DEF InputInv, Ps2Typed, Flags
  <2>2. QED
    BY <1>1, <2>1, Zenon
<1>4. pc' \in 0 .. 28
  BY <1>1
<1>5. Ps2Typed' /\ CommandsAtRisk'
  <2>1. Flags'
    BY <1>1, <1>3, <1>4, Zenon DEF InputInv, Ps2Typed, Flags
  <2>2. QED
    BY <1>1, <1>3, <1>4, <2>1 DEF InputInv, Ps2Typed, CommandsAtRisk
<1>6. Waiting' /\ Expected'
  BY <1>1, <1>2 DEF InputInv, Waiting, Expected
<1>7. QED
  BY <1>5, <1>6 DEF InputInv

LEMMA FlushStep ==
  ASSUME InputInv, DoFlush
  PROVE  InputInv'
<1>1. /\ pc = 5
      /\ UNCHANGED <<input, dropped, sent, raced, enabled, registered, awaits, owed>>
  BY Positions DEF InputInv, Ps2Typed, DoFlush, Kept
<1>2. pc' = pc \/ pc' = pc + 1
  BY DEF DoFlush, Continue
<1>3. output' = None /\ (irr' = irr \/ irr' = FALSE)
  BY DEF DoFlush, Read
<1>4. Ps2Typed' /\ CommandsAtRisk'
  <2>1. Flags'
    BY <1>1, <1>2, <1>3, Zenon DEF InputInv, Ps2Typed, Flags
  <2>2. QED
    BY <1>1, <1>2, <1>3, <2>1 DEF InputInv, Ps2Typed, CommandsAtRisk
<1>5. Waiting' /\ Expected'
  BY <1>1, <1>2 DEF InputInv, Waiting, Expected
<1>6. QED
  BY <1>4, <1>5 DEF InputInv

LEMMA SwitchStep ==
  ASSUME InputInv, DoSwitch
  PROVE  InputInv'
<1>1. /\ pc \in {0, 25, 26, 27} /\ pc' = pc + 1
      /\ UNCHANGED <<cfg, input, dropped, sent, irr, raced, awaits, owed, output>>
  BY Positions DEF InputInv, Ps2Typed, DoSwitch, Continue, controller
<1>2. Ps2Typed' /\ CommandsAtRisk'
  <2>1. Flags'
    BY <1>1, Zenon DEF InputInv, Ps2Typed, Flags, DoSwitch
  <2>2. QED
    BY <1>1, <2>1 DEF InputInv, Ps2Typed, CommandsAtRisk
<1>3. Waiting'
  BY <1>1 DEF InputInv, Waiting, Data
<1>4. Expected'
  BY <1>1 DEF InputInv, Waiting, Expected
<1>5. QED
  BY <1>2, <1>3, <1>4 DEF InputInv

\* The request for IRQ1 as it is latched.
LEMMA LatchedType == \A out, bits : Latched(out, bits) \in BOOLEAN
BY DEF Latched, Line

LEMMA TakeStep ==
  ASSUME InputInv, Take
  PROVE  InputInv'
<1>1. /\ input # None /\ input' = None /\ owed = None
      /\ UNCHANGED <<pc, cfg, dropped, sent, raced, enabled, registered, output>>
  BY DEF Take, cpu
<1>2. /\ input.byte = "60" => awaits' = TRUE
      /\ awaits' \in BOOLEAN /\ irr' \in BOOLEAN
  <2>1. irr \in BOOLEAN
    BY DEF InputInv, Ps2Typed, Flags
  <2>2. /\ input.byte = "60" => awaits' = TRUE /\ irr' = irr
        /\ input.byte # "60" => awaits' = FALSE
        /\ irr' = irr \/ \E bits : irr' = Latched(output, bits)
    BY DEF Take, Execute, Owe
  <2>3. irr' \in BOOLEAN
    BY <2>1, <2>2, LatchedType, Zenon
  <2>4. awaits' = TRUE \/ awaits' = FALSE
    BY <2>2, Zenon
  <2>5. QED
    BY <2>2, <2>3, <2>4, Zenon
<1>3. owed' = None \/ owed'.from = "controller"
  BY <1>1, NotNone DEF Take, Execute, Owe
<1>4. Ps2Typed' /\ CommandsAtRisk' /\ Waiting'
  <2>1. Flags'
    BY <1>1, <1>2, <1>3, Zenon DEF InputInv, Ps2Typed, Flags
  <2>2. QED
    BY <1>1, <1>2, <1>3, <2>1 DEF InputInv, Ps2Typed, CommandsAtRisk, Waiting
<1>5. pc \in {10, 11, 23, 24} => input = Command("60")
  BY <1>1 DEF InputInv, Waiting
<1>6. Expected'
  BY <1>1, <1>2, <1>5, NotNone DEF Expected
<1>7. QED
  BY <1>4, <1>6 DEF InputInv

LEMMA ReplyStep ==
  ASSUME InputInv, Reply
  PROVE  InputInv'
<1>1. /\ owed # None /\ owed' = None /\ output' = owed
      /\ irr' = Latched(output', config)
      /\ UNCHANGED <<pc, cfg, input, awaits, dropped, sent, raced, enabled, registered>>
  BY DEF Reply, cpu
<1>2. irr' \in BOOLEAN
  BY <1>1, LatchedType DEF InputInv, Ps2Typed, Flags
<1>3. Ps2Typed' /\ CommandsAtRisk'
  <2>1. Flags'
    BY <1>1, <1>2, Zenon DEF InputInv, Ps2Typed, Flags
  <2>2. QED
    BY <1>1, <1>2, <2>1 DEF InputInv, Ps2Typed, CommandsAtRisk
<1>4. Waiting' /\ Expected'
  BY <1>1 DEF InputInv, Waiting, Expected, Data
<1>5. QED
  BY <1>3, <1>4 DEF InputInv

LEMMA SendStep ==
  ASSUME InputInv, NEW code \in ScanCodes, Send(code)
  PROVE  InputInv'
<1>1. /\ sent' = sent + 1
      /\ output' = [from |-> "keyboard", bits |-> code, n |-> sent']
      /\ irr' = Latched(output', config)
      /\ UNCHANGED <<pc, cfg, input, awaits, owed, dropped, raced, enabled, registered>>
  BY DEF Send, cpu
<1>2. irr' \in BOOLEAN
  BY <1>1, LatchedType DEF InputInv, Ps2Typed, Flags
<1>3. output'.from = "keyboard" /\ output'.n = sent'
  BY <1>1
<1>4. Ps2Typed' /\ CommandsAtRisk'
  <2>1. Flags'
    BY <1>1, <1>2, <1>3, Zenon DEF InputInv, Ps2Typed, Flags
  <2>2. QED
    BY <1>1, <1>2, <1>3, <2>1 DEF InputInv, Ps2Typed, CommandsAtRisk
<1>5. Waiting' /\ Expected'
  BY <1>1 DEF InputInv, Waiting, Expected, Data
<1>6. QED
  BY <1>4, <1>5 DEF InputInv

LEMMA InterruptStep ==
  ASSUME InputInv, Interrupt
  PROVE  InputInv'
<1>1. /\ irr' = FALSE
      /\ output' = None \/ output' = output
      /\ UNCHANGED <<pc, cfg, input, awaits, owed, sent, dropped, raced, enabled, registered>>
  BY DEF Interrupt, ps2_handler
<1>2. Ps2Typed' /\ CommandsAtRisk'
  <2>1. Flags'
    BY <1>1, Zenon DEF InputInv, Ps2Typed, Flags
  <2>2. QED
    BY <1>1, <2>1 DEF InputInv, Ps2Typed, CommandsAtRisk
<1>3. Waiting' /\ Expected'
  BY <1>1 DEF InputInv, Waiting, Expected, Data
<1>4. QED
  BY <1>2, <1>3 DEF InputInv

LEMMA InputKept == InputInv /\ [Ps2Next]_ps2_vars => InputInv'
<1>1. ASSUME InputInv, UNCHANGED ps2_vars PROVE InputInv'
  BY <1>1 DEF ps2_vars, cpu, controller, InputInv, Ps2Typed, Waiting, Expected, CommandsAtRisk, Data, Flags
<1>2. QED
  BY <1>1, CommandStep, DelayStep, DataStep, ReadStep, FlushStep, SwitchStep,
     TakeStep, ReplyStep, SendStep, InterruptStep DEF Ps2Next, Driver, Controller

\* Only the commands that disable the second port and enable the keyboard's
\* can be written over before the controller has taken them.
THEOREM OnlyTwoAtRisk == Ps2Spec => []CommandsAtRisk
<1>1. Ps2Spec => []InputInv
  BY InitInput, InputKept, PTL DEF Ps2Spec
<1>2. InputInv => CommandsAtRisk
  BY DEF InputInv
<1>3. QED
  BY <1>1, <1>2, PTL

-----------------------------------------------------------------------------
(* The bytes are bytes.                                                    *)

LEMMA NoneType == None \in Byte
<1>1. 0 \in Nat /\ {} \in SUBSET (0 .. 7)
  OBVIOUS
<1>2. QED
  BY <1>1 DEF None, Byte

LEMMA InitBytes == Ps2Init => Bytes
<1> SUFFICES ASSUME Ps2Init PROVE Bytes
  OBVIOUS
<1>1. cfg = {} /\ config \in Found /\ owed = None /\ output = None /\ latch = None /\ handed = <<>>
  BY DEF Ps2Init
<1>2. config \in SUBSET (0 .. 7)
  BY <1>1, Ps2Assumption
<1>3. QED
  BY <1>1, <1>2, NoneType DEF Bytes

LEMMA DataReadType ==
  ASSUME Bytes
  PROVE  DataRead \in Byte
BY DEF Bytes, DataRead

LEMMA DriverBytes ==
  ASSUME InputInv, Bytes, Driver
  PROVE  Bytes'
<1>1. UNCHANGED <<config, owed, handed>>
  BY DEF Driver, DoCommand, DoDelay, DoData, DoRead, DoFlush, DoSwitch, Kept, controller
<1>2. output' = output \/ output' = None
  BY DEF Driver, DoCommand, DoDelay, DoData, DoRead, DoFlush, DoSwitch, Read, controller
<1>3. latch' = latch \/ latch' = DataRead
  BY DEF Driver, DoCommand, DoDelay, DoData, DoRead, DoFlush, DoSwitch, Read, controller
<1>4. cfg' \in SUBSET (0 .. 7)
  <2>1. CASE DoData
    <3>1. pc \in {11, 24} /\ cfg' = (cfg \ ps2_init[pc + 1].clear) \cup ps2_init[pc + 1].set
      BY <2>1, Positions DEF InputInv, Ps2Typed, DoData
    <3>2. /\ pc = 11 => ps2_init[pc + 1].set = {}
          /\ pc = 24 => ps2_init[pc + 1].set = {0, 1}
      BY Operands DEF InputInv, Ps2Typed, WriteConfig, KINT, AUXINT
    <3>3. ps2_init[pc + 1].set \in SUBSET (0 .. 7)
      BY <3>1, <3>2
    <3> HIDE DEF At
    <3>4. QED
      BY <3>1, <3>3 DEF Bytes
  <2>2. CASE DoRead
    <3>1. cfg' = cfg \/ cfg' = output.bits
      BY <2>2 DEF DoRead
    <3>2. QED
      BY <3>1 DEF Bytes, Byte
  <2>3. CASE ~DoData /\ ~DoRead
    <3>1. cfg' = cfg
      BY <2>3 DEF Driver, DoCommand, DoDelay, DoFlush, DoSwitch
    <3>2. QED
      BY <3>1 DEF Bytes
  <2>4. QED
    BY <2>1, <2>2, <2>3
<1>5. QED
  BY <1>1, <1>2, <1>3, <1>4, NoneType, DataReadType DEF Bytes

LEMMA TakeBytes ==
  ASSUME InputInv, Bytes, Take
  PROVE  Bytes'
<1>1. input # None /\ UNCHANGED <<cfg, handed, output, latch>>
  BY DEF Take, cpu
<1>2. input.byte = "data" => input.bits \in SUBSET (0 .. 7)
  <2>1. \A c : input = Command(c) => input.byte = c
    BY NotNone, Zenon
  <2>2. input.byte = "data" => input = Data
    BY <1>1, <2>1 DEF InputInv, Waiting
  <2>3. input = Data => input.bits = cfg
    BY DEF Data
  <2>4. QED
    BY <2>2, <2>3 DEF Bytes
<1>3. config \in SUBSET (0 .. 7) /\ Tests \subseteq SUBSET (0 .. 7) /\ owed \in Byte
  BY Ps2Assumption DEF Bytes
<1>4. \A bits \in SUBSET (0 .. 7) : Answer(bits) \in Byte
  BY DEF Answer, Byte
<1>5. KOFF \in 0 .. 7 /\ AUXOFF \in 0 .. 7
  BY DEF KOFF, AUXOFF
<1>6. config' \in SUBSET (0 .. 7) /\ owed' \in Byte
  <2>1. \/ config' \in {config, config \cup {KOFF}, config \ {KOFF}, config \cup {AUXOFF}}
        \/ input.byte = "data" /\ config' = input.bits
    BY DEF Take, Execute, Owe
  <2>2. \/ owed' = owed
        \/ owed' = Answer(config)
        \/ \E bits \in Tests : owed' = Answer(bits)
    BY DEF Take, Execute, Owe
  <2>3. QED
    BY <1>2, <1>3, <1>4, <1>5, <2>1, <2>2
<1>7. QED
  BY <1>1, <1>6 DEF Bytes

LEMMA OthersBytes ==
  ASSUME InputInv, Bytes
  PROVE  /\ Reply => Bytes'
         /\ \A code \in ScanCodes : Send(code) => Bytes'
         /\ Interrupt => Bytes'
         /\ UNCHANGED ps2_vars => Bytes'
<1>1. ASSUME Reply PROVE Bytes'
  <2>1. owed' = None /\ output' = owed /\ UNCHANGED <<cfg, config, latch, handed>>
    BY <1>1 DEF Reply, cpu
  <2>2. QED
    BY <2>1, NoneType DEF Bytes
<1>2. ASSUME NEW code \in ScanCodes, Send(code) PROVE Bytes'
  <2>1. /\ output' = [from |-> "keyboard", bits |-> code, n |-> sent']
        /\ sent' = sent + 1 /\ UNCHANGED <<cfg, config, owed, latch, handed>>
    BY <1>2 DEF Send, cpu
  <2>2. code \in SUBSET (0 .. 7) /\ sent' \in Nat
    BY <2>1, Ps2Assumption DEF InputInv, Ps2Typed
  <2>3. output' \in Byte
    BY <2>1, <2>2 DEF Byte
  <2>4. QED
    BY <2>1, <2>3 DEF Bytes
<1>3. ASSUME Interrupt PROVE Bytes'
  <2>1. /\ UNCHANGED <<cfg, config, owed>>
        /\ output' \in {output, None} /\ latch' \in {latch, DataRead}
        /\ handed' \in {handed, Append(handed, DataRead)}
    BY <1>3 DEF Interrupt, ps2_handler
  <2>2. Append(handed, DataRead) \in Seq(Byte)
    BY DataReadType, AppendProperties DEF Bytes
  <2>3. QED
    BY <2>1, <2>2, NoneType, DataReadType DEF Bytes
<1>4. ASSUME UNCHANGED ps2_vars PROVE Bytes'
  BY <1>4 DEF ps2_vars, cpu, controller, Bytes
<1>5. QED
  BY <1>1, <1>2, <1>3, <1>4

LEMMA BytesKept == InputInv /\ Bytes /\ [Ps2Next]_ps2_vars => Bytes'
BY DriverBytes, TakeBytes, OthersBytes DEF Ps2Next, Controller

-----------------------------------------------------------------------------
(* What the decoder is handed.                                             *)

LEMMA InitHand == Ps2Init => HandInv
<1> SUFFICES ASSUME Ps2Init PROVE HandInv
  OBVIOUS
<1>1. /\ pc = 0 /\ enabled = FALSE /\ handed = <<>> /\ latch = None
  BY DEF Ps2Init
<1>2. SettledInv /\ StreamInv
  BY <1>1 DEF SettledInv, Ps2Settled, StreamInv
<1>3. LatchInv
  BY <1>1, NotNone DEF LatchInv
<1>4. CleanAfterFirst
  BY <1>1 DEF CleanAfterFirst
<1>5. QED
  BY <1>2, <1>3, <1>4 DEF HandInv

LEMMA DriverHand ==
  ASSUME InputInv, HandInv, Driver
  PROVE  HandInv'
<1>1. UNCHANGED <<owed, handed, sent>>
  BY DEF Driver, DoCommand, DoDelay, DoData, DoRead, DoFlush, DoSwitch, Kept, controller
<1>2. pc \in 0 .. 28 /\ pc # 28 /\ (pc' = pc + 1 \/ pc' = pc)
  BY Positions DEF InputInv, Ps2Typed, Driver, DoCommand, DoDelay, DoData, DoRead, DoFlush,
                   DoSwitch, Continue, At
<1>3. handed = <<>>
  BY <1>2 DEF HandInv, SettledInv
<1>4. Ps2Settled' => owed = None
  <2>1. CASE Ps2Settled
    BY <2>1 DEF HandInv, SettledInv
  <2>2. CASE ~Ps2Settled
    <3>1. Ps2Settled' => (pc = 22 /\ input' = None) \/ (pc = 23 /\ input # None)
      BY <1>2, <2>2 DEF Ps2Settled
    <3>2. pc = 22 => input' # None
      BY Positions, Operands, NotNone DEF InputInv, Ps2Typed, Driver, DoCommand, DoDelay, DoData,
                   DoRead, DoFlush, DoSwitch, Write
    <3>3. pc = 23 => input = None
      BY Positions DEF InputInv, Ps2Typed, Driver, DoCommand, DoDelay, DoData,
                   DoRead, DoFlush, DoSwitch
    <3>4. QED
      BY <3>1, <3>2, <3>3
  <2>3. QED
    BY <2>1, <2>2
<1>5. enabled' => pc' = 28
  <2>1. CASE pc = 27
    <3>1. ~At("flush")
      BY <2>1, Positions DEF InputInv, Ps2Typed
    <3>2. pc' = pc + 1
      BY <3>1 DEF Driver, DoCommand, DoDelay, DoData, DoRead, DoFlush, DoSwitch, Continue
    <3>3. QED
      BY <2>1, <3>2
  <2>2. CASE pc # 27
    <3>1. enabled' = enabled
      BY <2>2, Positions DEF InputInv, Ps2Typed, Driver, DoCommand, DoDelay, DoData, DoRead, DoFlush,
                   DoSwitch, Kept
    <3>2. QED
      BY <1>2, <3>1 DEF HandInv, SettledInv
  <2>3. QED
    BY <2>1, <2>2
<1>6. pc' \in 26 .. 28 => registered'
  <2>1. CASE pc = 25
    BY <2>1, Positions DEF InputInv, Ps2Typed, Driver, DoCommand, DoDelay, DoData, DoRead, DoFlush,
                   DoSwitch
  <2>2. CASE pc # 25
    <3>1. registered' = registered
      BY <2>2, Positions DEF InputInv, Ps2Typed, Driver, DoCommand, DoDelay, DoData, DoRead, DoFlush,
                   DoSwitch, Kept
    <3>2. QED
      BY <1>2, <2>2, <3>1 DEF HandInv, SettledInv
  <2>3. QED
    BY <2>1, <2>2
<1>7. SettledInv'
  BY <1>1, <1>3, <1>4, <1>5, <1>6 DEF SettledInv
<1>8. LatchInv'
  <2>1. \/ UNCHANGED <<output, latch>>
        \/ output # None /\ latch' = output
    BY DEF Driver, DoCommand, DoDelay, DoData, DoRead, DoFlush, DoSwitch, Read, DataRead, controller
  <2>2. output # None /\ output.from = "keyboard" => output.n = sent
    BY DEF InputInv, Ps2Typed
  <2>3. QED
    BY <1>1, <2>1, <2>2 DEF HandInv, LatchInv
<1>9. StreamInv' /\ CleanAfterFirst'
  BY <1>1, <1>3 DEF StreamInv, CleanAfterFirst
<1>10. QED
  BY <1>7, <1>8, <1>9 DEF HandInv

LEMMA TakeHand ==
  ASSUME InputInv, HandInv, Take
  PROVE  HandInv'
<1>1. /\ input # None /\ input' = None /\ owed = None
      /\ UNCHANGED <<pc, registered, enabled, handed, output, latch, sent>>
  BY DEF Take, cpu
<1>2. Ps2Settled' => owed' = None
  <2>1. Ps2Settled' => input = Command("60") \/ input = Data
    BY <1>1 DEF Ps2Settled, InputInv, Waiting
  <2>2. Command("60").byte = "60" /\ Data.byte = "data"
    BY NotNone DEF Data
  <2>3. input.byte = "60" \/ input.byte = "data" => owed' = owed
    BY DEF Take, Execute, Owe
  <2>4. QED
    BY <1>1, <2>1, <2>2, <2>3
<1>3. SettledInv'
  BY <1>1, <1>2 DEF HandInv, SettledInv
<1>4. LatchInv' /\ CleanAfterFirst'
  BY <1>1 DEF HandInv, LatchInv, CleanAfterFirst
<1>5. irr' => irr \/ output # None
  BY <1>1 DEF Take, Execute, Owe, Latched, Line
<1>6. StreamInv'
  BY <1>1, <1>5 DEF HandInv, StreamInv
<1>7. QED
  BY <1>3, <1>4, <1>6 DEF HandInv

LEMMA ReplyHand ==
  ASSUME InputInv, HandInv, Reply
  PROVE  HandInv'
<1>1. /\ owed # None /\ owed' = None /\ output' = owed
      /\ UNCHANGED <<pc, registered, enabled, handed, input, latch, sent>>
  BY DEF Reply, cpu
<1>2. pc # 28
  BY <1>1 DEF HandInv, SettledInv, Ps2Settled
<1>3. handed = <<>>
  BY <1>2 DEF InputInv, Ps2Typed, HandInv, SettledInv
<1>4. SettledInv'
  BY <1>1 DEF HandInv, SettledInv
<1>5. LatchInv' /\ StreamInv' /\ CleanAfterFirst'
  BY <1>1, <1>3 DEF LatchInv, StreamInv, CleanAfterFirst
<1>6. QED
  BY <1>4, <1>5 DEF HandInv

LEMMA SendHand ==
  ASSUME InputInv, HandInv, NEW code \in ScanCodes, Send(code)
  PROVE  HandInv'
<1>1. /\ sent' = sent + 1 /\ output = None
      /\ output' = [from |-> "keyboard", bits |-> code, n |-> sent']
      /\ UNCHANGED <<pc, registered, enabled, handed, input, owed, latch>>
  BY DEF Send, cpu
<1>2. output' # None /\ output'.from = "keyboard"
  BY <1>1, NotNone
<1>3. SettledInv'
  BY <1>1 DEF HandInv, SettledInv, Ps2Settled
<1>4. LatchInv' /\ CleanAfterFirst'
  BY <1>1, <1>2 DEF HandInv, LatchInv, CleanAfterFirst
<1>5. sent \in Nat /\ sent' - 1 = sent
  BY <1>1 DEF InputInv, Ps2Typed
<1>6. StreamInv'
  BY <1>1, <1>2, <1>5 DEF HandInv, StreamInv
<1>7. QED
  BY <1>3, <1>4, <1>6 DEF HandInv

LEMMA InterruptHand ==
  ASSUME InputInv, Bytes, HandInv, Interrupt
  PROVE  HandInv'
<1>1. /\ irr /\ irr' = FALSE /\ enabled
      /\ UNCHANGED <<pc, registered, enabled, input, owed, sent>>
  BY DEF Interrupt
<1>2. pc = 28 /\ registered
  BY <1>1 DEF HandInv, SettledInv
<1>3. handed' = Append(handed, DataRead) /\ latch' = DataRead /\ output' = None
  BY <1>2 DEF Interrupt, ps2_handler
<1>4. SettledInv'
  BY <1>1, <1>2 DEF HandInv, SettledInv, Ps2Settled
<1>5. DataRead.from = "keyboard" => DataRead.n = sent
  BY DEF DataRead, InputInv, Ps2Typed, HandInv, LatchInv
<1>6. LatchInv'
  BY <1>1, <1>3, <1>5 DEF LatchInv
<1> DEFINE m == Len(handed)
<1>7. /\ handed' \in Seq(Byte) /\ Len(handed') = m + 1 /\ m \in Nat
      /\ handed'[m + 1] = DataRead
      /\ \A i \in 1 .. m : handed'[i] = handed[i]
      /\ DOMAIN handed = 1 .. m /\ DOMAIN handed' = 1 .. m + 1
  BY <1>3, DataReadType, AppendProperties, LenProperties DEF Bytes
<1>8. output'.from # "controller"
  BY <1>3, NotNone
<1>9. StreamInv'
  BY <1>1, <1>3, <1>5, <1>7, <1>8 DEF StreamInv
<1>10. m # 0 => /\ DataRead.from = "keyboard"
                /\ handed[m].from = "keyboard" => DataRead.n = handed[m].n + 1
  <2> SUFFICES ASSUME m # 0
               PROVE  /\ DataRead.from = "keyboard"
                      /\ handed[m].from = "keyboard" => DataRead.n = handed[m].n + 1
    BY Zenon
  <2>1. handed # <<>>
    BY <1>7
  <2>2. output # None /\ output.from # "controller"
    BY <1>1, <2>1 DEF HandInv, StreamInv
  <2>3. output.from = "keyboard" /\ DataRead = output
    BY <2>2 DEF InputInv, Ps2Typed, DataRead
  <2>4. handed[m].from = "keyboard" => handed[m].n = sent - 1
    BY <2>1, <2>2 DEF HandInv, StreamInv
  <2>5. sent \in Nat
    BY DEF InputInv, Ps2Typed
  <2>6. QED
    BY <1>5, <2>3, <2>4, <2>5
<1>11. CleanAfterFirst'
  <2> SUFFICES ASSUME NEW i \in 2 .. m + 1
               PROVE  /\ handed'[i].from = "keyboard"
                      /\ handed'[i - 1].from = "keyboard" => handed'[i].n = handed'[i - 1].n + 1
    BY <1>7 DEF CleanAfterFirst
  <2>1. CASE i = m + 1
    <3>1. m \in 1 .. m /\ i - 1 = m
      BY <1>7, <2>1
    <3>2. QED
      BY <1>7, <1>10, <2>1, <3>1
  <2>2. CASE i # m + 1
    <3>1. i \in 1 .. m /\ i - 1 \in 1 .. m /\ i \in DOMAIN handed \ {1}
      BY <1>7, <2>2
    <3>2. QED
      BY <1>7, <3>1 DEF HandInv, CleanAfterFirst
  <2>3. QED
    BY <2>1, <2>2
<1>12. QED
  BY <1>4, <1>6, <1>9, <1>11 DEF HandInv

LEMMA HandKept == InputInv /\ Bytes /\ HandInv /\ [Ps2Next]_ps2_vars => HandInv'
<1>1. ASSUME HandInv, UNCHANGED ps2_vars PROVE HandInv'
  BY <1>1 DEF ps2_vars, cpu, controller, HandInv, SettledInv, Ps2Settled, LatchInv, StreamInv, CleanAfterFirst
<1>2. QED
  BY <1>1, DriverHand, TakeHand, ReplyHand, SendHand, InterruptHand DEF Ps2Next, Controller

\* Whatever the keyboard sends while ps2_init runs, at most the first byte the
\* decoder is handed is not a scan code; from then on it gets the keyboard's
\* bytes, each once, in order, without a gap.
THEOREM ScanCodesInOrder == Ps2Spec => []CleanAfterFirst
<1>1. Ps2Init => InputInv /\ Bytes /\ HandInv
  BY InitInput, InitBytes, InitHand
<1>2. InputInv /\ Bytes /\ HandInv /\ [Ps2Next]_ps2_vars => (InputInv /\ Bytes /\ HandInv)'
  BY InputKept, BytesKept, HandKept
<1>3. HandInv => CleanAfterFirst
  BY DEF HandInv
<1>4. QED
  BY <1>1, <1>2, <1>3, PTL DEF Ps2Spec

-----------------------------------------------------------------------------
(* The configuration ps2_init leaves.                                      *)

LEMMA InitConfig == Ps2Init => ConfigInv
<1> SUFFICES ASSUME Ps2Init PROVE ConfigInv
  OBVIOUS
<1>1. pc = 0 /\ config = found /\ owed = None /\ output = None
  BY DEF Ps2Init
<1>2. ConfigAt /\ CfgAt
  BY <1>1 DEF ConfigAt, CfgAt
<1>3. AnswersAt
  BY <1>1, NotNone DEF AnswersAt, Answering
<1>4. QED
  BY <1>2, <1>3 DEF ConfigInv

\* found never changes.
LEMMA FoundKept == [Ps2Next]_ps2_vars => UNCHANGED <<C1, C2, C3, C4, C5, found>>
<1>1. [Ps2Next]_ps2_vars => found' = found
  BY DEF Ps2Next, Driver, DoCommand, DoDelay, DoData, DoRead, DoFlush, DoSwitch, Kept, Interrupt,
         Controller, Take, Reply, Send, ps2_vars
<1>2. QED
  BY <1>1 DEF C1, C2, C3, C4, C5

\* Commands lost and answers mixed up stay so.
LEMMA StaysClean ==
  ASSUME [Ps2Next]_ps2_vars, Clean'
  PROVE  Clean
<1>1. dropped \subseteq dropped'
  BY DEF Ps2Next, Driver, DoCommand, DoDelay, DoData, DoRead, DoFlush, DoSwitch, Write, Interrupt,
         Controller, Take, Reply, Send, ps2_vars
<1>2. raced => raced'
  <2>1. raced' = raced \/ (raced' = (raced \/ output.from = "keyboard"))
    BY DEF Ps2Next, Driver, DoCommand, DoDelay, DoData, DoRead, DoFlush, DoSwitch, Interrupt,
           Controller, Take, Reply, Send, ps2_vars
  <2>2. QED
    BY <2>1, Zenon
<1>3. QED
  BY <1>1, <1>2 DEF Clean

LEMMA CommandConfig ==
  ASSUME InputInv, ConfigInv, DoCommand, Clean, Clean', UNCHANGED <<C1, C2, C3, C4, C5, found>>
  PROVE  ConfigInv'
<1>1. /\ pc \in 0 .. 28 /\ pc \in {2, 4, 6, 9, 13, 18, 19, 22} /\ pc' = pc + 1
      /\ input' = ps2_init[pc + 1]
      /\ dropped' = IF input = None THEN dropped ELSE dropped \cup {input.byte}
      /\ UNCHANGED <<cfg, config, owed, output>>
  BY Positions DEF InputInv, Ps2Typed, DoCommand, Continue, Write, Kept
<1>2. input' # None
  BY <1>1, Operands, NotNone
<1>3. input = None
  BY <1>1 DEF Clean
<1>4. ConfigAt /\ CfgAt /\ AnswersAt
  BY DEF ConfigInv
<1>5. ConfigAt'
  BY <1>1, <1>2, <1>3, <1>4 DEF ConfigAt
<1>6. CfgAt'
  BY <1>1, <1>4 DEF CfgAt
<1>7. AnswersAt'
  <2>1. ~Answering
    BY <1>1, <1>4 DEF AnswersAt
  <2>2. ~Answering'
    BY <1>1, <2>1 DEF Answering
  <2>3. QED
    BY <2>2 DEF AnswersAt, Answering
<1>8. QED
  BY <1>5, <1>6, <1>7 DEF ConfigInv

LEMMA DelayConfig ==
  ASSUME InputInv, ConfigInv, DoDelay, Clean, UNCHANGED <<C1, C2, C3, C4, C5, found>>
  PROVE  ConfigInv'
<1>1. /\ pc \in {1, 3, 7, 10, 12, 14, 16, 17, 20, 23} /\ pc' = pc + 1
      /\ input = None /\ UNCHANGED <<cfg, config, owed, output>>
  BY Positions DEF InputInv, Ps2Typed, DoDelay, Continue, Kept
<1>2. ConfigAt /\ CfgAt /\ AnswersAt
  BY DEF ConfigInv
<1>3. ConfigAt' /\ CfgAt'
  BY <1>1, <1>2 DEF ConfigAt, CfgAt
<1>4. AnswersAt'
  BY <1>1, <1>2 DEF AnswersAt, Answering
<1>5. QED
  BY <1>3, <1>4 DEF ConfigInv

LEMMA DataConfig ==
  ASSUME InputInv, ConfigInv, DoData, Clean, UNCHANGED <<C1, C2, C3, C4, C5, found>>
  PROVE  ConfigInv'
<1>1. /\ pc \in {11, 24} /\ pc' = pc + 1
      /\ cfg' = (cfg \ ps2_init[pc + 1].clear) \cup ps2_init[pc + 1].set
      /\ input' = [byte |-> "data", bits |-> cfg']
      /\ UNCHANGED <<config, owed, output>>
  BY Positions DEF InputInv, Ps2Typed, DoData, Continue, Write, Kept
<1>2. input' # None
  BY <1>1, NotNone
<1>3. ConfigAt /\ CfgAt /\ AnswersAt
  BY DEF ConfigInv
<1>4. /\ pc = 11 => cfg' = (cfg \ {KINT, AUXINT, XLATE}) \cup {}
      /\ pc = 24 => cfg' = (cfg \ {}) \cup {KINT, AUXINT}
  BY <1>1, Operands DEF InputInv, Ps2Typed, WriteConfig
<1>5. (pc = 11 => cfg' = C3) /\ (pc = 24 => cfg' = C5)
  BY <1>3, <1>4 DEF CfgAt, C3, C5
<1>6. ConfigAt' /\ CfgAt'
  BY <1>1, <1>2, <1>3, <1>5 DEF ConfigAt, CfgAt
<1>7. AnswersAt'
  BY <1>1, <1>3 DEF AnswersAt, Answering
<1>8. QED
  BY <1>6, <1>7 DEF ConfigInv

LEMMA ReadConfig ==
  ASSUME InputInv, ConfigInv, DoRead, Clean, Clean', UNCHANGED <<C1, C2, C3, C4, C5, found>>
  PROVE  ConfigInv'
<1>1. /\ pc \in {8, 15, 21} /\ pc' = pc + 1
      /\ output # None /\ output' = None
      /\ UNCHANGED <<config, owed>>
  BY Positions DEF InputInv, Ps2Typed, DoRead, Continue, Read, Kept
<1>2. pc \in {8, 21} => cfg' = output.bits
  BY Positions DEF InputInv, Ps2Typed, DoRead
<1>3. output.from # "keyboard"
  BY DEF DoRead, Clean
<1>4. output.from = "controller"
  BY <1>1, <1>3 DEF InputInv, Ps2Typed
<1>5. ConfigAt /\ CfgAt /\ AnswersAt
  BY DEF ConfigInv
<1>6. owed = None /\ (pc = 8 => cfg' = C2) /\ (pc = 21 => cfg' = C4)
  BY <1>2, <1>4, <1>5 DEF AnswersAt
<1>7. ConfigAt' /\ CfgAt'
  BY <1>1, <1>5, <1>6 DEF ConfigAt, CfgAt
<1>8. AnswersAt'
  BY <1>1, <1>6, NotNone DEF AnswersAt, Answering
<1>9. QED
  BY <1>7, <1>8 DEF ConfigInv

LEMMA FlushConfig ==
  ASSUME InputInv, ConfigInv, DoFlush, Clean, UNCHANGED <<C1, C2, C3, C4, C5, found>>
  PROVE  ConfigInv'
<1>1. /\ pc = 5 /\ (pc' = pc \/ pc' = pc + 1)
      /\ output' = None /\ UNCHANGED <<cfg, config, input, owed>>
  BY Positions DEF InputInv, Ps2Typed, DoFlush, Continue, Read, Kept
<1>2. ConfigAt /\ CfgAt /\ AnswersAt
  BY DEF ConfigInv
<1>3. ConfigAt' /\ CfgAt'
  BY <1>1, <1>2 DEF ConfigAt, CfgAt
<1>4. owed = None
  BY <1>1, <1>2 DEF AnswersAt, Answering
<1>5. AnswersAt'
  BY <1>1, <1>4, NotNone DEF AnswersAt, Answering
<1>6. QED
  BY <1>3, <1>5 DEF ConfigInv

LEMMA SwitchConfig ==
  ASSUME InputInv, ConfigInv, DoSwitch, Clean, UNCHANGED <<C1, C2, C3, C4, C5, found>>
  PROVE  ConfigInv'
<1>1. /\ pc \in {0, 25, 26, 27} /\ pc' = pc + 1
      /\ UNCHANGED <<cfg, config, input, owed, output>>
  BY Positions DEF InputInv, Ps2Typed, DoSwitch, Continue, controller
<1>2. ConfigAt /\ CfgAt /\ AnswersAt
  BY DEF ConfigInv
<1>3. ConfigAt' /\ CfgAt'
  BY <1>1, <1>2 DEF ConfigAt, CfgAt
<1>4. AnswersAt'
  BY <1>1, <1>2 DEF AnswersAt, Answering
<1>5. QED
  BY <1>3, <1>4 DEF ConfigInv

LEMMA TakeConfig ==
  ASSUME InputInv, ConfigInv, Take, Clean, UNCHANGED <<C1, C2, C3, C4, C5, found>>
  PROVE  ConfigInv'
<1>1. /\ input # None /\ input' = None /\ owed = None
      /\ UNCHANGED <<pc, cfg, output>>
  BY DEF Take, cpu
<1>2. ConfigAt /\ CfgAt /\ AnswersAt
  BY DEF ConfigInv
<1>3. \/ pc = 3 /\ input.byte = "ad"
      \/ pc \in {5, 6} /\ input.byte = "a7"
      \/ pc \in {7, 20} /\ input.byte = "20"
      \/ pc \in {10, 23} /\ input.byte = "60"
      \/ pc = 14 /\ input.byte = "aa"
      \/ pc = 19 /\ input.byte = "ae"
      \/ pc \in {12} \cup (25 .. 28) /\ input.byte = "data" /\ input.bits = cfg
  <2>1. Data.byte = "data" /\ Data.bits = cfg
    BY DEF Data
  <2>2. QED
    BY <1>1, <2>1, NotNone DEF InputInv, Waiting
<1>4. CfgAt'
  BY <1>1, <1>2 DEF CfgAt
<1>5. /\ input.byte = "ad" => config' = config \cup {KOFF}
      /\ input.byte = "ae" => config' = config \ {KOFF}
      /\ input.byte = "a7" => config' = config \cup {AUXOFF}
      /\ input.byte = "data" => config' = IF awaits THEN input.bits ELSE config
      /\ input.byte \in {"20", "aa", "60"} => config' = config
      /\ input.byte = "20" => owed' = Answer(config)
      /\ input.byte \notin {"20", "aa"} => owed' = owed
  BY DEF Take, Execute, Owe
<1>6. ConfigAt'
  <2>1. CASE pc = 3
    BY <1>1, <1>2, <1>3, <1>5, <2>1 DEF ConfigAt, C1
  <2>2. CASE pc \in {5, 6}
    BY <1>1, <1>2, <1>3, <1>5, <2>2 DEF ConfigAt, C2
  <2>3. CASE pc \in {7, 20, 10, 23, 14}
    BY <1>1, <1>2, <1>3, <1>5, <2>3 DEF ConfigAt
  <2>4. CASE pc = 19
    BY <1>1, <1>2, <1>3, <1>5, <2>4 DEF ConfigAt, C4
  <2>5. CASE pc \in {12} \cup (25 .. 28)
    <3>1. awaits
      BY <1>1, <2>5 DEF InputInv, Expected
    <3>2. config' = cfg
      BY <1>3, <1>5, <2>5, <3>1
    <3>3. QED
      BY <1>1, <1>2, <2>5, <3>2 DEF ConfigAt, CfgAt
  <2>6. QED
    BY <1>3, <2>1, <2>2, <2>3, <2>4, <2>5
<1>7. AnswersAt'
  <2>1. CASE pc \in {7, 14, 20}
    <3>1. ~Answering
      BY <1>1, <1>2, <2>1 DEF AnswersAt
    <3>2. pc = 7 => config = C2
      BY <1>2 DEF ConfigAt
    <3>3. pc = 20 => config = C4
      BY <1>2 DEF ConfigAt
    <3>4. pc \in {7, 20} => owed' = Answer(config) /\ owed'.bits = config
      BY <1>3, <1>5, <2>1, NotNone
    <3>5. output'.from # "controller"
      BY <1>1, <3>1 DEF Answering
    <3>6. QED
      BY <1>1, <2>1, <3>2, <3>3, <3>4, <3>5 DEF AnswersAt, Answering
  <2>2. CASE pc \notin {7, 14, 20}
    <3>1. owed' = None
      BY <1>1, <1>3, <1>5, <2>2
    <3>2. QED
      BY <1>1, <1>2, <2>2, <3>1 DEF AnswersAt, Answering
  <2>3. QED
    BY <2>1, <2>2
<1>8. QED
  BY <1>4, <1>6, <1>7 DEF ConfigInv

LEMMA OthersConfig ==
  ASSUME InputInv, HandInv, ConfigInv, Clean, UNCHANGED <<C1, C2, C3, C4, C5, found>>
  PROVE  /\ Reply => ConfigInv'
         /\ \A code \in ScanCodes : Send(code) => ConfigInv'
         /\ Interrupt => ConfigInv'
         /\ UNCHANGED ps2_vars => ConfigInv'
<1>1. ConfigAt /\ CfgAt /\ AnswersAt
  BY DEF ConfigInv
<1>2. ASSUME UNCHANGED <<pc, cfg, config, input>> PROVE ConfigAt' /\ CfgAt'
  BY <1>1, <1>2 DEF ConfigAt, CfgAt
<1>3. ASSUME Reply PROVE ConfigInv'
  <2>1. owed # None /\ owed' = None /\ output' = owed /\ UNCHANGED <<pc, cfg, config, input>>
    BY <1>3 DEF Reply, cpu
  <2>2. AnswersAt'
    BY <1>1, <2>1 DEF AnswersAt, Answering
  <2>3. QED
    BY <1>2, <2>1, <2>2 DEF ConfigInv
<1>4. ASSUME NEW code \in ScanCodes, Send(code) PROVE ConfigInv'
  <2>1. /\ output'.from = "keyboard" /\ owed = None /\ owed' = None
        /\ UNCHANGED <<pc, cfg, config, input>>
    BY <1>4 DEF Send, cpu
  <2>2. AnswersAt'
    BY <2>1 DEF AnswersAt, Answering
  <2>3. QED
    BY <1>2, <2>1, <2>2 DEF ConfigInv
<1>5. ASSUME Interrupt PROVE ConfigInv'
  <2>1. /\ pc = 28 /\ (output' = None \/ output' = output)
        /\ UNCHANGED <<pc, cfg, config, input, owed>>
    BY <1>5 DEF Interrupt, ps2_handler, HandInv, SettledInv
  <2>2. AnswersAt'
    BY <1>1, <2>1, NotNone DEF AnswersAt, Answering
  <2>3. QED
    BY <1>2, <2>1, <2>2 DEF ConfigInv
<1>6. ASSUME UNCHANGED ps2_vars PROVE ConfigInv'
  <2>1. UNCHANGED <<pc, cfg, config, input, owed, output>>
    BY <1>6 DEF ps2_vars, cpu, controller
  <2>2. AnswersAt'
    BY <1>1, <2>1 DEF AnswersAt, Answering
  <2>3. QED
    BY <1>2, <2>1, <2>2 DEF ConfigInv
<1>7. QED
  BY <1>3, <1>4, <1>5, <1>6

LEMMA ConfigKept == InputInv /\ HandInv /\ ConfigInv /\ [Ps2Next]_ps2_vars => ConfigInv'
<1> SUFFICES ASSUME InputInv, HandInv, ConfigInv, [Ps2Next]_ps2_vars PROVE ConfigInv'
  OBVIOUS
<1>1. CASE ~Clean'
  BY <1>1 DEF ConfigInv
<1>2. CASE Clean'
  <2>1. Clean
    BY <1>2, StaysClean
  <2>2. UNCHANGED <<C1, C2, C3, C4, C5, found>>
    BY FoundKept
  <2>3. QED
    BY <1>2, <2>1, <2>2, CommandConfig, DelayConfig, DataConfig, ReadConfig, FlushConfig,
       SwitchConfig, TakeConfig, OthersConfig DEF Ps2Next, Driver, Controller
<1>3. QED
  BY <1>1, <1>2

\* Unless a command was written over or a key was taken for an answer, ps2_init
\* leaves the keyboard's port enabled with its interrupt and without
\* translation, the second port disabled, and the rest as the firmware set it.
THEOREM ConfigurationIntended == Ps2Spec => []ConfigIntended
<1>1. Ps2Init => InputInv /\ Bytes /\ HandInv /\ ConfigInv
  BY InitInput, InitBytes, InitHand, InitConfig
<1>2. InputInv /\ Bytes /\ HandInv /\ ConfigInv /\ [Ps2Next]_ps2_vars
        => (InputInv /\ Bytes /\ HandInv /\ ConfigInv)'
  BY InputKept, BytesKept, HandKept, ConfigKept
<1>3. ConfigInv => ConfigIntended
  <2> SUFFICES ASSUME ConfigInv, Done, input = None, dropped = {}, ~raced
               PROVE  config = (found \ {KOFF, XLATE}) \cup {KINT, AUXINT, AUXOFF}
    BY DEF ConfigIntended
  <2>1. pc = 28
    BY Written DEF Done
  <2>2. config = C5
    BY <2>1 DEF ConfigInv, Clean, ConfigAt
  <2>3. QED
    BY <2>2 DEF C1, C2, C3, C4, C5, KINT, AUXINT, KOFF, AUXOFF, XLATE
<1>4. QED
  BY <1>1, <1>2, <1>3, PTL DEF Ps2Spec

=============================================================================
