----------------------------- MODULE MCKeyboard -----------------------------
\* Keyboard for TLC: `a', F7 whose code is outside the charmaps, and 5, which
\* has no control character; of the extended keys the right ctrl and alt and
\* the first code of Print Screen, which repeat codes of ordinary modifiers.
EXTENDS Keyboard

MCPlain == {28, 46, 131}
MCExtended == {17, 20, 18}
MCMapped == [m \in {"lower", "shift", "ctrl"} |->
               IF m = "ctrl" THEN {28} ELSE {28, 46}]
=============================================================================
