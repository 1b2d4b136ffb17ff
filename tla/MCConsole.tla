----------------------------- MODULE MCConsole -----------------------------
\* Console for TLC: a screen of a few cells, and texts of every kind of
\* character, long enough to scroll the first row off the screen by newlines
\* and by wrapping.
EXTENDS Console

MCAlphabet == Glyphs \cup Controls
=============================================================================
