------------------------------ MODULE Console ------------------------------
(***************************************************************************)
(* The text screen of console.c: the cursor, the cells of page 0 of the    *)
(* video memory, and console_putch.  A cell is abstracted to its           *)
(* character; a cleared cell and a space are both Blank.                   *)
(***************************************************************************)
EXTENDS Integers, Sequences, SequencesExt

CONSTANTS Width, Height,   \* width and height; 80 by 25
          TabSpaces,       \* CONSOLE_TAB_SPACES
          Glyphs,          \* the characters that are printed as such
          Alphabet,        \* the characters printed in this instance
          Blank,
          MaxText          \* bound: how many characters are printed

\* The characters console_putch treats specially: \t \r \n \b \f \v.
Controls == {"tab", "return", "newline", "backspace", "formfeed", "vtab"}

ASSUME ConsoleAssumption ==
  /\ Width \in Nat \ {0} /\ Height \in Nat \ {0} /\ TabSpaces \in Nat
  /\ Glyphs \cap Controls = {} /\ Alphabet \subseteq Glyphs \cup Controls
  /\ MaxText \in Nat

VARIABLES row, col,
          framebuffer,     \* the cells, row by row, and what follows them
          text             \* everything printed so far

vars == <<row, col, framebuffer, text>>

\* One cell past the screen is kept: nothing is ever written further out.
Cells == 0 .. Width * Height
Screen == 0 .. Width * Height - 1
At(r, c) == r * Width + c

\* console_clear: the cursor stays where it is.
Cleared(fb) == [i \in Cells |-> IF i \in Screen THEN Blank ELSE fb[i]]

\* console_init
Init == /\ row = 0 /\ col = 0
        /\ framebuffer = [i \in Cells |-> Blank]
        /\ text = <<>>
-----------------------------------------------------------------------------
\* console_scroll: rows move up; then as many rows as scrolled are cleared,
\* counted upwards from row height - rows.
Scrolled(fb, rows) ==
  LET moved == [i \in Cells |-> IF i + rows * Width \in Screen
                                THEN fb[i + rows * Width] ELSE fb[i]]
      wiped == {At(Height - rows - r, c) : r \in 0 .. rows - 1,
                                           c \in 0 .. Width - 1}
  IN [i \in Cells |-> IF i \in wiped THEN Blank ELSE moved[i]]

\* console_clear_line: the loop runs over c and writes at col each time.
ClearedLine(fb, r, c) == [fb EXCEPT ![At(r, c)] = Blank]

\* The row below the cursor's, scrolling if there is none.
RowBelow == IF row + 1 >= Height THEN Height - 1 ELSE row + 1
FramebufferBelow(fb) == IF row + 1 >= Height THEN Scrolled(fb, 1) ELSE fb

\* Mutant of console_putch: a tab stops one column too late.
PutTabLate ==
  LET last == IF col + TabSpaces > Width + 1 THEN Width + 1 ELSE col + TabSpaces
  IN /\ framebuffer' = [i \in Cells |-> IF i \in At(row, col) .. At(row, last) - 1
                                        THEN Blank ELSE framebuffer[i]]
     /\ col' = last
     /\ UNCHANGED row

\* console_putch('\t'): spaces up to the end of the row, and no wrap there.
PutTab ==
  LET last == IF col + TabSpaces > Width THEN Width ELSE col + TabSpaces
  IN /\ framebuffer' = [i \in Cells |-> IF i \in At(row, col) .. At(row, last) - 1
                                        THEN Blank ELSE framebuffer[i]]
     /\ col' = last
     /\ UNCHANGED row

\* console_putch('\r'): one row down, in the same column.
PutReturn == /\ row' = RowBelow
             /\ framebuffer' = FramebufferBelow(framebuffer)
             /\ UNCHANGED col

\* console_putch('\n')
PutNewline ==
  /\ row' = RowBelow
  /\ col' = 0
  /\ framebuffer' = ClearedLine(FramebufferBelow(framebuffer), RowBelow, 0)

\* Mutant of console_putch: the cursor moves first, also from column 0.
PutBackspaceFirst ==
  /\ framebuffer' = [framebuffer EXCEPT ![At(row, col) - 1] = Blank]
  /\ col' = IF col = 0 THEN 0 ELSE col - 1
  /\ UNCHANGED row

\* console_putch('\b'): the cell under the cursor is blanked, then the cursor
\* goes back.
PutBackspace ==
  IF col > 0
  THEN /\ framebuffer' = [framebuffer EXCEPT ![At(row, col)] = Blank]
       /\ col' = col - 1
       /\ UNCHANGED row
  ELSE UNCHANGED <<row, col, framebuffer>>

\* console_putch('\f')
PutFormFeed == /\ framebuffer' = Cleared(framebuffer)
               /\ UNCHANGED <<row, col>>

\* console_putch('\v')
PutVerticalTab == /\ row' = Height - 1
                  /\ framebuffer' = ClearedLine(framebuffer, Height - 1, col)
                  /\ UNCHANGED col

\* Mutant of console_putch: the test for the end of the row is off by one.
PutGlyphLate(ch) ==
  LET printed == [framebuffer EXCEPT ![At(row, col)] = ch] IN
  IF col + 1 > Width
  THEN /\ row' = RowBelow
       /\ col' = 0
       /\ framebuffer' = FramebufferBelow(printed)
  ELSE /\ framebuffer' = printed
       /\ col' = col + 1
       /\ UNCHANGED row

\* console_putch of anything else: the cell under the cursor, and a new row
\* after the last column.
PutGlyph(ch) ==
  LET printed == [framebuffer EXCEPT ![At(row, col)] = ch] IN
  IF col + 1 >= Width
  THEN /\ row' = RowBelow
       /\ col' = 0
       /\ framebuffer' = FramebufferBelow(printed)
  ELSE /\ framebuffer' = printed
       /\ col' = col + 1
       /\ UNCHANGED row

\* console_putch
Putch(ch) == /\ ch \in Alphabet /\ Len(text) < MaxText
             /\ text' = Append(text, ch)
             /\ \/ ch = "tab" /\ PutTab
                \/ ch = "return" /\ PutReturn
                \/ ch = "newline" /\ PutNewline
                \/ ch = "backspace" /\ PutBackspace
                \/ ch = "formfeed" /\ PutFormFeed
                \/ ch = "vtab" /\ PutVerticalTab
                \/ ch \in Glyphs /\ PutGlyph(ch)

Next == \E ch \in Glyphs \cup Controls : Putch(ch)

Spec == Init /\ [][Next]_vars
-----------------------------------------------------------------------------
\* The column may be Width after a tab, never more.
TypeOK == /\ row \in 0 .. Height - 1
          /\ col \in 0 .. Width
          /\ framebuffer \in [Cells -> Glyphs \cup {Blank}]
          /\ text \in Seq(Alphabet)

\* The rows of a text of glyphs and newlines on an endless page: a glyph in
\* the last column and a newline both begin a row.
Typeset(rows, ch) ==
  LET current == rows[Len(rows)]
      grown == Append(current, ch)
  IN IF ch = "newline" THEN Append(rows, <<>>)
     ELSE LET filled == ReplaceAt(rows, Len(rows), grown)
          IN IF Len(grown) = Width THEN Append(filled, <<>>) ELSE filled
Page ==
  LET page[n \in 0 .. Len(text)] ==
        IF n = 0 THEN << <<>> >> ELSE Typeset(page[n - 1], text[n])
  IN page[Len(text)]

\* What is printed is what is seen: while only glyphs and newlines are printed
\* the screen shows the last rows of the text and the cursor stands at its
\* end, across every wrap and every scroll.
PlainText == \A i \in DOMAIN text : text[i] \in Glyphs \cup {"newline"}
ScreenShowsText ==
  LET above == IF Len(Page) > Height THEN Len(Page) - Height ELSE 0
      Shown(r, c) == IF r + above + 1 \in DOMAIN Page
                          /\ c + 1 \in DOMAIN Page[r + above + 1]
                     THEN Page[r + above + 1][c + 1] ELSE Blank
  IN PlainText =>
     /\ \A r \in 0 .. Height - 1, c \in 0 .. Width - 1 :
          framebuffer[At(r, c)] = Shown(r, c)
     /\ row + above + 1 = Len(Page)
     /\ col = Len(Page[Len(Page)])

\* A character scrolls where the next row would be below the last.
Scrolls(ch) == /\ row = Height - 1
               /\ \/ ch \in {"return", "newline"}
                  \/ ch \in Glyphs /\ col + 1 >= Width

\* Whatever is printed, and even with the cursor past the end of its row, a
\* character leaves alone every row above the cursor's.  One that scrolls gives
\* each of those rows the cells of the row below it, all but the one under the
\* cursor, where a glyph goes.  Only a form feed changes them otherwise.
AboveUntouched ==
  [][ Last(text') # "formfeed" =>
        \A r \in 0 .. row - 1, c \in 0 .. Width - 1 :
          IF Scrolls(Last(text'))
          THEN At(r + 1, c) # At(row, col) => framebuffer'[At(r, c)] = framebuffer[At(r + 1, c)]
          ELSE framebuffer'[At(r, c)] = framebuffer[At(r, c)] ]_vars
=============================================================================
