----------------------------- MODULE ConsoleProof -----------------------------
(***************************************************************************)
(* The text screen, for every width, height and width of a tab, and every  *)
(* text: the cursor stays where its cell is one of the screen's or the one *)
(* behind it, no character disturbs the rows above the cursor, and of plain *)
(* text the screen shows the end.                                          *)
(***************************************************************************)
EXTENDS Console, SequenceTheorems, FiniteSetTheorems, WellFoundedInduction, TLAPS

-----------------------------------------------------------------------------
(* Cells.                                                                  *)

LEMMA AtGrows ==
  ASSUME NEW q \in Nat, NEW r \in Nat, q < r
  PROVE  At(q, 0) + Width <= At(r, 0) /\ At(q, 0) \in Nat /\ At(r, 0) \in Nat
<1>1. Width \in Nat
  BY ConsoleAssumption
<1>2. PICK k \in Nat : r = q + 1 + k
  <2>1. r - q - 1 \in Nat /\ r = q + 1 + (r - q - 1)
    OBVIOUS
  <2>2. QED
    BY <2>1
<1>3. r * Width = (q * Width) + Width + (k * Width)
  BY <1>1, <1>2
<1>4. k * Width \in Nat /\ q * Width \in Nat
  BY <1>1
<1>5. QED
  BY <1>1, <1>3, <1>4 DEF At

LEMMA AtIs ==
  ASSUME NEW r \in Nat, NEW c \in Nat
  PROVE  At(r, c) = At(r, 0) + c /\ At(r, 0) \in Nat
<1>1. r * Width \in Nat
  BY ConsoleAssumption
<1>2. QED
  BY <1>1 DEF At

\* The rows end where the screen does.
LEMMA ScreenEnds ==
  /\ Width \in Nat \ {0} /\ Height \in Nat \ {0} /\ TabSpaces \in Nat
  /\ At(Height, 0) = Width * Height
  /\ Cells = 0 .. At(Height, 0) /\ Screen = 0 .. At(Height, 0) - 1
<1>1. Width \in Nat \ {0} /\ Height \in Nat \ {0} /\ TabSpaces \in Nat
  BY ConsoleAssumption
<1>2. At(Height, 0) = Width * Height
  BY <1>1 DEF At
<1>3. QED
  BY <1>1, <1>2 DEF Cells, Screen

LEMMA AtInCells ==
  ASSUME NEW r \in 0 .. Height - 1, NEW c \in 0 .. Width
  PROVE  At(r, c) \in Cells
<1>1. r \in Nat /\ Height \in Nat /\ r < Height /\ c \in Nat /\ c <= Width
  BY ScreenEnds
<1>2. At(r, 0) + Width <= At(Height, 0)
  BY <1>1, AtGrows
<1>3. At(r, c) = At(r, 0) + c /\ At(r, 0) \in Nat
  BY <1>1, AtIs
<1>4. QED
  BY <1>1, <1>2, <1>3, ScreenEnds

\* Places on the screen have cells of their own.
LEMMA AtApart ==
  ASSUME NEW r \in 0 .. Height - 1, NEW s \in 0 .. Height - 1,
         NEW c \in 0 .. Width - 1, NEW d \in 0 .. Width - 1
  PROVE  /\ At(r, c) \in Screen /\ At(r, c) \in Cells
         /\ At(r, c) = At(s, d) => r = s /\ c = d
<1>1. r \in Nat /\ s \in Nat /\ c \in Nat /\ d \in Nat /\ Height \in Nat /\ Width \in Nat
      /\ r < Height /\ c < Width /\ d < Width
  BY ScreenEnds
<1>2. /\ At(r, c) = At(r, 0) + c /\ At(r, 0) \in Nat
      /\ At(s, d) = At(s, 0) + d /\ At(s, 0) \in Nat
  BY <1>1, AtIs
<1>3. At(r, 0) + Width <= At(Height, 0)
  BY <1>1, AtGrows
<1>4. r < s => At(r, 0) + Width <= At(s, 0)
  BY <1>1, AtGrows
<1>5. s < r => At(s, 0) + Width <= At(r, 0)
  BY <1>1, AtGrows
<1>6. At(r, c) \in Screen /\ At(r, c) \in Cells
  BY <1>1, <1>2, <1>3, ScreenEnds
<1>7. At(r, c) = At(s, d) => r = s /\ c = d
  BY <1>1, <1>2, <1>4, <1>5
<1>8. QED
  BY <1>6, <1>7

\* After a scroll each row shows the next one, and the last is blank.
LEMMA ScrolledAt ==
  ASSUME NEW fb, NEW r \in 0 .. Height - 1, NEW c \in 0 .. Width - 1
  PROVE  Scrolled(fb, 1)[At(r, c)] = IF r = Height - 1 THEN Blank ELSE fb[At(r + 1, c)]
<1>1. r \in Nat /\ c \in Nat /\ Height \in Nat \ {0} /\ Width \in Nat \ {0}
      /\ Height - 1 \in 0 .. Height - 1
  BY ScreenEnds
<1> DEFINE wiped == {At(Height - 1 - q, d) : q \in 0 .. 1 - 1, d \in 0 .. Width - 1}
           moved == [i \in Cells |-> IF i + 1 * Width \in Screen
                                     THEN fb[i + 1 * Width] ELSE fb[i]]
<1>2. Scrolled(fb, 1) = [i \in Cells |-> IF i \in wiped THEN Blank ELSE moved[i]]
  BY DEF Scrolled
<1>3. At(r, c) \in wiped <=> r = Height - 1
  <2>1. wiped = {At(Height - 1, d) : d \in 0 .. Width - 1}
    BY <1>1
  <2>2. r = Height - 1 => At(r, c) \in wiped
    BY <2>1
  <2>3. ASSUME At(r, c) \in wiped PROVE r = Height - 1
    <3>1. PICK d \in 0 .. Width - 1 : At(r, c) = At(Height - 1, d)
      BY <2>1, <2>3
    <3>2. QED
      BY <1>1, <3>1, AtApart
  <2>4. QED
    BY <2>2, <2>3
<1>4. At(r, c) \in Cells
  BY <1>1, AtApart
<1> HIDE DEF wiped
<1>5. Scrolled(fb, 1)[At(r, c)] = IF r = Height - 1 THEN Blank ELSE moved[At(r, c)]
  <2> HIDE DEF moved
  <2>1. QED
    BY <1>2, <1>3, <1>4
<1>6. r # Height - 1 => At(r, c) + 1 * Width = At(r + 1, c) /\ At(r + 1, c) \in Screen
  <2>1. ASSUME r # Height - 1 PROVE r + 1 \in 0 .. Height - 1
    BY <1>1, <2>1
  <2>2. At(r, c) + 1 * Width = At(r + 1, c)
    <3>1. r * Width \in Nat /\ (r + 1) * Width = (r * Width) + Width /\ 1 * Width = Width
      BY <1>1
    <3>2. QED
      BY <1>1, <3>1 DEF At
  <2>3. QED
    BY <2>1, <2>2, AtApart
<1>7. r # Height - 1 => moved[At(r, c)] = fb[At(r + 1, c)]
  BY <1>4, <1>6
<1> HIDE DEF moved
<1>8. QED
  BY <1>5, <1>7

-----------------------------------------------------------------------------
(* The screen keeps its type.                                              *)

Shade == Glyphs \cup {Blank}

LEMMA BlankType ==
  ASSUME NEW fb \in [Cells -> Shade], NEW i
  PROVE  [fb EXCEPT ![i] = Blank] \in [Cells -> Shade]
  BY DEF Shade

LEMMA ScrolledType ==
  ASSUME NEW fb \in [Cells -> Shade]
  PROVE  Scrolled(fb, 1) \in [Cells -> Shade]
<1>1. \A i \in Cells : i + (1 * Width) \in Screen => i + (1 * Width) \in Cells
  BY ScreenEnds
<1>2. QED
  BY <1>1 DEF Scrolled, Shade

LEMMA BelowType ==
  ASSUME NEW fb \in [Cells -> Shade], row \in 0 .. Height - 1
  PROVE  RowBelow \in 0 .. Height - 1 /\ FramebufferBelow(fb) \in [Cells -> Shade]
<1>1. RowBelow \in 0 .. Height - 1
  BY ScreenEnds DEF RowBelow
<1>2. FramebufferBelow(fb) \in [Cells -> Shade]
  BY ScrolledType DEF FramebufferBelow
<1>3. QED
  BY <1>1, <1>2

LEMMA PutchType ==
  ASSUME TypeOK, NEW ch, Putch(ch)
  PROVE  TypeOK'
<1>1. /\ row \in 0 .. Height - 1 /\ col \in 0 .. Width
      /\ framebuffer \in [Cells -> Shade] /\ text \in Seq(Alphabet)
  BY DEF TypeOK, Shade
<1>2. text' \in Seq(Alphabet)
  BY <1>1 DEF Putch
<1>3. Width \in Nat \ {0} /\ Height \in Nat \ {0} /\ TabSpaces \in Nat
  BY ScreenEnds
<1>4. SUFFICES /\ row' \in 0 .. Height - 1 /\ col' \in 0 .. Width
               /\ framebuffer' \in [Cells -> Shade]
  BY <1>2 DEF TypeOK, Shade
<1>5. CASE PutTab
  BY <1>1, <1>3, <1>5 DEF PutTab, Shade
<1>6. CASE PutReturn
  BY <1>1, <1>6, BelowType DEF PutReturn
<1>7. CASE PutNewline
  <2>1. FramebufferBelow(framebuffer) \in [Cells -> Shade] /\ RowBelow \in 0 .. Height - 1
    BY <1>1, BelowType
  <2>2. row' = RowBelow /\ col' = 0
        /\ framebuffer' = [FramebufferBelow(framebuffer) EXCEPT ![At(RowBelow, 0)] = Blank]
    BY <1>7 DEF PutNewline, ClearedLine
  <2>3. framebuffer' \in [Cells -> Shade]
    BY <2>1, <2>2, BlankType
  <2>4. 0 \in 0 .. Width
    BY <1>3
  <2>5. QED
    BY <2>1, <2>2, <2>3, <2>4
<1>8. CASE PutBackspace
  BY <1>1, <1>3, <1>8 DEF PutBackspace, Shade
<1>9. CASE PutFormFeed
  BY <1>1, <1>9 DEF PutFormFeed, Cleared, Shade
<1>10. CASE PutVerticalTab
  <2>1. row' = Height - 1 /\ col' = col
        /\ framebuffer' = [framebuffer EXCEPT ![At(Height - 1, col)] = Blank]
    BY <1>10 DEF PutVerticalTab, ClearedLine
  <2>2. framebuffer' \in [Cells -> Shade]
    BY <1>1, <2>1, BlankType
  <2>3. Height - 1 \in 0 .. Height - 1
    BY <1>3
  <2>4. QED
    BY <1>1, <2>1, <2>2, <2>3
<1>11. CASE ch \in Glyphs /\ PutGlyph(ch)
  <2> DEFINE printed == [framebuffer EXCEPT ![At(row, col)] = ch]
  <2>1. printed \in [Cells -> Shade]
    BY <1>1, <1>11 DEF Shade
  <2>2. \/ row' = RowBelow /\ col' = 0 /\ framebuffer' = FramebufferBelow(printed)
        \/ row' = row /\ col' = col + 1 /\ framebuffer' = printed /\ col + 1 < Width
    BY <1>1, <1>3, <1>11 DEF PutGlyph
  <2> HIDE DEF printed
  <2>3. FramebufferBelow(printed) \in [Cells -> Shade] /\ RowBelow \in 0 .. Height - 1
    BY <1>1, <2>1, BelowType
  <2>4. CASE row' = RowBelow /\ col' = 0 /\ framebuffer' = FramebufferBelow(printed)
    BY <1>3, <2>3, <2>4
  <2>5. CASE row' = row /\ col' = col + 1 /\ framebuffer' = printed /\ col + 1 < Width
    BY <1>1, <1>3, <2>1, <2>5
  <2>6. QED
    BY <2>2, <2>4, <2>5
<1>12. \/ PutTab \/ PutReturn \/ PutNewline \/ PutBackspace \/ PutFormFeed
       \/ PutVerticalTab \/ (ch \in Glyphs /\ PutGlyph(ch))
  BY Zenon DEF Putch
<1>13. QED
  BY <1>5, <1>6, <1>7, <1>8, <1>9, <1>10, <1>11, <1>12, Zenon

\* The cursor never leaves the rows, and leaves the columns by one at most;
\* only characters reach the cells, whatever is printed.
THEOREM ConsoleTypeCorrect == Spec => []TypeOK
<1>1. Init => TypeOK
  BY ScreenEnds, EmptySeq DEF Init, TypeOK
<1>2. TypeOK /\ [Next]_vars => TypeOK'
  BY PutchType DEF Next, vars, TypeOK
<1>3. QED
  BY <1>1, <1>2, PTL DEF Spec

\* The cell under the cursor is one of the screen's, or the one behind its
\* last: console_putch writes no further out, wherever a tab has left the
\* cursor.
THEOREM CursorInCells == Spec => [](At(row, col) \in Cells)
<1>1. TypeOK => At(row, col) \in Cells
  BY AtInCells DEF TypeOK
<1>2. QED
  BY <1>1, ConsoleTypeCorrect, PTL

-----------------------------------------------------------------------------
(* What is above the cursor.                                               *)

\* Changing the cell under the cursor, or one in a row below, changes none of
\* those above.
LEMMA AboveKept ==
  ASSUME NEW fb \in [Cells -> Shade], NEW q \in 0 .. Height - 1, NEW r \in 0 .. Height - 1,
         NEW c \in Nat, q <= r, NEW v, NEW i \in 0 .. At(q, 0) - 1
  PROVE  [fb EXCEPT ![At(r, c)] = v][i] = fb[i] /\ i \in Cells /\ i \notin At(r, c) .. At(r, c)
<1>1. q \in Nat /\ r \in Nat /\ Height \in Nat /\ q < Height
  BY ScreenEnds
<1>2. At(r, c) = At(r, 0) + c /\ At(r, 0) \in Nat /\ At(q, 0) \in Nat
  BY <1>1, AtIs
<1>3. At(q, 0) <= At(r, 0)
  <2>1. CASE q = r
    BY <1>2, <2>1
  <2>2. CASE q < r
    <3>1. At(q, 0) + Width <= At(r, 0)
      BY <1>1, <2>2, AtGrows
    <3>2. QED
      BY <1>2, <3>1, ScreenEnds
  <2>3. QED
    BY <1>1, <2>1, <2>2
<1>4. At(q, 0) + Width <= At(Height, 0)
  BY <1>1, AtGrows
<1>5. i # At(r, c) /\ i \in Cells
  BY <1>2, <1>3, <1>4, ScreenEnds
<1>6. QED
  BY <1>5

LEMMA PutchAbove ==
  ASSUME TypeOK, NEW ch, Putch(ch), ch # "formfeed",
         ~ Scrolls(ch), NEW i \in 0 .. At(row, 0) - 1
  PROVE  framebuffer'[i] = framebuffer[i]
<1>1. /\ row \in 0 .. Height - 1 /\ col \in 0 .. Width
      /\ framebuffer \in [Cells -> Shade]
  BY DEF TypeOK, Shade
<1>2. /\ Width \in Nat \ {0} /\ Height \in Nat \ {0} /\ TabSpaces \in Nat
      /\ row \in Nat /\ col \in Nat
  BY <1>1, ScreenEnds
<1>3. i \in Cells /\ i < At(row, col)
  <2>1. i \in Cells
    BY <1>1, <1>2, AboveKept
  <2>2. At(row, col) = At(row, 0) + col /\ At(row, 0) \in Nat
    BY <1>2, AtIs
  <2>3. QED
    BY <1>2, <2>1, <2>2
<1>4. row # Height - 1 => RowBelow = row + 1 /\ \A fb : FramebufferBelow(fb) = fb
  BY <1>1, <1>2 DEF RowBelow, FramebufferBelow
<1>6. CASE ch = "tab" /\ PutTab
  <2>1. framebuffer'[i] = IF i \in At(row, col) .. At(row, col') - 1
                          THEN Blank ELSE framebuffer[i]
    BY <1>3, <1>6 DEF PutTab
  <2>2. At(row, col) = At(row, 0) + col /\ At(row, 0) \in Nat
    BY <1>2, AtIs
  <2>3. i \notin At(row, col) .. At(row, col') - 1
    BY <1>2, <1>3, <2>2
  <2>4. QED
    BY <2>1, <2>3
<1>7. CASE ch = "return" /\ PutReturn
  BY <1>4, <1>7 DEF PutReturn, Scrolls
<1>8. CASE ch = "newline" /\ PutNewline
  <2>1. row # Height - 1
    BY <1>8 DEF Scrolls
  <2>2. RowBelow \in 0 .. Height - 1 /\ row <= RowBelow
    BY <1>1, <1>2, <1>4, <2>1
  <2>3. framebuffer' = [framebuffer EXCEPT ![At(RowBelow, 0)] = Blank]
    BY <1>4, <1>8, <2>1 DEF PutNewline, ClearedLine
  <2>4. QED
    BY <1>1, <2>2, <2>3, AboveKept
<1>9. CASE ch = "backspace" /\ PutBackspace
  <2>1. framebuffer' = [framebuffer EXCEPT ![At(row, col)] = Blank] \/ framebuffer' = framebuffer
    BY <1>9 DEF PutBackspace
  <2>2. [framebuffer EXCEPT ![At(row, col)] = Blank][i] = framebuffer[i]
    <3>1. i # At(row, col)
      <4>1. At(row, col) = At(row, 0) + col /\ At(row, 0) \in Nat
        BY <1>2, AtIs
      <4>2. QED
        BY <1>2, <1>3, <4>1
    <3>2. QED
      BY <1>1, <1>3, <3>1
  <2>3. QED
    BY <2>1, <2>2
<1>10. CASE ch = "vtab" /\ PutVerticalTab
  <2>1. framebuffer' = [framebuffer EXCEPT ![At(Height - 1, col)] = Blank]
    BY <1>10 DEF PutVerticalTab, ClearedLine
  <2>2. Height - 1 \in 0 .. Height - 1 /\ row <= Height - 1
    BY <1>1, <1>2
  <2>3. QED
    BY <1>1, <1>2, <2>1, <2>2, AboveKept
<1>11. CASE ch \in Glyphs /\ PutGlyph(ch)
  <2> DEFINE printed == [framebuffer EXCEPT ![At(row, col)] = ch]
  <2>1. framebuffer' = printed
    <3>1. col + 1 >= Width => row # Height - 1
      BY <1>11 DEF Scrolls
    <3>2. col + 1 >= Width => framebuffer' = FramebufferBelow(printed)
      BY <1>11 DEF PutGlyph
    <3>3. ~ (col + 1 >= Width) => framebuffer' = printed
      BY <1>11 DEF PutGlyph
    <3> HIDE DEF printed
    <3>4. QED
      BY <1>4, <3>1, <3>2, <3>3
  <2>2. QED
    BY <1>1, <1>2, <2>1, AboveKept
<1>12. QED
  BY <1>6, <1>7, <1>8, <1>9, <1>10, <1>11 DEF Putch

\* What a character that scrolls does to the rows above the cursor's.
LEMMA PutchScrolls ==
  ASSUME TypeOK, NEW ch, Putch(ch), Scrolls(ch),
         NEW r \in 0 .. row - 1, NEW c \in 0 .. Width - 1, At(r + 1, c) # At(row, col)
  PROVE  framebuffer'[At(r, c)] = framebuffer[At(r + 1, c)]
<1>1. /\ row = Height - 1 /\ framebuffer \in [Cells -> Shade]
      /\ Width \in Nat \ {0} /\ Height \in Nat \ {0}
  BY ScreenEnds DEF TypeOK, Shade, Scrolls
<1>2. /\ r \in 0 .. Height - 1 /\ r # Height - 1 /\ 0 \in 0 .. Width - 1
      /\ Height - 1 \in 0 .. Height - 1
  BY <1>1
<1>3. RowBelow = Height - 1 /\ \A fb : FramebufferBelow(fb) = Scrolled(fb, 1)
  BY <1>1 DEF RowBelow, FramebufferBelow
<1>4. \A fb : Scrolled(fb, 1)[At(r, c)] = fb[At(r + 1, c)]
  BY <1>2, ScrolledAt
<1>5. CASE ch = "return"
  <2>1. PutReturn
    BY <1>5, ConsoleAssumption DEF Putch, Controls
  <2>2. QED
    BY <1>3, <1>4, <2>1 DEF PutReturn
<1>6. CASE ch = "newline"
  <2>1. PutNewline
    BY <1>6, ConsoleAssumption DEF Putch, Controls
  <2>2. framebuffer' = [Scrolled(framebuffer, 1) EXCEPT ![At(Height - 1, 0)] = Blank]
    BY <1>3, <2>1 DEF PutNewline, ClearedLine
  <2>3. At(r, c) # At(Height - 1, 0)
    BY <1>2, AtApart
  <2>4. Scrolled(framebuffer, 1) \in [Cells -> Shade] /\ At(r, c) \in Cells
    BY <1>1, <1>2, ScrolledType, AtApart
  <2>5. QED
    BY <1>4, <2>2, <2>3, <2>4
<1>7. CASE ch \in Glyphs
  <2> DEFINE printed == [framebuffer EXCEPT ![At(row, col)] = ch]
  <2>1. PutGlyph(ch) /\ col + 1 >= Width
    BY <1>7, ConsoleAssumption DEF Putch, Controls, Scrolls
  <2>2. framebuffer' = Scrolled(printed, 1)
    BY <1>3, <2>1 DEF PutGlyph
  <2>3. r + 1 \in 0 .. Height - 1
    BY <1>1, <1>2
  <2>4. At(r + 1, c) \in Cells
    BY <2>3, AtApart
  <2>5. printed[At(r + 1, c)] = framebuffer[At(r + 1, c)]
    BY <1>1, <2>4
  <2> HIDE DEF printed
  <2>6. QED
    BY <1>4, <2>2, <2>5
<1>8. QED
  BY <1>5, <1>6, <1>7 DEF Scrolls

\* Whatever is printed, even behind the end of a row, a character changes no
\* row above the cursor's, unless it clears the screen, or scrolls: then each of
\* those rows gets what the row below it showed.
THEOREM RowsAboveKept == Spec => AboveUntouched
<1> DEFINE Kept == Last(text') # "formfeed" =>
                     \A r \in 0 .. row - 1, c \in 0 .. Width - 1 :
                       IF Scrolls(Last(text'))
                       THEN At(r + 1, c) # At(row, col)
                              => framebuffer'[At(r, c)] = framebuffer[At(r + 1, c)]
                       ELSE framebuffer'[At(r, c)] = framebuffer[At(r, c)]
<1>1. TypeOK /\ Next => Kept
  <2>1. SUFFICES ASSUME TypeOK, NEW ch \in Glyphs \cup Controls, Putch(ch) PROVE Kept
    BY DEF Next
  <2>2. text' = Append(text, ch) /\ text \in Seq(Alphabet) /\ ch \in Alphabet
    BY <2>1 DEF Putch, TypeOK
  <2>3. Last(text') = ch
    BY <2>2 DEF Last
  <2>4. ASSUME NEW r \in 0 .. row - 1, NEW c \in 0 .. Width - 1
        PROVE  At(r, c) \in 0 .. At(row, 0) - 1
    <3>1. row \in Nat /\ r \in Nat /\ c \in Nat /\ r < row /\ Width \in Nat
      BY <2>1, <2>4, ScreenEnds DEF TypeOK
    <3>2. At(r, 0) + Width <= At(row, 0) /\ At(r, c) = At(r, 0) + c /\ At(r, 0) \in Nat
          /\ At(row, 0) \in Nat
      BY <3>1, AtGrows, AtIs
    <3>3. QED
      BY <2>4, <3>1, <3>2
  <2>5. QED
    BY <2>1, <2>3, <2>4, PutchAbove, PutchScrolls
<1>2. Spec => [][Kept]_vars
  <2> HIDE DEF Kept
  <2>1. TypeOK /\ [Next]_vars => [Kept]_vars
    BY <1>1
  <2>2. QED
    BY <2>1, ConsoleTypeCorrect, PTL DEF Spec
<1>3. QED
  BY <1>2 DEF AboveUntouched
-----------------------------------------------------------------------------
(* The page: what one more character does to it.                           *)

\* A set of numbers with an element has a least one.
LEMMA LeastNumber ==
  ASSUME NEW B, B \subseteq Nat, B # {}
  PROVE  \E m \in B : \A k \in B : m <= k
<1> DEFINE T == {S \in FiniteSubsetsOf(Nat) : \E n \in B : S = 0 .. n}
<1>1. \A n \in B : 0 .. n \in T
  BY FS_Interval DEF FiniteSubsetsOf
<1>2. T # {} /\ T \subseteq FiniteSubsetsOf(Nat)
  BY <1>1
<1>3. PICK S \in T : \A R \in T : ~ (<<R, S>> \in StrictSubsetOrdering(Nat))
  <2> HIDE DEF T
  <2>1. QED
    BY <1>2, FS_StrictSubsetOrderingWellFounded, WFMin, Zenon
<1>4. PICK m \in B : S = 0 .. m
  BY <1>3
<1>5. ASSUME NEW k \in B, k < m PROVE FALSE
  <2>1. 0 .. k \in T
    BY <1>1
  <2>2. <<0 .. k, 0 .. m>> \in StrictSubsetOrdering(Nat)
    BY <1>5 DEF StrictSubsetOrdering
  <2>3. QED
    BY <1>3, <1>4, <2>1, <2>2
<1>6. QED
  BY <1>5

\* p[k] is the page after the first k characters of t.
ArePages(p, n, t) ==
  p = [k \in 0 .. n |-> IF k = 0 THEN << <<>> >> ELSE Typeset(p[k - 1], t[k])]

LEMMA PagesExist ==
  ASSUME NEW t, NEW n \in Nat
  PROVE  \E p : ArePages(p, n, t)
<1> DEFINE B == {k \in Nat : ~ \E p : ArePages(p, k, t)}
<1>1. SUFFICES ASSUME B # {} PROVE FALSE
  OBVIOUS
<1>2. PICK k \in B : \A l \in B : k <= l
  <2>1. B \subseteq Nat
    OBVIOUS
  <2> HIDE DEF B
  <2>2. QED
    BY <1>1, <2>1, LeastNumber
<1>3. k # 0
  <2>1. ArePages([i \in 0 .. 0 |-> << <<>> >>], 0, t)
    BY DEF ArePages
  <2>2. QED
    BY <2>1
<1>4. k \in Nat /\ k - 1 \in Nat /\ k - 1 \notin B
  BY <1>2, <1>3
<1>5. PICK p : ArePages(p, k - 1, t)
  BY <1>4
<1> DEFINE longer == [i \in 0 .. k |-> IF i = k THEN Typeset(p[k - 1], t[k]) ELSE p[i]]
<1>6. ArePages(longer, k, t)
  <2>1. \A i \in 0 .. k - 1 : p[i] = IF i = 0 THEN << <<>> >> ELSE Typeset(p[i - 1], t[i])
    BY <1>5 DEF ArePages
  <2>2. ASSUME NEW i \in 0 .. k
        PROVE  longer[i] = IF i = 0 THEN << <<>> >> ELSE Typeset(longer[i - 1], t[i])
    <3>1. CASE i = k
      <4>1. i # 0 /\ k - 1 \in 0 .. k /\ k - 1 # k
        BY <1>3, <1>4, <3>1
      <4>2. longer[i - 1] = p[k - 1]
        BY <3>1, <4>1
      <4>3. QED
        BY <3>1, <4>1, <4>2
    <3>2. CASE i # k
      <4>1. i \in 0 .. k - 1 /\ (i # 0 => i - 1 \in 0 .. k /\ i - 1 # k)
        BY <1>4, <3>2
      <4>2. longer[i] = p[i] /\ (i # 0 => longer[i - 1] = p[i - 1])
        BY <3>2, <4>1
      <4>3. QED
        BY <2>1, <4>1, <4>2
    <3>3. QED
      BY <3>1, <3>2
  <2>3. longer = [i \in 0 .. k |-> longer[i]]
    OBVIOUS
  <2> HIDE DEF longer
  <2>4. QED
    BY <2>2, <2>3 DEF ArePages
<1>7. QED
  BY <1>2, <1>6

\* The pages of a text are those of a longer one.
SameAt(p, q, n) == p[n] = q[n]

LEMMA PagesAgree ==
  ASSUME NEW t, NEW u, NEW n \in Nat, \A i \in 1 .. n : t[i] = u[i],
         NEW p, ArePages(p, n, t), NEW q, ArePages(q, n + 1, u)
  PROVE  SameAt(p, q, n)
<1>1. /\ \A i \in 0 .. n : p[i] = IF i = 0 THEN << <<>> >> ELSE Typeset(p[i - 1], t[i])
      /\ \A i \in 0 .. n + 1 : q[i] = IF i = 0 THEN << <<>> >> ELSE Typeset(q[i - 1], u[i])
  BY DEF ArePages
<1> DEFINE B == {k \in 0 .. n : p[k] # q[k]}
<1>2. SUFFICES ASSUME B # {} PROVE FALSE
  BY DEF SameAt
<1>3. PICK k \in B : \A l \in B : k <= l
  <2>1. B \subseteq Nat
    OBVIOUS
  <2> HIDE DEF B
  <2>2. QED
    BY <1>2, <2>1, LeastNumber
<1>4. k \in 0 .. n + 1 /\ k \in 0 .. n /\ p[k] # q[k]
  OBVIOUS
<1>5. k # 0
  BY <1>1, <1>4
<1>6. k - 1 \in 0 .. n /\ k - 1 \notin B /\ t[k] = u[k]
  BY <1>3, <1>4, <1>5
<1>7. p[k - 1] = q[k - 1]
  BY <1>6
<1>8. p[k] = Typeset(p[k - 1], t[k]) /\ q[k] = Typeset(q[k - 1], u[k])
  BY <1>1, <1>4, <1>5
<1>9. QED
  BY <1>4, <1>6, <1>7, <1>8

PageOf(t) ==
  LET page[n \in 0 .. Len(t)] ==
        IF n = 0 THEN << <<>> >> ELSE Typeset(page[n - 1], t[n])
  IN page[Len(t)]

LEMMA PageOfIs ==
  ASSUME NEW t, Len(t) \in Nat
  PROVE  \E p : ArePages(p, Len(t), t) /\ PageOf(t) = p[Len(t)]
<1> DEFINE p == CHOOSE p : ArePages(p, Len(t), t)
<1>1. PageOf(t) = p[Len(t)]
  BY Zenon DEF PageOf, ArePages
<1>2. ArePages(p, Len(t), t)
  BY PagesExist, Zenon
<1>3. QED
  BY <1>1, <1>2, Zenon

LEMMA PageGrows ==
  ASSUME NEW S, NEW t \in Seq(S), NEW ch \in S
  PROVE  PageOf(Append(t, ch)) = Typeset(PageOf(t), ch)
<1> DEFINE u == Append(t, ch)
<1>1. /\ Len(t) \in Nat /\ Len(u) = Len(t) + 1
      /\ \A i \in 1 .. Len(t) : t[i] = u[i]
      /\ u[Len(t) + 1] = ch
  OBVIOUS
<1> HIDE DEF u
<1>2. PICK p : ArePages(p, Len(t), t) /\ PageOf(t) = p[Len(t)]
  BY <1>1, PageOfIs
<1>3. PICK q : ArePages(q, Len(t) + 1, u) /\ PageOf(u) = q[Len(t) + 1]
  <2>1. Len(u) \in Nat
    BY <1>1
  <2>2. QED
    BY <1>1, <2>1, PageOfIs
<1>4. p[Len(t)] = q[Len(t)]
  <2>1. Len(t) \in Nat
    BY <1>1
  <2>2. \A i \in 1 .. Len(t) : t[i] = u[i]
    BY <1>1
  <2>3. ArePages(p, Len(t), t) /\ ArePages(q, Len(t) + 1, u)
    BY <1>2, <1>3
  <2>4. SameAt(p, q, Len(t))
    BY <2>1, <2>2, <2>3, PagesAgree, Zenon
  <2>5. QED
    BY <2>4 DEF SameAt
<1>5. q[Len(t) + 1] = Typeset(q[Len(t)], u[Len(t) + 1])
  <2>1. Len(t) + 1 \in 0 .. Len(t) + 1 /\ Len(t) + 1 # 0 /\ Len(t) + 1 - 1 = Len(t)
    BY <1>1
  <2>2. q[Len(t) + 1] = IF Len(t) + 1 = 0 THEN << <<>> >>
                        ELSE Typeset(q[Len(t) + 1 - 1], u[Len(t) + 1])
    BY <1>3, <2>1 DEF ArePages
  <2>3. QED
    BY <2>1, <2>2
<1>6. QED
  BY <1>1, <1>2, <1>3, <1>4, <1>5 DEF u

LEMMA PageIs == Page = PageOf(text)
  BY Zenon DEF Page, PageOf

LEMMA FirstPage == PageOf(<<>>) = << <<>> >>
<1>1. Len(<<>>) = 0
  OBVIOUS
<1>2. PICK p : ArePages(p, 0, <<>>) /\ PageOf(<<>>) = p[0]
  BY <1>1, PageOfIs
<1>3. QED
  BY <1>2 DEF ArePages
-----------------------------------------------------------------------------
(* What the screen shows of a page.                                        *)

Above(rows) == IF Len(rows) > Height THEN Len(rows) - Height ELSE 0
ShownAt(rows, r, c) ==
  IF r + Above(rows) + 1 \in DOMAIN rows /\ c + 1 \in DOMAIN rows[r + Above(rows) + 1]
  THEN rows[r + Above(rows) + 1][c + 1] ELSE Blank
Showing(fb, rows) ==
  \A r \in 0 .. Height - 1 : \A c \in 0 .. Width - 1 : fb[At(r, c)] = ShownAt(rows, r, c)

\* There is a last row, and room in it.
PageType(rows) == /\ rows \in Seq(Seq(Glyphs)) /\ Len(rows) >= 1
                  /\ Len(rows[Len(rows)]) < Width

OnLastRow(r, rows) == r \in 0 .. Height - 1 /\ r + Above(rows) + 1 = Len(rows)

\* A character printed at the cursor is at the end of the last row.
LEMMA PrintShows ==
  ASSUME NEW fb \in [Cells -> Shade], NEW rows, PageType(rows), Showing(fb, rows),
         NEW r, OnLastRow(r, rows), NEW c, c = Len(rows[Len(rows)]), NEW ch
  PROVE  Showing([fb EXCEPT ![At(r, c)] = ch],
                 [rows EXCEPT ![Len(rows)] = Append(rows[Len(rows)], ch)])
<1> DEFINE last == rows[Len(rows)]
           grown == Append(last, ch)
           next == [rows EXCEPT ![Len(rows)] = grown]
<1>1. /\ rows \in Seq(Seq(Glyphs)) /\ Len(rows) \in Nat /\ Len(rows) >= 1
      /\ Len(rows) \in DOMAIN rows
      /\ last \in Seq(Glyphs) /\ Len(last) \in Nat /\ c = Len(last) /\ c < Width
  BY DEF PageType
<1>2. r \in 0 .. Height - 1 /\ c \in 0 .. Width - 1
  BY <1>1, ScreenEnds DEF OnLastRow
<1>3. /\ DOMAIN next = DOMAIN rows /\ Len(next) = Len(rows)
      /\ next[Len(rows)] = grown
      /\ \A i \in DOMAIN rows : i # Len(rows) => next[i] = rows[i]
  BY <1>1
<1>4. /\ DOMAIN grown = 1 .. c + 1 /\ DOMAIN last = 1 .. c /\ grown[c + 1] = ch
      /\ \A i \in 1 .. c : grown[i] = last[i]
  BY <1>1
<1> HIDE DEF grown, next
<1>5. Above(next) = Above(rows) /\ Above(rows) \in Nat
  BY <1>1, <1>3, ScreenEnds DEF Above
<1>6. ASSUME NEW q \in 0 .. Height - 1, NEW d \in 0 .. Width - 1
      PROVE  [fb EXCEPT ![At(r, c)] = ch][At(q, d)] = ShownAt(next, q, d)
  <2>1. /\ At(q, d) \in Cells /\ fb[At(q, d)] = ShownAt(rows, q, d)
        /\ At(q, d) = At(r, c) => q = r /\ d = c
    BY <1>2, AtApart DEF Showing
  <2>2. q \in Nat /\ d \in Nat
    BY ScreenEnds
  <2>3. q + Above(rows) + 1 = Len(rows) <=> q = r
    BY <1>2, <1>5, <2>2 DEF OnLastRow
  <2>4. CASE q = r /\ d = c
    <3>1. ShownAt(next, q, d) = ch
      BY <1>1, <1>3, <1>4, <1>5, <2>3, <2>4 DEF ShownAt
    <3>2. QED
      BY <2>1, <2>4, <3>1
  <2>5. CASE q = r /\ d # c
    <3>1. d + 1 \in 1 .. c + 1 <=> d + 1 \in 1 .. c
      BY <1>1, <2>2, <2>5
    <3>2. ShownAt(next, q, d) = IF d + 1 \in 1 .. c + 1 THEN grown[d + 1] ELSE Blank
      BY <1>1, <1>3, <1>4, <1>5, <2>3, <2>5 DEF ShownAt
    <3>3. ShownAt(rows, q, d) = IF d + 1 \in 1 .. c THEN last[d + 1] ELSE Blank
      BY <1>1, <1>4, <2>3, <2>5 DEF ShownAt
    <3>4. QED
      BY <1>4, <2>1, <2>5, <3>1, <3>2, <3>3
  <2>6. CASE q # r
    <3>1. ShownAt(next, q, d) = ShownAt(rows, q, d)
      BY <1>3, <1>5, <2>3, <2>6 DEF ShownAt
    <3>2. QED
      BY <2>1, <2>6, <3>1
  <2>7. QED
    BY <2>4, <2>5, <2>6, Zenon
<1>7. QED
  BY <1>6 DEF Showing, next, grown

\* An empty row begun below shows as the screen does after console_putch has
\* moved down, whether or not it scrolls.
LEMMA BelowShows ==
  ASSUME NEW fb, NEW rows \in Seq(Seq(Glyphs)), Showing(fb, rows), OnLastRow(row, rows)
  PROVE  /\ Showing(FramebufferBelow(fb), Append(rows, <<>>))
         /\ OnLastRow(RowBelow, Append(rows, <<>>))
<1> DEFINE next == Append(rows, <<>>)
<1>1. /\ Len(rows) \in Nat /\ DOMAIN rows = 1 .. Len(rows)
      /\ Len(next) = Len(rows) + 1 /\ DOMAIN next = 1 .. Len(rows) + 1
      /\ next[Len(rows) + 1] = <<>> /\ DOMAIN next[Len(rows) + 1] = {}
      /\ \A i \in 1 .. Len(rows) : next[i] = rows[i]
  OBVIOUS
<1> HIDE DEF next
<1>2. /\ Height \in Nat \ {0} /\ row \in 0 .. Height - 1 /\ row \in Nat
      /\ row + Above(rows) + 1 = Len(rows)
  BY ScreenEnds DEF OnLastRow
<1> DEFINE n == Len(rows)
<1>3. /\ n \in Nat
      /\ Above(rows) = IF n > Height THEN n - Height ELSE 0
      /\ Above(next) = IF n + 1 > Height THEN n + 1 - Height ELSE 0
  <2>1. /\ Above(rows) = IF n > Height THEN n - Height ELSE 0
        /\ Above(next) = IF Len(next) > Height THEN Len(next) - Height ELSE 0
    BY Zenon DEF Above
  <2>2. Len(next) = n + 1 /\ n \in Nat
    BY <1>1
  <2> HIDE DEF n
  <2>3. QED
    BY <1>2, <2>1, <2>2
<1>4. row + Above(rows) + 1 = n
  BY <1>2
<1> HIDE DEF n
<1>5. CASE row + 1 >= Height
  <2>0. n >= Height /\ row = Height - 1 /\ Above(next) = Above(rows) + 1 /\ Above(rows) \in Nat
    BY <1>2, <1>3, <1>4, <1>5
  <2>1. /\ row = Height - 1 /\ Len(rows) >= Height
        /\ Above(next) = Above(rows) + 1 /\ Above(rows) \in Nat
    BY <2>0 DEF n
  <2>2. RowBelow = Height - 1 /\ FramebufferBelow(fb) = Scrolled(fb, 1)
    BY <1>5 DEF RowBelow, FramebufferBelow
  <2>3. OnLastRow(RowBelow, next)
    BY <1>1, <1>2, <2>1, <2>2 DEF OnLastRow
  <2>4. ASSUME NEW q \in 0 .. Height - 1, NEW d \in 0 .. Width - 1
        PROVE  Scrolled(fb, 1)[At(q, d)] = ShownAt(next, q, d)
    <3>1. CASE q = Height - 1
      <4>1. q + Above(next) + 1 = Len(rows) + 1
        BY <1>1, <1>2, <2>1, <3>1
      <4>2. ShownAt(next, q, d) = Blank
        BY <1>1, <4>1 DEF ShownAt
      <4>3. QED
        BY <3>1, <4>2, ScrolledAt
    <3>2. CASE q # Height - 1
      <4>1. q + 1 \in 0 .. Height - 1
        BY <1>2, <3>2
      <4>2. fb[At(q + 1, d)] = ShownAt(rows, q + 1, d)
        BY <4>1 DEF Showing
      <4>3. q + Above(next) + 1 = q + 1 + Above(rows) + 1 /\ q + 1 + Above(rows) + 1 \in 1 .. Len(rows)
        <5>1. q + 1 + Above(rows) + 1 \in 1 .. n
          BY <1>2, <1>3, <1>4, <2>0, <3>2
        <5>2. q + Above(next) + 1 = q + 1 + Above(rows) + 1
          BY <2>0
        <5>3. QED
          BY <5>1, <5>2 DEF n
      <4>4. ShownAt(next, q, d) = ShownAt(rows, q + 1, d)
        BY <1>1, <4>3 DEF ShownAt
      <4>5. QED
        BY <3>2, <4>2, <4>4, ScrolledAt
    <3>3. QED
      BY <3>1, <3>2
  <2>5. QED
    BY <2>2, <2>3, <2>4 DEF Showing, next
<1>6. CASE ~ (row + 1 >= Height)
  <2>0. Above(next) = 0 /\ Above(rows) = 0 /\ row + 1 = n
    BY <1>2, <1>3, <1>4, <1>6
  <2>1. Above(next) = 0 /\ Above(rows) = 0 /\ row + 1 = Len(rows)
    BY <2>0 DEF n
  <2>2. RowBelow = row + 1 /\ FramebufferBelow(fb) = fb
    BY <1>6 DEF RowBelow, FramebufferBelow
  <2>3. OnLastRow(RowBelow, next)
    BY <1>1, <1>2, <1>6, <2>1, <2>2 DEF OnLastRow
  <2>4. ASSUME NEW q \in 0 .. Height - 1, NEW d \in 0 .. Width - 1
        PROVE  fb[At(q, d)] = ShownAt(next, q, d)
    <3>1. q + Above(next) + 1 = q + 1 /\ q + Above(rows) + 1 = q + 1
      BY <2>1
    <3>2. ShownAt(next, q, d) = ShownAt(rows, q, d)
      <4>1. CASE q + 1 \in 1 .. Len(rows)
        <5>1. q + 1 \in 1 .. Len(rows) + 1
          BY <1>1, <4>1
        <5>2. QED
          BY <1>1, <3>1, <4>1, <5>1 DEF ShownAt
      <4>2. CASE q + 1 = Len(rows) + 1
        <5>1. q + 1 \notin 1 .. Len(rows)
          BY <1>1, <4>2
        <5>2. ShownAt(next, q, d) = Blank
          BY <1>1, <3>1, <4>2 DEF ShownAt
        <5>3. QED
          BY <1>1, <3>1, <5>1, <5>2 DEF ShownAt
      <4>3. CASE q + 1 \notin 1 .. Len(rows) + 1
        <5>1. q + 1 \notin 1 .. Len(rows)
          BY <1>1, <4>3
        <5>2. QED
          BY <1>1, <3>1, <4>3, <5>1 DEF ShownAt
      <4>4. q + 1 \in 1 .. Len(rows) \/ q + 1 = Len(rows) + 1 \/ q + 1 \notin 1 .. Len(rows) + 1
        BY <1>1
      <4>5. QED
        BY <4>1, <4>2, <4>3, <4>4
    <3>3. QED
      BY <3>2 DEF Showing
  <2>5. QED
    BY <2>2, <2>3, <2>4 DEF Showing, next
<1>7. QED
  BY <1>5, <1>6
-----------------------------------------------------------------------------
(* Plain text on the screen.                                               *)

Shows(fb, r, c, rows) == /\ PageType(rows) /\ Showing(fb, rows)
                         /\ OnLastRow(r, rows) /\ c = Len(rows[Len(rows)])

ShowInv == PlainText => Shows(framebuffer, row, col, PageOf(text))

\* A newline: the cell that console_putch clears is blank already.
LEMMA NewlineShows ==
  ASSUME TypeOK, NEW rows, Shows(framebuffer, row, col, rows), PutNewline
  PROVE  Shows(framebuffer', row', col', Typeset(rows, "newline"))
<1> DEFINE next == Append(rows, <<>>)
           fb == FramebufferBelow(framebuffer)
<1>1. Typeset(rows, "newline") = next
  BY DEF Typeset
<1>2. /\ rows \in Seq(Seq(Glyphs)) /\ Showing(framebuffer, rows) /\ OnLastRow(row, rows)
      /\ row \in 0 .. Height - 1 /\ framebuffer \in [Cells -> Shade]
  BY DEF Shows, PageType, TypeOK, Shade
<1>3. Showing(fb, next) /\ OnLastRow(RowBelow, next)
  BY <1>2, BelowShows
<1>4. /\ RowBelow \in 0 .. Height - 1 /\ fb \in [Cells -> Shade]
  BY <1>2, BelowType
<1>5. /\ next \in Seq(Seq(Glyphs)) /\ Len(next) \in Nat /\ Len(next) >= 1
      /\ next[Len(next)] = <<>> /\ Len(next[Len(next)]) = 0
  <2>1. <<>> \in Seq(Glyphs) /\ Len(rows) \in Nat
    BY <1>2
  <2>2. QED
    BY <1>2, <2>1
<1>6. row' = RowBelow /\ col' = 0 /\ framebuffer' = [fb EXCEPT ![At(RowBelow, 0)] = Blank]
  BY DEF PutNewline, ClearedLine
<1> HIDE DEF next, fb
<1>7. PageType(next)
  BY <1>5, ScreenEnds DEF PageType
<1>8. ShownAt(next, RowBelow, 0) = Blank
  <2>1. DOMAIN next[Len(next)] = {}
    BY <1>5
  <2>2. RowBelow + Above(next) + 1 = Len(next)
    BY <1>3 DEF OnLastRow
  <2>3. QED
    BY <2>1, <2>2 DEF ShownAt
<1>9. 0 \in 0 .. Width - 1
  BY ScreenEnds
<1>10. Showing(framebuffer', next)
  <2>1. ASSUME NEW q \in 0 .. Height - 1, NEW d \in 0 .. Width - 1
        PROVE  framebuffer'[At(q, d)] = ShownAt(next, q, d)
    <3>1. fb[At(q, d)] = ShownAt(next, q, d) /\ At(q, d) \in Cells
      BY <1>3, AtApart DEF Showing
    <3>2. At(q, d) = At(RowBelow, 0) => q = RowBelow /\ d = 0
      BY <1>4, <1>9, AtApart
    <3>3. CASE At(q, d) = At(RowBelow, 0)
      BY <1>4, <1>6, <1>8, <3>1, <3>2, <3>3
    <3>4. CASE At(q, d) # At(RowBelow, 0)
      BY <1>4, <1>6, <3>1, <3>4
    <3>5. QED
      BY <3>3, <3>4
  <2>2. QED
    BY <2>1 DEF Showing
<1>11. QED
  BY <1>1, <1>3, <1>5, <1>6, <1>7, <1>10 DEF Shows

\* A glyph, which begins a new row where it fills its own.
LEMMA GlyphShows ==
  ASSUME TypeOK, NEW rows, Shows(framebuffer, row, col, rows), NEW ch \in Glyphs, PutGlyph(ch)
  PROVE  Shows(framebuffer', row', col', Typeset(rows, ch))
<1> DEFINE last == rows[Len(rows)]
           grown == Append(last, ch)
           filled == [rows EXCEPT ![Len(rows)] = grown]
           fb == [framebuffer EXCEPT ![At(row, col)] = ch]
<1>1. /\ rows \in Seq(Seq(Glyphs)) /\ Len(rows) \in Nat /\ Len(rows) >= 1
      /\ Len(rows) \in DOMAIN rows
      /\ last \in Seq(Glyphs) /\ Len(last) \in Nat /\ col = Len(last) /\ col < Width
      /\ Showing(framebuffer, rows) /\ OnLastRow(row, rows)
      /\ framebuffer \in [Cells -> Shade]
  BY DEF Shows, PageType, TypeOK, Shade
<1>2. ch # "newline" /\ Width \in Nat
  BY ConsoleAssumption DEF Controls
<1>3. /\ grown \in Seq(Glyphs) /\ Len(grown) = col + 1
      /\ filled \in Seq(Seq(Glyphs)) /\ Len(filled) = Len(rows) /\ filled[Len(filled)] = grown
  <2>1. grown \in Seq(Glyphs) /\ Len(grown) = col + 1
    BY <1>1
  <2> HIDE DEF grown
  <2>2. QED
    BY <1>1, <2>1
<1>4. Typeset(rows, ch) = IF Len(grown) = Width THEN Append(filled, <<>>) ELSE filled
  BY <1>2 DEF Typeset, ReplaceAt
<1>5. Showing(fb, filled)
  BY <1>1, PrintShows DEF Shows
<1>6. OnLastRow(row, filled)
  BY <1>1, <1>3 DEF OnLastRow, Above
<1>7. IF col + 1 >= Width
      THEN row' = RowBelow /\ col' = 0 /\ framebuffer' = FramebufferBelow(fb)
      ELSE row' = row /\ col' = col + 1 /\ framebuffer' = fb
  BY DEF PutGlyph
<1> HIDE DEF grown, filled, fb, last
<1>8. CASE col + 1 >= Width
  <2> DEFINE next == Append(filled, <<>>)
  <2>1. Typeset(rows, ch) = next
    BY <1>1, <1>2, <1>3, <1>4, <1>8
  <2>2. Showing(FramebufferBelow(fb), next) /\ OnLastRow(RowBelow, next)
    BY <1>3, <1>5, <1>6, BelowShows
  <2>3. /\ next \in Seq(Seq(Glyphs)) /\ Len(next) \in Nat /\ Len(next) >= 1
        /\ next[Len(next)] = <<>> /\ Len(next[Len(next)]) = 0
    <3>1. <<>> \in Seq(Glyphs) /\ Len(filled) \in Nat
      BY <1>3
    <3>2. QED
      BY <1>3, <3>1
  <2> HIDE DEF next
  <2>4. PageType(next)
    BY <2>3, ScreenEnds DEF PageType
  <2>5. row' = RowBelow /\ col' = 0 /\ framebuffer' = FramebufferBelow(fb)
    BY <1>7, <1>8
  <2>6. QED
    BY <2>1, <2>2, <2>3, <2>4, <2>5 DEF Shows
<1>9. CASE ~ (col + 1 >= Width)
  <2>1. Typeset(rows, ch) = filled
    BY <1>1, <1>2, <1>3, <1>4, <1>9
  <2>2. PageType(filled)
    BY <1>1, <1>2, <1>3, <1>9 DEF PageType
  <2>3. row' = row /\ col' = col + 1 /\ framebuffer' = fb
    BY <1>7, <1>9
  <2>4. QED
    BY <1>3, <1>5, <1>6, <2>1, <2>2, <2>3 DEF Shows
<1>10. QED
  BY <1>8, <1>9, Zenon

LEMMA InitShows == Init => ShowInv
<1> SUFFICES ASSUME Init PROVE Shows(framebuffer, row, col, PageOf(text))
  BY DEF ShowInv
<1> DEFINE rows == << <<>> >>
<1>1. PageOf(text) = rows /\ row = 0 /\ col = 0 /\ framebuffer = [i \in Cells |-> Blank]
  BY FirstPage DEF Init
<1>2. /\ rows \in Seq(Seq(Glyphs)) /\ Len(rows) = 1 /\ DOMAIN rows = {1}
      /\ rows[1] = <<>> /\ Len(rows[1]) = 0 /\ DOMAIN rows[1] = {}
  <2>1. <<>> \in Seq(Glyphs)
    OBVIOUS
  <2>2. QED
    BY <2>1
<1> HIDE DEF rows
<1>3. PageType(rows)
  BY <1>2, ScreenEnds DEF PageType
<1>4. OnLastRow(0, rows)
  BY <1>2, ScreenEnds DEF OnLastRow, Above
<1>5. ASSUME NEW q \in 0 .. Height - 1, NEW d \in 0 .. Width - 1
      PROVE  framebuffer[At(q, d)] = ShownAt(rows, q, d)
  <2>1. framebuffer[At(q, d)] = Blank
    BY <1>1, AtApart
  <2>2. ShownAt(rows, q, d) = Blank
    BY <1>2 DEF ShownAt
  <2>3. QED
    BY <2>1, <2>2
<1>6. QED
  BY <1>1, <1>2, <1>3, <1>4, <1>5 DEF Shows, Showing

LEMMA PutchShows ==
  ASSUME TypeOK, ShowInv, NEW ch, Putch(ch)
  PROVE  ShowInv'
<1> SUFFICES ASSUME PlainText' PROVE Shows(framebuffer', row', col', PageOf(text'))
  BY DEF ShowInv
<1>1. /\ text \in Seq(Alphabet) /\ ch \in Alphabet /\ text' = Append(text, ch)
  BY DEF TypeOK, Putch
<1>2. PlainText /\ ch \in Glyphs \cup {"newline"}
  <2>1. /\ Len(text) \in Nat /\ DOMAIN text = 1 .. Len(text)
        /\ DOMAIN text' = 1 .. Len(text) + 1
        /\ \A i \in 1 .. Len(text) : text'[i] = text[i]
        /\ text'[Len(text) + 1] = ch
    BY <1>1
  <2>2. \A i \in 1 .. Len(text) + 1 : text'[i] \in Glyphs \cup {"newline"}
    BY <2>1 DEF PlainText
  <2>3. QED
    BY <2>1, <2>2 DEF PlainText
<1>3. Shows(framebuffer, row, col, PageOf(text))
  BY <1>2 DEF ShowInv
<1>4. PageOf(text') = Typeset(PageOf(text), ch)
  BY <1>1, PageGrows
<1>5. CASE ch = "newline"
  <2>1. PutNewline
    BY <1>5, ConsoleAssumption DEF Putch, Controls
  <2>2. QED
    BY <1>3, <1>4, <1>5, <2>1, NewlineShows, Zenon
<1>6. CASE ch \in Glyphs
  <2>1. PutGlyph(ch)
    BY <1>6, ConsoleAssumption DEF Putch, Controls
  <2>2. QED
    BY <1>3, <1>4, <1>6, <2>1, GlyphShows, Zenon
<1>7. QED
  BY <1>2, <1>5, <1>6

LEMMA ShowInvIs == TypeOK /\ ShowInv => ScreenShowsText
<1> SUFFICES ASSUME TypeOK, ShowInv, PlainText PROVE ScreenShowsText
  BY DEF ScreenShowsText
<1> DEFINE rows == PageOf(text)
<1>1. Shows(framebuffer, row, col, rows)
  BY DEF ShowInv
<1>2. Page = rows
  BY PageIs
<1> HIDE DEF rows
<1>3. /\ \A r \in 0 .. Height - 1, c \in 0 .. Width - 1 : framebuffer[At(r, c)] = ShownAt(rows, r, c)
      /\ row + Above(rows) + 1 = Len(rows)
      /\ col = Len(rows[Len(rows)])
  BY <1>1 DEF Shows, Showing, OnLastRow
<1>4. QED
  BY <1>2, <1>3, Zenon DEF ScreenShowsText, ShownAt, Above

\* For a screen of any size and a text of any length: as long as only glyphs
\* and newlines are printed, the screen shows the last rows of the text.
THEOREM PrintedIsSeen == Spec => []ScreenShowsText
<1>1. Init => TypeOK /\ ShowInv
  BY InitShows, ScreenEnds, EmptySeq DEF Init, TypeOK
<1>2. TypeOK /\ ShowInv /\ [Next]_vars => (TypeOK /\ ShowInv)'
  <2>1. TypeOK /\ ShowInv /\ Next => (TypeOK /\ ShowInv)'
    BY PutchType, PutchShows, Zenon DEF Next
  <2>2. TypeOK /\ ShowInv /\ UNCHANGED vars => (TypeOK /\ ShowInv)'
    BY DEF vars, TypeOK, ShowInv, PlainText
  <2>3. QED
    BY <2>1, <2>2
<1>3. QED
  BY <1>1, <1>2, ShowInvIs, PTL DEF Spec
=============================================================================
