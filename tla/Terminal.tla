------------------------------ MODULE Terminal ------------------------------
(***************************************************************************)
(* KernelLoop with its putc opened up.  The loop prints a character with   *)
(* console_putch, interrupts enabled; and the keyboard's interrupt prints  *)
(* too, through the same console_putch, when fifo_add finds the FIFO full. *)
(* row and col of console.c have no protection, so console_putch is cut at *)
(* every load and store of theirs, as it is compiled without optimisation. *)
(*                                                                         *)
(* The characters typed are those the charmaps of the keyboard hold: all   *)
(* that console_putch treats specially but the form feed, which no key     *)
(* gives.  What is in the cells is left out (module Console has it): what  *)
(* counts is which cells.  So is txcount of chrdev_putch, which nothing    *)
(* reads; the console is never full.                                       *)
(***************************************************************************)
EXTENDS KernelLoop

CONSTANTS Width, Height,  \* 80 by 25
          TabSpaces,      \* CONSOLE_TAB_SPACES
          Bytes,          \* how many values a uint8_t has, as row and col are
          MessageLength,  \* glyphs of the message of fifo_add; 43
          Tab, Newline, Return, Backspace, VTab

ASSUME TerminalAssumption ==
  /\ Width \in Nat \ {0} /\ Height \in Nat \ {0} /\ TabSpaces \in Nat
  /\ Bytes \in Nat /\ Width + 1 < Bytes /\ Height + 1 < Bytes
  /\ MessageLength \in Nat
  /\ Tab \notin {Newline, Return, Backspace, VTab}
  /\ Backspace \notin {Newline, Return, VTab}

VARIABLES row, col,
          at,          \* where the loop is inside console_putch
          r, c,        \* registers row and col were loaded into
          spaces,      \* i: the spaces of a tab printed so far
          left,        \* characters of its message the interrupt has to print
          \* What the properties speak of:
          furthest,    \* the last of the cells a character was put into
          raced        \* a message was printed inside a backspace

screen == <<row, col, furthest>>
putch == <<at, r, c, spaces>>
tvars == <<vars, screen, putch, left, raced>>

Cell(down, right) == down * Width + right
Further(cell) == IF cell > furthest THEN cell ELSE furthest

\* kmain has printed, after console_init, a number of lines that depends on the
\* memory map; the last ends with a newline.
TInit == /\ KInit
         /\ row \in 0 .. Height - 1 /\ col = 0 /\ furthest = 0
         /\ at = "start" /\ r = 0 /\ c = 0 /\ spaces = 0
         /\ left = 0 /\ raced = FALSE
-----------------------------------------------------------------------------
(* The interrupt, which nothing interrupts: the loop waits while left > 0. *)

\* Between the test of a backspace, col > 0, and the load for its col--.
InBackspace == out = Backspace /\ at \in {"glyph", "cell", "col"}

\* fifo_add, which has a message and a newline to print when the FIFO is full.
Interrupt(e) ==
  /\ left = 0
  /\ KeyboardInterrupt(e)
  /\ IF num_entries < MaxEntries
     THEN UNCHANGED <<left, raced>>
     ELSE left' = MessageLength + 1 /\ raced' = (raced \/ InBackspace)
  /\ UNCHANGED <<screen, putch>>

\* console_putch, as a whole: a glyph in the last column and a newline go to
\* the next row, scrolling at the last one.
PrintChar ==
  /\ left > 0 /\ left' = left - 1
  /\ LET newline == left = 1
         next == (col + 1) % Bytes
         down == newline \/ next >= Width
         below == IF row + 1 >= Height THEN Height - 1 ELSE row + 1
     IN /\ row' = IF down THEN below ELSE row
        /\ col' = IF down THEN 0 ELSE next
        /\ furthest' = Further(IF newline THEN Cell(below, 0) ELSE Cell(row, col))
  /\ UNCHANGED <<vars, putch, raced>>
-----------------------------------------------------------------------------
(* The loop: putc(ch), which is chrdev_putch(stdout, ch).                  *)

Step(from, to) == pc = "putc" /\ at = from /\ at' = to /\ UNCHANGED vars
\* What a step that only reads leaves alone.
Reads == UNCHANGED <<row, col, furthest>>

\* The branches on the character.
Branch == CASE out = Tab -> "tab?"
            [] out \in {Newline, Return} -> "row"
            [] out = Backspace -> "back?"
            [] out = VTab -> "last"
            [] OTHER -> "glyph"

Begin == Step("start", Branch) /\ UNCHANGED <<screen, r, c, spaces>>

\* while ((col < width) && (i < CONSOLE_TAB_SPACES))
TestTab == Step("tab?", IF col < Width /\ spaces < TabSpaces THEN "glyph" ELSE "args")
             /\ UNCHANGED <<r, c, spaces>> /\ Reads

\* Mutant: a backspace in the first column goes back as well.
TestBackAlways == Step("back?", "glyph") /\ UNCHANGED <<r, c, spaces>> /\ Reads

\* if (col > 0)
TestBack == Step("back?", IF col > 0 THEN "glyph" ELSE "args")
              /\ UNCHANGED <<r, c, spaces>> /\ Reads

\* framebuffer[row * width + col] = ...: the glyph, or a blank.
IndexRow == Step("glyph", "cell") /\ r' = row /\ UNCHANGED <<c, spaces>> /\ Reads
WriteGlyph == /\ Step("cell", "col") /\ furthest' = Further(Cell(r, col))
              /\ UNCHANGED <<row, col, r, c, spaces>>

\* col = col + 1, col++ and col--, in eight bits; i++ in the loop of the tab.
AfterCol == CASE out = Tab -> "tab?"
              [] out = Backspace -> "args"
              [] OTHER -> "col?"
LoadCol == Step("col", "newcol") /\ c' = col /\ UNCHANGED <<r, spaces>> /\ Reads
StoreCol == /\ Step("newcol", AfterCol)
            /\ col' = (IF out = Backspace THEN c + Bytes - 1 ELSE c + 1) % Bytes
            /\ spaces' = IF out = Tab THEN spaces + 1 ELSE spaces
            /\ UNCHANGED <<row, furthest, r, c>>

\* if (col >= width) { col = 0; ...
TestCol == Step("col?", IF col >= Width THEN "wrap" ELSE "args")
             /\ UNCHANGED <<r, c, spaces>> /\ Reads

\* Mutant: the column is not reset.
WrapLater == Step("wrap", "row") /\ UNCHANGED <<row, col, furthest, r, c, spaces>>

Wrap == Step("wrap", "row") /\ col' = 0 /\ UNCHANGED <<row, furthest, r, c, spaces>>

\* row = row + 1
LoadRow == Step("row", "row+1") /\ r' = row /\ UNCHANGED <<c, spaces>> /\ Reads
StoreRow == Step("row+1", "row?") /\ row' = r + 1
             /\ UNCHANGED <<col, furthest, r, c, spaces>>

\* if (row >= height) { console_scroll(1); row = height-1; }, where a glyph's
\* row = 24 is the same.  A newline, unlike a return, has more to do.
AfterRow == IF out = Newline THEN "col=0" ELSE "args"

\* Mutant: the row below the last is let through.
TestRowOne == Step("row?", IF row > Height THEN "scroll" ELSE AfterRow)
                /\ UNCHANGED <<r, c, spaces>> /\ Reads

TestRow == Step("row?", IF row >= Height THEN "scroll" ELSE AfterRow)
             /\ UNCHANGED <<r, c, spaces>> /\ Reads
Scroll == Step("scroll", AfterRow) /\ row' = Height - 1
            /\ UNCHANGED <<col, furthest, r, c, spaces>>

\* \v: row = height - 1; console_clear_line(row)
LastRow == Step("last", "line") /\ row' = Height - 1
             /\ UNCHANGED <<col, furthest, r, c, spaces>>

\* \n: col = 0; console_clear_line(row), which writes at col each time.
ResetCol == Step("col=0", "line") /\ col' = 0 /\ UNCHANGED <<row, furthest, r, c, spaces>>
ClearRow == Step("line", "clear") /\ r' = row /\ UNCHANGED <<c, spaces>> /\ Reads
ClearLine == /\ Step("clear", "args") /\ furthest' = Further(Cell(r, col))
             /\ UNCHANGED <<row, col, r, c, spaces>>

\* console_set_pos(row, col): what was read is written back.
ArgCol == Step("args", "args2") /\ c' = col /\ UNCHANGED <<r, spaces>> /\ Reads
ArgRow == Step("args2", "setrow") /\ r' = row /\ UNCHANGED <<c, spaces>> /\ Reads
SetRow == Step("setrow", "setcol") /\ row' = r /\ UNCHANGED <<col, furthest, r, c, spaces>>
SetCol == Step("setcol", "end") /\ col' = c /\ UNCHANGED <<row, furthest, r, c, spaces>>

\* The registers' values are dead.
End == /\ at = "end" /\ Putc
       /\ at' = "start" /\ r' = 0 /\ c' = 0 /\ spaces' = 0
       /\ UNCHANGED screen

Putch == \/ Begin \/ TestTab \/ TestBack
         \/ IndexRow \/ WriteGlyph \/ LoadCol \/ StoreCol \/ TestCol
         \/ Wrap \/ LoadRow \/ StoreRow \/ TestRow \/ Scroll
         \/ LastRow \/ ResetCol \/ ClearRow \/ ClearLine
         \/ ArgCol \/ ArgRow \/ SetRow \/ SetCol \/ End

Loop == /\ left = 0 /\ UNCHANGED <<left, raced>>
        /\ \/ /\ Poll \/ Getchar \/ GetCopy \/ GetLoad \/ GetStore \/ GetAdvance
              /\ UNCHANGED <<screen, putch>>
           \/ Putch

TNext == Loop \/ PrintChar \/ \E e \in Entry : Interrupt(e)

\* The processor goes on, with the message or with the loop.
TSpec == TInit /\ [][TNext]_tvars /\ WF_tvars(Loop \/ PrintChar)
-----------------------------------------------------------------------------
\* The column after the last, where a tab may leave the cursor; or any, once a
\* message, which ends with a newline, has put the column to 0 under a backspace
\* that had seen it greater: its col-- then goes from 0 to the largest uint8_t.
LastCol == IF raced THEN Bytes - 1 ELSE Width

\* Whatever the message does to row and col under the feet of the loop's
\* console_putch, and though console_set_pos puts old values back, whenever the
\* loop is not inside console_putch the cursor is in a row of the screen and no
\* further than just after its end: only a message inside a backspace breaks it.
CursorBack == at = "start" => row \in 0 .. Height - 1 /\ col \in 0 .. LastCol

\* The row may be one too large for a moment, and the message then prints
\* there: but unless a backspace was raced nothing is written further than the
\* row after the screen and one cell, which is video memory that nothing shows.
WritesNear == furthest <= Cell(Height, LastCol)
=============================================================================
