----------------------------- MODULE MCTerminal -----------------------------
\* Terminal for TLC: more characters than twice the size of the buffer, so
\* that increments are lost, the positions wrap, the buffer is found full and
\* an unread entry is overwritten.  The loop starts in each row; a tab reaches
\* the end of the row, a newline after it passes the end of the screen with the
\* column there, and a message finds a backspace half done.  Bytes is larger
\* than a row, and a message shorter, as in the code.
EXTENDS Terminal
=============================================================================
