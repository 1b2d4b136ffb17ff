------------------------------- MODULE MCFifo -------------------------------
\* Fifo for TLC: a few entries and a small buffer, so that both positions
\* wrap around and the buffer is full and empty many times.
EXTENDS Fifo
=============================================================================
