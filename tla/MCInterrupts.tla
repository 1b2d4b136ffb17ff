---------------------------- MODULE MCInterrupts ----------------------------
\* Interrupts for TLC: the keyboard, a lower line of the master, and a line
\* of the slave, with up to three nested stubs.
EXTENDS Interrupts
=============================================================================
