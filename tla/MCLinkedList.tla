---------------------------- MODULE MCLinkedList ----------------------------
\* LinkedList for TLC: up to four nodes, so that a removal finds its node at
\* the front, in the middle and at the end, and two data pointers, so that
\* the same one is in the list more than once.
EXTENDS LinkedList
=============================================================================
