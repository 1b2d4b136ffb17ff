----------------------------- MODULE MCKMalloc -----------------------------
\* KMalloc for TLC: room for four blocks and their remainder, so that every
\* kind of merge and every position on both lists occurs.
EXTENDS KMalloc
=============================================================================
