---------------------------- MODULE MCRegionHeap ----------------------------
\* RegionHeap for TLC: a heap of up to seven blocks of three sizes, enough
\* for every kind of merge and for a free list with several holes.
EXTENDS RegionHeap
=============================================================================
