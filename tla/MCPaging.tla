------------------------------- MODULE MCPaging -------------------------------
\* PhysMem and Paging for TLC: machines of 5 to 10 pages, whose memory maps
\* begin and end on page boundaries or anywhere, with or without a free page
\* in low memory, and with extended memory in one part or two, also with a part
\* above 4 GB (32 units), whose addresses wrap to the hole and to the kernel, or
\* a part listed twice.
\* The map of 8 pages fills the words of the bitmap.
EXTENDS Paging

Usual(addr, len) == [addr |-> addr, len |-> len, available |-> TRUE]
Reserved(addr, len) == [addr |-> addr, len |-> len, available |-> FALSE]

\* Low memory up to "low", a reserved hole up to "high", extended memory from
\* there (where the kernel is loaded) to "top".
PcMap(low, high, top) ==
  <<Usual(0, low), Reserved(low, high - low), Usual(high, top - high)>>

MCMaps == {PcMap(low, 6, top) : low \in {2, 3, 4}, top \in {10, 11, 13, 14, 16, 18, 20}}
            \cup {PcMap(4, 6, 13) \o <<Reserved(13, 2), Usual(15, top - 15)>> : top \in {16, 18}}
            \cup {PcMap(4, 6, top) \o <<Usual(34, 6)>> : top \in {16, 18}}
            \cup {PcMap(4, 6, 18) \o <<Usual(14, 4)>>}
MCAfters == {{}, {0}, {0, 1}}

\* A page full of zeros, or of anything else.
Filled(present) == [i \in Index |-> [present |-> present, page_addr |-> 1]]
MCGarbage == {Filled(FALSE), Filled(TRUE)}

\* Two addresses of one table and one each of two others, of which the kernel
\* has the last one nowhere.
MCVirtuals == {0, 2, 5, 12}
MCFrames == {0, 6}
=============================================================================
