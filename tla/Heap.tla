-------------------------------- MODULE Heap --------------------------------
(***************************************************************************)
(* What kmalloc and kfree promise the rest of the kernel (lib/kmalloc.h):  *)
(* a block lies in the heap, has the size asked for, and shares no byte    *)
(* with any other block that has not been freed yet.                       *)
(***************************************************************************)
EXTENDS Integers

CONSTANTS HeapSize,    \* bytes of heap, addresses 0 .. HeapSize - 1
          Requests     \* the sizes clients ask for

VARIABLE live          \* the blocks handed out and not freed, as [at, len]

Blocks == [at : 0 .. HeapSize, len : Requests]

Disjoint(b, c) == b.at + b.len <= c.at \/ c.at + c.len <= b.at

Init == live = {}

Malloc == \E b \in Blocks :
            /\ b.at + b.len <= HeapSize
            /\ \A c \in live : b # c /\ Disjoint(b, c)
            /\ live' = live \cup {b}

Free == \E b \in live : live' = live \ {b}

Next == Malloc \/ Free

Spec == Init /\ [][Next]_live
=============================================================================
