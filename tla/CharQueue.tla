----------------------------- MODULE CharQueue -----------------------------
(***************************************************************************)
(* What a fifo_t promises its callers (lib/fifo.h): a bounded queue.  An   *)
(* entry is taken in the order it was put, nothing is taken twice, and a   *)
(* put on a full queue changes nothing.  `out' is the caller's buffer, the *)
(* second argument of fifo_get.                                            *)
(***************************************************************************)
EXTENDS Integers, Sequences

CONSTANTS Entry,     \* the values an entry can hold
          Capacity   \* how many entries the queue holds at most

VARIABLES queue, out

vars == <<queue, out>>

Init == /\ queue = <<>>
        /\ out \in Entry

Put(e) == /\ Len(queue) < Capacity
          /\ queue' = Append(queue, e)
          /\ UNCHANGED out

Take == /\ queue # <<>>
        /\ out' = Head(queue)
        /\ queue' = Tail(queue)

Next == Take \/ \E e \in Entry : Put(e)

Spec == Init /\ [][Next]_vars
=============================================================================
