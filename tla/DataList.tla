------------------------------- MODULE DataList -------------------------------
(***************************************************************************)
(* What a list_t promises (lib/list.h): a sequence of data pointers, with  *)
(* additions at either end and removal of an element by value.             *)
(***************************************************************************)
EXTENDS Integers, Sequences

CONSTANT Data

VARIABLE items

Init == items = <<>>

AddLast(d) == items' = Append(items, d)

AddFirst(d) == items' = <<d>> \o items

\* The first of its occurrences goes; without one nothing changes.
Take(d) == \E i \in DOMAIN items :
             /\ items[i] = d /\ \A j \in 1 .. i - 1 : items[j] # d
             /\ items' = SubSeq(items, 1, i - 1) \o SubSeq(items, i + 1, Len(items))

Next == \E d \in Data : AddLast(d) \/ AddFirst(d) \/ Take(d)

Spec == Init /\ [][Next]_items
=============================================================================
