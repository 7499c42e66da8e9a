---------------------------- MODULE BoundedFifo ----------------------------
(***************************************************************************)
(* What a bounded queue between threads promises: items leave in the order *)
(* they entered, there are never more than Capacity of them, and once the  *)
(* queue is closed none enters any more while those inside still leave.    *)
(* ThreadPool's task queue implements it; StreamQueue relies on no more.   *)
(***************************************************************************)
EXTENDS Naturals, Sequences

CONSTANTS Items, Capacity

VARIABLES items,   \* the queue, oldest first
          closed   \* no item enters any more

vars == <<items, closed>>

Init == items = <<>> /\ closed = FALSE

Put(i) ==
    /\ ~closed
    /\ Len(items) < Capacity
    /\ items' = Append(items, i)
    /\ UNCHANGED closed

Take ==
    /\ items # <<>>
    /\ items' = Tail(items)
    /\ UNCHANGED closed

Close == ~closed /\ closed' = TRUE /\ UNCHANGED items

Next == (\E i \in Items : Put(i)) \/ Take \/ Close

Spec == Init /\ [][Next]_vars
============================================================================
