---------------------------- MODULE BoundedQueue ----------------------------
(***************************************************************************)
(* concurrency::BoundedQueue: a FIFO of at most MaxItems elements that     *)
(* weigh at most MaxBytes together, and can be closed.  Every method holds *)
(* the queue's mutex, so each is one step of its caller; a method that     *)
(* waits on a condition variable is enabled when the waited-for predicate  *)
(* holds.                                                                  *)
(***************************************************************************)
EXTENDS Integers, Sequences, QueueItems

CONSTANTS
  Weight,     \* weight_fn: the estimated size of each element
  MaxItems,
  MaxBytes

New == [items |-> <<>>, closed |-> FALSE]

\* current_bytes_
Bytes(q) == Total([i \in DOMAIN q.items |-> Weight[q.items[i]]])

\* Mutant of HasCapacity: the byte budget is forgotten.
HasCapacityByItems(q, x) == Len(q.items) < MaxItems

HasCapacity(q, x) == /\ Len(q.items) < MaxItems
                     /\ Weight[x] <= MaxBytes - Bytes(q)

\* An element heavier than the whole budget is refused without waiting.
Fits(x) == Weight[x] <= MaxBytes

CanPush(q, x) == ~q.closed /\ Fits(x) /\ HasCapacity(q, x)

\* A blocking Push goes on waiting.
MustWait(q, x) == ~q.closed /\ Fits(x) /\ ~HasCapacity(q, x)

Push(q, x) == [q EXCEPT !.items = Append(@, x)]

CanPop(q) == q.items # <<>>

Pop(q) == [q EXCEPT !.items = Tail(@)]

\* Pop returns false: closed, and everything that was pushed has been taken.
Drained(q) == q.closed /\ q.items = <<>>

Close(q) == [q EXCEPT !.closed = TRUE]

Bounded(q) == Len(q.items) <= MaxItems /\ Bytes(q) <= MaxBytes
=============================================================================
