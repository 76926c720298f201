------------------------------ MODULE SendQueue ------------------------------
(***************************************************************************)
(* MonitorSendQueue: the Worker's queue between the collecting and the     *)
(* sending thread.  It is bounded in items and in bytes; when it is full   *)
(* the oldest base metrics give way first, and diagnostic evidence (a      *)
(* priority item) gives way only to newer evidence.  Every method holds    *)
(* the queue's mutex, so each is one step of its caller.                   *)
(*                                                                         *)
(* An item is a record with the fields seq (unique), bytes and priority.   *)
(***************************************************************************)
EXTENDS Integers, SequencesExt, FiniteSetsExt, QueueItems

CONSTANTS MaxItems, MaxBytes

\* The queue is created closed.
New == [items |-> <<>>, closed |-> TRUE]

Open(q) == [q EXCEPT !.closed = FALSE]

Close(q) == [q EXCEPT !.closed = TRUE]

Bytes(items) == Total([i \in DOMAIN items |-> items[i].bytes])

\* Mutant of HasCapacity: the byte budget is forgotten.
HasCapacityByItems(items, x) == Len(items) < MaxItems

HasCapacity(items, x) == /\ Len(items) < MaxItems
                         /\ x.bytes <= MaxBytes - Bytes(items)

Base(items) == Among(items, {y \in ToSet(items) : ~y.priority})

Evidence(items) == Among(items, {y \in ToSet(items) : y.priority})

\* Mutant of Victims: the head of the queue gives way, whatever it is.
VictimsFromHead(items, x) == items

\* The items that may give way to x, in the order in which they do.
Victims(items, x) ==
  Base(items) \o (IF x.priority THEN Evidence(items) ELSE <<>>)

Without(items, dropped) == Among(items, ToSet(items) \ dropped)

\* The queue after the first k victims are gone.
Left(items, x, k) ==
  Without(items, ToSet(SubSeq(Victims(items, x), 1, k)))

\* Items give way one by one until x fits or nobody is left to give way.
MakeRoom(items, x) ==
  LET n == Len(Victims(items, x))
      enough == {k \in 0..n : HasCapacity(Left(items, x, k), x)}
  IN Left(items, x, IF enough = {} THEN n ELSE Min(enough))

Admits(q, x) == ~q.closed /\ x.bytes <= MaxBytes

\* Mutant of Push: evidence overtakes the base metrics.
PushEvidenceFirst(q, x) ==
  LET room == MakeRoom(q.items, x) IN
  IF ~Admits(q, x) THEN q
  ELSE IF ~HasCapacity(room, x) THEN [q EXCEPT !.items = room]
  ELSE IF x.priority THEN [q EXCEPT !.items = <<x>> \o room]
  ELSE [q EXCEPT !.items = Append(room, x)]

\* A refused item may have cost the queue its base metrics all the same.
Push(q, x) ==
  LET room == MakeRoom(q.items, x) IN
  IF ~Admits(q, x) THEN q
  ELSE IF HasCapacity(room, x) THEN [q EXCEPT !.items = Append(room, x)]
  ELSE [q EXCEPT !.items = room]

CanPop(q) == q.items # <<>>

Pop(q) == [q EXCEPT !.items = Tail(@)]

Drained(q) == q.closed /\ q.items = <<>>

Bounded(q) == Len(q.items) <= MaxItems /\ Bytes(q.items) <= MaxBytes
=============================================================================
