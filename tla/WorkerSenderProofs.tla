-------------------------- MODULE WorkerSenderProofs --------------------------
(***************************************************************************)
(* Proofs about WorkerSender for any sizes, budgets and numbers of retry:  *)
(* the queue's budgets, the order in which samples reach the wire, which   *)
(* evidence is dropped, and how many RPCs follow Stop.                     *)
(***************************************************************************)
EXTENDS WorkerSender, QueueItemsProofs

\* Only an RPC that passed its check while running_ was set can be issued after
\* Stop: then the sending thread is past it, and finds running_ cleared.
Inv ==
  /\ running \in BOOLEAN
  /\ overdue \in 0..1
  /\ stopper = "new" => ~running /\ sender = "off"
  /\ running \/ sender \in {"off", "rpc"} => overdue = 0

\* Before Start there is no sending thread.
LEMMA InitInv == Init => Inv
<1> SUFFICES ASSUME Init PROVE Inv
  OBVIOUS
<1>1. running = FALSE /\ sender = "off" /\ stopper = "new" /\ overdue = 0
  BY DEF Init
<1>2. overdue \in 0..1
  BY <1>1
<1> QED BY <1>1, <1>2, Zenon DEF Inv

\* A step of the sending thread (SendLoop, SendWithRetry).
LEMMA SendingKeeps == ASSUME Inv, Sending PROVE Inv'
<1> USE DEF Inv, collecting
<1>1. CASE Pop
  BY <1>1 DEF Pop
<1>2. CASE SendLoopEnds
  BY <1>2 DEF SendLoopEnds
<1>3. CASE CheckRunning
  BY <1>3 DEF CheckRunning, Give
<1>4. CASE SetMonitorInfo
  BY <1>4 DEF SetMonitorInfo
<1>5. CASE Finish
  BY <1>5 DEF Finish, Give
<1>6. CASE Retry
  BY <1>6 DEF Retry
<1>7. CASE WaitForRetry
  BY <1>7 DEF WaitForRetry, Give
<1> QED BY <1>1, <1>2, <1>3, <1>4, <1>5, <1>6, <1>7 DEF Sending

\* Every step keeps the invariant.
LEMMA NextInv == ASSUME Inv, [Next]_vars PROVE Inv'
<1>1. CASE Start
  BY <1>1 DEF Inv, Start
<1>2. CASE Collecting
  BY <1>2 DEF Inv, Collecting, PushLoop, CollectFails, PushOnce,
              WaitForNextSample, transmission
<1>3. CASE Sending
  BY <1>3, SendingKeeps
<1>4. CASE Stop
  BY <1>4 DEF Inv, Stop, transmission
<1>5. CASE Stopping
  BY <1>5 DEF Inv, Stopping, CloseQueue, Stopped, transmission
<1>6. CASE UNCHANGED vars
  BY <1>6 DEF Inv, vars
<1> QED BY <1>1, <1>2, <1>3, <1>4, <1>5, <1>6 DEF Next

\* However many samples wait, whatever the Manager answers and whatever the
\* bounds are, Stop is followed by at most the one RPC that had passed its check.
THEOREM StopCutsOff == Spec => []OneAttemptAfterStop
<1>1. Inv => OneAttemptAfterStop
  BY DEF Inv, OneAttemptAfterStop
<1> QED BY InitInv, NextInv, <1>1, PTL DEF Spec
-----------------------------------------------------------------------------
(* The queue. *)

Waiting == [items : Seq(Sample), closed : BOOLEAN]

BytesOf == [x \in Sample |-> x.bytes]

\* The operators of the queue in terms of Weigh and Among.
LEMMA QueueOperators ==
  ASSUME NEW items \in Seq(Sample)
  PROVE  /\ Queue!Bytes(items) = Weigh(items, BytesOf)
         /\ Queue!ToSet(items) = Range(items)
         /\ \A keep : Queue!Among(items, keep) = Among(items, keep)
<1>1. [i \in DOMAIN items |-> items[i].bytes]
        = [i \in DOMAIN items |-> BytesOf[items[i]]]
  BY DEF BytesOf
<1>2. \A s : Queue!Total(s) = Total(s)
  BY DEF Queue!Total, Total
<1>3. Queue!Bytes(items) = Weigh(items, BytesOf)
  BY <1>1, <1>2 DEF Queue!Bytes, Weigh
<1>4. Queue!ToSet(items) = Range(items)
  BY DEF Queue!ToSet, Range
<1>5. \A keep : Queue!Among(items, keep) = Among(items, keep)
  BY DEF Queue!Among, Among
<1> QED BY <1>3, <1>4, <1>5

\* The serialized sizes are naturals.
LEMMA BytesTyped == BytesOf \in [Sample -> Nat]
BY SenderAssumption DEF BytesOf, Sample

\* What is left after some items gave way is a choice of them.
LEMMA RoomIsChoice ==
  ASSUME NEW items \in Seq(Sample), NEW x
  PROVE  \E keep : Queue!MakeRoom(items, x) = Among(items, keep)
<1>1. \A k : Queue!Left(items, x, k) =
        Among(items, Range(items)
                       \ Queue!ToSet(SubSeq(Queue!Victims(items, x), 1, k)))
  BY QueueOperators DEF Queue!Left, Queue!Without
<1> QED BY <1>1 DEF Queue!MakeRoom
\* Push leaves the items as they were, or chooses among them, or puts the new
\* one behind those it chose; and it respects the budgets (MonitorSendQueue).
LEMMA PushChooses ==
  ASSUME NEW q \in Waiting, NEW x \in Sample, Queue!Bounded(q)
  PROVE  LET p == Queue!Push(q, x) IN
         /\ p \in Waiting /\ Queue!Bounded(p)
         /\ \/ p = q
            \/ \E keep : p.items \in {Among(q.items, keep),
                                      Append(Among(q.items, keep), x)}
<1> DEFINE p == Queue!Push(q, x)
           room == Queue!MakeRoom(q.items, x)
<1>1. q.items \in Seq(Sample) /\ q.closed \in BOOLEAN
  BY DEF Waiting
<1>2. PICK keep : room = Among(q.items, keep)
  BY <1>1, RoomIsChoice
<1>3. room \in Seq(Sample) /\ Len(room) <= Len(q.items)
  BY <1>1, <1>2, AmongType, AmongElements
<1>4. Weigh(room, BytesOf) \in Nat /\ Weigh(room, BytesOf) <= Weigh(q.items, BytesOf)
      /\ Weigh(q.items, BytesOf) \in Nat
  <2> HIDE DEF room
  <2>1. Weigh(room, BytesOf) \in Nat
    BY <1>3, BytesTyped, WeighAmong
  <2>2. Weigh(Among(q.items, keep), BytesOf) <= Weigh(q.items, BytesOf)
        /\ Weigh(q.items, BytesOf) \in Nat
    BY <1>1, BytesTyped, WeighAmong
  <2> QED BY <1>2, <2>1, <2>2
<1>5. Len(q.items) <= MaxItems /\ Weigh(q.items, BytesOf) <= MaxBytes
  BY <1>1, QueueOperators DEF Queue!Bounded
<1> HIDE DEF room
<1>6. CASE p = q
  BY <1>6
<1>7. CASE p = [q EXCEPT !.items = room]
  <2>1. p.items = room /\ p \in Waiting
    BY <1>1, <1>3, <1>7 DEF Waiting
  <2>2. Len(room) <= MaxItems /\ Weigh(room, BytesOf) <= MaxBytes
    BY <1>1, <1>3, <1>4, <1>5, SenderAssumption
  <2> HIDE DEF p
  <2>3. Queue!Bounded(p)
    BY <1>3, <2>1, <2>2, QueueOperators DEF Queue!Bounded
  <2> QED BY <1>2, <2>1, <2>3 DEF p
<1>8. CASE Queue!HasCapacity(room, x) /\ p = [q EXCEPT !.items = Append(room, x)]
  <2>0. Append(room, x) \in Seq(Sample)
    BY <1>3
  <2>1. p.items = Append(room, x) /\ p \in Waiting
    <3> DEFINE r == Append(room, x)
    <3> HIDE DEF r, p
    <3> QED BY <1>1, <1>8, <2>0 DEF Waiting, r
  <2>2. Len(room) < MaxItems /\ x.bytes <= MaxBytes - Weigh(room, BytesOf)
    BY <1>3, <1>8, QueueOperators DEF Queue!HasCapacity
  <2>3. Weigh(Append(room, x), BytesOf) = Weigh(room, BytesOf) + BytesOf[x]
    BY <1>3, BytesTyped, WeighAppend
  <2>4. BytesOf[x] = x.bytes /\ x.bytes \in Nat
    BY SenderAssumption DEF BytesOf, Sample
  <2>5. Weigh(Append(room, x), BytesOf) <= MaxBytes
    BY <1>4, <2>2, <2>3, <2>4, SenderAssumption
  <2>6. Len(Append(room, x)) <= MaxItems
    BY <1>3, <2>2, SenderAssumption
  <2> HIDE DEF p
  <2>7. Queue!Bounded(p)
    BY <2>0, <2>1, <2>5, <2>6, QueueOperators DEF Queue!Bounded
  <2> QED BY <1>2, <2>1, <2>7 DEF p
<1>9. p = q \/ p = [q EXCEPT !.items = room]
      \/ (Queue!HasCapacity(room, x) /\ p = [q EXCEPT !.items = Append(room, x)])
  BY DEF Queue!Push, room
<1> QED BY <1>6, <1>7, <1>8, <1>9

\* The queue without its head respects the budgets.
LEMMA PopKeepsBudget ==
  ASSUME NEW q \in Waiting, Queue!Bounded(q), q.items # <<>>
  PROVE  /\ Queue!Pop(q) \in Waiting /\ Queue!Bounded(Queue!Pop(q))
         /\ Queue!Pop(q).items = Tail(q.items)
<1>1. q.items \in Seq(Sample) /\ q.closed \in BOOLEAN
  BY DEF Waiting
<1>2. /\ Tail(q.items) \in Seq(Sample) /\ Head(q.items) \in Sample
      /\ Len(q.items) \in Nat /\ Len(Tail(q.items)) = Len(q.items) - 1
  BY <1>1
<1>3. Queue!Pop(q) = [q EXCEPT !.items = Tail(q.items)]
  BY DEF Queue!Pop
<1>4. Queue!Pop(q).items = Tail(q.items) /\ Queue!Pop(q) \in Waiting
  BY <1>1, <1>2, <1>3 DEF Waiting
<1>5. Weigh(q.items, BytesOf)
        = BytesOf[Head(q.items)] + Weigh(Tail(q.items), BytesOf)
  BY <1>1, BytesTyped, WeighTail
<1>6. BytesOf[Head(q.items)] \in Nat /\ Weigh(Tail(q.items), BytesOf) \in Nat
  BY <1>2, BytesTyped, WeighAmong
<1>7. Len(q.items) <= MaxItems /\ Weigh(q.items, BytesOf) <= MaxBytes
  BY <1>1, QueueOperators DEF Queue!Bounded
<1>8. Len(Tail(q.items)) <= MaxItems /\ Weigh(Tail(q.items), BytesOf) <= MaxBytes
  BY <1>2, <1>5, <1>6, <1>7, SenderAssumption
<1>9. Queue!Bounded(Queue!Pop(q))
  BY <1>2, <1>4, <1>8, QueueOperators DEF Queue!Bounded
<1> QED BY <1>4, <1>9
-----------------------------------------------------------------------------
(* The order of the samples. *)

Busy == sender \in {"check", "rpc", "reply", "backoff"}

\* What every variable can hold; a sample is held from Pop to Give.
Types ==
  /\ running \in BOOLEAN
  /\ collector \in {"off", "loop", "collect", "sleep", "exited"}
  /\ nextSeq \in 1..(MaxSamples + 1)
  /\ queue \in Waiting /\ Queue!Bounded(queue)
  /\ sender \in {"off", "pop", "check", "rpc", "reply", "backoff", "exited"}
  /\ IF Busy THEN sending \in Sample ELSE sending = None
  /\ attempt \in 0..MaxRetries
  /\ sender = "backoff" => attempt < MaxRetries
  /\ stopper \in {"new", "started", "join_collector", "join_sender", "stopped"}
  /\ tried \subseteq Sample
  /\ overdue \in Nat

Earlier == {p \in Sample \X Sample : p[1].seq < p[2].seq}

\* The samples are numbered as they come; the queue is in that order, behind
\* the sample being sent, and that one behind every other that was tried.
OrderInv ==
  /\ Ordered(queue.items, Earlier)
  /\ \A x \in Range(queue.items) : x.seq < nextSeq
  /\ Busy => /\ sending.seq < nextSeq
             /\ \A y \in Range(queue.items) : sending.seq < y.seq
  /\ \A x \in tried :
       /\ x.seq < nextSeq
       /\ \A y \in Range(queue.items) : x.seq < y.seq
       /\ Busy => x = sending \/ x.seq < sending.seq

\* A step that changes neither queue nor numbers and sends the same sample.
LEMMA OrderAlike ==
  ASSUME OrderInv, UNCHANGED <<nextSeq, queue, tried>>,
         Busy' => Busy /\ sending' = sending
  PROVE  OrderInv'
BY DEF OrderInv, Busy, Ordered, Range

\* A new sample: what Push leaves of the queue is in order, and all of it is
\* older than the sample.
LEMMA PushOrder ==
  ASSUME Types, OrderInv, PushOnce
  PROVE  Types' /\ OrderInv'
<1>1. PICK size \in Sizes, priority \in BOOLEAN :
        queue' = Queue!Push(queue, [seq |-> nextSeq, bytes |-> size,
                                    priority |-> priority])
  BY DEF PushOnce
<1> DEFINE x == [seq |-> nextSeq, bytes |-> size, priority |-> priority]
<1>2. nextSeq \in 1..MaxSamples /\ nextSeq' = nextSeq + 1 /\ collector' = "sleep"
      /\ UNCHANGED <<running, sender, sending, attempt, tried, overdue, stopper>>
  BY SenderAssumption DEF PushOnce, Types, transmission
<1>3. x \in Sample /\ x.seq = nextSeq
  BY <1>2 DEF Sample
<1> HIDE DEF x
<1>4. queue' = Queue!Push(queue, x)
  BY <1>1 DEF x
<1>5. queue \in Waiting /\ Queue!Bounded(queue)
  BY DEF Types
<1>6. /\ queue' \in Waiting /\ Queue!Bounded(queue')
      /\ \/ queue' = queue
         \/ \E keep : queue'.items \in {Among(queue.items, keep),
                                        Append(Among(queue.items, keep), x)}
  BY <1>3, <1>4, <1>5, PushChooses
<1>7. Types'
  BY <1>2, <1>6, SenderAssumption DEF Types, Busy
<1>8. Ordered(queue.items, Earlier) /\ queue.items \in Seq(Sample)
      /\ \A y \in Range(queue.items) : y.seq < nextSeq
  BY <1>5 DEF OrderInv, Waiting
<1>9. /\ Ordered(queue'.items, Earlier)
      /\ Range(queue'.items) \subseteq Range(queue.items) \cup {x}
  <2>1. ASSUME NEW keep
        PROVE  LET kept == Among(queue.items, keep) IN
               /\ kept \in Seq(Sample) /\ Ordered(kept, Earlier)
               /\ Range(kept) \subseteq Range(queue.items)
               /\ Ordered(Append(kept, x), Earlier)
               /\ Range(Append(kept, x)) \subseteq Range(queue.items) \cup {x}
    <3> DEFINE kept == Among(queue.items, keep)
    <3>1. kept \in Seq(Sample) /\ Ordered(kept, Earlier)
      BY <1>8, AmongType, AmongOrdered
    <3>2. Range(kept) \subseteq Range(queue.items)
      BY <1>8, AmongElements
    <3> HIDE DEF kept
    <3>3. \A y \in Range(kept) : <<y, x>> \in Earlier
      <4> TAKE y \in Range(kept)
      <4>1. y \in Sample
        BY <3>1 DEF Range
      <4>2. y.seq < x.seq
        BY <1>3, <1>8, <3>2
      <4> QED BY <1>3, <4>1, <4>2 DEF Earlier
    <3>4. Ordered(Append(kept, x), Earlier)
      BY <1>3, <3>1, <3>3, AppendOrdered
    <3>5. Range(Append(kept, x)) = Range(kept) \cup {x}
      BY <1>3, <3>1, RangeAppend
    <3> QED BY <3>1, <3>2, <3>4, <3>5 DEF kept
  <2> QED BY <1>6, <1>8, <2>1
<1>10. nextSeq \in Int /\ nextSeq' = nextSeq + 1 /\ x.seq = nextSeq
  BY <1>2, <1>3
<1>11. \A y \in Range(queue.items) \cup tried : y.seq \in Int /\ y.seq < nextSeq
  <2>1. \A y \in Range(queue.items) \cup tried : y \in Sample
    BY <1>8 DEF Types, Range
  <2> QED BY <1>8, <2>1 DEF OrderInv, Sample
<1>12. \A y \in Range(queue'.items) : y.seq < nextSeq'
  BY <1>9, <1>10, <1>11
<1>13. Busy' => /\ Busy /\ sending' = sending /\ sending.seq < nextSeq
                /\ sending.seq \in Int
                /\ \A y \in Range(queue.items) : sending.seq < y.seq
  BY <1>2 DEF Types, OrderInv, Busy, Sample
<1>14. Busy' => /\ sending'.seq < nextSeq'
                /\ \A y \in Range(queue'.items) : sending'.seq < y.seq
  BY <1>9, <1>10, <1>13
<1>15. \A y \in tried : /\ y.seq < nextSeq'
                        /\ \A z \in Range(queue'.items) : y.seq < z.seq
                        /\ Busy' => y = sending' \/ y.seq < sending'.seq
  <2> TAKE y \in tried
  <2>1. \A z \in Range(queue.items) : y.seq < z.seq
    BY DEF OrderInv
  <2>2. Busy' => y = sending' \/ y.seq < sending'.seq
    BY <1>13 DEF OrderInv
  <2>3. y.seq < nextSeq'
    BY <1>10, <1>11
  <2>4. \A z \in Range(queue'.items) : y.seq < z.seq
    BY <1>9, <1>10, <1>11, <2>1
  <2> QED BY <2>2, <2>3, <2>4
<1>16. OrderInv'
  BY <1>2, <1>9, <1>12, <1>14, <1>15 DEF OrderInv
<1> QED BY <1>7, <1>16

\* No sample has been taken.
LEMMA InitTypes == Init => Types /\ OrderInv
<1> SUFFICES ASSUME Init PROVE Types /\ OrderInv
  OBVIOUS
<1> DEFINE empty == [items |-> <<>>, closed |-> TRUE]
<1>1. /\ queue = empty /\ sender = "off" /\ sending = None /\ tried = {}
      /\ nextSeq = 1 /\ attempt = 0 /\ overdue = 0 /\ running = FALSE
      /\ collector = "off" /\ stopper = "new"
  BY DEF Init, Queue!New
<1>2. empty \in Waiting /\ empty.items = <<>> /\ <<>> \in Seq(Sample)
  BY DEF Waiting
<1>3. Weigh(<<>>, BytesOf) = 0
  <2>1. [i \in DOMAIN <<>> |-> BytesOf[<<>>[i]]] = <<>>
    OBVIOUS
  <2> QED BY <2>1, TotalAppend DEF Weigh
<1> HIDE DEF empty
<1>4. Queue!Bounded(queue)
  <2>1. Queue!Bytes(<<>>) = 0
    BY <1>2, <1>3, QueueOperators
  <2>2. Len(<<>>) = 0
    OBVIOUS
  <2> QED BY <1>1, <1>2, <2>1, <2>2, SenderAssumption DEF Queue!Bounded
<1>5. ~Busy
  BY <1>1 DEF Busy
<1>6. Types
  <2>1. 1 \in 1..(MaxSamples + 1) /\ 0 \in 0..MaxRetries
    BY SenderAssumption
  <2> QED BY <1>1, <1>2, <1>4, <1>5, <2>1, Zenon DEF Types
<1>7. OrderInv
  <2>1. queue.items = <<>> /\ Range(<<>>) = {} /\ Ordered(<<>>, Earlier)
    BY <1>1, <1>2 DEF Range, Ordered
  <2> QED BY <1>1, <1>5, <2>1 DEF OrderInv
<1> QED BY <1>6, <1>7

\* The head of the queue is the oldest sample that was not sent (Pop).
LEMMA PopOrder ==
  ASSUME Types, OrderInv, Pop
  PROVE  Types' /\ OrderInv'
<1>1. queue \in Waiting /\ Queue!Bounded(queue) /\ queue.items # <<>>
  BY DEF Types, Pop, Queue!CanPop
<1>2. queue.items \in Seq(Sample)
  BY <1>1 DEF Waiting
<1>3. /\ queue' \in Waiting /\ Queue!Bounded(queue')
      /\ queue'.items = Tail(queue.items)
  BY <1>1, PopKeepsBudget DEF Pop
<1>4. /\ sending' = Head(queue.items) /\ sender' = "check" /\ attempt' = 0
      /\ UNCHANGED <<running, collector, nextSeq, stopper, tried, overdue>>
  BY DEF Pop, collecting
<1>5. /\ Ordered(queue'.items, Earlier)
      /\ Range(queue'.items) \subseteq Range(queue.items)
      /\ sending' \in Range(queue.items)
      /\ \A y \in Range(queue'.items) : <<sending', y>> \in Earlier
  BY <1>1, <1>2, <1>3, <1>4, TailOrdered DEF OrderInv
<1>6. sending' \in Sample
  BY <1>2, <1>5 DEF Range
<1>7. Types'
  BY <1>3, <1>4, <1>6, SenderAssumption DEF Types, Busy
<1>8. OrderInv'
  <2>1. Busy'
    BY <1>4 DEF Busy
  <2>2. sending'.seq < nextSeq' /\ \A y \in Range(queue'.items) : y.seq < nextSeq'
    BY <1>4, <1>5 DEF OrderInv
  <2>3. \A y \in Range(queue'.items) : sending'.seq < y.seq
    BY <1>5 DEF Earlier
  <2>4. \A x \in tried' : /\ x.seq < nextSeq'
                          /\ \A y \in Range(queue'.items) : x.seq < y.seq
                          /\ x.seq < sending'.seq
    BY <1>4, <1>5 DEF OrderInv
  <2> QED BY <1>5, <2>1, <2>2, <2>3, <2>4 DEF OrderInv
<1> QED BY <1>7, <1>8

\* The other steps of the sending thread.
LEMMA SendOrder ==
  ASSUME Types, OrderInv, Sending
  PROVE  Types' /\ OrderInv'
<1> USE DEF collecting
<1>1. CASE Pop
  BY <1>1, PopOrder
<1>2. CASE SendLoopEnds
  <2>1. Types' /\ ~Busy'
    BY <1>2 DEF SendLoopEnds, Types, Busy
  <2> QED BY <1>2, <2>1, OrderAlike DEF SendLoopEnds
<1>3. CASE CheckRunning
  <2>1. Types' /\ (Busy' => Busy /\ sending' = sending)
    BY <1>3, SenderAssumption DEF CheckRunning, Give, Types, Busy
  <2> QED BY <1>3, <2>1, OrderAlike DEF CheckRunning
<1>4. CASE SetMonitorInfo
  <2>1. Busy /\ sending \in Sample
    BY <1>4 DEF SetMonitorInfo, Types, Busy
  <2>2. /\ tried' = tried \cup {sending} /\ sender' = "reply" /\ overdue' \in Nat
        /\ UNCHANGED <<running, collector, nextSeq, queue, sending, attempt, stopper>>
    BY <1>4 DEF SetMonitorInfo, Types
  <2>3. Busy'
    BY <2>2 DEF Busy
  <2>4. Types'
    BY <2>1, <2>2, <2>3 DEF Types
  <2>5. OrderInv'
    <3>1. \A x \in tried' : x \in tried \/ x = sending
      BY <2>2
    <3> QED BY <2>1, <2>2, <2>3, <3>1 DEF OrderInv
  <2> QED BY <2>4, <2>5
<1>5. CASE Finish
  <2>1. Types' /\ ~Busy'
    BY <1>5, SenderAssumption DEF Finish, Give, Types, Busy
  <2> QED BY <1>5, <2>1, OrderAlike DEF Finish
<1>6. CASE Retry
  <2>1. Types' /\ (Busy' => Busy /\ sending' = sending)
    BY <1>6 DEF Retry, Types, Busy
  <2> QED BY <1>6, <2>1, OrderAlike DEF Retry
<1>7. CASE WaitForRetry
  <2>1. Types' /\ (Busy' => Busy /\ sending' = sending)
    BY <1>7, SenderAssumption DEF WaitForRetry, Give, Types, Busy
  <2> QED BY <1>7, <2>1, OrderAlike DEF WaitForRetry
<1> QED BY <1>1, <1>2, <1>3, <1>4, <1>5, <1>6, <1>7 DEF Sending

\* Opening or closing the queue leaves its items alone.
LEMMA GateOrder ==
  ASSUME Types, OrderInv, Inv, Start \/ CloseQueue
  PROVE  Types' /\ OrderInv'
<1>1. queue \in Waiting /\ Queue!Bounded(queue)
  BY DEF Types
<1>2. queue' \in Waiting /\ queue'.items = queue.items
  BY <1>1 DEF Start, CloseQueue, Queue!Open, Queue!Close, Waiting
<1>3. Queue!Bounded(queue')
  BY <1>1, <1>2 DEF Queue!Bounded
<1>4. /\ UNCHANGED <<nextSeq, sending, attempt, tried, overdue>>
      /\ running' \in BOOLEAN
      /\ collector' \in {"off", "loop", "collect", "sleep", "exited"}
      /\ stopper' \in {"started", "join_sender"}
      /\ \/ sender = "off" /\ sender' = "pop"
         \/ sender' = sender
  BY DEF Start, CloseQueue, Types, Inv, collecting, transmission
<1>5. Busy' <=> Busy
  BY <1>4 DEF Busy
<1>6. Types'
  BY <1>2, <1>3, <1>4, <1>5 DEF Types
<1>7. OrderInv'
  BY <1>2, <1>4, <1>5 DEF OrderInv, Ordered, Range
<1> QED BY <1>6, <1>7

\* Every step keeps the types and the order.
LEMMA NextOrder ==
  ASSUME Types, OrderInv, Inv, [Next]_vars
  PROVE  Types' /\ OrderInv'
<1> USE DEF collecting, transmission
<1>1. CASE Start
  BY <1>1, GateOrder
<1>2. CASE PushOnce
  BY <1>2, PushOrder
<1>3. CASE PushLoop \/ CollectFails \/ WaitForNextSample
  <2>1. Types' /\ (Busy' => Busy /\ sending' = sending)
    BY <1>3 DEF PushLoop, CollectFails, WaitForNextSample, Types, Busy
  <2>2. UNCHANGED <<nextSeq, queue, tried>>
    BY <1>3 DEF PushLoop, CollectFails, WaitForNextSample
  <2> QED BY <2>1, <2>2, OrderAlike
<1>4. CASE Sending
  BY <1>4, SendOrder
<1>5. CASE Stop \/ Stopped
  <2>1. Types' /\ (Busy' => Busy /\ sending' = sending)
    BY <1>5 DEF Stop, Stopped, Types, Busy
  <2>2. UNCHANGED <<nextSeq, queue, tried>>
    BY <1>5 DEF Stop, Stopped
  <2> QED BY <2>1, <2>2, OrderAlike
<1>6. CASE CloseQueue
  BY <1>6, GateOrder
<1>7. CASE UNCHANGED vars
  <2>1. Types' /\ (Busy' => Busy /\ sending' = sending)
    BY <1>7 DEF vars, Types, Busy
  <2>2. UNCHANGED <<nextSeq, queue, tried>>
    BY <1>7 DEF vars
  <2> QED BY <2>1, <2>2, OrderAlike
<1> QED BY <1>1, <1>2, <1>3, <1>4, <1>5, <1>6, <1>7
        DEF Next, Collecting, Stopping

\* Whatever the sizes of the samples and the budgets are, the queue respects
\* both budgets after every Push and Pop, and SendWithRetry never counts past
\* the configured number of retries.
THEOREM QueueWithinBudgets == Spec => []TypeOK
<1>1. Types => TypeOK
  BY DEF Types, TypeOK, Waiting
<1> QED BY InitInv, InitTypes, NextInv, NextOrder, <1>1, PTL DEF Spec

\* Samples reach the wire in the order they were taken, for any number of them,
\* any budgets and any number of retries: what the Manager's sequence gate
\* counts on.
THEOREM SamplesSentInOrder == Spec => []SentInOrder
<1>1. ASSUME Types, OrderInv PROVE SentInOrder
  <2> SUFFICES ASSUME NEW x \in tried, NEW y \in Queued \cup ({sending} \ {None})
               PROVE  x.seq <= y.seq /\ (x.seq = y.seq => y = sending)
    BY DEF SentInOrder
  <2>1. x \in Sample /\ x.seq \in Int
    BY <1>1 DEF Types, Sample
  <2>2. CASE y \in Queued
    <3>1. y \in Range(queue.items) /\ y \in Sample
      BY <1>1, <2>2 DEF Queued, Range, Types, Waiting
    <3>2. x.seq < y.seq /\ y.seq \in Int
      BY <1>1, <3>1 DEF OrderInv, Sample
    <3> QED BY <2>1, <3>2
  <2>3. CASE y = sending /\ sending # None
    <3>1. Busy /\ y \in Sample
      BY <1>1, <2>3 DEF Types
    <3>2. x = y \/ x.seq < y.seq
      BY <1>1, <2>3, <3>1 DEF OrderInv
    <3> QED BY <2>1, <2>3, <3>1, <3>2 DEF Sample
  <2> QED BY <2>2, <2>3
<1> QED BY InitInv, InitTypes, NextInv, NextOrder, <1>1, PTL DEF Spec
-----------------------------------------------------------------------------
(* The evidence. *)

\* An item that was refused nothing finds room once all victims are gone; so
\* what MakeRoom leaves has room for any evidence the queue admits.
LEMMA RoomForEvidence ==
  ASSUME NEW q \in Waiting, NEW x \in Sample, x.priority, Queue!Admits(q, x)
  PROVE  \E k \in 0..Len(Queue!Victims(q.items, x)) :
           /\ Queue!MakeRoom(q.items, x) = Queue!Left(q.items, x, k)
           /\ Queue!HasCapacity(Queue!Left(q.items, x, k), x)
<1> DEFINE items == q.items
           victims == Queue!Victims(items, x)
           n == Len(victims)
           enough == {k \in 0..n : Queue!HasCapacity(Queue!Left(items, x, k), x)}
           base == {y \in Range(items) : ~y.priority}
           evidence == {y \in Range(items) : y.priority}
<1>1. items \in Seq(Sample)
  BY DEF Waiting
<1>2. victims = Among(items, base) \o Among(items, evidence)
  BY <1>1, QueueOperators DEF Queue!Victims, Queue!Base, Queue!Evidence
<1>3. /\ Among(items, base) \in Seq(Sample) /\ Range(Among(items, base)) = base
      /\ Among(items, evidence) \in Seq(Sample)
      /\ Range(Among(items, evidence)) = evidence
  <2> HIDE DEF items
  <2>1. Among(items, base) \in Seq(Sample) /\ Among(items, evidence) \in Seq(Sample)
    BY <1>1, AmongType
  <2>2. Range(Among(items, base)) = Range(items) \cap base
    BY <1>1, AmongElements
  <2>3. Range(Among(items, evidence)) = Range(items) \cap evidence
    BY <1>1, AmongElements
  <2> QED BY <2>1, <2>2, <2>3
<1>4. victims \in Seq(Sample) /\ n \in Nat /\ Range(victims) = Range(items)
  <2> HIDE DEF items, evidence, base
  <2>1. victims \in Seq(Sample) /\ n \in Nat
    BY <1>2, <1>3
  <2>2. Range(victims) = Range(Among(items, base)) \cup Range(Among(items, evidence))
    BY <1>2, <1>3, RangeConcatenation
  <2> QED BY <1>3, <2>1, <2>2 DEF base, evidence
<1> HIDE DEF victims, items
<1>5. Queue!Left(items, x, n) = <<>>
  <2>1. SubSeq(victims, 1, n) = victims
    BY <1>4
  <2>2. Queue!ToSet(victims) = Range(items)
    BY <1>4, QueueOperators
  <2>3. Queue!Left(items, x, n) = Among(items, {})
    BY <1>1, <2>1, <2>2, QueueOperators DEF Queue!Left, Queue!Without, victims
  <2>4. Among(items, {}) \in Seq(Sample) /\ Range(Among(items, {})) = {}
    BY <1>1, AmongType, AmongElements
  <2>5. \A s \in Seq(Sample) : Range(s) = {} => s = <<>>
    BY DEF Range
  <2> QED BY <2>3, <2>4, <2>5
<1>6. Queue!HasCapacity(<<>>, x)
  <2>1. <<>> \in Seq(Sample) /\ Len(<<>>) = 0
    OBVIOUS
  <2>2. Queue!Bytes(<<>>) = 0
    BY <2>1, BytesTyped, QueueOperators, WeighAppend
  <2>3. x.bytes <= MaxBytes /\ x.bytes \in Nat
    BY SenderAssumption DEF Queue!Admits, Sample
  <2> QED BY <2>1, <2>2, <2>3, SenderAssumption DEF Queue!HasCapacity
<1>7. n \in enough
  BY <1>4, <1>5, <1>6
<1>8. enough \subseteq Nat
  BY <1>4
<1>9. Queue!Min(enough) \in enough
  <2> HIDE DEF enough
  <2>1. \E k \in enough : \A j \in enough : k <= j
    BY <1>7, <1>8, LeastNat
  <2> QED BY <2>1 DEF Queue!Min
<1>10. Queue!MakeRoom(items, x) = Queue!Left(items, x, Queue!Min(enough))
  BY <1>7 DEF Queue!MakeRoom, victims
<1> DEFINE k == Queue!Min(enough)
<1>11. k \in 0..Len(victims) /\ Queue!HasCapacity(Queue!Left(items, x, k), x)
  BY <1>9
<1> HIDE DEF k
<1> QED BY <1>10, <1>11 DEF k, items, victims

\* Evidence that Push drops was dropped for newer evidence, and after the last
\* base metric (Victims lists the base metrics first).
LEMMA PushKeepsEvidence ==
  ASSUME NEW q \in Waiting, NEW x \in Sample, NEW z \in Range(q.items), z.priority,
         z \notin Range(Queue!Push(q, x).items)
  PROVE  /\ x.priority /\ x \in Range(Queue!Push(q, x).items)
         /\ \A y \in Range(Queue!Push(q, x).items) : y.priority
<1> DEFINE items == q.items
           victims == Queue!Victims(items, x)
           room == Queue!MakeRoom(items, x)
           base == {y \in Range(items) : ~y.priority}
           first == Among(items, base)
           evidence == {y \in Range(items) : y.priority}
           second == IF x.priority THEN Among(items, evidence) ELSE <<>>
           dropped(k) == Range(SubSeq(victims, 1, k))
<1>1. items \in Seq(Sample)
  BY DEF Waiting
<1>2. victims = first \o second
  BY <1>1, QueueOperators DEF Queue!Victims, Queue!Base, Queue!Evidence
<1>3. first \in Seq(Sample) /\ second \in Seq(Sample) /\ Range(first) = base
  <2> HIDE DEF items
  <2>1. first \in Seq(Sample) /\ second \in Seq(Sample)
    BY <1>1, AmongType
  <2>2. Range(first) = Range(items) \cap base
    BY <1>1, AmongElements
  <2> QED BY <2>1, <2>2
<1>4. victims \in Seq(Sample) /\ Len(victims) = Len(first) + Len(second)
  <2> HIDE DEF first, second
  <2> QED BY <1>2, <1>3
<1>5. Queue!Admits(q, x)
  BY DEF Queue!Push
<1>6. PICK k \in 0..Len(victims) : room = Queue!Left(items, x, k)
  <2>1. \A e \in SUBSET (0..Len(victims)) : e # {} => Queue!Min(e) \in 0..Len(victims)
    <3> HIDE DEF victims
    <3> TAKE e \in SUBSET (0..Len(victims))
    <3> HAVE e # {}
    <3>1. e \subseteq Nat
      OBVIOUS
    <3>2. \E m \in e : \A j \in e : m <= j
      BY <3>1, LeastNat
    <3> QED BY <3>2 DEF Queue!Min
  <2>2. Len(victims) \in 0..Len(victims)
    <3> HIDE DEF victims
    <3>1. \A s \in Seq(Sample) : Len(s) \in 0..Len(s)
      OBVIOUS
    <3> QED BY <1>4, <3>1
  <2> QED BY <2>1, <2>2 DEF Queue!MakeRoom
<1> HIDE DEF victims, first, second, items
<1>7. \A j \in 0..Len(victims) :
        Queue!Left(items, x, j) = Among(items, Range(items) \ dropped(j))
  <2> TAKE j \in 0..Len(victims)
  <2>1. SubSeq(victims, 1, j) \in Seq(Sample)
    BY <1>4
  <2>2. Queue!ToSet(SubSeq(victims, 1, j)) = dropped(j)
    BY <2>1, QueueOperators
  <2> HIDE DEF dropped
  <2> QED BY <1>1, <2>2, QueueOperators
          DEF Queue!Left, Queue!Without, victims
<1>8. room \in Seq(Sample) /\ Range(room) = Range(items) \ dropped(k)
  <2>1. room = Among(items, Range(items) \ dropped(k))
    BY <1>6, <1>7
  <2> HIDE DEF room, dropped
  <2> QED BY <1>1, <2>1, AmongType, AmongElements
<1> HIDE DEF room
<1>9. Append(room, x) \in Seq(Sample)
      /\ Range(Append(room, x)) = Range(room) \cup {x}
  BY <1>8, RangeAppend
<1>10. Range(Queue!Push(q, x).items) \in {Range(room), Range(room) \cup {x}}
  BY <1>5, <1>9 DEF Queue!Push, room, items, Waiting
<1>11. z \in dropped(k)
  BY <1>8, <1>10 DEF items
<1>12. PICK i \in 1..k : z = victims[i]
  <2>1. /\ DOMAIN SubSeq(victims, 1, k) = 1..k
        /\ \A i \in 1..k : SubSeq(victims, 1, k)[i] = victims[i]
    BY <1>4
  <2> QED BY <1>11, <2>1 DEF Range
<1>13. ~(i \in 1..Len(first))
  <2> SUFFICES ASSUME i \in 1..Len(first) PROVE FALSE
    OBVIOUS
  <2>1. victims[i] = first[i]
    BY <1>2, <1>3
  <2>2. first[i] \in Range(first)
    BY <1>3 DEF Range
  <2> QED BY <1>3, <1>12, <2>1, <2>2
<1>14. k \in Nat /\ Len(first) \in Nat /\ Len(first) < i /\ i <= k
       /\ k <= Len(victims)
  BY <1>3, <1>4, <1>13
<1>15. x.priority
  <2> SUFFICES ASSUME ~x.priority PROVE FALSE
    OBVIOUS
  <2>1. Len(second) = 0
    BY DEF second
  <2> QED BY <1>4, <1>14, <2>1
<1>16. base \subseteq dropped(k)
  <2> SUFFICES ASSUME NEW y \in base PROVE y \in dropped(k)
    OBVIOUS
  <2>1. PICK j \in 1..Len(first) : y = first[j]
    BY <1>3 DEF Range
  <2>2. victims[j] = y /\ j \in 1..k
    BY <1>2, <1>3, <1>14, <2>1
  <2>3. SubSeq(victims, 1, k)[j] = y /\ j \in DOMAIN SubSeq(victims, 1, k)
    BY <1>4, <1>14, <2>2
  <2> QED BY <2>3 DEF Range
<1>17. \A y \in Range(room) : y.priority
  BY <1>8, <1>16
<1>18. Queue!HasCapacity(room, x)
  BY <1>5, <1>15, RoomForEvidence DEF room, items
<1>19. Range(Queue!Push(q, x).items) = Range(room) \cup {x}
  BY <1>5, <1>9, <1>18 DEF Queue!Push, room, items, Waiting
<1> QED BY <1>15, <1>17, <1>19

\* Evidence leaves the queue unsent only in a Push, only for newer evidence, and
\* only when no base metric is left - for any budgets and any sizes.
THEOREM EvidenceGivesWayLast == Spec => EvidenceKept
<1> DEFINE Kept == \A x \in Queued :
              x.priority /\ x \notin Queued' /\ sending' # x
                => /\ \A y \in Queued' : y.priority
                   /\ \E y \in Queued' \ Queued : y.priority
<1>1. ASSUME Types, OrderInv, [Next]_vars PROVE [Kept]_vars
  <2> SUFFICES ASSUME NEW x \in Queued,
                      x.priority, x \notin Queued', sending' # x
               PROVE  /\ \A y \in Queued' : y.priority
                      /\ \E y \in Queued' \ Queued : y.priority
    OBVIOUS
  <2>1. /\ queue \in Waiting /\ queue.items \in Seq(Sample)
        /\ Queued = Range(queue.items) /\ Queued' = Range(queue'.items)
    BY <1>1 DEF Types, Waiting, Queued, Range
  <2>2. queue'.items # queue.items
    BY <2>1
  <2>3. PushOnce \/ Pop
    BY <1>1, <2>1, <2>2
       DEF Next, vars, Start, Collecting, PushLoop, CollectFails,
           WaitForNextSample, Sending, SendLoopEnds, CheckRunning,
           SetMonitorInfo, Finish, Retry, WaitForRetry, Stop, Stopping,
           CloseQueue, Stopped, Waiting, Queue!Open, Queue!Close
  <2>4. CASE Pop
    <3>1. queue'.items = Tail(queue.items) /\ queue.items # <<>>
          /\ sending' = Head(queue.items)
      BY <1>1, <2>1, <2>4, PopKeepsBudget
         DEF Pop, Queue!CanPop, Types
    <3>2. Range(queue.items) \subseteq Range(Tail(queue.items)) \cup {Head(queue.items)}
      BY <1>1, <2>1, <3>1, TailOrdered DEF OrderInv
    <3> QED BY <2>1, <3>1, <3>2
  <2>5. CASE PushOnce
    <3>1. PICK size \in Sizes, priority \in BOOLEAN :
            queue' = Queue!Push(queue, [seq |-> nextSeq, bytes |-> size,
                                        priority |-> priority])
      BY <2>5 DEF PushOnce
    <3> DEFINE new == [seq |-> nextSeq, bytes |-> size, priority |-> priority]
    <3>2. new \in Sample /\ new.seq = nextSeq
      BY <1>1, <2>5, SenderAssumption DEF PushOnce, Types, Sample
    <3> HIDE DEF new
    <3>3. queue' = Queue!Push(queue, new)
      BY <3>1 DEF new
    <3>4. /\ new.priority /\ new \in Range(queue'.items)
          /\ \A y \in Range(queue'.items) : y.priority
      BY <2>1, <3>2, <3>3, PushKeepsEvidence
    <3>5. new \notin Range(queue.items)
      <4>1. \A y \in Range(queue.items) : y.seq < nextSeq
        BY <1>1 DEF OrderInv
      <4>2. nextSeq \in Int
        BY <1>1 DEF Types
      <4> QED BY <3>2, <4>1, <4>2
    <3> QED BY <2>1, <3>4, <3>5
  <2> QED BY <2>3, <2>4, <2>5
<1>2. Spec => [][Kept]_vars
  <2> HIDE DEF Kept
  <2> QED BY InitInv, InitTypes, NextInv, NextOrder, <1>1, PTL DEF Spec
<1> QED BY <1>2 DEF EvidenceKept
=============================================================================
