------------------------- MODULE ShardPipelineProofs -------------------------
(***************************************************************************)
(* Proofs about ShardPipeline for any requests, hosts, shards, weights and *)
(* budgets.                                                                *)
(*                                                                         *)
(* The inductive invariant says where an accepted request is: in the queue *)
(* of its shard or held by its thread, with its promise open, or processed *)
(* with its promise completed (LineInv, PlaceInv); where a produced task   *)
(* is (TaskInv); and in which order Stop takes the threads down            *)
(* (ClosingInv).  That the queues stay within their budgets is an          *)
(* invariant of its own (BudgetInv), and so is the order in which requests *)
(* are processed, which the refinement of OrderedIntake rests on.          *)
(***************************************************************************)
EXTENDS ShardPipeline, QueueItemsProofs

Line == [items : Seq(Requests), closed : BOOLEAN]

Types ==
  /\ rpc \in [Requests -> {"idle", "pushing", "failed", "waiting", "done"}]
  /\ verdict \in [Requests -> Codes]
  /\ promise \in [Requests -> Nat]
  /\ accepting \in BOOLEAN
  /\ queue \in [Shards -> Line]
  /\ stage \in [Shards -> {"pop", "enqueue", "complete", "exited"}]
  /\ item \in [Shards -> Requests \cup {None}]
  /\ processed \in [Shards -> Seq(Requests)]
  /\ pqueue \in Line
  /\ ptask \in Requests \cup {None}
  /\ pstage \in {"run", "exited"}
  /\ produced \subseteq Requests
  /\ stopper \in {"running", "closing", "joining", "stopped"}

\* A handler that has not answered has touched neither promise nor queue.
HandlerInv ==
  \A r \in Requests :
    /\ rpc[r] \in {"idle", "pushing", "failed"} <=> verdict[r] = "none"
    /\ verdict[r] = "none" => promise[r] = 0
    /\ verdict[r] \in {"queue_full", "stopping"} => promise[r] = 1

\* r is in the hands of shard s and its promise is open.
Open(s, r) == ShardFor(r) = s /\ verdict[r] = "accepted" /\ promise[r] = 0

\* The same after a step.
OpenThen(s, r) == ShardFor(r) = s /\ verdict'[r] = "accepted" /\ promise'[r] = 0

\* A shard holds open requests only, and none of them twice.
LineInv ==
  \A s \in Shards :
    /\ \A i \in DOMAIN queue[s].items :
         Open(s, queue[s].items[i]) /\ item[s] # queue[s].items[i]
    /\ \A i, j \in DOMAIN queue[s].items :
         queue[s].items[i] = queue[s].items[j] => i = j
    /\ item[s] # None => Open(s, item[s])
    /\ item[s] # None <=> stage[s] \in {"enqueue", "complete"}

InLine(r) ==
  \E i \in DOMAIN queue[ShardFor(r)].items : queue[ShardFor(r)].items[i] = r

Processed(r) ==
  \E i \in DOMAIN processed[ShardFor(r)] : processed[ShardFor(r)][i] = r

PlaceInv ==
  \A r \in Requests : verdict[r] = "accepted" =>
    \/ promise[r] = 0 /\ (InLine(r) \/ item[ShardFor(r)] = r)
    \/ promise[r] = 1 /\ Processed(r)

\* Stop goes from the handlers to the shards and from there to MySQL.
ClosingInv ==
  /\ accepting <=> stopper = "running"
  /\ \A s \in Shards : queue[s].closed => ~accepting
  /\ \A s \in Shards : stage[s] = "exited" =>
       queue[s].closed /\ queue[s].items = <<>>
  /\ stopper \in {"joining", "stopped"} => \A s \in Shards : stage[s] = "exited"
  /\ pqueue.closed <=> stopper \in {"joining", "stopped"}
  /\ pstage = "exited" => pqueue.closed /\ pqueue.items = <<>> /\ ptask = None
  /\ stopper = "stopped" => pstage = "exited"

TaskInv ==
  \A r \in produced :
    \/ r \in persisted
    \/ ptask = r
    \/ \E i \in DOMAIN pqueue.items : pqueue.items[i] = r
    \/ ~PersistQueue!Fits(r)

Inv == /\ Types
       /\ HandlerInv /\ LineInv /\ PlaceInv
       /\ ClosingInv /\ TaskInv

-----------------------------------------------------------------------------
\* What joins a queue becomes its last element (BoundedQueue::TryPush, Push).
LEMMA Pushed ==
  ASSUME NEW q \in Line, NEW x \in Requests
  PROVE  LET p == [q EXCEPT !.items = Append(@, x)] IN
         /\ p \in Line /\ p.closed = q.closed
         /\ DOMAIN p.items = 1..(Len(q.items) + 1)
         /\ DOMAIN q.items = 1..Len(q.items)
         /\ \A i \in DOMAIN q.items : p.items[i] = q.items[i]
         /\ p.items[Len(q.items) + 1] = x
<1> DEFINE p == [q EXCEPT !.items = Append(@, x)]
<1>1. p.items = Append(q.items, x) /\ p.closed = q.closed
  BY DEF Line
<1>2. Append(q.items, x) \in Seq(Requests)
  BY DEF Line
<1>3. p \in Line
  BY <1>1, <1>2 DEF Line
<1> QED BY <1>1, <1>2, <1>3 DEF Line

\* What leaves a queue is its first element (BoundedQueue::Pop).
LEMMA Popped ==
  ASSUME NEW q \in Line, q.items # <<>>
  PROVE  LET p == [q EXCEPT !.items = Tail(@)] IN
         /\ p \in Line /\ p.closed = q.closed
         /\ 1 \in DOMAIN q.items /\ Head(q.items) = q.items[1]
         /\ Head(q.items) \in Requests
         /\ \A i \in DOMAIN p.items :
              i + 1 \in DOMAIN q.items /\ p.items[i] = q.items[i + 1]
         /\ \A i \in DOMAIN q.items :
              i # 1 => i - 1 \in DOMAIN p.items /\ p.items[i - 1] = q.items[i]
         /\ \A i \in DOMAIN p.items : i \in Int
         /\ \A i \in DOMAIN q.items : i \in Int
<1> DEFINE p == [q EXCEPT !.items = Tail(@)]
<1>1. p.items = Tail(q.items) /\ p.closed = q.closed
  BY DEF Line
<1>2. Tail(q.items) \in Seq(Requests) /\ Len(q.items) >= 1 /\ q.items \in Seq(Requests)
  BY DEF Line
<1>3. p \in Line
  BY <1>1, <1>2 DEF Line
<1>4. /\ Len(p.items) = Len(q.items) - 1
      /\ \A i \in 1..(Len(q.items) - 1) : p.items[i] = q.items[i + 1]
  BY <1>1, <1>2
<1>5. DOMAIN p.items = 1..(Len(q.items) - 1) /\ DOMAIN q.items = 1..Len(q.items)
  BY <1>1, <1>2, <1>4
<1>6. Head(q.items) = q.items[1] /\ Head(q.items) \in Requests
  BY <1>2
<1> QED BY <1>1, <1>2, <1>3, <1>4, <1>5, <1>6

\* Each host has a shard.
LEMMA ShardTyped == \A r \in Requests : ShardFor(r) \in Shards
BY PipelineAssumption DEF ShardFor

\* Nothing has been asked for yet.
LEMMA InitInv == Init => Inv
<1> SUFFICES ASSUME Init PROVE Inv
  OBVIOUS
<1> USE DEF Init, ShardQueue!New, PersistQueue!New
<1>1. Types
  BY DEF Types, Line, Codes
<1>2. HandlerInv /\ LineInv /\ PlaceInv
  BY DEF HandlerInv, LineInv, PlaceInv
<1>3. ClosingInv /\ TaskInv
  BY DEF ClosingInv, TaskInv
<1> QED BY <1>1, <1>2, <1>3 DEF Inv

-----------------------------------------------------------------------------
(* The handlers. *)

\* A refused request was in no queue, and is in none (SubmitImpl).
LEMMA ReturnKeeps ==
  ASSUME Inv, NEW r \in Requests, NEW code \in {"queue_full", "stopping"},
         rpc[r] \in {"idle", "failed"},
         Return(r, code), SetPromise(r),
         UNCHANGED <<accepting, queue, shards, persistence, stopper>>
  PROVE  Inv'
<1> USE DEF Inv, Return, SetPromise
<1>1. Types'
  BY DEF Types, Codes, shards, persistence
<1>2. verdict[r] = "none" /\ promise[r] = 0
  BY DEF HandlerInv
<1>3. HandlerInv'
  BY <1>2 DEF HandlerInv, Types
<1>4. \A x \in Requests : verdict[x] = "accepted" =>
        x # r /\ verdict'[x] = verdict[x] /\ promise'[x] = promise[x]
  BY <1>2 DEF Types
<1>5. LineInv'
  <2>1. \A s \in Shards : \A i \in DOMAIN queue[s].items : queue[s].items[i] \in Requests
    BY DEF Types, Line
  <2>2. \A s \in Shards : item[s] # None => item[s] \in Requests
    BY DEF Types
  <2> QED BY <1>4, <2>1, <2>2 DEF LineInv, Open, shards
<1>6. PlaceInv'
  <2>1. UNCHANGED <<queue, item, processed>>
    BY DEF shards
  <2>2. \A x \in Requests : verdict'[x] = "accepted" =>
          verdict[x] = "accepted" /\ promise'[x] = promise[x]
    BY <1>2 DEF Types
  <2> QED BY <2>1, <2>2 DEF PlaceInv, InLine, Processed
<1>7. ClosingInv' /\ TaskInv'
  BY DEF ClosingInv, TaskInv, shards, persistence
<1> QED BY <1>1, <1>3, <1>5, <1>6, <1>7

\* SubmitImpl up to its first look at accepting_.
LEMMA AdmitKeeps == ASSUME Inv, NEW r \in Requests, Admit(r) PROVE Inv'
<1>1. CASE accepting
  <2> USE <1>1 DEF Inv, Admit
  <2>1. Types' /\ HandlerInv'
    BY DEF Types, HandlerInv, shards, persistence
  <2>2. LineInv' /\ PlaceInv'
    BY DEF LineInv, Open, PlaceInv, InLine, Processed, shards
  <2>3. ClosingInv' /\ TaskInv'
    BY DEF ClosingInv, TaskInv, shards, persistence
  <2> QED BY <2>1, <2>2, <2>3
<1>2. CASE ~accepting
  BY <1>2, ReturnKeeps DEF Admit
<1> QED BY <1>1, <1>2

\* An accepted request is the last of its shard's queue, and was nowhere before.
LEMMA TryPushKeeps == ASSUME Inv, NEW r \in Requests, TryPush(r) PROVE Inv'
<1> DEFINE s == ShardFor(r)
<1> USE DEF Inv
<1>0. s \in Shards
  BY ShardTyped
<1>1. CASE ShardQueue!CanPush(queue[s], r)
  <2> DEFINE q == queue[s]
             p == [q EXCEPT !.items = Append(@, r)]
             n == Len(q.items) + 1
  <2>1. /\ queue' = [queue EXCEPT ![s] = p]
        /\ rpc' = [rpc EXCEPT ![r] = "waiting"]
        /\ verdict' = [verdict EXCEPT ![r] = "accepted"]
        /\ rpc[r] = "pushing"
        /\ UNCHANGED <<promise, accepting, shards, persistence, stopper>>
    BY <1>1 DEF TryPush, ShardQueue!Push
  <2>2. q \in Line /\ ~q.closed
    BY <1>0, <1>1 DEF Types, ShardQueue!CanPush
  <2>3. /\ p \in Line /\ p.closed = q.closed
        /\ DOMAIN p.items = 1..n /\ DOMAIN q.items = 1..Len(q.items)
        /\ \A i \in DOMAIN q.items : p.items[i] = q.items[i]
        /\ p.items[n] = r
    BY <2>2, Pushed
  <2>n. n \in Nat /\ n = Len(q.items) + 1 /\ Len(q.items) \in Nat
    BY <2>2 DEF Line
  <2> HIDE DEF p, q, n
  <2>4. verdict[r] = "none" /\ promise[r] = 0
    BY <2>1 DEF HandlerInv
  <2>5. /\ queue' \in [Shards -> Line] /\ queue'[s] = p
        /\ \A t \in Shards : t # s => queue'[t] = queue[t]
    BY <1>0, <2>1, <2>3 DEF Types
  <2>6. Types'
    BY <2>1, <2>5 DEF Types, Codes, shards, persistence
  <2>7. HandlerInv'
    BY <2>1, <2>4 DEF HandlerInv, Types
  <2>8. /\ verdict'[r] = "accepted" /\ promise'[r] = 0
        /\ \A x \in Requests : x # r => verdict'[x] = verdict[x] /\ promise'[x] = promise[x]
    BY <2>1, <2>4 DEF Types
  <2>9. \A t \in Shards : /\ \A i \in DOMAIN queue[t].items : queue[t].items[i] # r
                          /\ item[t] # r
    <3>1. None # r
      BY PipelineAssumption
    <3> QED BY <2>4, <3>1 DEF LineInv, Open
  <2>10. \A t \in Shards : \A x \in Requests : Open(t, x) => OpenThen(t, x)
    BY <2>4, <2>8 DEF Open, OpenThen
  <2>11. LineInv'
    <3>1. ASSUME NEW i \in DOMAIN p.items
          PROVE  OpenThen(s, p.items[i]) /\ item'[s] # p.items[i]
      <4>1. CASE i = n
        BY <1>0, <2>1, <2>3, <2>8, <2>9, <4>1 DEF OpenThen, shards
      <4>2. CASE i # n
        <5>1. i \in DOMAIN q.items /\ p.items[i] = q.items[i]
          BY <2>3, <2>n, <4>2
        <5>2. q.items[i] \in Requests /\ Open(s, q.items[i]) /\ item[s] # q.items[i]
          BY <1>0, <5>1 DEF LineInv, Types, Line, q
        <5> QED BY <1>0, <2>1, <2>10, <5>1, <5>2 DEF shards
      <4> QED BY <4>1, <4>2
    <3>2. ASSUME NEW i \in DOMAIN p.items, NEW j \in DOMAIN p.items,
                 p.items[i] = p.items[j]
          PROVE  i = j
      <4>1. \A k \in DOMAIN p.items : k # n => k \in DOMAIN q.items
        BY <2>3, <2>n
      <4>2. \A k \in DOMAIN q.items : q.items[k] # r
        BY <1>0, <2>9 DEF q
      <4>3. \A k, l \in DOMAIN q.items : q.items[k] = q.items[l] => k = l
        BY <1>0 DEF LineInv, q
      <4> QED BY <2>3, <3>2, <4>1, <4>2, <4>3
    <3>3. ASSUME NEW t \in Shards, t # s, NEW i \in DOMAIN queue[t].items
          PROVE  OpenThen(t, queue[t].items[i])
      <4>1. queue[t].items[i] \in Requests /\ Open(t, queue[t].items[i])
        BY DEF LineInv, Types, Line
      <4>2. queue'[t] = queue[t]
        BY <2>5, <3>3
      <4> QED BY <2>10, <4>1, <4>2
    <3>4. ASSUME NEW t \in Shards, item[t] # None PROVE OpenThen(t, item[t])
      <4>1. item[t] \in Requests /\ Open(t, item[t]) /\ item'[t] = item[t]
        BY <2>1, <3>4 DEF LineInv, Types, shards
      <4> QED BY <2>10, <4>1
    <3>5. item' = item /\ stage' = stage
      BY <2>1 DEF shards
    <3>6. ASSUME NEW t \in Shards
          PROVE  /\ \A i \in DOMAIN queue'[t].items :
                      OpenThen(t, queue'[t].items[i]) /\ item'[t] # queue'[t].items[i]
                 /\ \A i, j \in DOMAIN queue'[t].items :
                      queue'[t].items[i] = queue'[t].items[j] => i = j
      <4>1. CASE t = s
        BY <2>5, <3>1, <3>2, <4>1
      <4>2. CASE t # s
        <5>1. queue'[t] = queue[t] /\ item'[t] = item[t]
          BY <2>5, <3>5, <4>2
        <5> QED BY <3>3, <4>2, <5>1 DEF LineInv
      <4> QED BY <4>1, <4>2
    <3> QED BY <3>4, <3>5, <3>6 DEF LineInv, Open, OpenThen
  <2>12. PlaceInv'
    <3>1. InLine(r)'
      BY <2>3, <2>5, <2>n DEF InLine
    <3>2. ASSUME NEW x \in Requests, InLine(x) PROVE InLine(x)'
      <4>1. CASE ShardFor(x) = s
        <5>1. PICK i \in DOMAIN q.items : q.items[i] = x
          BY <3>2, <4>1 DEF InLine, q
        <5>2. i \in DOMAIN p.items /\ p.items[i] = x
          BY <2>3, <2>n, <5>1
        <5> QED BY <2>5, <4>1, <5>2 DEF InLine
      <4>2. CASE ShardFor(x) # s
        BY <2>5, <3>2, <4>2, ShardTyped DEF InLine
      <4> QED BY <4>1, <4>2
    <3>3. \A x \in Requests : Processed(x) => Processed(x)'
      BY <2>1 DEF Processed, shards
    <3> QED BY <2>1, <2>8, <3>1, <3>2, <3>3 DEF PlaceInv, shards
  <2>13. ClosingInv'
    <3>1. stage[s] # "exited"
      BY <1>0, <2>2 DEF ClosingInv, q
    <3>2. \A t \in Shards : queue'[t].closed = queue[t].closed
      BY <2>3, <2>5 DEF q
    <3> QED BY <2>1, <2>5, <3>1, <3>2 DEF ClosingInv, shards, persistence
  <2>14. TaskInv'
    BY <2>1 DEF TaskInv, persistence
  <2> QED BY <2>6, <2>7, <2>11, <2>12, <2>13, <2>14
<1>2. CASE ~ShardQueue!CanPush(queue[s], r)
  <2> USE <1>2 DEF TryPush
  <2>1. Types' /\ HandlerInv'
    BY DEF Types, HandlerInv, shards, persistence
  <2>2. LineInv' /\ PlaceInv'
    BY DEF LineInv, Open, PlaceInv, InLine, Processed, shards
  <2>3. ClosingInv' /\ TaskInv'
    BY DEF ClosingInv, TaskInv, shards, persistence
  <2> QED BY <2>1, <2>2, <2>3
<1> QED BY <1>1, <1>2

\* The handler returns kAccepted with or without the result.
LEMMA AnswerKeeps == ASSUME Inv, NEW r \in Requests, Answer(r) PROVE Inv'
<1> USE DEF Inv, Answer
<1>1. Types' /\ HandlerInv'
  BY DEF Types, HandlerInv, shards, persistence
<1>2. LineInv' /\ PlaceInv'
  BY DEF LineInv, Open, PlaceInv, InLine, Processed, shards
<1>3. ClosingInv' /\ TaskInv'
  BY DEF ClosingInv, TaskInv, shards, persistence
<1> QED BY <1>1, <1>2, <1>3

-----------------------------------------------------------------------------
(* The shard threads. *)

\* The head of the queue passes into the thread's hands.
LEMMA TakeKeeps == ASSUME Inv, NEW s \in Shards, Take(s) PROVE Inv'
<1> DEFINE q == queue[s]
           p == [q EXCEPT !.items = Tail(@)]
           x == Head(q.items)
<1> USE DEF Inv
<1>1. /\ queue' = [queue EXCEPT ![s] = p]
      /\ item' = [item EXCEPT ![s] = x]
      /\ stage[s] = "pop" /\ q.items # <<>>
      /\ \E next \in {"enqueue", "complete"} : stage' = [stage EXCEPT ![s] = next]
      /\ UNCHANGED <<handlers, promise, accepting, processed, persistence, stopper>>
  BY DEF Take, ShardQueue!Pop, ShardQueue!CanPop
<1>2. q \in Line
  BY DEF Types
<1>3. /\ p \in Line /\ p.closed = q.closed
      /\ 1 \in DOMAIN q.items /\ x = q.items[1] /\ x \in Requests
      /\ \A i \in DOMAIN p.items :
           i + 1 \in DOMAIN q.items /\ p.items[i] = q.items[i + 1]
      /\ \A i \in DOMAIN q.items :
           i # 1 => i - 1 \in DOMAIN p.items /\ p.items[i - 1] = q.items[i]
      /\ \A i \in DOMAIN p.items : i \in Int
      /\ \A i \in DOMAIN q.items : i \in Int
  BY <1>1, <1>2, Popped
<1>4. /\ \A i \in DOMAIN q.items : Open(s, q.items[i]) /\ item[s] # q.items[i]
      /\ \A i, j \in DOMAIN q.items : q.items[i] = q.items[j] => i = j
  BY DEF LineInv
<1> HIDE DEF p, x
<1>5. /\ queue' \in [Shards -> Line] /\ queue'[s] = p
      /\ \A t \in Shards : t # s => queue'[t] = queue[t]
      /\ item'[s] = x /\ \A t \in Shards : t # s => item'[t] = item[t]
      /\ stage'[s] \in {"enqueue", "complete"}
      /\ \A t \in Shards : t # s => stage'[t] = stage[t]
  BY <1>1, <1>3 DEF Types
<1> HIDE DEF q
<1>6. Types'
  BY <1>1, <1>3, <1>5 DEF Types, handlers, persistence
<1>7. HandlerInv'
  BY <1>1 DEF HandlerInv, handlers
<1>8. LineInv'
  <2>1. UNCHANGED <<verdict, promise>>
    BY <1>1 DEF handlers
  <2>2. \A i \in DOMAIN p.items : Open(s, p.items[i]) /\ x # p.items[i]
    <3> SUFFICES ASSUME NEW i \in DOMAIN p.items
                 PROVE  Open(s, p.items[i]) /\ x # p.items[i]
      OBVIOUS
    <3>1. i \in Int /\ i + 1 \in DOMAIN q.items /\ p.items[i] = q.items[i + 1]
      BY <1>3
    <3>2. i # 0
      BY <1>3 DEF Line
    <3> QED BY <1>3, <1>4, <3>1, <3>2
  <2>3. \A i, j \in DOMAIN p.items : p.items[i] = p.items[j] => i = j
    <3> SUFFICES ASSUME NEW i \in DOMAIN p.items, NEW j \in DOMAIN p.items,
                        p.items[i] = p.items[j]
                 PROVE  i = j
      OBVIOUS
    <3>1. i + 1 = j + 1
      BY <1>3, <1>4
    <3> QED BY <1>3, <3>1
  <2>4. Open(s, x) /\ x # None
    BY <1>3, <1>4, PipelineAssumption
  <2>5. \A t \in Shards : t # s =>
          UNCHANGED <<queue[t], item[t], stage[t]>>
    BY <1>5
  <2> QED BY <1>5, <2>1, <2>2, <2>3, <2>4, <2>5 DEF LineInv, Open
<1>9. PlaceInv'
  <2>1. ASSUME NEW r \in Requests, InLine(r) \/ item[ShardFor(r)] = r
        PROVE  (InLine(r) \/ item[ShardFor(r)] = r)'
    <3>1. CASE ShardFor(r) # s
      BY <1>5, <2>1, <3>1, ShardTyped DEF InLine
    <3>2. CASE ShardFor(r) = s
      <4>1. item[s] = None
        BY <1>1 DEF LineInv
      <4>2. PICK i \in DOMAIN q.items : q.items[i] = r
        BY <2>1, <3>2, <4>1, PipelineAssumption DEF InLine, q
      <4>3. CASE i = 1
        BY <1>3, <1>5, <3>2, <4>2, <4>3
      <4>4. CASE i # 1
        <5>1. i - 1 \in DOMAIN p.items /\ p.items[i - 1] = r
          BY <1>3, <4>2, <4>4
        <5> QED BY <1>5, <3>2, <5>1 DEF InLine
      <4> QED BY <4>3, <4>4
    <3> QED BY <3>1, <3>2
  <2>2. UNCHANGED <<verdict, promise, processed>>
    BY <1>1 DEF handlers
  <2> QED BY <2>1, <2>2 DEF PlaceInv, Processed
<1>10. ClosingInv'
  <2>1. \A t \in Shards : queue'[t].closed = queue[t].closed
    BY <1>3, <1>5 DEF q
  <2>2. stage[s] # "exited" /\ stopper \notin {"joining", "stopped"}
    BY <1>1 DEF ClosingInv
  <2>3. \A t \in Shards : stage'[t] = "exited" =>
          stage[t] = "exited" /\ queue'[t] = queue[t]
    BY <1>5
  <2> QED BY <1>1, <2>1, <2>2, <2>3 DEF ClosingInv, persistence
<1>11. TaskInv'
  BY <1>1 DEF TaskInv, persistence
<1> QED BY <1>6, <1>7, <1>8, <1>9, <1>10, <1>11

\* While a shard is at work the persistence queue is open, so that Push comes
\* back with the task in it unless the task is too heavy (ProcessOne).
LEMMA EnqueueKeeps == ASSUME Inv, NEW s \in Shards, Enqueue(s) PROVE Inv'
<1> DEFINE x == item[s]
<1> USE DEF Inv
<1>1. /\ stage[s] = "enqueue" /\ ~PersistQueue!MustWait(pqueue, x)
      /\ pqueue' = IF PersistQueue!CanPush(pqueue, x)
                     THEN [pqueue EXCEPT !.items = Append(@, x)] ELSE pqueue
      /\ produced' = produced \cup {x}
      /\ stage' = [stage EXCEPT ![s] = "complete"]
      /\ UNCHANGED <<handlers, promise, accepting, queue, item, processed, ptask,
                     pstage, persisted, stopper>>
  BY DEF Enqueue, PersistQueue!Push
<1>2. x \in Requests /\ x # None
  BY <1>1 DEF LineInv, Types
<1>3. stopper \notin {"joining", "stopped"} /\ ~pqueue.closed /\ pstage = "run"
  BY <1>1 DEF ClosingInv, Types
<1>4. pqueue \in Line
  BY DEF Types
<1>5. PersistQueue!CanPush(pqueue, x) \/ ~PersistQueue!Fits(x)
  BY <1>1, <1>3 DEF PersistQueue!MustWait, PersistQueue!CanPush
<1>6. /\ pqueue' \in Line /\ pqueue'.closed = pqueue.closed
      /\ \A i \in DOMAIN pqueue.items :
           i \in DOMAIN pqueue'.items /\ pqueue'.items[i] = pqueue.items[i]
      /\ \/ \E i \in DOMAIN pqueue'.items : pqueue'.items[i] = x
         \/ ~PersistQueue!Fits(x)
  <2>1. CASE PersistQueue!CanPush(pqueue, x)
    <3> DEFINE p == [pqueue EXCEPT !.items = Append(@, x)]
               n == Len(pqueue.items) + 1
    <3>1. /\ p \in Line /\ p.closed = pqueue.closed
          /\ DOMAIN p.items = 1..n
          /\ DOMAIN pqueue.items = 1..Len(pqueue.items)
          /\ \A i \in DOMAIN pqueue.items : p.items[i] = pqueue.items[i]
          /\ p.items[n] = x
      BY <1>2, <1>4, Pushed
    <3>2. n \in DOMAIN p.items /\ \A i \in DOMAIN pqueue.items : i \in DOMAIN p.items
      BY <1>4, <3>1 DEF Line
    <3>3. pqueue' = p
      BY <1>1, <2>1
    <3> QED BY <3>1, <3>2, <3>3
  <2>2. CASE ~PersistQueue!CanPush(pqueue, x)
    BY <1>1, <1>4, <1>5, <2>2
  <2> QED BY <2>1, <2>2
<1> HIDE DEF x
<1>7. /\ stage'[s] = "complete" /\ \A t \in Shards : t # s => stage'[t] = stage[t]
      /\ stage' \in [Shards -> {"pop", "enqueue", "complete", "exited"}]
  BY <1>1 DEF Types
<1>8. Types'
  BY <1>1, <1>2, <1>6, <1>7 DEF Types, handlers
<1>9. HandlerInv' /\ PlaceInv'
  BY <1>1 DEF HandlerInv, PlaceInv, InLine, Processed, handlers
<1>10. LineInv'
  <2>1. UNCHANGED <<verdict, promise, queue, item>>
    BY <1>1 DEF handlers
  <2>2. \A t \in Shards :
          stage'[t] \in {"enqueue", "complete"} <=> stage[t] \in {"enqueue", "complete"}
    BY <1>1, <1>7
  <2> QED BY <2>1, <2>2 DEF LineInv, Open
<1>11. ClosingInv'
  BY <1>1, <1>3, <1>6, <1>7 DEF ClosingInv
<1>12. TaskInv'
  BY <1>1, <1>6 DEF TaskInv
<1> QED BY <1>8, <1>9, <1>10, <1>11, <1>12

\* The one place where an accepted request's promise is completed (RunShard).
LEMMA CompleteKeeps == ASSUME Inv, NEW s \in Shards, Complete(s) PROVE Inv'
<1> USE DEF Inv
<1>0. PICK x \in Requests : x = item[s] /\ x # None /\ Open(s, x)
  BY DEF Complete, LineInv, Types
<1> DEFINE n == Len(processed[s]) + 1
<1>1. /\ stage[s] = "complete"
      /\ promise' = [promise EXCEPT ![x] = @ + 1]
      /\ processed' = [processed EXCEPT ![s] = Append(@, x)]
      /\ item' = [item EXCEPT ![s] = None]
      /\ stage' = [stage EXCEPT ![s] = "pop"]
      /\ UNCHANGED <<handlers, accepting, queue, persistence, stopper>>
  BY <1>0 DEF Complete, SetPromise
<1>2. x \in Requests /\ x # None /\ Open(s, x)
  BY <1>0
<1>3. /\ processed[s] \in Seq(Requests) /\ Append(processed[s], x) \in Seq(Requests)
      /\ \A i \in DOMAIN processed[s] :
           i \in DOMAIN Append(processed[s], x)
           /\ Append(processed[s], x)[i] = processed[s][i]
      /\ n \in DOMAIN Append(processed[s], x) /\ Append(processed[s], x)[n] = x
  BY <1>2 DEF Types
<1> HIDE DEF n
<1>4. /\ processed'[s] = Append(processed[s], x)
      /\ \A t \in Shards : t # s => processed'[t] = processed[t]
      /\ processed' \in [Shards -> Seq(Requests)]
  BY <1>1, <1>3 DEF Types
<1>5. /\ promise'[x] = 1
      /\ \A r \in Requests : r # x => promise'[r] = promise[r]
      /\ promise' \in [Requests -> Nat]
  BY <1>1, <1>2 DEF Types, Open
<1>6. /\ item'[s] = None /\ stage'[s] = "pop"
      /\ \A t \in Shards : t # s => item'[t] = item[t] /\ stage'[t] = stage[t]
      /\ item' \in [Shards -> Requests \cup {None}]
      /\ stage' \in [Shards -> {"pop", "enqueue", "complete", "exited"}]
  BY <1>1 DEF Types
<1>7. UNCHANGED <<rpc, verdict>>
  BY <1>1 DEF handlers
<1>8. Types'
  BY <1>1, <1>4, <1>5, <1>6, <1>7 DEF Types, persistence
<1>9. HandlerInv'
  BY <1>2, <1>5, <1>7 DEF HandlerInv, Open
<1>10. LineInv'
  <2>1. ASSUME NEW t \in Shards, NEW r \in Requests, Open(t, r), r # x
        PROVE  OpenThen(t, r)
    BY <1>5, <1>7, <2>1 DEF Open, OpenThen
  <2>2. ASSUME NEW t \in Shards, NEW i \in DOMAIN queue[t].items
        PROVE  OpenThen(t, queue[t].items[i]) /\ item'[t] # queue[t].items[i]
    <3>1. /\ queue[t].items[i] \in Requests /\ Open(t, queue[t].items[i])
          /\ item[t] # queue[t].items[i]
      BY DEF LineInv, Types, Line
    <3>2. queue[t].items[i] # x
      BY <1>0, <3>1 DEF Open
    <3>3. item'[t] # queue[t].items[i]
      BY <1>6, <3>1, PipelineAssumption
    <3> QED BY <2>1, <3>1, <3>2, <3>3
  <2>3. ASSUME NEW t \in Shards, t # s, item[t] # None
        PROVE  OpenThen(t, item[t])
    <3>1. item[t] \in Requests /\ Open(t, item[t])
      BY <2>3 DEF LineInv, Types
    <3>2. item[t] # x
      BY <1>2, <2>3, <3>1 DEF Open
    <3> QED BY <2>1, <3>1, <3>2
  <2>4. queue' = queue
    BY <1>1
  <2>5. ASSUME NEW t \in Shards
        PROVE  /\ item'[t] # None => OpenThen(t, item'[t])
               /\ item'[t] # None <=> stage'[t] \in {"enqueue", "complete"}
    <3>1. CASE t = s
      BY <1>6, <3>1
    <3>2. CASE t # s
      BY <1>6, <2>3, <3>2 DEF LineInv
    <3> QED BY <3>1, <3>2
  <2> QED BY <2>2, <2>4, <2>5 DEF LineInv, Open, OpenThen
<1>11. PlaceInv'
  <2>1. Processed(x)'
    <3>1. ShardFor(x) = s
      BY <1>2 DEF Open
    <3>2. n \in DOMAIN processed'[s] /\ processed'[s][n] = x
      BY <1>3, <1>4
    <3> QED BY <3>1, <3>2 DEF Processed
  <2>2. ASSUME NEW r \in Requests, Processed(r) PROVE Processed(r)'
    <3>1. CASE ShardFor(r) = s
      <4>1. PICK i \in DOMAIN processed[s] : processed[s][i] = r
        BY <2>2, <3>1 DEF Processed
      <4>2. i \in DOMAIN processed'[s] /\ processed'[s][i] = r
        BY <1>3, <1>4, <4>1
      <4> QED BY <3>1, <4>2 DEF Processed
    <3>2. CASE ShardFor(r) # s
      BY <1>4, <2>2, <3>2, ShardTyped DEF Processed
    <3> QED BY <3>1, <3>2
  <2>3. \A r \in Requests : r # x /\ item[ShardFor(r)] = r => item'[ShardFor(r)] = r
    BY <1>0, <1>6, ShardTyped
  <2>4. \A r \in Requests : InLine(r) => InLine(r)'
    BY <1>1 DEF InLine
  <2>5. ASSUME NEW r \in Requests, r # x, verdict'[r] = "accepted"
        PROVE  \/ promise'[r] = 0 /\ (InLine(r)' \/ item'[ShardFor(r)] = r)
               \/ promise'[r] = 1 /\ Processed(r)'
    BY <1>5, <1>7, <2>2, <2>3, <2>4, <2>5 DEF PlaceInv
  <2>6. promise'[x] = 1 /\ Processed(x)'
    BY <1>5, <2>1
  <2> QED BY <2>5, <2>6 DEF PlaceInv
<1>12. ClosingInv'
  <2>1. stage[s] # "exited" /\ stopper \notin {"joining", "stopped"}
    BY <1>1 DEF ClosingInv
  <2>2. \A t \in Shards : stage'[t] = "exited" => stage[t] = "exited"
    BY <1>6
  <2> QED BY <1>1, <2>1, <2>2 DEF ClosingInv, persistence
<1>13. TaskInv'
  BY <1>1 DEF TaskInv, persistence
<1> QED BY <1>8, <1>9, <1>10, <1>11, <1>12, <1>13

\* A thread ends when its queue is closed and empty.
LEMMA ExitKeeps == ASSUME Inv, NEW s \in Shards, Exit(s) PROVE Inv'
<1> USE DEF Inv
<1>1. /\ stage[s] = "pop" /\ queue[s].closed /\ queue[s].items = <<>>
      /\ stage' = [stage EXCEPT ![s] = "exited"]
      /\ UNCHANGED <<handlers, promise, accepting, queue, item, processed,
                     persistence, stopper>>
  BY DEF Exit, ShardQueue!Drained
<1>2. /\ stage'[s] = "exited" /\ \A t \in Shards : t # s => stage'[t] = stage[t]
      /\ stage' \in [Shards -> {"pop", "enqueue", "complete", "exited"}]
  BY <1>1 DEF Types
<1>3. Types'
  BY <1>1, <1>2 DEF Types, handlers, persistence
<1>4. HandlerInv' /\ PlaceInv' /\ TaskInv'
  BY <1>1 DEF HandlerInv, PlaceInv, InLine, Processed, TaskInv, handlers, persistence
<1>5. LineInv'
  <2>1. UNCHANGED <<verdict, promise, queue, item>>
    BY <1>1 DEF handlers
  <2>2. \A t \in Shards :
          stage'[t] \in {"enqueue", "complete"} <=> stage[t] \in {"enqueue", "complete"}
    BY <1>1, <1>2
  <2> QED BY <2>1, <2>2 DEF LineInv, Open
<1>6. ClosingInv'
  BY <1>1, <1>2 DEF ClosingInv, persistence
<1> QED BY <1>3, <1>4, <1>5, <1>6

-----------------------------------------------------------------------------
(* The persistence thread. *)

\* The head of the queue passes into the thread's hands.
LEMMA PersistTakeKeeps == ASSUME Inv, PersistTake PROVE Inv'
<1> DEFINE p == [pqueue EXCEPT !.items = Tail(@)]
           x == Head(pqueue.items)
<1> USE DEF Inv
<1>1. /\ pqueue.items # <<>> /\ pstage = "run" /\ ptask = None
      /\ ptask' = x /\ pqueue' = p
      /\ UNCHANGED <<handlers, promise, accepting, queue, shards, pstage, produced,
                     persisted, stopper>>
  BY DEF PersistTake, PersistQueue!Pop, PersistQueue!CanPop
<1>2. pqueue \in Line
  BY DEF Types
<1>3. /\ p \in Line /\ p.closed = pqueue.closed
      /\ x = pqueue.items[1] /\ x \in Requests
      /\ \A i \in DOMAIN pqueue.items :
           i # 1 => i - 1 \in DOMAIN p.items /\ p.items[i - 1] = pqueue.items[i]
  BY <1>1, <1>2, Popped
<1> HIDE DEF p, x
<1>4. Types'
  BY <1>1, <1>3 DEF Types, handlers, shards
<1>5. HandlerInv' /\ LineInv' /\ PlaceInv'
  BY <1>1 DEF HandlerInv, LineInv, Open, PlaceInv, InLine, Processed, handlers, shards
<1>6. ClosingInv'
  BY <1>1, <1>3 DEF ClosingInv, shards
<1>7. TaskInv'
  <2>1. ASSUME NEW r \in produced, NEW i \in DOMAIN pqueue.items, pqueue.items[i] = r
        PROVE  ptask' = r \/ \E j \in DOMAIN pqueue'.items : pqueue'.items[j] = r
    <3>1. CASE i = 1
      BY <1>1, <1>3, <2>1, <3>1
    <3>2. CASE i # 1
      <4>1. i - 1 \in DOMAIN p.items /\ p.items[i - 1] = r
        BY <1>3, <2>1, <3>2
      <4> QED BY <1>1, <4>1
    <3> QED BY <3>1, <3>2
  <2>2. \A r \in produced : r # None
    BY PipelineAssumption DEF Types
  <2> QED BY <1>1, <2>1, <2>2 DEF TaskInv
<1> QED BY <1>4, <1>5, <1>6, <1>7

\* PersistTask and the end of the thread.
LEMMA PersistKeeps == ASSUME Inv, PersistTask \/ PersistExit PROVE Inv'
<1> USE DEF Inv
<1>1. /\ UNCHANGED <<handlers, promise, accepting, queue, shards, pqueue, produced,
                     stopper>>
      /\ \/ /\ ptask # None /\ ptask' = None /\ pstage' = pstage
            /\ persisted' = persisted \cup {ptask}
         \/ /\ ptask = None /\ ptask' = None /\ persisted' = persisted
            /\ pstage' = "exited" /\ pqueue.closed /\ pqueue.items = <<>>
  BY DEF PersistTask, PersistExit, PersistQueue!Drained
<1>2. Types'
  BY <1>1 DEF Types, handlers, shards
<1>3. HandlerInv' /\ LineInv' /\ PlaceInv'
  BY <1>1 DEF HandlerInv, LineInv, Open, PlaceInv, InLine, Processed, handlers, shards
<1>4. ClosingInv'
  BY <1>1 DEF ClosingInv, shards
<1>5. TaskInv'
  <2>1. \A r \in produced : r # None
    BY PipelineAssumption DEF Types
  <2> QED BY <1>1, <2>1 DEF TaskInv
<1> QED BY <1>2, <1>3, <1>4, <1>5

-----------------------------------------------------------------------------
(* Stop. *)

\* HostShardExecutor::Stop clears accepting_ before it closes a queue.
LEMMA CloseShardKeeps == ASSUME Inv, NEW s \in Shards, CloseShard(s) PROVE Inv'
<1> USE DEF Inv
<1>1. /\ stopper = "closing" /\ ~queue[s].closed
      /\ queue' = [queue EXCEPT ![s] = [@ EXCEPT !.closed = TRUE]]
      /\ UNCHANGED <<handlers, promise, accepting, shards, persistence, stopper>>
  BY DEF CloseShard, ShardQueue!Close
<1>2. queue \in [Shards -> Line]
  BY DEF Types
<1>3. /\ queue' \in [Shards -> Line]
      /\ \A t \in Shards : queue'[t].items = queue[t].items
      /\ \A t \in Shards : t # s => queue'[t] = queue[t]
  BY <1>1, <1>2 DEF Line
<1>4. Types'
  BY <1>1, <1>3 DEF Types, handlers, shards, persistence
<1>5. HandlerInv' /\ TaskInv'
  BY <1>1 DEF HandlerInv, TaskInv, handlers, persistence
<1>6. LineInv'
  BY <1>1, <1>3 DEF LineInv, Open, handlers, shards
<1>7. PlaceInv'
  BY <1>1, <1>3, ShardTyped DEF PlaceInv, InLine, Processed, handlers, shards
<1>8. ClosingInv'
  <2>1. ~accepting /\ stage[s] # "exited"
    BY <1>1 DEF ClosingInv
  <2> QED BY <1>1, <1>3, <2>1 DEF ClosingInv, shards, persistence
<1> QED BY <1>4, <1>5, <1>6, <1>7, <1>8

\* The other steps of Stop touch neither requests nor tasks.
LEMMA StopKeeps ==
  ASSUME Inv, StopAccepting \/ ClosePersistence \/ Stopped
  PROVE  Inv'
<1> USE DEF Inv
<1>1. /\ UNCHANGED <<handlers, promise, queue, shards, ptask, pstage, produced,
                     persisted>>
      /\ \/ /\ stopper = "running" /\ stopper' = "closing"
            /\ accepting' = FALSE /\ pqueue' = pqueue
         \/ /\ stopper = "closing" /\ stopper' = "joining" /\ accepting' = accepting
            /\ \A s \in Shards : stage[s] = "exited"
            /\ pqueue' = [pqueue EXCEPT !.closed = TRUE]
         \/ /\ stopper = "joining" /\ stopper' = "stopped" /\ accepting' = accepting
            /\ pstage = "exited" /\ pqueue' = pqueue
  BY DEF StopAccepting, ClosePersistence, Stopped, PersistQueue!Close, persistence
<1>2. pqueue \in Line
  BY DEF Types
<1>3. pqueue' \in Line /\ pqueue'.items = pqueue.items
  BY <1>1, <1>2 DEF Line
<1>4. Types'
  BY <1>1, <1>3 DEF Types, handlers, shards
<1>5. HandlerInv' /\ LineInv' /\ PlaceInv'
  BY <1>1 DEF HandlerInv, LineInv, Open, PlaceInv, InLine, Processed, handlers, shards
<1>6. TaskInv'
  BY <1>1, <1>3 DEF TaskInv
<1>7. ClosingInv'
  <2>1. CASE stopper = "running"
    BY <1>1, <2>1 DEF ClosingInv, shards
  <2>2. CASE stopper = "closing"
    <3>1. pqueue'.closed
      BY <1>1, <1>2, <2>2 DEF Line
    <3> QED BY <1>1, <1>3, <2>2, <3>1 DEF ClosingInv, shards
  <2>3. CASE stopper = "joining"
    BY <1>1, <2>3 DEF ClosingInv, shards
  <2> QED BY <1>1, <2>1, <2>2, <2>3
<1> QED BY <1>4, <1>5, <1>6, <1>7

-----------------------------------------------------------------------------
\* Every step of every thread keeps the invariant.
LEMMA StepKeeps == ASSUME Inv, [Next]_vars PROVE Inv'
<1>1. ASSUME NEW r \in Requests, Handler(r) PROVE Inv'
  <2>1. CASE Refuse(r)
    BY <2>1, ReturnKeeps DEF Refuse
  <2> QED BY <1>1, <2>1, AdmitKeeps, TryPushKeeps, AnswerKeeps DEF Handler
<1>2. ASSUME NEW s \in Shards, RunShard(s) PROVE Inv'
  BY <1>2, TakeKeeps, EnqueueKeeps, CompleteKeeps, ExitKeeps DEF RunShard
<1>3. CASE RunPersistence
  BY <1>3, PersistTakeKeeps, PersistKeeps DEF RunPersistence
<1>4. CASE StopAccepting \/ Stop
  BY <1>4, CloseShardKeeps, StopKeeps DEF Stop
<1>5. CASE UNCHANGED vars
  <2> USE <1>5 DEF Inv, vars
  <2>1. Types' /\ HandlerInv' /\ TaskInv'
    BY DEF Types, HandlerInv, TaskInv
  <2>2. LineInv' /\ PlaceInv' /\ ClosingInv'
    BY DEF LineInv, Open, PlaceInv, InLine, Processed, ClosingInv
  <2> QED BY <2>1, <2>2
<1> QED BY <1>1, <1>2, <1>3, <1>4, <1>5 DEF Next

\* Whatever the numbers of threads and the budgets, every accepted request is in one
\* place with its promise open or processed, and Stop takes the threads down in order.
THEOREM PipelineCorrect == Spec => []Inv
BY InitInv, StepKeeps, PTL DEF Spec

\* No promise is completed twice, and the handler of a request that the pipeline does
\* not hold finds it completed (SubmitImpl, RunShard).
THEOREM PromiseCorrect == Spec => []PromiseOnce
<1>1. Inv => PromiseOnce
  <2> SUFFICES ASSUME Inv, NEW r \in Requests
               PROVE  /\ promise[r] <= 1
                      /\ verdict[r] \in {"queue_full", "stopping"} => promise[r] = 1
                      /\ promise[r] = 1 /\ verdict[r] = "accepted" => Processed(r)
    BY DEF PromiseOnce, Processed
  <2>1. verdict[r] \in Codes
    BY DEF Inv, Types
  <2>2. promise[r] \in {0, 1}
    BY <2>1 DEF Inv, HandlerInv, PlaceInv, Codes
  <2> QED BY <2>2 DEF Inv, HandlerInv, PlaceInv
<1> QED BY <1>1, PipelineCorrect, PTL

\* Once HostManager::Stop has returned, every accepted sample has been processed and
\* every task but one heavier than the whole budget has reached MySQL's thread.
THEOREM StopLosesNothing == Spec => []NothingLostOnStop
<1>1. Inv => NothingLostOnStop
  <2> SUFFICES ASSUME Inv, stopper = "stopped"
               PROVE  /\ \A r \in Requests : verdict[r] = "accepted" => Processed(r)
                      /\ \A r \in produced \ persisted : ~PersistQueue!Fits(r)
    BY DEF NothingLostOnStop, Processed
  <2>1. /\ \A s \in Shards : stage[s] = "exited"
        /\ pqueue.items = <<>> /\ ptask = None
    BY DEF Inv, ClosingInv
  <2>2. ASSUME NEW r \in Requests PROVE ~InLine(r) /\ item[ShardFor(r)] # r
    <3>1. ShardFor(r) \in Shards /\ stage[ShardFor(r)] = "exited"
      BY <2>1, ShardTyped
    <3>2. queue[ShardFor(r)].items = <<>> /\ item[ShardFor(r)] = None
      BY <3>1 DEF Inv, ClosingInv, LineInv
    <3> QED BY <3>2, PipelineAssumption DEF InLine
  <2>3. \A r \in produced : r # None
    BY PipelineAssumption DEF Inv, Types
  <2> QED BY <2>1, <2>2, <2>3 DEF Inv, PlaceInv, TaskInv
<1> QED BY <1>1, PipelineCorrect, PTL

\* A handler whose push met a closed queue answers "stopping": accepting_ is cleared
\* before any queue is closed, and read again after the push.
THEOREM FullOnlyWhileOpen == Spec => QueueFullWhileOpen
<1>1. ASSUME Inv, [Next]_vars, NEW r \in Requests,
             verdict[r] = "none", verdict'[r] = "queue_full"
      PROVE  ~queue[ShardFor(r)].closed
  <2>1. accepting
    <3>1. ASSUME NEW x \in Requests, Handler(x) PROVE accepting
      <4>1. x = r
        BY <1>1, <3>1 DEF Handler, Admit, TryPush, Refuse, Answer, Return, Inv, Types
      <4> QED BY <1>1, <3>1, <4>1
              DEF Handler, Admit, TryPush, Refuse, Answer, Return, Inv, Types
    <3>2. CASE verdict' = verdict
      BY <1>1, <3>2
    <3>3. \/ \E x \in Requests : Handler(x)
          \/ verdict' = verdict
      BY <1>1 DEF Next, vars, RunShard, Take, Enqueue, Complete, Exit, RunPersistence,
                  PersistTake, PersistTask, PersistExit, StopAccepting, Stop,
                  CloseShard, ClosePersistence, Stopped, handlers
    <3> QED BY <3>1, <3>2, <3>3
  <2>2. \A s \in Shards : queue[s].closed => ~accepting
    BY <1>1 DEF Inv, ClosingInv
  <2> QED BY <2>1, <2>2, ShardTyped
<1>2. Inv /\ [Next]_vars =>
        [\A r \in Requests : verdict[r] = "none" /\ verdict'[r] = "queue_full"
           => ~queue[ShardFor(r)].closed]_vars
  BY <1>1
<1> QED BY <1>2, PipelineCorrect, PTL DEF Spec, QueueFullWhileOpen
-----------------------------------------------------------------------------
(* The budgets of the queues. *)

\* q respects a budget of max items that weigh bytes together.
Within(q, weight, max, bytes) ==
  Len(q.items) <= max /\ Weigh(q.items, weight) <= bytes

\* The two instances of Bounded are budgets of this kind.
LEMMA BoundedIsWithin ==
  ASSUME NEW q
  PROVE  /\ ShardQueue!Bounded(q)
              <=> Within(q, ItemBytes, ShardMaxItems, ShardMaxBytes)
         /\ PersistQueue!Bounded(q)
              <=> Within(q, TaskBytes, PersistMaxItems, PersistMaxBytes)
BY DEF ShardQueue!Bounded, ShardQueue!Bytes, ShardQueue!Total,
       PersistQueue!Bounded, PersistQueue!Bytes, PersistQueue!Total,
       Within, Weigh, Total

\* A queue that had room for x respects its budget with x in it.
LEMMA PushWithin ==
  ASSUME NEW q \in Line, NEW x \in Requests, NEW weight \in [Requests -> Nat],
         NEW max \in Nat, NEW bytes \in Nat,
         Within(q, weight, max, bytes), Len(q.items) < max,
         weight[x] <= bytes - Weigh(q.items, weight)
  PROVE  Within([q EXCEPT !.items = Append(@, x)], weight, max, bytes)
<1>1. [q EXCEPT !.items = Append(@, x)].items = Append(q.items, x)
      /\ q.items \in Seq(Requests)
  BY DEF Line
<1>2. Len(Append(q.items, x)) = Len(q.items) + 1
  BY <1>1
<1>3. Weigh(Append(q.items, x), weight) = Weigh(q.items, weight) + weight[x]
      /\ Weigh(q.items, weight) \in Int
  BY <1>1, WeighAppend
<1>4. weight[x] \in Nat /\ Len(q.items) \in Nat
  BY <1>1
<1>5. Len(q.items) + 1 <= max /\ Weigh(q.items, weight) + weight[x] <= bytes
  BY <1>3, <1>4
<1> QED BY <1>1, <1>2, <1>3, <1>5 DEF Within

\* A queue respects its budget without its head.
LEMMA PopWithin ==
  ASSUME NEW q \in Line, NEW weight \in [Requests -> Nat],
         NEW max \in Nat, NEW bytes \in Nat,
         Within(q, weight, max, bytes), q.items # <<>>
  PROVE  Within([q EXCEPT !.items = Tail(@)], weight, max, bytes)
<1>1. [q EXCEPT !.items = Tail(@)].items = Tail(q.items)
      /\ q.items \in Seq(Requests)
  BY DEF Line
<1>2. Len(Tail(q.items)) = Len(q.items) - 1 /\ Len(q.items) \in Nat
      /\ Tail(q.items) \in Seq(Requests) /\ Head(q.items) \in Requests
  BY <1>1
<1>3. Weigh(q.items, weight) = weight[Head(q.items)] + Weigh(Tail(q.items), weight)
  BY <1>1, WeighTail
<1>4. weight[Head(q.items)] \in Nat /\ Weigh(Tail(q.items), weight) \in Nat
  BY <1>2, WeighAmong
<1>5. Weigh(Tail(q.items), weight) <= bytes /\ Len(Tail(q.items)) <= max
  BY <1>2, <1>3, <1>4 DEF Within
<1> QED BY <1>1, <1>5 DEF Within

\* Closing a queue changes none of its items.
LEMMA CloseWithin ==
  ASSUME NEW q \in Line, NEW weight, NEW max, NEW bytes,
         Within(q, weight, max, bytes)
  PROVE  Within([q EXCEPT !.closed = TRUE], weight, max, bytes)
<1>1. [q EXCEPT !.closed = TRUE].items = q.items
  BY DEF Line
<1> QED BY <1>1 DEF Within

\* A new queue is within every budget.
LEMMA NewWithin ==
  ASSUME NEW closed, NEW weight \in [Requests -> Nat],
         NEW max \in Nat, NEW bytes \in Nat
  PROVE  Within([items |-> <<>>, closed |-> closed], weight, max, bytes)
<1>1. [i \in DOMAIN <<>> |-> weight[<<>>[i]]] = <<>>
  OBVIOUS
<1>2. Weigh(<<>>, weight) = 0
  BY <1>1, TotalAppend DEF Weigh
<1> QED BY <1>2 DEF Within
ShardWithin(q) == Within(q, ItemBytes, ShardMaxItems, ShardMaxBytes)

PersistWithin(q) == Within(q, TaskBytes, PersistMaxItems, PersistMaxBytes)

\* Both budgets hold, and only what ProcessOne has made reaches MySQL's thread.
BudgetInv ==
  /\ \A s \in Shards : ShardWithin(queue[s])
  /\ PersistWithin(pqueue)
  /\ persisted \subseteq produced
  /\ ptask \in produced \cup {None}
  /\ Range(pqueue.items) \subseteq produced

\* What BudgetInv says of the state after a step.
LEMMA BudgetThen ==
  ASSUME \A s \in Shards : ShardWithin(queue'[s]),
         PersistWithin(pqueue'),
         persisted' \subseteq produced',
         ptask' \in produced' \cup {None},
         Range(pqueue'.items) \subseteq produced'
  PROVE  BudgetInv'
BY DEF BudgetInv

\* The queues are empty.
LEMMA InitBudget == Init => BudgetInv
<1> SUFFICES ASSUME Init PROVE BudgetInv
  OBVIOUS
<1>1. \A s \in Shards : ShardWithin(queue[s])
  BY NewWithin, PipelineAssumption DEF Init, ShardQueue!New, ShardWithin
<1>2. PersistWithin(pqueue)
  BY NewWithin, PipelineAssumption DEF Init, PersistQueue!New, PersistWithin
<1>3. Range(pqueue.items) = {}
  BY DEF Init, PersistQueue!New, Range
<1> QED BY <1>1, <1>2, <1>3 DEF Init, BudgetInv

\* One shard's queue changes to one that respects the budget.
LEMMA ShardBudget ==
  ASSUME BudgetInv, Types, NEW s \in Shards, NEW q,
         queue' = [queue EXCEPT ![s] = q], ShardWithin(q)
  PROVE  \A t \in Shards : ShardWithin(queue'[t])
BY DEF BudgetInv, Types

\* A step that leaves the persistence thread's data alone.
LEMMA PersistBudget ==
  ASSUME BudgetInv, UNCHANGED <<pqueue, ptask, produced, persisted>>,
         \A s \in Shards : ShardWithin(queue'[s])
  PROVE  BudgetInv'
BY BudgetThen DEF BudgetInv

\* Every step respects the budgets.
LEMMA BudgetKeeps == ASSUME Inv, BudgetInv, [Next]_vars PROVE BudgetInv'
<1>0. Types
  BY DEF Inv
<1>1. CASE UNCHANGED <<queue, pqueue, ptask, produced, persisted>>
  <2>1. \A s \in Shards : ShardWithin(queue'[s])
    BY <1>1 DEF BudgetInv
  <2> QED BY <1>1, <2>1, PersistBudget
<1>2. ASSUME NEW r \in Requests, TryPush(r) PROVE BudgetInv'
  <2> DEFINE s == ShardFor(r)
  <2>1. s \in Shards /\ queue[s] \in Line /\ ShardWithin(queue[s])
    BY <1>0, ShardTyped DEF Types, BudgetInv
  <2>2. UNCHANGED <<pqueue, ptask, produced, persisted>>
    BY <1>2 DEF TryPush, persistence
  <2>3. CASE ShardQueue!CanPush(queue[s], r)
    <3> DEFINE q == [queue[s] EXCEPT !.items = Append(@, r)]
    <3>1. queue' = [queue EXCEPT ![s] = q]
      BY <1>2, <2>3 DEF TryPush, ShardQueue!Push
    <3>2. /\ Len(queue[s].items) < ShardMaxItems
          /\ ItemBytes[r] <= ShardMaxBytes - Weigh(queue[s].items, ItemBytes)
      BY <2>3 DEF ShardQueue!CanPush, ShardQueue!HasCapacity, ShardQueue!Bytes,
                  ShardQueue!Total, Weigh, Total
    <3>3. ShardWithin(q)
      <4> HIDE DEF s
      <4> QED BY <2>1, <3>2, PushWithin, PipelineAssumption DEF ShardWithin
    <3> QED BY <1>0, <2>1, <2>2, <3>1, <3>3, ShardBudget, PersistBudget
  <2>4. CASE ~ShardQueue!CanPush(queue[s], r)
    BY <1>1, <1>2, <2>2, <2>4 DEF TryPush
  <2> QED BY <2>3, <2>4
<1>3. ASSUME NEW s \in Shards, Take(s) PROVE BudgetInv'
  <2>1. queue[s] \in Line /\ ShardWithin(queue[s]) /\ queue[s].items # <<>>
    BY <1>0, <1>3 DEF Types, BudgetInv, Take, ShardQueue!CanPop
  <2> DEFINE q == [queue[s] EXCEPT !.items = Tail(@)]
  <2>2. queue' = [queue EXCEPT ![s] = q]
        /\ UNCHANGED <<pqueue, ptask, produced, persisted>>
    BY <1>3 DEF Take, ShardQueue!Pop, persistence
  <2>3. ShardWithin(q)
    BY <2>1, PopWithin, PipelineAssumption DEF ShardWithin
  <2> HIDE DEF q
  <2> QED BY <1>0, <2>2, <2>3, ShardBudget, PersistBudget
<1>4. ASSUME NEW s \in Shards, CloseShard(s) PROVE BudgetInv'
  <2>1. queue[s] \in Line /\ ShardWithin(queue[s])
    BY <1>0 DEF Types, BudgetInv
  <2> DEFINE q == [queue[s] EXCEPT !.closed = TRUE]
  <2>2. queue' = [queue EXCEPT ![s] = q]
        /\ UNCHANGED <<pqueue, ptask, produced, persisted>>
    BY <1>4 DEF CloseShard, ShardQueue!Close, persistence
  <2>3. ShardWithin(q)
    BY <2>1, CloseWithin DEF ShardWithin
  <2> HIDE DEF q
  <2> QED BY <1>0, <2>2, <2>3, ShardBudget, PersistBudget
<1>5. ASSUME NEW s \in Shards, Enqueue(s) PROVE BudgetInv'
  <2> DEFINE x == item[s]
  <2>1. pqueue \in Line /\ PersistWithin(pqueue) /\ queue' = queue
    BY <1>0, <1>5 DEF Types, BudgetInv, Enqueue
  <2>2. x \in Requests
    BY <1>0, <1>5 DEF Inv, LineInv, Enqueue, Types
  <2>3. produced' = produced \cup {x} /\ ptask' = ptask /\ persisted' = persisted
    BY <1>5 DEF Enqueue
  <2>4. PersistWithin(pqueue') /\ Range(pqueue'.items) \subseteq produced'
    <3>1. CASE PersistQueue!CanPush(pqueue, x)
      <4>1. pqueue' = [pqueue EXCEPT !.items = Append(@, x)]
        BY <1>5, <3>1 DEF Enqueue, PersistQueue!Push
      <4>2. /\ Len(pqueue.items) < PersistMaxItems
            /\ TaskBytes[x] <= PersistMaxBytes - Weigh(pqueue.items, TaskBytes)
        BY <3>1 DEF PersistQueue!CanPush, PersistQueue!HasCapacity,
                    PersistQueue!Bytes, PersistQueue!Total, Weigh, Total
      <4>3. PersistWithin(pqueue')
        <5> HIDE DEF x
        <5> QED BY <2>1, <2>2, <4>1, <4>2, PushWithin, PipelineAssumption
                DEF PersistWithin
      <4>4. Range(pqueue'.items) \subseteq produced'
        <5>1. pqueue'.items = Append(pqueue.items, x)
              /\ pqueue.items \in Seq(Requests)
          BY <2>1, <4>1 DEF Line
        <5>2. Range(pqueue.items) \subseteq produced
          BY DEF BudgetInv
        <5> HIDE DEF x
        <5>3. Range(Append(pqueue.items, x)) = Range(pqueue.items) \cup {x}
          BY <2>2, <5>1, RangeAppend
        <5> QED BY <2>3, <5>1, <5>2, <5>3
      <4> QED BY <4>3, <4>4
    <3>2. CASE ~PersistQueue!CanPush(pqueue, x)
      <4>1. pqueue' = pqueue
        BY <1>5, <3>2 DEF Enqueue
      <4> QED BY <2>1, <2>3, <4>1 DEF BudgetInv
    <3> QED BY <3>1, <3>2
  <2>5. \A t \in Shards : ShardWithin(queue'[t])
    BY <2>1 DEF BudgetInv
  <2>6. persisted' \subseteq produced' /\ ptask' \in produced' \cup {None}
    BY <2>3 DEF BudgetInv
  <2> QED BY <2>4, <2>5, <2>6, BudgetThen
<1>6. CASE PersistTake
  <2>1. /\ pqueue \in Line /\ PersistWithin(pqueue) /\ pqueue.items # <<>>
        /\ Range(pqueue.items) \subseteq produced
    BY <1>0, <1>6 DEF Types, BudgetInv, PersistTake, PersistQueue!CanPop
  <2>2. /\ pqueue' = [pqueue EXCEPT !.items = Tail(@)]
        /\ ptask' = Head(pqueue.items)
        /\ UNCHANGED <<queue, produced, persisted>>
    BY <1>6 DEF PersistTake, PersistQueue!Pop
  <2>3. PersistWithin(pqueue')
    BY <2>1, <2>2, PopWithin, PipelineAssumption DEF PersistWithin
  <2>4. pqueue'.items = Tail(pqueue.items) /\ pqueue.items \in Seq(Requests)
    BY <2>1, <2>2 DEF Line
  <2>5. Range(pqueue'.items) \subseteq produced
    <3>1. Range(Tail(pqueue.items)) \subseteq Range(pqueue.items)
      BY <2>1, <2>4 DEF Range
    <3> QED BY <2>1, <2>4, <3>1
  <2>6. ptask' \in produced
    <3>1. Head(pqueue.items) \in Range(pqueue.items)
      BY <2>1, <2>4 DEF Range
    <3> QED BY <2>1, <2>2, <3>1
  <2> QED BY <2>2, <2>3, <2>5, <2>6, BudgetThen DEF BudgetInv
<1>7. CASE PersistTask
  <2>1. /\ ptask # None /\ persisted' = persisted \cup {ptask} /\ ptask' = None
        /\ UNCHANGED <<queue, pqueue, produced>>
    BY <1>7 DEF PersistTask
  <2>2. persisted' \subseteq produced'
    BY <2>1 DEF BudgetInv
  <2> QED BY <2>1, <2>2, BudgetThen DEF BudgetInv
<1>8. CASE ClosePersistence
  <2>1. pqueue \in Line /\ PersistWithin(pqueue)
    BY <1>0 DEF Types, BudgetInv
  <2>2. /\ pqueue' = [pqueue EXCEPT !.closed = TRUE]
        /\ UNCHANGED <<queue, ptask, produced, persisted>>
    BY <1>8 DEF ClosePersistence, PersistQueue!Close
  <2>3. PersistWithin(pqueue')
    BY <2>1, <2>2, CloseWithin DEF PersistWithin
  <2>4. pqueue'.items = pqueue.items
    BY <2>1, <2>2 DEF Line
  <2>5. Range(pqueue'.items) \subseteq produced
    BY <2>4 DEF BudgetInv
  <2> QED BY <2>2, <2>3, <2>5, BudgetThen DEF BudgetInv
<1>9. ASSUME NEW r \in Requests, Admit(r) \/ Refuse(r) \/ Answer(r)
      PROVE  BudgetInv'
  BY <1>1, <1>9 DEF Admit, Refuse, Answer, persistence
<1>10. ASSUME NEW s \in Shards, Complete(s) \/ Exit(s) PROVE BudgetInv'
  BY <1>1, <1>10 DEF Complete, Exit, persistence
<1>11. CASE PersistExit \/ StopAccepting \/ Stopped \/ UNCHANGED vars
  BY <1>1, <1>11 DEF PersistExit, StopAccepting, Stopped, persistence, vars
<1> QED BY <1>2, <1>3, <1>4, <1>5, <1>6, <1>7, <1>8, <1>9, <1>10, <1>11
        DEF Next, Handler, RunShard, RunPersistence, Stop

\* Whatever the sizes of samples and tasks and whatever the limits, both kinds of queue
\* stay within their budget of items and of bytes, and only what ProcessOne has made a
\* task of reaches MySQL's thread (BoundedQueue, HostShardExecutor, PersistenceWorker).
THEOREM WithinBudgets == Spec => []TypeOK
<1>1. Inv /\ BudgetInv => TypeOK
  <2> SUFFICES ASSUME Inv, BudgetInv PROVE TypeOK
    OBVIOUS
  <2>1. \A s \in Shards : /\ queue[s].items \in Seq(Requests)
                          /\ processed[s] \in Seq(Requests)
    BY DEF Inv, Types, Line
  <2>2. /\ \A s \in Shards : ShardQueue!Bounded(queue[s])
        /\ PersistQueue!Bounded(pqueue)
    BY BoundedIsWithin DEF BudgetInv, ShardWithin, PersistWithin
  <2> QED BY <2>1, <2>2 DEF TypeOK, Inv, Types, BudgetInv
<1>2. Spec => []BudgetInv
  BY InitBudget, BudgetKeeps, PipelineCorrect, PTL DEF Spec
<1> QED BY <1>1, <1>2, PipelineCorrect, PTL
-----------------------------------------------------------------------------
(* The refinement of OrderedIntake, fairness apart. *)

IntakeVerdict == [r \in Requests |->
                    IF verdict[r] \in {"queue_full", "stopping"} THEN "refused"
                    ELSE verdict[r]]

IntakeLine == [h \in Hosts |-> Of(h, Holding(ShardOf[h]))]

IntakeDone == [h \in Hosts |-> Of(h, processed[ShardOf[h]])]

\* What a shard holds after a step.
HoldingThen(s) == IF item'[s] = None THEN queue'[s].items
                  ELSE <<item'[s]>> \o queue'[s].items

\* The refinement mapping of the state after a step.
LEMMA MappedThen ==
  /\ IntakeVerdict' = [r \in Requests |->
                         IF verdict'[r] \in {"queue_full", "stopping"}
                         THEN "refused" ELSE verdict'[r]]
  /\ IntakeLine' = [h \in Hosts |-> Of(h, HoldingThen(ShardOf[h]))]
  /\ IntakeDone' = [h \in Hosts |-> Of(h, processed'[ShardOf[h]])]
BY DEF IntakeVerdict, IntakeLine, IntakeDone, Holding, HoldingThen

\* A step of the pipeline that shows in the intake.
LEMMA AcceptMaps ==
  ASSUME NEW r \in Requests, IntakeVerdict[r] = "none",
         IntakeVerdict' = [IntakeVerdict EXCEPT ![r] = "accepted"],
         IntakeLine' = [IntakeLine EXCEPT ![HostOf[r]] = Append(@, r)],
         IntakeDone' = IntakeDone
  PROVE  Intake!Next
BY DEF Intake!Next, Intake!Accept, IntakeVerdict, IntakeLine, IntakeDone

\* The same for a refusal.
LEMMA RefuseMaps ==
  ASSUME NEW r \in Requests, IntakeVerdict[r] = "none",
         IntakeVerdict' = [IntakeVerdict EXCEPT ![r] = "refused"],
         IntakeLine' = IntakeLine, IntakeDone' = IntakeDone
  PROVE  Intake!Next
BY DEF Intake!Next, Intake!Refuse, IntakeVerdict, IntakeLine, IntakeDone

\* The same for a request that has been processed.
LEMMA ProcessMaps ==
  ASSUME NEW h \in Hosts, IntakeLine[h] # <<>>,
         IntakeDone' = [IntakeDone EXCEPT ![h] = Append(@, Head(IntakeLine[h]))],
         IntakeLine' = [IntakeLine EXCEPT ![h] = Tail(@)],
         IntakeVerdict' = IntakeVerdict
  PROVE  Intake!Next
BY DEF Intake!Next, Intake!Process, IntakeVerdict, IntakeLine, IntakeDone

\* A step that does not show in the intake.
LEMMA StutterMaps ==
  ASSUME IntakeVerdict' = IntakeVerdict, IntakeLine' = IntakeLine,
         IntakeDone' = IntakeDone
  PROVE  UNCHANGED Intake!vars
BY DEF Intake!vars, IntakeVerdict, IntakeLine, IntakeDone

\* A host's part of a sequence, when the sequence grows at an end.
LEMMA OfGrows ==
  ASSUME NEW h \in Hosts, NEW s \in Seq(Requests), NEW r \in Requests
  PROVE  /\ Of(h, s) \in Seq(Requests)
         /\ Of(h, Append(s, r)) = IF HostOf[r] = h THEN Append(Of(h, s), r)
                                  ELSE Of(h, s)
         /\ Of(h, <<r>> \o s) = IF HostOf[r] = h THEN <<r>> \o Of(h, s)
                                ELSE Of(h, s)
<1> DEFINE keep == {x \in Requests : HostOf[x] = h}
<1>1. r \in keep <=> HostOf[r] = h
  OBVIOUS
<1> HIDE DEF keep
<1>2. Among(s, keep) \in Seq(Requests)
  BY AmongType
<1>3. Among(Append(s, r), keep) =
        IF r \in keep THEN Append(Among(s, keep), r) ELSE Among(s, keep)
  BY AmongAppend
<1>4. Among(<<r>> \o s, keep) =
        IF r \in keep THEN <<r>> \o Among(s, keep) ELSE Among(s, keep)
  BY AmongCons
<1> QED BY <1>1, <1>2, <1>3, <1>4 DEF Of, keep

\* What a shard holds is a sequence of requests.
LEMMA HoldingType ==
  ASSUME Types, NEW s \in Shards
  PROVE  /\ queue[s].items \in Seq(Requests)
         /\ item[s] \in Requests \cup {None}
         /\ Holding(s) \in Seq(Requests)
<1>1. queue[s].items \in Seq(Requests) /\ item[s] \in Requests \cup {None}
  BY DEF Types, Line
<1>2. CASE item[s] = None
  BY <1>1, <1>2 DEF Holding
<1>3. CASE item[s] \in Requests
  <2>1. <<item[s]>> \o queue[s].items \in Seq(Requests)
    BY <1>1, <1>3
  <2> QED BY <1>1, <1>3, <2>1, PipelineAssumption DEF Holding
<1> QED BY <1>1, <1>2, <1>3

\* A step that answers nobody, completes nothing and moves no request between
\* shards does not show.
LEMMA HiddenMaps ==
  ASSUME verdict' = verdict, processed' = processed,
         \A s \in Shards : HoldingThen(s) = Holding(s)
  PROVE  UNCHANGED Intake!vars
<1>1. \A h \in Hosts : ShardOf[h] \in Shards
  BY PipelineAssumption
<1>2. IntakeLine' = IntakeLine
  BY <1>1, MappedThen DEF IntakeLine
<1>3. IntakeVerdict' = IntakeVerdict /\ IntakeDone' = IntakeDone
  BY MappedThen DEF IntakeVerdict, IntakeDone
<1> QED BY <1>2, <1>3, StutterMaps

\* A shard thread takes the head of its queue (RunShard): it holds the same
\* requests in the same order.
LEMMA TakeHidden ==
  ASSUME Inv, NEW s \in Shards, Take(s)
  PROVE  UNCHANGED Intake!vars
<1>1. /\ item[s] = None /\ queue[s] \in Line /\ queue[s].items # <<>>
      /\ item \in [Shards -> Requests \cup {None}] /\ queue \in [Shards -> Line]
  BY DEF Inv, LineInv, Take, Types, ShardQueue!CanPop
<1>2. /\ item' = [item EXCEPT ![s] = Head(queue[s].items)]
      /\ queue' = [queue EXCEPT ![s] =
                      [queue[s] EXCEPT !.items = Tail(queue[s].items)]]
      /\ UNCHANGED <<verdict, processed>>
  BY DEF Take, ShardQueue!Pop, handlers
<1>3. /\ queue[s].items \in Seq(Requests) /\ Head(queue[s].items) # None
      /\ queue[s].items = <<Head(queue[s].items)>> \o Tail(queue[s].items)
  <2>1. queue[s].items \in Seq(Requests)
    BY <1>1 DEF Line
  <2>2. Head(queue[s].items) \in Requests
    BY <1>1, <2>1
  <2>3. queue[s].items = <<Head(queue[s].items)>> \o Tail(queue[s].items)
    BY <1>1, <2>1
  <2> QED BY <2>1, <2>2, <2>3, PipelineAssumption
<1>4. ASSUME NEW t \in Shards PROVE HoldingThen(t) = Holding(t)
  <2>1. CASE t = s
    <3>1. item'[t] = Head(queue[s].items) /\ queue'[t].items = Tail(queue[s].items)
      BY <1>1, <1>2, <2>1 DEF Line
    <3> QED BY <1>1, <1>3, <2>1, <3>1 DEF HoldingThen, Holding
  <2>2. CASE t # s
    <3>1. item'[t] = item[t] /\ queue'[t] = queue[t]
      BY <1>1, <1>2, <2>2
    <3> QED BY <3>1 DEF HoldingThen, Holding
  <2> QED BY <2>1, <2>2
<1> QED BY <1>2, <1>4, HiddenMaps

\* A queue that is closed keeps its requests.
LEMMA CloseHidden ==
  ASSUME Inv, NEW s \in Shards, CloseShard(s)
  PROVE  UNCHANGED Intake!vars
<1>1. queue[s] \in Line /\ queue \in [Shards -> Line]
  BY DEF Inv, Types
<1>2. /\ queue' = [queue EXCEPT ![s] = [@ EXCEPT !.closed = TRUE]]
      /\ UNCHANGED <<item, verdict, processed>>
  BY DEF CloseShard, ShardQueue!Close, handlers, shards
<1>3. ASSUME NEW t \in Shards PROVE HoldingThen(t) = Holding(t)
  <2>1. queue'[t].items = queue[t].items
    BY <1>1, <1>2 DEF Line
  <2> QED BY <1>2, <2>1 DEF HoldingThen, Holding
<1> QED BY <1>2, <1>3, HiddenMaps

\* A refusal - before the push, or after one that failed - is one in the intake.
LEMMA ReturnRefuses ==
  ASSUME Inv, NEW r \in Requests, NEW code \in {"queue_full", "stopping"},
         rpc[r] \in {"idle", "failed"}, Return(r, code),
         UNCHANGED <<queue, item, processed>>
  PROVE  Intake!Next
<1>1. verdict[r] = "none" /\ verdict \in [Requests -> Codes]
  BY DEF Inv, HandlerInv, Types
<1>2. verdict' = [verdict EXCEPT ![r] = code]
  BY DEF Return
<1>3. IntakeVerdict[r] = "none"
  BY <1>1 DEF IntakeVerdict
<1>4. IntakeVerdict' = [IntakeVerdict EXCEPT ![r] = "refused"]
  BY <1>1, <1>2, MappedThen DEF IntakeVerdict
<1>5. IntakeLine' = IntakeLine /\ IntakeDone' = IntakeDone
  BY MappedThen DEF IntakeLine, IntakeDone, Holding, HoldingThen
<1> QED BY <1>3, <1>4, <1>5, RefuseMaps
\* A push that succeeds is the acceptance in the intake: the request is the last
\* of what its shard holds.
LEMMA PushAccepts ==
  ASSUME Inv, NEW r \in Requests, TryPush(r),
         ShardQueue!CanPush(queue[ShardFor(r)], r)
  PROVE  Intake!Next
<1> DEFINE s == ShardFor(r)
           q == queue[ShardFor(r)]
<1>1. /\ s \in Shards /\ q \in Line /\ queue \in [Shards -> Line]
      /\ item[s] \in Requests \cup {None} /\ q.items \in Seq(Requests)
  BY ShardTyped DEF Inv, Types, Line
<1>2. /\ verdict[r] = "none" /\ verdict \in [Requests -> Codes]
      /\ HostOf[r] \in Hosts /\ ShardOf[HostOf[r]] = s
  BY PipelineAssumption DEF Inv, HandlerInv, Types, TryPush, ShardFor
<1>3. /\ queue' = [queue EXCEPT ![s] = [q EXCEPT !.items = Append(q.items, r)]]
      /\ verdict' = [verdict EXCEPT ![r] = "accepted"]
      /\ UNCHANGED <<item, processed>>
  BY DEF TryPush, ShardQueue!Push, shards
<1>4. IntakeVerdict[r] = "none"
  BY <1>2 DEF IntakeVerdict
<1>5. IntakeVerdict' = [IntakeVerdict EXCEPT ![r] = "accepted"]
  BY <1>2, <1>3, MappedThen DEF IntakeVerdict
<1>6. IntakeDone' = IntakeDone
  BY <1>3, MappedThen DEF IntakeDone
<1> HIDE DEF s, q
<1>7. HoldingThen(s) = Append(Holding(s), r)
  <2>1. queue'[s].items = Append(q.items, r) /\ item'[s] = item[s]
    BY <1>1, <1>3 DEF Line
  <2>2. q = queue[s]
    BY DEF q, s
  <2>3. CASE item[s] = None
    BY <2>1, <2>2, <2>3 DEF HoldingThen, Holding
  <2>4. CASE item[s] \in Requests
    <3>1. <<item[s]>> \o Append(q.items, r) = Append(<<item[s]>> \o q.items, r)
      BY <1>1, <2>4, ConsAppend
    <3> QED BY <2>1, <2>2, <2>4, <3>1, PipelineAssumption
            DEF HoldingThen, Holding
  <2> QED BY <1>1, <2>3, <2>4
<1>8. \A t \in Shards \ {s} : HoldingThen(t) = Holding(t)
  BY <1>1, <1>3 DEF HoldingThen, Holding
<1>9. IntakeLine' = [IntakeLine EXCEPT ![HostOf[r]] = Append(@, r)]
  <2>1. ASSUME NEW h \in Hosts
        PROVE  Of(h, HoldingThen(ShardOf[h])) =
                 IF h = HostOf[r] THEN Append(Of(h, Holding(ShardOf[h])), r)
                 ELSE Of(h, Holding(ShardOf[h]))
    <3>1. ShardOf[h] \in Shards
      BY PipelineAssumption
    <3>2. CASE ShardOf[h] = s
      <4>1. Holding(s) \in Seq(Requests)
        BY <1>1, HoldingType DEF Inv
      <4>2. Of(h, Append(Holding(s), r)) =
              IF HostOf[r] = h THEN Append(Of(h, Holding(s)), r)
              ELSE Of(h, Holding(s))
        BY <4>1, OfGrows
      <4> QED BY <1>7, <3>2, <4>2
    <3>3. CASE ShardOf[h] # s
      BY <1>2, <1>8, <3>1, <3>3
    <3> QED BY <3>2, <3>3
  <2> QED BY <1>2, <2>1, MappedThen DEF IntakeLine
<1> QED BY <1>4, <1>5, <1>6, <1>9, AcceptMaps

\* The completion of a shard's item is the processing of the first request in
\* the line of its host (RunShard).
LEMMA CompleteProcesses ==
  ASSUME Inv, NEW s \in Shards, Complete(s)
  PROVE  Intake!Next
<1> DEFINE r == item[s]
           h == HostOf[r]
<1>1. /\ r \in Requests /\ h \in Hosts /\ ShardOf[h] = s /\ r # None
      /\ queue[s].items \in Seq(Requests) /\ processed[s] \in Seq(Requests)
      /\ item \in [Shards -> Requests \cup {None}]
      /\ processed \in [Shards -> Seq(Requests)]
  BY PipelineAssumption
     DEF Inv, LineInv, Open, ShardFor, Complete, Types, Line
<1>2. /\ processed' = [processed EXCEPT ![s] = Append(processed[s], r)]
      /\ item' = [item EXCEPT ![s] = None]
      /\ UNCHANGED <<queue, verdict>>
  BY DEF Complete, handlers
<1>3. Holding(s) = <<r>> \o queue[s].items /\ HoldingThen(s) = queue[s].items
  BY <1>1, <1>2 DEF Holding, HoldingThen
<1>4. \A t \in Shards \ {s} : HoldingThen(t) = Holding(t)
  BY <1>1, <1>2 DEF HoldingThen, Holding
<1> HIDE DEF r, h
<1>5. h = HostOf[r]
  BY DEF h
<1>6. ASSUME NEW g \in Hosts
      PROVE  /\ IntakeLine[g] = IF g = h THEN <<r>> \o Of(g, HoldingThen(s))
                                ELSE Of(g, HoldingThen(ShardOf[g]))
             /\ Of(g, processed'[ShardOf[g]]) =
                  IF g = h THEN Append(IntakeDone[g], r) ELSE IntakeDone[g]
  <2>1. ShardOf[g] \in Shards
    BY PipelineAssumption
  <2>2. IntakeLine[g] = Of(g, Holding(ShardOf[g]))
        /\ IntakeDone[g] = Of(g, processed[ShardOf[g]])
    BY DEF IntakeLine, IntakeDone
  <2>3. CASE ShardOf[g] = s
    <3>1. Of(g, <<r>> \o queue[s].items) =
            IF HostOf[r] = g THEN <<r>> \o Of(g, queue[s].items)
            ELSE Of(g, queue[s].items)
      BY <1>1, OfGrows
    <3>2. Of(g, Append(processed[s], r)) =
            IF HostOf[r] = g THEN Append(Of(g, processed[s]), r)
            ELSE Of(g, processed[s])
      BY <1>1, OfGrows
    <3>3. processed'[s] = Append(processed[s], r)
      BY <1>1, <1>2
    <3> QED BY <1>3, <1>5, <2>2, <2>3, <3>1, <3>2, <3>3
  <2>4. CASE ShardOf[g] # s
    <3>1. g # h
      BY <1>1, <2>4
    <3>2. processed'[ShardOf[g]] = processed[ShardOf[g]]
      BY <1>1, <1>2, <2>1, <2>4
    <3> QED BY <1>4, <2>1, <2>2, <2>4, <3>1, <3>2
  <2> QED BY <2>3, <2>4
<1>7. Of(h, HoldingThen(s)) \in Seq(Requests)
  BY <1>1, <1>3, OfGrows
<1>8. IntakeLine[h] = <<r>> \o Of(h, HoldingThen(s))
  BY <1>1, <1>6
<1>9. /\ IntakeLine[h] # <<>> /\ Head(IntakeLine[h]) = r
      /\ Tail(IntakeLine[h]) = Of(h, HoldingThen(s))
  <2>1. \A t \in Seq(Requests) :
          <<r>> \o t # <<>> /\ Head(<<r>> \o t) = r /\ Tail(<<r>> \o t) = t
    BY <1>1
  <2> QED BY <1>7, <1>8, <2>1
<1>10. IntakeLine' = [IntakeLine EXCEPT ![h] = Tail(@)]
  <2>1. \A g \in Hosts : Of(g, HoldingThen(ShardOf[g])) =
          IF g = h THEN Tail(IntakeLine[h]) ELSE IntakeLine[g]
    BY <1>1, <1>6, <1>9
  <2> QED BY <2>1, MappedThen DEF IntakeLine
<1>11. IntakeDone' = [IntakeDone EXCEPT ![h] = Append(@, Head(IntakeLine[h]))]
  BY <1>6, <1>9, MappedThen DEF IntakeDone
<1>12. IntakeVerdict' = IntakeVerdict
  BY <1>2, MappedThen DEF IntakeVerdict
<1> QED BY <1>1, <1>9, <1>10, <1>11, <1>12, ProcessMaps
\* Every step of the pipeline is a step of the intake or does not show in it.
LEMMA StepRefines ==
  ASSUME Inv, [Next]_vars
  PROVE  [Intake!Next]_(Intake!vars)
<1>1. CASE UNCHANGED <<verdict, processed, queue, item>>
  <2>1. \A s \in Shards : HoldingThen(s) = Holding(s)
    BY <1>1 DEF HoldingThen, Holding
  <2> QED BY <1>1, <2>1, HiddenMaps
<1>2. ASSUME NEW r \in Requests, Handler(r)
      PROVE  [Intake!Next]_(Intake!vars)
  <2>1. CASE Admit(r) /\ accepting
    BY <1>1, <2>1 DEF Admit, shards
  <2>2. CASE Admit(r) /\ ~accepting
    BY <2>2, ReturnRefuses DEF Admit, shards
  <2>3. CASE TryPush(r) /\ ShardQueue!CanPush(queue[ShardFor(r)], r)
    BY <2>3, PushAccepts
  <2>4. CASE TryPush(r) /\ ~ShardQueue!CanPush(queue[ShardFor(r)], r)
    BY <1>1, <2>4 DEF TryPush, shards
  <2>5. CASE Refuse(r)
    BY <2>5, ReturnRefuses DEF Refuse, shards
  <2>6. CASE Answer(r)
    BY <1>1, <2>6 DEF Answer, shards
  <2> QED BY <1>2, <2>1, <2>2, <2>3, <2>4, <2>5, <2>6 DEF Handler
<1>3. ASSUME NEW s \in Shards, RunShard(s)
      PROVE  [Intake!Next]_(Intake!vars)
  <2>1. CASE Enqueue(s) \/ Exit(s)
    BY <1>1, <2>1 DEF Enqueue, Exit, handlers
  <2> QED BY <1>3, <2>1, TakeHidden, CompleteProcesses DEF RunShard
<1>4. CASE RunPersistence \/ StopAccepting
  BY <1>1, <1>4 DEF RunPersistence, PersistTake, PersistTask, PersistExit,
                    StopAccepting, handlers, shards
<1>5. CASE Stop
  <2>1. CASE ClosePersistence \/ Stopped
    BY <1>1, <2>1 DEF ClosePersistence, Stopped, handlers, shards
  <2> QED BY <1>5, <2>1, CloseHidden DEF Stop
<1>6. CASE UNCHANGED vars
  BY <1>1, <1>6 DEF vars
<1> QED BY <1>2, <1>3, <1>4, <1>5, <1>6 DEF Next

\* At the start nothing has been told, held or done.
LEMMA InitRefines == Init => Intake!Init
<1> SUFFICES ASSUME Init PROVE Intake!Init
  OBVIOUS
<1>1. \A r \in Requests : verdict[r] = "none"
  BY DEF Init
<1>2. ASSUME NEW h \in Hosts
      PROVE  Of(h, Holding(ShardOf[h])) = <<>> /\ Of(h, processed[ShardOf[h]]) = <<>>
  <2>1. ShardOf[h] \in Shards
    BY PipelineAssumption
  <2>2. Holding(ShardOf[h]) = <<>> /\ processed[ShardOf[h]] = <<>>
    BY <2>1 DEF Init, Holding, ShardQueue!New
  <2> QED BY <2>2, AmongEmpty DEF Of
<1> QED BY <1>1, <1>2 DEF Intake!Init

\* For any hosts, shards, queue limits and interleaving, the Manager's threads implement
\* the intake as far as safety goes: a request is accepted or refused once, a refused one
\* is never processed, and the accepted ones of a host are processed once and in order.
THEOREM ImplementsIntakeSafely ==
  Spec => Intake!Init /\ [][Intake!Next]_(Intake!vars)
BY InitRefines, StepRefines, PipelineCorrect, PTL DEF Spec
=============================================================================
