---------------------------- MODULE ShardPipeline ----------------------------
(***************************************************************************)
(* The Manager's threads between the gRPC handlers and MySQL:              *)
(* SubmitWithFeedback in the handler threads, the HostShardExecutor with   *)
(* one bounded queue and one thread per shard, the PersistenceWorker with  *)
(* its bounded queue and single thread, and HostManager::Stop, which may   *)
(* run while handlers are still inside SubmitImpl.                         *)
(*                                                                         *)
(* What ProcessOne computes is the subject of SessionGate; here it either  *)
(* produces a PersistenceTask or not.  A request without a host name is    *)
(* refused before any state and is not among Requests.  A request of the   *)
(* untracked entry point has no promise: counting its completion changes   *)
(* nothing else.                                                           *)
(***************************************************************************)
EXTENDS Integers, Sequences, QueueItems

CONSTANTS
  Requests, Hosts, HostOf, Shards, ShardOf,
  ItemBytes, ShardMaxItems, ShardMaxBytes,
  TaskBytes, PersistMaxItems, PersistMaxBytes,
  None

ASSUME PipelineAssumption ==
  /\ HostOf \in [Requests -> Hosts]
  /\ ShardOf \in [Hosts -> Shards]
  /\ ItemBytes \in [Requests -> Nat] /\ TaskBytes \in [Requests -> Nat]
  /\ ShardMaxItems \in Nat /\ ShardMaxBytes \in Nat
  /\ PersistMaxItems \in Nat /\ PersistMaxBytes \in Nat
  /\ None \notin Requests

VARIABLES
  rpc,       \* where the handler of each request is
  verdict,   \* the DataReceiveResult it returns
  promise,   \* how often the request's promise has been completed
  accepting, \* HostShardExecutor::accepting_
  queue,     \* the queue of each shard
  stage,     \* what each shard thread is doing
  item,      \* the WorkItem it holds
  processed, \* history: the requests each shard has processed, in order
  pqueue,    \* the PersistenceWorker's queue
  ptask,     \* the task its thread holds
  pstage,    \* "run" or "exited"
  produced,  \* history: the requests ProcessOne made a task of
  persisted, \* history: the requests whose task was handed to MySQL
  stopper    \* where HostManager::Stop is

handlers == <<rpc, verdict>>
shards == <<stage, item, processed>>
persistence == <<pqueue, ptask, pstage, produced, persisted>>
vars == <<rpc, verdict, promise, accepting, queue, stage, item, processed,
          pqueue, ptask, pstage, produced, persisted, stopper>>

ShardQueue == INSTANCE BoundedQueue WITH
  Weight <- ItemBytes, MaxItems <- ShardMaxItems, MaxBytes <- ShardMaxBytes
PersistQueue == INSTANCE BoundedQueue WITH
  Weight <- TaskBytes, MaxItems <- PersistMaxItems, MaxBytes <- PersistMaxBytes

ShardFor(r) == ShardOf[HostOf[r]]

Init == /\ rpc = [r \in Requests |-> "idle"]
        /\ verdict = [r \in Requests |-> "none"]
        /\ promise = [r \in Requests |-> 0]
        /\ accepting = TRUE
        /\ queue = [s \in Shards |-> ShardQueue!New]
        /\ stage = [s \in Shards |-> "pop"]
        /\ item = [s \in Shards |-> None]
        /\ processed = [s \in Shards |-> <<>>]
        /\ pqueue = PersistQueue!New
        /\ ptask = None
        /\ pstage = "run"
        /\ produced = {}
        /\ persisted = {}
        /\ stopper = "running"

-----------------------------------------------------------------------------
(* A gRPC handler thread in SubmitWithFeedback and SubmitImpl. *)

Return(r, result) == /\ rpc' = [rpc EXCEPT ![r] = "done"]
                     /\ verdict' = [verdict EXCEPT ![r] = result]

SetPromise(r) == promise' = [promise EXCEPT ![r] = @ + 1]

\* The first look at accepting_.
Admit(r) ==
  /\ rpc[r] = "idle"
  /\ IF accepting
       THEN /\ rpc' = [rpc EXCEPT ![r] = "pushing"]
            /\ UNCHANGED <<verdict, promise>>
       ELSE Return(r, "stopping") /\ SetPromise(r)
  /\ UNCHANGED <<accepting, queue, shards, persistence, stopper>>

TryPush(r) ==
  /\ rpc[r] = "pushing"
  /\ LET s == ShardFor(r) IN
     IF ShardQueue!CanPush(queue[s], r)
       THEN /\ queue' = [queue EXCEPT ![s] = ShardQueue!Push(@, r)]
            /\ rpc' = [rpc EXCEPT ![r] = "waiting"]
            /\ verdict' = [verdict EXCEPT ![r] = "accepted"]
       ELSE /\ rpc' = [rpc EXCEPT ![r] = "failed"]
            /\ UNCHANGED <<queue, verdict>>
  /\ UNCHANGED <<promise, accepting, shards, persistence, stopper>>

\* Mutant of Refuse: a failed push always counts as a full queue.
RefuseAsFull(r) ==
  /\ rpc[r] = "failed"
  /\ Return(r, "queue_full")
  /\ SetPromise(r)
  /\ UNCHANGED <<accepting, queue, shards, persistence, stopper>>

\* The second look at accepting_ tells a full queue from a closed one.
Refuse(r) ==
  /\ rpc[r] = "failed"
  /\ Return(r, IF accepting THEN "queue_full" ELSE "stopping")
  /\ SetPromise(r)
  /\ UNCHANGED <<accepting, queue, shards, persistence, stopper>>

\* wait_until ends because the result is there or because the deadline passed;
\* either way the handler returns kAccepted.
Answer(r) ==
  /\ rpc[r] = "waiting"
  /\ rpc' = [rpc EXCEPT ![r] = "done"]
  /\ UNCHANGED <<verdict, promise, accepting, queue, shards, persistence,
                 stopper>>

-----------------------------------------------------------------------------
(* A shard thread in RunShard. *)

Take(s) ==
  /\ stage[s] = "pop"
  /\ ShardQueue!CanPop(queue[s])
  /\ item' = [item EXCEPT ![s] = Head(queue[s].items)]
  /\ queue' = [queue EXCEPT ![s] = ShardQueue!Pop(@)]
  /\ \E next \in {"enqueue", "complete"} :
       stage' = [stage EXCEPT ![s] = next]
  /\ UNCHANGED <<handlers, promise, accepting, processed, persistence, stopper>>

\* ProcessOne waits in PersistenceWorker::Enqueue while the queue has no room.
Enqueue(s) ==
  /\ stage[s] = "enqueue"
  /\ ~PersistQueue!MustWait(pqueue, item[s])
  /\ IF PersistQueue!CanPush(pqueue, item[s])
       THEN pqueue' = PersistQueue!Push(pqueue, item[s])
       ELSE UNCHANGED pqueue
  /\ produced' = produced \cup {item[s]}
  /\ stage' = [stage EXCEPT ![s] = "complete"]
  /\ UNCHANGED <<handlers, promise, accepting, queue, item, processed, ptask,
                 pstage, persisted, stopper>>

\* Mutant of Complete: the next timeout falls through with the item still set.
CompleteAgain(s) ==
  /\ stage[s] = "complete"
  /\ SetPromise(item[s])
  /\ processed' = [processed EXCEPT ![s] = Append(@, item[s])]
  /\ UNCHANGED <<handlers, accepting, queue, stage, item, persistence, stopper>>

\* ProcessOne has returned: the waiting handler, if any is left, is answered.
Complete(s) ==
  /\ stage[s] = "complete"
  /\ SetPromise(item[s])
  /\ processed' = [processed EXCEPT ![s] = Append(@, item[s])]
  /\ item' = [item EXCEPT ![s] = None]
  /\ stage' = [stage EXCEPT ![s] = "pop"]
  /\ UNCHANGED <<handlers, accepting, queue, persistence, stopper>>

\* Mutant of Exit: a closed queue ends the thread even with samples in it.
ExitWhenClosed(s) ==
  /\ stage[s] = "pop"
  /\ queue[s].closed
  /\ stage' = [stage EXCEPT ![s] = "exited"]
  /\ UNCHANGED <<handlers, promise, accepting, queue, item, processed,
                 persistence, stopper>>

Exit(s) ==
  /\ stage[s] = "pop"
  /\ ShardQueue!Drained(queue[s])
  /\ stage' = [stage EXCEPT ![s] = "exited"]
  /\ UNCHANGED <<handlers, promise, accepting, queue, item, processed,
                 persistence, stopper>>

-----------------------------------------------------------------------------
(* The persistence thread in PersistenceWorker::Run. *)

PersistTake ==
  /\ pstage = "run"
  /\ ptask = None
  /\ PersistQueue!CanPop(pqueue)
  /\ ptask' = Head(pqueue.items)
  /\ pqueue' = PersistQueue!Pop(pqueue)
  /\ UNCHANGED <<handlers, promise, accepting, queue, shards, pstage, produced,
                 persisted, stopper>>

PersistTask ==
  /\ ptask # None
  /\ persisted' = persisted \cup {ptask}
  /\ ptask' = None
  /\ UNCHANGED <<handlers, promise, accepting, queue, shards, pqueue, pstage,
                 produced, stopper>>

\* Mutant of PersistExit: an empty queue ends the thread.
PersistExitWhenEmpty ==
  /\ pstage = "run"
  /\ ptask = None
  /\ pqueue.items = <<>>
  /\ pstage' = "exited"
  /\ UNCHANGED <<handlers, promise, accepting, queue, shards, pqueue, ptask,
                 produced, persisted, stopper>>

PersistExit ==
  /\ pstage = "run"
  /\ ptask = None
  /\ PersistQueue!Drained(pqueue)
  /\ pstage' = "exited"
  /\ UNCHANGED <<handlers, promise, accepting, queue, shards, pqueue, ptask,
                 produced, persisted, stopper>>

-----------------------------------------------------------------------------
(* HostManager::Stop: executor first, then the persistence worker. *)

StopAccepting ==
  /\ stopper = "running"
  /\ accepting' = FALSE
  /\ stopper' = "closing"
  /\ UNCHANGED <<handlers, promise, queue, shards, persistence>>

CloseShard(s) ==
  /\ stopper = "closing"
  /\ ~queue[s].closed
  /\ queue' = [queue EXCEPT ![s] = ShardQueue!Close(@)]
  /\ UNCHANGED <<handlers, promise, accepting, shards, persistence, stopper>>

\* Mutant of ClosePersistence: the shard threads are not waited for.
ClosePersistenceEarly ==
  /\ stopper = "closing"
  /\ \A s \in Shards : queue[s].closed
  /\ pqueue' = PersistQueue!Close(pqueue)
  /\ stopper' = "joining"
  /\ UNCHANGED <<handlers, promise, accepting, queue, shards, ptask, pstage,
                 produced, persisted>>

\* Every shard thread has been joined before the persistence queue is closed.
ClosePersistence ==
  /\ stopper = "closing"
  /\ \A s \in Shards : queue[s].closed /\ stage[s] = "exited"
  /\ pqueue' = PersistQueue!Close(pqueue)
  /\ stopper' = "joining"
  /\ UNCHANGED <<handlers, promise, accepting, queue, shards, ptask, pstage,
                 produced, persisted>>

Stopped ==
  /\ stopper = "joining"
  /\ pstage = "exited"
  /\ stopper' = "stopped"
  /\ UNCHANGED <<handlers, promise, accepting, queue, shards, persistence>>

-----------------------------------------------------------------------------
Handler(r) == Admit(r) \/ TryPush(r) \/ Refuse(r) \/ Answer(r)
RunShard(s) == Take(s) \/ Enqueue(s) \/ Complete(s) \/ Exit(s)
RunPersistence == PersistTake \/ PersistTask \/ PersistExit
Stop == \/ \E s \in Shards : CloseShard(s)
        \/ ClosePersistence
        \/ Stopped

Next == \/ \E r \in Requests : Handler(r)
        \/ \E s \in Shards : RunShard(s)
        \/ RunPersistence
        \/ StopAccepting
        \/ Stop

\* The operating system runs every thread that can run; nobody has to send a
\* request or to stop the Manager.
Fairness ==
  /\ \A r \in Requests : WF_vars(rpc[r] # "idle" /\ Handler(r))
  /\ \A s \in Shards : WF_vars(RunShard(s))
  /\ WF_vars(RunPersistence)
  /\ WF_vars(Stop)

Spec == Init /\ [][Next]_vars /\ Fairness

-----------------------------------------------------------------------------
Codes == {"none", "accepted", "queue_full", "stopping"}

\* Types, and both queues within their item and byte budgets.
TypeOK ==
  /\ rpc \in [Requests -> {"idle", "pushing", "failed", "waiting", "done"}]
  /\ verdict \in [Requests -> Codes]
  /\ promise \in [Requests -> Nat]
  /\ accepting \in BOOLEAN
  /\ \A s \in Shards : /\ queue[s].items \in Seq(Requests)
                       /\ ShardQueue!Bounded(queue[s])
                       /\ processed[s] \in Seq(Requests)
  /\ stage \in [Shards -> {"pop", "enqueue", "complete", "exited"}]
  /\ item \in [Shards -> Requests \cup {None}]
  /\ PersistQueue!Bounded(pqueue)
  /\ ptask \in Requests \cup {None}
  /\ pstage \in {"run", "exited"}
  /\ persisted \subseteq produced /\ produced \subseteq Requests
  /\ stopper \in {"running", "closing", "joining", "stopped"}

\* A promise is completed at most once - a second set_value would throw in the
\* shard thread and end the process - and the handler of a request that is not
\* in the pipeline finds it completed.
PromiseOnce ==
  \A r \in Requests :
    /\ promise[r] <= 1
    /\ verdict[r] \in {"queue_full", "stopping"} => promise[r] = 1
    /\ promise[r] = 1 /\ verdict[r] = "accepted" =>
         \E i \in DOMAIN processed[ShardFor(r)] : processed[ShardFor(r)][i] = r

\* RESOURCE_EXHAUSTED, which asks the Worker to come again, is returned only
\* while the shard's queue is open; once it is closed the answer is UNAVAILABLE.
QueueFullWhileOpen ==
  [][\A r \in Requests :
       verdict[r] = "none" /\ verdict'[r] = "queue_full"
         => ~queue[ShardFor(r)].closed]_vars

\* Stop loses nothing: once it has returned, every accepted sample has been
\* processed and every task has reached MySQL's thread, except one larger than
\* the whole byte budget - in particular Stop never closes the persistence
\* queue under a shard that is still draining.
NothingLostOnStop ==
  stopper = "stopped" =>
    /\ \A r \in Requests :
         verdict[r] = "accepted" =>
           \E i \in DOMAIN processed[ShardFor(r)] : processed[ShardFor(r)][i] = r
    /\ \A r \in produced \ persisted : ~PersistQueue!Fits(r)

\* Stop returns: no thread waits for another one for ever.
StopEnds == stopper = "closing" ~> stopper = "stopped"

-----------------------------------------------------------------------------
\* The refinement: a host's line is what its shard holds of it, the item being
\* processed first.
Holding(s) == IF item[s] = None THEN queue[s].items
              ELSE <<item[s]>> \o queue[s].items

Of(h, seq) == Among(seq, {r \in Requests : HostOf[r] = h})

Intake == INSTANCE OrderedIntake WITH
  verdict <- [r \in Requests |->
                IF verdict[r] \in {"queue_full", "stopping"} THEN "refused"
                ELSE verdict[r]],
  line <- [h \in Hosts |-> Of(h, Holding(ShardOf[h]))],
  done <- [h \in Hosts |-> Of(h, processed[ShardOf[h]])]

\* The threads together implement the intake the Manager promises: what was
\* accepted is processed exactly once and in its host's order, draining on Stop
\* included, and what was refused is never processed.
ImplementsIntake == Intake!Spec
=============================================================================
