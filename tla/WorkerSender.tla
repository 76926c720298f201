---------------------------- MODULE WorkerSender ----------------------------
(***************************************************************************)
(* MonitorPusher: the Worker's collecting thread (PushLoop, PushOnce), its *)
(* sending thread (SendLoop, SendWithRetry) and Stop, around the queue of  *)
(* SendQueue.                                                              *)
(*                                                                         *)
(* An RPC is issued in one step and answered in another; what the Manager  *)
(* makes of it is left open, so every status is possible.                  *)
(***************************************************************************)
EXTENDS Integers, Sequences, FiniteSets

CONSTANTS
  Sizes,        \* the serialized sizes a sample can have
  MaxItems,     \* sender_max_queue_items
  MaxBytes,     \* sender_max_queue_bytes
  MaxRetries,   \* sender_max_retries
  MaxSamples,   \* bound: the samples collected in a behaviour
  None

ASSUME SenderAssumption == /\ Sizes \subseteq Nat
                           /\ MaxItems \in Nat \ {0} /\ MaxBytes \in Nat \ {0}
                           /\ MaxRetries \in Nat
                           /\ MaxSamples \in Nat

Queue == INSTANCE SendQueue

Sample == [seq : 1..MaxSamples, bytes : Sizes, priority : BOOLEAN]

VARIABLES
  running,     \* running_
  collector,   \* "off", "loop", "collect", "sleep" or "exited"
  nextSeq,     \* next_sample_sequence_
  queue,       \* send_queue_
  sender,      \* "off", "pop", "check", "rpc", "reply", "backoff", "exited"
  sending,     \* the sample SendWithRetry holds, or None
  attempt,     \* its loop counter
  stopper,     \* where Start and Stop are
  tried,       \* history: the samples some RPC was issued for
  overdue      \* history: the RPCs issued since Stop began

vars == <<running, collector, nextSeq, queue, sender, sending, attempt,
          stopper, tried, overdue>>

collecting == <<collector, nextSeq>>
transmission == <<sender, sending, attempt, tried, overdue>>

Init == /\ running = FALSE
        /\ collector = "off"
        /\ nextSeq = 1
        /\ queue = Queue!New
        /\ sender = "off"
        /\ sending = None
        /\ attempt = 0
        /\ stopper = "new"
        /\ tried = {}
        /\ overdue = 0

\* The queue is open before either thread exists.
Start == /\ stopper = "new"
         /\ running' = TRUE
         /\ queue' = Queue!Open(queue)
         /\ sender' = "pop"
         /\ collector' = "loop"
         /\ stopper' = "started"
         /\ UNCHANGED <<nextSeq, sending, attempt, tried, overdue>>

-----------------------------------------------------------------------------
(* The collecting thread. *)

PushLoop ==
  /\ collector = "loop"
  /\ collector' = IF running THEN "collect" ELSE "exited"
  /\ UNCHANGED <<running, nextSeq, queue, transmission, stopper>>

\* A sample that could not be collected uses up no sequence number.
CollectFails ==
  /\ collector = "collect"
  /\ collector' = "sleep"
  /\ UNCHANGED <<running, nextSeq, queue, transmission, stopper>>

PushOnce ==
  /\ collector = "collect"
  /\ nextSeq <= MaxSamples
  /\ \E size \in Sizes, priority \in BOOLEAN :
       queue' = Queue!Push(queue, [seq |-> nextSeq, bytes |-> size,
                                   priority |-> priority])
  /\ nextSeq' = nextSeq + 1
  /\ collector' = "sleep"
  /\ UNCHANGED <<running, transmission, stopper>>

\* The interval is over, or a slice of it found running_ cleared.
WaitForNextSample ==
  /\ collector = "sleep"
  /\ collector' = "loop"
  /\ UNCHANGED <<running, nextSeq, queue, transmission, stopper>>

-----------------------------------------------------------------------------
(* The sending thread. *)

Pop ==
  /\ sender = "pop"
  /\ Queue!CanPop(queue)
  /\ sending' = Head(queue.items)
  /\ queue' = Queue!Pop(queue)
  /\ attempt' = 0
  /\ sender' = "check"
  /\ UNCHANGED <<running, collecting, stopper, tried, overdue>>

SendLoopEnds ==
  /\ sender = "pop"
  /\ Queue!Drained(queue)
  /\ sender' = "exited"
  /\ UNCHANGED <<running, collecting, queue, sending, attempt, stopper, tried,
                 overdue>>

\* SendWithRetry returns, and SendLoop goes on with the next sample.
Give == sending' = None /\ attempt' = 0 /\ sender' = "pop"

\* Mutant of CheckRunning: running_ is not read before an attempt.
CheckNothing ==
  /\ sender = "check"
  /\ sender' = "rpc"
  /\ UNCHANGED <<running, collecting, queue, stopper, sending, attempt, tried,
                 overdue>>

\* running_ is read before every attempt.
CheckRunning ==
  /\ sender = "check"
  /\ IF running THEN sender' = "rpc" /\ UNCHANGED <<sending, attempt>>
                ELSE Give
  /\ UNCHANGED <<running, collecting, queue, stopper, tried, overdue>>

SetMonitorInfo ==
  /\ sender = "rpc"
  /\ sender' = "reply"
  /\ tried' = tried \cup {sending}
  /\ overdue' = IF running THEN overdue ELSE overdue + 1
  /\ UNCHANGED <<running, collecting, queue, sending, attempt, stopper>>

\* OK, or a status that is not worth a retry, or one retry too many.
Finish ==
  /\ sender = "reply"
  /\ Give
  /\ UNCHANGED <<running, collecting, queue, stopper, tried, overdue>>

\* UNAVAILABLE, DEADLINE_EXCEEDED or RESOURCE_EXHAUSTED.
Retry ==
  /\ sender = "reply"
  /\ attempt < MaxRetries
  /\ sender' = "backoff"
  /\ UNCHANGED <<running, collecting, queue, sending, attempt, stopper, tried,
                 overdue>>

\* wait_for is over: woken by Stop, or by its timeout.
WaitForRetry ==
  /\ sender = "backoff"
  /\ IF running
       THEN attempt' = attempt + 1 /\ sender' = "check" /\ UNCHANGED sending
       ELSE Give
  /\ UNCHANGED <<running, collecting, queue, stopper, tried, overdue>>

-----------------------------------------------------------------------------
(* Stop, called once by the thread that started the pusher. *)

Stop ==
  /\ stopper = "started"
  /\ running' = FALSE
  /\ stopper' = "join_collector"
  /\ UNCHANGED <<collecting, queue, transmission>>

\* Mutant of CloseQueue: only the collecting thread is told to end.
CloseNothing ==
  /\ stopper = "join_collector"
  /\ collector = "exited"
  /\ stopper' = "join_sender"
  /\ UNCHANGED <<running, collecting, queue, transmission>>

\* The collecting thread has been joined: nobody pushes any more.
CloseQueue ==
  /\ stopper = "join_collector"
  /\ collector = "exited"
  /\ queue' = Queue!Close(queue)
  /\ stopper' = "join_sender"
  /\ UNCHANGED <<running, collecting, transmission>>

Stopped ==
  /\ stopper = "join_sender"
  /\ sender = "exited"
  /\ stopper' = "stopped"
  /\ UNCHANGED <<running, collecting, queue, transmission>>

-----------------------------------------------------------------------------
Collecting == PushLoop \/ CollectFails \/ PushOnce \/ WaitForNextSample

Sending == \/ Pop \/ SendLoopEnds
           \/ CheckRunning \/ SetMonitorInfo
           \/ Finish \/ Retry
           \/ WaitForRetry

Stopping == CloseQueue \/ Stopped

Next == Start \/ Collecting \/ Sending \/ Stop \/ Stopping

\* Both threads run, every RPC ends by its deadline and every wait by its
\* timeout; Start and Stop are the caller's choice.
Fairness == WF_vars(Collecting) /\ WF_vars(Sending) /\ WF_vars(Stopping)

Spec == Init /\ [][Next]_vars /\ Fairness

-----------------------------------------------------------------------------
\* Types, and the queue within its two budgets whatever the sizes were.
TypeOK ==
  /\ running \in BOOLEAN
  /\ collector \in {"off", "loop", "collect", "sleep", "exited"}
  /\ nextSeq \in 1..(MaxSamples + 1)
  /\ queue.items \in Seq(Sample)
  /\ queue.closed \in BOOLEAN
  /\ Queue!Bounded(queue)
  /\ sender \in {"off", "pop", "check", "rpc", "reply", "backoff", "exited"}
  /\ sending \in Sample \cup {None}
  /\ attempt \in 0..MaxRetries
  /\ stopper \in {"new", "started", "join_collector", "join_sender", "stopped"}
  /\ tried \subseteq Sample
  /\ overdue \in Nat

Queued == {queue.items[i] : i \in DOMAIN queue.items}

\* The samples of a Worker run reach the wire in the order they were taken -
\* the Manager's gate takes a sample that follows a newer one for stale - also
\* when evidence displaces base metrics and when samples are retried.
SentInOrder ==
  \A x \in tried : \A y \in Queued \cup ({sending} \ {None}) :
    x.seq <= y.seq /\ (x.seq = y.seq => y = sending)

\* Evidence that leaves the queue unsent made room for newer evidence, and
\* only when no base metric was left that could have.
EvidenceKept ==
  [][\A x \in Queued :
       x.priority /\ x \notin Queued' /\ sending' # x
         => /\ \A y \in Queued' : y.priority
            /\ \E y \in Queued' \ Queued : y.priority]_vars

\* However many samples are waiting and whatever the Manager answers, Stop is
\* followed by at most the one RPC that had already passed its check.
OneAttemptAfterStop == overdue <= 1

\* Stop returns.
StopEnds == stopper = "join_collector" ~> stopper = "stopped"

\* What the comments on Stop and SendLoop say: a sample that is still queued
\* when Stop closes the queue is sent before the sending thread exits.
RestIsSent ==
  \A x \in Sample :
    (stopper = "join_sender" /\ x \in Queued) ~> x \in tried
=============================================================================
