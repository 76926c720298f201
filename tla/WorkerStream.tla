---------------------------- MODULE WorkerStream ----------------------------
(***************************************************************************)
(* One Worker and the gate of the Manager: the samples of SendWithRetry    *)
(* travel as rpcs that can be lost, late or handled twice, the Worker can  *)
(* be restarted, which gives it a new session, and so can the Manager,     *)
(* which forgets everything.  SessionGate says what ProcessOne does with   *)
(* a copy that arrives.                                                    *)
(*                                                                         *)
(* A copy is in the network from the call to its turn in the shard, queues *)
(* and threads of the Manager included.  Its handler may outlive the call, *)
(* whose deadline is over, and the process that made it.                   *)
(***************************************************************************)
EXTENDS SessionGate

CONSTANTS
  MaxRuns,       \* bound: the runs of the Worker; a run is its session
  MaxSeq,        \* bound: the samples of a run
  MaxAttempts,   \* the calls for one sample (1 + sender_max_retries)
  MaxInFlight,   \* bound: copies under way
  MaxManagerRestarts  \* bound

Runs == 1..MaxRuns

\* A session is modern, and its samples are told apart by their sequence.
SampleOf(r, n) == [session |-> r, seq |-> n, ts |-> n, valid |-> TRUE]

ASSUME StreamAssumption ==
  /\ {MaxRuns, MaxSeq, MaxAttempts, MaxInFlight} \subseteq Nat \ {0}
  /\ MaxManagerRestarts \in Nat

\* What the gate is given.  It is not assumed here, so that what is proved of the
\* gate alone holds for any samples.
StreamSamples == /\ Samples = {SampleOf(r, n) : r \in Runs, n \in 1..MaxSeq}
                 /\ NoSession \notin Runs

VARIABLES
  run,        \* the live run, sample_session_id_
  sending,    \* the sequence SendWithRetry has last worked on, 0 before the first
  attempt,    \* the calls made for it
  network,    \* the copies under way
  restarts    \* bound: restarts of the Manager

gate == <<latest, retired, entries, engine, perf, hostScore, scoreOld, feedback,
          accepted, computed, forgotten>>
worker == <<run, sending, attempt>>
streamVars == <<gate, worker, network, restarts>>

StreamInit == /\ Init
              /\ run = 1
              /\ sending = 0
              /\ attempt = 0
              /\ network = {}
              /\ restarts = 0

Call(n, a) == /\ Cardinality(network) < MaxInFlight
              /\ sending' = n
              /\ attempt' = a
              /\ network' = network \cup {[session |-> run, seq |-> n, attempt |-> a]}
              /\ UNCHANGED <<run, gate, restarts>>

\* The sample before was answered or given up; the queue may have dropped some.
SendNext == \E n \in 1..MaxSeq : n > sending /\ Call(n, 1)

\* The call failed or its deadline passed, whatever became of its copy.
Retry == sending # 0 /\ attempt < MaxAttempts /\ Call(sending, attempt + 1)

\* The process starts again, with a session of its own.
WorkerRestart == /\ run < MaxRuns
                 /\ run' = run + 1
                 /\ sending' = 0
                 /\ attempt' = 0
                 /\ UNCHANGED <<gate, network, restarts>>

Deliver == \E c \in network :
  /\ ProcessOne(SampleOf(c.session, c.seq))
  /\ network' = network \ {c}
  /\ UNCHANGED <<worker, restarts>>

Lose == \E c \in network :
  /\ network' = network \ {c}
  /\ UNCHANGED <<gate, worker, restarts>>

\* Handlers die with the process; calls that have not reached it do not.
ManagerRestart ==
  /\ restarts < MaxManagerRestarts
  /\ restarts' = restarts + 1
  /\ latest' = NoStamp /\ retired' = <<>> /\ entries' = <<>>
  /\ engine' = "none" /\ perf' = FALSE
  /\ hostScore' = "absent" /\ scoreOld' = FALSE /\ feedback' = {}
  /\ accepted' = {} /\ computed' = {} /\ forgotten' = {}
  /\ network' \in SUBSET network
  /\ UNCHANGED worker

\* Time passes for the shard; host_scores_ is not looked at here.
Idles == EngineIdles /\ UNCHANGED <<worker, network, restarts>>

Maintains == MaintainShard /\ UNCHANGED <<worker, network, restarts>>

StreamNext == \/ SendNext \/ Retry \/ WorkerRestart
              \/ Deliver \/ Lose
              \/ ManagerRestart
              \/ Idles \/ Maintains

\* The Manager refuses whatever the live run sends.
Blocked == \E i \in DOMAIN retired : retired[i] = run

\* No sample of the live run reaches the engine meanwhile, and those of others
\* come to an end: health_max_idle passes.  The shard runs its timed callback.
StreamSpec ==
  /\ StreamInit /\ [][StreamNext]_streamVars
  /\ WF_streamVars(Blocked /\ Idles)
  /\ WF_streamVars(Maintains)

-----------------------------------------------------------------------------
Heard == {p \in accepted : p.session = run}

\* A restarted Worker, and one whose samples were lost or repeated, is heard at
\* once: a sample newer than what the gate has accepted of the live run passes,
\* unless a late sample of another run was accepted after them (ProcessOne).
LiveIsHeard ==
  (Heard = {} \/ latest.session = run) =>
    \A c \in network :
      c.session = run /\ (\A p \in Heard : c.seq > p.seq)
        => PassesGate(SampleOf(c.session, c.seq))

\* A live session that a late sample of another run has retired is not locked out
\* for good: the engine that nobody feeds is evicted, and the gate with it.
GateComesBack == Blocked ~> ~Blocked
=============================================================================
