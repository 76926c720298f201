------------------------- MODULE IncidentPersistence -------------------------
(***************************************************************************)
(* The incidents of the Manager: IncidentStore, which follows each host's  *)
(* episode in memory, the task that carries every observation through the  *)
(* persistence queue, DiagnosticPersistence::Save, and the degraded flag   *)
(* by which QueryService chooses between MySQL and memory.                 *)
(*                                                                         *)
(* Severity, causes and evidence are one number, rev, that grows with each *)
(* observation up to MaxRev (an observation may equal the one before).     *)
(* start stands for start_time and is fresh for each incident, as long as  *)
(* the Manager's clock is not set back and two incidents of one host start *)
(* in different milliseconds: with the host it is incident_key.            *)
(* Tasks without an incident are in ShardPipeline.                         *)
(***************************************************************************)
EXTENDS Integers, SequencesExt

CONSTANTS
  Hosts,
  MaxHistory,      \* max_history_
  QueueCapacity,   \* the persistence queue's item capacity
  MaxRev,          \* bound: observations of an incident that are told apart
  MaxIncidents,    \* bound: incidents opened in a behaviour
  MaxCrashes,      \* bound: crashes in a behaviour
  None

ASSUME IncidentAssumption ==
  /\ MaxHistory \in Nat \ {0}
  /\ QueueCapacity \in Nat \ {0}
  /\ MaxRev \in Nat \ {0}
  /\ MaxIncidents \in Nat
  /\ MaxCrashes \in Nat

Starts == 1..MaxIncidents
Incident == [id : Starts, host : Hosts, start : Starts, rev : 1..MaxRev,
             active : BOOLEAN]
Row == [host : Hosts, rev : 1..MaxRev, active : BOOLEAN]
Saving == [incident : Incident, step : {"save", "saved", "failed"}]

\* None is told apart from everything it stands in for.
ASSUME NoneAssumption == None \notin Incident /\ None \notin Row /\ None \notin Saving

VARIABLES
  active,        \* active_: the incident of a host, or None
  history,       \* history_
  nextId,        \* next_id_
  handing,       \* the task a shard thread is about to enqueue for a host
  queue,         \* the persistence queue
  saver,         \* the persistence thread: None, or in Saving
  rows,          \* diagnostic_incident: the row of a key, or None
  initialized,   \* DiagnosticPersistence could connect
  pending,       \* pending_incidents_
  opened,        \* bound and source of start: the incidents opened so far
  crashes,
  healthy,       \* from now on MySQL works and the Manager does not crash
  known,         \* history: the last observation of each start of this run
  dropped        \* history: the starts whose last observation was rejected

store == <<active, history, nextId, opened>>
pipe == <<handing, queue, saver>>
flag == <<initialized, pending>>
ghosts == <<known, dropped>>
vars == <<store, pipe, rows, flag, crashes, healthy, ghosts>>

Degraded == ~initialized \/ pending # {}

Nobody == [h \in Hosts |-> None]

Init == /\ active = Nobody
        /\ history = <<>>
        /\ nextId = 1
        /\ handing = Nobody
        /\ queue = <<>>
        /\ saver = None
        /\ rows = [s \in Starts |-> None]
        /\ initialized \in BOOLEAN
        /\ pending = {}
        /\ opened = 0
        /\ crashes = 0
        /\ healthy = FALSE
        /\ known = [s \in Starts |-> None]
        /\ dropped = {}

-----------------------------------------------------------------------------
(* IncidentStore::Observe in a shard thread, for a sample with diagnosis.  *)
(* The thread then enqueues the task before it takes its next sample.      *)

Hands(incident) ==
  /\ handing' = [handing EXCEPT ![incident.host] = incident]
  /\ known' = [known EXCEPT ![incident.start] = incident]

Open(h) ==
  /\ active[h] = None
  /\ opened < MaxIncidents
  /\ LET incident == [id |-> nextId, host |-> h, start |-> opened + 1,
                      rev |-> 1, active |-> TRUE]
     IN /\ active' = [active EXCEPT ![h] = incident]
        /\ Hands(incident)
  /\ nextId' = nextId + 1
  /\ opened' = opened + 1
  /\ UNCHANGED history

Continue(h) ==
  /\ active[h] # None
  /\ LET incident == [active[h] EXCEPT !.rev = IF @ < MaxRev THEN @ + 1 ELSE @]
     IN /\ active' = [active EXCEPT ![h] = incident]
        /\ Hands(incident)
  /\ UNCHANGED <<history, nextId, opened>>

\* Mutant of AddHistory: nothing ever leaves the history.
AddHistoryUnbounded(incident) == history' = Append(history, incident)

\* The oldest closed incidents are forgotten.
AddHistory(incident) ==
  LET all == Append(history, incident)
  IN history' = IF Len(all) > MaxHistory THEN Tail(all) ELSE all

\* Mutant of Recover: the closed incident stays in active_.
RecoverKeepingActive(h) ==
  /\ active[h] # None
  /\ LET incident == [active[h] EXCEPT !.active = FALSE]
     IN AddHistory(incident) /\ Hands(incident)
  /\ UNCHANGED <<active, nextId, opened>>

\* No root cause is left.
Recover(h) ==
  /\ active[h] # None
  /\ LET incident == [active[h] EXCEPT !.active = FALSE]
     IN AddHistory(incident) /\ Hands(incident)
  /\ active' = [active EXCEPT ![h] = None]
  /\ UNCHANGED <<nextId, opened>>

Observe(h) ==
  /\ handing[h] = None
  /\ Open(h) \/ Continue(h) \/ Recover(h)
  /\ UNCHANGED <<queue, saver, rows, flag, crashes, healthy, dropped>>

\* PersistenceWorker::Enqueue waits for room.
Enqueue(h) ==
  /\ handing[h] # None
  /\ Len(queue) < QueueCapacity
  /\ queue' = Append(queue, handing[h])
  /\ handing' = [handing EXCEPT ![h] = None]
  /\ dropped' = dropped \ {handing[h].start}
  /\ UNCHANGED <<store, saver, rows, flag, crashes, healthy, known>>

\* A task that is larger than the byte budget is rejected and only counted.
Reject(h) ==
  /\ handing[h] # None
  /\ handing' = [handing EXCEPT ![h] = None]
  /\ dropped' = dropped \cup {handing[h].start}
  /\ UNCHANGED <<store, queue, saver, rows, flag, crashes, healthy, known>>

-----------------------------------------------------------------------------
(* HostManager::PersistTask in the persistence thread. *)

\* Mutant of TakeOldest: the newest task first.
TakeNewest == queue' = Front(queue) /\ saver' = [incident |-> Last(queue), step |-> "save"]

TakeOldest == queue' = Tail(queue) /\ saver' = [incident |-> Head(queue), step |-> "save"]

Take ==
  /\ saver = None
  /\ queue # <<>>
  /\ TakeOldest
  /\ UNCHANGED <<store, handing, rows, flag, crashes, healthy, ghosts>>

RowOf(incident) ==
  [host |-> incident.host, rev |-> incident.rev, active |-> incident.active]

\* The transaction commits; an error may still be all the Manager hears of it.
Save ==
  /\ saver # None
  /\ saver.step = "save"
  /\ \/ /\ initialized
        /\ rows' = [rows EXCEPT ![saver.incident.start] = RowOf(saver.incident)]
        /\ \/ saver' = [saver EXCEPT !.step = "saved"]
           \/ ~healthy /\ saver' = [saver EXCEPT !.step = "failed"]
     \/ /\ ~initialized \/ ~healthy
        /\ saver' = [saver EXCEPT !.step = "failed"]
        /\ UNCHANGED rows
  /\ UNCHANGED <<store, handing, queue, flag, crashes, healthy, ghosts>>

\* Mutant of RecordSave: any success clears the flag.
RecordSaveClearing(id, succeeded) ==
  pending' = IF ~initialized THEN pending
             ELSE IF succeeded THEN {} ELSE pending \cup {id}

\* Mutant of RecordSave: what has failed once stays pending.
RecordSaveSticky(id, succeeded) ==
  pending' = IF ~initialized \/ succeeded THEN pending ELSE pending \cup {id}

RecordSave(id, succeeded) ==
  pending' = IF ~initialized THEN pending
             ELSE IF succeeded THEN pending \ {id} ELSE pending \cup {id}

Recorded ==
  /\ saver # None
  /\ saver.step \in {"saved", "failed"}
  /\ RecordSave(saver.incident.id, saver.step = "saved")
  /\ saver' = None
  /\ UNCHANGED <<store, handing, queue, rows, initialized, crashes, healthy, ghosts>>

-----------------------------------------------------------------------------
\* The Manager dies and starts again; only MySQL is left of what it knew.
Crash ==
  /\ ~healthy
  /\ crashes < MaxCrashes
  /\ crashes' = crashes + 1
  /\ active' = Nobody
  /\ history' = <<>>
  /\ nextId' = 1
  /\ handing' = Nobody
  /\ queue' = <<>>
  /\ saver' = None
  /\ initialized' \in BOOLEAN
  /\ pending' = {}
  /\ known' = [s \in Starts |-> None]
  /\ dropped' = {}
  /\ UNCHANGED <<rows, opened, healthy>>

GetWell ==
  /\ ~healthy
  /\ healthy' = TRUE
  /\ UNCHANGED <<store, pipe, rows, flag, crashes, ghosts>>

Persisting == Take \/ Save \/ Recorded

Next == \/ \E h \in Hosts : Observe(h) \/ Enqueue(h) \/ Reject(h)
        \/ Persisting
        \/ Crash
        \/ GetWell

\* Workers go on sampling, shard threads and the persistence thread run, and a
\* thread that waits for room in the queue gets it in the end.
Spec == /\ Init /\ [][Next]_vars
        /\ WF_vars(Persisting)
        /\ \A h \in Hosts : WF_vars(Observe(h)) /\ SF_vars(Enqueue(h))

-----------------------------------------------------------------------------
\* The history and the persistence queue stay within their bounds, and every
\* value is of its type (IncidentStore::AddHistory, BoundedQueue::Push).
TypeOK ==
  /\ active \in [Hosts -> Incident \cup {None}]
  /\ history \in Seq(Incident) /\ Len(history) <= MaxHistory
  /\ nextId \in 1..(MaxIncidents + 1)
  /\ handing \in [Hosts -> Incident \cup {None}]
  /\ queue \in Seq(Incident) /\ Len(queue) <= QueueCapacity
  /\ saver \in Saving \cup {None}
  /\ rows \in [Starts -> Row \cup {None}]
  /\ initialized \in BOOLEAN
  /\ pending \subseteq Starts
  /\ opened \in 0..MaxIncidents
  /\ crashes \in 0..MaxCrashes
  /\ healthy \in BOOLEAN
  /\ known \in [Starts -> Incident \cup {None}]
  /\ dropped \subseteq Starts

ActiveOnes == {active[h] : h \in Hosts} \ {None}

\* The incidents of this run, wherever they are, the tasks on their way included.
Everywhere == ActiveOnes \cup ToSet(history) \cup ToSet(queue)
                \cup ({handing[h] : h \in Hosts} \ {None})
                \cup (IF saver = None THEN {} ELSE {saver.incident})

\* As long as the Manager runs, an id and a key mean the same one incident of one
\* host in memory and on the way to MySQL, where pending_incidents_ goes by the id
\* and the row by the key.  Get(id) finds one at most, and an incident listed as
\* active is nowhere closed, neither in the history nor in a task (IncidentStore).
EpisodesDistinct ==
  /\ \A x, y \in Everywhere :
       /\ x.id = y.id <=> x.start = y.start
       /\ x.id = y.id => x.host = y.host
  /\ \A x \in ActiveOnes, y \in Everywhere : x.id = y.id => y.active
  /\ \A x, y \in ActiveOnes : x.id = y.id => x = y
  /\ \A i, j \in DOMAIN history :
       ~history[i].active /\ (history[i].id = history[j].id => i = j)

\* A row only moves forward: an older observation never overwrites a newer one
\* and a closed incident is never shown as active again, retries of the client,
\* failed saves and crashes included.
RowsMoveForward ==
  [][\A s \in Starts : rows[s] # None =>
       /\ rows'[s] # None
       /\ rows'[s].rev >= rows[s].rev
       /\ ~rows[s].active => ~rows'[s].active]_vars

OnItsWay(s) == \/ \E h \in Hosts : handing[h] # None /\ handing[h].start = s
               \/ \E i \in DOMAIN queue : queue[i].start = s
               \/ saver # None /\ saver.incident.start = s

Durable(s) == rows[s] = RowOf(known[s])

\* When the flag says that MySQL can be asked, MySQL knows the last observation
\* of every incident of this run, except of those still on their way and of those
\* whose last task was rejected (RecordSave, IsDegraded, QueryService).
FlagCoversFailures ==
  ~Degraded => \A s \in Starts :
    known[s] # None /\ ~OnItsWay(s) /\ s \notin dropped => Durable(s)

Unsaved(s) == known[s] # None /\ known[s].id \in pending

Continues(s) == known[s] # None /\ known[s].active

\* An incident that could not be saved and is still observed does not keep the
\* Manager degraded once MySQL works: a later observation clears it.
PendingClears ==
  \A s \in Starts :
    (healthy /\ Unsaved(s) /\ Continues(s))
      ~> (~Unsaved(s) \/ ~Continues(s) \/ s \in dropped)

-----------------------------------------------------------------------------
\* monitor-system.workflow.persistence-query.json: when a save fails the incident
\* stays in memory and the flag makes QueryService choose - so that without the
\* flag MySQL has what is no longer on its way.
FlagCoversAll ==
  ~Degraded => \A s \in Starts :
    known[s] # None /\ ~OnItsWay(s) => Durable(s)
=============================================================================
