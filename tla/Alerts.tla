------------------------------- MODULE Alerts -------------------------------
(***************************************************************************)
(* The dashboard's alerts: the process polls the Manager for incidents,    *)
(* keeps one entry per episode in a Map of bounded size, notifies, takes   *)
(* acknowledgements, and has new episodes analysed one after the other.    *)
(*                                                                         *)
(* Everything between two awaits runs undisturbed, so an action is what    *)
(* happens from one await to the next.  What an rpc returns is what the    *)
(* Manager knew when it answered; it is used one or more actions later.    *)
(* Episodes are numbered by their start, and their ids are those of one    *)
(* source, MySQL or memory, throughout; `state' travels with severity and  *)
(* is left out, and so are reports.  An API key is configured: without it  *)
(* nothing is queued.                                                      *)
(***************************************************************************)
EXTENDS Integers, SequencesExt, QueueItems

CONSTANTS
  MaxEpisodes,  \* bound: the episodes of a behaviour, numbered by their start
  HostOf,       \* the host of each
  MaxSeverity,  \* the highest rank of severity (3)
  MaxAlerts,    \* entries kept in memory (100)
  MaxPending,   \* analyses that wait (50)
  PageSize,     \* the recent episodes a poll asks for (50)
  MaxEvents,    \* bound: changes of severity, requests for an analysis, and
                \* answers that lack every incident, in a behaviour
  None

ASSUME AlertsAssumption ==
  /\ MaxEpisodes \in Nat /\ DOMAIN HostOf = 1..MaxEpisodes
  /\ {MaxSeverity, MaxAlerts, MaxPending, PageSize} \subseteq Nat \ {0}
  /\ MaxEvents \in Nat
  /\ None \notin 1..MaxEpisodes

Episodes == 1..MaxEpisodes
Severity == 1..MaxSeverity
Snapshot == [key : Episodes, severity : Severity, active : BOOLEAN]

VARIABLES
  incidents,    \* the Manager: severity (0 before it starts) and active
  alerts,       \* alerts, in the order of insertion
  running,      \* running: the analysis of a key, and whether its entry is still in alerts
  pending,      \* pending
  draining,     \* the key whose analysis drain awaits, or None
  initialized,  \* initialized
  poll,         \* where poll is and what it has read
  asked,        \* the incident a user's request has read, or None
  told,         \* history: the highest severity that a notification named, or
                \* that an entry was created with silently
  renewed,      \* history: what the last change of alerts pushed out of it and
                \* took for new again
  events        \* bound

memory == <<alerts, running, told, renewed>>
queue == <<pending, draining>>
vars == <<incidents, memory, queue, initialized, poll, asked, events>>

Idle == [step |-> "idle", active |-> {}, recent |-> <<>>]

Init == /\ incidents = [e \in Episodes |-> [severity |-> 0, active |-> FALSE]]
        /\ alerts = <<>>
        /\ running = [e \in Episodes |-> "no"]
        /\ pending = <<>>
        /\ draining = None
        /\ initialized = FALSE
        /\ poll = Idle
        /\ asked = None
        /\ told = [e \in Episodes |-> 0]
        /\ renewed = {}
        /\ events = 0

Event == events < MaxEvents /\ events' = events + 1

-----------------------------------------------------------------------------
(* What the Manager answers. *)

Started == {e \in Episodes : incidents[e].severity > 0}
SnapshotOf(e) == [key |-> e, severity |-> incidents[e].severity,
                  active |-> incidents[e].active]
ActiveOnes == {SnapshotOf(e) : e \in {e \in Started : incidents[e].active}}

UpTo(n, s) == IF Len(s) > n THEN SubSeq(s, 1, n) ELSE s

\* Newest first, one page: the active ones and those that ended lately, but none
\* that started after the last full second, at which the range asked for ends.
RecentOnes ==
  LET closed == {e \in Started : ~incidents[e].active}
      newest(S) == Among([i \in Episodes |-> MaxEpisodes + 1 - i], S)
      listed(S) == [i \in DOMAIN UpTo(PageSize, newest(S)) |-> SnapshotOf(newest(S)[i])]
  IN {listed({e \in Started \ old : e <= last}) :
        old \in SUBSET closed, last \in 0..MaxEpisodes}

-----------------------------------------------------------------------------
(* The Map of alerts.  A memory is a record of alerts, running and told,   *)
(* and of the episodes pushed out in this step.                            *)

Memory == [alerts |-> alerts, running |-> running, told |-> told,
           evicted |-> {}]

Known(m, k) == \E i \in DOMAIN m.alerts : m.alerts[i].key = k

Keeps(m) == /\ alerts' = m.alerts
            /\ running' = m.running
            /\ told' = m.told
            /\ renewed' = {k \in m.evicted : Known(m, k)}

Index(m, k) == CHOOSE i \in DOMAIN m.alerts : m.alerts[i].key = k
Highest(a, b) == IF a > b THEN a ELSE b

\* Mutants of Escalated: names of severities compared instead of ranks, "HIGH"
\* sorting before "WARNING"; a severity that comes again is taken for a rise.
EscalatedByName(m, incident) ==
  /\ Known(m, incident.key)
  /\ incident.severity < m.alerts[Index(m, incident.key)].severity
EscalatedAgain(m, incident) ==
  /\ Known(m, incident.key)
  /\ incident.severity >= m.alerts[Index(m, incident.key)].severity

\* The comparison of ranks in remember, before the entry is overwritten.
Escalated(m, incident) ==
  /\ Known(m, incident.key)
  /\ incident.severity > m.alerts[Index(m, incident.key)].severity

Update(m, incident) ==
  LET i == Index(m, incident.key)
      old == m.alerts[i]
      escalated == Escalated(m, incident)
      new == [old EXCEPT !.severity = incident.severity,
                         !.active = incident.active,
                         !.ack = old.ack /\ ~escalated]
  IN [m EXCEPT
       !.alerts[i] = new,
       !.told[incident.key] = IF escalated THEN Highest(@, incident.severity) ELSE @]

\* Mutant of Evict: the size is compared with one more than the limit.
EvictLate(m) ==
  IF Len(m.alerts) <= MaxAlerts + 1 THEN m ELSE [m EXCEPT !.alerts = Tail(@)]

\* The oldest insertion makes room; an analysis of it goes on without its entry.
Evict(m) ==
  LET k == m.alerts[1].key
  IN IF Len(m.alerts) <= MaxAlerts THEN m
     ELSE [m EXCEPT !.alerts = Tail(@),
                    !.running[k] = IF @ = "attached" THEN "detached" ELSE @,
                    !.evicted = @ \cup {k}]

Create(m, incident, initial) ==
  LET k == incident.key
  IN Evict([m EXCEPT
       !.alerts = Append(@, [key |-> k, severity |-> incident.severity,
                             active |-> incident.active, ack |-> initial,
                             ai |-> "pending"]),
       !.told[k] = Highest(@, incident.severity)])

Remember(m, incident, initial) ==
  IF Known(m, incident.key) THEN Update(m, incident)
  ELSE Create(m, incident, initial)

\* analyze: remembers what it was called with, and starts unless it runs already
\* or, with again false, has ended: without `force' a report that is "ready"
\* is not made again, and one that "failed" is.
Analyze(m, incident, again) ==
  LET k == incident.key
      seen == Remember(m, incident, TRUE)
      i == Index(seen, k)
  IN IF \/ seen.running[k] # "no"
        \/ ~again /\ seen.alerts[i].ai = "done"
     THEN seen
     ELSE [seen EXCEPT !.alerts[i].ai = "analyzing", !.running[k] = "attached"]

\* drain, up to the next analysis it waits for.
Drain(m, waiting) ==
  IF waiting = <<>> THEN Keeps(m) /\ pending' = <<>> /\ draining' = None
  ELSE /\ \E analyzing \in {Analyze(m, Head(waiting), TRUE)} : Keeps(analyzing)
       /\ pending' = Tail(waiting)
       /\ draining' = Head(waiting).key

-----------------------------------------------------------------------------
(* poll *)

\* A failed call ends the poll and changes nothing.  QueryManager answers with
\* no incidents when its statement fails.
GetActiveDiagnosis ==
  /\ poll.step = "idle"
  /\ \/ /\ poll' = [Idle EXCEPT !.step = "recent", !.active = ActiveOnes]
        /\ UNCHANGED events
     \/ /\ ActiveOnes # {}
        /\ poll' = [Idle EXCEPT !.step = "recent"]
        /\ Event
  /\ UNCHANGED <<incidents, memory, queue, initialized, asked>>

\* A failure of the second call only leaves the recent episodes out.
GetIncidents ==
  /\ poll.step = "recent"
  /\ \E recent \in RecentOnes \cup {<<>>} :
       poll' = [poll EXCEPT !.step = "merge", !.recent = recent]
  /\ UNCHANGED <<incidents, memory, queue, initialized, asked, events>>

\* merged: the recent episodes, an active one as the first call had it, and
\* then the active ones the second call did not list, in any order.
Merged ==
  LET ActiveOf(k) == {s \in poll.active : s.key = k}
      listed == {poll.recent[i].key : i \in DOMAIN poll.recent}
      first == [i \in DOMAIN poll.recent |->
                  IF ActiveOf(poll.recent[i].key) = {} THEN poll.recent[i]
                  ELSE CHOOSE s \in ActiveOf(poll.recent[i].key) : TRUE]
  IN {first \o rest : rest \in SetToSeqs({s \in poll.active : s.key \notin listed})}

\* remember for one incident, which is kept where it is news.
See(acc, incident) ==
  [memory |-> Remember(acc.memory, incident, ~initialized),
   fresh |-> IF initialized /\ (Escalated(acc.memory, incident)
                                  \/ ~Known(acc.memory, incident.key))
               THEN Append(acc.fresh, incident) ELSE acc.fresh]

\* One incident after the other.
Seen(merged) ==
  LET seen[i \in 0..Len(merged)] ==
        IF i = 0 THEN [memory |-> Memory, fresh |-> <<>>]
        ELSE See(seen[i - 1], merged[i])
  IN seen[Len(merged)]

\* Mutant of Resolve: entries the poll does not list are left as they are.
ResolveListed(m) == m

\* Entries that no longer are among the active ones are shown as over.
Resolve(m) ==
  IF ~initialized THEN m
  ELSE [m EXCEPT !.alerts = [i \in DOMAIN m.alerts |->
         [m.alerts[i] EXCEPT !.active = @ /\ \E s \in poll.active :
                                                 s.key = m.alerts[i].key]]]

Queued(fresh) == UpTo(MaxPending, pending \o fresh)

Merge ==
  /\ poll.step = "merge"
  /\ poll' = Idle /\ initialized' = TRUE
  /\ UNCHANGED <<incidents, asked, events>>
  /\ \E merged \in Merged :
     \E seen \in {Seen(merged)} :
     \E m \in {Resolve(seen.memory)} :
       IF draining = None THEN Drain(m, Queued(seen.fresh))
       ELSE Keeps(m) /\ pending' = Queued(seen.fresh) /\ UNCHANGED draining

-----------------------------------------------------------------------------
\* Mutant of Finish: drain analyses one incident per call.
FinishAndRest(k) ==
  /\ running[k] # "no"
  /\ UNCHANGED <<incidents, initialized, poll, asked, events>>
  /\ LET ended == [Memory EXCEPT !.running[k] = "no"]
     IN Keeps(IF running[k] = "attached"
                THEN [ended EXCEPT !.alerts[Index(Memory, k)].ai = "done"]
                ELSE ended)
  /\ draining' = IF draining = k THEN None ELSE draining
  /\ UNCHANGED pending

\* An analysis ends, well or not; drain goes on if it waited for this one.
Finish(k) ==
  /\ running[k] # "no"
  /\ UNCHANGED <<incidents, initialized, poll, asked, events>>
  /\ LET ended == [Memory EXCEPT !.running[k] = "no"]
         m == IF running[k] = "attached"
                THEN [ended EXCEPT !.alerts[Index(Memory, k)].ai = "done"]
                ELSE ended
     IN IF draining = k THEN Drain(m, pending)
        ELSE Keeps(m) /\ UNCHANGED queue

\* POST /api/incidents/:id/analyze reads the incident, and then has it analysed.
Ask(e) ==
  /\ asked = None
  /\ e \in Started
  /\ asked' = SnapshotOf(e)
  /\ Event
  /\ UNCHANGED <<incidents, memory, queue, initialized, poll>>

AnalyzeAsked ==
  /\ asked # None
  /\ asked' = None
  /\ UNCHANGED <<incidents, queue, initialized, poll, events>>
  /\ \E again \in BOOLEAN : Keeps(Analyze(Memory, asked, again))

Acknowledge(k) ==
  /\ Known(Memory, k)
  /\ Keeps([Memory EXCEPT !.alerts[Index(Memory, k)].ack = TRUE])
  /\ UNCHANGED <<incidents, queue, initialized, poll, asked, events>>

-----------------------------------------------------------------------------
(* The Manager goes on. *)

Manages == UNCHANGED <<memory, queue, initialized, poll, asked>>

Start(e) == /\ e \notin Started
            /\ \A f \in Episodes : f < e => f \in Started
            /\ \A f \in Episodes : HostOf[f] = HostOf[e] => ~incidents[f].active
            /\ \E s \in Severity :
                 incidents' = [incidents EXCEPT ![e] = [severity |-> s, active |-> TRUE]]
            /\ Manages /\ UNCHANGED events

Rate(e) == /\ incidents[e].active
           /\ \E s \in Severity \ {incidents[e].severity} :
                incidents' = [incidents EXCEPT ![e].severity = s]
           /\ Event
           /\ Manages

Close(e) == /\ incidents[e].active
            /\ incidents' = [incidents EXCEPT ![e].active = FALSE]
            /\ Manages /\ UNCHANGED events

Poll == GetActiveDiagnosis \/ GetIncidents \/ Merge

Next == \/ Poll
        \/ AnalyzeAsked
        \/ \E e \in Episodes : Finish(e) \/ Ask(e) \/ Acknowledge(e)
        \/ \E e \in Episodes : Start(e) \/ Rate(e) \/ Close(e)

\* The timer fires again and again and every poll ends, since its rpcs have a
\* deadline.  Nothing is assumed of requests and analyses: some may never end.
Spec == /\ Init /\ [][Next]_vars
        /\ []<><<GetActiveDiagnosis>>_poll

-----------------------------------------------------------------------------
Entry == [key : Episodes, severity : Severity, active : BOOLEAN, ack : BOOLEAN,
          ai : {"pending", "analyzing", "done"}]

\* The Map and the queue stay within their bounds, a key has one entry, and
\* every value is of its type.
TypeOK ==
  /\ incidents \in [Episodes -> [severity : 0..MaxSeverity, active : BOOLEAN]]
  /\ initialized \in BOOLEAN
  /\ alerts \in Seq(Entry) /\ Len(alerts) <= MaxAlerts
  /\ \A i, j \in DOMAIN alerts : alerts[i].key = alerts[j].key => i = j
  /\ running \in [Episodes -> {"no", "attached", "detached"}]
  /\ pending \in Seq(Snapshot) /\ Len(pending) <= MaxPending
  /\ draining \in Episodes \cup {None}
  /\ poll.step \in {"idle", "recent", "merge"}
  /\ poll.active \subseteq Snapshot /\ poll.recent \in Seq(Snapshot)
  /\ asked \in Snapshot \cup {None}
  /\ told \in [Episodes -> 0..MaxSeverity]
  /\ renewed \subseteq Episodes
  /\ events \in 0..MaxEvents

\* Nothing gets worse unannounced: an entry never shows a severity higher than
\* those a notification named or it was created with silently, on the first poll
\* or for a user who asked, whatever stale snapshot is remembered when (remember).
SeverityAnnounced ==
  \A i \in DOMAIN alerts :
    alerts[i].severity <= told[alerts[i].key]

\* An acknowledgement stands until the severity the entry shows rises, through
\* polls, analyses of old snapshots and recoveries.  Only the entry of an episode
\* that a poll pushes out and takes for new again in the same step starts afresh.
AckStands ==
  [][\A i \in DOMAIN alerts, j \in DOMAIN alerts' :
       /\ alerts[i].key = alerts'[j].key
       /\ alerts[i].ack /\ ~alerts'[j].ack
       => \/ alerts'[j].severity > alerts[i].severity
          \/ alerts[i].key \in renewed']_vars

\* What waits for an analysis has somebody who works on it, drain never waits for
\* an analysis that is not running, and an entry that says "analyzing" is being
\* analysed: a spinner turns as long as an analysis does (analyze, drain).
AnalysesAlive ==
  /\ pending # <<>> => draining # None
  /\ draining # None => running[draining] # "no"
  /\ \A i \in DOMAIN alerts :
       alerts[i].ai = "analyzing" <=> running[alerts[i].key] = "attached"

ShowsManager ==
  /\ \A i \in DOMAIN alerts :
       LET e == incidents[alerts[i].key]
       IN /\ alerts[i].active = e.active
          /\ e.active => alerts[i].severity = e.severity
  /\ Cardinality(Started) <= MaxAlerts =>
       \A s \in ActiveOnes : Known(Memory, s.key)

\* Once the Manager's incidents stay as they are and rpcs succeed, the dashboard
\* comes to show them, and stays so: whatever failed polls, answers that lacked
\* incidents and analyses of old snapshots left behind, and unless more episodes
\* are reported than the Map can hold (poll).
SettlesOnTruth == <>[]ShowsManager

-----------------------------------------------------------------------------
\* The behaviours in which the Manager never takes a severity back.
OnlyRises == \A e \in Episodes : incidents'[e].severity >= incidents[e].severity

RisingSpec == /\ Init /\ [][Next /\ OnlyRises]_vars
              /\ []<><<GetActiveDiagnosis>>_poll

=============================================================================
