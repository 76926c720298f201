----------------------------- MODULE SessionGate -----------------------------
(***************************************************************************)
(* What the Manager's shard thread does with one sample of one host:       *)
(* HostManager::ProcessOne, the host's entry in the shard's three maps     *)
(* (feedback cache, health engine, performance history), the eviction of   *)
(* idle entries by MaintainShard, and the host's row of host_scores_.      *)
(*                                                                         *)
(* A host always lands on the same shard and a shard has one thread, so    *)
(* the module is about one host and its actions are atomic.  The samples   *)
(* arrive in any order, any number of times: a retried RPC, a late one,    *)
(* one of an earlier run of the Worker.                                    *)
(***************************************************************************)
EXTENDS Integers, Sequences, FiniteSets

CONSTANTS
  Samples,          \* the samples that can arrive
  Scores,           \* the anomaly scores the health engine can compute
  NoSession,        \* the empty sample_session_id of a legacy Worker
  EntriesPerHost,   \* kFeedbackCacheEntriesPerHost (16)
  RetiredPerHost    \* kRetiredSessionsPerHost (8)

ASSUME SampleAssumption ==
  \A m \in Samples : /\ DOMAIN m = {"session", "seq", "ts", "valid"}
                     /\ m.seq \in Nat
                     /\ m.ts \in Nat
                     /\ m.valid \in BOOLEAN

ASSUME BoundAssumption == /\ EntriesPerHost \in Nat \ {0}
                          /\ RetiredPerHost \in Nat \ {0}

Session == {m.session : m \in Samples} \cup {NoSession}

Stamp == [session : Session, seq : Nat, ts : Nat]

NoStamp == [session |-> NoSession, seq |-> 0, ts |-> 0]

VARIABLES
  latest,      \* stamp of the last sample put in the feedback cache
  retired,     \* retired_session_ids
  entries,     \* the cached feedback of the last accepted samples
  engine,      \* the health engine: "none", "active" or "idle"
  perf,        \* whether the shard holds a previous PerfSample of the host
  hostScore,   \* the host's row of host_scores_: "absent", "valid", "invalid"
  scoreOld,    \* whether that row is over 60 s old
  feedback,    \* the feedback the last RPC carried back, a set of at most one
  accepted,    \* history: the samples accepted since the cache was created
  computed,    \* history: the feedback computed for each of them
  forgotten    \* history: the sessions pushed out of retired_session_ids

cache == <<latest, retired, entries>>
history == <<accepted, computed, forgotten>>
vars == <<latest, retired, entries, engine, perf, hostScore, scoreOld,
          feedback, accepted, computed, forgotten>>

-----------------------------------------------------------------------------
\* A sample without a sequence comes from a Worker that predates the protocol.
Identified(m) == m.seq # 0

Modern(m) == m.session # NoSession

StampOf(m) == [session |-> m.session, seq |-> m.seq, ts |-> m.ts]

\* Mutant of Matches: two sessions share their sequence numbers.
MatchesAnySession(e, m) == e.seq = m.seq

\* A cached result is the sample's own when session and sequence agree;
\* a legacy Worker restarts its sequence, so there the timestamp must agree too.
Matches(e, m) == /\ e.session = m.session
                 /\ e.seq = m.seq
                 /\ Modern(m) \/ e.ts = m.ts

Duplicate(m) == \E i \in DOMAIN entries : Matches(entries[i], m)

\* Mutant of Stale: a session that was superseded may come back.
StaleInLatestOnly(m) ==
  IF Modern(m) THEN latest.session = m.session /\ m.seq <= latest.seq
  ELSE \/ latest.session # NoSession
       \/ m.ts < latest.ts
       \/ m.ts = latest.ts /\ m.seq <= latest.seq

\* Mutant of Stale: the sequence is left to the duplicate lookup.
StaleInRetiredOnly(m) ==
  IF Modern(m) THEN \E i \in DOMAIN retired : retired[i] = m.session
  ELSE latest.session # NoSession \/ m.ts < latest.ts

Stale(m) ==
  \/ /\ Modern(m)
     /\ \/ \E i \in DOMAIN retired : retired[i] = m.session
        \/ latest.session = m.session /\ m.seq <= latest.seq
  \/ /\ ~Modern(m)
     /\ \/ latest.session # NoSession
        \/ m.ts < latest.ts
        \/ m.ts = latest.ts /\ m.seq <= latest.seq

PassesGate(m) == Identified(m) => ~Duplicate(m) /\ ~Stale(m)

\* Mutant of PushBounded: nothing is ever popped.
PushUnbounded(s, x, n) == Append(s, x)

\* push_back followed by pop_front while the deque is too long.
PushBounded(s, x, n) ==
  IF Len(s) < n THEN Append(s, x) ELSE Tail(Append(s, x))

\* SubmitWithFeedback hands the result out only when it correlates with the
\* request and the request can be correlated at all.
Delivered(m, r) ==
  IF Identified(m) /\ m.ts > 0 /\ r.ts = m.ts /\ r.seq = m.seq
    THEN {[sample |-> StampOf(m), score |-> r.score]} ELSE {}

-----------------------------------------------------------------------------
Init == /\ latest = NoStamp
        /\ retired = <<>>
        /\ entries = <<>>
        /\ engine = "none"
        /\ perf = FALSE
        /\ hostScore = "absent"
        /\ scoreOld = FALSE
        /\ feedback = {}
        /\ accepted = {}
        /\ computed = {}
        /\ forgotten = {}

\* A retry of a sample still in the cache gets the answer of the first try.
AnswerDuplicate(m) ==
  /\ Identified(m)
  /\ \E i \in DOMAIN entries :
       /\ Matches(entries[i], m)
       /\ \A j \in DOMAIN entries : Matches(entries[j], m) => i <= j
       /\ feedback' = Delivered(m, entries[i])
  /\ UNCHANGED <<cache, engine, perf, hostScore, scoreOld, history>>

RejectStale(m) ==
  /\ Identified(m) /\ ~Duplicate(m) /\ Stale(m)
  /\ feedback' = {}
  /\ UNCHANGED <<cache, engine, perf, hostScore, scoreOld, history>>

\* An invalid sample marks the host unusable and leaves no trace in the cache.
RejectInvalid(m) ==
  /\ PassesGate(m)
  /\ ~m.valid
  /\ hostScore' = "invalid"
  /\ scoreOld' = FALSE
  /\ feedback' = {}
  /\ UNCHANGED <<cache, engine, perf, history>>

\* Mutant of Retires: a session is retired by its own next sample.
RetiresItself(m) == Modern(m) /\ latest.session # NoSession

Retires(m) == /\ Modern(m)
              /\ latest.session # NoSession
              /\ latest.session # m.session

\* cache_result: the superseded session is retired, the sample becomes the
\* latest and its result the newest entry.
CacheResult(m, score) ==
  /\ retired' = IF Retires(m)
                  THEN PushBounded(retired, latest.session, RetiredPerHost)
                  ELSE retired
  /\ forgotten' = IF Retires(m) /\ Len(retired) = RetiredPerHost
                    THEN forgotten \cup {retired[1]} ELSE forgotten
  /\ latest' = StampOf(m)
  /\ entries' = PushBounded(entries,
                            [session |-> m.session, seq |-> m.seq,
                             ts |-> m.ts, score |-> score],
                            EntriesPerHost)
  /\ accepted' = accepted \cup {StampOf(m)}
  /\ computed' = computed \cup {[sample |-> StampOf(m), score |-> score]}

Accept(m, score) ==
  /\ PassesGate(m)
  /\ m.valid
  /\ engine' = "active"
  /\ perf' = TRUE
  /\ hostScore' = "valid"
  /\ scoreOld' = FALSE
  /\ IF Identified(m)
       THEN /\ CacheResult(m, score)
            /\ feedback' = Delivered(m, [seq |-> m.seq, ts |-> m.ts,
                                         score |-> score])
       ELSE feedback' = {} /\ UNCHANGED <<cache, history>>

ProcessOne(m) == \/ AnswerDuplicate(m)
                 \/ RejectStale(m)
                 \/ RejectInvalid(m)
                 \/ \E score \in Scores : Accept(m, score)

\* Mutant of MaintainShard: the feedback cache outlives the engine.
MaintainEngineOnly ==
  /\ engine = "idle"
  /\ engine' = "none"
  /\ perf' = FALSE
  /\ UNCHANGED <<cache, hostScore, scoreOld, feedback, history>>

\* The shard's timed callback forgets the host in all three maps at once.
MaintainShard ==
  /\ engine = "idle"
  /\ engine' = "none"
  /\ perf' = FALSE
  /\ latest' = NoStamp
  /\ retired' = <<>>
  /\ entries' = <<>>
  /\ feedback' = {}
  /\ accepted' = {}
  /\ computed' = {}
  /\ forgotten' = {}
  /\ UNCHANGED <<hostScore, scoreOld>>

\* ProcessLoop drops a row that nothing has refreshed for a minute.
RemoveStaleHost ==
  /\ hostScore # "absent"
  /\ scoreOld
  /\ hostScore' = "absent"
  /\ scoreOld' = FALSE
  /\ UNCHANGED <<cache, engine, perf, feedback, history>>

\* health_max_idle passes without an evaluation.
EngineIdles == /\ engine = "active"
               /\ engine' = "idle"
               /\ UNCHANGED <<cache, perf, hostScore, scoreOld, feedback,
                              history>>

\* 60 seconds pass without an update of the row.
ScoreAges == /\ hostScore # "absent" /\ ~scoreOld
             /\ scoreOld' = TRUE
             /\ UNCHANGED <<cache, engine, perf, hostScore, feedback, history>>

Next == \/ \E m \in Samples : ProcessOne(m)
        \/ MaintainShard
        \/ RemoveStaleHost
        \/ EngineIdles
        \/ ScoreAges

Spec == Init /\ [][Next]_vars

-----------------------------------------------------------------------------
Entry == [session : Session, seq : Nat, ts : Nat, score : Scores]

\* Every field has its type, and the two deques of the cache their bounds.
TypeOK == /\ latest \in Stamp
          /\ retired \in Seq(Session \ {NoSession})
          /\ Len(retired) <= RetiredPerHost
          /\ entries \in Seq(Entry)
          /\ Len(entries) <= EntriesPerHost
          /\ engine \in {"none", "active", "idle"}
          /\ perf \in BOOLEAN
          /\ hostScore \in {"absent", "valid", "invalid"}
          /\ scoreOld \in BOOLEAN
          /\ accepted \in SUBSET Stamp
          /\ forgotten \in SUBSET (Session \ {NoSession})
          /\ feedback \in SUBSET [sample : Stamp, score : Scores]
          /\ computed \in SUBSET [sample : Stamp, score : Scores]

\* At most once: while the host's cache lives, no sample the Manager has
\* accepted would pass the gate of ProcessOne again, whatever the Worker
\* retries and however late - unless more than RetiredPerHost newer sessions
\* have pushed its session out of retired_session_ids.
AtMostOnce ==
  \A m \in Samples :
    Identified(m) /\ StampOf(m) \in accepted /\ m.session \notin forgotten
      => ~PassesGate(m)

\* Newer(m, p): m was taken after p by the same run of the Worker.
Newer(m, p) == IF m.session = NoSession
                 THEN m.ts > p.ts \/ (m.ts = p.ts /\ m.seq > p.seq)
                 ELSE m.seq > p.seq

\* In order: within one session ProcessOne accepts only samples newer than all
\* it has accepted, and once it has left a session it does not return to it,
\* so the per-host history (PerfSample, health windows, incidents) is never
\* fed an older sample after a newer one.
InOrder ==
  [][\A m \in accepted' \ accepted :
       m.session \notin forgotten =>
         /\ \A p \in accepted : p.session = m.session => Newer(m, p)
         /\ (\E p \in accepted : p.session = m.session)
              => latest.session = m.session]_vars

\* Whatever feedback an RPC carries back was computed by the health engine for
\* that very sample, also when it is a retry answered from the cache.
FeedbackIsOwn == feedback \subseteq computed

\* The three maps of the shard hold a host together: a cached session always
\* has the health engine whose idleness evicts it, so no session can lock the
\* host out for ever, and a new engine never meets rates of an old history.
OwnedTogether == /\ latest # NoStamp => engine # "none"
                 /\ perf <=> engine # "none"
=============================================================================
