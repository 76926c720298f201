# KernScope (MonitorSystem): TLA+ models, checks and proofs

KernScope monitors Linux hosts. A *Worker* on each host samples metrics every few seconds, decides by itself when
to load eBPF diagnosis and profiling probes, and pushes its samples to a *Manager* over gRPC. The Manager scores
each host, builds incidents with root causes, answers every push with the host's score, and persists to MySQL;
a query service and an example dashboard read from it. This directory holds TLA+ modules of the parts of that
program whose correctness depends on order, concurrency, failure and time, the TLC configurations that check them,
and proofs of every safety property of those modules, for every value of their parameters.

    tlc -workers 2 -config MCSessionGate.cfg MCSessionGate      # any run: module and cfg as in PROJECT.json
    tlapm SessionGateProofs.tla                                 # the proofs of any module named *Proofs

`PROJECT.json` maps every definition to the lines it models and lists runs, mutants, hazards and findings.

## 1. Inventory

| component | code | state it keeps | operations | what makes it correct |
|---|---|---|---|---|
| session gate, feedback cache | `manager/src/host_manager.cpp` `ProcessOne`, `MaintainShard` | per host: latest stamp, last 16 results, last 8 retired sessions; engines; previous `PerfSample`; `host_scores_` | judge a sample duplicate, stale, invalid or new; score it; evict an idle host | a sample counts once, sessions are fed in order, a retry gets its own score |
| shard executor, bounded queue, persistence worker | `host_shard_executor.cpp`, `bounded_queue.h`, `persistence_worker.cpp`, `HostManager::Stop` | `accepting_`, one queue and thread per shard, persistence queue and thread, a promise per RPC | submit, run a shard, enqueue a task, persist, stop | an accepted sample is processed once, in its host's order, also during Stop; Stop ends |
| send queue and pusher threads | `monitor_send_queue.cpp`, `monitor_pusher.cpp` | items with size and priority, `running_`, sample sequence | push (dropping base samples first), pop, send with retries, stop | samples leave in order, evidence is kept, Stop ends soon |
| adaptive diagnosis | `observability_state.cpp`, `remote_health_feedback.cpp`, `probe_controller.cpp`, `profile_session.cpp`, `PushOnce` | state, three counters, two timers; last remote score; loaded probes, retries, profile session | evaluate, merge, update, apply, accept feedback | moves on streaks only, kernel holds the probes of the state, profiling and retries are bounded, a calm host goes quiet |
| incidents and their persistence | `incident_store.cpp`, `diagnostic_persistence.cpp`, `PersistTask`, `DiagnosticPersistenceState` | active incident per host, history, ids; rows; pending incidents | observe, enqueue, save, mark, crash | one episode per id, rows never go back, readers are sent to memory while MySQL misses something |
| health engine | `manager/src/health/*` | per host: event clock, a rolling window per metric, network counters, anomaly frames | score a sample, prune idle engines | windows bounded in number and time and never refusing a sample, models that get READY |
| anomaly detector, evidence builder, root cause engine, codecs | `worker/.../anomaly_detector.cpp`, `manager/.../evidence_builder.cpp`, `root_cause_engine.cpp`, `*_codec` | none | pure functions of one sample | values right (unit tests) |
| query manager, query service, gRPC server | `query_manager.cpp`, `rpc/*` | a MySQL connection | read-only queries, statement by statement; choose MySQL or memory by the degraded flag | a reader finds what the flag stood for, whatever is written meanwhile |
| collectors, kernel modules, eBPF programs | `worker/src/monitor`, `kmod`, `ebpf` | previous counters, a mmap'd array, BPF maps | read, difference, count events | no torn or negative differences |
| dashboard | `web_dashboard_example` | alerts by episode, analysis queue, running analyses | poll (two rpcs), notify, acknowledge, analyse one after the other | nothing gets worse unannounced, acknowledgements stand, analyses are carried on, it comes to show what the Manager knows |

How they interact. The collecting thread of the Worker runs `PushOnce`: collect, evaluate, merge the Manager's
last score, `Update` the state machine, `Apply` the probes, snapshot, push into the send queue. The sending thread
pops, calls `SetMonitorInfo` with retries, and installs the answer as remote feedback - in the other thread, at any
moment. In the Manager a gRPC handler thread hashes the host to a shard, pushes the sample with a promise and waits
until its deadline; the shard thread runs `ProcessOne`, pushes a task into the persistence queue (blocking), and
completes the promise; the persistence thread writes to MySQL and keeps the degraded flag that the query service
reads. `ProcessLoop` prunes `host_scores_` once a minute, each shard its engines and caches.

What is hard: late answers and retries (a deadline that passes while the shard still works), Worker restarts with
new sessions, `Stop` racing handlers and blocked threads, queues with two budgets, three counters that survive
state changes, two clocks that end a profile, failing loads, saves that fail while others succeed, crashes, readers that ask a flag and then several statements, a dashboard that
acts on snapshots of an earlier poll.
`PROJECT.json` lists each hazard at its line with the properties that watch it.

## 2. Modules

| module | models | abstraction |
|---|---|---|
| `SessionGate` | `ProcessOne` from a shard thread's view of **one host** (hosts share no state here): `AnswerDuplicate`, `RejectStale`, `RejectInvalid`, `Accept`, `MaintainShard`, `RemoveStaleHost`, idle time of engine and score | a sample is its stamp (session, sequence, timestamp) and whether it can be scored; a score is any of `Scores`; any sample may arrive at any time, which covers loss, repetition, delay, reordering and restarts of Workers |
| `BoundedQueue` | `TryPush`, `Push`, `Pop`, `Close` with item and byte budgets | each method runs under the queue's mutex, hence one step |
| `ShardPipeline` | handlers (read `accepting_`, push, wait, deadline), shard threads, persistence thread, `HostManager::Stop` as separate steps | what `ProcessOne` computes is whether it yields a task |
| `OrderedIntake` | abstract: refused without effect, or accepted and processed once in the host's order, and eventually | |
| `SendQueue`, `WorkerSender` | the Worker's queue, its two threads, retries, `Stop` | a sample is sequence, size, priority; an RPC may end with any status |
| `ObservabilityState`, `RemoteFeedback`, `ProbeController`, composed by `DiagnosticLoop` | one turn of `PushOnce` in two steps (Sample, ApplyStep), the feedback of the other thread and time passing in between | a score is the level the four thresholds tell apart (recovery < suspect < diagnostic <= profiling, as `observability_config.cpp` enforces); time in units; versions and host names of feedback are not kept |
| `HealthEngine`, on `RollingWindow` | `HealthScoreEngine::Evaluate` for one host and the eviction of the engine | a sample is how far the Worker's clock moved, the gauges its collectors filled in and the network counter; values, scores and votes are left out |
| `IncidentPersistence` | store, hand-over, queue, transaction, pending set, crash and restart | severity, causes and evidence are a revision number; the key's start time is fresh per incident (clock not set back) |
| `WorkerStream`, on `SessionGate` | one run of the Worker after another (a restart draws a new session), the calls of `SendWithRetry` as copies in a network that loses, delays and repeats them, restarts of the Manager, the engine idling out | a sample that was given up is one whose next is sent; what the queue dropped is a gap in the sequence; a copy also stands for its handler and its place in the shard's queue |
| `IncidentReaders`, on `IncidentPersistence` | the incident queries: ask the flag, read the row, then its details, any statement failing | one reader and the one incident its caller looks at; memory answers in one step under its mutex and needs no state |
| `Alerts` | `alerts.js`: poll with its two rpcs, remember, analyze, drain, acknowledge, and the request that asks for an analysis, from one `await` to the next; of the Manager the incidents that start, change severity and end | an episode is its number, a severity its rank; `state` travels with the severity, reports and texts are left out; an API key is configured |
| `QueueItems` | what the byte counter of a queue shows and which elements a filter leaves: `Total`, `Among`, used by the queues and by `Alerts` for a page | recursive functions of a position instead of the fold and the `SelectSeq` of the libraries, which cannot be reasoned about |
| `SessionGateProofs`, `ShardPipelineProofs`, `WorkerSenderProofs`, `DiagnosticLoopProofs`, `IncidentPersistenceProofs`, `HealthEngineProofs`, `AlertsProofs` | TLAPS proofs about the module each is named after; those about `WorkerStream` are with the gate's | |
| `QueueItemsProofs` | lemmas: induction over numbers and sequences, what `Total` and `Among` compute | |
| `MC*` | constants for TLC | |

Correspondence worth knowing:

- `SessionGate.accepted`, `computed`, `forgotten`, `feedback` are history: what the current cache life accepted,
  what the engine computed, which sessions fell out of the retired list, what the last answer carried. The code
  drops a host's engine, cache and previous sample together; history is dropped with them, since a host evicted
  after five idle minutes starts anew in the code as well. A refused sample does not refresh the engine: a host
  whose gate was taken over by a late old session recovers when the engine idles out.
- A request without host name is refused before any state is touched, and is not a request of `ShardPipeline`.
- `main` shuts the gRPC server down before `HostManager::Stop`; `ShardPipeline` does not rely on it and lets
  handlers run during Stop, as the locks in `SubmitImpl` are written for.
- In `IncidentPersistence` a crash keeps `rows` only. A commit of which the client hears an error is a `Save` that
  writes the row and still counts as failed.
- `HealthEngine` keeps no absolute time: the code only ever compares a timestamp with `last_event_timestamp_`, so a
  window is the sequence of its samples' ages against it and `lag` is how far the Worker's clock is behind. A sample
  without any usable value is not one of its inputs: `IsValidMonitorInfo` asks for CPU, load and memory.
- `WorkerStream.network` is a set of copies, each with its session, sequence and number of attempt: two copies of one
  sample are two elements, and a call is one element from `SetMonitorInfo` to its turn in the shard, so that a call
  whose deadline is over is still handled (`Deliver` after `Retry`). A restart of the Manager clears the gate and its
  history and loses any of the copies: handlers die, calls that have not arrived do not.
- `IncidentReaders` leaves out the reader whom the flag sends to memory: `IncidentStore` answers under its mutex.
  `reader.atLeast` is history: what the flag that was down promised, later what the row showed.
- In `Alerts` an action is what happens between two awaits, since nothing else runs meanwhile: `GetActiveDiagnosis` and
  `GetIncidents` are the two rpcs of a poll, `Merge` all that follows, up to the first analysis it starts. `told` is
  history: the highest severity a notification named or an entry was created with silently; `renewed` holds the episodes
  that the last step pushed out of the map and took for new again. The recent page leaves out what started after the last
  full second (`RecentOnes`), at which the range asked for ends. An entry pushed out while
  it is analysed leaves a `detached` analysis behind: in the code the promise goes on with an entry nobody can list,
  and an entry made again under the same key stays "pending" until another analysis of it.
- A failed `LoadProbe` leaves nothing in the kernel; a turn whose `CollectAll` fails changes nothing here.
- Of `DiagnosticLoop`, `streak`, `observed`, `profiled`, `attempts` and `waited` (the time since the last try of a kind) are
  history. An answer that arrives after the turn has read the clock is newer than `now` and not merged in that turn:
  `Merged` gives both outcomes when the answer has just arrived.

## 3. Runs

Deadlock is checked in `session_gate`, `diagnostic_loop`, `health_engine` and `alerts`, which never stop; elsewhere behaviours end with Stop or
at a bound and the cfg says `CHECK_DEADLOCK FALSE`.

| run | instance | shows |
|---|---|---|
| `session_gate` | three sessions with two samples each (interchangeable, hence symmetry), three samples of a legacy Worker without session, an invalid and an anonymous sample; 2 cache entries, 1 retired session | `AtMostOnce`, `InOrder`, `FeedbackIsOwn`, `OwnedTogether` in any arrival order. Two entries make results fall out of the cache, one retired session makes the third session push the first out: the case `forgotten` is reached. There is one score, so an answer is told from another by its stamp; two scores are beyond the run, and the theorem covers any |
| `shard_pipeline` | two hosts on two shards, three requests, 2 items / 3 bytes per shard, persistence queue of 1, one task larger than the whole budget | queues within budget, a promise completed once, no "queue full" once closed, nothing lost on Stop, Stop ends, and `OrderedIntake` implemented, liveness included |
| `worker_sender` | four samples of 1, 2 or 5 bytes with or without evidence, queue of 3 items / 4 bytes, one retry | samples leave in order, evidence gives way only to evidence, at most one RPC after Stop, Stop ends. 5 exceeds the budget, 2+2 fills the bytes before the items, 1+1+1 the items first |
| `diagnostic_loop` | two samples to every move, two units of profiling and cooldown, feedback of the lowest and highest level, one light and one heavy probe that may fail, at most three tries | streaks, probes, profiling, the number of retries and the time between them as below, and `QuietsDown`. Three tries have two different delays between them |
| `incident_persistence` | one host, two incidents, a history of one, a queue of two, one crash, one reader | ids and keys in memory and on the way to MySQL, flag, rows, the flag coming down, and `AnswerIsPromised` for readers of any incident at any time. Several hosts rest on the theorem. Two incidents are needed for one to fail while the other is saved, two tasks for one to wait behind another |
| `worker_stream` | three runs of three samples, two calls for each, two copies under way, one restart of the Manager; 2 cache entries, 1 retired session | `LiveIsHeard`, `GateComesBack`. Three runs and two copies let a copy of a run nobody heard of overtake one or two newer runs, and one retired session lets the first fall out |
| `alerts` | two episodes that may be active together, two severities, a map of one entry, a queue of one analysis, pages of two; two events (changes of severity, requests, answers that lack everything) | `SeverityAnnounced`, `AckStands`, `AnalysesAlive`, `SettlesOnTruth`. A map and a queue of one make entries be pushed out, also under analysis, and analyses be dropped; two events are a rise and a request, or a fall and a rise |
| `health_engine` | one metric that is always there, the packet rate and the drop rate taken from its counters; windows of four samples and three units, READY after three samples over three units; a clock that moves by one, is set back by two or jumps ahead by five | every value that is judged enters its window, in order; regular samples make all models READY and bring the rates back, whatever the clock, the collectors and the counters did before. Five is longer than any window, so that a jump empties them; after a set-back model time stands still for two samples |
| `worker_sender_rest`, `diagnostic_is_consecutive`, `incident_flag`, `alerts_announced_once` | small instances | disagreements of code and text, section 5 |

Properties beyond types (each with a mutant of the code that breaks it):

- *At most once*: no accepted sample would pass the gate again while its session is remembered. *In order*: each
  session's samples are accepted in increasing order, and a session that was left is not taken up again.
  *Feedback is own*: what an answer carries was computed for that sample. *Owned together*: a cached session always
  has the engine whose idleness evicts it.
- `PromiseOnce`, `QueueFullWhileOpen`, `NothingLostOnStop`, `StopEnds`, `ImplementsIntake`.
- `SentInOrder`, `EvidenceKept`, `OneAttemptAfterStop`, `StopEnds`.
- `ProbesFollowState`, `ProfilingIsShort` (whatever the profile type does), `MovesOnStreaks`, `ObservedAgain`,
  `AttemptsBounded` (no more tries than configured, none before its doubling delay is over, none of what is loaded),
  `QuietsDown`, `ProfilesEnd` (with turns that fail in between).
- `EpisodesDistinct`: in one run of the Manager an id and a key mean one incident of one host, also in tasks on their way
  to MySQL, and what is active is nowhere closed. `FlagCoversFailures`, `RowsMoveForward`, `PendingClears`; `AnswerIsPromised`: a reader whom the
  flag sent to MySQL gets there every incident the flag answered for, in that state or a later one, and its details
  are not older than its row.
- `LiveIsHeard`: a run is heard at once after any restart, loss or repetition, unless a late sample of another run was
  accepted after its own. `GateComesBack`: a run that was locked out that way is let in again.
- `SeverityAnnounced`: no entry shows a severity above what was announced, although analyses of old snapshots set it
  back and forth. `AckStands`: only a rise of what the entry shows takes an acknowledgement away, also when the episode was pushed out
  before, except where one poll pushes an entry out and makes it again. `AnalysesAlive`: what is queued has somebody
  working on it, and "analyzing" lasts as long as an analysis does. `SettlesOnTruth`: the dashboard ends up showing
  the Manager's incidents, as long as the map can hold them.
- `SampleCounts`, `BecomesReady`. The run's window is exactly as long as `minimum_history_duration`, a relation
  `HealthConfig::IsValid` does not ask for: configured one unit shorter no model ever gets READY, nor does it when
  `max_samples` intervals are shorter than that (the defaults, 60 samples and 300 s, with an interval below 5 s).

Fairness. Threads that can run do run: weak fairness of every handler that has started, shard thread, persistence
thread, collecting and sending thread, and of the steps of Stop after it began. RPCs end by their deadline, waits by
their timeout, which is why the steps "answered" and "woken" are among the fair ones. Nobody is made to send, to
start or to stop. `DiagnosticLoop`: the Worker goes on sampling, that is, collection does not fail for ever, and time goes by; `QuietsDown` speaks of behaviours
in which from some point on the host is fine, for the Worker and for the Manager. `IncidentPersistence`: samples go
on (weak), and a shard thread blocked in `Push` gets room in the end (strong: with several shards the room may
vanish again before it wakes; every pop notifies, and the mutex is not held for ever). Readers are under no fairness: nobody has to ask. `WorkerStream`: the shard's timed callback runs
(weak), and an engine of a host whose live run is refused gets idle, since only accepted samples keep it busy and those
of older runs come to an end. `Alerts`: a poll begins again and again, as `setInterval` has it and every rpc has
a deadline; requests and analyses may never end. It is stated as a recurrence, `[]<><<GetActiveDiagnosis>>_poll`:
a poll that begins again has ended, which is the same as fairness of its steps. `HealthEngine`: the Worker
goes on sampling; `BecomesReady` speaks of behaviours in which it does so regularly from some point on, and the
bounded network counter then stops growing.

Bounds: `MaxSamples`, `MaxIncidents`, `MaxCrashes`, `MaxRev`, `MaxRuns`, `MaxSeq`, `MaxInFlight`, `MaxManagerRestarts`, `MaxEpisodes`, `MaxEvents` and the ceilings of history counters are named
constants; the counters are only compared up to them. Times beyond a limit the code compares with are one value.

## 4. Proofs

Each theorem holds for every value of the constants that meets the named assumptions of its module (TLC evaluates
them in the runs). The argument is always an inductive invariant (called `Inv`, for the
gate `GateInv` and for the stream `StreamInv`; TLC checked each on its run's instance before it was proved); one
lemma per step or group of steps keeps it. Every invariant and every action property that a passing run checks is
the statement of one of these theorems; the liveness properties are not (below).

| module | theorem | statement |
|---|---|---|
| `SessionGateProofs` | `TypeCorrect`, `GateCorrect` | `Spec => []TypeOK`, `Spec => [](TypeOK /\ GateInv)`: the deques stay within their bounds |
| | `AcceptedAtMostOnce`, `AcceptedInOrder` | `Spec => []AtMostOnce`, `Spec => InOrder` |
| | `FeedbackCorrect`, `HostOwnedTogether` | `Spec => []FeedbackIsOwn`, `Spec => []OwnedTogether` |
| | `LiveRunIsHeard` | `StreamSamples /\ StreamSpec => []LiveIsHeard` |
| `ShardPipelineProofs` | `PipelineCorrect` | `Spec => []Inv` |
| | `PromiseCorrect`, `StopLosesNothing` | `Spec => []PromiseOnce`, `Spec => []NothingLostOnStop` |
| | `FullOnlyWhileOpen` | `Spec => QueueFullWhileOpen` |
| | `WithinBudgets` | `Spec => []TypeOK`: no queue exceeds its items or bytes |
| | `ImplementsIntakeSafely` | `Spec => Intake!Init /\ [][Intake!Next]_(Intake!vars)`: the pipeline takes `OrderedIntake`'s steps |
| `WorkerSenderProofs` | `StopCutsOff` | `Spec => []OneAttemptAfterStop` |
| | `QueueWithinBudgets` | `Spec => []TypeOK` |
| | `SamplesSentInOrder`, `EvidenceGivesWayLast` | `Spec => []SentInOrder`, `Spec => EvidenceKept` |
| `DiagnosticLoopProofs` | `LoopCorrect`, `ProbesCorrect` | `Spec => []Inv`, `Spec => []ProbesFollowState` |
| | `StreaksCorrect`, `ObservedCorrect` | `Spec => MovesOnStreaks`, `Spec => ObservedAgain` |
| | `ProfilingCorrect`, `AttemptsCorrect` | `Spec => ProfilingIsShort`, `Spec => AttemptsBounded` |
| | `LoopTyped` | `Spec => []TypeOK` |
| `IncidentPersistenceProofs` | `PersistenceCorrect`, `TypeCorrect` | `Spec => []Inv`, `Spec => []TypeOK` |
| | `IncidentsDistinct`, `FlagCorrect` | `Spec => []EpisodesDistinct`, `Spec => []FlagCoversFailures` |
| | `RowsCorrect`, `AnswerCorrect` | `Spec => RowsMoveForward`, `ReadersSpec => []AnswerIsPromised` |
| `HealthEngineProofs` | `WindowsBounded`, `EverySampleCounts` | `Spec => []TypeOK`, `Spec => []SampleCounts` |
| `AlertsProofs` | `AlertsBounded` | `Spec => []TypeOK` |
| | `NothingWorseInSilence`, `AnalysesKeptAlive` | `Spec => []SeverityAnnounced`, `Spec => []AnalysesAlive` |
| | `AcknowledgementsStand` | `Spec => AckStands` |

*The gate.* `AtMostOnce` is not inductive: it speaks of the cache entries and the gate at once, while a step of the gate depends
on the latest stamp and the retired list alone. `GateInv` says that what was accepted would be found stale by
those two (unless forgotten). A step that accepts a newer sample of the same session keeps it because stamps are
ordered (lexicographically for a legacy Worker: `LexicographicTransitive`); a step that changes the session keeps it
because the old session enters the retired list (`RetiredKept`, `CacheResultKeepsGate`), and what the push drops is
in `forgotten` by then. `FeedbackIsOwn` needs `CacheInv`: every cached entry repeats a computed result. Lemmas
`PushBounded*` say what a push into a bounded deque adds, keeps and drops. Assumptions: `SampleAssumption`,
`BoundAssumption`.

*The pipeline.* A promise is completed once because an accepted request is in one place: in its shard's queue or in
the hands of its thread with the promise open, or processed with the promise completed (`LineInv`, `PlaceInv`).
Stop loses nothing because of its order (`ClosingInv`): `accepting_` is cleared before a queue is closed, a shard
thread ends when its queue is closed and empty, and the persistence queue is closed when all have ended, so that
`Enqueue` never finds it closed and a task is left out only if it is too heavy (`TaskInv`). The budgets play no part
in this. That they are kept (`BudgetInv`) needs what a queue's sum is after a push and a pop (`WeighAppend`,
`WeighTail`): `CanPush` compares one weight with what is left of the budget, and only the sum over the whole queue shows
that no weight is counted twice or forgotten.
`ImplementsIntakeSafely` shows the refinement step by step: a handler's push is `OrderedIntake`'s accept, a shard's
`ProcessOne` its process, all else a stutter. The mapping selects the requests of a host from its shard's queue
and its thread's hands, and the lemmas on `Among` say that a push adds the request at the end of its host's and a pop
takes it from the front, whatever other hosts share the shard.
Assumption: `PipelineAssumption`, with weights in `Nat`.

*The sender.* Only the one RPC whose check of `running_` came before Stop can be issued after it; when it is, the
sending thread is past the check, and the next check finds `running_` cleared. The order (`OrderInv`): the queue
is ordered by sequence, what is sent comes before it and what was tried before that; dropping items from the middle keeps
a queue ordered (`AmongOrdered`), and what is pushed was taken last. Evidence: the victims of a push are the base samples
first, and it needs the k-th victim only if the first k - 1 made not enough room; so evidence is dropped only when all
base samples were, and only for evidence. Assumption: `SenderAssumption`.

*The loop.* `CountersInv`: no counter is ahead of the samples in a row it counts, in whichever state it was left
standing; together with the configured counts this gives the moves (`UpdateKeeps`, a case per state). `ProbesInv`: the
attached probes are the loaded ones and all are wanted, at every step; `AttachKeeps` shows it kind by kind for any
outcome of the loads, and that the loads tried since the wanted set changed are among the retries counted
(`AttemptsInv`). `SpacingInv` joins the wait that the controller counts down and the time since the last try: together they
make the whole delay, `Due`, whatever the retries of the other kinds do. `ProfileInv` joins the two halves: outside PROFILING a turn begins with no profile probe loaded, so
none has been loaded for longer than PROFILING lasts. `LoopTyped` adds that the retry waits, which double with every
failure, are natural numbers and never get shorter (`DelaysDouble`). Assumptions: `ConfigAssumption`, `ProbeAssumption`,
`FeedbackAssumption`, `LoopAssumption`.

*Incidents.* An observation is followed on its way through `handing`, `queue` and `saver` to `rows`: what is nearer to
the row is not newer (`PipeInv`, `RowsInv`), the newest task of an incident is its last observation unless that one was
rejected (`NewestInv`), and what has arrived is durable or pending (`FlagInv`). A crash empties everything but the rows
and keeps `RowsInv`, since starts are fresh. `IncidentsDistinct` follows from what the steps on the way carry along: id, start
and host of what was observed. It speaks of one run of the Manager: ids begin again after a restart, and that starts do
not is an assumption (section 2), which a clock set back would break. For the reader, `ReaderInv` says that the row it was promised is there
and only moves forward. Assumptions: `IncidentAssumption`, `NoneAssumption`.

*The stream.* `MemoryInv`, over the gate and the history of what it accepted, says that whatever a sample can be refused
for is a sample that was accepted: a cached entry, a retired session, the latest stamp. It uses `TypeCorrect`'s lemmas
and the push lemmas of the gate. Assumptions: those of the gate and `StreamAssumption`, which
only bounds the counters. What the samples of a stream are (`StreamSamples`) is a hypothesis of `LiveRunIsHeard` and
not an assumption of the module, so that the theorems about the gate keep holding for any samples; `MCWorkerStream`
assumes it, and TLC evaluates it there.

*The health engine.* A window is a sequence of ages. The invariant says of every window, also of a metric the last samples
gave no value of, that its ages never rise towards the end (`History`), so that what is too old is in front, where `Prune`
looks for it, and that a new sample, whose age is 0, is never refused. The clock a window is judged by never goes back even
when the Worker's does, which is why this holds for any `Steps`. Assumption: `HealthAssumption`.

*The dashboard.* What `remember`, `analyze` and a poll do is a function of the memory (alerts, running, told, and what was pushed out in the step), and
`Memories` is the set of memories those functions stay in: one entry per key, no severity above what was told, an entry
that says "analyzing" exactly where running has it attached, and nothing attached without an entry. `Remembered` says what one
call of `remember` leaves: every entry is that of the incident or one of before. A poll remembers many incidents in one
step, and one of them may be analysed in that step; that no acknowledgement is lost to a severity that only went down
and up again follows by induction over the incidents (`Through`), because each is listed once (`PollInv`: pages list newest first,
the active ones come from one answer, and a poll adds only those the page lacks). Assumption: `AlertsAssumption`.

*Induction.* The induction theorems of the library have an operator as a parameter, which the provers cannot instantiate.
`QueueItemsProofs` therefore states induction over a *set* of numbers or sequences (`NatSetInduction`, `SeqSetInduction`),
proved from the library's well-foundedness of `<`, and shows that a recursive function over `0..n` exists and is the only one
(`Recursion`, `Agree`). What `Total`, `Among`, the doubling waits and the incidents of a poll compute is reasoned
about that way.

Only model-checked: all liveness (both `StopEnds`, `QuietsDown`, `ProfilesEnd`, `PendingClears`, `BecomesReady`,
`GateComesBack`, `SettlesOnTruth`), and of the refinement `ImplementsIntake` the part that is fairness: fairness is
stated with ENABLED, which the prover does not handle.

## 5. Findings

Four places where the code does something else than its text says; each has a run whose counterexample shows it.

1. `worker_sender_rest`: the comment in `MonitorPusher::Stop` says the sender sends what is left; `SendWithRetry`
   returns at once when `running_` is false, so queued samples are dropped.
2. `diagnostic_is_consecutive`: the header calls `diagnostic_samples_` a count of consecutive samples; a recovered
   sample in between does not reset it.
3. `incident_flag`: the persistence workflow says memory answers when a save failed; a task refused by the full
   persistence budget marks nothing, and readers are sent to MySQL, which misses it.
4. `alerts_announced_once`: the dashboard's README says that new episodes and rises of severity are notified. A snapshot
   that is remembered late takes the entry back to a lower severity, and the next poll shows the true one as a rise:
   notified twice, acknowledged no more, while the Manager's severity only ever rose (`RisingSpec`).

Seen while modelling, and not the subject of a run (no text of the repository denies them, no property can hold, or one comment is all there is to it):

- The comment on `Apply` (`probe_controller.cpp:493-495`) says incremental; on a change of the wanted set the code
  (line 584 on) destroys and loads again also the probes that are attached and still wanted.

- `alerts.js:54` creates the entry of an analysis that a user asks for silently: an episode first seen that way is
  never notified, while the comment at line 126 wants a notification for every episode. An analysis of an old snapshot
  sets severity and activity back until the next poll (finding 4); an incident that
  started between the two rpcs of a poll is shown as over until the next one; a poll that MySQL answers with nothing,
  because a statement failed, shows every incident as over. `SettlesOnTruth` says that all of this passes.
- `episodeKey` contains the incident's id, which changes with the source (memory: `next_id_`, MySQL: auto increment): when
  the degraded flag changes, one episode gets a second key and is notified again, and its old entry is shown as over.
  `Alerts` takes the source to stay the same.
- `docs/chains/采集失败隔离与回退机制.md:7` speaks of collectors that fail apart from each other;
  `metric_collector.cpp:84-90` gives up the whole sample when one is not OK, not-ready ones included.
- After a crash the row of an open incident stays active in MySQL for ever.

## 6. Not modelled, and why

- Pure functions of one sample (anomaly detector, evidence builder, root causes, codecs, mappers) are inputs of the
  models: any outcome is taken. Their values are a matter of unit tests, of which the repository has many.
- SQL, schema, time-outs and connection handling are I/O; the keyed upsert, statements that fail and the order of
  statements are what properties depend on. The queries of sample history, ranking and anomalies compute over rows
  that are never changed.
- Real time is in units: the two lost wake-ups in the Stop methods (a `notify` without the mutex) delay Stop by a timed
  wait and are listed as hazards.
- Collectors are read by one thread; their outcome is any sample or none. The page that `cpu_stat_collector` rewrites
  while the Worker copies it holds counters that only grow, and a torn copy lies between two good ones.
- eBPF programs count events in the kernel; the models say when they are loaded. `worker/src/ebpf/vmlinux.h`, nine
  tenths of the repository's lines, is a generated header of kernel types without behaviour, which is why the share of
  mapped lines is small whatever is modelled.
- The routes of `server.js` pass rpcs on, the tools of `agent.js` read; benchmarks and scripts are not part of the
  running system.

## 7. Plan

Order: what decides whether data is right comes first. Done: `SessionGate` and its proofs, `ShardPipeline` with
`OrderedIntake`, `WorkerSender`, `DiagnosticLoop`, `IncidentPersistence`, `HealthEngine`, `WorkerStream`, `Alerts`,
`IncidentReaders`. Next:

1. Proofs: liveness is out of reach; what can still be said for all constants is more of what recursive definitions
   compute (that `MakeRoom` drops no more than it must, that a page holds the newest episodes) and refinements of
   smaller promises, as the one of the send queue.
2. The collectors as a module: `CollectAll` with collectors that are not ready, fail and recover, the differences they
   keep meanwhile, and the BPF map of `net_ebpf_monitor.cpp` whose entries come and go.
3. `CollectSnapshot` of the probe controller: profiles that expire with what their maps have counted.
