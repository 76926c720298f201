----------------------------- MODULE HealthEngine -----------------------------
(***************************************************************************)
(* HealthScoreEngine::Evaluate for one host: the event clock, the windows  *)
(* of the metrics, the network counters that rates are taken from, and how *)
(* a model goes from COLD over WARMING to READY.                           *)
(*                                                                         *)
(* Times are relative to last_event_timestamp_.  The values of the metrics *)
(* and with them scores and votes are left out; drops and errors, which    *)
(* are treated alike, are one counter.                                     *)
(***************************************************************************)
EXTENDS Integers, Sequences, FiniteSets

CONSTANTS
  Gauges, Net, Rate,  \* metrics read off a sample; pps is Net, drops/s is Rate
  Required,           \* the gauges without which IsValidMonitorInfo refuses it
  MaxSamples, WindowAge,             \* HealthConfig::max_samples, window_age
  MaxFrames, NarWindow,              \* max_nar_frames, nar_window
  ColdSamples, ReadySamples, MinHistory,  \* 10, min_samples, minimum_history
  Interval,    \* the Worker's push interval
  Steps,       \* how the Worker's clock can move from one sample to the next
  MaxLag,      \* bound: how far that clock can fall behind
  MaxTotal,    \* bound: the value of the network counter
  None

ASSUME HealthAssumption ==
  /\ Net \in Gauges /\ Rate \notin Gauges
  /\ Required \subseteq Gauges /\ Required # {}
  /\ MaxSamples \in Nat \ {0} /\ WindowAge \in Nat \ {0}
  /\ MaxFrames \in Nat \ {0} /\ NarWindow \in Nat \ {0}
  /\ ColdSamples \in Nat /\ ReadySamples \in Nat /\ MinHistory \in Nat \ {0}
  /\ ReadySamples <= MaxSamples
  /\ Interval \in Nat \ {0} /\ Steps \subseteq Int /\ Interval \in Steps
  /\ MaxLag \in Nat /\ MaxTotal \in Nat

Window == INSTANCE RollingWindow WITH MaxAge <- WindowAge
Frames == INSTANCE RollingWindow WITH MaxSamples <- MaxFrames, MaxAge <- NarWindow

Metrics == Gauges \cup {Rate}

VARIABLES
  started,   \* last_event_timestamp_ is set
  lag,       \* by how much it is ahead of the Worker's clock
  windows,   \* windows_
  counters,  \* network_counters_: None or [total, age]
  frames,    \* anomaly_history_
  model,     \* model_state of the last result
  total,     \* the Worker's drop and error counters
  fed,       \* history: the metrics the last sample gave a value of
  steady     \* from now on the Worker samples regularly

vars == <<started, lag, windows, counters, frames, model, total, fed, steady>>

Fresh == /\ started = FALSE
         /\ lag = 0
         /\ windows = [m \in Metrics |-> <<>>]
         /\ counters = None
         /\ frames = <<>>

Init == /\ Fresh
        /\ model = "COLD"
        /\ total = 0
        /\ fed = {}
        /\ steady = FALSE

-----------------------------------------------------------------------------
\* Mutant of Advance: the model follows the Worker's clock back.
AdvanceRaw(ahead) == ahead

\* How far model_timestamp moves for a sample that is so far ahead of it.
Advance(ahead) == IF ahead < 0 THEN 0 ELSE ahead

\* A rate needs an earlier reading and counters that did not start again.
HasRate(observed, d, now) ==
  /\ Net \in observed
  /\ counters # None
  /\ counters.age + d > 0
  /\ now >= counters.total

\* The metrics a sample gives values of: the gauges its collectors filled in
\* with something usable, and the rate.
Values(observed, d, now) ==
  observed \cup (IF HasRate(observed, d, now) THEN {Rate} ELSE {})

\* A reading replaces the one before unless the event clock stands still.
Counters(observed, d, now) ==
  IF Net \in observed /\ (counters = None \/ counters.age + d > 0)
    THEN [total |-> now, age |-> 0]
  ELSE IF counters = None THEN None
  ELSE [counters EXCEPT !.age = Window!Later(@, d)]

\* MetricDetector::Evaluate, on the pruned window without the sample itself.
ModelState(w) ==
  IF Len(w) + 1 < ColdSamples THEN "COLD"
  ELSE IF Len(w) + 1 < ReadySamples \/ Window!Span(w) < MinHistory THEN "WARMING"
  ELSE "READY"

Least(models) ==
  IF "COLD" \in models THEN "COLD"
  ELSE IF "WARMING" \in models THEN "WARMING" ELSE "READY"

Seen(m, d) == Window!Aged(windows[m], d)

\* A sample with usable values of the gauges in observed.
Evaluate(step, observed, now) ==
  LET ahead == step - lag
      d == IF started THEN Advance(ahead) ELSE 0
      values == Values(observed, d, now)
  IN /\ started' = TRUE
     /\ lag' = IF started THEN d - ahead ELSE 0
     /\ model' = Least({ModelState(Window!Prune(Seen(m, d))) : m \in values})
     /\ windows' = [m \in Metrics |-> IF m \in values
                                        THEN Window!Push(Seen(m, d))
                                        ELSE Seen(m, d)]
     /\ counters' = Counters(observed, d, now)
     /\ frames' = Frames!Push(Frames!Aged(frames, d))
     /\ total' = now
     /\ fed' = values

\* Any sample the gate lets pass: the clock of the Worker may have been set,
\* collectors may have failed, counters may have started again.  One without
\* any usable value never gets here: it is not a valid MonitorInfo.
AnySample ==
  /\ ~steady
  /\ \E step \in Steps, optional \in SUBSET (Gauges \ Required),
        now \in (total..MaxTotal) \cup {0} :
       Evaluate(step, Required \cup optional, now)
  /\ lag' <= MaxLag
  /\ UNCHANGED steady

RegularSample(now) == steady /\ Evaluate(Interval, Gauges, now) /\ UNCHANGED steady

\* PruneStaleHealthEngines; the next sample creates a new engine.
Evict ==
  /\ ~steady
  /\ started
  /\ started' = FALSE
  /\ lag' = 0
  /\ windows' = [m \in Metrics |-> <<>>]
  /\ counters' = None
  /\ frames' = <<>>
  /\ model' = "COLD"
  /\ fed' = {}
  /\ UNCHANGED <<total, steady>>

Settle == /\ ~steady
          /\ steady' = TRUE
          /\ UNCHANGED <<started, lag, windows, counters, frames, model, total, fed>>

Next == \/ AnySample
        \/ \E now \in total..MaxTotal : RegularSample(now)
        \/ Evict
        \/ Settle

\* PushLoop of the Worker samples as long as it runs; the bounded counter has
\* stopped growing in the end.
Spec == Init /\ [][Next]_vars /\ WF_vars(RegularSample(total))

-----------------------------------------------------------------------------
AgesIn(w, oldest) == \A i \in DOMAIN w : w[i] \in 0..oldest

\* Windows and frames within their bounds in number and, but for a metric that
\* has not been seen since, in age; the event clock never behind the Worker's.
TypeOK ==
  /\ started \in BOOLEAN
  /\ lag \in 0..MaxLag
  /\ \A m \in Metrics : /\ Len(windows[m]) <= MaxSamples
                        /\ AgesIn(windows[m], IF m \in fed THEN WindowAge ELSE WindowAge + 1)
  /\ counters = None \/ (counters.total \in 0..MaxTotal /\ counters.age \in 0..(WindowAge + 1))
  /\ Len(frames) <= MaxFrames /\ AgesIn(frames, NarWindow)
  /\ model \in {"COLD", "WARMING", "READY"}
  /\ total \in 0..MaxTotal
  /\ fed \subseteq Metrics
  /\ steady \in BOOLEAN

\* Every value the engine judges enters the history it judges the next one by:
\* Push, which refuses a sample that is out of order, never gets one, however
\* the Worker's clock is set (model_timestamp in Evaluate).
SampleCounts ==
  \A m \in fed : /\ windows[m] # <<>> /\ windows[m][Len(windows[m])] = 0
                 /\ \A i, j \in DOMAIN windows[m] :
                      i <= j => windows[m][i] >= windows[m][j]

\* Once the Worker samples regularly, every model gets READY and stays so, and
\* drop rates are there again - whatever the clock, the counters and the
\* collectors had done before.
BecomesReady == <>[](steady => model = "READY" /\ Rate \in fed)
=============================================================================
