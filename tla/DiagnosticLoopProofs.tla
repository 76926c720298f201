------------------------- MODULE DiagnosticLoopProofs -------------------------
(***************************************************************************)
(* Proofs about DiagnosticLoop for any thresholds, durations, delays and   *)
(* kinds of probe that may fail.                                           *)
(*                                                                         *)
(* The state machine and the probe controller share the state alone, and   *)
(* each has an invariant of its own: the counters never run ahead of the   *)
(* samples in a row they stand for (CountersInv), and what counts as       *)
(* attached is what the kernel holds (ProbesInv).  ProfileInv ties them:   *)
(* outside PROFILING no profile probe is loaded when a turn begins.        *)
(***************************************************************************)
EXTENDS DiagnosticLoop, QueueItemsProofs

MachineTypes ==
  /\ state \in States
  /\ step \in {"sample", "apply"}
  /\ anomalySamples \in Nat
  /\ diagnosticSamples \in Nat
  /\ recoverySamples \in Nat
  /\ profilingAge \in 0..ProfilingDuration
  /\ remote # None => remote.trigger \in Scores
  /\ streak \in [DOMAIN Grades -> Nat]
  /\ observed \in Nat

\* No counter is ahead of the samples in a row that it counts.
CountersInv ==
  /\ state = "NORMAL" => anomalySamples <= streak.suspect
  /\ state = "NORMAL" => recoverySamples = 0
  /\ recoverySamples <= streak.recovered
  /\ state = "COOLDOWN" => diagnosticSamples <= observed

Sessions == [type : ProfileTypes, age : 0..MaxDuration]

StatusTypes ==
  \A k \in Kinds :
    /\ DOMAIN status[k] = {"requested", "attached", "retries", "wait"}
    /\ status[k].requested \in BOOLEAN
    /\ status[k].attached \in BOOLEAN
    /\ status[k].retries \in 0..MaxAttach

ProbeTypes ==
  /\ session \in Sessions \cup {Nothing}
  /\ desired \subseteq Kinds
  /\ loaded \subseteq Kinds
  /\ StatusTypes

\* The bookkeeping agrees with the kernel, whatever the machine does meanwhile.
ProbesInv ==
  /\ ProbeTypes
  /\ loaded = {k \in Kinds : status[k].attached}
  /\ desired = {k \in Kinds : status[k].requested}
  /\ loaded \subseteq desired
  /\ ~initialized => desired = {}

\* What the last Apply wanted is what this state and this session want.
WantedInv ==
  step = "sample" /\ initialized =>
    /\ desired = DesiredFor(state, IF session = Nothing THEN "" ELSE session.type,
                            session # Nothing)
    /\ state # "PROFILING" => session = Nothing

\* Profile probes have been loaded for no longer than PROFILING has lasted.
ProfileInv ==
  /\ profiled \in Nat
  /\ Heavy = {} => profiled = 0
  /\ step = "sample" /\ state # "PROFILING" => Heavy = {}
  /\ state = "PROFILING" => profiled <= profilingAge

\* The loads tried are among the retries counted.
AttemptsInv ==
  \A k \in Kinds :
    /\ attempts[k] \in 0..MaxAttach
    /\ ~status[k].attached => attempts[k] <= status[k].retries
    /\ k \notin desired => attempts[k] = 0

Inv == /\ MachineTypes /\ CountersInv
       /\ ProbesInv /\ WantedInv
       /\ ProfileInv /\ AttemptsInv

-----------------------------------------------------------------------------
\* Longest is long enough for every count it stands for.
LEMMA LongestIsMax ==
  /\ Longest \in Nat
  /\ Longest >= AnomalyEnterCount
  /\ Longest >= DiagnosticEnterCount
  /\ Longest >= AnomalyExitCount
<1> DEFINE S == {AnomalyEnterCount, DiagnosticEnterCount, AnomalyExitCount}
<1>1. \E x \in S : \A y \in S : x >= y
  <2>1. \E x \in S : x >= AnomalyEnterCount /\ x >= DiagnosticEnterCount
                     /\ x >= AnomalyExitCount
    BY ConfigAssumption
  <2> QED BY <2>1
<1>2. Longest \in S /\ \A y \in S : Longest >= y
  BY <1>1 DEF Longest, Max
<1> QED BY <1>2, ConfigAssumption

\* Merge makes a score of scores (RemoteHealthFeedback::Merge).
LEMMA MergeTyped ==
  ASSUME MachineTypes, NEW local \in Scores, NEW score \in Merged(local)
  PROVE  score \in Scores
BY DEF MachineTypes, Merged, Fresh, JustArrived

\* A Worker that has just started watches nothing and has loaded nothing.
LEMMA InitInv == Init => Inv
<1> SUFFICES ASSUME Init PROVE Inv
  OBVIOUS
<1> USE ConfigAssumption, ProbeAssumption
        DEF Init, MachineInit, FeedbackInit, ControllerInit
<1>1. MachineTypes /\ CountersInv
  BY DEF MachineTypes, CountersInv, States, Grades
<1>2. ProbesInv
  <2>1. \A k \in Kinds : /\ DOMAIN status[k] = {"requested", "attached", "retries", "wait"}
                         /\ status[k].requested = FALSE /\ status[k].attached = FALSE
                         /\ status[k].retries = 0
    BY DEF Idle
  <2>2. StatusTypes
    <3>1. 0 \in 0..MaxAttach
      OBVIOUS
    <3> QED BY <2>1, <3>1, Zenon DEF StatusTypes
  <2>3. /\ {k \in Kinds : status[k].attached} = {}
        /\ {k \in Kinds : status[k].requested} = {}
    BY <2>1
  <2> QED BY <2>2, <2>3 DEF ProbesInv, ProbeTypes
<1>3. WantedInv
  BY DEF WantedInv
<1>4. ProfileInv
  BY DEF ProfileInv, Heavy
<1>5. AttemptsInv
  BY DEF AttemptsInv, Idle
<1> QED BY <1>1, <1>2, <1>3, <1>4, <1>5 DEF Inv

-----------------------------------------------------------------------------
(* Sample: the state machine moves and the probes stay. *)

\* What a sample does to the streaks.
LEMMA Streaks ==
  ASSUME NEW score \in Scores,
         streak' = [g \in DOMAIN Grades |->
                      IF score \in Grades[g] THEN Smaller(streak[g] + 1, Longest) ELSE 0]
  PROVE  /\ streak'.recovered = IF score <= Recovered
                                  THEN Smaller(streak.recovered + 1, Longest) ELSE 0
         /\ streak'.suspect = IF score >= SuspectEnter
                                THEN Smaller(streak.suspect + 1, Longest) ELSE 0
BY DEF Grades, Scores, Recovered, SuspectEnter, DiagnosticEnter, ProfilingEnter

\* The moves of the machine, each on the streak it asks for (Update).
LEMMA UpdateKeeps ==
  ASSUME MachineTypes, CountersInv, NEW score \in Scores, Update(score),
         NEW r, NEW s, NEW o, r \in Nat, s \in Nat, o \in Nat,
         r = IF score <= Recovered THEN Smaller(streak.recovered + 1, Longest) ELSE 0,
         s = IF score >= SuspectEnter THEN Smaller(streak.suspect + 1, Longest) ELSE 0,
         o = IF state = "COOLDOWN" /\ Cooled /\ score >= DiagnosticEnter
               THEN Smaller(observed + 1, DiagnosticEnterCount)
               ELSE IF state = "COOLDOWN" THEN observed ELSE 0
  PROVE  /\ state' \in States
         /\ anomalySamples' \in Nat /\ diagnosticSamples' \in Nat
         /\ recoverySamples' \in Nat
         /\ state' = "NORMAL" => anomalySamples' <= s
         /\ state' = "NORMAL" => recoverySamples' = 0
         /\ recoverySamples' <= r
         /\ state' = "COOLDOWN" => diagnosticSamples' <= o
         /\ state = "NORMAL" /\ state' # state => s >= AnomalyEnterCount
         /\ state \in {"SUSPECT", "COOLDOWN"} /\ state' = "NORMAL" => r >= AnomalyExitCount
         /\ state = "DIAGNOSTIC" /\ state' = "COOLDOWN" => r >= AnomalyExitCount
         /\ state = "COOLDOWN" /\ state' = "DIAGNOSTIC" => o >= DiagnosticEnterCount
         /\ profilingAge' = IF state' = "PROFILING" /\ state # "PROFILING"
                              THEN 0 ELSE profilingAge
         /\ state = "PROFILING" /\ profilingAge >= ProfilingDuration => state' = "COOLDOWN"
<1>0. /\ streak.recovered \in Nat /\ streak.suspect \in Nat
      /\ state \in States /\ observed \in Nat
      /\ anomalySamples \in Nat /\ diagnosticSamples \in Nat /\ recoverySamples \in Nat
  BY DEF MachineTypes, Grades
<1> USE <1>0, LongestIsMax, ConfigAssumption
    DEF CountersInv, Scores, States, Recovered, SuspectEnter, DiagnosticEnter,
        ProfilingEnter, Smaller, Enter, Stay
<1>1. CASE InNormal(score)
  BY <1>1 DEF InNormal
<1>2. CASE InSuspect(score)
  BY <1>2 DEF InSuspect, Recovering, Diagnosing, Recoveries, Diagnostics
<1>3. CASE InDiagnostic(score)
  BY <1>3 DEF InDiagnostic, Recovering, Recoveries
<1>4. CASE InProfiling(score)
  BY <1>4 DEF InProfiling, Recoveries
<1>5. CASE InCooldown(score)
  BY <1>5 DEF InCooldown, Recovering, Diagnosing, Recoveries, Diagnostics
<1> QED BY <1>1, <1>2, <1>3, <1>4, <1>5 DEF Update

\* One sample: what it proves of the move, and that the invariant is kept.
Moves ==
  /\ state = "NORMAL" /\ state' # state => streak'.suspect >= AnomalyEnterCount
  /\ state \in {"SUSPECT", "COOLDOWN"} /\ state' = "NORMAL" =>
       streak'.recovered >= AnomalyExitCount
  /\ state = "DIAGNOSTIC" /\ state' = "COOLDOWN" =>
       streak'.recovered >= AnomalyExitCount
  /\ state = "COOLDOWN" /\ state' = "DIAGNOSTIC" => observed' >= DiagnosticEnterCount
  /\ state = "PROFILING" /\ profilingAge >= ProfilingDuration => state' = "COOLDOWN"

\* The collecting thread's first half of a turn (PushOnce up to Update).
LEMMA SampleKeeps ==
  ASSUME Inv, NEW local \in Scores, Sample(local)
  PROVE  Inv' /\ Moves
<1> USE DEF Inv
<1>0. PICK score \in Merged(local) :
      /\ step = "sample" /\ step' = "apply" /\ Update(score)
      /\ streak' = [g \in DOMAIN Grades |->
                      IF score \in Grades[g] THEN Smaller(streak[g] + 1, Longest) ELSE 0]
      /\ observed' = IF state = "COOLDOWN" /\ Cooled /\ score \in Grades.severe
                       THEN Smaller(observed + 1, DiagnosticEnterCount)
                       ELSE IF state = "COOLDOWN" THEN observed ELSE 0
      /\ UNCHANGED <<remote, probes, calm, profiled, tries>>
  BY Zenon DEF Sample
<1>1. score \in Scores
  BY MergeTyped
<1>2. /\ step = "sample" /\ step' = "apply" /\ Update(score)
      /\ streak' = [g \in DOMAIN Grades |->
                      IF score \in Grades[g] THEN Smaller(streak[g] + 1, Longest) ELSE 0]
      /\ observed' = IF state = "COOLDOWN" /\ Cooled /\ score \in Grades.severe
                       THEN Smaller(observed + 1, DiagnosticEnterCount)
                       ELSE IF state = "COOLDOWN" THEN observed ELSE 0
      /\ UNCHANGED <<remote, probes, calm, profiled, attempts>>
  BY <1>0 DEF tries
<1>3. /\ streak'.recovered = IF score <= Recovered
                               THEN Smaller(streak.recovered + 1, Longest) ELSE 0
      /\ streak'.suspect = IF score >= SuspectEnter
                             THEN Smaller(streak.suspect + 1, Longest) ELSE 0
  BY <1>1, <1>2, Streaks
<1>4. observed' = IF state = "COOLDOWN" /\ Cooled /\ score >= DiagnosticEnter
                    THEN Smaller(observed + 1, DiagnosticEnterCount)
                    ELSE IF state = "COOLDOWN" THEN observed ELSE 0
  BY <1>1, <1>2 DEF Grades, Scores, Recovered, DiagnosticEnter, ProfilingEnter
<1>5. streak' \in [DOMAIN Grades -> Nat]
  BY <1>2, LongestIsMax DEF MachineTypes, Smaller
<1>6. streak'.recovered \in Nat /\ streak'.suspect \in Nat /\ observed' \in Nat
  BY <1>4, <1>5, ConfigAssumption DEF MachineTypes, Smaller, Grades
<1>7. /\ state' \in States
      /\ anomalySamples' \in Nat /\ diagnosticSamples' \in Nat
      /\ recoverySamples' \in Nat
      /\ state' = "NORMAL" => anomalySamples' <= streak'.suspect
      /\ state' = "NORMAL" => recoverySamples' = 0
      /\ recoverySamples' <= streak'.recovered
      /\ state' = "COOLDOWN" => diagnosticSamples' <= observed'
      /\ profilingAge' = IF state' = "PROFILING" /\ state # "PROFILING"
                           THEN 0 ELSE profilingAge
      /\ Moves
  BY <1>1, <1>2, <1>3, <1>4, <1>6, UpdateKeeps DEF Moves
<1>8. MachineTypes' /\ CountersInv'
  BY <1>2, <1>5, <1>6, <1>7, ConfigAssumption DEF MachineTypes, CountersInv
<1>9. ProbesInv' /\ WantedInv' /\ AttemptsInv'
  BY <1>2 DEF ProbesInv, ProbeTypes, StatusTypes, WantedInv, AttemptsInv, probes
<1>10. ProfileInv'
  <2>1. Heavy' = Heavy /\ profiled' = profiled /\ step' # "sample"
    BY <1>2 DEF Heavy, probes
  <2>2. state # "PROFILING" => profiled = 0
    BY <1>2 DEF ProfileInv
  <2> QED BY <1>7, <2>1, <2>2, ConfigAssumption DEF ProfileInv, MachineTypes
<1> QED BY <1>7, <1>8, <1>9, <1>10

-----------------------------------------------------------------------------
(* ApplyStep: the probes follow and the machine stays. *)

\* The set that is wanted, and the profile type in it.
LEMMA Wanted ==
  ASSUME NEW s \in States, NEW type \in ProfileTypes \cup {""}, NEW active \in BOOLEAN,
         active => type \in ProfileTypes
  PROVE  /\ DesiredFor(s, type, active) \subseteq Kinds
         /\ s # "PROFILING" => DesiredFor(s, type, active) \cap ProfileTypes = {}
BY DEF DesiredFor, States, Kinds, DiagnosticKinds, ProfileTypes

\* The session after Apply is of the type asked for (ProbeController::Apply).
LEMMA SessionAfter ==
  ASSUME ProbeTypes, NEW s \in States, NEW type \in ProfileTypes
  PROVE  /\ SessionFor(s, type) \in Sessions \cup {Nothing}
         /\ s # "PROFILING" => SessionFor(s, type) = Nothing
         /\ SessionFor(s, type) # Nothing => SessionFor(s, type).type = type
BY ProbeAssumption DEF SessionFor, ProbeTypes, Sessions

\* What Attach makes of a set of kinds to load: what it wants, and each kind on
\* its own.  Nothing that is attached is among the kinds that are due.
LEMMA AttachKeeps ==
  ASSUME ProbesInv, AttemptsInv,
         NEW wanted \in SUBSET Kinds, NEW toLoad \in SUBSET wanted, NEW bad \in SUBSET toLoad,
         wanted # desired => toLoad = wanted,
         wanted = desired => \A k \in toLoad : ~status[k].attached /\ RetryDue(k),
         Attach(wanted, toLoad, bad),
         attempts' = [k \in Kinds |->
                       (IF desired' = desired THEN attempts[k] ELSE 0)
                       + (IF k \in loading' THEN 1 ELSE 0)]
  PROVE  /\ StatusTypes' /\ AttemptsInv'
         /\ loaded' = {k \in Kinds : status'[k].attached}
         /\ desired' = {k \in Kinds : status'[k].requested}
         /\ loaded' \subseteq wanted /\ desired' = wanted /\ initialized'
         /\ desired' = desired => loaded \cap loading' = {}
<1>1. /\ loaded' = (loaded \ ((Kinds \ wanted) \cup toLoad)) \cup (toLoad \ bad)
      /\ status' = [k \in Kinds |->
                      IF k \notin wanted THEN Idle
                      ELSE IF k \in toLoad \cap bad THEN Failed(status[k])
                      ELSE IF k \in toLoad THEN Attached
                      ELSE status[k]]
      /\ loading' = toLoad /\ desired' = wanted /\ initialized' = TRUE
  BY DEF Attach, Destroyed
<1>2. StatusTypes /\ loaded = {k \in Kinds : status[k].attached}
      /\ desired = {k \in Kinds : status[k].requested} /\ loaded \subseteq desired
  BY DEF ProbesInv, ProbeTypes
<1>3. ASSUME NEW k \in Kinds
      PROVE  LET n == IF status[k].retries < MaxAttach
                        THEN status[k].retries + 1 ELSE MaxAttach
             IN /\ DOMAIN Failed(status[k]) = {"requested", "attached", "retries", "wait"}
                /\ Failed(status[k]).requested = TRUE
                /\ Failed(status[k]).attached = FALSE
                /\ Failed(status[k]).retries = n /\ n \in 1..MaxAttach
  <2> DEFINE n == IF status[k].retries < MaxAttach
                    THEN status[k].retries + 1 ELSE MaxAttach
             w == IF n = MaxAttach THEN 0 ELSE Delay[n - 1]
  <2>1. Failed(status[k]) = [requested |-> TRUE, attached |-> FALSE, retries |-> n,
                             wait |-> w]
    BY Zenon DEF Failed
  <2>2. n \in 1..MaxAttach
    BY <1>2, ProbeAssumption DEF StatusTypes
  <2> HIDE DEF n, w
  <2>3. /\ DOMAIN Failed(status[k]) = {"requested", "attached", "retries", "wait"}
        /\ Failed(status[k]).requested = TRUE
        /\ Failed(status[k]).attached = FALSE
        /\ Failed(status[k]).retries = n
    BY <2>1
  <2> QED BY <2>2, <2>3 DEF n
<1>4. ASSUME NEW k \in Kinds
      PROVE  /\ DOMAIN status'[k] = {"requested", "attached", "retries", "wait"}
             /\ status'[k].requested \in BOOLEAN /\ status'[k].attached \in BOOLEAN
             /\ status'[k].retries \in 0..MaxAttach
             /\ k \in loaded' <=> status'[k].attached
             /\ k \in wanted <=> status'[k].requested
             /\ ~status'[k].attached => attempts'[k] <= status'[k].retries
             /\ attempts'[k] \in 0..MaxAttach
             /\ k \notin wanted => attempts'[k] = 0
  <2>1. attempts'[k] = (IF wanted = desired THEN attempts[k] ELSE 0)
                       + (IF k \in toLoad THEN 1 ELSE 0)
    BY <1>1
  <2>2. /\ attempts[k] \in 0..MaxAttach
        /\ ~status[k].attached => attempts[k] <= status[k].retries
        /\ k \notin desired => attempts[k] = 0
        /\ status[k].retries \in 0..MaxAttach
    BY <1>2 DEF AttemptsInv, StatusTypes
  <2>3. CASE k \notin wanted
    <3>1. status'[k] = Idle /\ k \notin loaded' /\ attempts'[k] = 0
      BY <1>1, <2>1, <2>2, <2>3
    <3> QED BY <2>3, <3>1, ProbeAssumption DEF Idle
  <2>4. CASE k \in toLoad
    <3>1. /\ attempts'[k] \in 1..MaxAttach
          /\ wanted = desired =>
               attempts'[k] <= status[k].retries + 1 /\ status[k].retries < MaxAttach
          /\ wanted # desired => attempts'[k] = 1
      <4>1. CASE wanted # desired
        BY <2>1, <2>4, <4>1, ProbeAssumption
      <4>2. CASE wanted = desired
        <5>1. ~status[k].attached /\ RetryDue(k)
          BY <2>4, <4>2
        <5> QED BY <2>1, <2>2, <2>4, <4>2, <5>1, ProbeAssumption DEF RetryDue
      <4> QED BY <4>1, <4>2
    <3>2. CASE k \in bad
      <4>1. status'[k] = Failed(status[k]) /\ k \notin loaded'
        BY <1>1, <2>4, <3>2
      <4>2. /\ DOMAIN status'[k] = {"requested", "attached", "retries", "wait"}
            /\ status'[k].requested = TRUE /\ status'[k].attached = FALSE
            /\ status'[k].retries = IF status[k].retries < MaxAttach
                                      THEN status[k].retries + 1 ELSE MaxAttach
            /\ status'[k].retries \in 1..MaxAttach
        BY <1>3, <4>1
      <4>3. attempts'[k] <= status'[k].retries
        BY <2>2, <3>1, <4>2
      <4>4. attempts'[k] \in 0..MaxAttach /\ status'[k].retries \in 0..MaxAttach
        BY <3>1, <4>2
      <4> QED BY <2>4, <4>1, <4>2, <4>3, <4>4, Zenon
    <3>3. CASE k \notin bad
      <4>1. status'[k] = Attached /\ k \in loaded'
        BY <1>1, <2>4, <3>3
      <4> QED BY <2>4, <3>1, <4>1, ProbeAssumption DEF Attached
    <3> QED BY <3>2, <3>3
  <2>5. CASE k \in wanted /\ k \notin toLoad
    <3>1. status'[k] = status[k] /\ wanted = desired /\ attempts'[k] = attempts[k]
      BY <1>1, <2>1, <2>2, <2>5
    <3>2. k \in loaded' <=> k \in loaded
      BY <1>1, <2>5
    <3> QED BY <1>2, <2>2, <2>5, <3>1, <3>2 DEF StatusTypes
  <2> QED BY <2>3, <2>4, <2>5
<1>5. StatusTypes' /\ AttemptsInv'
  BY <1>1, <1>4 DEF StatusTypes, AttemptsInv
<1>6. /\ loaded' = {k \in Kinds : status'[k].attached}
      /\ desired' = {k \in Kinds : status'[k].requested}
  BY <1>1, <1>2, <1>4
<1>7. loaded' \subseteq wanted /\ initialized'
  BY <1>1, <1>2
<1>8. desired' = desired => loaded \cap loading' = {}
  BY <1>1, <1>2
<1> QED BY <1>1, <1>5, <1>6, <1>7, <1>8

\* One call of Apply, whatever it does: what it wants is what it asked for, and
\* what it loads was not loaded unless the set that is wanted changed.
LEMMA ApplyFollows ==
  ASSUME Inv, NEW type \in ProfileTypes, ApplyStep(type)
  PROVE  LET after == SessionFor(state, type)
             wanted == DesiredFor(state, type, after # Nothing)
         IN /\ session' = after /\ desired' = wanted /\ initialized'
            /\ loaded' = {k \in Kinds : status'[k].attached}
            /\ desired' = {k \in Kinds : status'[k].requested}
            /\ loaded' \subseteq wanted
            /\ StatusTypes' /\ AttemptsInv'
            /\ desired' = desired => loaded \cap loading' = {}
<1> DEFINE after == SessionFor(state, type)
           wanted == DesiredFor(state, type, after # Nothing)
           changed == ~initialized \/ wanted # desired
           due == {k \in desired : ~status[k].attached /\ RetryDue(k)}
           toLoad == IF changed THEN wanted ELSE due
<1> USE DEF Inv
<1>1. /\ session' = after
      /\ IF changed \/ due # {}
           THEN \E bad \in SUBSET (toLoad \cap Flaky) : Attach(wanted, toLoad, bad)
           ELSE /\ loading' = {}
                /\ UNCHANGED <<desired, initialized, status, loaded>>
      /\ attempts' = [k \in Kinds |->
                        (IF desired' = desired THEN attempts[k] ELSE 0)
                        + (IF k \in loading' THEN 1 ELSE 0)]
  BY DEF ApplyStep, Apply
<1>2. wanted \in SUBSET Kinds
  BY Wanted DEF MachineTypes
<1> HIDE DEF after, wanted
<1>3. /\ toLoad \in SUBSET wanted
      /\ wanted # desired => toLoad = wanted
      /\ wanted = desired => \A k \in toLoad : ~status[k].attached /\ RetryDue(k)
  <2>1. ~initialized => desired = {}
    BY DEF ProbesInv
  <2> QED BY <2>1
<1>4. CASE changed \/ due # {}
  <2> HIDE DEF toLoad, changed, due
  <2>1. PICK bad \in SUBSET (toLoad \cap Flaky) : Attach(wanted, toLoad, bad)
    BY <1>1, <1>4
  <2>2. bad \in SUBSET toLoad
    OBVIOUS
  <2> QED BY <1>1, <1>2, <1>3, <2>1, <2>2, AttachKeeps DEF after, wanted
<1>5. CASE ~(changed \/ due # {})
  <2>1. /\ loading' = {} /\ UNCHANGED <<desired, initialized, status, loaded>>
        /\ initialized /\ wanted = desired
    BY <1>1, <1>5
  <2>2. /\ loaded = {k \in Kinds : status[k].attached}
        /\ desired = {k \in Kinds : status[k].requested}
        /\ loaded \subseteq desired /\ StatusTypes
    BY DEF ProbesInv, ProbeTypes
  <2>3. StatusTypes'
    BY <2>1, <2>2 DEF StatusTypes
  <2>4. AttemptsInv'
    <3>1. \A k \in Kinds : attempts'[k] = attempts[k]
      BY <1>1, <2>1 DEF AttemptsInv
    <3> QED BY <2>1, <3>1 DEF AttemptsInv
  <2> QED BY <1>1, <2>1, <2>2, <2>3, <2>4 DEF after, wanted
<1> QED BY <1>4, <1>5

\* The collecting thread's second half of a turn (PushOnce from Apply).
LEMMA ApplyKeeps ==
  ASSUME Inv, NEW type \in ProfileTypes, ApplyStep(type)
  PROVE  Inv' /\ (desired' = desired => loaded \cap loading' = {})
<1> DEFINE after == SessionFor(state, type)
           wanted == DesiredFor(state, type, after # Nothing)
<1>1. /\ session' = after /\ desired' = wanted /\ initialized'
      /\ loaded' = {k \in Kinds : status'[k].attached}
      /\ desired' = {k \in Kinds : status'[k].requested}
      /\ loaded' \subseteq wanted
      /\ StatusTypes' /\ AttemptsInv'
      /\ desired' = desired => loaded \cap loading' = {}
  BY ApplyFollows
<1> USE DEF Inv
<1>2. /\ step' = "sample" /\ UNCHANGED <<machine, remote, calm, streak, observed>>
      /\ profiled' = IF Heavy # {} /\ loaded' \cap ProfileTypes # {} THEN profiled ELSE 0
  BY DEF ApplyStep
<1>3. /\ after \in Sessions \cup {Nothing}
      /\ state # "PROFILING" => after = Nothing
      /\ after # Nothing => after.type = type
  BY SessionAfter DEF MachineTypes, ProbesInv
<1>4. wanted \subseteq Kinds /\ (state # "PROFILING" => wanted \cap ProfileTypes = {})
  BY Wanted DEF MachineTypes
<1>5. wanted = DesiredFor(state, IF after = Nothing THEN "" ELSE after.type,
                          after # Nothing)
  <2>1. CASE after = Nothing
    BY <2>1 DEF DesiredFor
  <2>2. CASE after # Nothing
    BY <1>3, <2>2
  <2> QED BY <2>1, <2>2
<1> HIDE DEF after, wanted
<1>6. MachineTypes' /\ CountersInv'
  BY <1>2 DEF MachineTypes, CountersInv, machine, counters
<1>7. ProbesInv'
  BY <1>1, <1>3, <1>4 DEF ProbesInv, ProbeTypes
<1>8. WantedInv'
  BY <1>1, <1>2, <1>3, <1>5 DEF WantedInv, machine
<1>9. ProfileInv'
  <2>1. state' = state /\ profilingAge' = profilingAge /\ profilingAge \in Nat
    BY <1>2, ConfigAssumption DEF machine, MachineTypes
  <2>2. state # "PROFILING" => Heavy' = {}
    BY <1>1, <1>4 DEF Heavy
  <2> QED BY <1>2, <2>1, <2>2 DEF ProfileInv, Heavy
<1> QED BY <1>1, <1>6, <1>7, <1>8, <1>9

-----------------------------------------------------------------------------
(* Feedback, time and calm. *)

\* The other thread brings a score (SendWithRetry).
LEMMA FeedbackKeeps ==
  ASSUME Inv, NEW trigger \in Triggers, Feedback(trigger)
  PROVE  Inv'
<1> USE DEF Inv
<1>1. /\ remote'.trigger = trigger
      /\ UNCHANGED <<machine, probes, step, calm, streak, observed, profiled, attempts>>
  BY DEF Feedback, Accept, tries
<1>2. MachineTypes' /\ CountersInv'
  BY <1>1, LoopAssumption DEF MachineTypes, CountersInv, machine, counters
<1>3. ProbesInv' /\ WantedInv'
  BY <1>1 DEF ProbesInv, ProbeTypes, StatusTypes, WantedInv, machine, probes
<1>4. ProfileInv' /\ AttemptsInv'
  BY <1>1 DEF ProfileInv, Heavy, AttemptsInv, machine, probes
<1> QED BY <1>2, <1>3, <1>4

\* Time goes by for the machine, the feedback, the session and the retries.
LEMMA ElapseKeeps == ASSUME Inv, Elapse PROVE Inv'
<1> USE DEF Inv
<1>1. /\ profilingAge' = Smaller(profilingAge + 1, ProfilingDuration)
      /\ UNCHANGED <<state, counters>>
      /\ remote' = IF remote = None \/ remote.age = Stale
                     THEN remote ELSE [remote EXCEPT !.age = @ + 1]
      /\ session' = IF session = Nothing \/ Expired
                      THEN session ELSE [session EXCEPT !.age = @ + 1]
      /\ status' = [k \in Kinds |->
                      [status[k] EXCEPT !.wait = IF @ > 0 THEN @ - 1 ELSE 0]]
      /\ UNCHANGED <<profileExpired, desired, initialized, loaded, loading>>
      /\ profiled' = IF Heavy # {} THEN Smaller(profiled + 1, ProfilingDuration) ELSE 0
      /\ UNCHANGED <<step, calm, streak, observed, attempts>>
  BY DEF Elapse, MachineAges, FeedbackAges, ControllerAges
<1>2. MachineTypes' /\ CountersInv'
  <2>1. profilingAge' \in 0..ProfilingDuration
    BY <1>1, ConfigAssumption DEF MachineTypes, Smaller
  <2>2. remote' # None => remote'.trigger \in Scores
    <3>1. remote # None => remote'.trigger = remote.trigger
      BY <1>1
    <3> QED BY <1>1, <3>1 DEF MachineTypes
  <2> QED BY <1>1, <2>1, <2>2 DEF MachineTypes, CountersInv, counters
<1>3. \A k \in Kinds :
        /\ DOMAIN status'[k] = DOMAIN status[k]
        /\ status'[k].requested = status[k].requested
        /\ status'[k].attached = status[k].attached
        /\ status'[k].retries = status[k].retries
  BY <1>1 DEF ProbesInv, ProbeTypes, StatusTypes
<1>4. /\ session' \in Sessions \cup {Nothing}
      /\ session' = Nothing <=> session = Nothing
      /\ session # Nothing => session'.type = session.type
  <2>1. CASE session = Nothing \/ Expired
    BY <1>1, <2>1 DEF ProbesInv, ProbeTypes
  <2>2. CASE ~(session = Nothing \/ Expired)
    <3>1. session \in Sessions /\ session.age < MaxDuration
      BY <2>2, ProbeAssumption DEF ProbesInv, ProbeTypes, Expired, Sessions
    <3>2. session' \in Sessions /\ session'.type = session.type
      BY <1>1, <2>2, <3>1, ProbeAssumption DEF Sessions
    <3> QED BY <2>2, <3>2, ProbeAssumption DEF Sessions
  <2> QED BY <2>1, <2>2
<1>5. ProbesInv'
  BY <1>1, <1>3, <1>4 DEF ProbesInv, ProbeTypes, StatusTypes
<1>6. WantedInv'
  <2>1. UNCHANGED <<state, step, desired, initialized>>
    BY <1>1
  <2>2. (IF session' = Nothing THEN "" ELSE session'.type)
          = (IF session = Nothing THEN "" ELSE session.type)
    BY <1>4
  <2> QED BY <1>4, <2>1, <2>2 DEF WantedInv
<1>7. ProfileInv'
  <2>1. Heavy' = Heavy
    BY <1>1 DEF Heavy
  <2> QED BY <1>1, <2>1, ConfigAssumption DEF ProfileInv, MachineTypes, Smaller
<1>8. AttemptsInv'
  BY <1>1, <1>3 DEF AttemptsInv
<1> QED BY <1>2, <1>5, <1>6, <1>7, <1>8

\* From here on the host is fine, or nothing happens at all.
LEMMA CalmKeeps == ASSUME Inv, CalmDown \/ UNCHANGED vars PROVE Inv'
<1> USE DEF Inv
<1>1. UNCHANGED <<machine, remote, probes, step, streak, observed, profiled, attempts>>
  BY DEF CalmDown, vars, tries
<1>2. MachineTypes' /\ CountersInv'
  BY <1>1 DEF MachineTypes, CountersInv, machine, counters
<1>3. ProbesInv' /\ WantedInv'
  BY <1>1 DEF ProbesInv, ProbeTypes, StatusTypes, WantedInv, machine, probes
<1>4. ProfileInv' /\ AttemptsInv'
  BY <1>1 DEF ProfileInv, Heavy, AttemptsInv, machine, probes
<1> QED BY <1>2, <1>3, <1>4

-----------------------------------------------------------------------------
\* Every step keeps the invariant, and only a sample moves the machine.
LEMMA StepKeeps ==
  ASSUME Inv, [Next]_vars
  PROVE  /\ Inv'
         /\ \/ step = "sample" /\ step' = "apply" /\ Moves
            \/ state' = state /\ ~(step = "sample" /\ step' = "apply")
         /\ step = "apply" /\ step' = "sample" /\ desired' = desired =>
              loaded \cap loading' = {}
<1>1. ASSUME NEW local \in Scores, Sample(local)
      PROVE  Inv' /\ Moves /\ step = "sample" /\ step' = "apply"
  BY <1>1, SampleKeeps DEF Sample
<1>2. ASSUME NEW type \in ProfileTypes, ApplyStep(type)
      PROVE  /\ Inv' /\ (desired' = desired => loaded \cap loading' = {})
             /\ state' = state /\ step = "apply" /\ step' = "sample"
  BY <1>2, ApplyKeeps DEF ApplyStep, machine
<1>3. ASSUME NEW trigger \in Triggers, Feedback(trigger)
      PROVE  Inv' /\ state' = state /\ step' = step
  BY <1>3, FeedbackKeeps DEF Feedback, machine
<1>4. CASE Elapse
  BY <1>4, ElapseKeeps DEF Elapse, MachineAges
<1>5. CASE CalmDown \/ UNCHANGED vars
  <2>1. Inv'
    BY <1>5, CalmKeeps
  <2>2. state' = state /\ step' = step
    BY <1>5 DEF CalmDown, vars, machine
  <2> QED BY <2>1, <2>2
<1> QED BY <1>1, <1>2, <1>3, <1>4, <1>5 DEF Next, PushOnce

\* For any thresholds, durations and delays the counters stand for samples in a row,
\* the bookkeeping of the probes agrees with the kernel and retries are counted.
THEOREM LoopCorrect == Spec => []Inv
BY InitInv, StepKeeps, PTL DEF Spec

\* Between two turns the kernel holds the probes that count as attached, all wanted in
\* the state of the machine, whichever loads failed and were retried (Apply).
THEOREM ProbesCorrect == Spec => []ProbesFollowState
<1>1. Inv => ProbesFollowState
  BY DEF Inv, ProbesInv, WantedInv, ProbesFollowState
<1> QED BY <1>1, LoopCorrect, PTL

\* The machine moves on the configured numbers of samples in a row (Update).
THEOREM StreaksCorrect == Spec => MovesOnStreaks
<1>1. Inv /\ [Next]_vars =>
        [/\ state = "NORMAL" /\ state' # state =>
              streak'.suspect >= AnomalyEnterCount
         /\ \/ state \in {"SUSPECT", "COOLDOWN"} /\ state' = "NORMAL"
            \/ state = "DIAGNOSTIC" /\ state' = "COOLDOWN"
            => streak'.recovered >= AnomalyExitCount]_vars
  BY StepKeeps DEF Moves
<1> QED BY <1>1, LoopCorrect, PTL DEF Spec, MovesOnStreaks

\* A new episode rests on anomalies seen after the cooldown was over.
THEOREM ObservedCorrect == Spec => ObservedAgain
<1>1. Inv /\ [Next]_vars =>
        [state = "COOLDOWN" /\ state' = "DIAGNOSTIC" =>
           observed' >= DiagnosticEnterCount]_vars
  BY StepKeeps DEF Moves
<1> QED BY <1>1, LoopCorrect, PTL DEF Spec, ObservedAgain

\* No sample leaves the machine in PROFILING once profile probes have been loaded for
\* the profiling duration, whatever sessions were started meanwhile.
THEOREM ProfilingCorrect == Spec => ProfilingIsShort
<1>1. ASSUME Inv, [Next]_vars, step = "sample", step' = "apply", state = "PROFILING",
             profiled >= ProfilingDuration
      PROVE  state' = "COOLDOWN"
  <2>1. profilingAge >= ProfilingDuration
    BY <1>1, ConfigAssumption DEF Inv, ProfileInv, MachineTypes
  <2> QED BY <1>1, <2>1, StepKeeps DEF Moves
<1>2. Inv /\ [Next]_vars =>
        [step = "sample" /\ step' = "apply" /\ state = "PROFILING"
           /\ profiled >= ProfilingDuration => state' = "COOLDOWN"]_vars
  BY <1>1
<1> QED BY <1>2, LoopCorrect, PTL DEF Spec, ProfilingIsShort

-----------------------------------------------------------------------------
(* Types: counters below what they are compared with, waits in range. *)

\* The delays before retries double, so none is longer than the last one.
LEMMA DelaysDouble ==
  /\ Delay \in [0..MaxAttach -> Nat]
  /\ \A n \in 0..MaxAttach : \A j \in 0..n : Delay[j] <= Delay[n]
  /\ \A n \in 0..MaxAttach : Delay[n] <= Delay[MaxAttach]
<1> DEFINE Is(f) == f = [n \in 0..MaxAttach |->
                           IF n = 0 THEN RetryDelay ELSE 2 * f[n - 1]]
           double == [n \in 1..MaxAttach |-> [v \in Nat |-> 2 * v]]
<1>0. MaxAttach \in Nat /\ RetryDelay \in Nat
  BY ProbeAssumption
<1>1. double \in StepFunctions(MaxAttach, Nat)
  BY <1>0 DEF StepFunctions
<1>2. PICK f : Follows(f, MaxAttach, Nat, RetryDelay, double)
  <2> HIDE DEF double
  <2> QED BY <1>0, <1>1, Recursion
<1>3. /\ f \in [0..MaxAttach -> Nat] /\ f[0] = RetryDelay
      /\ \A n \in 1..MaxAttach : f[n] = double[n][f[n - 1]]
  BY <1>2 DEF Follows
<1>4. \A n \in 0..MaxAttach : n # 0 => n - 1 \in 0..MaxAttach /\ n \in 1..MaxAttach
  BY <1>0
<1>5. \A n \in 0..MaxAttach : f[n] = IF n = 0 THEN RetryDelay ELSE 2 * f[n - 1]
  BY <1>3, <1>4
<1>6. Is(f)
  BY <1>3, <1>5
<1>7. Is(Delay)
  <2>1. Delay = CHOOSE g : Is(g)
    BY DEF Delay
  <2> HIDE DEF Is
  <2> QED BY <1>6, <2>1, Zenon
<1>8. Delay[0] = RetryDelay /\ \A n \in 1..MaxAttach : Delay[n] = 2 * Delay[n - 1]
  <2>1. Delay = [n \in 0..MaxAttach |-> IF n = 0 THEN RetryDelay ELSE 2 * Delay[n - 1]]
    BY <1>7
  <2>2. 0 \in 0..MaxAttach /\ \A n \in 1..MaxAttach : n \in 0..MaxAttach /\ n # 0
    BY <1>0
  <2> QED BY <2>1, <2>2
<1>9. \A n \in 0..MaxAttach : Delay[n] = f[n]
  <2>1. \A n \in 1..MaxAttach : f[n] = 2 * f[n - 1]
    BY <1>0, <1>5
  <2>2. \A n \in 1..MaxAttach : Delay[n - 1] = f[n - 1] => Delay[n] = f[n]
    BY <1>8, <2>1
  <2>3. Delay[0] = f[0] /\ MaxAttach \in Nat
    BY <1>0, <1>3, <1>8
  <2> HIDE DEF Is
  <2> QED BY <2>2, <2>3, Agree
<1>10. Delay \in [0..MaxAttach -> Nat]
  <2>1. Delay = [n \in 0..MaxAttach |-> IF n = 0 THEN RetryDelay ELSE 2 * Delay[n - 1]]
    BY <1>7
  <2>2. Delay = [n \in 0..MaxAttach |-> Delay[n]]
    BY <2>1
  <2> QED BY <1>3, <1>9, <2>2
<1> HIDE DEF Is, double
<1> DEFINE N == {n \in Nat : n <= MaxAttach => \A j \in 0..n : Delay[j] <= Delay[n]}
<1>11. 0 \in N
  BY <1>0, <1>10
<1>12. ASSUME NEW n \in Nat, n \in N PROVE n + 1 \in N
  <2> SUFFICES ASSUME n + 1 <= MaxAttach, NEW j \in 0..(n + 1)
               PROVE  Delay[j] <= Delay[n + 1]
    OBVIOUS
  <2>1. n \in 0..MaxAttach /\ n + 1 \in 1..MaxAttach /\ (n + 1) - 1 = n
        /\ j \in 0..MaxAttach /\ n + 1 \in 0..MaxAttach
    BY <1>0
  <2>2. Delay[n + 1] = 2 * Delay[n] /\ Delay[n] \in Nat /\ Delay[j] \in Nat
        /\ Delay[n + 1] \in Nat
    BY <1>8, <1>10, <2>1
  <2>3. CASE j = n + 1
    BY <2>2, <2>3
  <2>4. CASE j \in 0..n
    <3>1. Delay[j] <= Delay[n]
      BY <1>12, <2>1, <2>4
    <3> QED BY <2>2, <3>1
  <2> QED BY <2>3, <2>4
<1>13. \A n \in Nat : n \in N
  <2> HIDE DEF N
  <2> QED BY <1>11, <1>12, NatSetInduction
<1>14. \A n \in 0..MaxAttach : \A j \in 0..n : Delay[j] <= Delay[n]
  BY <1>0, <1>13
<1>15. ASSUME NEW n \in 0..MaxAttach PROVE Delay[n] <= Delay[MaxAttach]
  <2>1. MaxAttach \in 0..MaxAttach
    BY <1>0
  <2> QED BY <1>14, <2>1
<1> QED BY <1>10, <1>14, <1>15

\* The delay owed after a try is one of the delays, and it grows with the tries.
LEMMA DueTyped ==
  ASSUME NEW n \in 0..MaxAttach
  PROVE  /\ Due(n) \in 0..Delay[MaxAttach]
         /\ \A j \in 0..n : Due(j) \in Nat /\ Due(j) <= Due(n)
<1>1. \A j \in 0..n : j # 0 => j - 1 \in 0..(n - 1)
  BY ProbeAssumption
<1>2. n # 0 => n - 1 \in 0..MaxAttach
  BY ProbeAssumption
<1> QED BY <1>1, <1>2, DelaysDouble, ProbeAssumption DEF Due

Status == [requested : BOOLEAN, attached : BOOLEAN,
           retries : 0..MaxAttach, wait : 0..Delay[MaxAttach]]

\* A failed load makes an entry whose wait is one of the delays.
LEMMA FailedTyped == ASSUME NEW s \in Status PROVE Failed(s) \in Status
<1> DEFINE n == IF s.retries < MaxAttach THEN s.retries + 1 ELSE MaxAttach
           w == IF n = MaxAttach THEN 0 ELSE Delay[n - 1]
<1>1. n \in 1..MaxAttach /\ n \in 0..MaxAttach
  BY ProbeAssumption DEF Status
<1>2. w \in 0..Delay[MaxAttach]
  <2> HIDE DEF n
  <2>1. n - 1 \in 0..MaxAttach /\ MaxAttach \in 0..MaxAttach
    BY <1>1, ProbeAssumption
  <2>2. Delay[n - 1] \in Nat /\ Delay[MaxAttach] \in Nat
        /\ Delay[n - 1] <= Delay[MaxAttach]
    BY <2>1, DelaysDouble
  <2> QED BY <2>2
<1>3. Failed(s) = [requested |-> TRUE, attached |-> FALSE, retries |-> n, wait |-> w]
  BY Zenon DEF Failed
<1> HIDE DEF n, w
<1> QED BY <1>1, <1>2, <1>3 DEF Status

\* The entries that Apply makes without a failure.
LEMMA EntriesTyped == Idle \in Status /\ Attached \in Status
<1>1. 0 \in 0..MaxAttach /\ 0 \in 0..Delay[MaxAttach]
  BY DelaysDouble, ProbeAssumption
<1> QED BY <1>1 DEF Idle, Attached, Status

\* A Worker that has just started.
LEMMA InitTypes == Init => TypeOK
<1> SUFFICES ASSUME Init PROVE TypeOK
  OBVIOUS
<1>1. MachineTypeOK
  BY ConfigAssumption DEF Init, MachineInit, MachineTypeOK, States
<1>2. FeedbackTypeOK
  BY DEF Init, FeedbackInit, FeedbackTypeOK
<1>3. ControllerTypeOK
  BY EntriesTyped DEF Init, ControllerInit, ControllerTypeOK, Status
<1>4. streak \in [DOMAIN Grades -> 0..Longest]
  BY LongestIsMax DEF Init
<1>5. /\ step = "sample" /\ calm = FALSE /\ observed = 0 /\ profiled = 0
      /\ attempts = [k \in Kinds |-> 0] /\ waited = [k \in Kinds |-> 0]
  BY DEF Init
<1>6. /\ 0 \in 0..DiagnosticEnterCount /\ 0 \in 0..ProfilingDuration /\ 0 \in 0..MaxAttach
      /\ 0 \in 0..Delay[MaxAttach]
  BY ConfigAssumption, ProbeAssumption, DelaysDouble
<1> QED BY <1>1, <1>2, <1>3, <1>4, <1>5, <1>6 DEF TypeOK

\* A counter that reaches what it is compared with is cleared (Update).
LEMMA UpdateTypes ==
  ASSUME MachineTypeOK, NEW score \in Scores, Update(score)
  PROVE  MachineTypeOK'
<1> USE ConfigAssumption
    DEF MachineTypeOK, Scores, States, Recovered, SuspectEnter, DiagnosticEnter,
        ProfilingEnter, Smaller, Enter, Stay
<1>1. CASE InNormal(score)
  BY <1>1 DEF InNormal
<1>2. CASE InSuspect(score)
  BY <1>2 DEF InSuspect, Recovering, Diagnosing, Recoveries, Diagnostics
<1>3. CASE InDiagnostic(score)
  BY <1>3 DEF InDiagnostic, Recovering, Recoveries
<1>4. CASE InProfiling(score)
  BY <1>4 DEF InProfiling, Recoveries
<1>5. CASE InCooldown(score)
  BY <1>5 DEF InCooldown, Recovering, Diagnosing, Recoveries, Diagnostics
<1> QED BY <1>1, <1>2, <1>3, <1>4, <1>5 DEF Update

\* A turn's sample (PushOnce up to Update).
LEMMA SampleTypes ==
  ASSUME Inv, TypeOK, NEW local \in Scores, Sample(local)
  PROVE  TypeOK'
<1>1. PICK score \in Merged(local) : Update(score)
  BY DEF Sample
<1>2. MachineTypeOK'
  <2>1. score \in Scores
    BY MergeTyped DEF Inv
  <2> QED BY <1>1, <2>1, UpdateTypes DEF TypeOK
<1>3. FeedbackTypeOK' /\ ControllerTypeOK'
  BY DEF Sample, TypeOK, FeedbackTypeOK, ControllerTypeOK, probes
<1>4. streak' \in [DOMAIN Grades -> 0..Longest]
  BY LongestIsMax DEF Sample, TypeOK, Smaller
<1>5. observed' \in 0..DiagnosticEnterCount
  BY ConfigAssumption DEF Sample, TypeOK, Smaller
<1>6. step' \in {"sample", "apply"} /\ UNCHANGED <<calm, profiled, attempts, waited>>
  BY DEF Sample, tries
<1> QED BY <1>2, <1>3, <1>4, <1>5, <1>6 DEF TypeOK

\* What Apply makes of the entries.
LEMMA AttachTypes ==
  ASSUME status \in [Kinds -> Status], NEW wanted \in SUBSET Kinds,
         NEW toLoad \in SUBSET Kinds, NEW bad, Attach(wanted, toLoad, bad)
  PROVE  status' \in [Kinds -> Status] /\ loading' \subseteq Kinds
<1>1. \A k \in Kinds : status[k] \in Status /\ Failed(status[k]) \in Status
  BY FailedTyped
<1> QED BY <1>1, EntriesTyped DEF Attach

\* A turn's second half (PushOnce from Apply).
LEMMA ApplyTypes ==
  ASSUME Inv, TypeOK, NEW type \in ProfileTypes, ApplyStep(type)
  PROVE  TypeOK'
<1> DEFINE after == SessionFor(state, type)
           wanted == DesiredFor(state, type, after # Nothing)
           changed == ~initialized \/ wanted # desired
           due == {k \in desired : ~status[k].attached /\ RetryDue(k)}
           toLoad == IF changed THEN wanted ELSE due
<1>1. /\ profileExpired' = (state = "PROFILING" /\ (profileExpired \/ Expired))
      /\ IF changed \/ due # {}
           THEN \E bad \in SUBSET (toLoad \cap Flaky) : Attach(wanted, toLoad, bad)
           ELSE /\ loading' = {}
                /\ UNCHANGED <<desired, initialized, status, loaded>>
  BY DEF ApplyStep, Apply
<1>2. Inv' /\ desired' = wanted /\ initialized' /\ wanted \in SUBSET Kinds
  <2>1. desired' = wanted /\ initialized'
    BY ApplyFollows
  <2>2. wanted \in SUBSET Kinds
    BY Wanted DEF Inv, MachineTypes
  <2> QED BY <2>1, <2>2, ApplyKeeps
<1>3. status \in [Kinds -> Status] /\ toLoad \in SUBSET Kinds /\ initialized \in BOOLEAN
  BY <1>2 DEF TypeOK, ControllerTypeOK, Status
<1> HIDE DEF wanted, toLoad, changed, due
<1>4. status' \in [Kinds -> Status] /\ loading' \subseteq Kinds /\ initialized' \in BOOLEAN
  <2>1. CASE changed \/ due # {}
    <3>1. PICK bad \in SUBSET (toLoad \cap Flaky) : Attach(wanted, toLoad, bad)
      BY <1>1, <2>1
    <3>2. status' \in [Kinds -> Status] /\ loading' \subseteq Kinds
      BY <1>2, <1>3, <3>1, AttachTypes
    <3>3. initialized' = TRUE
      BY <3>1 DEF Attach
    <3> QED BY <3>2, <3>3
  <2>2. CASE ~(changed \/ due # {})
    BY <1>1, <1>3, <2>2
  <2> QED BY <2>1, <2>2
<1>5. ControllerTypeOK'
  <2>1. /\ session' \in [type : ProfileTypes, age : 0..MaxDuration] \cup {Nothing}
        /\ desired' \subseteq Kinds /\ loaded' \subseteq Kinds
    BY <1>2 DEF Inv, ProbesInv, ProbeTypes, Sessions
  <2>2. profileExpired' \in BOOLEAN
    BY <1>1
  <2>3. status' \in [Kinds -> [requested : BOOLEAN, attached : BOOLEAN,
                               retries : 0..MaxAttach, wait : 0..Delay[MaxAttach]]]
    BY <1>4 DEF Status
  <2> QED BY <1>4, <2>1, <2>2, <2>3, Zenon DEF ControllerTypeOK
<1>6. attempts' \in [Kinds -> 0..MaxAttach]
  <2>1. attempts' = [k \in Kinds |-> attempts'[k]]
    BY DEF ApplyStep
  <2>2. \A k \in Kinds : attempts'[k] \in 0..MaxAttach
    BY <1>2 DEF Inv, AttemptsInv
  <2> QED BY <2>1, <2>2
<1>7. MachineTypeOK' /\ FeedbackTypeOK'
  BY DEF ApplyStep, TypeOK, MachineTypeOK, FeedbackTypeOK, machine, counters
<1>8. /\ step' \in {"sample", "apply"} /\ UNCHANGED <<calm, streak, observed>>
      /\ profiled' \in 0..ProfilingDuration
  BY ConfigAssumption DEF ApplyStep, TypeOK
<1>9. waited' \in [Kinds -> 0..Delay[MaxAttach]]
  BY DelaysDouble, ProbeAssumption DEF ApplyStep, TypeOK
<1> QED BY <1>5, <1>6, <1>7, <1>8, <1>9 DEF TypeOK

\* Time goes by: ages stop at what they are compared with, waits at zero.
LEMMA ElapseTypes == ASSUME Inv, TypeOK, Elapse PROVE TypeOK'
<1>1. MachineTypeOK'
  BY ConfigAssumption DEF Elapse, MachineAges, TypeOK, MachineTypeOK, Smaller, counters
<1>2. FeedbackTypeOK'
  <2>1. CASE remote = None \/ remote.age = Stale
    BY <2>1 DEF Elapse, FeedbackAges, TypeOK, FeedbackTypeOK
  <2>2. CASE ~(remote = None \/ remote.age = Stale)
    <3>1. remote \in [trigger : Triggers, age : 0..Stale]
      BY <2>2 DEF TypeOK, FeedbackTypeOK
    <3>2. remote' = [remote EXCEPT !.age = remote.age + 1]
      BY <2>2 DEF Elapse, FeedbackAges
    <3>3. remote.age + 1 \in 0..Stale
      BY <2>2, <3>1, FeedbackAssumption DEF Stale
    <3> QED BY <3>1, <3>2, <3>3 DEF FeedbackTypeOK
  <2> QED BY <2>1, <2>2
<1>3. status' \in [Kinds -> Status]
  <2>1. \A k \in Kinds : status[k] \in Status
    BY DEF TypeOK, ControllerTypeOK, Status
  <2>2. ASSUME NEW s \in Status
        PROVE  [s EXCEPT !.wait = IF s.wait > 0 THEN s.wait - 1 ELSE 0] \in Status
    <3>1. (IF s.wait > 0 THEN s.wait - 1 ELSE 0) \in 0..Delay[MaxAttach]
      BY DelaysDouble, ProbeAssumption DEF Status
    <3> QED BY <3>1 DEF Status
  <2>3. status' = [k \in Kinds |->
                     [status[k] EXCEPT !.wait = IF status[k].wait > 0
                                                  THEN status[k].wait - 1 ELSE 0]]
    BY DEF Elapse, ControllerAges
  <2> QED BY <2>1, <2>2, <2>3
<1>4. ControllerTypeOK'
  <2>1. Inv'
    BY ElapseKeeps
  <2>2. session' \in [type : ProfileTypes, age : 0..MaxDuration] \cup {Nothing}
    BY <2>1 DEF Inv, ProbesInv, ProbeTypes, Sessions
  <2>3. UNCHANGED <<profileExpired, desired, initialized, loaded, loading>>
    BY DEF Elapse, ControllerAges
  <2> QED BY <1>3, <2>2, <2>3 DEF TypeOK, ControllerTypeOK, Status
<1>5. /\ UNCHANGED <<step, calm, streak, observed, attempts>>
      /\ profiled' \in 0..ProfilingDuration
  BY ConfigAssumption DEF Elapse, TypeOK, Smaller
<1>6. waited' \in [Kinds -> 0..Delay[MaxAttach]]
  <2>1. ASSUME NEW k \in Kinds
        PROVE  Smaller(waited[k] + 1, Due(attempts[k])) \in 0..Delay[MaxAttach]
    <3>1. /\ Due(attempts[k]) \in 0..Delay[MaxAttach] /\ waited[k] \in 0..Delay[MaxAttach]
          /\ Delay[MaxAttach] \in Nat
      BY DueTyped, DelaysDouble, ProbeAssumption DEF TypeOK
    <3> HIDE DEF Due
    <3> QED BY <3>1 DEF Smaller
  <2> QED BY <2>1 DEF Elapse
<1> QED BY <1>1, <1>2, <1>4, <1>5, <1>6 DEF TypeOK

\* No counter reaches what it is compared with and stays there, no wait for a
\* retry is longer than the last of the doubling delays, no load is tried more
\* often than configured - for any thresholds, durations and delays.
THEOREM LoopTyped == Spec => []TypeOK
<1>1. ASSUME Inv, TypeOK, [Next]_vars PROVE TypeOK'
  <2>1. ASSUME NEW local \in Scores, Sample(local) PROVE TypeOK'
    BY <1>1, <2>1, SampleTypes
  <2>2. ASSUME NEW type \in ProfileTypes, ApplyStep(type) PROVE TypeOK'
    BY <1>1, <2>2, ApplyTypes
  <2>3. ASSUME NEW trigger \in Triggers, Feedback(trigger) PROVE TypeOK'
    <3>1. FeedbackTypeOK'
      BY <2>3, FeedbackAssumption DEF Feedback, Accept, FeedbackTypeOK, Stale
    <3>2. UNCHANGED <<machine, probes, step, calm, streak, observed, profiled, tries>>
      BY <2>3 DEF Feedback
    <3> QED BY <1>1, <3>1, <3>2
            DEF TypeOK, MachineTypeOK, ControllerTypeOK, machine, counters, probes, tries
  <2>4. CASE Elapse
    BY <1>1, <2>4, ElapseTypes
  <2>5. CASE CalmDown
    BY <1>1, <2>5 DEF CalmDown, TypeOK, MachineTypeOK, FeedbackTypeOK,
                      ControllerTypeOK, machine, counters, probes, tries
  <2>6. CASE UNCHANGED vars
    BY <1>1, <2>6 DEF vars, TypeOK, MachineTypeOK, FeedbackTypeOK,
                      ControllerTypeOK, machine, counters, probes, tries
  <2> QED BY <1>1, <2>1, <2>2, <2>3, <2>4, <2>5, <2>6 DEF Next, PushOnce
<1> QED BY InitInv, InitTypes, StepKeeps, <1>1, PTL DEF Spec

-----------------------------------------------------------------------------
(* The delays between the tries. *)

\* What is left to wait and what was waited make the delay owed after the last try.
SpacingInv ==
  \A k \in Kinds :
    attempts[k] > 0 /\ ~status[k].attached /\ status[k].retries < MaxAttach =>
      waited[k] + status[k].wait >= Due(attempts[k])

\* What Apply loads while the wanted set stays is what is due (AttachRetryDue).
LEMMA LoadsDue ==
  ASSUME Inv, NEW type \in ProfileTypes, ApplyStep(type), desired' = desired,
         NEW k \in loading'
  PROVE  k \in Kinds /\ ~status[k].attached /\ RetryDue(k)
<1> DEFINE after == SessionFor(state, type)
           wanted == DesiredFor(state, type, after # Nothing)
           changed == ~initialized \/ wanted # desired
           due == {j \in desired : ~status[j].attached /\ RetryDue(j)}
           toLoad == IF changed THEN wanted ELSE due
<1>1. IF changed \/ due # {}
        THEN \E bad \in SUBSET (toLoad \cap Flaky) : Attach(wanted, toLoad, bad)
        ELSE loading' = {}
  BY DEF ApplyStep, Apply
<1>2. desired' = wanted
  BY ApplyFollows
<1>3. (~initialized => desired = {}) /\ desired \subseteq Kinds
  BY DEF Inv, ProbesInv, ProbeTypes
<1> HIDE DEF wanted, after
<1>4. toLoad \subseteq due
  BY <1>2, <1>3
<1>5. loading' \subseteq toLoad
  <2> HIDE DEF toLoad, changed, due
  <2> QED BY <1>1 DEF Attach
<1> QED BY <1>3, <1>4, <1>5

\* A failed try owes a delay no shorter than its number asks for (ScheduleAttachRetry).
LEMMA ApplySpacing ==
  ASSUME Inv, TypeOK, SpacingInv, NEW type \in ProfileTypes, ApplyStep(type)
  PROVE  SpacingInv'
<1> DEFINE after == SessionFor(state, type)
           wanted == DesiredFor(state, type, after # Nothing)
           changed == ~initialized \/ wanted # desired
           due == {k \in desired : ~status[k].attached /\ RetryDue(k)}
           toLoad == IF changed THEN wanted ELSE due
<1>1. /\ IF changed \/ due # {}
           THEN \E bad \in SUBSET (toLoad \cap Flaky) : Attach(wanted, toLoad, bad)
           ELSE /\ loading' = {}
                /\ UNCHANGED <<desired, initialized, status, loaded>>
      /\ attempts' = [k \in Kinds |->
                        (IF desired' = desired THEN attempts[k] ELSE 0)
                        + (IF k \in loading' THEN 1 ELSE 0)]
      /\ waited' = [k \in Kinds |->
                      IF desired' = desired /\ k \notin loading' THEN waited[k] ELSE 0]
  BY DEF ApplyStep, Apply
<1>2. Inv'
  BY ApplyKeeps
<1>3. wanted # desired => toLoad = wanted
  OBVIOUS
<1> HIDE DEF wanted, toLoad, changed, due
<1>4. \A k \in Kinds : /\ status[k] \in Status /\ attempts[k] \in 0..MaxAttach
                       /\ waited[k] \in 0..Delay[MaxAttach]
  BY DEF TypeOK, ControllerTypeOK, Status
<1>5. CASE ~(changed \/ due # {})
  <2>1. \A k \in Kinds : /\ attempts'[k] = attempts[k] /\ waited'[k] = waited[k]
                         /\ status'[k] = status[k]
    BY <1>1, <1>4, <1>5
  <2> QED BY <2>1 DEF SpacingInv, Due
<1>6. CASE changed \/ due # {}
  <2>1. PICK bad \in SUBSET (toLoad \cap Flaky) : Attach(wanted, toLoad, bad)
    BY <1>1, <1>6
  <2>2. /\ status' = [k \in Kinds |->
                        IF k \notin wanted THEN Idle
                        ELSE IF k \in toLoad \cap bad THEN Failed(status[k])
                        ELSE IF k \in toLoad THEN Attached
                        ELSE status[k]]
        /\ loading' = toLoad /\ desired' = wanted
    BY <2>1 DEF Attach
  <2> SUFFICES ASSUME NEW k \in Kinds, attempts'[k] > 0, ~status'[k].attached,
                      status'[k].retries < MaxAttach
               PROVE  waited'[k] + status'[k].wait >= Due(attempts'[k])
    BY DEF SpacingInv, Due
  <2>3. k \in wanted
    BY <1>2, <2>2 DEF Inv, AttemptsInv
  <2>4. attempts'[k] \in 1..MaxAttach /\ attempts'[k] <= status'[k].retries
    BY <1>2, ProbeAssumption DEF Inv, AttemptsInv
  <2>5. CASE k \in toLoad
    <3>1. k \in bad /\ status'[k] = Failed(status[k])
      BY <2>2, <2>3, <2>5 DEF Attached
    <3>2. waited'[k] = 0
      BY <1>1, <2>2, <2>5
    <3> DEFINE n == IF status[k].retries < MaxAttach
                      THEN status[k].retries + 1 ELSE MaxAttach
               w == IF n = MaxAttach THEN 0 ELSE Delay[n - 1]
    <3>3. Failed(status[k]) = [requested |-> TRUE, attached |-> FALSE, retries |-> n,
                               wait |-> w]
      BY Zenon DEF Failed
    <3> HIDE DEF n
    <3>4. status'[k].retries = n /\ status'[k].wait = w
      BY <3>1, <3>3
    <3>5. n \in 1..MaxAttach /\ n # MaxAttach /\ attempts'[k] \in 1..n
      <4>1. n \in 1..MaxAttach
        BY <1>4, ProbeAssumption DEF n, Status
      <4> QED BY <2>4, <3>4, <4>1, ProbeAssumption
    <3>6. status'[k].wait = Due(n)
      BY <3>4, <3>5 DEF Due
    <3>7. n \in 0..MaxAttach /\ attempts'[k] \in 0..n
      BY <3>5, ProbeAssumption
    <3>8. Due(attempts'[k]) \in Nat /\ Due(attempts'[k]) <= Due(n) /\ Due(n) \in Nat
      <4> n \in 0..n
        BY <3>7, ProbeAssumption
      <4> QED BY <3>7, DueTyped
    <3> HIDE DEF Due
    <3> QED BY <3>2, <3>6, <3>8
  <2>6. CASE k \notin toLoad
    <3>1. desired' = desired
      BY <1>3, <2>2, <2>3, <2>6
    <3>2. attempts'[k] = attempts[k] /\ waited'[k] = waited[k] /\ status'[k] = status[k]
      BY <1>1, <1>4, <2>2, <2>3, <2>6, <3>1
    <3> QED BY <3>2 DEF SpacingInv, Due
  <2> QED BY <2>5, <2>6
<1> QED BY <1>5, <1>6

\* As time goes by, what is waited grows while what is left to wait shrinks.
LEMMA ElapseSpacing ==
  ASSUME Inv, TypeOK, SpacingInv, Elapse PROVE SpacingInv'
<1> SUFFICES ASSUME NEW k \in Kinds, attempts'[k] > 0, ~status'[k].attached,
                    status'[k].retries < MaxAttach
             PROVE  waited'[k] + status'[k].wait >= Due(attempts'[k])
  BY DEF SpacingInv, Due
<1>1. /\ status[k] \in Status /\ attempts[k] \in 0..MaxAttach
      /\ waited[k] \in 0..Delay[MaxAttach] /\ Delay[MaxAttach] \in Nat
  BY DelaysDouble, ProbeAssumption DEF TypeOK, ControllerTypeOK, Status
<1>2. /\ waited'[k] = Smaller(waited[k] + 1, Due(attempts[k]))
      /\ attempts'[k] = attempts[k]
      /\ status'[k] = [status[k] EXCEPT !.wait = IF status[k].wait > 0
                                                   THEN status[k].wait - 1 ELSE 0]
  BY DEF Elapse, ControllerAges
<1>3. /\ status'[k].attached = status[k].attached
      /\ status'[k].retries = status[k].retries
      /\ status'[k].wait = IF status[k].wait > 0 THEN status[k].wait - 1 ELSE 0
      /\ status[k].wait \in Nat
  BY <1>1, <1>2 DEF Status
<1>4. waited[k] + status[k].wait >= Due(attempts[k])
  BY <1>2, <1>3 DEF SpacingInv
<1>5. Due(attempts[k]) \in Nat
  BY <1>1, DueTyped
<1> HIDE DEF Due
<1> QED BY <1>1, <1>2, <1>3, <1>4, <1>5 DEF Smaller

\* Every step keeps to the delays.
LEMMA StepSpacing ==
  ASSUME Inv, TypeOK, SpacingInv, [Next]_vars PROVE SpacingInv'
<1>1. ASSUME NEW local \in Scores, Sample(local) PROVE SpacingInv'
  BY <1>1 DEF Sample, SpacingInv, tries, probes, Due
<1>2. ASSUME NEW type \in ProfileTypes, ApplyStep(type) PROVE SpacingInv'
  BY <1>2, ApplySpacing
<1>3. ASSUME NEW trigger \in Triggers, Feedback(trigger) PROVE SpacingInv'
  BY <1>3 DEF Feedback, SpacingInv, tries, probes, Due
<1>4. CASE Elapse
  BY <1>4, ElapseSpacing
<1>5. CASE CalmDown \/ UNCHANGED vars
  BY <1>5 DEF CalmDown, vars, SpacingInv, tries, probes, Due
<1> QED BY <1>1, <1>2, <1>3, <1>4, <1>5 DEF Next, PushOnce

\* For any delays, a kind that cannot be loaded is tried at most MaxAttach times for
\* one set of wanted probes, each time only after the whole doubling delay, and what is
\* loaded is not loaded again while that set stays (AttachRetryDue).
THEOREM AttemptsCorrect == Spec => AttemptsBounded
<1>1. Init => SpacingInv
  BY DEF Init, SpacingInv
<1>2. Spec => []SpacingInv
  BY <1>1, StepSpacing, LoopCorrect, LoopTyped, PTL DEF Spec
<1>3. ASSUME Inv, TypeOK, SpacingInv, [Next]_vars
      PROVE  /\ \A k \in Kinds : attempts'[k] <= MaxAttach
             /\ step = "apply" /\ step' = "sample" /\ desired' = desired =>
                  \A k \in loading' : k \notin loaded /\ waited[k] >= Due(attempts[k])
  <2>1. Inv'
    BY <1>3, StepKeeps
  <2>2. \A k \in Kinds : attempts'[k] <= MaxAttach
    BY <2>1, ProbeAssumption DEF Inv, AttemptsInv
  <2>3. ASSUME step = "apply", step' = "sample", desired' = desired, NEW k \in loading'
        PROVE  k \notin loaded /\ waited[k] >= Due(attempts[k])
    <3>1. PICK type \in ProfileTypes : ApplyStep(type)
      BY <1>3, <2>3 DEF Next, PushOnce, Sample, Feedback, Elapse, CalmDown, vars
    <3>2. k \in Kinds /\ ~status[k].attached /\ RetryDue(k)
      BY <1>3, <2>3, <3>1, LoadsDue
    <3>3. k \notin loaded
      BY <1>3, <3>2 DEF Inv, ProbesInv
    <3>4. /\ waited[k] \in Nat /\ attempts[k] \in 0..MaxAttach
          /\ status[k].wait = 0 /\ status[k].retries < MaxAttach
      BY <1>3, <3>2, DelaysDouble, ProbeAssumption DEF TypeOK, RetryDue
    <3>5. CASE attempts[k] = 0
      BY <3>3, <3>4, <3>5 DEF Due
    <3>6. CASE attempts[k] > 0
      BY <1>3, <3>2, <3>3, <3>4, <3>6 DEF SpacingInv
    <3> QED BY <3>4, <3>5, <3>6, ProbeAssumption
  <2> QED BY <2>2, <2>3
<1>4. Inv /\ TypeOK /\ SpacingInv /\ [Next]_vars =>
        [/\ \A k \in Kinds : attempts'[k] <= MaxAttach
         /\ step = "apply" /\ step' = "sample" /\ desired' = desired =>
              \A k \in loading' : k \notin loaded /\ waited[k] >= Due(attempts[k])]_vars
  BY <1>3
<1> QED BY <1>2, <1>4, LoopCorrect, LoopTyped, PTL DEF Spec, AttemptsBounded
=============================================================================
