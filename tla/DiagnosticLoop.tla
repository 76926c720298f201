---------------------------- MODULE DiagnosticLoop ----------------------------
(***************************************************************************)
(* The Worker's adaptive diagnosis: each turn of MonitorPusher::PushOnce   *)
(* merges the score of the sample with the Manager's feedback, moves the   *)
(* state machine (Sample) and then lets the probe controller follow        *)
(* (ApplyStep).  The sender thread may bring feedback, and time may pass,  *)
(* between any two of these.                                               *)
(*                                                                         *)
(* A turn whose CollectAll fails ends before Sample and changes nothing    *)
(* here: it is a stutter, while time goes by and answers come in.  The     *)
(* fairness of PushOnce is that the collectors do not fail for ever.       *)
(***************************************************************************)
EXTENDS ObservabilityState, RemoteFeedback, ProbeController, FiniteSetsExt

\* remote_trigger_score is a score like any other.
ASSUME LoopAssumption == Triggers \subseteq Scores

VARIABLES
  step,        \* "sample" or "apply": what PushOnce does next
  calm,        \* from now on the host is fine, here and for the Manager
  streak,      \* history: how many of the last samples in a row were...
  observed,    \* history: severe samples in COOLDOWN since it was over
  profiled,    \* history: time since a profile probe was first loaded
  attempts,    \* history: loads tried since the desired set last changed
  waited       \* history: time since the last of them, up to the delay after it

tries == <<attempts, waited>>
vars == <<machine, remote, probes, step, calm, streak, observed, profiled, tries>>

Heavy == loaded \cap ProfileTypes

\* What the samples in a row are counted for, up to Longest.
Grades == [recovered |-> 0..Recovered,
           suspect |-> SuspectEnter..ProfilingEnter,
           severe |-> DiagnosticEnter..ProfilingEnter]
Longest == Max({AnomalyEnterCount, DiagnosticEnterCount, AnomalyExitCount})

Init == /\ MachineInit
        /\ FeedbackInit
        /\ ControllerInit
        /\ step = "sample"
        /\ calm = FALSE
        /\ streak = [g \in DOMAIN Grades |-> 0]
        /\ observed = 0
        /\ profiled = 0
        /\ attempts = [k \in Kinds |-> 0]
        /\ waited = [k \in Kinds |-> 0]

\* Evaluate, Merge and Update.
Sample(local) == \E score \in Merged(local) :
  /\ step = "sample"
  /\ calm => local <= Recovered
  /\ Update(score)
  /\ step' = "apply"
  /\ streak' = [g \in DOMAIN Grades |->
                  IF score \in Grades[g] THEN Smaller(streak[g] + 1, Longest) ELSE 0]
  /\ observed' = IF state = "COOLDOWN" /\ Cooled /\ score \in Grades.severe
                   THEN Smaller(observed + 1, DiagnosticEnterCount)
                   ELSE IF state = "COOLDOWN" THEN observed ELSE 0
  /\ UNCHANGED <<remote, probes, calm, profiled, tries>>

\* Apply, for the profile type that the signals of the sample select.
ApplyStep(type) ==
  /\ step = "apply"
  /\ Apply(state, type)
  /\ step' = "sample"
  /\ profiled' = IF Heavy # {} /\ loaded' \cap ProfileTypes # {} THEN profiled ELSE 0
  /\ attempts' = [k \in Kinds |->
                    (IF desired' = desired THEN attempts[k] ELSE 0)
                    + (IF k \in loading' THEN 1 ELSE 0)]
  /\ waited' = [k \in Kinds |->
                  IF desired' = desired /\ k \notin loading' THEN waited[k] ELSE 0]
  /\ UNCHANGED <<machine, remote, calm, streak, observed>>

\* A successful answer reaches SendWithRetry, in the sender thread.
Feedback(trigger) ==
  /\ calm => trigger <= Recovered
  /\ Accept(trigger)
  /\ UNCHANGED <<machine, probes, step, calm, streak, observed, profiled, tries>>

\* The delay that the code owes after the n-th try (ScheduleAttachRetry).
Due(n) == IF n = 0 THEN 0 ELSE Delay[n - 1]

\* One unit of time goes by.
Elapse ==
  /\ MachineAges
  /\ FeedbackAges
  /\ ControllerAges
  /\ profiled' = IF Heavy # {} THEN Smaller(profiled + 1, ProfilingDuration) ELSE 0
  /\ waited' = [k \in Kinds |-> Smaller(waited[k] + 1, Due(attempts[k]))]
  /\ UNCHANGED <<step, calm, streak, observed, attempts>>

CalmDown == /\ ~calm
            /\ calm' = TRUE
            /\ UNCHANGED <<machine, remote, probes, step, streak, observed, profiled, tries>>

PushOnce == \/ \E local \in Scores : Sample(local)
            \/ \E type \in ProfileTypes : ApplyStep(type)

Next == \/ PushOnce
        \/ \E trigger \in Triggers : Feedback(trigger)
        \/ Elapse
        \/ CalmDown

\* PushLoop samples as long as it runs, and time goes by.
Spec == Init /\ [][Next]_vars /\ WF_vars(PushOnce) /\ WF_vars(Elapse)

-----------------------------------------------------------------------------
\* Counters stay below what they are compared with, ages and waits in range.
TypeOK ==
  /\ MachineTypeOK
  /\ FeedbackTypeOK
  /\ ControllerTypeOK
  /\ step \in {"sample", "apply"}
  /\ calm \in BOOLEAN
  /\ streak \in [DOMAIN Grades -> 0..Longest]
  /\ observed \in 0..DiagnosticEnterCount
  /\ profiled \in 0..ProfilingDuration
  /\ attempts \in [Kinds -> 0..MaxAttach]
  /\ waited \in [Kinds -> 0..Delay[MaxAttach]]

\* Between two turns the kernel holds exactly the probes that count as attached,
\* all of them wanted in the state of the machine, and a profile probe only for
\* a session of its type that runs in PROFILING (ProbeController::Apply).
ProbesFollowState ==
  step = "sample" /\ initialized =>
    /\ loaded = {k \in Kinds : status[k].attached}
    /\ desired = {k \in Kinds : status[k].requested}
    /\ loaded \subseteq desired
    /\ desired = DesiredFor(state, IF session = Nothing THEN "" ELSE session.type,
                            session # Nothing)
    /\ state # "PROFILING" => session = Nothing

\* No sample leaves the machine in PROFILING once profile probes have been in
\* the kernel for the profiling duration, however often the profile type changes
\* and a new ProfileSession starts (ObservabilityStateMachine::Update).
ProfilingIsShort ==
  [][step = "sample" /\ step' = "apply" /\ state = "PROFILING"
       /\ profiled >= ProfilingDuration => state' = "COOLDOWN"]_vars

\* A single peak or dip moves nothing: SUSPECT is entered on AnomalyEnterCount
\* samples in a row, and the machine goes back on AnomalyExitCount recovered ones
\* in a row, whatever states the counters have been through.
MovesOnStreaks ==
  [][/\ state = "NORMAL" /\ state' # state =>
          streak'.suspect >= AnomalyEnterCount
     /\ \/ state \in {"SUSPECT", "COOLDOWN"} /\ state' = "NORMAL"
        \/ state = "DIAGNOSTIC" /\ state' = "COOLDOWN"
        => streak'.recovered >= AnomalyExitCount]_vars

\* A new diagnostic episode after COOLDOWN rests only on anomalies seen after the
\* cooldown was over (the comment of the COOLDOWN case of Update).
ObservedAgain ==
  [][state = "COOLDOWN" /\ state' = "DIAGNOSTIC" =>
       observed' >= DiagnosticEnterCount]_vars

\* A kind that cannot be loaded is tried MaxAttach times while the set of wanted
\* probes stays the same, each time only after a delay that doubles from try to
\* try, and one that is loaded is not loaded again, whatever the retries of the
\* others are doing (AttachRetryDue, ScheduleAttachRetry).
AttemptsBounded ==
  [][/\ \A k \in Kinds : attempts'[k] <= MaxAttach
     /\ step = "apply" /\ step' = "sample" /\ desired' = desired =>
          \A k \in loading' : k \notin loaded /\ waited[k] >= Due(attempts[k])]_vars

\* When the host stays fine, the Worker ends up in NORMAL with nothing in the
\* kernel and stays there, stale feedback or retries notwithstanding.
QuietsDown == [](calm => <>[](state = "NORMAL" /\ loaded = {}))

\* However long collection fails in between, however often the profile type
\* changes and whatever the host and the Manager go on reporting, the profiler
\* comes out of the kernel again and again: it is never on for good (the
\* deadlines are looked at by Update and Apply only, at the end of PushOnce).
ProfilesEnd == []<>(Heavy = {})

-----------------------------------------------------------------------------
\* observability_state.h: diagnostic_samples_ counts consecutive samples.
DiagnosticIsConsecutive ==
  [][state = "SUSPECT" /\ state' = "DIAGNOSTIC" =>
       streak'.severe >= DiagnosticEnterCount]_vars
=============================================================================
