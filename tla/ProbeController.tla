--------------------------- MODULE ProbeController ---------------------------
(***************************************************************************)
(* ProbeController::Apply and the ProfileSession it owns, in a build with  *)
(* ENABLE_EBPF: which probes are asked for, loaded into the kernel and     *)
(* retried, from the state of the machine and the profile type.            *)
(*                                                                         *)
(* A retry instant next_retry_at is kept as the time left to wait, a       *)
(* session's start as its age up to MaxDuration.  An available probe is an *)
(* attached one.  Loads of kinds outside Flaky succeed.                    *)
(***************************************************************************)
EXTENDS Integers, FiniteSets

CONSTANTS
  Flaky,         \* the kinds whose LoadProbe may fail
  MaxAttach,     \* kMaxAttachRetries
  RetryDelay,    \* kAttachRetryBaseDelay
  MaxDuration,   \* profile_max_duration_
  Nothing        \* no session

ProfileTypes == {"OnCpuProfile", "OffCpuProfile"}
DiagnosticKinds == {"Tcp", "BlockIo", "Scheduler"}
Kinds == DiagnosticKinds \cup ProfileTypes

ASSUME ProbeAssumption ==
  /\ Flaky \subseteq Kinds
  /\ MaxAttach \in Nat \ {0}
  /\ RetryDelay \in Nat
  /\ MaxDuration \in Nat \ {0}
  /\ Nothing \notin [type : ProfileTypes, age : 0..MaxDuration]

VARIABLES
  session,          \* profile_session_: Nothing or [type, age]
  profileExpired,
  desired,          \* desired_probes_
  initialized,
  status,           \* statuses_: [requested, attached, retries, wait] of a kind
  loaded,           \* runtime_->probes that hold kernel objects
  loading           \* history: the kinds the last Apply called LoadProbe for

probes == <<session, profileExpired, desired, initialized, status, loaded, loading>>

Idle == [requested |-> FALSE, attached |-> FALSE, retries |-> 0, wait |-> 0]

ControllerInit == /\ session = Nothing
                  /\ profileExpired = FALSE
                  /\ desired = {}
                  /\ initialized = FALSE
                  /\ status = [k \in Kinds |-> Idle]
                  /\ loaded = {}
                  /\ loading = {}

\* Mutant of RetryDue: the retries are not counted.
RetryDueAlways(k) == status[k].wait = 0

\* Mutant of RetryDue: every sample tries again until the retries are used up.
RetryDueAtOnce(k) == status[k].retries < MaxAttach

RetryDue(k) == status[k].retries < MaxAttach /\ status[k].wait = 0

\* The delay before a retry: the base delay shifted left once per failed retry.
Delay[n \in 0..MaxAttach] == IF n = 0 THEN RetryDelay ELSE 2 * Delay[n - 1]

\* ScheduleAttachRetry after a failed load: 1, 2, 4... delays, then no more.
\* The count stops at MaxAttach, above which the code asks nothing of it.
Failed(s) ==
  LET n == IF s.retries < MaxAttach THEN s.retries + 1 ELSE MaxAttach
  IN [requested |-> TRUE, attached |-> FALSE, retries |-> n,
      wait |-> IF n = MaxAttach THEN 0 ELSE Delay[n - 1]]

Attached == [requested |-> TRUE, attached |-> TRUE, retries |-> 0, wait |-> 0]

DesiredFor(state, type, active) ==
  CASE state = "NORMAL" -> {}
    [] state = "SUSPECT" -> {"Tcp", "BlockIo"}
    [] state \in {"DIAGNOSTIC", "COOLDOWN"} -> DiagnosticKinds
    [] state = "PROFILING" -> DiagnosticKinds \cup (IF active THEN {type} ELSE {})

Expired == session # Nothing /\ session.age >= MaxDuration

\* The session after the first half of Apply.
SessionFor(state, type) ==
  IF state # "PROFILING" THEN Nothing
  ELSE IF session # Nothing /\ session.type = type /\ ~Expired THEN session
  ELSE IF profileExpired \/ Expired THEN Nothing
  ELSE [type |-> type, age |-> 0]

\* Mutant of Apply's unwanted probes: what is not wanted is only not asked for.
KeepLoaded(unwanted) == {}

\* DestroyLoadedProbe for each kind that is not wanted.
Destroyed(unwanted) == unwanted

\* A session that closes (DetachProfile) always had its kind in desired and has
\* it no longer in wanted, so that the loop over the kinds does what it does.
\* The second half of Apply: detach what is not wanted, load what is to be
\* loaded, of which the kinds in bad fail.
Attach(wanted, toLoad, bad) ==
  /\ loaded' = (loaded \ (Destroyed(Kinds \ wanted) \cup toLoad)) \cup (toLoad \ bad)
  /\ status' = [k \in Kinds |->
                  IF k \notin wanted THEN Idle
                  ELSE IF k \in toLoad \cap bad THEN Failed(status[k])
                  ELSE IF k \in toLoad THEN Attached
                  ELSE status[k]]
  /\ loading' = toLoad
  /\ desired' = wanted
  /\ initialized' = TRUE

Apply(state, type) ==
  LET after == SessionFor(state, type)
      wanted == DesiredFor(state, type, after # Nothing)
      changed == ~initialized \/ wanted # desired
      due == {k \in desired : ~status[k].attached /\ RetryDue(k)}
      toLoad == IF changed THEN wanted ELSE due
  IN /\ session' = after
     /\ profileExpired' = (state = "PROFILING" /\ (profileExpired \/ Expired))
     /\ IF changed \/ due # {}
          THEN \E bad \in SUBSET (toLoad \cap Flaky) : Attach(wanted, toLoad, bad)
          ELSE /\ loading' = {}
               /\ UNCHANGED <<desired, initialized, status, loaded>>

\* One unit of time goes by.
ControllerAges ==
  /\ session' = IF session = Nothing \/ Expired
                  THEN session ELSE [session EXCEPT !.age = @ + 1]
  /\ status' = [k \in Kinds |-> [status[k] EXCEPT !.wait = IF @ > 0 THEN @ - 1 ELSE 0]]
  /\ UNCHANGED <<profileExpired, desired, initialized, loaded, loading>>

ControllerTypeOK ==
  /\ session \in [type : ProfileTypes, age : 0..MaxDuration] \cup {Nothing}
  /\ profileExpired \in BOOLEAN
  /\ desired \subseteq Kinds
  /\ initialized \in BOOLEAN
  /\ status \in [Kinds -> [requested : BOOLEAN, attached : BOOLEAN,
                           retries : 0..MaxAttach, wait : 0..Delay[MaxAttach]]]
  /\ loaded \subseteq Kinds
  /\ loading \subseteq Kinds
=============================================================================
