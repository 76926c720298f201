-------------------------- MODULE ObservabilityState --------------------------
(***************************************************************************)
(* ObservabilityStateMachine: how the anomaly scores of the samples drive  *)
(* NORMAL, SUSPECT, DIAGNOSTIC, PROFILING and COOLDOWN.                    *)
(*                                                                         *)
(* A score is a level, told apart by the configured thresholds.  Instead   *)
(* of the instants profiling_started_ and cooldown_started_ the module     *)
(* keeps the time gone by since, which stops at the longest duration the   *)
(* code compares it with; recoverySamples stops at AnomalyExitCount, which *)
(* is all that is asked of it (in a long COOLDOWN the code counts on).     *)
(***************************************************************************)
EXTENDS Integers, Sequences

CONSTANTS
  AnomalyEnterCount, DiagnosticEnterCount, AnomalyExitCount,
  ProfilingDuration,   \* min of profiling_duration_sec and its maximum
  CooldownDuration     \* cooldown_sec

\* ObservabilityConfig::IsValid, for what this module uses.
ASSUME ConfigAssumption ==
  /\ AnomalyEnterCount \in Nat \ {0}
  /\ DiagnosticEnterCount \in Nat \ {0}
  /\ AnomalyExitCount \in Nat \ {0}
  /\ ProfilingDuration \in Nat \ {0}
  /\ CooldownDuration \in Nat \ {0}

\* recovery_score < suspect_ < diagnostic_ <= profiling_enter_score.
Recovered == 0
Uncertain == 1
SuspectEnter == 2
DiagnosticEnter == 3
ProfilingEnter == 4
Scores == Recovered..ProfilingEnter

States == {"NORMAL", "SUSPECT", "DIAGNOSTIC", "PROFILING", "COOLDOWN"}

VARIABLES
  state,
  anomalySamples, diagnosticSamples, recoverySamples,
  profilingAge, cooldownAge

counters == <<anomalySamples, diagnosticSamples, recoverySamples>>
machine == <<state, counters, profilingAge, cooldownAge>>

Smaller(a, b) == IF a < b THEN a ELSE b

MachineInit == /\ state = "NORMAL"
               /\ anomalySamples = 0
               /\ diagnosticSamples = 0
               /\ recoverySamples = 0
               /\ profilingAge = ProfilingDuration
               /\ cooldownAge = CooldownDuration

\* Every counter starts again in a new state.
Enter(new) ==
  /\ state' = new
  /\ anomalySamples' = 0
  /\ diagnosticSamples' = 0
  /\ recoverySamples' = 0
  /\ profilingAge' = IF new = "PROFILING" THEN 0 ELSE profilingAge
  /\ cooldownAge' = IF new = "COOLDOWN" THEN 0 ELSE cooldownAge

Stay == UNCHANGED <<state, profilingAge, cooldownAge>>

\* Mutant of Recoveries: a sample that is no recovery does not start it again.
RecoveriesInAll(score) ==
  IF score <= Recovered
    THEN Smaller(recoverySamples + 1, AnomalyExitCount) ELSE recoverySamples

\* RecoveryConfirmed counts the samples at or below recovery_score in a row.
Recoveries(score) ==
  IF score <= Recovered THEN Smaller(recoverySamples + 1, AnomalyExitCount) ELSE 0

Diagnostics(score) ==
  IF score >= DiagnosticEnter THEN diagnosticSamples + 1 ELSE 0

InNormal(score) ==
  /\ state = "NORMAL"
  /\ LET n == IF score >= SuspectEnter THEN anomalySamples + 1 ELSE 0 IN
     IF n >= AnomalyEnterCount
       THEN Enter("SUSPECT")
       ELSE /\ anomalySamples' = n
            /\ Stay /\ UNCHANGED <<diagnosticSamples, recoverySamples>>

\* A recovered sample counts and nothing else: SUSPECT, DIAGNOSTIC, COOLDOWN.
Recovering(score, next, allowed) ==
  /\ score <= Recovered
  /\ IF allowed /\ Recoveries(score) >= AnomalyExitCount
       THEN Enter(next)
       ELSE /\ recoverySamples' = Recoveries(score)
            /\ Stay /\ UNCHANGED <<anomalySamples, diagnosticSamples>>

\* Mutant of Diagnosing: one sample more than configured.
DiagnosingLate(score) ==
  /\ score > Recovered
  /\ IF Diagnostics(score) > DiagnosticEnterCount
       THEN Enter("DIAGNOSTIC")
       ELSE /\ diagnosticSamples' = Diagnostics(score)
            /\ recoverySamples' = Recoveries(score)
            /\ Stay /\ UNCHANGED anomalySamples

\* A sample that is not recovered brings DIAGNOSTIC nearer.
Diagnosing(score) ==
  /\ score > Recovered
  /\ IF Diagnostics(score) >= DiagnosticEnterCount
       THEN Enter("DIAGNOSTIC")
       ELSE /\ diagnosticSamples' = Diagnostics(score)
            /\ recoverySamples' = Recoveries(score)
            /\ Stay /\ UNCHANGED anomalySamples

InSuspect(score) ==
  /\ state = "SUSPECT"
  /\ Recovering(score, "NORMAL", TRUE) \/ Diagnosing(score)

InDiagnostic(score) ==
  /\ state = "DIAGNOSTIC"
  /\ \/ Recovering(score, "COOLDOWN", TRUE)
     \/ score >= ProfilingEnter /\ Enter("PROFILING")
     \/ /\ score > Recovered /\ score < ProfilingEnter
        /\ recoverySamples' = Recoveries(score)
        /\ Stay /\ UNCHANGED <<anomalySamples, diagnosticSamples>>

\* Mutant of InProfiling: only the recovery of the host ends it.
InProfilingUntilRecovery(score) ==
  /\ state = "PROFILING"
  /\ IF score <= Recovered
       THEN Enter("COOLDOWN")
       ELSE /\ recoverySamples' = Recoveries(score)
            /\ Stay /\ UNCHANGED <<anomalySamples, diagnosticSamples>>

\* Here a single recovered sample is enough.
InProfiling(score) ==
  /\ state = "PROFILING"
  /\ IF profilingAge >= ProfilingDuration
       THEN Enter("COOLDOWN")
       ELSE IF score <= Recovered
         THEN Enter("COOLDOWN")
         ELSE /\ recoverySamples' = Recoveries(score)
              /\ Stay /\ UNCHANGED <<anomalySamples, diagnosticSamples>>

Cooled == cooldownAge >= CooldownDuration

\* Mutant of InCooldown: what is seen while cooling down counts.
InCooldownCounting(score) ==
  /\ state = "COOLDOWN"
  /\ Recovering(score, "NORMAL", Cooled) \/ Diagnosing(score)

InCooldown(score) ==
  /\ state = "COOLDOWN"
  /\ \/ Recovering(score, "NORMAL", Cooled)
     \/ Cooled /\ Diagnosing(score)
     \/ /\ score > Recovered /\ ~Cooled
        /\ diagnosticSamples' = 0
        /\ recoverySamples' = Recoveries(score)
        /\ Stay /\ UNCHANGED anomalySamples

Update(score) == \/ InNormal(score)
                 \/ InSuspect(score)
                 \/ InDiagnostic(score)
                 \/ InProfiling(score)
                 \/ InCooldown(score)

\* One unit of time goes by.
MachineAges ==
  /\ profilingAge' = Smaller(profilingAge + 1, ProfilingDuration)
  /\ cooldownAge' = Smaller(cooldownAge + 1, CooldownDuration)
  /\ UNCHANGED <<state, counters>>

\* A counter is back at zero before it could reach what it is compared with.
MachineTypeOK ==
  /\ state \in States
  /\ anomalySamples \in 0..(AnomalyEnterCount - 1)
  /\ diagnosticSamples \in 0..(DiagnosticEnterCount - 1)
  /\ recoverySamples \in 0..AnomalyExitCount
  /\ profilingAge \in 0..ProfilingDuration
  /\ cooldownAge \in 0..CooldownDuration
=============================================================================
