---------------------------- MODULE RemoteFeedback ----------------------------
(***************************************************************************)
(* RemoteHealthFeedback: the last health result the Manager returned, and  *)
(* how it raises the Worker's own anomaly score while it is fresh.         *)
(*                                                                         *)
(* The sender thread calls Accept, the sampling thread Merge, each under   *)
(* mutex_.  An answer that is not valid, of another host, out of range,    *)
(* too old, or no newer than the one held changes nothing and is not       *)
(* modelled.  Versions, sample sequences of this Worker, are left out.     *)
(***************************************************************************)
EXTENDS Integers

CONSTANTS
  MaxFeedbackAge,   \* max_age_, in units of time
  Triggers,         \* the levels a remote_trigger_score may have
  None

ASSUME FeedbackAssumption == MaxFeedbackAge \in Nat /\ Triggers \subseteq Nat

VARIABLE remote   \* None, or [trigger, age] with age stopping when stale

Stale == MaxFeedbackAge + 1

FeedbackInit == remote = None

Accept(trigger) == remote' = [trigger |-> trigger, age |-> 0]

\* Mutant of Fresh: a result is believed for ever.
Held == remote # None

Fresh == remote # None /\ remote.age <= MaxFeedbackAge

\* An absent or stale result never lowers what the Worker sees itself.  One that
\* arrives after Merge was called with its `now' does not count yet.
JustArrived == remote # None /\ remote.age = 0

Merged(local) ==
  {IF Fresh /\ remote.trigger > local THEN remote.trigger ELSE local}
    \cup (IF JustArrived THEN {local} ELSE {})

\* One unit of time goes by.
FeedbackAges ==
  remote' = IF remote = None \/ remote.age = Stale
              THEN remote ELSE [remote EXCEPT !.age = @ + 1]

FeedbackTypeOK == remote \in [trigger : Triggers, age : 0..Stale] \cup {None}
=============================================================================
