--------------------------- MODULE MCSessionGate ---------------------------
(* A small instance of SessionGate for TLC: three modern sessions and one   *)
(* legacy Worker, sequences restarting in each, an invalid sample and one   *)
(* without identity.                                                        *)
EXTENDS SessionGate, TLC

CONSTANTS s1, s2, s3

Sample(s, n, t, v) == [session |-> s, seq |-> n, ts |-> t, valid |-> v]

MCSamples ==
  {Sample(s, n, 1, TRUE) : s \in {s1, s2, s3}, n \in 1..2}
    \cup {Sample(NoSession, 0, 1, TRUE), Sample(NoSession, 3, 2, FALSE)}
    \cup {Sample(NoSession, 1, 1, TRUE), Sample(NoSession, 1, 2, TRUE),
          Sample(NoSession, 2, 1, TRUE)}

Symmetry == Permutations({s1, s2, s3})
=============================================================================
