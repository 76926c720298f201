---------------------------- MODULE RollingWindow ----------------------------
(***************************************************************************)
(* RollingWindow of the Manager's health engine: samples of one metric in  *)
(* event time, bounded in number and in age.                               *)
(*                                                                         *)
(* A window is the sequence of its samples' ages, oldest first, counted    *)
(* from the timestamp that is being evaluated; a negative age is a sample  *)
(* that is later than that.  Values are left out: nothing the window does  *)
(* depends on them, once they are finite.                                  *)
(***************************************************************************)
EXTENDS Integers, Sequences, FiniteSetsExt

CONSTANTS MaxSamples, MaxAge

\* What is too old is equally old: it goes at the next Prune.
Later(age, d) == IF age + d > MaxAge THEN MaxAge + 1 ELSE age + d

\* The window seen d later.
Aged(w, d) == [i \in DOMAIN w |-> Later(w[i], d)]

OutOfOrder(w) == w # <<>> /\ w[Len(w)] < 0

\* The window from the first of the given positions on.
From(w, positions) ==
  IF positions = {} THEN <<>> ELSE SubSeq(w, Min(positions), Len(w))

\* Mutant of Prune: a sample that has just reached the age is dropped too.
PruneEarly(w) ==
  IF OutOfOrder(w) THEN w ELSE From(w, {i \in DOMAIN w : w[i] < MaxAge})

\* pop_front as long as the front is too old; nothing when time went back.
Prune(w) ==
  IF OutOfOrder(w) THEN w ELSE From(w, {i \in DOMAIN w : w[i] <= MaxAge})

\* Mutant of AtMost: one sample more than configured.
AtMostOneMore(w, n) == IF Len(w) > n + 1 THEN Tail(w) ELSE w

\* pop_front of a window that one sample was added to.
AtMost(w, n) == IF Len(w) > n THEN Tail(w) ELSE w

\* A sample of the time that is being evaluated; refused when out of order.
Push(w) ==
  IF OutOfOrder(w) THEN w ELSE AtMost(Append(Prune(w), 0), MaxSamples)

\* Age of the oldest sample.
Span(w) == IF w = <<>> \/ w[1] < 0 THEN 0 ELSE w[1]
=============================================================================
