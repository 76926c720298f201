------------------------------ MODULE QueueItems ------------------------------
(***************************************************************************)
(* Two operators on sequences that the queues and the pages of incidents   *)
(* are described with, written as recursive functions of a position so     *)
(* that they can be reasoned about for sequences of any length.            *)
(***************************************************************************)
EXTENDS Integers, Sequences

\* What a byte counter shows that had every one of the sizes added to it.
Total(sizes) ==
  LET sum[i \in 0..Len(sizes)] ==
        IF i = 0 THEN 0 ELSE sum[i - 1] + sizes[i]
  IN sum[Len(sizes)]

\* The elements of s that are in keep, in the order they have in s.
Among(s, keep) ==
  LET kept[i \in 0..Len(s)] ==
        IF i = 0 THEN <<>>
        ELSE IF s[i] \in keep THEN Append(kept[i - 1], s[i])
        ELSE kept[i - 1]
  IN kept[Len(s)]
=============================================================================
