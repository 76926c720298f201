--------------------------- MODULE MCWorkerStream ---------------------------
(* Three runs of three samples with two copies under way: a copy of a run the *)
(* Manager never heard of can overtake one or two newer runs, and the one   *)
(* retired session it remembers can be pushed out.                          *)
EXTENDS WorkerStream

MCSamples == {SampleOf(r, n) : r \in 1..MaxRuns, n \in 1..MaxSeq}

ASSUME StreamIsSampled == StreamSamples
=============================================================================
