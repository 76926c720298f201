-------------------------- MODULE MCShardPipeline --------------------------
(* Hosts h1 and h2 on two shards.  A shard queue takes two items of 3 bytes *)
(* together, the persistence queue one task; the task of r3 is larger than  *)
(* the whole persistence budget.                                            *)
EXTENDS ShardPipeline, TLC

CONSTANTS r1, r2, r3, h1, h2, A, B

MCHostOf == r1 :> h1 @@ r2 :> h1 @@ r3 :> h2
MCShardOf == h1 :> A @@ h2 :> B
MCItemBytes == r1 :> 1 @@ r2 :> 3 @@ r3 :> 2
MCTaskBytes == r1 :> 1 @@ r2 :> 1 @@ r3 :> 9
=============================================================================
