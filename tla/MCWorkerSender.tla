--------------------------- MODULE MCWorkerSender ---------------------------
(* A queue of three items and four bytes; base metrics and evidence of one  *)
(* or two bytes and of more than the whole budget; one retry.               *)
EXTENDS WorkerSender
=============================================================================
