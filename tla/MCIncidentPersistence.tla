------------------------ MODULE MCIncidentPersistence ------------------------
(* Two incidents, a history of one and a queue of two tasks, so that a save *)
(* of the first can fail or be under way when the second is observed; two   *)
(* observations told apart; one crash.                                      *)
EXTENDS IncidentReaders
=============================================================================
