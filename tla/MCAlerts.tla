------------------------------ MODULE MCAlerts ------------------------------
(* Two episodes, active together or one after the other, in a Map of one    *)
(* entry and a queue of one: entries are pushed out and analyses dropped,   *)
(* also under way.                                                          *)
EXTENDS Alerts

MCHostOf == [e \in Episodes |-> e]
=============================================================================
