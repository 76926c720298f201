--------------------------- MODULE MCDiagnosticLoop ---------------------------
(* Two samples to each move, two units of profiling and of cooldown, and two *)
(* kinds of probe, a light and a heavy one, that may fail to load.           *)
EXTENDS DiagnosticLoop
=============================================================================
