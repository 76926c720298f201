---------------------------- MODULE MCHealthEngine ----------------------------
(* Four samples per window, the oldest just old enough for READY when they   *)
(* are regular.  The Worker's clock moves by the interval, is set back by    *)
(* two, or jumps ahead by more than a window.                                *)
EXTENDS HealthEngine

CONSTANT Cpu

MCSteps == {-2, 1, 5}
=============================================================================
