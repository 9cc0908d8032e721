-------------------------- MODULE MCCircuitBreaker --------------------------
(* Instances of CircuitBreaker for TLC: three concurrent callers, small    *)
(* thresholds, a recovery timeout of two seconds.  Every failure resets    *)
(* the clock, so two ticks are enough to have a failure arrive before,     *)
(* during and after the wait.                                              *)
EXTENDS CircuitBreaker

CONSTANTS c1, c2, c3

MCCallers == {c1, c2, c3}
=============================================================================
