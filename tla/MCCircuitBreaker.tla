-------------------------- MODULE MCCircuitBreaker --------------------------
(* The circuit breaker for TLC.  The runs differ in their constants: how     *)
(* many probes one half-open window admits, and how the timeout compares     *)
(* with the rolling window.  Threshold 3 at a rate of 66% makes two probe    *)
(* slots, threshold 2 at 50% makes one.                                      *)
EXTENDS CircuitBreaker
=============================================================================
