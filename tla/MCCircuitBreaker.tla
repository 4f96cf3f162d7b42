--------------------------- MODULE MCCircuitBreaker ---------------------------
(***************************************************************************)
(* Constants for model-checking CircuitBreaker: three goroutines, so that  *)
(* one is late while two others probe, and a threshold of three failures.  *)
(***************************************************************************)
EXTENDS CircuitBreaker

CONSTANTS c1, c2, c3

ThreeCallers == {c1, c2, c3}
=============================================================================
