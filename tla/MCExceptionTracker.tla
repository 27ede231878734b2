------------------------- MODULE MCExceptionTracker -------------------------
(* Two threads and three events: an exception while tracing while tracing,  *)
(* or a second thread that waits for the first one's trace.                 *)
EXTENDS ExceptionTracker, TLC

CONSTANTS t1, t2

Symmetry == Permutations({t1, t2})
=============================================================================
