--------------------------- MODULE MCPthreadBarrier ---------------------------
(* Model-checking instance of PthreadBarrier with three threads.  The run *)
(* checks liveness, so no symmetry set is declared.                      *)
EXTENDS PthreadBarrier

CONSTANTS t1, t2, t3

ThreeThreads == {t1, t2, t3}
=============================================================================
