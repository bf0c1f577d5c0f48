---------------------------- MODULE MCPthreadAttr ----------------------------
(* Model values for PthreadAttr: two tasks calling pthread_setschedparam *)
(* on one thread.                                                        *)
EXTENDS PthreadAttr

CONSTANTS c1, c2

TwoCallers == {c1, c2}
=============================================================================
