--------------------------- MODULE MCPthreadThread ---------------------------
(* Model values for PthreadThread. *)
EXTENDS PthreadThread, TLC

CONSTANTS p1, p2, j1, j2

OnePthread == {p1}
TwoPthreads == {p1, p2}
OneJoiner == {j1}
TwoJoiners == {j1, j2}
=============================================================================
