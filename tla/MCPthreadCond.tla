---------------------------- MODULE MCPthreadCond ----------------------------
(* Model-checking instance of PthreadCond: three symmetric threads, so   *)
(* that two can wait while a third signals or broadcasts.                *)
EXTENDS PthreadCond, TLC

CONSTANTS t1, t2, t3

MCThreads == {t1, t2, t3}

Symmetry == Permutations(MCThreads)
=============================================================================
