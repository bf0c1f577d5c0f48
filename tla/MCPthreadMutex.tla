--------------------------- MODULE MCPthreadMutex ---------------------------
(* Model-checking instance of PthreadMutex: threads are model values and  *)
(* symmetric, since no mutex operation tells one task from another except *)
(* by identity.                                                           *)
EXTENDS PthreadMutex, TLC

CONSTANTS t1, t2, t3

MCThreads == {t1, t2, t3}

Symmetry == Permutations(MCThreads)
=============================================================================
