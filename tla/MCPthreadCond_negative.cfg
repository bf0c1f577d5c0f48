\* A timed wait racing a signal.
CONSTANTS
  t1 = t1
  t2 = t2
  t3 = t3
  Threads <- MCThreads
  NONE = NONE
  MutexTypes = {"normal", "errorcheck"}
  Deadlines = {"none"}
  UninitTicks = {"forever"}
  CondDeadlines = {"future"}
  CondOps = {"signal"}
  CounterBound = 3
SYMMETRY Symmetry
SPECIFICATION Spec
INVARIANT WaitingNonNegative
