\* Untimed waits and a broadcast.
CONSTANTS
  t1 = t1
  t2 = t2
  t3 = t3
  Threads <- MCThreads
  NONE = NONE
  MutexTypes = {"normal", "errorcheck"}
  Deadlines = {"none"}
  UninitTicks = {"forever"}
  CondDeadlines = {"none"}
  CondOps = {"broadcast"}
  CounterBound = 3
SYMMETRY Symmetry
SPECIFICATION Spec
INVARIANT BroadcastWakesAllWaiters
