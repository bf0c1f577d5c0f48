\* pthread_mutex_trylock against pthread_mutex_lock, whose uninitialized
\* sleep_ticks (line 88) may hold WAIT or 0.
CONSTANTS
  t1 = t1
  t2 = t2
  t3 = t3
  Threads <- MCThreads
  NONE = NONE
  MutexTypes = {"normal", "recursive", "errorcheck"}
  Deadlines = {"none", "try"}
  UninitTicks = {"forever", "zero"}
SYMMETRY Symmetry
SPECIFICATION Spec
INVARIANT HolderOwnsLock
