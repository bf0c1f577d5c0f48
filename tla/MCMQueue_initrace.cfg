\* Two tasks make their first registry calls concurrently (open, close,
\* unlink, as at start-up); every allocation succeeds.
CONSTANTS
  a1 = a1
  a2 = a2
  n1 = n1
  nbad = nbad
  Tasks <- MCTasks
  Names <- MCNames
  BadNames <- MCBadNames
  OFlags <- MCOFlags
  NONE = NONE
  BADQ = BADQ
  Ops = {"open", "close", "unlink"}
  Attrs = {"none", "negative"}
  Deadlines = {"none"}
  Bufs = {"fine"}
  Outcomes = {"ok"}
  MaxQueues = 2
  MaxOpen = 2
  QueueDepth = 1
SPECIFICATION Spec
INVARIANT RegistryExclusion
