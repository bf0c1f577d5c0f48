\* Two pthread slots, two joiners, both detach states and every
\* allocation outcome.
CONSTANTS
  p1 = p1
  p2 = p2
  j1 = j1
  j2 = j2
  NONE = NONE
  Pthreads <- TwoPthreads
  Joiners <- TwoJoiners
  Detach = {TRUE, FALSE}
  Outcomes = {"ok", "stack_fail", "task_fail"}
SPECIFICATION Spec
INVARIANTS TypeOK
