\* One joinable pthread, two joiners: is it freed twice?
CONSTANTS
  p1 = p1
  p2 = p2
  j1 = j1
  j2 = j2
  NONE = NONE
  Pthreads <- OnePthread
  Joiners <- TwoJoiners
  Detach = {FALSE}
  Outcomes = {"ok"}
SPECIFICATION Spec
INVARIANT NoDoubleFree
