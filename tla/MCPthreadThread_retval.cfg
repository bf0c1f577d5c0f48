\* One joinable pthread and one joiner: does join wait for the return value?
CONSTANTS
  p1 = p1
  p2 = p2
  j1 = j1
  j2 = j2
  NONE = NONE
  Pthreads <- OnePthread
  Joiners <- OneJoiner
  Detach = {FALSE}
  Outcomes = {"ok"}
SPECIFICATION Spec
INVARIANT JoinSeesReturnValue
