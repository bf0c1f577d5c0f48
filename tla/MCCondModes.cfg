\* Three symmetric threads: two can wait while a third signals or
\* broadcasts.  CounterBound 3 lets every thread be counted at once.
CONSTANTS
  Threads = {t1, t2, t3}
  NONE = NONE
  CounterBound = 3
SYMMETRY Symmetry
SPECIFICATION ModesSpec
INVARIANT CondTypeOK
INVARIANT CondTokenBalance
