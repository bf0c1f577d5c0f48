\* One timer, relative and absolute it_value of every class, and ticks up
\* to 3: does any notification come before the time asked for it?
CONSTANTS
  tm1 = tm1
  tm2 = tm2
  NS_PER_SEC = 1000
  TMR_HZ = 16
  UINT_BITS = 8
  Timers <- MCTimers
  Sigevs = {"null", "none", "thread", "thread_attr"}
  Outcomes = {"ok", "no_allocator"}
  ItValues <- MCItValues
  ItIntervals <- MCItIntervals
  Flags = {"rel", "abs"}
  MaxTicks = 3
SPECIFICATION Spec
INVARIANT NoEarlyExpiry
