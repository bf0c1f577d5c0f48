\* Rounding with a tick rate that does not divide a second, the semaphore
\* wrapper's waits against the same clock, and the thread attributes with
\* newlib's PTHREAD_CREATE_* values, a 15-bit priority range, stack sizes
\* on both sides of PTHREAD_STACK_MIN and of 2^16, two tasks calling
\* pthread_setschedparam at once, and one POSIX timer with times
\* inside the 8-bit tick range, re-armed every two ticks, up to 4 ticks.
\* A timer_create that finds the allocator exhausted dereferences NULL
\* (posix_timer.c line 123) and the program stops there, so deadlock is
\* not checked.
CONSTANTS
  NS_PER_SEC = 1000
  TMR_HZ = 16
  UINT_BITS = 8
  Secs <- Hz16Secs
  Nsecs <- Hz16Nsecs
  Nows <- Hz16Nows
  JOINABLE = 1
  DETACHED = 0
  PRIO_MAX = 32767
  LOWEST = 30
  STACK_MIN = 1024
  DetachArgs = {0, 1, 2}
  PrioArgs <- MCPrioArgs
  StackArgs = {1023, 1024, 65535, 65536}
  c1 = c1
  c2 = c2
  Callers <- TwoCallers
  tm1 = tm1
  Timers <- OneTimer
  Sigevs = {"null", "none", "thread", "thread_attr"}
  Outcomes = {"ok", "no_allocator"}
  ItValues <- TimerValues
  ItIntervals <- TimerIntervals
  Flags = {"rel", "abs"}
  MaxTicks = 4
SPECIFICATION ValueSpec
INVARIANT NeverUnderWait
INVARIANT TrywaitNeverBlocks
INVARIANT AttrTypeOK
INVARIANT StatusRoundTrip
INVARIANT NoEarlyExpiry
CHECK_DEADLOCK FALSE
