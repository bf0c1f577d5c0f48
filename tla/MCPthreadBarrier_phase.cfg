\* Three threads, thresholds 1 to 3: threads beyond the threshold are
\* refused, and a completed phase releases every thread inside it.
CONSTANTS
  t1 = t1
  t2 = t2
  t3 = t3
  Threads <- ThreeThreads
  Counts = {1, 2, 3}
SPECIFICATION FairSpec
INVARIANT TypeOK
PROPERTY ImplementsBarrierOnce
INVARIANT OneSerialPerPhase
PROPERTY PhaseReleasesAll
