\* Three threads: one holder, one thread in flight and one asleep.
CONSTANTS
  Threads = {t1, t2, t3}
  NoThread = NoThread
SPECIFICATION Spec
INVARIANTS TypeOK MutualExclusion NoStrandedSleeper
PROPERTY ImplementsLock
