CONSTANTS
  Threads = {t1, t2, t3}
  Mutexes = {m1, m2, m3}
  NoThread = NoThread
  NoMutex = NoMutex
  Limit = 3
  MaxAttempts = 6
  MaxInterrupts = 1
  UnwindingHandlers = TRUE
SPECIFICATION Safe
SYMMETRY Symmetry
INVARIANTS TypeOK ReporterIsWaitedFor OneReporter DeadlockReportedUnlessHidden
CHECK_DEADLOCK FALSE
