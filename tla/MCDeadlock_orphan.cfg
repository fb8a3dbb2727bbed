\* Two threads, one interrupt that may unwind out of CHECK-DEADLOCK.
CONSTANTS
  Threads = {t1, t2}
  Mutexes = {m1, m2}
  NoThread = NoThread
  NoMutex = NoMutex
  Limit = 10
  MaxAttempts = 6
  MaxInterrupts = 1
  UnwindingHandlers = TRUE
SPECIFICATION Spec
PROPERTY CheckTerminates
CHECK_DEADLOCK FALSE
