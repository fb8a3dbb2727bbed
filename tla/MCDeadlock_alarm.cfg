\* Two threads, one of which locks again after it handled a deadlock.
CONSTANTS
  Threads = {t1, t2}
  Mutexes = {m1, m2}
  NoThread = NoThread
  NoMutex = NoMutex
  Limit = 10
  MaxAttempts = 5
  MaxInterrupts = 0
  UnwindingHandlers = FALSE
SPECIFICATION Safe
INVARIANT NoFalseAlarm
CHECK_DEADLOCK FALSE
