\* Three threads that wait, with deadlines and interrupts, and signal.
CONSTANTS
  Threads = {t1, t2, t3}
  NoThread = NoThread
  Kinds = {"untimed", "deadline"}
  Amounts = {1}
  MaxCount = 2
  Word = 8
SPECIFICATION Spec
INVARIANTS NoStrandedWaiter EveryUnitHasATaker SignalReachesSleepers
PROPERTY ImplementsSemaphore
