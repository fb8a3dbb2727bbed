\* No timeouts and no interrupts are needed: waiters of different amounts.
CONSTANTS
  Threads = {t1, t2, t3}
  NoThread = NoThread
  Kinds = {"untimed"}
  Amounts = {1, 2}
  MaxCount = 2
  Word = 8
SPECIFICATION Safe
INVARIANT NoStrandedWaiter
