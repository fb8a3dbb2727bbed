\* All amounts are one: a waiter with a timeout swallows the wakeup.
CONSTANTS
  Threads = {t1, t2, t3}
  NoThread = NoThread
  Kinds = {"untimed", "timeout"}
  Amounts = {1}
  MaxCount = 2
  Word = 8
SPECIFICATION Safe
INVARIANT NoStrandedWaiter
