\* All amounts are one and nothing times out: a deadline that was over before its
\* wait was counted takes another thread out of the wait count.
CONSTANTS
  Threads = {t1, t2, t3}
  NoThread = NoThread
  Kinds = {"untimed", "expired"}
  Amounts = {1}
  MaxCount = 2
  Word = 8
SPECIFICATION Safe
INVARIANT NoStrandedWaiter
