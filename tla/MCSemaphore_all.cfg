\* Every kind of wait, expired deadlines too, and amounts larger than one.
CONSTANTS
  Threads = {t1, t2, t3}
  NoThread = NoThread
  Kinds = {"timeout", "expired"}
  Amounts = {1, 2}
  MaxCount = 2
  Word = 4
SPECIFICATION Safe
INVARIANTS TypeOK MutexAccounted
PROPERTY ImplementsSafely
SYMMETRY Symmetry
