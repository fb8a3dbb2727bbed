\* A main thread and two that come and go; each may collect.
CONSTANTS
  Threads = {t1, t2, t3}
  NoThread = NoThread
  Main = t1
SPECIFICATION LiveSpec
INVARIANTS TypeOK WorldIsStopped NeverLoses TokensMatch
PROPERTIES ImplementsWorld CollectorCollects StoppedResumes
