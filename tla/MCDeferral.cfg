\* Every order of events in three nested regions, handlers and C frames.
CONSTANT
  MaxDepth = 3
SPECIFICATION LiveSpec
INVARIANTS TypeOK NoOtherLoss NoCollectionForgotten NoSignalForgotten MaskIsRight
PROPERTY StopsForGC
