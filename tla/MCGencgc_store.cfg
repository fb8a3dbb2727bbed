CONSTANTS
  NPages = 3
  Cap = 2
  Ids = {o1, o2}
  NoId = NoId
  Roots = {root}
  Registers = {r1, r2}
  MaxJunk = 1
  Oldest = 1
  NumNewAreas = 1
  Kinds = {"large", "mixed"}
  Requests = {0}
SPECIFICATION Spec
SYMMETRY Symmetry
INVARIANTS TypeOK NeverLoses HeapVerifies CardsCover CountsRight StateOK
PROPERTIES ImplementsHeap
CHECK_DEADLOCK FALSE
