CONSTANTS
  NPages = 3
  Cap = 2
  Ids = {o1, o2, o3}
  NoId = NoId
  Roots = {root}
  Registers = {r1}
  MaxJunk = 0
  Oldest = 1
  NumNewAreas = 2
  Kinds = {"cons", "mixed", "weak"}
  Requests = {1}
SPECIFICATION Spec
SYMMETRY Symmetry
INVARIANTS NeverLoses HeapVerifies
PROPERTIES ImplementsHeap
CHECK_DEADLOCK FALSE
