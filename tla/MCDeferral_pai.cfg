\* The end of a pseudo-atomic section, and a stop signal before the trap.
CONSTANT
  MaxDepth = 2
SPECIFICATION Spec
INVARIANT TrapClearsInterrupted
