\* WITHOUT-GCING's exit, and a signal in it.
CONSTANT
  MaxDepth = 2
SPECIFICATION Spec
INVARIANT PendingIsExplained
