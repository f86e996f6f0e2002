CONSTANTS
  W = 3
  Procs = {1, 2}
  MaxDepth = 2
  Leftovers = {0}
  MaxLeft = 0
SPECIFICATION Spec
INVARIANT MutualExclusion
CHECK_DEADLOCK FALSE
