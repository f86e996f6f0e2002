CONSTANTS
  W = 3
  Procs = {1, 2}
  MaxDepth = 2
  Leftovers = {0, 1}
  MaxLeft = 1
SPECIFICATION Spec
INVARIANTS AtomicsAgree TurnsWork EntriesAreWaiters
PROPERTIES LockFreed
CHECK_DEADLOCK FALSE
