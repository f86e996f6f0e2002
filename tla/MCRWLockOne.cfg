CONSTANTS
  Procs = {p1, p2, p3, p4}
  Writers = {p1}
  HALF = 3
SPECIFICATION Spec
INVARIANTS WordCountsHolders FlagHasWriter
PROPERTIES ImplementsRWLock WriterEnters
