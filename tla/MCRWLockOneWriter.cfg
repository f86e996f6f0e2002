CONSTANTS
  Procs = {p1, p2, p3}
  Writers = {p1, p2}
  HALF = 3
SPECIFICATION Spec
INVARIANTS OneWriter
