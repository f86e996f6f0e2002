CONSTANTS
  WordBits = 6
  ShortBits = 5
  ByteBits = 4
  Tenths = 3
  COLS = 4
  ROWS = 3
  Directives <- MCDirectives
  Messages <- MCMessages
SPECIFICATION Spec
INVARIANTS ScreenShowsTail StopsAtNul NumberDenoted FloatCut
CHECK_DEADLOCK FALSE
