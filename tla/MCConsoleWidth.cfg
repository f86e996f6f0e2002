CONSTANTS
  WordBits = 6
  ShortBits = 5
  ByteBits = 4
  Tenths = 3
  COLS = 4
  ROWS = 3
  Directives <- MCException
  Messages <- MCMessages
SPECIFICATION Spec
INVARIANTS WidthKept
CHECK_DEADLOCK FALSE
