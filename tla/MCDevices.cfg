\* lines of both controllers, the cascade and both spurious ones
CONSTANTS
  Lines = {2, 7, 8, 15}
  NS = 10
  PER = 3
  TimeReload = 2
  ThreadReload = 1
  MaxRtc = 8
  SetSeconds = {0, 5}
  SetNanos = {0, 9}
  LastYear = 2101
  Times <- MCTimes
SPECIFICATION DevicesSpec
INVARIANTS MaskWritten DisabledStaysMasked LockLostOnlyIfBare InSync NanosecondInRange ReadsTheDate
PROPERTIES NotPutBack
