CONSTANTS
  T = 10
  MemPages = 20
  LowEnd = 2
  DmaEnd = 10
  KernelMax = 3
  VBase = 40
  VLast = 45
  BlockSlots = 1
  Counts = {1, 2}
  Devices <- ScreenAndMore
  Segments <- TwoPages
SPECIFICATION Spec
INVARIANTS TypeOK SharedOnlyUnmarked BlocksApart OnlyUsedMapped StopsForCause
PROPERTIES ContentsKept LostOnlyWithBlock
