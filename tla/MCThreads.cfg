CONSTANTS
  MaxTid = 4
  Reload = 1
  MaxSleep = 1
  Ops = {"kill", "suspend", "sleep"}
SPECIFICATION Spec
INVARIANTS TypeOK RingHoldsAll ScanTerminates HolderIsCurrent
PROPERTIES StoppedStayStopped ReadyRuns SleeperWakes InitEnds
