CONSTANTS
  MaxTid = 4
  Reload = 1
  MaxSleep = 1
  Ops = {"kill", "suspend", "resume", "sleep", "attribute"}
SPECIFICATION Spec
INVARIANTS OtherThreadCallsReturn
