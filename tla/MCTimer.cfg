CONSTANTS
  Clients = {"a", "b"}
  Callback = "callback"
  NS = 3
  MaxSecond = 2
  MaxTimers = 3
  Delays <- MCDelays
SPECIFICATION Spec
INVARIANTS Sorted LockHeld EachOnce
PROPERTIES FiresEarliest DelayKept TimerFires
