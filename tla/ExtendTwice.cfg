CONSTANTS
  Timeouts = {3}
  Buffer = 1
  MaxTime = 6
  MaxTasks = 2
  MaxEdits = 1
  MaxFaults = 1
SPECIFICATION ExtendSpec
INVARIANT NeverTwice
CHECK_DEADLOCK FALSE
