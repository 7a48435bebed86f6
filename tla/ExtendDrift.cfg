CONSTANTS
  Timeouts = {2, 3}
  Buffer = 1
  MaxTime = 6
  MaxTasks = 3
  MaxEdits = 1
  MaxFaults = 0
SPECIFICATION ExtendSpec
INVARIANT StaysAligned
CHECK_DEADLOCK FALSE
