CONSTANTS
  Timeouts = {2, 3}
  Buffer = 1
  MaxTime = 6
  MaxTasks = 3
  MaxEdits = 1
  MaxFaults = 2
SPECIFICATION ExtendSpec
INVARIANTS KeepsExtending Lockstep NoOverrun
CONSTRAINT Bounded
CHECK_DEADLOCK FALSE
