SPECIFICATION LiveSpec
CONSTANTS
  Jobs = {j1, j2}
  ReplicaCounts = {1, 2}
  MaxStreak = 2
  MaxRefills = 1
  NoJob = NoJob
INVARIANTS SlotsKept
PROPERTIES ComesBack
CHECK_DEADLOCK FALSE
