\* The documented "The round's throttled LIST below replaces this job instead".
SPECIFICATION InfiniteSpec
CONSTANTS
  Jobs = {j1, j2}
  ReplicaCounts = {2}
  MaxStreak = 2
  MaxRefills = 1
  NoJob = NoJob
INVARIANT EveryJobReplaced
CHECK_DEADLOCK FALSE
SYMMETRY Alike
