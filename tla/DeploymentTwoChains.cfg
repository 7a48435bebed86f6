SPECIFICATION Spec
CONSTANTS
  Strategies = {"SCHEDULED"}
  Replicas = 1
  Revisions = {1, 2}
  MaxJobs = 2
  MaxTasks = 5
  MaxMoves <- Two
INVARIANTS OneChain
CHECK_DEADLOCK FALSE
