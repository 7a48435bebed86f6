SPECIFICATION Spec
CONSTANTS
  Strategies = {"SIMPLE"}
  Replicas = 1
  Revisions = {1, 2}
  MaxJobs = 2
  MaxTasks = 5
  MaxMoves <- Two
PROPERTIES StopSweepsFirst
CHECK_DEADLOCK FALSE
