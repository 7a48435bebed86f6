SPECIFICATION FairSpec
CONSTANTS
  Strategies = {"SIMPLE", "SCHEDULED"}
  Replicas = 1
  Revisions = {1, 2}
  MaxJobs = 2
  MaxTasks = 5
  MaxMoves <- OneOrTwo
PROPERTIES ArchivedStays StopCompletes SwapCompletes
CHECK_DEADLOCK FALSE
