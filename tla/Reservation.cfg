SPECIFICATION FairSpec
CONSTANTS
  n1 = n1 n2 = n2
  Nodes = {n1, n2}
  Target = 2
  MaxTasks = 4
  MaxTerms = 2
  MaxFaults = 1
INVARIANTS WorkConserved NoFillSleptThrough NothingLeftHeld
PROPERTIES ReleasedOnlyIfGone AllListed
CHECK_DEADLOCK FALSE
