SPECIFICATION FairSpec
CONSTANTS
  Markets = {m1, m2}
  Home = m1
  NoMarket = none
  MaxReplicas = 2
  MaxJobs = 6
  MaxTasks = 5
  MaxEdits = 2
  MaxTrouble = 1
INVARIANT NeverShort
INVARIANT NeverOver
CHECK_DEADLOCK FALSE
CONSTRAINT Undisturbed
PROPERTY MovesOver
