SPECIFICATION RescaleSpec
CONSTANTS
  Markets = {m1, m2}
  Home = m1
  NoMarket = none
  MaxReplicas = 2
  MaxJobs = 5
  MaxTasks = 4
  MaxEdits = 3
  MaxTrouble = 0
INVARIANT EachMoveReplaced
CHECK_DEADLOCK FALSE
CONSTRAINT Undisturbed
