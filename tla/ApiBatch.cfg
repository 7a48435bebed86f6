SPECIFICATION FairSpec
CONSTANTS
  u1 = u1 u2 = u2 u3 = u3
  Units = {u1, u2, u3}
  MaxEpoch = 1
  MaxRetries = 3
  MaxEdits = 1
  MaxFaults = 2
INVARIANTS NothingForgotten
PROPERTIES OnceEachSpec LandedRecorded
CHECK_DEADLOCK FALSE
