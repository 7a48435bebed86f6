SPECIFICATION Spec
CONSTANTS
  u1 = u1 u2 = u2 u3 = u3
  Units = {u1, u2}
  MaxEpoch = 1
  MaxRetries = 3
  MaxEdits = 1
  MaxFaults = 0
INVARIANT DrainForgetsNothing
CHECK_DEADLOCK FALSE
