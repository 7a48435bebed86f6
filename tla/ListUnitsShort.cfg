\* The documented "EXPIRED (re-sign)" of a listing into a market's queue.
SPECIFICATION Spec
CONSTANTS
  Target = 1
  MaxAttempts = 2
  MaxRetries = 1
  MaxTxs = 2
  MaxCrashes = 0
INVARIANT QueueListingToppedUp
CHECK_DEADLOCK FALSE
