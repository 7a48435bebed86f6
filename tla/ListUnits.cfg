SPECIFICATION Spec
CONSTANTS
  Target = 2
  MaxAttempts = 3
  MaxRetries = 1
  MaxTxs = 3
  MaxCrashes = 2
INVARIANTS NoOvershoot PersistedBeforeSent LandedRecorded NothingForgotten
CHECK_DEADLOCK FALSE
