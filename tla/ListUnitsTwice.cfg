\* The documented "Created once per task, however often this one is reclaimed".
SPECIFICATION Spec
CONSTANTS
  Target = 1
  MaxAttempts = 2
  MaxRetries = 1
  MaxTxs = 1
  MaxCrashes = 1
INVARIANT HandedOffOnce
CHECK_DEADLOCK FALSE
\* INVARIANT AlwaysRecorded in its place is violated too.
