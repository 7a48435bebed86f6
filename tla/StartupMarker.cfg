\* The documented "it survives to here only on a job that never came online".
SPECIFICATION Spec
CONSTANTS
  MaxEvents = 2
INVARIANT MarkerOnlyOffline
CHECK_DEADLOCK FALSE
