SPECIFICATION LiveSpec
CONSTANTS
  MaxEvents = 2
INVARIANTS OnlineDisarmed OfflineArmed
PROPERTIES DeadlineEnds
CHECK_DEADLOCK FALSE
