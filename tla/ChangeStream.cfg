SPECIFICATION FairSpec
CONSTANTS
  a1 = a1 k1 = k1 
  None = None
  Apis = {a1}
  Conns = {k1}
  ApiOf <- OneReplica
  MaxWrites = 2
  MaxFaults = 2
INVARIANTS NothingMissed Settles
PROPERTIES EventuallyHandled
CHECK_DEADLOCK FALSE
