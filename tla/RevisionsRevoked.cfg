SPECIFICATION Spec
CONSTANTS
  k1 = k1 k2 = k2 r1 = r1 r2 = r2
  None = None
  Requests = {r1, r2}
  Keys = {k1, k2}
  MaxRevision = 3
  MaxRequests = 3
  MaxFaults = 0
SYMMETRY Interchangeable
INVARIANTS RevokedIsGone
CHECK_DEADLOCK FALSE
\* INVARIANT AccessStops in its place is violated too.
