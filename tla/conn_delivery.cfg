SPECIFICATION Spec
CONSTANTS
  Dispatches = {d1, d2}
  Admins = {a1}
  Leases = {l1, l2}
  MaxAttempts = 2
  RateLimit = 1
  SharedStore = TRUE
  MaxCalls = 3
  None = None
SYMMETRY CallersAlike
INVARIANTS TypeOK RevocationHolds WindowKept
CHECK_DEADLOCK FALSE
