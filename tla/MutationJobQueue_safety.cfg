SPECIFICATION Spec
CONSTANTS
  w1 = w1
  w2 = w2
  j1 = j1
  j2 = j2
  None = None
  Worker = {w1, w2}
  Job = {j1, j2}
  Backend = "json"
  MaxAttempts = 2
  MaxCrashes = 1
  MaxPlans = 8
INVARIANTS AttemptsBounded LeasedOnce LedgerExplainsRows
PROPERTIES LeaseProtected VerdictStays
SYMMETRY Symmetry
CHECK_DEADLOCK FALSE
