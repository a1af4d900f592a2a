SPECIFICATION Spec
CONSTANTS
  g1 = g1
  g2 = g2
  m1 = m1
  None = None
  Gate = {g1, g2}
  LongLived = {g1}
  Writer = {g1}
  Serial = TRUE
  Strict = TRUE
  Mutation = {m1}
  Batches <- BatchOfOne
  Expiry = 0
  MaxTime = 1
  MaxQueue = 2
  MaxAudit = 4
  MaxCrashes = 1
  MaxTears = 1
  MaxLosses = 1
INVARIANTS IndexFaithful  PendingExact ReturnedIsRecorded
CHECK_DEADLOCK FALSE
