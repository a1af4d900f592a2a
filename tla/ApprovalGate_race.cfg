SPECIFICATION Spec
CONSTANTS
  g1 = g1
  g2 = g2
  m1 = m1
  None = None
  Gate = {g1, g2}
  LongLived = {}
  Writer = {g1}
  Serial = FALSE
  Strict = FALSE
  Mutation = {m1}
  Batches <- NoBatch
  Expiry = 1
  MaxTime = 2
  MaxQueue = 2
  MaxAudit = 6
  MaxCrashes = 0
  MaxTears = 0
  MaxLosses = 0
INVARIANT RevocationSticks
CHECK_DEADLOCK FALSE
