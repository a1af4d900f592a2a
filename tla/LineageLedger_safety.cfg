SPECIFICATION FairSpec
CONSTANTS
  w1 = w1
  w2 = w2
  Writer = {w1, w2}
  Bundler = {w1}
  Fragment = Fragment
  Joined = Joined
  Unlocked = Unlocked
  Orphaned = Orphaned
  NoDigest = NoDigest
  MaxAttempts = 2
  MaxAppends = 2
  MaxCrashes = 1
INVARIANTS ChainIntact CommittedStays AttemptsArePaid DigestFollowsFile
PROPERTIES WholeLinesStay AppendReturns
CHECK_DEADLOCK FALSE
