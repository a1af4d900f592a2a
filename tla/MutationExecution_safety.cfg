SPECIFICATION FairSpec
CONSTANTS
  Mutations = {m1, m2}
  Files <- MCFiles
  Existing <- MCExisting
  TargetLists <- MCTargetLists
  Bits <- MCBits
  PerMutation = 2
  PerEpoch = 3
  MaxFaults = 2
  None = None
  Absent = Absent
  Torn = Torn
CHECK_DEADLOCK FALSE
INVARIANTS ExecutedMeansAll PreimageKept CertificateIsTrue FailedLeavesNothing FileBehindLedger EntropyAccounted LineageTellsOutcome
PROPERTIES ExecutionEnds
