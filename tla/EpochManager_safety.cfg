SPECIFICATION Spec
CONSTANTS
  MaxMutations = 2
  Bits <- MCBits
  Ceiling = 3
  MaxEpochs = 3
  MaxEvents = 9
  MaxBoots = 3
  NoState = NoState
  Missing = Missing
  Torn = Torn
CHECK_DEADLOCK FALSE
INVARIANTS NoBundleAfterEnd OneEpochAtATime EpochBudgetHolds
