SPECIFICATION Spec
CONSTANTS
  MaxMutations = 1
  Bits <- MCBits
  Ceiling = 3
  MaxEpochs = 3
  MaxEvents = 8
  MaxBoots = 1
  NoState = NoState
  Missing = Missing
  Torn = Torn
CHECK_DEADLOCK FALSE
INVARIANTS ContinuityNeverFails
