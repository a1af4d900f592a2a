SPECIFICATION Spec
CONSTANTS
  n1 = n1
  n2 = n2
  n3 = n3
  None = None
  Node = {n1, n2, n3}
  CallerChecks = TRUE
  JournalFails = TRUE
  MaxTerm = 2
  MaxVotes = 3
  MaxLog = 1
  MaxRestarts = 1
INVARIANTS VoteOnce OneLeaderPerTerm EntriesBacked
PROPERTY TermAdvances
SYMMETRY NodeSymmetry
CHECK_DEADLOCK FALSE
