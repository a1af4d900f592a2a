SPECIFICATION FairSpec
CONSTANTS
    MaxSnapshots = 2
    MaxEntries = 2
    MaxDamages = 1
    MaxBoots = 3
    Torn = Torn
    NoSnapshot = NoSnapshot
INVARIANTS NewestRestored SnapshotsNeverAhead
PROPERTIES OldestPruned CheckSettles
CHECK_DEADLOCK FALSE
