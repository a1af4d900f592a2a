SPECIFICATION Spec
CONSTANTS
  p1 = p1
  p2 = p2
  a = a
  b = b
  Proc = {p1, p2}
  Payload = {a, b}
  Absent = Absent
  NoTail = NoTail
  Unlocked = Unlocked
  Foreign = Foreign
  Genesis <- ShippedGenesis
  InitialFiles <- MissingFile
  InitialTails <- StaleTailFile
  MaxLen = 2
  MaxFaults = 1
INVARIANTS ChainIntact WarmEqualsCold TailsSound
PROPERTIES TornBlocks AppendOnly UnverifiedEditCaught
SYMMETRY ProcSymmetry
CONSTRAINTS UntilRaced FewBusy
