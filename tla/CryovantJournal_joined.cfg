SPECIFICATION Spec
CONSTANTS
  p1 = p1
  p2 = p2
  a = a
  b = b
  Proc = {p1, p2}
  Payload = {a, b}
  Absent = Absent
  NoTail = NoTail
  Unlocked = Unlocked
  Foreign = Foreign
  Genesis <- ShippedGenesis
  InitialFiles <- EmptyFile
  InitialTails <- NoTailFile
  MaxLen = 3
  MaxFaults = 1
INVARIANT WarmIsCold
SYMMETRY ProcSymmetry
