SPECIFICATION Spec
CONSTANTS
  Modulus = 8
  SIZE_MAX = 100
  Stream <- MCStream
  PeerISN = 5
  Capacity = 3
  ReadLens = {1, 2}
  Garbage = 99
  FinAhead = FALSE
INVARIANTS
  UnwrapsToClosest
  AcksOnlyArrived
  NextByteAccepted
PROPERTIES
  DrivesReassembler
  WindowNeverShrinks
