SPECIFICATION Spec
CONSTANTS
  Runs = {r1, r2, r3}
  AnonStart = 2
  Chunk = 3
  MaxBlock = 8
SYMMETRY RunSymmetry
INVARIANTS
  TypeOK
  ExclusiveBlocks
  NoBlockLost
  ReservedConsecutive
  ReservationNeverEmpty
  ScanIsBestFit
PROPERTIES
  GrowsOnlyWhenFull
