SPECIFICATION Spec
CONSTANTS
  a = a
  b = b
  cursor = cursor
  stream = stream
  Runs = {r1, r2}
  Readers = {cursor}
  Rows = {a, b}
  NoRow = NoRow
  NoRun = NoRun
  RowSize <- MCRowSize
  Payload = 2
  CountMod = 4
  AnonStart = 1
  Chunk = 2
  MaxBlock = 7
  WriteBatch = 2
  ReadBatch <- MCReadBatch
  MaxRows = 3
  MaxWriters = 3
SYMMETRY RunSymmetry
INVARIANTS
  SealedRunsOnDisk
  PendingIsTail
PROPERTIES
  ImplementsScratchSpace
  ImplementsRunStore
\* The bound on opened writers ends the run.
CHECK_DEADLOCK FALSE
