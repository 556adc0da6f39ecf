\* Rows without columns: 0 bytes each, so no block is ever full.
SPECIFICATION Spec
CONSTANTS
  a = a
  b = b
  cursor = cursor
  stream = stream
  Runs = {r1}
  Readers = {cursor}
  Rows = {a}
  NoRow = NoRow
  NoRun = NoRun
  RowSize <- MCEmptyRowSize
  Payload = 2
  CountMod = 3
  AnonStart = 1
  Chunk = 2
  MaxBlock = 7
  WriteBatch = 2
  ReadBatch <- MCReadBatch
  MaxRows = 4
  MaxWriters = 1
PROPERTY
  FinishKeepsRows
CHECK_DEADLOCK FALSE
