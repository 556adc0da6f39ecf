SPECIFICATION Spec
CONSTANTS
  x = x
  y = y
  Rows = {x, y}
  Queries <- MCQueries
  InheritedSets <- MCInheritedSets
  PipeCapacity = 2
  MaxRows = 4
  MaxDiskCalls = 1
INVARIANTS
  EndsInPlace
  VerdictIsExact
  NothingLeftBehind
PROPERTIES
  SessionEnds
\* The session ends.
CHECK_DEADLOCK FALSE
