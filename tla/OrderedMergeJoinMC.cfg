SPECIFICATION MergeSpec
CONSTANTS
  BatchBlocks = 2
  MaxRows = 3
  Capacity = 2
  ExactLimit = 2
  MaxBuckets = 2
  IntBits = 4
  Precision = 3
  MinExponent <- MCMinExponent
  MaxExponent = 9
  Inputs <- MCInputs
  Rejected <- MCRejected
  Absent = Absent
  Blank = Blank
  Estimate = Estimate
INVARIANTS
  TableIsPacked
  StatisticsAreTrue
  ComparesByValue
  EqualKeysMeet
PROPERTIES
  RowsReadInOrder
  MergeImplementsJoin
