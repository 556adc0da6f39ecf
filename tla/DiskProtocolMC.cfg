SPECIFICATION Spec
CONSTANTS
  f = f
  g = g
  unknown = unknown
  BlockSize = 2
  MinGapBytes = 3
  FileLists <- MCFileLists
  Ids = {f, g, unknown}
  NoData = NoData
  Blocks = {0, 1, 2, 3, 4, 5, 6, 7, 8, 9}
  Data = {d1, d2}
  ScratchBlocks = 2
  MaxCount = 2
  PipeCapacity = 2
  MaxCalls = 5
INVARIANTS
  FramingAgrees
  RegionsApart
  MetricsAgree
PROPERTIES
  ImplementsBlockDevice
  EveryCallReturns
  DiskEndsWithClient
\* The bound on calls, or the end of both processes, ends the run.
CHECK_DEADLOCK FALSE
