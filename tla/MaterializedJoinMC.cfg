SPECIFICATION JoinSpec
CONSTANTS
  a1 = a1
  a2 = a2
  a3 = a3
  b1 = b1
  b2 = b2
  c1 = c1
  c2 = c2
  s1 = s1
  s2 = s2
  Rows = {a1, a2, a3, b1, b2, c1, c2, s1, s2}
  NoRow = NoRow
  NoRun = NoRun
  Runs = {1, 2, 3}
  Readers = {1, 2, 3}
  Depth = 3
  Build <- MCBuild
  Streamed = {s1, s2}
  RowBytes <- MCRowBytes
  Budget = 3
  Unsatisfied <- MCUnsatisfied
INVARIANT
  RowsInOnePlace
PROPERTY
  ImplementsJoin
