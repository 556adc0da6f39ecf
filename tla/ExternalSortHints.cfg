SPECIFICATION Spec
CONSTANTS
  a1 = a1
  a2 = a2
  b1 = b1
  b2 = b2
  c1 = c1
  Rows = {a1, a2, b1, b2, c1}
  Key <- MCKey
  Requests <- MCMisledRequests
  RowBytes <- MCRowBytes
  CompactBytes <- MCCompactBytes
  RunBudget = 4
  CompactBudget = 3
INVARIANTS
  OutputIsSorted
\* The sort ends.
CHECK_DEADLOCK FALSE
