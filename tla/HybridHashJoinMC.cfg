SPECIFICATION Spec
CONSTANTS
  l1 = l1
  l2 = l2
  l3 = l3
  l4 = l4
  l5 = l5
  r1 = r1
  r2 = r2
  r3 = r3
  r4 = r4
  r5 = r5
  r6 = r6
  Left = {l1, l2, l3, l4, l5}
  Right = {r1, r2, r3, r4, r5, r6}
  Match <- MCMatch
  Digests = {0, 1, 2, 3, 4}
  Digest <- MCDigest
  BitGroup <- MCBitGroup
  RowBytes <- MCRowBytes
  BucketBytes = 1
  ReservedBytes <- MCReservedBytes
  RowsPerBlock = 2
  HashBudget = 15
  ResidentBudget = 13
  BloomBits <- MCBloomBits
  Fanout = 2
  MaxDepth = 2
INVARIANTS
  JoinIsExact
  NothingEmittedTwice
  ResidentBytesAreCounted
  BuildRowsAreKept
PROPERTIES
  JoinEnds
\* The join ends.
CHECK_DEADLOCK FALSE
