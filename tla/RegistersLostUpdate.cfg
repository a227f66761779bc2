CONSTANTS
  N = 4
  NumLocks = 2
  Ranks = {3, 4}
  MaxRank = 7
  g1 = g1
  g2 = g2
  Inserters = {g1, g2}
  Holder = Holder
  Other <- Sparsely
  Stored <- MCStored
SPECIFICATION Spec
INVARIANT KeptByBucketLocks
CHECK_DEADLOCK FALSE
