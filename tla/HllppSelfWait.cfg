CONSTANTS
  h1 = h1
  h2 = h2
  h3 = h3
  drain = drain
  check = check
  ship = ship
  rotate = rotate
  NoThread = NoThread
  Nil = Nil
  Hash <- MCHash
  Idx <- MCIdx
  MaxRho = 4
  IdxOf <- MCIdxOf
  RhoOf <- MCRhoOf
  Threads = {drain}
  Usages <- AggregateLargeOnly
  MergeTrigger = 2
  DenseLen = 3
SPECIFICATION Spec
INVARIANT NoSelfWait
CHECK_DEADLOCK FALSE
