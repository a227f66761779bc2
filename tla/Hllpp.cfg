CONSTANTS
  h1 = h1
  h2 = h2
  h3 = h3
  drain = drain
  check = check
  ship = ship
  rotate = rotate
  NoThread = NoThread
  Nil = Nil
  Hash <- MCHash
  Idx <- MCIdx
  MaxRho = 4
  IdxOf <- MCIdxOf
  RhoOf <- MCRhoOf
  Threads = {drain, check, ship, rotate}
  Usages <- WindowAndAggregate
  MergeTrigger = 2
  DenseLen = 2
SPECIFICATION Spec
INVARIANT NoLostInsert
INVARIANT NothingForeign
INVARIANT ReadsSeeCompleted
INVARIANT StableUnderLock
INVARIANT SomeCallProceeds
INVARIANT OnlyLocksBlock
PROPERTY ImplementsSketch
CHECK_DEADLOCK FALSE
