CONSTANTS
  ip1 = ip1
  ip2 = ip2
  Ip <- MCIp
  Row <- MCRow
  Col <- MCCol
  ColOf <- MCColOf
  MaxCount = 7
  LimitFlag = 18
  LimitIfZero = 2
  TokenUnits = 2
  GlobalRPS = 1
  MaxElapsed = 3
  MaxWait = 6
  MaxOffers = 6
  W = 8
  P = 4
  PP = 6
  Sketches = {1, 2}
  Streams <- MCStreams
  MaxLen = 3
  N = 4
  NumLocks = 2
  Ranks = {3, 4}
  MaxRank = 7
  Inserters = {1, 2}
  Holder = 3
  Other <- Sparsely
  Stored <- MCStored
  Counts = {0, 1, 12}
  MinHistory = 4
  MaxHistory = 5
  Squared = 2
  AlphaInverse = 20
  AloneInverse = 4
  EwmaWarmup = 2
  Deviation = 2
  CountUnit = 5
  LodaWarmup = 2
  HstWindow = 3
  Threshold = 400
  MaxDepth = 2
  WindowSize = 4
  MassUnit = 100
  MaxPackets = 4
  ChanSize = 1
  BatchSize = 2
  TotalWindows = 3
  AttackLists <- MCAttackLists
  Skew = 1
SPECIFICATION AnySpec
INVARIANT Faithful
INVARIANT NoRankLost
INVARIANT ExactInOrder
INVARIANT WithinLimit
INVARIANT WithinRate
INVARIANT BlamedFairly
INVARIANT QuietIsNormal
INVARIANT FloodLasts
INVARIANT FloodForgotten
INVARIANT SteadyScore
INVARIANT Accounting
INVARIANT SummariesAgree
CHECK_DEADLOCK FALSE
