CONSTANTS
  AttackConfirm = 2
  RecoveryConfirm = 2
  Agents <- EveryAgent
  Signals <- SomeSignals
  MaxSamples = 2
SPECIFICATION TFairSpec
INVARIANT ResidueBound
INVARIANT MitigationFollowsScores
INVARIANT LearnsFromCalm
INVARIANT ReportsAgree
PROPERTY ConfirmedChanges
PROPERTY MitigationCatchesUp
