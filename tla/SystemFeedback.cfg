CONSTANTS
  a1 = a1
  a2 = a2
  Agents = {a1}
  AttackConfirm = 3
  RecoveryConfirm = 5
  PollEvery = 5
  Window = 10
  Stale = 20
  Faults = {}
SPECIFICATION FairSpec
PROPERTY NaturalRecovery
