CONSTANTS
  a1 = a1
  a2 = a2
  Agents = {a1, a2}
  AttackConfirm = 1
  RecoveryConfirm = 2
  PollEvery = 3
  Window = 3
  Stale = 3
  Faults = {"lost", "restart"}
SYMMETRY Interchangeable
SPECIFICATION Spec
INVARIANT NoSpontaneousDefense
INVARIANT AnsweredInTime
INVARIANT EndsInTime
