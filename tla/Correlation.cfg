CONSTANTS
  n1 = n1
  n2 = n2
  Nodes = {n1, n2}
  StaleAfter = 2
  Grace = 2
  NsgEnabled = TRUE
  ApiOutcomes = {"done", "failed", "lost"}
  HttpResets = TRUE
  Restarts = TRUE
SPECIFICATION CorrFairSpec
INVARIANT GraceHonoured
INVARIANT RuleFollowsDefense
INVARIANT ControllerKnows
PROPERTY DefenseEnds
PROPERTY AttackAnswered
CHECK_DEADLOCK FALSE
