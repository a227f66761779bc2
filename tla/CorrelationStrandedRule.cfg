CONSTANTS
  n1 = n1
  n2 = n2
  Nodes = {n1, n2}
  StaleAfter = 2
  Grace = 2
  NsgEnabled = TRUE
  ApiOutcomes = {"done"}
  HttpResets = TRUE
  Restarts = FALSE
SPECIFICATION CorrFairSpec
PROPERTY RuleLifted
CHECK_DEADLOCK FALSE
