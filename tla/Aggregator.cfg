CONSTANTS
  n1 = n1
  n2 = n2
  Nodes = {n1}
  StaleAfter = 1
  Grace = 3
  NsgEnabled = FALSE
  ApiOutcomes = {"done"}
  HttpResets = TRUE
  Restarts = TRUE
SPECIFICATION Spec
INVARIANT NoOutdatedDefense
INVARIANT OneOldSample
PROPERTY ImplementsCorrelation
CHECK_DEADLOCK FALSE
