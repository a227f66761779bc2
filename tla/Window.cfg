CONSTANTS
  Packets = {p1}
  p1 = p1
  MaxAge = 2
  MaxCount = 2
SPECIFICATION FairSpec
INVARIANT CountedInItsWindow
INVARIANT RotationSpoilsOne
PROPERTY ForgottenAfterTwo
PROPERTY StopReturns
CHECK_DEADLOCK FALSE
