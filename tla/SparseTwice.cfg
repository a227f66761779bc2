CONSTANTS
  W = 8
  P = 4
  PP = 6
  s1 = s1
  s2 = s2
  Sketches = {s1, s2}
  Streams <- Mixed
  MaxLen = 4
SPECIFICATION Spec
INVARIANT NeverOvercounts
