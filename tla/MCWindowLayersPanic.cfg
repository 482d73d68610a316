SPECIFICATION Spec
CONSTANTS
  w1 = w1
  w2 = w2
  s1 = s1
  s2 = s2
  Windows = {w1}
  Spaces = {s1, s2}
  None = None
INVARIANTS
  NoPanic
CHECK_DEADLOCK FALSE
