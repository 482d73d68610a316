SPECIFICATION Spec
CONSTANTS
  w1 = w1
  w2 = w2
  s1 = s1
  s2 = s2
  Windows = {w1, w2}
  Spaces = {s1, s2}
  None = None
SYMMETRY Symmetry
CONSTRAINT Bound
INVARIANTS
  AnnouncedWhereItIs
  LayersAgree
  FlagsAgree
  OnlyStickyPanics
PROPERTIES
  ComesBack
CHECK_DEADLOCK FALSE
