SPECIFICATION Spec
CONSTANTS
  t1 = t1
  t2 = t2
  t3 = t3
  NoToken = NoToken
  d1 = d1
  d2 = d2
  NoGpu = NoGpu
  win = win
  o1 = o1
  o2 = o2
  left1 = left1
  left2 = left2
  right1 = right1
  None = None
INVARIANTS
  EnabledHaveSurfaces
CHECK_DEADLOCK FALSE
