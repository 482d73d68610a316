SPECIFICATION Spec
CONSTANTS
  t1 = t1
  t2 = t2
  t3 = t3
  Tokens = {t1, t2, t3}
  NoToken = NoToken
  MaxCmds = 4
  MaxEvents = 2
  MaxFailures = 1
  Blanking = TRUE
SYMMETRY Symmetry
INVARIANTS
  TypeOK
  TimersMatchState
  SubmittedBeforePresented
  VBlankComes
  SharedFlagsAgree
PROPERTIES
  ImplementsFrameLoop
CHECK_DEADLOCK FALSE
