SPECIFICATION FairSpec
CONSTANTS
  o1 = o1
  o2 = o2
  c1 = c1
  c2 = c2
  Outputs = {o1, o2}
  Clients = {c1, c2}
  None = None
  MaxMail = 0
  MaxChanges = 2
  Reconfigure = TRUE
  Mirroring = TRUE
INVARIANTS
  LockedMeansSeen
PROPERTIES
  LockIsConfirmedIfKept
CHECK_DEADLOCK FALSE
