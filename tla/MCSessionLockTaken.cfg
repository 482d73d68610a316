SPECIFICATION FairSpec
CONSTANTS
  o1 = o1
  o2 = o2
  c1 = c1
  Outputs = {o1, o2}
  Clients = {c1}
  None = None
  MaxMail = 0
  MaxChanges = 1
  Reconfigure = TRUE
  Mirroring = FALSE
PROPERTY
  LockIsConfirmed
CHECK_DEADLOCK FALSE
