SPECIFICATION MCSpec
CONSTANTS
  o1 = o1
  o2 = o2
  dell = dell
  lg = lg
  c1 = c1
  g1 = g1
  g2 = g2
  workspace = workspace
  window = window
  None = None
  NoEdid = NoEdid
  Outputs = {o1, o2}
  Edid <- MCEdid
  Modes = {"OutputBound"}
  Pins <- SomePins
  Reorder = TRUE
  Overviews <- NotAnimated
  MaxLen = 3
  MaxContent = 2
  MaxTokens = 0
  MaxPins = 2
  MaxGroups = 2
  Clients = {c1}
  Screens = {o1}
  Spaces = {workspace}
  Groups = {g1, g2}
  Labels = {"active", "idle"}
  Active = "active"
  Tilings = {"tiled", "floating"}
  MaxChanges = 2
  MaxLate = 1
  MaxRequests = 1
  Windows = {window}
  Titles = {"before", "after"}
  Geometries = {1, 2}
VIEW View
INVARIANTS
  NoneIsLost
  ProtocolAgrees
  HomeIsKept
  ClientsSeeTheWorkspaces
PROPERTIES
  ShownWorkspaceStays
  LabelsAreStable
  ClientsSeeTheWindows
CHECK_DEADLOCK FALSE
