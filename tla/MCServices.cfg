SPECIFICATION FairSpec
CONSTANTS
  c1 = c1
  c2 = c2
  EditorApp = EditorApp
  PlayerApp = PlayerApp
  NoOwner = NoOwner
  NoApp = NoApp
  w1 = w1
  w2 = w2
  Nowhere = Nowhere
  Clients = {c1, c2}
  Enforce = TRUE
  MaxOwnerEvents = 3
  Windows = {w1, w2}
  Kinds = {"shell-surface"}
  Capacity = 2
  MaxEvents = 4
  Callers = {c1, c2}
  Apps = {EditorApp, PlayerApp}
  AppOf <- ClientApps
  Accels = {"Ctrl+S"}
  ParsedKey <- Spelling
  FocusedGrant = {EditorApp, PlayerApp}
  GlobalGrant = {EditorApp}
  UserKeys = {}
  Physical = "seat"
  Remotes = {"ei"}
  Keys = {"Logo", "R", "Left", "F1", "x"}
  Buttons = {"left"}
  Logo = "Logo"
  ResizeKey = "R"
  Arrows = {"Left"}
  Escape = "x"
  VtKeys = {"F1"}
  UserBound = {"x"}
  AppBound = {"x"}
  VirtualKeys = {"x"}
  MaxHeld = 3
INVARIANTS
  CaughtUp
  
  QuietExitIsForgotten
  OnlyTheLatestLossMisleads
  HeldIsOwnedOnce
PROPERTIES
  GrabsEnd
CHECK_DEADLOCK FALSE
