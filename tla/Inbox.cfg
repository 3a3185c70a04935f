\* Two requests of the dashboard, one command; two imports, two messages.
CONSTANTS
  d1 = d1  d2 = d2  c1 = c1
  Dashboard = {d1, d2}
  Cli = {c1}
  Targets = {"inbox", "conversations", "conversation"}
  None = None
  MaxMessages = 2
  MaxKnowledge = 1
  MaxCrashes = 1
  MaxImports = 2
SPECIFICATION MCFairSpec
CHECK_DEADLOCK FALSE
INVARIANTS
  OneReader
  ReadIsFresh
  ShowsDurable
  OneDraftPerInput
PROPERTIES
  MirrorOnlyGrows
  StaleIsDiscarded
  CallerReturns
  LatestIsDrafted
