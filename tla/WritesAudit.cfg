SPECIFICATION Spec
CONSTANTS
  Gateways = {w1}
  Clis = {c1}
  Drafts = {d1}
  Actions = {a1}
  None = None
  MaxTexts = 1
  MaxWritesPerRun = 0
  MaxWritesPerDay = 2
  MaxCrashes = 1
SYMMETRY Symmetry
INVARIANTS
  EveryPostAudited
  DailyLimit
