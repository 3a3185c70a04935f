SPECIFICATION Spec
CONSTANTS
  Gateways = {w1}
  Clis = {}
  Drafts = {d1}
  Actions = {a1}
  None = None
  MaxTexts = 1
  MaxWritesPerRun = 0
  MaxWritesPerDay = 0
  MaxCrashes = 0
PROPERTIES
  TransportHistoryKept
