SPECIFICATION MCSpec
CONSTANTS
  Gateways = {w1}
  Clis = {}
  Drafts = {d1, d2}
  Actions = {a1, a2}
  None = None
  MaxTexts = 1
  MaxWritesPerRun = 2
  MaxWritesPerDay = 2
  MaxCrashes = 1
SYMMETRY Symmetry
INVARIANTS
  TypeOK
  OneDispatch
  OneActiveApproval
  ConfirmedIsDelivered
PROPERTIES
  SendsCurrentText
  WithdrawnIsNotSent
