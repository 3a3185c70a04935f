CONSTANTS
  Processes = {p1, p2}
  Attempts = {a1, a2}
  None = None
  AllowAutomaticReplies = TRUE
  Gaps = {0, 1}
  MaxMessages = 3
  MaxListed = 2
  MaxCrashes = 1
SPECIFICATION MCSpec
SYMMETRY Symmetry
CHECK_DEADLOCK FALSE
INVARIANTS
  TypeOK
  ConfirmedIsAnswered
  OneTryPerLife
PROPERTIES
  SettledIsFinal
  ImplementsAtMostOnce
