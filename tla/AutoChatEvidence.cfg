CONSTANTS
  Processes = {p1, p2}
  Attempts = {a1}
  None = None
  AllowAutomaticReplies = TRUE
  Gaps = {0, 1}
  MaxMessages = 3
  MaxListed = 1
  MaxCrashes = 0
SPECIFICATION Spec
INVARIANT NoWeakerFallback
CHECK_DEADLOCK FALSE
