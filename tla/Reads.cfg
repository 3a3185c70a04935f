SPECIFICATION FairSpec
CONSTANTS
  r1 = r1
  r2 = r2
  r3 = r3
  Reads = {r1, r2, r3}
  Priority <- OneUrgent
  Limiters = {"requester", "transport"}
  Slots = 2
  Interval = 1
  MaxRetries = 1
  MaxDelay = 1
  MaxCancels = 1
INVARIANTS
  TypeOK
  SlotsCoverReads
  NoLostWakeup
PROPERTIES
  QueuedReadIsServed
