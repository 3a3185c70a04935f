SPECIFICATION MCFairSpec
CONSTANTS
  Processes = {p1}
  Vacancies = {v1}
  Attempts = {a1, a2}
  NegotiationIds = {n1}
  ConversationIds = {c1}
  None = None
  MaxDispatches = 1
  MaxCrashes = 1
PROPERTIES
  DeliveryIsLearnt
