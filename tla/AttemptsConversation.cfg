SPECIFICATION FairSpec
CONSTANTS
  Processes = {p1}
  Vacancies = {v1}
  Attempts = {a1}
  NegotiationIds = {n1}
  ConversationIds = {c1, c2}
  None = None
  MaxDispatches = 1
  MaxCrashes = 0
PROPERTIES
  ConversationIsFinal
