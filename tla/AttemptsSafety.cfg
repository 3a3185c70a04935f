SPECIFICATION MCSpec
CONSTANTS
  Processes = {p1, p2}
  Vacancies = {v1, v2}
  Attempts = {a1, a2}
  NegotiationIds = {n1, n2}
  ConversationIds = {}
  None = None
  MaxDispatches = 1
  MaxCrashes = 1
SYMMETRY Symmetry
INVARIANTS
  DispatchBudget
  OneBlockingAttempt
  ExposedIsBlocking
  AtMostOneExposed
  PositiveIsTrue
PROPERTIES
  SettledIsFinal
  ImplementsAtMostOnce
