SPECIFICATION MCFairSpec
CONSTANTS
  s1 = s1
  s2 = s2
  k1 = k1
  Services = {s1, s2}
  Commands = {k1}
  DayLength = 2
  StaleAfter = 1
  LastDay = 1
  StageCount = 2
  MaxItems = 1
INVARIANTS
  OneOwner
  ResultIsComplete
PROPERTIES
  FinishedIsFinal
  RunsEnd
