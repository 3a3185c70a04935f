\* Two commands, two approval files, two artifacts of one vacancy and one of
\* another: batches of two, an artifact exported twice, a crash.
CONSTANTS
  p1 = p1  p2 = p2
  f1 = f1  f2 = f2
  n1 = n1  n2 = n2  n3 = n3
  v1 = v1  v2 = v2
  Commands = {p1, p2}
  Files = {f1, f2}
  Nonces = {n1, n2, n3}
  VacancyOf <- MCVacancyOf
  None = None
  MaxItems = 2
  MaxExports = 2
  MaxRuns = 2
  MaxCrashes = 1
SYMMETRY Symmetry
SPECIFICATION MCSpec
CHECK_DEADLOCK FALSE
INVARIANTS
  OnePostPerExport
  SettledBeforeNext
PROPERTIES
  OneExposure
