CONSTANTS
  Runs = {r1, r2}
  Sources <- MCSources
  Info <- MCInfo
  Request <- MCRequest
  Pages <- MCPages
  Concurrency = 2
  Config <- MCConfig
  Horizon = 2
  MaxDay = 3
  MaxRuns = 2
  MaxCrashes = 1
SYMMETRY Symmetry
SPECIFICATION Spec
INVARIANT StoredIsOwn
CHECK_DEADLOCK FALSE
