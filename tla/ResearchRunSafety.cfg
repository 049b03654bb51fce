CONSTANTS
  Runs = {r1, r2}
  Clients = {c1, c2}
  Workers = {w1, w2}
  RunKeys = {k}
  MaxRetries = 1
  FixtureMode = FALSE
  Faults = {"death", "abort"}
  MaxDeaths = 1
SYMMETRY Symmetry
SPECIFICATION Spec
INVARIANTS SettledIsWhole ReadyHasCompletedRun RunningIsHeld ClaimsInsertedOnce
PROPERTY ResultStands
CHECK_DEADLOCK FALSE
