CONSTANTS
  Runs = {r1, r2}
  Clients = {c1, c2}
  Workers = {w1}
  RunKeys = {k}
  MaxRetries = 1
  FixtureMode = FALSE
  Faults = {}
  MaxDeaths = 1
SPECIFICATION Spec
INVARIANT OneRunPerKey
CHECK_DEADLOCK FALSE
