CONSTANTS
  Runs = {r1}
  Clients = {c1, c2}
  Workers = {w1, w2}
  RunKeys = {k}
  MaxRetries = 2
  FixtureMode = TRUE
  Faults = {"death", "abort", "lostReply", "reread"}
  MaxDeaths = 2
SPECIFICATION FairSpec
PROPERTIES JobsEnd
CHECK_DEADLOCK FALSE
