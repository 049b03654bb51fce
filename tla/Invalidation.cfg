CONSTANTS
  Objects <- MCObjects
  Kind <- MCKind
  Rows = {"snap", "c1", "c2", "gate", "art", "case"}
  Snapshots = {"snap"}
  Possible <- MCPossible
  NoObject = "none"
SPECIFICATION FairSpec
INVARIANTS DependentsGoStale OnlyDependentsGoStale StopsAreReported
PROPERTY WalkEnds
CHECK_DEADLOCK FALSE
