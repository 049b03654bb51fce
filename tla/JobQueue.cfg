CONSTANTS
  Jobs = {j1, j2}
  Slots <- OneSlotEach
  MaxRetries = 1
SPECIFICATION FairSpec
INVARIANTS SlotsAccounted RunningIsOwned CancelReachesRetries CompletedIsSaved
PROPERTIES SettledRecordsStand CancelEnds ImplementsFairBoard
CHECK_DEADLOCK FALSE
