SPECIFICATION FairSpec
CONSTANTS
  Requests = {r1, r2, r3}
  Consumer = consumer
  NoMsg = nomsg
  Ops = {"connect", "timeout", "delete"}
  Overlap = FALSE
  Faults = {}
  MaxCrashes = 0
INVARIANTS TypeOK RunningHasTimeout RowTellsState DeletedStaysDeleted
PROPERTIES IdleIsPaused
CHECK_DEADLOCK FALSE
